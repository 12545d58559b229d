# Verification of auditoria-lancamentos

TLA+ specifications of the parts of this repository where an error would be a
race, a crash, a lost answer or a pairing nobody checks by hand, rather than a wrong
line of code, with the TLC runs that check them on small instances and the TLAPS
proofs that hold for every size. Paths below are relative to `src/apps/api/app/`.

## 1. The system

The API reconciles bank and card statements with the entries of an ERP (Omie). An
analyst uploads statements, which are parsed into lines; a *reconciliation* (one
account, one month) matches the lines with Omie's entries in a background task of the
API process; the analyst reviews the result and may send the lines Omie lacks to Omie.
Beside it, the movements of a client are brought month by month into a base, mapped by
decisions to the accounts of a destination, and delivered as numbered materialisations.

| Component | State | Operations | Talks to | Modelled in |
|---|---|---|---|---|
| Reconciliation lifecycle (`modules/reconciliations/{routes,service,repository}.py`, `processing/job.py`) | `reconciliation_sessions`, `_files`, `_file_entries`, `_omie_entries`, `_anomalies` | create, attach, remove, reprocess, cancel, discard; the task: load, fetch, match, land, mark error | tasks in memory; Omie; PostgreSQL | `ReconciliationSession`, `ExclusiveRun` |
| Sweep (`scripts/mark_stuck_sessions_as_error.py`) | the same rows | marks as error what sits in `processing` | Cloud Scheduler | `ReconciliationSession` |
| Direct posting (`omie_posting/service.py`, `repository.py`) | `reconciliation_omie_postings` | load, decide, ask, intent, POST, confirm | Omie through `OmieClient`, which retries | `DirectPosting` |
| Provisioning (same files, `installment_plan.py`, `keys.py`) | step, ids, attempts of a posting; future installments | supplier, payable, payment, installments and their claim, switch of modes | Omie | `Provision` |
| Review (`review/`, `totals.py`) | lines, anomalies, counters of the session | patch a line, create and resolve anomalies, recount | the lifecycle's rows, posting | `Review` |
| Matching, window, balances (`processing/`) | none outside one run | pairs, situations, anomalies, balances | the task | `Matching` |
| Client mapping (`client_mapping/`) | decisions by period, materialisations | decide, inherit, confirm in bulk, preview, materialise | the movement base | `Mapping` |
| Client connections (`client_connections/`) | type, label, credential, status | create, test, update, delete | the provider | `Connections` |
| Movement base (`client_movements/`, `client_file_ingestion/`, `clients/accounts_cache.py`) | movements, imports, clocks of a month, cached accounts | sync a month, ingest a file | Omie, files, connections | `MovementBase` |
| Parsing (`parse_service.py`, `parse_chunking.py`) | none kept | chunk, call the model, reassemble | Anthropic | - |
| Accounting and output (`client_accounting_chart`, `accounting_files`, `export_layouts`, `export`) | charts, layouts, files | import, generate | - | - |
| Cross-cutting (`auth`, `users`, `organizations`, `notifications`, `usage_events`, `core/`), web front end | users, tokens, notices, events | - | all | - |

What is hard here. Handlers read, decide and later write without a lock, and an UPDATE
carries only the columns that differ from the row *as it was loaded*. The task runs next
to every endpoint and is not stopped by a cancel; the process may die anywhere and nothing
is queued outside it. A write to Omie may succeed without an answer, and its sender, the
retrying client and the next batch each have to decide whether to repeat it. Syncs and
verifications read from outside for seconds with no transaction open. Materialised values
(counters, mapped months) are derived from rows that go on changing. `PROJECT.json` lists
these hazards at their lines, with the properties that cover them.

What makes each modelled component correct:

- lifecycle: a review shows one run's result over exactly the lines attached; an error is
  not undone by a late task; one run at a time; processing always ends; a reconciliation
  keeps a line to reconcile;
- posting: nothing is in Omie that the program does not know it may have sent; a
  confirmation is of the line's own entry; a line is posted at most once, and stays
  confirmed through reprocessing;
- provisioning: a provision is resumed and never repeated; a purchase takes one form; a
  series has no more titles than its purchases; a title has one line and one payment;
- review: where the counters may differ from the rows is exactly known; an entry closes
  one line; unless an analyst states the situation itself, a line counts as conciliated
  exactly if it is linked;
- matching: pairs are one to one and stable; situations, anomalies and balances agree;
- mapping: a delivered month is reproducible; a person's decision stands;
- connections: one type of origin; an error is one the stored credential earned;
- movement base: a month read in peace is the origin's; the file accepted last counts.

## 2. Modules

| Module | What it is |
|---|---|
| `ReconciliationSession` | one reconciliation, its parts, requests in flight, background tasks, the sweep |
| `ExclusiveRun` | abstract: one exclusive run after another, one outcome each; implemented by the former |
| `DirectPosting` | the lines of one reconciliation on their way to Omie, Omie, the batches |
| `Provision` | lines of several invoices on their way into accounts payable, and between the two modes |
| `InstallmentTitles` | abstract: announced, created, offered, taken by one line, paid by it; implemented by the former |
| `Review` | patches, anomalies, postings, resets and landings over one session's counters and links |
| `Matching` | one run's cross-check of lines with movements |
| `Mapping` | decisions and materialisations of one client and destination |
| `Connections` | the connections of one client |
| `MovementBase` | the movements of one client by month, from Omie or from files |
| `X_proofs` | proofs about module `X` |
| `MCX` | model values, input sets, symmetry and views for TLC |

The modules overlap where the code does, and abstract each other there: the runs of
`ReconciliationSession` are `Reset`, `Land` and `Cancel` in `Review`, `Reprocess` and
`Rematch` in `DirectPosting`; a batch of `DirectPosting` is `PostConfirm`, `PostRecount`,
`PostCommit` in `Review`; `Matching` is the inside of the step `TaskLand`; the direct mode
is the few steps `DecideDirect`, `Ask`, `SendDirect` in `Provision`.

A convention all of them share: a request is a record with a `pc`; a step of it is the
code between two points where others can interfere (an await, a lock, a flush, a commit);
what it read is kept in the record, and what it writes is computed from that. Properties
that hold only without some circumstance name it in a history variable (`overlapped`,
`excuse`, `lapse`, `mixed`, `named`, `late`, `exact`; `last` is what one is about); no guard
and no stored value depends on one.

### ReconciliationSession

A request is two steps. `XRead` is the handler up to its decision; the 404s and 409s of
the code are the reads that are not enabled. `XCommit` is the writes and the commit, with
the conditions of the statements themselves and of nothing else: `ReprocessCommit` repeats
the claim's `WHERE`, `AttachCommit` the unique index on the hash, `RemoveCommit` and
`CancelCommit` have no condition because the code has none. A commit that resets also
schedules the task, as the handlers do right after it (`Schedule`).

| Code | Model |
|---|---|
| `reset_session_for_reprocess` | `Reset`, part of the three commits that use it |
| `claim_session_for_reprocess` | `Claimed` |
| `_execute_processing`, step 1 | `TaskLoad` |
| its last transaction, `update_session_after_matching` | `TaskLand` |
| any exception, timeout or shutdown, then `_safe_mark_error` | `TaskFail`, `TaskMarkError` |
| `_safe_mark_error` fails too, or the process dies | `TaskLost` |
| the hourly sweep | `MarkStuck` |

Data is provenance: instead of amounts and matches the state says *which task* linked a
part's lines (`link`), stored entries and anomalies (`rows`) and wrote the totals
(`totals`). A part is parsed or failed as a whole, so one value per part stands for its
lines. `overlapped` is a history variable: a run was scheduled while another was alive.

Abstractions. A transaction is one step (PostgreSQL's read-committed partial interleavings
between a reset and a landing happen only when two runs overlap, which the properties
already exclude or report). An attach brings one part per request. A constraint that fails
while landing is `TaskFail`. The sweep's 25 minutes exceed the task's limit of 15, so
`MarkStuck` requires that no task is alive. Left out: the creation race (a unique index
decides it), `clear_review_work`, the closing of a client, events and notifications.

### DirectPosting

`batch[b]` is a request inside `post_batch`: the lines still to do, the line in hand, its
place in the protocol, and `seen`, the intents loaded at the beginning, which the code
goes on using (the database session does not expire objects on commit). Each step is the
code between two awaits that others can observe: `Decide` (own state first), `AskFound`,
`AskAbsent`, `AskInconclusive` (`_reconcile` on the bank statement), `Intent` (register,
count, commit), `Answered`, `Refused`, `Lost` (one POST of the client's call), `Confirm`
and `ConfirmRefused` (`mark_confirmed` in one transaction), `Abort` (an exception or a
crash). `Flush` is the unit of work: a column is written only if it differs from what the
object had when loaded. `Lost` lets Omie accept, never see, or accept later (`stray`) a
POST without an answer, and the client repeat it up to `HttpTries`.

Omie is external: a map from entry ids to the line whose key they carry. It is *not*
assumed to refuse a second entry with the same key, which the repository records as
unverified, nor to be fast; the statement that is asked is assumed to be up to date with
what was accepted. `Reprocess` and `Rematch` are the effects of the reconciliation around
it: links wiped, and links set by matching to any entry.

`excuse` is a history variable naming what the protocol does not absorb: `race` (two
batches had the line), `retry` (the client repeated a POST that was not lost), `late` (a
POST arrived after Omie said there was none), `failed` (an intent that says failed of a
line that was sent). `AtMostOnce` holds of every line without an excuse, and the theorem
shows that the list is complete for every size.

Left out: `provisionar` lines and the switch between modes (in `Provision`); eligibility
other than "not linked yet" (ignored lines, refunds); kill switches, which only refuse.

### Provision

| Code (`omie_posting/`) | Model |
|---|---|
| `ReconciliationOmiePosting` and its CHECKs `kind_shape`, `provisao_steps_coherent` | `posting`, `Coherent` |
| `..._posting_installment`, registered, done, claimed | `series` |
| `post_batch`'s read, per line | `Read` |
| `_provision`: new intent, resumption, cap, switch | `Decide`, `Refuses`, `Reset` |
| `_post_direct`, `_resolve_pending`, `_send` | `DecideDirect`, `Ask`, `SendDirect` |
| `_step_supplier`, `_step_payable`, `_step_payment` | `SupplierKnown`, `SupplierPending`, `SendSupplier`, `SendTitle`, `SendPayment` |
| `_claim_series_installment`, `find_in_series`, `claim` | `Search`, `InSeries`, `Claim`, `ClaimLost` |
| an answer, a faultstring (`_step_fault`), a timeout | `Accepted`, `Refused`, `Lost`; external: `MayHappen`, `Arrives` |
| `_after_provision`, `_run_future_installments`, `_send_installment` | `Register`, `Sendable`, `SendInstallment`, `InstallmentAccepted`, `InstallmentRefused`, `InstallmentLost`, `Done` |
| an exception or a crash | `Abort` |

Each of Omie's three writes of a provision is idempotent on a key derived from the line
and the installment's number, so an effect is its key and `omie` is a set; effects without
an answer may be there, never come, or fly and arrive late. The unit of work is `Flushed`:
a request writes the columns that differ from the row it loaded, and a CHECK that refuses
ends it. Installments are different: what will be sent, and whether its sends are below the
cap, is decided on the rows as loaded (`Sendable`, in `Register`), while `increment_attempts`
adds one to whatever is stored by then (`SendInstallment`); `MaxAttempts` bounds that count
and is above the cap. A request works on one line: a batch of n is n of them. `excuse` names what the
protocol does not absorb: `race` (two requests had the line), `retry` (a direct POST was
refused after the client had repeated it), `order` (the line was worked in an order that
`find_in_series` cannot see: its title was sent while an installment waited for it, it
claimed a title after its own had been sent, or it sent or registered a title of a purchase
whose other line, `Overtaken`, had been worked before). `order` is in the history of the
line that takes the step, and is decided at that step.

`Identity` stands for what `find_in_series` compares: supplier, value, the M of N/M and the
window of days around the expected due date (`INSTALLMENT_MATCH_WINDOW_DAYS`). "The nearest
due date wins" is a free choice among the installments found, so what holds does not depend
on it. Purchases of equal `Identity` are the ones the program cannot tell apart.
`PurchasesComeOnce` assumes of the invoices that they are finite in number, that an
installment comes once and that, in the words of `service.py:1166`, an invoice does not
bring two installments of the same purchase.

Left out: flagging missing installments, suggesting suppliers, concluding the anomaly
(done by `Review`'s batch).

### Review

| Code | Model |
|---|---|
| `UpdateFileEntryRequest` | `Bodies` |
| `update_file_entry`: load, checks, new values | `PatchRead`, `Patched`, `Taken` |
| its flush, the partial unique index, the recount | `PatchFlush`, `Updated`, `IndexAllows`, `Derived` |
| the UPDATE of the counters and the commit | `Commit`, `PatchCommit` |
| `create_anomaly`, `resolve_anomaly` | `Create`, `Resolve` and their commits |
| `mark_confirmed`, `_resolve_missing_in_omie`, end of `post_batch` | `PostConfirm`, `PostRecount`, `PostCommit` |
| `reset_session_for_reprocess`, the last transaction of the job, a cancel | `Reset`, `Land`, `Cancel` |

`totals.py` counts with SELECTs and writes with one UPDATE, in READ COMMITTED, so a recount
misses what commits between the two: `behind` says that of a request. `lapse` is why the
counters may be wrong now: `overtaken`, `early` (a change while the status was
`processing`, which the landing's own counters do not include) or `posting` (a batch that
has not recounted yet). A recount that missed nothing heals all. `mixed` are lines that two
writers had at once. A body may give a situation, a link, or both, and each is applied without
a look at the other; a link sets the situation only if the body does not. `named` are the lines
whose last patch gave the situation: those may be `conciliado` without a link, or `sem_omie`
with one, as the analyst said. Row locks last from the flush to the commit.

Left out: notes, user actions and verdicts, the patch of an Omie entry (it changes no
counter), reading.

### Matching

`Init` picks an input, `Close` closes the strongest candidate of the current distance in
days (`pass`), `NextPass` goes on when none is left, `Land` settles what the job stores.
The code builds all pairs of a pass, sorts them and takes them greedily; taking the
strongest candidate that is still free, again and again, is the same set, and makes every
intermediate set a state. `Stronger` is the sort key of `_Candidate`: amount, supplier's
name, date at Omie, order of the lines, place in the list. `match_invoice_lot` is the mode
`lot`: one pass, no days. Window, `deduplicate_by_id`, situations, structural anomalies and
balances are the operators around it. `affinity` counts shared words; that is all the
matcher uses of a name. The constant `Inputs` is the set of inputs, so the theorems hold for
whatever a run finds.

Left out: the statistics about ties, texts of anomalies, the checksum and the split-payment
probe, which annotate. Every line has a balance in the model, and the balances of consecutive
lines differ by their amounts; that `compute_balances` gives up, value by value (`None`), when
the first or the last line came without its balance is not modelled.

### Mapping

| Code (`client_mapping/`) | Model |
|---|---|
| `resolve_vigente`, `next_start_after`, `affected_competences` | `Vigente`, `Line`, `StartsAfter`, `Affected` |
| `_guard_retroactivity`, `materialized_competences` | `Guarded`, `Delivered`, `Allowed` |
| `lock_client_destination` | `Free`, `Locked` |
| `write_decisions`, `resolve_inherited`, `insert_decisions` | `Write`, `StillOpen`, `WriteCommit` |
| `confirm_inherited` | `ConfirmRead`, `ConfirmWrite` |
| `inherit`, `insert_inherited` | `Inherit`, `InheritCommit` |
| `preview`, `materialize`, the fingerprint, the UNIQUE of the version | `Preview`, `SameToken`, `Materialise`, `MaterialiseCommit` |

`decision[k][s]` is the row of category `k` that starts in month `s`. `Seen` is the identity
map: `confirm_inherited` reads before the lock, and what its session has read hides what
others have committed since. The categories present in a month are whatever the base
holds: any non-empty set. The fingerprint is taken to be injective. Left out: movements without a
category, partial coverage, the accounting destination's resolution.

### Connections

`CreateCheck`/`CreateInsert` (under `lock_client_origins`), `TestRead`, `TestVerdict` or
`Outage`, `TestMark`; `UpdateRead`, `UpdateVerify`, `UpdateStore`; `Delete`. A run that is
refused by Omie marks the row like a test. `StatusStored` is the unit of work again: the
reactivation is in the UPDATE only if the row was not `ativa` when loaded. The provider
revokes and restores credentials at any time. `late` are rows where a verdict and a
replacement overlapped.

### MovementBase

| Code | Model |
|---|---|
| `accounts_cache.get_or_sync`, start of `_fetch` | `SyncStart`, `Publish` |
| one account's statement | `SyncReadAccount`, `SyncReadFailed` |
| `_upsert_many`, the rows it waits for | `SyncUpsert`, `Free`, `Held` |
| `_mark_absent`: its snapshot, then row by row | `SyncMark`, `SyncMarkRow`, `Missing` |
| the stamp and the commit | `SyncCommit` |
| a failure of the database and the stamp | `PersistFailed`, `Failed` |
| `client_file_ingestion.process`, `_write` | `Upload`, `UploadCommit`, `Replaces`, `NotSent` |
| a crash | `Abort` |

A movement at the origin is a place (month and account) that changes while it is read, as
do the accounts the origin lists and the type of the connection. A sync writes in two
statements of READ COMMITTED. The first waits for every transaction that holds one of its
rows. The second chooses its rows (`seen`) among those committed when it starts, takes them one
by one, waits for whoever holds one and then evaluates that one again; a row that another sync
inserts or brings back and commits during the wait is not among them. `exact` are the cells
read while nothing changed there since, except those of which a sync that had read before
such a change (`dirty`) committed while this one was marking: what that one wrote back stays
`presente` until a later sync. The cache expires at any time (`refreshed` is a choice).
The rows of a file are one value; a file with a header and no line (`Blank`) is accepted, and
empties the month (`last` is the file accepted last). Left out: reading and validating the file, the registry
of categories, amounts.

## 3. Runs

Bounds are the constants of the cfg, the constraint of `PostingSafety` and the view of
`Review`; there is no other.

| Run | Instance | Shows |
|---|---|---|
| `SessionSafety` | 2 good parts, 1 failed, 1 with a repeated hash; 2 runs, 2 requests; fairness | types; `ReviewIsOneRun`; `NoResurrection`; `ProcessingEnds` |
| `SessionClaim` | reprocess and discard, 4 runs, 3 requests | the session implements `ExclusiveRun` |
| `PostingSafety` | 2 lines, 2 batches, 2 entries, 2 HTTP tries, 3 sends per line, 1 stray | types; `IntentBeforeEffect`; `ConfirmedIsThere`; `AtMostOnce`; `ConfirmedStays` |
| `ProvisionSafety` | 3 lines of 2 indistinguishable purchases in 3 invoices and one of another that may go both ways, 2 requests, cap 1, 2 sends | types; `RecordedBeforeSent`; `OneForm`; `NoMoreTitlesThanPurchases`; `OneLinePerTitle`; `BookedIsThere`; `NeverBack`; `CapWhilePending`; the series implement `InstallmentTitles` |
| `Review` | 2 lines, 1 entry, 1 manual anomaly, 2 requests, the run, the bodies `MCAsked` | types; `CountersOfTheRows`; `OneLinePerEntry`; `LinkMeansConciliated` |
| `Mapping` | 1 category, 2 targets, 3 months, 2 materialisations, 2 requests | types and versions; `Reproducible`; `PreviewStillTrue`; `ConfirmedIsFixed`; `RetroactiveSparesDelivered`; `OneProposal`; `BulkConfirmKeepsTargets` |
| `Connections` | 2 connections, 2 labels, 2 credentials, 2 requests | types and labels; `OneTypeOfOrigin`; `ErrorIsDeserved` |
| `MovementBase` | 2 movements, 2 accounts, 2 months, 3 files of which 1 blank, 2 requests at once and 3 in all, 2 changes around them | types; `ExactMonth`; `OneFileCounts` |
| `Matching` | every input of 2 lines and 2 or 3 movements in days 0 to 2 and amounts of 1 to 3 cents, both modes, `MaxDays` 1, `Tolerance` 1 | `OneToOne`; `Stable`; `NoDoubleAlarm`; `ConciliatedMeansBalanced` |
| `SessionOverlap` | violated: `OneRunAtATime` | cancel and reprocess give two live tasks |
| `SessionLastPart` | violated: `KeepsALine` | two removals take the last two parts with lines |
| `PostingDuplicate` | violated: `ZeroDuplicates` | failed, sent again, answer lost, sent again: two entries |

Why the bounds are enough. Two requests and two runs are the smallest instance in which a
read is overtaken by another's commit and a run by another run. A second good part is needed to
remove one, a failed one to attach without a run, a repeated hash for the index. In
posting, two lines are needed for an entry to close the wrong one, two entries for a
duplicate, three sends for the sequence refused, lost, repeated; the constraint
`OneHardLine` leaves two batches on one line, and a stray POST, to one line at a time: lines
share only entries and links, and either suffices to meet the other line. In provisioning, the
three lines are an owner of a series, the line that must find its title and one that could
take it by mistake; the switch of modes has a line of its own. To keep the run within minutes, only the POSTs
of the line that competes for a title may arrive late (`Late`), and each plan has its lines
(`Plans`); the theorems are about any sets of both. In mapping, months before, at and after the current one, and a change
of month while a request runs; categories share only the lock and the batch, and a batch is
written whole or not at all. In the review, `MCAsked` are all bodies with one key and the one
pair that the code itself names; the other pairs make rows that these make in two patches, and
the theorems are about any set of bodies. `MaxAttempts` is one more than the cap, for the send
of a second request. In the base, three files are two that replace each other and a blank one. Elsewhere
two of everything that competes. `MaxDays` 1 and
`Tolerance` 1 are the smallest at which a nearer date and a nearer amount can disagree.
The instance of `ProvisionSafety` is too small for an error of `order` between two
purchases that each have two lines; the proof of `NoTitleTooMany` met it: a title
registered for one purchase is claimed by a line of the other while the line it was meant
for has already been sent. The history `excuse` names that case (`Overtaken`). The proofs lift what passes to every size, but for `ProcessingEnds`.

Deadlock is checked in `Matching`, whose runs end in `Landed`. Elsewhere a system that
nobody uses, or whose ids ran out, may rest.

Each property that passes is also shown to fail on a plausible mistake in the code it is
about. These mistakes are definitions no specification uses, written just before the one
they vary; `mutants` in `PROJECT.json` pairs them. Those of `ReconciliationSession` are
`RemoveCommitNoReset`, `ResetKeepsRows`, `TaskLandUnguarded`, `ClaimedOnTheRead` and
`MarkStuckAfterCreation`; of `DirectPosting` `LinkedNowhere`, `IntentUncommitted`,
`AskFoundAny`, `NeverAsks`, `DecideForgetful`; of `Provision` `AnyRow`,
`RegisteredNowhere`, `SwitchAllowedBeforeTitle`, `InSeriesDone`, `ClaimableOnTheRead`,
`RefusedAsDone`, `FailedFromTheStart`, `RefusesLate`, `InstallmentRefusedAsDone`; of `Review`
`MaterialisedConciliatedOnly`, `MaterialisedLinesOnly`, `IndexIgnored`,
`UnlinkKeepsSituation`; of `Mapping` `LatestOfAll`, `TouchedNew`, `FreeAlways`,
`StillOpenUnasked`, `GuardedPast`, `ProposedLatest`; of `Connections`
`LabelTakenByActive`, `SingleOriginActive`, `OutageMarks`; of `MovementBase`
`FailedForgets`, `MissingAnywhere`, `ReplacesNothing`; of `Matching` `Repeated`,
`LineByLine`, `NextPassAtOnce`, `CountsAnywhere`.

**Fairness.** `FairSpec` (in `SessionSafety`) assumes weak fairness of each task's steps
and of the sweep, and of no request. `asyncio.timeout` ends every task and its error path
runs or is lost with the process (`TaskLost` is one of the task's steps, so no task is
assumed to succeed); the sweep is scheduled hourly. No other component owes anybody
progress: everything else waits for a person's request.

### Where the code and what it says of itself part

The three violated properties quote the repository (`findings` in `PROJECT.json`). Reading
and modelling met these as well; the models follow the code, and the properties carry the
exception named in each case.

- A cancel does not stop the task, whose landing stores its matches and entries in a row
  that is in `error`, although a comment (`modules/reconciliations/repository.py:546-552`) says such rows have none.
- The docstring of `_safe_mark_error` (`processing/job.py:716-720`) says that when marking
  the error fails too, the session stays in `processing` indefinitely, without automatic
  recovery, until somebody runs a migration by hand. The sweep
  (`scripts/mark_stuck_sessions_as_error.py`, which `job.py:242` calls the final safety net)
  takes any session by status and age, that one included: `ProcessingEnds` holds through
  `TaskLost`, against the docstring.
- `_send_installment` tests the cap on a row loaded earlier and its UPDATE adds one to what is
  stored: two requests with one line may exceed `MAX_STEP_SENDS` (`CapWhilePending` excepts
  lines in `race`, and what `TypeOK` bounds is `MaxAttempts`, not the cap).
- `MAX_STEP_SENDS` caps the sends of a step whose status is `pending`; a faultstring resets
  the count and makes it `failed`, whose sends start over (`CapWhilePending` says that).
- `_after_provision` is also called for a confirmed line of the direct mode when
  installments are asked for, and raises there; the model ends the request.
- A crash between the last step of a provision and its conclusion leaves the line's anomaly
  open.
- `_kind_switch_allowed` takes one refused direct POST as proof that nothing was written;
  the client may have repeated that POST after a lost answer (excuse `retry`).
- Invoices processed out of order create two titles for one installment (excuse `order`).
- `confirm_inherited` reads before the lock, and its session hides newer decisions: a
  confirmation in bulk may supersede what a person decided meanwhile
  (`BulkConfirmKeepsTargets` holds unless `late`).
- The counters of the list and the rows of the detail may differ (`lapse`), although
  `totals.py:28-29` says that list and detail do not diverge.
- A patch alone may make a line `conciliado` without a link, or `sem_omie` or `ignorado` with
  one: `update_file_entry` does not compare the two (`named`). Two concurrent patches of one
  line may leave it linked and `sem_omie` although neither asked for that (`mixed`).
- A replaced credential and the verdict on the one before may leave a good connection in
  `erro` (`late`).
- Two overlapping syncs of a month may leave in the base a movement that the later of them did
  not find: the other commits it after the marking has chosen its rows. Both say they
  succeeded; the next sync repairs it (outside `exact`).
- A file with a header and no line is accepted and takes the month's movements out of the base.
- For one line, the place in Omie's list decides between movements of the same day one cent
  above and below, which the matcher's comment calls indistinguishable.

## 4. Proofs

Each `X_proofs` assumes the named assumption on the constants of `X` and nothing else
(`ClaimExcludes` assumes also that the entry points in use are reprocess and discard). All
theorems about states and steps go through an inductive invariant with one lemma per action.

- `ReconciliationSession_proofs`. `TypeCorrect`: `TypeOK` is inductive. `ReviewedIsOneRun`:
  the review says nothing of a run still under way, so `RunInv` says what each phase of a
  run owes: one live task while nothing overlapped, none under review, and, while the
  status is `processing`, a clean slate whose lines are the ones loaded. `CancelPrevails`:
  the guard of the landing, and nothing else writes `reviewing`. `ClaimExcludes`:
  refinement of `ExclusiveRun` with `running` as "some task is alive"; `ClaimInv` says that
  a live task implies `processing`, which is what the claim's `WHERE` excludes.
- `DirectPosting_proofs`. `IntentIsDurable`: with `StepInv` (a batch at its POST has
  recorded the line) because a record is never erased and nothing comes to Omie but by a
  batch at its POST. `PostedAtMostOnce`: `OnceInv` says that a line without an excuse has
  nothing at Omie while a batch is about to send it; that needs `AloneInv` (without a race
  one batch has the line and what it loaded is what is stored). `ConfirmedEntryExists`,
  `ConfirmedIsFinal`: from the same invariant.
- `Review_proofs`. `EntryClosesOneLine`: links being written are nobody's nor about to be
  (`LinksFree`), and one uncommitted patch holds a line (`OneWriter`). `LinksAgree`: two
  requests that have one line are in `mixed` (`Alone`), and a lone one that leaves the situation
  to the code leaves an agreeing row (`WillAgree`); the others put the line in `named`, until a
  lone writer leaves it in agreement again. `CountersAreOfTheRows`: what a request that is not behind has counted is
  what will be there after its commit (`CountIsTrue`), and a run nobody interfered with lands
  on what the reset left (`CleanRun`), so its counters, taken from the matching, are those of
  the rows.
- `Provision_proofs`. What a row says is what was sent: `LineFacts` relates the stored row to
  the effects of its line, `TaskInv` the copy a request holds to the stored row, and `Single`
  says that two copies of one row have `race` in the line's history. Facts that a race
  destroys are claimed only without one (`AloneFacts`), those that any refused POST destroys
  only without an excuse (`CleanFacts`), the rest always, through `Flushed` merging two
  requests' writes. `NeverInBothForms`: an effect of the direct form needs a direct row that
  was sent more than once or not refused (`SentDirect`), which is what `SwitchAllowed` denies.
  `TitlesHaveOneLine`: a line holds its own title or the one it claimed (`Held`), a claim
  never changes, and an installment that can be claimed is nobody's own (`SeriesInv`).
  `NoTitleTooMany` counts: every title of installment n answers for a line (`Answers`, the
  claimant or, before, the line that brought or announced it), and two titles must not answer
  for lines of one purchase (`Spread`). `CountInv` keeps that: a claimed title is its
  claimant's only one and replaces its own, a claim aims at a title of its number and
  purchase, and the titles taken (at Omie, on their way or registered) are enough for none to
  be left over (`Counts`). Only three steps can disturb it (`SteadySteps`): a claim, the
  sending of a line's own title and the registration of those to come; for the last two,
  `ToldApart` derives from what the history did not note that titles and purchases stay one
  to one. `PurchasesComeOnce` is used there and nowhere else.
  `SeriesKeepsItsPromise`: refinement of `InstallmentTitles`, with `announced` as what `series`
  has, `existing` as the titles at Omie, `offered` as `done` and `paid` as the payments at Omie.
  Three actions are steps of it (`Register`, `Claim`, `InstallmentAccepted`), the outcome of a
  POST is one if it is of such a title (`Appears`), everything else is none; no circumstance
  is excepted, races included.
  `SendsAreCapped`: that a count below the cap when it was loaded is still below it at the send
  (`CapInv`, by `Carried`) is claimed only of lines without `race`, where nobody else counts.
  `ProvisionsOnlyAdvance` is proved with the invariant, action by action (`Onward`). `Rest`
  says once what a step of one line leaves as it is for every other line and request.
- `Mapping_proofs`. While a request holds the lock, what it has read stays true (`Knows`):
  hence `StoredIsTrue`, `ConfirmedStands`, `ProposedOnce`, `BulkConfirmIsNeutral` and
  `RetroactiveIsHarmless`. `PastIsReproducible`: a month delivered when past keeps its lines
  under every later decision (`PastSettled`), because the guard refuses those that would
  govern it. Versions are consecutive by the lock and the UNIQUE. Maxima of sets of starts
  and versions exist by the well-foundedness of the naturals.
- `Connections_proofs`. One creation at a time holds the lock from the check to the insert,
  and nothing else adds rows (`ClientHasOneTypeOfOrigin`); a verdict is about the stored
  credential unless a replacement overlapped (`ErrorsAreDeserved`).
- `MovementBase_proofs`. `MonthIsExact`: what a sync has read of an account since the last
  change there is true (`ReadIsTrue`), what it has marked as absent is still gone, and what is
  left in those cells beside its own rows is still to be looked at (`NothingLeft`, with `seen`),
  while it holds its rows (`RowLocks`, `HeldBy`); `Knows` is all of that. A commit in between
  can add to those cells only what the committing sync had outdated, which passes to `dirty`.
  `FilesReplaceEachOther`: a file takes out whatever counts before it does.
- `Matching_proofs`. `MatchingIsStable`: every eligible pair of a closed distance shares its
  line or movement with a closed pair that is as strong; within a pass because the pair
  closed was the strongest, across passes because the nearer comes first. `MatchingIsOneToOne`
  and `NoPurchaseAlarmsTwice` follow from the same invariant and from the deduplication.
  `ConciliatedIsBalanced` needs the sums over lines and movements: that a sum is determined
  by its set and grows by what is added (`SumExists`, `SumIs`), and that sums over paired sets
  differ by the tolerance times the number of pairs (`PairedSums`). The installed provers cannot
  instantiate an induction rule, so these lemmas take a smallest counterexample among the
  subsets of a finite set (`SmallestSubset`) and refute it.

Only model-checked: `ProcessingEnds` (liveness under fairness is out of the prover's reach).

## 5. Not modelled

- *Statement parsing*: chunks are fed to a language model whose answers are data; there is
  no reference to compare the reassembly with. *Language model client*: its retries affect
  nothing but the result.
- *Accounting charts, files, layouts, exports, reports, titles*: transformation of data
  within one request, without a protocol; they are the largest part of the source by lines.
- *Omie client*: pagination and fault decoding; the retries around one write are in
  `DirectPosting` and, as late effects, in `Provision`.
- *Notifications and usage events*: written after the outcome in a transaction of their own and
  allowed to fail; the lost notice after a crash is listed as a hazard.
- *Login, users, organisations, glossary, catalogues, core services*: access rules, records
  and libraries.
- *Lifecycle*: the race of two creations (a unique index decides), `clear_review_work`, the
  closing of a client, a removal of parts that takes intents along by cascade.
- *The web front end*: it polls the status and calls the endpoints above.
- Locks across rows are waits, not deadlocks: that a reprocess (session, then rows) and a
  patch (row, then session) may block each other until PostgreSQL ends one is an `Abort`.
