------------------------ MODULE ReconciliationSession ------------------------
(***************************************************************************)
(* One reconciliation (one account, one month): its row, its parts, the    *)
(* result of matching, the requests of several analysts and the background *)
(* tasks that process it.                                                  *)
(*                                                                         *)
(* A request is two steps, as in the code: the handler reads the row and   *)
(* decides (409/404 are the reads that are not enabled), and later it      *)
(* writes and commits, with nothing between the two that stops another     *)
(* request or task.  The writes of one transaction are one step.           *)
(*                                                                         *)
(* Data is kept only as far as provenance: which task matched a line       *)
(* (`link`), which tasks' Omie entries and anomalies are stored (`rows`),  *)
(* which task's totals the row shows (`totals`).                           *)
(***************************************************************************)
EXTENDS Naturals, FiniteSets

CONSTANTS
  Files,         \* rows of reconciliation_files; an id is attached at most once
  FailedParts,   \* those registered with status `error`: a part without lines
  HashOf,        \* file row -> hash of the uploaded content
  InitialFiles,  \* the parts the reconciliation is created with
  Tasks,         \* background tasks; bounds how many runs are scheduled
  Requests,      \* requests in flight at once
  Kinds,         \* the endpoints in use
  Nobody         \* no task

Endpoints == {"reprocess", "attach", "remove", "cancel", "discard"}

ASSUME SessionConstants ==
  /\ InitialFiles \subseteq Files
  /\ FailedParts \subseteq Files
  /\ InitialFiles \ FailedParts # {}
  /\ Kinds \subseteq Endpoints
  /\ Tasks # {}
  /\ Nobody \notin Tasks

VARIABLES
  status,      \* reconciliation_sessions.status
  deleted,     \* deleted_at IS NOT NULL
  files,       \* the parts now attached
  removed,     \* ids of parts taken out
  link,        \* the task that linked the part's lines, Nobody while `sem_omie`
  rows,        \* the tasks whose omie_entries and anomalies are stored
  totals,      \* the task whose totals the row shows
  phase,       \* where each background task is
  snap,        \* the parts whose lines a task loaded
  request,     \* what each request in flight decided to do
  overlapped   \* history: a run was scheduled while another one was alive

row == <<status, deleted, files, removed, link, rows, totals>>
vars == <<row, phase, snap, request, overlapped>>

Idle == [kind |-> "none", file |-> {}]
Phases == {"free", "scheduled", "loaded", "failing", "over"}
Alive == {t \in Tasks : phase[t] \in {"scheduled", "loaded", "failing"}}

\* The parts that brought lines (status `parsed`).
Parsed(parts) == parts \ FailedParts

\* `done` is in the code's set too, but nothing in the program writes it.
Reprocessable == {"error", "reviewing", "done"}

-------------------------------------------------------------------------------
(* Creation: the row, its parts and their lines are committed and only then *)
(* the first task is scheduled.                                             *)

Init ==
  /\ status = "processing" /\ deleted = FALSE
  /\ files = InitialFiles /\ removed = {}
  /\ link = [f \in Files |-> Nobody]
  /\ rows = {} /\ totals = Nobody
  /\ \E t \in Tasks : phase = [x \in Tasks |-> IF x = t THEN "scheduled" ELSE "free"]
  /\ snap = [t \in Tasks |-> {}]
  /\ request = [r \in Requests |-> Idle]
  /\ overlapped = FALSE

\* Takes a fresh background task; add_task is in memory and cannot fail.
Schedule ==
  \E t \in Tasks :
    /\ phase[t] = "free"
    /\ phase' = [phase EXCEPT ![t] = "scheduled"]
    /\ overlapped' = (overlapped \/ Alive # {})

ResetKeepsRows ==
  /\ status' = "processing"
  /\ link' = [f \in Files |-> Nobody]
  /\ totals' = Nobody /\ UNCHANGED rows

\* reset_session_for_reprocess: no WHERE on the status.
Reset ==
  /\ status' = "processing"
  /\ link' = [f \in Files |-> Nobody]
  /\ rows' = {} /\ totals' = Nobody

NothingWritten == UNCHANGED <<row, phase, overlapped>>

Receive(r, kind, parts) ==
  /\ request[r] = Idle
  /\ kind \in Kinds
  /\ ~deleted
  /\ request' = [request EXCEPT ![r] = [kind |-> kind, file |-> parts]]
  /\ UNCHANGED <<row, phase, snap, overlapped>>

Answer(r, kind) ==
  /\ request[r].kind = kind
  /\ request' = [request EXCEPT ![r] = Idle]
  /\ UNCHANGED snap

-------------------------------------------------------------------------------
(* POST /{id}/reprocess: the claim is a conditional UPDATE.                 *)

ReprocessRead(r) ==
  /\ status \in Reprocessable
  /\ Receive(r, "reprocess", {})

ClaimedOnTheRead == ~deleted

Claimed == ~deleted /\ status \in Reprocessable

ReprocessCommit(r) ==
  /\ Answer(r, "reprocess")
  /\ IF Claimed
     THEN Reset /\ Schedule /\ UNCHANGED <<deleted, files, removed>>
     ELSE NothingWritten

(* POST /{id}/files: the check is on what was read; only the hash is        *)
(* rechecked, by the unique index.                                          *)

SameHash(f) == \E g \in files : HashOf[g] = HashOf[f]

AttachRead(r) ==
  \E f \in Files \ (files \cup removed) :
    /\ status \notin {"processing", "done"}
    /\ ~SameHash(f)
    /\ Receive(r, "attach", {f})

AttachCommit(r) ==
  /\ Answer(r, "attach")
  /\ \E f \in request[r].file :
       IF SameHash(f) \/ f \in files \cup removed
       THEN NothingWritten
       ELSE /\ files' = files \cup {f}
            /\ IF f \in FailedParts
               THEN UNCHANGED <<status, link, rows, totals, phase, overlapped>>
               ELSE Reset /\ Schedule
            /\ UNCHANGED <<deleted, removed>>

(* DELETE /{id}/files/{file}: the last part with lines stays, by a count    *)
(* taken at the read.                                                       *)

RemoveRead(r) ==
  \E f \in files :
    /\ status # "processing"
    /\ f \notin FailedParts => Cardinality(Parsed(files)) > 1
    /\ Receive(r, "remove", {f})

RemoveCommitNoReset(r) ==
  /\ Answer(r, "remove")
  /\ \E f \in request[r].file :
       /\ files' = files \ {f}
       /\ removed' = removed \cup {f}
  /\ UNCHANGED <<status, deleted, link, rows, totals, phase, overlapped>>

RemoveCommit(r) ==
  /\ Answer(r, "remove")
  /\ \E f \in request[r].file :
       /\ files' = files \ {f}
       /\ removed' = removed \cup {f}
       /\ IF f \in FailedParts
          THEN UNCHANGED <<status, link, rows, totals, phase, overlapped>>
          ELSE Reset /\ Schedule
  /\ UNCHANGED deleted

(* POST /{id}/cancel: the write is mark_session_error, unconditional.       *)

CancelRead(r) ==
  /\ status = "processing"
  /\ Receive(r, "cancel", {})

CancelCommit(r) ==
  /\ Answer(r, "cancel")
  /\ status' = "error"
  /\ UNCHANGED <<deleted, files, removed, link, rows, totals, phase, overlapped>>

(* POST /{id}/discard: soft delete.                                         *)

DiscardRead(r) ==
  /\ status # "processing"
  /\ Receive(r, "discard", {})

DiscardCommit(r) ==
  /\ Answer(r, "discard")
  /\ deleted' = TRUE
  /\ UNCHANGED <<status, files, removed, link, rows, totals, phase, overlapped>>

-------------------------------------------------------------------------------
(* The background task.                                                     *)

Move(t, to) ==
  /\ phase' = [phase EXCEPT ![t] = to]
  /\ UNCHANGED <<request, overlapped>>

\* Step 1: the lines are copied and the database session closed.  A discarded
\* reconciliation is a silent end; one without lines raises on min().
TaskLoad(t) ==
  /\ phase[t] = "scheduled"
  /\ IF deleted
     THEN Move(t, "over") /\ UNCHANGED snap
     ELSE IF Parsed(files) = {}
     THEN Move(t, "failing") /\ UNCHANGED snap
     ELSE Move(t, "loaded") /\ snap' = [snap EXCEPT ![t] = Parsed(files)]
  /\ UNCHANGED row

\* Steps 2 to 4 fail: Omie, the timeout, a constraint that rolls the last
\* transaction back, the shutdown of the process.
TaskFail(t) ==
  /\ phase[t] \in {"scheduled", "loaded"}
  /\ Move(t, "failing")
  /\ UNCHANGED <<row, snap>>

\* Step 4: one transaction stores matches, entries and anomalies whatever the
\* status is; only the row's own UPDATE asks for `processing`.
StoreResult(t) ==
  /\ rows' = rows \cup {t}
  /\ \E matched \in SUBSET snap[t] :
       link' = [f \in Files |-> IF f \in matched \cap files THEN t ELSE link[f]]

TaskLandUnguarded(t) ==
  /\ phase[t] = "loaded"
  /\ StoreResult(t)
  /\ status' = "reviewing" /\ totals' = t
  /\ Move(t, "over")
  /\ UNCHANGED <<deleted, files, removed, snap>>

TaskLand(t) ==
  /\ phase[t] = "loaded"
  /\ StoreResult(t)
  /\ IF status = "processing"
     THEN status' = "reviewing" /\ totals' = t
     ELSE UNCHANGED <<status, totals>>
  /\ Move(t, "over")
  /\ UNCHANGED <<deleted, files, removed, snap>>

\* _safe_mark_error, in a transaction of its own: best effort, unconditional.
TaskMarkError(t) ==
  /\ phase[t] = "failing"
  /\ status' = "error"
  /\ Move(t, "over")
  /\ UNCHANGED <<deleted, files, removed, link, rows, totals, snap>>

\* The mark itself fails, which _safe_mark_error only logs, or the process dies without
\* running any `except`.
TaskLost(t) ==
  /\ t \in Alive
  /\ Move(t, "over")
  /\ UNCHANGED <<row, snap>>

MarkStuckAfterCreation ==
  /\ status = "processing"
  /\ \A t \in Tasks : phase[t] \in {"free", "over"} /\ snap[t] = {}
  /\ status' = "error"
  /\ UNCHANGED <<deleted, files, removed, link, rows, totals>>
  /\ UNCHANGED <<phase, snap, request, overlapped>>

\* mark_stuck_sessions_as_error: 25 minutes without a write to the row, ten
\* more than any task may last, so no task is alive.
MarkStuck ==
  /\ status = "processing"
  /\ Alive = {}
  /\ status' = "error"
  /\ UNCHANGED <<deleted, files, removed, link, rows, totals>>
  /\ UNCHANGED <<phase, snap, request, overlapped>>

-------------------------------------------------------------------------------
RequestStep(r) ==
  \/ ReprocessRead(r) \/ ReprocessCommit(r)
  \/ AttachRead(r) \/ AttachCommit(r)
  \/ RemoveRead(r) \/ RemoveCommit(r)
  \/ CancelRead(r) \/ CancelCommit(r)
  \/ DiscardRead(r) \/ DiscardCommit(r)

TaskStep(t) ==
  TaskLoad(t) \/ TaskFail(t) \/ TaskLand(t) \/ TaskMarkError(t) \/ TaskLost(t)

Next ==
  \/ \E r \in Requests : RequestStep(r)
  \/ \E t \in Tasks : TaskStep(t)
  \/ MarkStuck

Spec == Init /\ [][Next]_vars

\* asyncio.timeout ends every task (900 s) and Cloud Scheduler runs the sweep
\* every hour; nobody owes the system a request.
FairSpec ==
  /\ Spec
  /\ \A t \in Tasks : WF_vars(TaskStep(t))
  /\ WF_vars(MarkStuck)

-------------------------------------------------------------------------------
\* Types, and where provenance may point: a line outside the reconciliation is
\* linked by nobody (ON DELETE CASCADE of the parts), a task's snapshot never
\* holds a part without lines, only tasks that ran left rows or totals.
TypeOK ==
  /\ status \in {"processing", "reviewing", "error"}
  /\ deleted \in BOOLEAN /\ overlapped \in BOOLEAN
  /\ files \subseteq Files \ removed /\ removed \subseteq Files
  /\ link \in [Files -> Tasks \cup {Nobody}]
  /\ \A f \in Files \ Parsed(files) : link[f] = Nobody
  /\ rows \subseteq {t \in Tasks : phase[t] = "over"}
  /\ totals \in rows \cup {Nobody}
  /\ phase \in [Tasks -> Phases]
  /\ snap \in [Tasks -> SUBSET (Files \ FailedParts)]
  /\ request \in [Requests -> [kind : Endpoints \cup {"none"}, file : SUBSET Files]]

\* "O cancelamento prevalece": a reconciliation in error (cancelled, failed or
\* swept) is never turned into `reviewing` by a task that was still running.
NoResurrection == [][status = "error" => status' # "reviewing"]_vars

\* While no two runs ever overlapped, what the analyst reviews is the result of
\* one run over exactly the lines now attached: the links, the Omie entries and
\* anomalies, and the totals all come from it.  Attach, remove, cancel, discard,
\* failures and the sweep may fall anywhere between the steps of that run.
ReviewIsOneRun ==
  ~overlapped /\ status = "reviewing" =>
    /\ totals # Nobody /\ rows = {totals}
    /\ \A f \in files : link[f] \in {Nobody, totals}
    /\ snap[totals] = Parsed(files)

\* Every time a reconciliation is being processed it stops being so, through the
\* task, its failure or the sweep, whichever tasks die on the way.  That includes the
\* case of which the docstring of _safe_mark_error (job.py:716-720) says that the session
\* stays in `processing` indefinitely, with no automatic recovery, until a manual migration:
\* the sweep asks only for the status and its age, and so ends that one too (job.py:242
\* calls it the final safety net).  Fairness stands for the sweep's hourly schedule.
ProcessingEnds == status = "processing" ~> status # "processing"

\* With reprocess and discard alone, the reconciliation behaves as one exclusive
\* run after another: the conditional UPDATE of the claim is what excludes.
Exclusive == INSTANCE ExclusiveRun WITH running <- Alive # {}
ExclusiveSpec == Exclusive!Spec

\* repository.py on the claim: the second request gets a 409 "em vez de agendar
\* um segundo processamento sobre a mesma sessão".
OneRunAtATime == \A t, u \in Alive : t = u

\* service.remove_file: refuses "a ÚLTIMA parte com linhas": a reconciliation
\* without lines has nothing to reconcile.
KeepsALine == Parsed(files) # {}

-------------------------------------------------------------------------------
(* What makes the above inductive: what is true between the steps of a run. *)

\* No second run yet.  A reconciliation under review has no task left that could
\* still land, and what a live task will land on is a clean slate whose lines
\* are still the ones it loaded, unless a cancel already took the status away.
RunInv ==
  ~overlapped =>
    /\ OneRunAtATime
    /\ status = "reviewing" => Alive = {}
    /\ status = "processing" =>
         \A t \in Alive :
           /\ rows = {}
           /\ \A f \in Files : link[f] = Nobody
           /\ phase[t] = "loaded" => snap[t] = Parsed(files)

\* Where only the claim starts runs, the status itself says who may be alive.
ClaimInv ==
  /\ \A r \in Requests : request[r].kind \in Kinds \cup {"none"}
  /\ Alive # {} => status = "processing"
  /\ OneRunAtATime
===============================================================================
