----------------------------- MODULE MovementBase -----------------------------
(***************************************************************************)
(* The movements of one client by month, brought from Omie (account by     *)
(* account, while the origin goes on changing) or from uploaded files.  A  *)
(* sync reads without any transaction open, writes what it found and marks *)
(* as absent what it did not find; several may run, in several processes.  *)
(***************************************************************************)
EXTENDS Naturals, FiniteSets

CONSTANTS
  Ids,        \* movements of Omie
  Accounts,
  Months,
  Files,      \* uploaded files, all of the month FileMonth
  Blank,      \* the files with a header and no line
  FileMonth,
  Requests,
  MaxRequests, MaxChanges, \* bounds: requests started, changes at the origin
  Never       \* not in the base, or not at the origin

VARIABLES
  place,      \* at the origin: the month and the account of each movement
  open,       \* at the origin: the accounts that it lists
  kind,       \* the type of the client's connection
  known,      \* omie_accounts_cache, or Never while accounts_synced_at is null
  base,       \* client_movements of type omie
  fileRows,   \* client_movements of type arquivo, one value for the rows of a file
  imports,    \* client_file_imports
  stamp,      \* client_movement_syncs: the two clocks of each month
  request,    \* where each request is
  exact,      \* history: cells read with nothing having changed since
  last,       \* history: the file accepted last
  made        \* counts, for the bounds

vars == <<place, open, kind, known, base, fileRows, imports, stamp, request, exact, last, made>>

origin == <<place, open, kind>>
stored == <<known, base, fileRows, imports, stamp, exact, last>>

Cell == [month : Months, account : Accounts]
Row == [month : Months, account : Accounts, present : BOOLEAN]

ASSUME MovementConstants ==
  /\ FileMonth \in Months /\ Blank \subseteq Files /\ Never \notin Files
  /\ Never \notin Accounts \cup Cell \cup Row /\ Never # "present"

Idle == [pc |-> "idle", month |-> FileMonth, refreshed |-> FALSE, accounts |-> {},
         read |-> {}, found |-> [i \in Ids |-> Never], seen |-> {}, gone |-> {}, dirty |-> {},
         file |-> Never]

Init ==
  /\ place \in [Ids -> Cell \cup {Never}]
  /\ open = Accounts
  /\ kind = "omie"
  /\ known = Never
  /\ base = [i \in Ids |-> Never]
  /\ fileRows = [f \in Files |-> Never]
  /\ imports = {}
  /\ stamp = [m \in Months |-> [synced |-> FALSE, failed |-> FALSE]]
  /\ request = [r \in Requests |-> Idle]
  /\ exact = {} /\ last = Never
  /\ made = [requests |-> 0, changes |-> 0]

At(r, pc) == request[r].pc = pc
Set(r, value) == request' = [request EXCEPT ![r] = value]
End(r) == Set(r, Idle)
Starts == made.requests < MaxRequests /\ made' = [made EXCEPT !.requests = @ + 1]
Changes == made.changes < MaxChanges /\ made' = [made EXCEPT !.changes = @ + 1]
Found(r) == {i \in Ids : request[r].found[i] # Never}
PresentIn(c) == {i \in Ids : base[i] # Never /\ base[i].present
                               /\ base[i].month = c.month /\ base[i].account = c.account}
InCell(i, c) == place[i] = c

Synced(m) == [stamp EXCEPT ![m] = [synced |-> TRUE, failed |-> FALSE]]

FailedForgets(m) == [stamp EXCEPT ![m] = [synced |-> FALSE, failed |-> TRUE]]

\* mark_sync_failed leaves the clock of the last success alone.
Failed(m) == [stamp EXCEPT ![m].failed = TRUE]

\* The refreshed cache is part of the request's transaction: others see it at its commit.
Publish(r) ==
  known' = IF request[r].refreshed THEN request[r].accounts ELSE known

-------------------------------------------------------------------------------
(* _fetch: the accounts first, then their statements one after the other.   *)

\* get_or_sync: the cached accounts, or, past their 24 hours, those that the origin lists.
\* Two at a time would collide in the UNIQUE of the cache.
SyncStart(r) ==
  /\ At(r, "idle") /\ kind = "omie" /\ Starts
  /\ \E m \in Months : \E refreshed \in BOOLEAN :
       /\ refreshed \/ known # Never
       /\ refreshed => \A q \in Requests : ~request[q].refreshed
       /\ Set(r, [Idle EXCEPT !.pc = "reading", !.month = m, !.refreshed = refreshed,
                              !.accounts = IF refreshed THEN open ELSE known])
  /\ UNCHANGED <<origin, stored>>

\* The last statement in which a movement shows up is the one that counts.
SyncReadAccount(r) ==
  /\ At(r, "reading")
  /\ \E a \in request[r].accounts \ request[r].read :
       LET c == [month |-> request[r].month, account |-> a]
       IN Set(r, [request[r] EXCEPT
            !.read = @ \cup {a},
            !.found = [i \in Ids |-> IF InCell(i, c) THEN a ELSE @[i]]])
  /\ UNCHANGED <<origin, stored, made>>

AllRead(r) == At(r, "reading") /\ request[r].read = request[r].accounts

\* The statement of any account fails: nothing is written but the stamp.
SyncReadFailed(r) ==
  /\ At(r, "reading") /\ ~AllRead(r)
  /\ stamp' = Failed(request[r].month)
  /\ Publish(r)
  /\ End(r)
  /\ UNCHANGED <<origin, base, fileRows, imports, exact, last, made>>

-------------------------------------------------------------------------------
(* _persist: two statements in one transaction, READ COMMITTED.             *)

\* The rows that a transaction holds: those it gave, and those it has taken away so far.
Held(r) ==
  (IF request[r].pc \in {"upserted", "marking"} THEN Found(r) ELSE {}) \cup request[r].gone

Free(r, rows) == \A q \in Requests \ {r} : Held(q) \cap rows = {}

\* _upsert_many waits for whoever is writing one of the rows, or inserting it.
SyncUpsert(r) ==
  /\ AllRead(r) /\ Free(r, Found(r))
  /\ Set(r, [request[r] EXCEPT !.pc = "upserted"])
  /\ UNCHANGED <<origin, stored, made>>

MissingAnywhere(m, accounts, keep) ==
  {i \in Ids \ keep : base[i] # Never /\ base[i].present /\ base[i].month = m}

\* _mark_absent: of this month, and of an account that was read.
Missing(m, accounts, keep) ==
  {i \in Ids \ keep : base[i] # Never /\ base[i].present
                        /\ base[i].month = m /\ base[i].account \in accounts}

Leaving(r) == Missing(request[r].month, request[r].accounts, Found(r))

\* The UPDATE looks for its rows once, among those committed when it starts.
SyncMark(r) ==
  /\ At(r, "upserted")
  /\ Set(r, [request[r] EXCEPT !.pc = "marking", !.seen = Leaving(r)])
  /\ UNCHANGED <<origin, stored, made>>

\* It takes them one by one, waits for whoever holds one, and then looks at that one again.
SyncMarkRow(r) ==
  /\ At(r, "marking")
  /\ \E i \in request[r].seen :
       /\ Free(r, {i})
       /\ Set(r, [request[r] EXCEPT !.seen = @ \ {i}, !.gone = @ \cup ({i} \cap Leaving(r))])
  /\ UNCHANGED <<origin, stored, made>>

Upserted(mine, i) ==
  [month |-> mine.month, account |-> mine.found[i], present |-> TRUE]

\* Cells of which a row was taken away, or given back, against what the origin now says.
Disturbed(r) ==
  {c \in Cell : \E i \in Found(r) :
     /\ ~InCell(i, [month |-> request[r].month, account |-> request[r].found[i]])
     /\ i \in PresentIn(c)}

\* The stamp and the commit.  Rows committed after another has looked for its own are out of
\* its sight: what this one had outdated is outdated for that one too.
SyncCommit(r) ==
  LET mine == request[r]
      cells == [month : {mine.month}, account : mine.accounts]
  IN
  /\ At(r, "marking") /\ mine.seen = {}
  /\ base' = [i \in Ids |->
       IF i \in Found(r) THEN Upserted(mine, i)
       ELSE IF i \in mine.gone THEN [base[i] EXCEPT !.present = FALSE]
       ELSE base[i]]
  /\ stamp' = Synced(mine.month)
  /\ Publish(r)
  /\ exact' = (exact \cup cells)
                \ (Disturbed(r) \cup [month : {mine.month}, account : mine.dirty])
  /\ request' = [q \in Requests |->
       IF q = r THEN Idle
       ELSE IF At(q, "marking") /\ request[q].month = mine.month
       THEN [request[q] EXCEPT !.dirty = @ \cup mine.dirty]
       ELSE request[q]]
  /\ UNCHANGED <<origin, fileRows, imports, last, made>>

\* The database fails in the middle, or two wait for each other: rolled back, then the stamp.
PersistFailed(r) ==
  /\ AllRead(r) \/ At(r, "upserted") \/ At(r, "marking")
  /\ stamp' = Failed(request[r].month)
  /\ End(r)
  /\ UNCHANGED <<origin, known, base, fileRows, imports, exact, last, made>>

-------------------------------------------------------------------------------
(* A file: all of the month, no account, in one transaction under a lock.   *)

Upload(r) ==
  /\ At(r, "idle") /\ kind = "arquivo" /\ Starts
  /\ \E f \in Files \ imports : Set(r, [Idle EXCEPT !.pc = "uploading", !.file = f])
  /\ UNCHANGED <<origin, stored>>

\* The files that a file replaces: `accounts=None` is the whole month.
ReplacesNothing(f) == {}

Replaces(f) == {g \in Files \ {f} : fileRows[g] = "present"}

\* The UNIQUE of the hash.
NotSent(f) == f \notin imports

UploadCommit(r) ==
  LET f == request[r].file IN
  /\ At(r, "uploading")
  /\ IF NotSent(f)
     THEN /\ imports' = imports \cup {f}
          /\ fileRows' = [g \in Files |-> IF g = f /\ f \notin Blank THEN "present"
                                          ELSE IF g \in Replaces(f) THEN "absent" ELSE fileRows[g]]
          /\ stamp' = Synced(FileMonth)
          /\ last' = f
     ELSE UNCHANGED <<imports, fileRows, stamp, last>>
  /\ End(r)
  /\ UNCHANGED <<origin, known, base, exact, made>>

-------------------------------------------------------------------------------
(* Around them.                                                              *)

\* The process dies, or the request is refused: rolled back, and no stamp.
Abort(r) ==
  /\ ~At(r, "idle")
  /\ End(r)
  /\ UNCHANGED <<origin, stored, made>>

\* At the origin a movement appears, leaves, or changes its month or its account.
OriginMoves(i) ==
  /\ Changes
  /\ \E p \in Cell \cup {Never} : p # place[i] /\ place' = [place EXCEPT ![i] = p]
  /\ exact' = exact \ {place[i], place'[i]}
  /\ request' = [r \in Requests |-> [request[r] EXCEPT !.dirty =
       @ \cup {a \in request[r].read :
                 [month |-> request[r].month, account |-> a] \in {place[i], place'[i]}}]]
  /\ UNCHANGED <<open, kind, known, base, fileRows, imports, stamp, last>>

AccountsChange ==
  /\ Changes
  /\ \E accounts \in SUBSET Accounts : accounts # open /\ open' = accounts
  /\ UNCHANGED <<place, kind, stored, request>>

\* One connection deleted, another created: the cached accounts go with the first, which an
\* uncommitted refresh still refers to.
SwitchOrigin ==
  /\ Changes
  /\ \A r \in Requests : ~request[r].refreshed
  /\ kind' = IF kind = "omie" THEN "arquivo" ELSE "omie"
  /\ known' = Never
  /\ UNCHANGED <<place, open, base, fileRows, imports, stamp, request, exact, last>>

Next ==
  \/ \E i \in Ids : OriginMoves(i)
  \/ AccountsChange
  \/ SwitchOrigin
  \/ \E r \in Requests :
       \/ SyncStart(r) \/ SyncReadAccount(r) \/ SyncReadFailed(r)
       \/ SyncUpsert(r) \/ SyncMark(r) \/ SyncMarkRow(r) \/ SyncCommit(r) \/ PersistFailed(r)
       \/ Upload(r) \/ UploadCommit(r)
       \/ Abort(r)

Spec == Init /\ [][Next]_vars

-------------------------------------------------------------------------------
(* Types; a month with movements is never shown as one that nobody synced. *)
TypeOK ==
  /\ place \in [Ids -> Cell \cup {Never}]
  /\ base \in [Ids -> Row \cup {Never}]
  /\ fileRows \in [Files -> {Never, "present", "absent"}]
  /\ known \in (SUBSET Accounts) \cup {Never} /\ open \subseteq Accounts
  /\ imports \subseteq Files /\ exact \subseteq Cell /\ last \in imports \cup {Never}
  /\ \A i \in Ids : base[i] # Never => stamp[base[i].month].synced

\* Whatever fails, and however syncs wait for one another, a month of an account that was read
\* has exactly the origin's movements until they change, unless they changed while it was read
\* and written, or a sync that had read them before such a change committed between the start
\* of the marking and the commit (_mark_absent's snapshot): only a later sync repairs that.
ExactMonth == \A c \in exact : PresentIn(c) = {i \in Ids : InCell(i, c)}

\* "O arquivo é o realizado completo do mês": the rows that count are those of the file
\* accepted last, never of two together, and none after a file with only a header.
OneFileCounts ==
  \A f \in Files : fileRows[f] = "present" <=> f = last /\ f \notin Blank
===============================================================================
