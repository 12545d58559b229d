--------------------------------- MODULE Review ---------------------------------
(***************************************************************************)
(* The review of one reconciliation: analysts patch lines and anomalies    *)
(* while batches of DirectPosting confirm lines, and a run resets and      *)
(* lands.  The session's row keeps counters derived from the other rows,   *)
(* which the list of reconciliations shows.  Everyone recounts with        *)
(* SELECTs and then writes all the counters with one UPDATE, in READ       *)
(* COMMITTED: what another request commits in between is missed.           *)
(*                                                                         *)
(* A request that changes a row holds its lock up to the commit.           *)
(***************************************************************************)
EXTENDS Naturals, FiniteSets

CONSTANTS
  Lines,     \* file_entries of the session
  OmieIds,   \* Omie's entries in the window of the run
  Manual,    \* ids of the anomalies that analysts create
  Requests,
  NoId, NoLine,
  Same,      \* a column that an UPDATE leaves out, a key that a body omits
  Asked      \* bound: the bodies of PATCH that are sent

VARIABLES
  row,        \* file_entries: situation and omie_lancamento_id
  omieRows,   \* reconciliation_omie_entries: Omie's entries without a line
  anomalies,  \* reconciliation_anomalies, open or resolved: of lines, of Omie's entries, manual
  status,     \* of the session
  counters,   \* the counters in the session's row
  request,    \* where each request is
  lapse,      \* history: why the counters may be wrong
  mixed,      \* history: lines patched by two requests at once, or as read before others wrote
  named       \* history: lines whose last patch said the situation itself

vars == <<row, omieRows, anomalies, status, counters, request, lapse, mixed, named>>

Situations == {"conciliado", "divergente", "sem_omie", "ignorado"}
Marks == Lines \cup OmieIds \cup Manual

Untouched == [situation |-> Same, link |-> Same]

\* UpdateFileEntryRequest: a situation or none, an entry, null or no key; any two together.
Bodies ==
  [situation: {"sem_omie", "conciliado", "ignorado", Same}, link: OmieIds \cup {NoId, Same}]
    \ {Untouched}

ASSUME ReviewConstants ==
  /\ IsFiniteSet(Lines) /\ IsFiniteSet(OmieIds) /\ IsFiniteSet(Manual)
  /\ NoId \notin OmieIds /\ Same \notin OmieIds /\ Same # NoId
  /\ \A s \in Situations : Same # s
  /\ Asked \subseteq Bodies

\* CONCILIATED_SITUATIONS.
Conciliated == {"conciliado", "divergente"}

\* compute_session_counters over given rows and anomalies.
Derived(rows, marks) ==
  [conciliated |-> Cardinality({l \in Lines : rows[l].situation \in Conciliated}),
   semOmie     |-> Cardinality({l \in Lines : rows[l].situation = "sem_omie"}),
   omie        |-> Cardinality(omieRows),
   anomaly     |-> Cardinality(marks)]

Counts == LET upTo == 0 .. Cardinality(Marks) IN
  [conciliated : upTo, semOmie : upTo, omie : upTo, anomaly : upTo]

Zero == [conciliated |-> 0, semOmie |-> 0, omie |-> 0, anomaly |-> 0]

Parsed == [situation |-> "sem_omie", link |-> NoId]

Idle == [pc |-> "idle", line |-> NoLine, write |-> Untouched, named |-> FALSE,
         counted |-> Zero, behind |-> FALSE]

Init ==
  /\ row = [l \in Lines |-> Parsed]
  /\ omieRows = {}
  /\ anomalies = {}
  /\ status = "processing"
  /\ counters = Zero
  /\ request = [r \in Requests |-> Idle]
  /\ lapse = {}
  /\ mixed = {} /\ named = {}

At(r, pc) == request[r].pc = pc
End(r) == request' = [request EXCEPT ![r] = Idle]

\* The rows some request has changed and not committed, and those some request will.
Locked(l) == \E r \in Requests : request[r].pc = "patch" /\ request[r].line = l
BeingRead == {request[r].line : r \in {q \in Requests : At(q, "read")}}
MarkLocked(m) == \E r \in Requests : request[r].pc \in {"create", "resolve"} /\ request[r].line = m

\* Rows are committed by r: whoever has counted before is behind.
Overtake(r, ended) ==
  [q \in Requests |-> IF q = r THEN ended
     ELSE IF request[q].pc \in {"patch", "create", "resolve", "recount"}
          THEN [request[q] EXCEPT !.behind = TRUE] ELSE request[q]]

\* file_entry_omie_id_taken_by_another.
Taken(l, id) == id # NoId /\ \E m \in Lines \ {l} : row[m].link = id

\* ix_recon_file_entry_session_omie_unique, against committed rows and those to be.
IndexIgnored(l, id) == TRUE

IndexAllows(l, id) ==
  /\ ~Taken(l, id)
  /\ id # NoId => ~\E r \in Requests :
       At(r, "patch") /\ request[r].line # l /\ request[r].write.link = id

-------------------------------------------------------------------------------
(* PATCH of a line.                                                         *)

\* What update_file_entry makes of the row it loaded.  A change of link sets the situation
\* only if the body does not; nothing compares a situation in the body with the link.
UnlinkKeepsSituation(was, body) ==
  [link      |-> IF body.link = Same THEN was.link ELSE body.link,
   situation |-> IF body.situation # Same THEN body.situation
                 ELSE IF body.link = NoId THEN was.situation ELSE "conciliado"]

Patched(was, body) ==
  [link      |-> IF body.link = Same THEN was.link ELSE body.link,
   situation |-> IF body.situation # Same THEN body.situation
                 ELSE IF body.link = NoId THEN "sem_omie" ELSE "conciliado"]

\* Only columns that differ from the loaded row are in the UPDATE.
Changed(was, new) ==
  [situation |-> IF new.situation = was.situation THEN Same ELSE new.situation,
   link      |-> IF new.link = was.link THEN Same ELSE new.link]

Updated(l, write) ==
  [situation |-> IF write.situation = Same THEN row[l].situation ELSE write.situation,
   link      |-> IF write.link = Same THEN row[l].link ELSE write.link]

PatchRead(r) ==
  /\ At(r, "idle") /\ status # "error"
  /\ \E l \in Lines, body \in Asked :
       /\ Patched(row[l], body).link # row[l].link => ~Taken(l, Patched(row[l], body).link)
       /\ request' = [request EXCEPT ![r] =
            [Idle EXCEPT !.pc = "read", !.line = l, !.named = body.situation # Same,
                         !.write = Changed(row[l], Patched(row[l], body))]]
       /\ mixed' = IF \E q \in Requests : request[q].pc \in {"read", "patch"} /\ request[q].line = l
                   THEN mixed \cup {l} ELSE mixed
  /\ UNCHANGED <<row, omieRows, anomalies, status, counters, lapse, named>>

\* The flush, and the recount that sees it and what others have committed.
PatchFlush(r) ==
  /\ At(r, "read") /\ ~Locked(request[r].line)
  /\ LET l == request[r].line
         write == request[r].write
     IN IF write.link = Same \/ IndexAllows(l, write.link)
        THEN request' = [request EXCEPT ![r].pc = "patch",
               ![r].counted = Derived([row EXCEPT ![l] = Updated(l, write)], anomalies)]
        ELSE End(r)
  /\ UNCHANGED <<row, omieRows, anomalies, status, counters, lapse, mixed, named>>

\* refresh_session_counters writes all the columns.
MaterialisedLinesOnly(c) ==
  [counters EXCEPT !.conciliated = c.conciliated, !.semOmie = c.semOmie]

MaterialisedConciliatedOnly(c) == [counters EXCEPT !.conciliated = c.conciliated]

Materialised(c) == c

\* The counters' UPDATE and the commit.  A recount that missed nothing heals.
Commit(r) ==
  /\ counters' = Materialised(request[r].counted)
  /\ lapse' = (IF status = "processing" THEN {"early"} ELSE {})
              \cup (IF request[r].behind THEN {"overtaken"} ELSE {})
              \cup (IF \E q \in Requests \ {r} : At(q, "posting") THEN lapse \cap {"posting"} ELSE {})
  /\ request' = Overtake(r, Idle)

PatchCommit(r) ==
  /\ At(r, "patch")
  /\ row' = [row EXCEPT ![request[r].line] = Updated(request[r].line, request[r].write)]
  /\ named' = IF request[r].named THEN named \cup {request[r].line} ELSE named \ {request[r].line}
  /\ Commit(r)
  /\ UNCHANGED <<omieRows, anomalies, status, mixed>>

-------------------------------------------------------------------------------
(* Anomalies.                                                               *)

\* create_anomaly: insert, recount.
Create(r) ==
  /\ At(r, "idle") /\ status # "error"
  /\ \E m \in Manual :
       /\ m \notin anomalies /\ ~MarkLocked(m)
       /\ request' = [request EXCEPT ![r] = [Idle EXCEPT !.pc = "create", !.line = m,
            !.counted = Derived(row, anomalies \cup {m})]]
  /\ UNCHANGED <<row, omieRows, anomalies, status, counters, lapse, mixed, named>>

CreateCommit(r) ==
  /\ At(r, "create")
  /\ anomalies' = anomalies \cup {request[r].line}
  /\ Commit(r)
  /\ UNCHANGED <<row, omieRows, status, mixed, named>>

\* resolve_anomaly, either way; a row deleted since it was loaded is a 500.
Resolve(r) ==
  /\ At(r, "idle") /\ status # "error"
  /\ \E m \in anomalies :
       /\ ~MarkLocked(m)
       /\ request' = [request EXCEPT ![r] = [Idle EXCEPT !.pc = "resolve", !.line = m,
                                                         !.counted = Derived(row, anomalies)]]
  /\ UNCHANGED <<row, omieRows, anomalies, status, counters, lapse, mixed, named>>

ResolveCommit(r) ==
  /\ At(r, "resolve")
  /\ Commit(r)
  /\ UNCHANGED <<row, omieRows, anomalies, status, mixed, named>>

-------------------------------------------------------------------------------
(* A batch of DirectPosting: each confirmation commits, the recount is last. *)

\* mark_confirmed and _resolve_missing_in_omie.
PostConfirm(r) ==
  /\ request[r].pc \in {"idle", "posting"}
  /\ \E l \in Lines, id \in OmieIds :
       /\ row[l].situation = "sem_omie" /\ row[l].link = NoId /\ ~Locked(l)
       /\ IndexAllows(l, id) /\ ~MarkLocked(l)
       /\ row' = [row EXCEPT ![l] = [situation |-> "conciliado", link |-> id]]
       /\ request' = Overtake(r, [Idle EXCEPT !.pc = "posting"])
       /\ mixed' = IF l \in BeingRead THEN mixed \cup {l} ELSE mixed \ {l}
       /\ named' = named \ {l}
  /\ lapse' = lapse \cup {"posting"} \cup (IF status = "processing" THEN {"early"} ELSE {})
  /\ UNCHANGED <<omieRows, anomalies, status, counters>>

PostRecount(r) ==
  /\ At(r, "posting")
  /\ request' = [request EXCEPT ![r].pc = "recount", ![r].counted = Derived(row, anomalies)]
  /\ UNCHANGED <<row, omieRows, anomalies, status, counters, lapse, mixed, named>>

PostCommit(r) ==
  /\ At(r, "recount")
  /\ Commit(r)
  /\ UNCHANGED <<row, omieRows, anomalies, status, mixed, named>>

\* An error, a refused flush, a crash: what was not committed is gone.
Abort(r) ==
  /\ ~At(r, "idle")
  /\ End(r)
  /\ UNCHANGED <<row, omieRows, anomalies, status, counters, lapse, mixed, named>>

-------------------------------------------------------------------------------
(* The run.                                                                 *)

\* reset_session_for_reprocess waits for the locks of the rows it writes.
Reset ==
  /\ status # "processing"
  /\ \A l \in Lines : ~Locked(l)
  /\ \A m \in Marks : m \in anomalies => ~MarkLocked(m)
  /\ row' = [l \in Lines |-> Parsed]
  /\ omieRows' = {}
  /\ anomalies' = {}
  /\ status' = "processing"
  /\ counters' = Zero
  /\ lapse' = {} /\ named' = {}
  /\ mixed' = BeingRead
  /\ request' = [r \in Requests |->
       IF request[r].pc \in {"create", "recount"} THEN [request[r] EXCEPT !.behind = TRUE] ELSE request[r]]

\* The last transaction of _execute_processing: its counters come from the result
\* of the matching, not from the rows.
Land ==
  /\ status = "processing"
  /\ \E matched \in SUBSET Lines, exact \in SUBSET Lines, link \in [Lines -> OmieIds] :
       LET rows == [l \in Lines |-> IF l \notin matched THEN row[l] ELSE
                      [situation |-> IF l \in exact THEN "conciliado" ELSE "divergente",
                       link |-> link[l]]]
           lone == OmieIds \ {link[l] : l \in matched}
           signalled == {l \in Lines : rows[l].situation = "sem_omie"} \cup (matched \ exact)
       IN /\ exact \subseteq matched
          /\ \A l \in matched : ~Locked(l)
          /\ \A l, m \in Lines : l # m /\ rows[l].link = rows[m].link => rows[l].link = NoId
          /\ \A l \in Lines : \A r \in Requests :
               At(r, "patch") => rows[l].link # request[r].write.link \/ rows[l].link = NoId
          /\ row' = rows
          /\ omieRows' = lone
          /\ anomalies' = anomalies \cup signalled \cup lone
          /\ counters' = [conciliated |-> Cardinality(matched),
                          semOmie     |-> Cardinality(Lines \ matched),
                          omie        |-> Cardinality(lone),
                          anomaly     |-> Cardinality(signalled \cup lone)]
          /\ mixed' = (mixed \ matched) \cup (BeingRead \cap matched)
          /\ named' = named \ matched
  /\ status' = "reviewing"
  /\ request' = [r \in Requests |->
       IF request[r].pc \in {"patch", "create", "resolve", "recount"}
       THEN [request[r] EXCEPT !.behind = TRUE] ELSE request[r]]
  /\ UNCHANGED lapse

Cancel ==
  /\ status = "processing"
  /\ status' = "error"
  /\ UNCHANGED <<row, omieRows, anomalies, counters, request, lapse, mixed, named>>

RequestStep(r) ==
  \/ PatchRead(r) \/ PatchFlush(r) \/ PatchCommit(r)
  \/ Create(r) \/ CreateCommit(r) \/ Resolve(r) \/ ResolveCommit(r)
  \/ PostConfirm(r) \/ PostRecount(r) \/ PostCommit(r) \/ Abort(r)

Next == Reset \/ Land \/ Cancel \/ \E r \in Requests : RequestStep(r)

Spec == Init /\ [][Next]_vars

-------------------------------------------------------------------------------
(* Properties.                                                              *)

\* Types; a request in progress is about a line; no line is counted twice.
TypeOK ==
  /\ row \in [Lines -> [situation: Situations, link: OmieIds \cup {NoId}]]
  /\ omieRows \subseteq OmieIds
  /\ anomalies \subseteq Marks
  /\ status \in {"processing", "reviewing", "error"}
  /\ counters \in Counts
  /\ counters.conciliated + counters.semOmie <= Cardinality(Lines)
  /\ \A r \in Requests : request[r].pc \in {"read", "patch"} => request[r].line \in Lines
  /\ mixed \subseteq Lines /\ named \subseteq Lines

\* The counters that the list shows are those of the rows, unless the last request that
\* wrote them counted before another committed, rows changed while a run was under way,
\* or a batch of postings has not recounted yet; the next recount that misses nothing
\* makes them right again (totals.py).
CountersOfTheRows ==
  status = "reviewing" /\ lapse = {} => counters = Derived(row, anomalies)

\* No entry of Omie is linked to two lines, although requests check it before they
\* write and batches and runs link too.
OneLinePerEntry ==
  \A l, m \in Lines : l # m /\ row[l].link = row[m].link => row[l].link = NoId

\* A line counts as conciliated exactly if it is linked, ignored ones apart, whatever runs,
\* postings and changes of link came in between, unless the last patch of the line said the
\* situation itself (update_file_entry does not compare it with the link) or two writers had
\* the line at once (each writes only the columns it changed).
LinkMeansConciliated ==
  \A l \in Lines \ (mixed \cup named) : row[l].situation # "ignorado" =>
    (row[l].situation \in Conciliated <=> row[l].link # NoId)
================================================================================
