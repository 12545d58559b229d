-------------------- MODULE ReconciliationSession_proofs --------------------
(***************************************************************************)
(* Proofs about ReconciliationSession, for any number of parts, tasks and  *)
(* requests.                                                               *)
(***************************************************************************)
EXTENDS ReconciliationSession, TLAPS

LEMMA InitType == Init => TypeOK
<1> SUFFICES ASSUME Init PROVE TypeOK
  OBVIOUS
<1> USE SessionConstants DEF Init
<1>1. phase \in [Tasks -> Phases]
  <2>1. PICK t \in Tasks : phase = [x \in Tasks |-> IF x = t THEN "scheduled" ELSE "free"]
    OBVIOUS
  <2> QED BY <2>1 DEF Phases
<1>2. request \in [Requests -> [kind : Endpoints \cup {"none"}, file : SUBSET Files]]
  <2>1. Idle \in [kind : Endpoints \cup {"none"}, file : SUBSET Files]
    BY DEF Idle
  <2> QED BY <2>1
<1>3. link \in [Files -> Tasks \cup {Nobody}] /\ \A f \in Files \ Parsed(files) : link[f] = Nobody
  OBVIOUS
<1>4. snap \in [Tasks -> SUBSET (Files \ FailedParts)]
  OBVIOUS
<1> QED
  BY <1>1, <1>2, <1>3, <1>4 DEF TypeOK

\* A reset together with the scheduling of a new task keeps the types, whatever
\* parts are attached afterwards.
LEMMA RestartType ==
  ASSUME TypeOK, Reset, Schedule,
         files' \subseteq Files \ removed', removed' \subseteq Files,
         deleted' \in BOOLEAN, UNCHANGED snap,
         request' \in [Requests -> [kind : Endpoints \cup {"none"}, file : SUBSET Files]]
  PROVE  TypeOK'
  BY SessionConstants DEF TypeOK, Reset, Schedule, Parsed, Phases

LEMMA RequestType ==
  ASSUME TypeOK, NEW r \in Requests, RequestStep(r)
  PROVE  TypeOK'
<1> USE SessionConstants
<1>1. ASSUME NEW kind, NEW parts \in SUBSET Files, Receive(r, kind, parts)
      PROVE  TypeOK'
  BY <1>1 DEF TypeOK, Receive, row, Endpoints, Parsed
<1>2. ASSUME NEW kind, Answer(r, kind)
      PROVE  /\ request' \in [Requests -> [kind : Endpoints \cup {"none"}, file : SUBSET Files]]
             /\ UNCHANGED snap
             /\ request[r].file \subseteq Files
  BY <1>2 DEF TypeOK, Answer, Idle
<1>3. ASSUME NEW kind, Answer(r, kind), NothingWritten
      PROVE  TypeOK'
  BY <1>2, <1>3 DEF TypeOK, NothingWritten, row, Parsed
<1>4. CASE ReprocessRead(r) \/ CancelRead(r) \/ DiscardRead(r)
  BY <1>1, <1>4 DEF ReprocessRead, CancelRead, DiscardRead
<1>5. CASE AttachRead(r)
  BY <1>1, <1>5 DEF AttachRead
<1>6. CASE RemoveRead(r)
  BY <1>1, <1>6 DEF RemoveRead, TypeOK
<1>7. CASE ReprocessCommit(r)
  BY <1>2, <1>3, <1>7, RestartType DEF ReprocessCommit, TypeOK
<1>8. CASE AttachCommit(r)
  <2>1. PICK f \in request[r].file :
          IF SameHash(f) \/ f \in files \cup removed
          THEN NothingWritten
          ELSE /\ files' = files \cup {f}
               /\ IF f \in FailedParts
                  THEN UNCHANGED <<status, link, rows, totals, phase, overlapped>>
                  ELSE Reset /\ Schedule
               /\ UNCHANGED <<deleted, removed>>
    BY <1>8 DEF AttachCommit
  <2>2. Answer(r, "attach")
    BY <1>8 DEF AttachCommit
  <2>3. CASE SameHash(f) \/ f \in files \cup removed
    BY <1>3, <2>1, <2>2, <2>3
  <2>4. CASE ~(SameHash(f) \/ f \in files \cup removed)
    <3>1. f \in Files
      BY <1>2, <2>2
    <3>2. CASE f \in FailedParts
      BY <1>2, <2>1, <2>2, <2>4, <3>1, <3>2 DEF TypeOK, Parsed
    <3>3. CASE f \notin FailedParts
      <4>1. files' \subseteq Files \ removed' /\ removed' \subseteq Files /\ deleted' \in BOOLEAN
        BY <2>1, <2>4, <3>1 DEF TypeOK
      <4> QED
        BY <1>2, <2>1, <2>2, <2>4, <3>3, <4>1, RestartType
    <3> QED BY <3>2, <3>3
  <2> QED BY <2>3, <2>4
<1>9. CASE RemoveCommit(r)
  <2>1. PICK f \in request[r].file :
          /\ files' = files \ {f}
          /\ removed' = removed \cup {f}
          /\ IF f \in FailedParts
             THEN UNCHANGED <<status, link, rows, totals, phase, overlapped>>
             ELSE Reset /\ Schedule
    BY <1>9 DEF RemoveCommit
  <2>2. Answer(r, "remove") /\ UNCHANGED deleted
    BY <1>9 DEF RemoveCommit
  <2>3. f \in Files
    BY <1>2, <2>2
  <2>4. CASE f \in FailedParts
    BY <1>2, <2>1, <2>2, <2>3, <2>4 DEF TypeOK, Parsed
  <2>5. CASE f \notin FailedParts
    <3>1. files' \subseteq Files \ removed' /\ removed' \subseteq Files /\ deleted' \in BOOLEAN
      BY <2>1, <2>2, <2>3 DEF TypeOK
    <3> QED
      BY <1>2, <2>1, <2>2, <2>5, <3>1, RestartType
  <2> QED BY <2>4, <2>5
<1>10. CASE CancelCommit(r)
  BY <1>2, <1>10 DEF CancelCommit, TypeOK, Parsed
<1>11. CASE DiscardCommit(r)
  BY <1>2, <1>11 DEF DiscardCommit, TypeOK, Parsed
<1> QED
  BY <1>4, <1>5, <1>6, <1>7, <1>8, <1>9, <1>10, <1>11 DEF RequestStep

LEMMA TaskType ==
  ASSUME TypeOK, NEW t \in Tasks, TaskStep(t)
  PROVE  TypeOK'
<1> USE SessionConstants
<1>1. CASE TaskLoad(t)
  BY <1>1 DEF TaskLoad, TypeOK, Move, row, Phases, Parsed
<1>2. CASE TaskFail(t)
  BY <1>2 DEF TaskFail, TypeOK, Move, row, Phases, Parsed
<1>3. CASE TaskLand(t)
  <2>1. /\ rows' \subseteq {x \in Tasks : phase'[x] = "over"}
        /\ totals' \in rows' \cup {Nobody}
        /\ phase' \in [Tasks -> Phases]
    BY <1>3 DEF TaskLand, StoreResult, Move, TypeOK, Phases
  <2>2. /\ link' \in [Files -> Tasks \cup {Nobody}]
        /\ \A f \in Files \ Parsed(files') : link'[f] = Nobody
    BY <1>3 DEF TaskLand, StoreResult, TypeOK, Parsed
  <2> QED
    BY <1>3, <2>1, <2>2 DEF TaskLand, Move, TypeOK, Parsed
<1>4. CASE TaskMarkError(t)
  BY <1>4 DEF TaskMarkError, TypeOK, Move, Phases, Parsed
<1>5. CASE TaskLost(t)
  BY <1>5 DEF TaskLost, Alive, TypeOK, Move, row, Phases, Parsed
<1> QED
  BY <1>1, <1>2, <1>3, <1>4, <1>5 DEF TaskStep

LEMMA TypeStep ==
  ASSUME TypeOK, [Next]_vars
  PROVE  TypeOK'
<1>1. CASE MarkStuck
  BY <1>1 DEF MarkStuck, TypeOK, Parsed
<1>2. CASE UNCHANGED vars
  BY <1>2 DEF vars, row, TypeOK, Parsed
<1> QED
  BY <1>1, <1>2, RequestType, TaskType DEF Next

\* Every state the code can reach is well typed and keeps its provenance sound:
\* a removed part leaves no link behind and only tasks that ran left rows.
THEOREM TypeCorrect == Spec => []TypeOK
<1>1. TypeOK /\ [Next]_vars => TypeOK'
  BY TypeStep
<1> QED
  BY <1>1, InitType, PTL DEF Spec

-------------------------------------------------------------------------------
(* What is reviewed is one run.                                             *)

RunIInv == TypeOK /\ RunInv /\ ReviewIsOneRun

\* The start of a run: whatever was stored or linked before is gone, and if no
\* task was alive the new one is the only one.
LEMMA RestartRun ==
  ASSUME TypeOK, RunInv, Reset, Schedule
  PROVE  RunInv' /\ ReviewIsOneRun'
<1>1. PICK t \in Tasks :
        /\ phase[t] = "free"
        /\ phase' = [phase EXCEPT ![t] = "scheduled"]
        /\ overlapped' = (overlapped \/ Alive # {})
  BY DEF Schedule
<1>2. ASSUME ~overlapped', NEW u \in Alive' PROVE u = t
  BY <1>1, <1>2 DEF Alive, TypeOK
<1>3. phase'[t] = "scheduled"
  BY <1>1 DEF TypeOK
<1> QED
  BY <1>2, <1>3 DEF Reset, RunInv, ReviewIsOneRun, OneRunAtATime, TypeOK

\* A step that leaves the row's status, the results, the tasks and the parts
\* with lines alone.
LEMMA QuietRun ==
  ASSUME RunIInv, files' \subseteq Files, Parsed(files') = Parsed(files),
         UNCHANGED <<status, link, rows, totals, phase, snap, overlapped>>
  PROVE  RunInv' /\ ReviewIsOneRun'
<1>1. RunInv'
  BY DEF RunIInv, RunInv, OneRunAtATime, Alive
<1>2. ReviewIsOneRun'
  <2>1. \A f \in files' : f \in files \/ link[f] = Nobody
    BY DEF RunIInv, TypeOK, Parsed
  <2> QED
    BY <2>1 DEF RunIInv, ReviewIsOneRun
<1> QED BY <1>1, <1>2

LEMMA RequestRun ==
  ASSUME RunIInv, TypeOK', NEW r \in Requests, RequestStep(r)
  PROVE  RunInv' /\ ReviewIsOneRun'
<1> USE DEF RunIInv
<1>1. ASSUME NEW kind, NEW parts, Receive(r, kind, parts)
      PROVE  RunInv' /\ ReviewIsOneRun'
  BY <1>1, QuietRun DEF Receive, row, TypeOK
<1>2. CASE ReprocessRead(r) \/ AttachRead(r) \/ RemoveRead(r) \/ CancelRead(r) \/ DiscardRead(r)
  BY <1>1, <1>2 DEF ReprocessRead, AttachRead, RemoveRead, CancelRead, DiscardRead
<1>3. ASSUME NEW kind, Answer(r, kind), NothingWritten
      PROVE  RunInv' /\ ReviewIsOneRun'
  BY <1>3, QuietRun DEF Answer, NothingWritten, row, TypeOK
<1>4. CASE ReprocessCommit(r)
  BY <1>3, <1>4, RestartRun DEF ReprocessCommit
<1>5. CASE AttachCommit(r)
  <2>1. PICK f \in request[r].file :
          IF SameHash(f) \/ f \in files \cup removed
          THEN NothingWritten
          ELSE /\ files' = files \cup {f}
               /\ IF f \in FailedParts
                  THEN UNCHANGED <<status, link, rows, totals, phase, overlapped>>
                  ELSE Reset /\ Schedule
               /\ UNCHANGED <<deleted, removed>>
    BY <1>5 DEF AttachCommit
  <2>2. Answer(r, "attach")
    BY <1>5 DEF AttachCommit
  <2>3. CASE NothingWritten
    BY <1>3, <2>2, <2>3
  <2>4. CASE files' = files \cup {f} /\ f \in FailedParts
             /\ UNCHANGED <<status, link, rows, totals, phase, overlapped>>
    <3>1. Parsed(files') = Parsed(files) /\ UNCHANGED snap /\ files' \subseteq Files
      BY <2>2, <2>4 DEF Parsed, Answer, TypeOK
    <3> QED BY <2>4, <3>1, QuietRun
  <2> QED
    BY <2>1, <2>3, <2>4, RestartRun
<1>6. CASE RemoveCommit(r)
  <2>1. PICK f \in request[r].file :
          /\ files' = files \ {f}
          /\ removed' = removed \cup {f}
          /\ IF f \in FailedParts
             THEN UNCHANGED <<status, link, rows, totals, phase, overlapped>>
             ELSE Reset /\ Schedule
    BY <1>6 DEF RemoveCommit
  <2>2. UNCHANGED snap /\ files' \subseteq Files
    BY <1>6 DEF RemoveCommit, Answer, TypeOK
  <2>3. CASE f \in FailedParts
    <3>1. Parsed(files') = Parsed(files)
      BY <2>1, <2>3 DEF Parsed
    <3> QED BY <2>1, <2>2, <2>3, <3>1, QuietRun
  <2> QED
    BY <2>1, <2>3, RestartRun
<1>7. CASE CancelCommit(r)
  BY <1>7 DEF CancelCommit, Answer, RunInv, ReviewIsOneRun, OneRunAtATime, Alive
<1>8. CASE DiscardCommit(r)
  BY <1>8, QuietRun DEF DiscardCommit, Answer, TypeOK
<1> QED
  BY <1>2, <1>4, <1>5, <1>6, <1>7, <1>8 DEF RequestStep

\* A task that moves on never becomes alive again.
LEMMA MoveAlive ==
  ASSUME TypeOK, NEW t \in Alive, NEW to, Move(t, to)
  PROVE  /\ Alive' \subseteq Alive
         /\ to = "over" => Alive' = Alive \ {t}
         /\ \A u \in Tasks \ {t} : phase'[u] = phase[u]
         /\ phase'[t] = to
  BY DEF TypeOK, Move, Alive

LEMMA TaskRun ==
  ASSUME RunIInv, NEW t \in Tasks, TaskStep(t)
  PROVE  RunInv' /\ ReviewIsOneRun'
<1> USE DEF RunIInv
\* A task that moves without writing: its own snapshot aside, nothing to redo.
<1>1. ASSUME NEW to, Move(t, to), t \in Alive, UNCHANGED <<row, snap>>, to # "loaded"
      PROVE  RunInv' /\ ReviewIsOneRun'
  <2>1. RunInv'
    <3>1. Alive' \subseteq Alive
      BY <1>1, MoveAlive
    <3>2. \A u \in Alive' : phase'[u] = "loaded" => phase[u] = "loaded"
      BY <1>1, <3>1, MoveAlive DEF Alive
    <3>3. UNCHANGED <<row, snap, overlapped>>
      BY <1>1 DEF Move
    <3> QED
      BY <3>1, <3>2, <3>3 DEF RunInv, OneRunAtATime, row, Parsed
  <2>2. ReviewIsOneRun'
    BY <1>1 DEF ReviewIsOneRun, row, Move
  <2> QED BY <2>1, <2>2
<1>2. CASE TaskLoad(t)
  <2>1. t \in Alive /\ UNCHANGED row
    BY <1>2 DEF TaskLoad, Alive
  <2>2. CASE Move(t, "loaded") /\ snap' = [snap EXCEPT ![t] = Parsed(files)]
    <3>1. snap'[t] = Parsed(files')
      BY <2>1, <2>2 DEF row, TypeOK
    <3>2. RunInv'
      BY <2>1, <2>2, <3>1, MoveAlive DEF RunInv, OneRunAtATime, row, Move
    <3>3. ReviewIsOneRun'
      BY <2>1, <2>2 DEF ReviewIsOneRun, RunInv, row, Move
    <3> QED BY <3>2, <3>3
  <2> QED
    BY <1>1, <1>2, <2>1, <2>2 DEF TaskLoad
<1>3. CASE TaskFail(t)
  BY <1>1, <1>3 DEF TaskFail, Alive
<1>4. CASE TaskLand(t)
  <2>1. t \in Alive /\ Move(t, "over") /\ UNCHANGED <<files, snap>>
    BY <1>4 DEF TaskLand, Alive
  <2>2. ASSUME ~overlapped PROVE Alive' = {}
    BY <2>1, <2>2, MoveAlive DEF RunInv, OneRunAtATime
  <2>3. UNCHANGED overlapped
    BY <2>1 DEF Move
  <2>4. RunInv'
    BY <2>2, <2>3 DEF RunInv, OneRunAtATime
  <2>5. ASSUME ~overlapped, status = "processing" PROVE ReviewIsOneRun'
    <3>1. rows' = {t} /\ totals' = t /\ t # Nobody
      BY <1>4, <2>1, <2>5, SessionConstants DEF TaskLand, StoreResult, RunInv
    <3>2. \A f \in files' : link'[f] \in {Nobody, t}
      BY <1>4, <2>1, <2>5 DEF TaskLand, StoreResult, RunInv, TypeOK
    <3>3. snap'[t] = Parsed(files')
      BY <1>4, <2>1, <2>5 DEF TaskLand, RunInv
    <3> QED BY <3>1, <3>2, <3>3 DEF ReviewIsOneRun
  <2>6. ASSUME ~overlapped, status # "processing" PROVE status' # "reviewing"
    BY <1>4, <2>1, <2>6 DEF TaskLand, RunInv
  <2>7. ReviewIsOneRun'
    BY <2>3, <2>5, <2>6 DEF ReviewIsOneRun
  <2> QED BY <2>4, <2>7
<1>5. CASE TaskMarkError(t)
  <2>1. t \in Alive /\ Move(t, "over") /\ status' = "error"
    BY <1>5 DEF TaskMarkError, Alive
  <2> QED
    BY <2>1, MoveAlive DEF RunInv, ReviewIsOneRun, OneRunAtATime, Move
<1>6. CASE TaskLost(t)
  BY <1>1, <1>6 DEF TaskLost
<1> QED
  BY <1>2, <1>3, <1>4, <1>5, <1>6 DEF TaskStep

\* While runs never overlapped, a reconciliation under review shows the result of
\* exactly one run over exactly the lines attached now, for any number of parts,
\* tasks and concurrent requests of every kind.
THEOREM ReviewedIsOneRun == Spec => []ReviewIsOneRun
<1>1. Init => RunIInv
  <2> SUFFICES ASSUME Init PROVE RunInv /\ ReviewIsOneRun
    BY InitType DEF RunIInv
  <2>1. \A t, u \in Alive : t = u
    BY DEF Init, Alive
  <2>2. \A t \in Alive : phase[t] = "scheduled"
    BY DEF Init, Alive
  <2> QED
    BY <2>1, <2>2 DEF Init, RunInv, ReviewIsOneRun, OneRunAtATime
<1>2. RunIInv /\ [Next]_vars => RunIInv'
  <2> SUFFICES ASSUME RunIInv, [Next]_vars PROVE RunIInv'
    OBVIOUS
  <2>1. TypeOK'
    BY TypeStep DEF RunIInv
  <2>2. CASE MarkStuck
    <3>1. RunInv' /\ ReviewIsOneRun'
      BY <2>2 DEF MarkStuck, RunIInv, RunInv, ReviewIsOneRun, OneRunAtATime, Alive
    <3> QED BY <2>1, <3>1 DEF RunIInv
  <2>3. CASE UNCHANGED vars
    BY <2>1, <2>3, QuietRun DEF RunIInv, vars, row, TypeOK
  <2> QED
    BY <2>1, <2>2, <2>3, RequestRun, TaskRun DEF Next, RunIInv
<1>3. RunIInv => ReviewIsOneRun
  BY DEF RunIInv
<1> QED
  BY <1>1, <1>2, <1>3, PTL DEF Spec

-------------------------------------------------------------------------------
(* The cancel prevails.                                                     *)

\* A task still running never turns a reconciliation in error into one under
\* review: only the landing writes `reviewing`, and it asks for `processing`.
THEOREM CancelPrevails == Spec => NoResurrection
<1>1. [Next]_vars => (status = "error" => status' # "reviewing")
  <2> SUFFICES ASSUME [Next]_vars, status = "error" PROVE status' # "reviewing"
    OBVIOUS
  <2>1. ASSUME NEW r \in Requests, RequestStep(r) PROVE status' # "reviewing"
    BY <2>1 DEF RequestStep, ReprocessRead, ReprocessCommit, AttachRead, AttachCommit,
                RemoveRead, RemoveCommit, CancelRead, CancelCommit, DiscardRead,
                DiscardCommit, Receive, NothingWritten, Reset, row
  <2>2. ASSUME NEW t \in Tasks, TaskStep(t) PROVE status' # "reviewing"
    BY <2>2 DEF TaskStep, TaskLoad, TaskFail, TaskLand, TaskMarkError, TaskLost, row
  <2>3. CASE MarkStuck
    BY <2>3 DEF MarkStuck
  <2>4. CASE UNCHANGED vars
    BY <2>4 DEF vars, row
  <2> QED
    BY <2>1, <2>2, <2>3, <2>4 DEF Next
<1> QED
  BY <1>1, PTL DEF Spec, NoResurrection

-------------------------------------------------------------------------------
(* The claim excludes: reprocess and discard alone implement ExclusiveRun.  *)

ClaimOnly == Kinds \subseteq {"reprocess", "discard"}

ClaimIInv == TypeOK /\ ClaimInv

\* With these two kinds in use the other endpoints have no step to take.
LEMMA ClaimOnlySteps ==
  ASSUME ClaimOnly, ClaimInv, NEW r \in Requests, RequestStep(r)
  PROVE  \/ ReprocessRead(r) \/ ReprocessCommit(r)
         \/ DiscardRead(r) \/ DiscardCommit(r)
  BY DEF ClaimOnly, ClaimInv, RequestStep, AttachRead, AttachCommit, RemoveRead,
         RemoveCommit, CancelRead, CancelCommit, Receive, Answer

\* Receiving or answering keeps the kinds in flight among those in use.
LEMMA KindsInUse ==
  ASSUME TypeOK, ClaimInv, NEW r \in Requests, RequestStep(r)
  PROVE  \A q \in Requests : request'[q].kind \in Kinds \cup {"none"}
<1>1. ASSUME NEW kind, NEW parts, Receive(r, kind, parts)
      PROVE  \A q \in Requests : request'[q].kind \in Kinds \cup {"none"}
  BY <1>1 DEF Receive, TypeOK, ClaimInv
<1>2. ASSUME NEW kind, Answer(r, kind)
      PROVE  \A q \in Requests : request'[q].kind \in Kinds \cup {"none"}
  BY <1>2 DEF Answer, TypeOK, ClaimInv, Idle
<1> QED
  BY <1>1, <1>2 DEF RequestStep, ReprocessRead, ReprocessCommit, AttachRead, AttachCommit,
                    RemoveRead, RemoveCommit, CancelRead, CancelCommit, DiscardRead,
                    DiscardCommit

\* A claim that succeeds found nobody alive and leaves exactly one task.
LEMMA ClaimStarts ==
  ASSUME ClaimIInv, Claimed, Schedule
  PROVE  Alive = {} /\ \E t \in Tasks : Alive' = {t}
<1>1. Alive = {}
  BY DEF ClaimIInv, ClaimInv, Claimed, Reprocessable
<1>2. PICK t \in Tasks : phase' = [phase EXCEPT ![t] = "scheduled"]
  BY DEF Schedule
<1>3. Alive' = {t}
  BY <1>1, <1>2 DEF Alive, ClaimIInv, TypeOK
<1> QED BY <1>1, <1>3

\* What one step of the implementation is for whoever looks at the
\* reconciliation: a step of ExclusiveRun or none, and the invariant again.
LEMMA ClaimRequestStep ==
  ASSUME ClaimOnly, ClaimIInv, NEW r \in Requests, RequestStep(r)
  PROVE  ClaimInv' /\ [Exclusive!Next]_(Exclusive!vars)
<1> USE DEF ClaimIInv
<1>1. CASE UNCHANGED <<row, phase>>
  BY <1>1, KindsInUse DEF ClaimInv, OneRunAtATime, Alive, row, Exclusive!vars
<1>2. CASE ReprocessRead(r) \/ DiscardRead(r)
  BY <1>1, <1>2 DEF ReprocessRead, DiscardRead, Receive
<1>3. CASE ReprocessCommit(r)
  <2>1. CASE ~Claimed
    BY <1>1, <1>3, <2>1 DEF ReprocessCommit, NothingWritten
  <2>2. CASE Claimed
    <3>1. Alive = {} /\ \E t \in Tasks : Alive' = {t}
      BY <1>3, <2>2, ClaimStarts DEF ReprocessCommit
    <3>2. status' = "processing" /\ UNCHANGED deleted
      BY <1>3, <2>2 DEF ReprocessCommit, Reset
    <3>3. ClaimInv'
      BY <3>1, <3>2, KindsInUse DEF ClaimInv, OneRunAtATime
    <3>4. Exclusive!Start
      BY <2>2, <3>1, <3>2 DEF Exclusive!Start, Claimed, Reprocessable, TypeOK
    <3> QED BY <3>3, <3>4 DEF Exclusive!Next
  <2> QED BY <2>1, <2>2
<1>4. CASE DiscardCommit(r)
  <2>1. ClaimInv'
    BY <1>4, KindsInUse DEF DiscardCommit, ClaimInv, OneRunAtATime, Alive
  <2>2. Exclusive!Discard
    BY <1>4 DEF DiscardCommit, Exclusive!Discard, Alive
  <2> QED BY <2>1, <2>2 DEF Exclusive!Next
<1> QED
  BY <1>2, <1>3, <1>4, ClaimOnlySteps

LEMMA ClaimTaskStep ==
  ASSUME ClaimIInv, NEW t \in Tasks, TaskStep(t)
  PROVE  ClaimInv' /\ [Exclusive!Next]_(Exclusive!vars)
<1> USE DEF ClaimIInv
<1>1. t \in Alive /\ Alive = {t} /\ status = "processing"
  BY DEF TaskStep, TaskLoad, TaskFail, TaskLand, TaskMarkError, TaskLost, Alive,
         ClaimInv, OneRunAtATime
<1>2. UNCHANGED <<request, deleted>>
  BY DEF TaskStep, TaskLoad, TaskFail, TaskLand, TaskMarkError, TaskLost, Move, row
<1>3. \A q \in Requests : request'[q].kind \in Kinds \cup {"none"}
  BY <1>2 DEF ClaimInv
<1>4. ASSUME NEW to \in {"loaded", "failing"}, Move(t, to), UNCHANGED row
      PROVE  ClaimInv' /\ [Exclusive!Next]_(Exclusive!vars)
  <2>1. Alive' = {t}
    BY <1>1, <1>4, MoveAlive DEF Alive
  <2> QED
    BY <1>1, <1>3, <1>4, <2>1 DEF ClaimInv, OneRunAtATime, row, Exclusive!vars
<1>5. ASSUME Move(t, "over"), status' = status \/ status' \in {"reviewing", "error"}
      PROVE  ClaimInv' /\ [Exclusive!Next]_(Exclusive!vars)
  <2>1. Alive' = {}
    BY <1>1, <1>5, MoveAlive
  <2>2. ClaimInv'
    BY <1>3, <2>1 DEF ClaimInv, OneRunAtATime
  <2>3. Exclusive!Finish \/ Exclusive!Lose
    BY <1>1, <1>2, <1>5, <2>1 DEF Exclusive!Finish, Exclusive!Lose
  <2> QED BY <2>2, <2>3 DEF Exclusive!Next
<1> QED
  BY <1>4, <1>5 DEF TaskStep, TaskLoad, TaskFail, TaskLand, TaskMarkError, TaskLost, row

\* Refinement: as long as reprocess and discard are the only endpoints in use,
\* every behaviour of the session is one of ExclusiveRun, whatever the number of
\* concurrent requests: the conditional UPDATE alone keeps the runs apart.
THEOREM ClaimExcludes == ASSUME ClaimOnly PROVE Spec => ExclusiveSpec
<1>1. Init => ClaimIInv /\ Exclusive!Init
  <2> SUFFICES ASSUME Init PROVE ClaimIInv /\ Exclusive!Init
    OBVIOUS
  <2>1. PICK t \in Tasks : phase = [x \in Tasks |-> IF x = t THEN "scheduled" ELSE "free"]
    BY DEF Init
  <2>2. Alive = {t}
    BY <2>1 DEF Alive
  <2> QED
    BY <2>2, InitType DEF Init, ClaimIInv, ClaimInv, OneRunAtATime, Idle, Exclusive!Init
<1>2. ClaimIInv /\ [Next]_vars => ClaimIInv' /\ [Exclusive!Next]_(Exclusive!vars)
  <2> SUFFICES ASSUME ClaimIInv, [Next]_vars
               PROVE  ClaimIInv' /\ [Exclusive!Next]_(Exclusive!vars)
    OBVIOUS
  <2>1. TypeOK'
    BY TypeStep DEF ClaimIInv
  <2>2. CASE MarkStuck
    <3>1. ClaimInv'
      BY <2>2 DEF MarkStuck, ClaimIInv, ClaimInv, OneRunAtATime, Alive
    <3>2. Exclusive!Rescue
      BY <2>2 DEF MarkStuck, Exclusive!Rescue, Alive
    <3> QED BY <2>1, <3>1, <3>2 DEF ClaimIInv, Exclusive!Next
  <2>3. CASE UNCHANGED vars
    BY <2>1, <2>3 DEF ClaimIInv, ClaimInv, OneRunAtATime, Alive, vars, row, Exclusive!vars
  <2> QED
    BY <2>1, <2>2, <2>3, ClaimRequestStep, ClaimTaskStep DEF Next, ClaimIInv
<1> QED
  BY <1>1, <1>2, PTL DEF Spec, ExclusiveSpec, Exclusive!Spec
=============================================================================
