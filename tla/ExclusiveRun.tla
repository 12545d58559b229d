----------------------------- MODULE ExclusiveRun -----------------------------
(***************************************************************************)
(* What processing promises to whoever looks at one reconciliation: it has *)
(* an owner while it is `processing`, at most one run works on it at a     *)
(* time, a run delivers exactly one outcome, and nothing but the start of  *)
(* a new run takes an outcome back.  ReconciliationSession implements this *)
(* as long as its only entry points are reprocess and discard.             *)
(***************************************************************************)
VARIABLES
  status,    \* "processing", "reviewing" or "error"
  deleted,   \* the analyst threw the reconciliation away
  running    \* a run is working on it

vars == <<status, deleted, running>>

Init ==
  /\ status = "processing"
  /\ deleted = FALSE
  /\ running = TRUE

\* A new run starts only where no run is working and an outcome was delivered.
Start ==
  /\ ~running /\ ~deleted
  /\ status \in {"reviewing", "error"}
  /\ status' = "processing" /\ running' = TRUE
  /\ UNCHANGED deleted

\* The run delivers its outcome.
Finish ==
  /\ running
  /\ status = "processing"
  /\ status' \in {"reviewing", "error"} /\ running' = FALSE
  /\ UNCHANGED deleted

\* The run ends without delivering (the process died, the row is gone).
Lose ==
  /\ running
  /\ running' = FALSE
  /\ UNCHANGED <<status, deleted>>

\* A reconciliation whose run was lost is put in error from the outside.
Rescue ==
  /\ ~running
  /\ status = "processing"
  /\ status' = "error"
  /\ UNCHANGED <<deleted, running>>

Discard ==
  /\ deleted' = TRUE
  /\ UNCHANGED <<status, running>>

Next == Start \/ Finish \/ Lose \/ Rescue \/ Discard

Spec == Init /\ [][Next]_vars
===============================================================================
