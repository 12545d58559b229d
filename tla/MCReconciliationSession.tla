----------------------- MODULE MCReconciliationSession -----------------------
(***************************************************************************)
(* Instances of ReconciliationSession for TLC.                             *)
(***************************************************************************)
EXTENDS ReconciliationSession, TLC

CONSTANTS f1, f2, f3, bad

\* f3 is the content of f1 uploaded again.
MCHashOf == [f \in Files |-> IF f = f3 THEN f1 ELSE f]

Symmetry == Permutations(Tasks) \cup Permutations(Requests)
=============================================================================
