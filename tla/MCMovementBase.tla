---------------------------- MODULE MCMovementBase ----------------------------
(* Two movements, two accounts, two months, three files, one of them blank. *)
EXTENDS MovementBase, TLC

Symmetry ==
  Permutations(Ids) \cup Permutations(Accounts) \cup Permutations(Requests)
===============================================================================
