------------------------------- MODULE MCMapping -------------------------------
(* Instances of Mapping for TLC.                                             *)
EXTENDS Mapping, TLC

Symmetry == Permutations(Keys) \cup Permutations(Targets) \cup Permutations(Requests)
================================================================================
