---------------------------- MODULE MCConnections ----------------------------
(* Two connections, two labels, two credentials, two requests.             *)
EXTENDS Connections, TLC

Symmetry ==
  Permutations(Ids) \cup Permutations(Labels) \cup Permutations(Secrets)
    \cup Permutations(Requests)
==============================================================================
