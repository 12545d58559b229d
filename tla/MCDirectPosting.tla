--------------------------- MODULE MCDirectPosting ---------------------------
(***************************************************************************)
(* Instances of DirectPosting for TLC.                                     *)
(***************************************************************************)
EXTENDS DirectPosting, TLC

Symmetry == Permutations(Lines) \cup Permutations(Batches) \cup Permutations(Entries)

\* A line that two batches have raced over, or are at, is alone: the other is
\* untouched.  And one line at a time has a POST travelling unattended.
OneHardLine ==
  \A l \in Lines :
    /\ ("race" \in excuse[l]
        \/ \E b, c \in Batches : b # c /\ batch[b] # Resting /\ batch[c] # Resting /\ Holds(b, l))
         => \A k \in Lines \ {l} :
              posting[k] = Unknown /\ stray[k] = 0 /\ \A b \in Batches : ~Holds(b, k)
    /\ stray[l] > 0 => \A k \in Lines \ {l} : stray[k] = 0
=============================================================================
