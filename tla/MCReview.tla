-------------------------------- MODULE MCReview --------------------------------
(* Instances of Review for TLC.                                             *)
EXTENDS Review, TLC

\* Every situation alone and every change of link alone, and the one pair that the code
\* speaks of: unlinked and ignored.  The other pairs make rows that these make in two patches.
MCAsked ==
  [situation: {"sem_omie", "conciliado", "ignorado"}, link: {Same}]
    \cup [situation: {Same}, link: OmieIds \cup {NoId}]
    \cup {[situation |-> "ignorado", link |-> NoId]}

Symmetry == Permutations(Lines) \cup Permutations(Requests)

\* States that differ only in counters already known to be wrong (lapse), in what a request
\* that is behind has counted, in why else than for a batch the counters may be wrong, or in
\* whether the situation of a mixed line was named, have the same futures: no action reads
\* these, and no property does while lapse is not empty, or of a line while it is mixed.
View ==
  <<row, omieRows, anomalies, status, lapse = {}, "posting" \in lapse, mixed, named \ mixed,
    IF lapse = {} THEN counters ELSE Zero,
    [r \in Requests |->
       [request[r] EXCEPT !.counted = IF request[r].behind THEN Zero ELSE @,
                          !.named = @ /\ request[r].line \notin mixed]]>>
================================================================================
