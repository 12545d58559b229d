------------------------------ MODULE MCMatching ------------------------------
(* Two lines against three movements, of which the supplier of one or two is      *)
(* named in a line; and two lines against two movements, each in the statement,   *)
(* among the titles, or in both; in days 0 to 2 and amounts of one to three cents. *)
EXTENDS Matching

CONSTANTS MCModes

Names(ids, limit) ==
  {[x \in Lines \X (1..3) |-> IF x \in named THEN 1 ELSE 0] :
     named \in {s \in SUBSET (Lines \X ids) : Cardinality(s) <= limit}}

LineData(days, amounts) == [Lines -> [day : days, amount : amounts]]

Realized(i, d, a) ==
  [id |-> i, day |-> d, amount |-> a, realized |-> TRUE, status |-> "realized", at |-> i]

Title(i, d, a, status) ==
  [id |-> i, day |-> d, amount |-> a, realized |-> FALSE, status |-> status,
   at |-> IF status = "late" THEN 10 + i ELSE 20 + i]

Evidence ==
  [mode : MCModes, lot : {1}, line : LineData({0, 1}, {1, 2}), affinity : Names(1..2, 2),
   rows : {{Realized(i, data[i].day, data[i].amount) : i \in 1..3} :
             data \in [1..3 -> [day : {0, 1}, amount : {1, 2, 3}]]}]

Answers(i) ==
  {{Realized(i, d, a)} : d \in 0..2, a \in {1, 2}}
    \cup {{Title(i, d, a, s)} : d \in 0..2, a \in {1, 2}, s \in {"late", "due"}}
    \cup {{Realized(i, d, a), Title(i, e, a, "late")} : d \in 0..1, e \in 0..1, a \in {1, 2}}

Sources ==
  [mode : MCModes, lot : {1}, line : LineData(0..2, {1, 2}), affinity : Names({1}, 0),
   rows : {x \cup y : x \in Answers(1), y \in Answers(2)}]

MCInputs == Sources \cup Evidence
===============================================================================
