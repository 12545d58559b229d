----------------------------- MODULE MCProvision -----------------------------
(* A purchase p in two installments, the first in invoice A, the second in B;  *)
(* in invoice C, the second installment of q, which the program cannot tell    *)
(* from p; and one of a purchase o in D, that may also be posted directly.     *)
EXTENDS Provision

CONSTANTS a1, b1, c1, d1, o, p, q, A, B, C, D, r1, r2

MCNumber == [l \in Lines |-> IF l = a1 THEN 1 ELSE 2]
MCSession == [l \in Lines |-> CASE l = a1 -> A [] l = b1 -> B [] l = c1 -> C [] l = d1 -> D]
MCPurchase == [l \in Lines |-> CASE l = c1 -> q [] l = d1 -> o [] OTHER -> p]
MCIdentity == [l \in Lines |-> IF l = d1 THEN "other" ELSE "same"]

\* The lines of p and q, two at a time; and two requests for one line.
MCPlans == {[r \in Requests |-> IF r = r1 THEN {a1, c1} ELSE {b1}],
            [r \in Requests |-> {a1}], [r \in Requests |-> {d1}]}
================================================================================
