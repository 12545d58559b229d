--------------------------- MODULE InstallmentTitles ---------------------------
(***************************************************************************)
(* What provisioning promises about the titles of a purchase's future      *)
(* installments, whoever works on their lines and in whatever order the    *)
(* invoices come: one is announced before it can exist; it is offered to   *)
(* later invoices only once it is known to exist; one line takes it, of    *)
(* another invoice and of a purchase like the one that announced it, for   *)
(* good; and only that line pays it.  Provision implements this.           *)
(***************************************************************************)
CONSTANTS
  Titles,     \* the installments still to come of every purchase
  Lines,
  MayAnswer,  \* the pairs of a line and a title it could be about
  NoLine

VARIABLES
  announced,  \* recorded by the program
  existing,   \* at Omie
  offered,    \* recorded as existing
  claimant,   \* the line each answers for
  paid        \* the payments at Omie: who paid which

vars == <<announced, existing, offered, claimant, paid>>

Init ==
  /\ announced = {} /\ existing = {} /\ offered = {} /\ paid = {}
  /\ claimant = [t \in Titles |-> NoLine]

\* Those of a purchase are announced together.
Announce ==
  /\ \E some \in SUBSET Titles : announced' = announced \cup some
  /\ UNCHANGED <<existing, offered, claimant, paid>>

\* Omie creates a title, with or without the program knowing.
Create(t) ==
  /\ t \in announced
  /\ existing' = existing \cup {t}
  /\ UNCHANGED <<announced, offered, claimant, paid>>

Offer(t) ==
  /\ t \in announced
  /\ existing' = existing \cup {t}
  /\ offered' = offered \cup {t}
  /\ UNCHANGED <<announced, claimant, paid>>

Claim(l, t) ==
  /\ <<l, t>> \in MayAnswer /\ t \in offered
  /\ claimant[t] = NoLine
  /\ \A u \in Titles : claimant[u] # l
  /\ claimant' = [claimant EXCEPT ![t] = l]
  /\ UNCHANGED <<announced, existing, offered, paid>>

Pay(l, t) ==
  /\ claimant[t] = l
  /\ paid' = paid \cup {<<l, t>>}
  /\ UNCHANGED <<announced, existing, offered, claimant>>

Next ==
  \/ Announce
  \/ \E t \in Titles : Create(t) \/ Offer(t)
  \/ \E l \in Lines, t \in Titles : Claim(l, t) \/ Pay(l, t)

Spec == Init /\ [][Next]_vars
================================================================================
