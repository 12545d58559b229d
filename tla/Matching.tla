------------------------------- MODULE Matching -------------------------------
(***************************************************************************)
(* One run's cross-check of the lines of a statement with the movements of *)
(* Omie: what was read is windowed and stripped of repetitions, pairs are  *)
(* closed in passes of growing distance in days, the strongest first, and  *)
(* lines, movements left over and balances are settled from the pairs.     *)
(***************************************************************************)
EXTENDS Integers, FiniteSets, FiniteSetsExt

CONSTANTS
  Lines,      \* lines of the statement, numbered in the order of their ids
  MaxDays,      \* DATE_DIVERGENCE_RANGE: 3
  Tolerance,  \* AMOUNT_TOLERANCE, in cents: 1
  Inputs,     \* what a run may find
  None

(***************************************************************************)
(* An input: `mode` and, for a credit card posted by lots, the due date    *)
(* `lot`; `line` with the day and the amount of each line; `rows`, what    *)
(* Omie answers, in the order `at` of its answers, a movement perhaps both *)
(* in the statement of the account and among the titles; `affinity`, the   *)
(* words that a line's description shares with a movement's supplier.      *)
(***************************************************************************)
\* Rows are answers in an order, so no two have the same place in it. A run without lines
\* ends before: the first day is the min() of theirs.
ASSUME MatchingConstants ==
  /\ MaxDays \in Nat /\ Tolerance \in Nat
  /\ IsFiniteSet(Lines) /\ Lines # {}
  /\ \A i \in Inputs :
       /\ IsFiniteSet(i.rows)
       /\ i.line \in [Lines -> [day : Int, amount : Int]]
       /\ i.lot \in Int
       /\ \A m \in i.rows :
            /\ m.day \in Int /\ m.amount \in Int /\ m.at \in Int
            /\ \A n \in i.rows : m.at = n.at => m = n
            /\ m.realized => \A l \in Lines : i.affinity[<<l, m.id>>] \in Nat

VARIABLES
  input,
  pass,       \* the distance in days that is being closed
  pairs,      \* matches
  result      \* what the landing stores

vars == <<input, pass, pairs, result>>

Init ==
  /\ input \in Inputs
  /\ pass = 0
  /\ pairs = {}
  /\ result = None

Distance(x, y) == IF x >= y THEN x - y ELSE y - x
ByLot == input.mode = "lot"
Line(l) == input.line[l]
FirstDay == Min({Line(l).day : l \in Lines})
LastDay == Max({Line(l).day : l \in Lines})

\* omie_window_for_session
InWindow(m) ==
  IF ByLot THEN Distance(m.day, input.lot) <= MaxDays
           ELSE FirstDay - MaxDays <= m.day /\ m.day <= LastDay + MaxDays

\* fetch_realized; fetch_pending, which asks for titles by the date of their inclusion unless
\* the lot of an invoice is looked for.
Read == {m \in input.rows : InWindow(m) \/ (~m.realized /\ ~ByLot)}

\* deduplicate_by_id
Repeated == Read

Movements == {m \in Read : \A n \in Read : n.id = m.id => m.at <= n.at}

-------------------------------------------------------------------------------
(* match and match_invoice_lot. A pair is a line and a movement.            *)

Days(p) == IF ByLot THEN 0 ELSE Distance(Line(p.line).day, p.move.day)
Off(p) == Distance(Line(p.line).amount, p.move.amount)
LastPass == IF ByLot THEN 0 ELSE MaxDays

\* supplier_affinity: titles come without the name of their supplier.
Affinity(p) == IF p.move.realized THEN input.affinity[<<p.line, p.move.id>>] ELSE 0

Eligible == {p \in [line : Lines, move : Movements] : Off(p) <= Tolerance /\ Days(p) <= LastPass}

\* Within a pass: the amount, the name, the date at Omie, the order of the lines, the list.
EarlierLine(l, k) ==
  Line(l).day < Line(k).day \/ (Line(l).day = Line(k).day /\ l < k)

\* Each line in its turn, the evidence only among its own candidates.
LineByLine(p, q) ==
  \/ EarlierLine(p.line, q.line)
  \/ p.line = q.line /\ Off(p) < Off(q)
  \/ p.line = q.line /\ Off(p) = Off(q) /\ p.move.at < q.move.at

Stronger(p, q) ==
  \/ Off(p) < Off(q)
  \/ /\ Off(p) = Off(q)
     /\ \/ Affinity(p) > Affinity(q)
        \/ /\ Affinity(p) = Affinity(q)
           /\ \/ ~ByLot /\ p.move.day < q.move.day
              \/ /\ ByLot \/ p.move.day = q.move.day
                 /\ \/ EarlierLine(p.line, q.line)
                    \/ p.line = q.line /\ p.move.at < q.move.at

Shares(p, q) == p.line = q.line \/ p.move = q.move
Free(p) == \A q \in pairs : ~Shares(p, q)
Candidates == {p \in Eligible : Days(p) = pass /\ Free(p)}

Close ==
  /\ result = None /\ pass <= LastPass
  /\ \E p \in Candidates :
       /\ \A q \in Candidates \ {p} : Stronger(p, q)
       /\ pairs' = pairs \cup {p}
  /\ UNCHANGED <<input, pass, result>>

\* A pass that closes no more than the one pair.
NextPassAtOnce ==
  /\ result = None /\ pass <= LastPass
  /\ Candidates = {} \/ \E p \in pairs : Days(p) = pass
  /\ pass' = pass + 1
  /\ UNCHANGED <<input, pairs, result>>

NextPass ==
  /\ result = None /\ pass <= LastPass
  /\ Candidates = {}
  /\ pass' = pass + 1
  /\ UNCHANGED <<input, pairs, result>>

-------------------------------------------------------------------------------
(* What the job makes of the pairs.                                         *)

Situation(l) ==
  IF \A p \in pairs : p.line # l THEN "sem_omie"
  ELSE IF \E p \in pairs : p.line = l /\ Days(p) = 0 THEN "conciliado"
  ELSE "conciliado_data_divergente"

Left == {m \in Movements : \A p \in pairs : p.move # m}

\* create_structural_anomalies
Anomalies ==
  [type : {"missing_in_omie"}, of : {l \in Lines : Situation(l) = "sem_omie"}]
    \cup [type : {"wrong_date"}, of : {l \in Lines : Situation(l) = "conciliado_data_divergente"}]
    \cup [type : {"missing_in_file"}, of : {m \in Left : m.status = "late"}]

\* compute_balances: of the statement's own days, not of the window.
CountsAnywhere(m) == m.realized

Counts(m) == m.realized /\ FirstDay <= m.day /\ m.day <= LastDay

\* With the balances of the statement's lines in agreement with their amounts.
Difference ==
  MapThenSumSet(LAMBDA l : Line(l).amount, Lines)
    - MapThenSumSet(LAMBDA m : m.amount, {m \in Movements : Counts(m)})

Land ==
  /\ result = None /\ pass > LastPass
  /\ result' = [situation |-> [l \in Lines |-> Situation(l)], entries |-> Left,
                anomalies |-> Anomalies, difference |-> Difference]
  /\ UNCHANGED <<input, pass, pairs>>

Landed ==
  /\ result # None
  /\ UNCHANGED vars

Next == Close \/ NextPass \/ Land \/ Landed

Spec == Init /\ [][Next]_vars

-------------------------------------------------------------------------------
(* A line has one movement and a movement one line; no movement, not even one that Omie  *)
(* returned twice, both closes a line and is left over, or is left over twice.           *)
OneToOne ==
  /\ \A p, q \in pairs : p # q => p.line # q.line /\ p.move.id # q.move.id
  /\ result # None =>
       /\ \A m, n \in result.entries : m # n => m.id # n.id
       /\ \A m \in result.entries : \A p \in pairs : p.move.id # m.id

AsStrong(p, q) ==
  \/ Days(p) < Days(q)
  \/ Days(p) = Days(q) /\ Off(p) < Off(q)
  \/ Days(p) = Days(q) /\ Off(p) = Off(q) /\ Affinity(p) >= Affinity(q)

\* Whoever goes without a partner lost it to evidence no weaker: every pair that could have
\* been closed and was not shares its line or its movement with one that was, which is nearer
\* in days or, at one distance, in the amount or, at one amount, has as much of the name.
Stable ==
  pass > LastPass =>
    \A e \in Eligible \ pairs : \E p \in pairs : Shares(p, e) /\ AsStrong(p, e)

\* What is left over on either side raises an alarm (create_structural_anomalies): a line
\* reported as missing in Omie and a title reported as missing in the statement could not have
\* been each other's pair, so one purchase never raises both.
NoDoubleAlarm ==
  result # None =>
    \A a, b \in result.anomalies :
      a.type = "missing_in_omie" /\ b.type = "missing_in_file" =>
        [line |-> a.of, move |-> b.of] \notin Eligible

\* A statement whose lines are all conciliated by movements that happened, and whose days
\* have no other such movement, balances to a cent per line, whatever else was read.
ConciliatedMeansBalanced ==
  /\ result # None /\ ~ByLot
  /\ \A l \in Lines : result.situation[l] = "conciliado"
  /\ \A p \in pairs : p.move.realized
  /\ \A m \in result.entries : m.realized => m.day \notin FirstDay..LastDay
  => Distance(result.difference, 0) <= Tolerance * Cardinality(Lines)
===============================================================================
