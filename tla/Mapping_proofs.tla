----------------------------- MODULE Mapping_proofs -----------------------------
(***************************************************************************)
(* Proofs about Mapping, for any categories, targets, months, requests and *)
(* materialisations: what has been delivered can be made again, and what a *)
(* person has decided stands.                                              *)
(***************************************************************************)
EXTENDS Mapping, FiniteSetTheorems, WellFoundedInduction, TLAPS

-------------------------------------------------------------------------------
(* Maxima.                                                                  *)

LEMMA LeastNatural ==
  ASSUME NEW T, T \subseteq Nat, T # {}
  PROVE  \E x \in T : \A y \in T : x <= y
<1> DEFINE R == OpToRel(<, Nat)
<1>1. \E x \in T : \A y \in T : ~(<<y, x>> \in R)
  <2>1. IsWellFoundedOn(R, Nat)
    BY NatLessThanWellFounded
  <2> HIDE DEF R
  <2> QED  BY <2>1, WFMin
<1>2. \A x, y \in Nat : y < x => <<y, x>> \in R
  BY DEF OpToRel
<1> HIDE DEF R
<1>3. PICK x \in T : \A y \in T : ~(<<y, x>> \in R)
  BY <1>1
<1>4. ASSUME NEW y \in T PROVE x <= y
  <2>1. x \in Nat /\ y \in Nat
    OBVIOUS
  <2>2. ~(y < x)
    BY <2>1, <1>2, <1>3
  <2> QED  BY <2>1, <2>2
<1> QED  BY <1>4

LEMMA MaxOfBounded ==
  ASSUME NEW S, S \subseteq Nat, S # {}, NEW b \in Nat, \A x \in S : x <= b
  PROVE  Max(S) \in S /\ \A y \in S : Max(S) >= y
<1> DEFINE T == {b - x : x \in S}
<1>1. T \subseteq Nat /\ T # {}
  <2>1. \A x \in S : x \in Nat /\ x <= b
    OBVIOUS
  <2>2. \A x \in S : b - x \in Nat
    BY <2>1
  <2> QED  BY <2>2
<1>2. PICK t \in T : \A y \in T : t <= y
  BY <1>1, LeastNatural
<1>3. PICK x \in S : t = b - x
  BY <1>2
<1>4. \A y \in S : b - x <= b - y
  BY <1>2, <1>3
<1>5. \A y \in S : x >= y
  BY <1>4
<1> QED  BY <1>5 DEF Max

-------------------------------------------------------------------------------
(* The decision in force.                                                   *)

Decisions == [Months -> Rows \cup {None}]

\* The last start up to c, or 0.
LEMMA VigenteIsLast ==
  ASSUME NEW rows \in Decisions, NEW c \in Months
  PROVE  LET v == Vigente(rows, c) IN
         /\ v = 0 \/ (v \in Starts(rows) /\ v <= c)
         /\ \A t \in Starts(rows) : t <= c => t <= v
         /\ v \in Nat
<1> DEFINE S == {0} \cup {s \in Starts(rows) : s <= c}
<1>1. S \subseteq Nat /\ S # {} /\ c \in Nat /\ \A x \in S : x <= c
  BY DEF Starts, Months
<1>2. Max(S) \in S /\ \A y \in S : Max(S) >= y
  BY <1>1, MaxOfBounded
<1>3. Vigente(rows, c) = Max(S)
  BY DEF Vigente
<1> HIDE DEF S
<1>4. \A t \in Starts(rows) : t <= c => t \in S
  BY DEF S
<1>5. Vigente(rows, c) = 0 \/ (Vigente(rows, c) \in Starts(rows) /\ Vigente(rows, c) <= c)
  BY <1>2, <1>3 DEF S
<1> QED  BY <1>1, <1>2, <1>3, <1>4, <1>5

\* A number with these properties is the one.
LEMMA VigenteUnique ==
  ASSUME NEW rows \in Decisions, NEW c \in Months, NEW v \in Nat,
         v = 0 \/ (v \in Starts(rows) /\ v <= c),
         \A t \in Starts(rows) : t <= c => t <= v
  PROVE  Vigente(rows, c) = v
<1>1. Starts(rows) \subseteq Nat \ {0}
  BY DEF Starts, Months
<1>2. Vigente(rows, c) <= v /\ v <= Vigente(rows, c) /\ Vigente(rows, c) \in Nat
  BY <1>1, VigenteIsLast
<1> QED  BY <1>2

\* A decision from s on is not seen in c if it comes later, or something else in between.
Untouched(rows, s, c) == c < s \/ \E t \in Starts(rows) : s < t /\ t <= c

LEMMA LineUntouched ==
  ASSUME NEW rows \in Decisions, NEW new \in Decisions, NEW s \in Months, NEW c \in Months,
         \A t \in Months \ {s} : new[t] = rows[t],
         Untouched(rows, s, c)
  PROVE  Line(new, c) = Line(rows, c)
<1> DEFINE v == Vigente(rows, c)
<1>1. /\ v = 0 \/ (v \in Starts(rows) /\ v <= c)
      /\ \A t \in Starts(rows) : t <= c => t <= v
      /\ v \in Nat
  BY VigenteIsLast
<1> HIDE DEF v
<1>2. Starts(rows) \subseteq Months /\ Starts(new) \subseteq Months /\ Months \subseteq Nat \ {0}
  BY DEF Starts, Months
<1>3. \A t \in Months \ {s} : t \in Starts(rows) <=> t \in Starts(new)
  BY DEF Starts
<1>n. s \in Nat /\ c \in Nat /\ v \in Nat
  BY <1>1 DEF Months
<1>4. v # s /\ \A t \in Starts(new) : t <= c => t <= v
  <2>1. CASE c < s
    <3>1. v # s
      BY <2>1, <1>1, <1>2, <1>n
    <3>2. ASSUME NEW t \in Starts(new), t <= c PROVE t <= v
      <4>0. t \in Nat
        BY <1>2
      <4>1. t # s
        BY <4>0, <3>2, <2>1, <1>n
      <4>2. t \in Starts(rows)
        BY <4>0, <4>1, <1>2, <1>3
      <4> QED  BY <4>2, <3>2, <1>1
    <3> QED  BY <3>1, <3>2
  <2>2. CASE \E t \in Starts(rows) : s < t /\ t <= c
    <3>1. PICK u \in Starts(rows) : s < u /\ u <= c
      BY <2>2
    <3>2. u \in Nat /\ u <= v
      BY <3>1, <1>1, <1>2
    <3>3. s < v
      BY <3>1, <3>2, <1>n
    <3>4. ASSUME NEW t \in Starts(new), t <= c PROVE t <= v
      <4>1. CASE t = s
        BY <4>1, <3>3, <1>n
      <4>2. CASE t # s
        <5>1. t \in Starts(rows)
          BY <4>2, <1>2, <1>3
        <5> QED  BY <5>1, <3>4, <1>1
      <4> QED  BY <4>1, <4>2
    <3>5. v # s
      BY <3>3, <1>n
    <3> QED  BY <3>4, <3>5
  <2> QED  BY <2>1, <2>2 DEF Untouched
<1>5. v = 0 \/ (v \in Starts(new) /\ v <= c)
  BY <1>1, <1>2, <1>3, <1>4
<1>6. Vigente(new, c) = v
  BY <1>1, <1>4, <1>5, VigenteUnique
<1>7. v # 0 => new[v] = rows[v]
  BY <1>1, <1>2, <1>4
<1> QED  BY <1>6, <1>7 DEF Line, v

LEMMA LineType ==
  ASSUME NEW rows \in Decisions, NEW c \in Months
  PROVE  Line(rows, c) \in Lines \cup {None}
<1>1. Vigente(rows, c) = 0 \/ (Vigente(rows, c) \in Starts(rows) /\ Vigente(rows, c) \in Months)
  BY VigenteIsLast DEF Starts
<1>2. \A s \in Starts(rows) : rows[s] \in Rows
  BY DEF Starts, Decisions
<1> QED  BY <1>1, <1>2 DEF Line, Lines, Rows

\* Repeating in s what is in force in s changes no target.
LEMMA LineRepeated ==
  ASSUME NEW rows \in Decisions, NEW new \in Decisions, NEW s \in Months, NEW c \in Months,
         \A t \in Months \ {s} : new[t] = rows[t],
         new[s] # None, Vigente(rows, s) # 0,
         new[s].target = rows[Vigente(rows, s)].target,
         Line(rows, c) # Line(new, c)
  PROVE  Line(rows, c) # None /\ Line(rows, c).target = Line(new, c).target
<1>1. ~Untouched(rows, s, c)
  BY LineUntouched
<1>2. Starts(rows) \subseteq Months /\ Starts(new) \subseteq Months /\ Months \subseteq Nat \ {0}
  BY DEF Starts, Months
<1>n. s \in Nat /\ c \in Nat
  BY DEF Months
<1>3. s <= c /\ \A t \in Starts(rows) : t <= c => t <= s
  <2>1. ~(c < s) /\ \A t \in Starts(rows) : ~(s < t /\ t <= c)
    BY <1>1 DEF Untouched
  <2>2. s <= c
    BY <2>1, <1>n
  <2>3. ASSUME NEW t \in Starts(rows), t <= c PROVE t <= s
    <3>1. t \in Nat
      BY <1>2
    <3> QED  BY <3>1, <2>1, <2>3, <1>n
  <2> QED  BY <2>2, <2>3
<1> DEFINE v == Vigente(rows, s)
<1>4. /\ v \in Starts(rows) /\ v <= s /\ v \in Nat
      /\ \A t \in Starts(rows) : t <= s => t <= v
  BY VigenteIsLast
<1> HIDE DEF v
<1>5. Vigente(rows, c) = v
  <2>1. v <= c /\ \A t \in Starts(rows) : t <= c => t <= v
    BY <1>2, <1>3, <1>4
  <2> QED  BY <1>4, <2>1, VigenteUnique
<1>6. Vigente(new, c) = s
  <2>1. s \in Starts(new)
    BY DEF Starts
  <2>2. ASSUME NEW t \in Starts(new), t <= c PROVE t <= s
    <3>1. CASE t = s
      BY <3>1, <1>2
    <3>2. CASE t # s
      <4>1. t \in Starts(rows)
        BY <3>2, <1>2 DEF Starts
      <4> QED  BY <4>1, <2>2, <1>3
    <3> QED  BY <3>1, <3>2
  <2> QED  BY <2>1, <2>2, <1>2, <1>3, VigenteUnique
<1>7. v # 0 /\ s # 0
  BY <1>2, <1>4
<1>8. Line(rows, c) = [start |-> v, target |-> rows[v].target]
  BY <1>5, <1>7 DEF Line
<1>9. Line(new, c) = [start |-> s, target |-> new[s].target]
  BY <1>6, <1>7 DEF Line
<1>10. Line(rows, c) # None
  <2>1. rows[v] \in Rows
    BY <1>4 DEF Starts, Decisions
  <2>2. Line(rows, c) \in Lines
    BY <1>2, <1>4, <1>8, <2>1 DEF Lines, Rows
  <2> QED  BY <2>2, MappingConstants
<1> QED  BY <1>8, <1>9, <1>10 DEF v

-------------------------------------------------------------------------------
(* The inductive invariant.                                                 *)

Phases == {"idle", "write", "confirm", "inherit", "previewed", "materialise"}

Items == UNION {[present -> Lines \cup {None}] : present \in SUBSET Keys}

Request == [pc : Phases, start : Months, today : Months, effect : [Keys -> Targets \cup {None}],
            resolve : SUBSET Keys, seen : [Keys -> Decisions], bulk : BOOLEAN, late : BOOLEAN,
            items : Items \cup {<<>>}, version : Nat]

Shapes ==
  /\ month \in Months
  /\ decision \in [Keys -> Decisions]
  /\ made \subseteq [competence : Months, version : Nat \ {0}, items : Items, past : BOOLEAN]
  /\ request \in [Requests -> Request]

OneWriter ==
  \A q, r \in Requests : request[q].pc \in Locked /\ request[r].pc \in Locked => q = r

\* The versions of a month: bounded, one row each, none left out.
Versions ==
  /\ \E b \in Nat : \A m \in made : m.version <= b
  /\ \A m, n \in made : m.competence = n.competence /\ m.version = n.version => m = n
  /\ \A m \in made : \A v \in 1..m.version :
       \E n \in made : n.competence = m.competence /\ n.version = v

\* What was materialised of a past month is what the decisions still say of it, and
\* the month is past in every later version.
PastSettled ==
  /\ \A m \in made : m.past =>
       /\ m.competence < month
       /\ \A k \in DOMAIN m.items : m.items[k] = Line(decision[k], m.competence)
  /\ \A m, n \in made :
       m.competence = n.competence /\ m.past /\ m.version < n.version => n.past

\* What a request knows.
SeenStill(rec) ==
  \A k \in Keys : \A s \in Months : rec.seen[k][s] # None => decision[k][s] # None

OlderPast(rec) ==
  rec.today <= month /\ \A m \in made : m.past => m.competence < rec.today

Spares(rec) ==
  rec.start < rec.today => \A k \in Keys : rec.effect[k] # None =>
    \A c \in Delivered : c <= rec.today => Untouched(decision[k], rec.start, c)

Undecided(rec) == \A k \in Keys : rec.effect[k] # None => Starts(decision[k]) = {}

Repeats(start, effect) == \A k \in Keys : effect[k] # None =>
  Proposed(k, start) # 0 /\ decision[k][Proposed(k, start)].target = effect[k]

StillTrue(rec) == \A k \in DOMAIN rec.items : rec.items[k] = Line(decision[k], rec.start)

NextVersion(rec) ==
  /\ rec.version # 0
  /\ \A m \in made : m.competence = rec.start => m.version < rec.version
  /\ \A v \in 1..(rec.version - 1) : \E m \in made : m.competence = rec.start /\ m.version = v

Knows(rec) ==
  /\ SeenStill(rec)
  /\ rec.pc \in Locked => OlderPast(rec)
  /\ rec.pc \in {"write", "inherit"} => Spares(rec)
  /\ rec.pc = "inherit" => Undecided(rec)
  /\ rec.pc = "idle" => ~rec.bulk
  /\ rec.pc \in {"confirm", "write"} /\ rec.bulk /\ ~rec.late => Repeats(rec.start, rec.effect)
  /\ rec.pc \in {"previewed", "materialise"} => rec.items \in Items
  /\ rec.pc = "materialise" => StillTrue(rec) /\ NextVersion(rec)

Inv == /\ Shapes /\ OneWriter /\ Versions /\ PastSettled
       /\ \A r \in Requests : Knows(request[r])

-------------------------------------------------------------------------------
LEMMA DeliveredMonths == ASSUME Shapes PROVE Delivered \subseteq Months
BY DEF Shapes, Delivered

LEMMA MonthsNat == Months \subseteq Nat \ {0}
BY DEF Months

LEMMA IdleKnows == Idle \in Request /\ Idle.pc = "idle" /\ Knows(Idle)
<1>1. NoDecision \in [Keys -> Decisions]
  BY DEF NoDecision, Decisions
<1>2. 1 \in Months
  BY MappingConstants DEF Months
<1>3. Idle \in Request /\ Idle.pc = "idle" /\ ~Idle.bulk /\ Idle.seen = NoDecision
  BY <1>1, <1>2 DEF Idle, Request, Phases, NoEffect
<1>4. SeenStill(Idle)
  BY <1>3 DEF SeenStill, NoDecision
<1> QED  BY <1>3, <1>4 DEF Knows, Locked

LEMMA InitInv == Init => Inv
<1> SUFFICES ASSUME Init PROVE Inv
  OBVIOUS
<1>1. NoDecision \in [Keys -> Decisions]
  BY DEF NoDecision, Decisions
<1>2. \A r \in Requests : request[r] = Idle
  BY DEF Init
<1>3. Shapes
  BY <1>1, IdleKnows DEF Init, Shapes
<1>4. OneWriter
  BY <1>2, IdleKnows DEF OneWriter, Locked
<1>5. Versions /\ PastSettled
  <2>1. 0 \in Nat /\ made = {}
    BY DEF Init
  <2> QED  BY <2>1 DEF Versions, PastSettled
<1> QED  BY <1>2, <1>3, <1>4, <1>5, IdleKnows DEF Inv

\* A step that changes one request and nothing else.
LEMMA OneRequest ==
  ASSUME Inv, NEW r \in Requests, NEW new \in Request, Knows(new),
         UNCHANGED <<month, decision, made>>, request' = [request EXCEPT ![r] = new],
         new.pc \in Locked => \A q \in Requests : request[q].pc \in Locked => q = r
  PROVE  Inv'
<1>1. request \in [Requests -> Request] /\ request'[r] = new
      /\ \A q \in Requests \ {r} : request'[q] = request[q]
  BY DEF Inv, Shapes
<1>2. Shapes'
  BY DEF Inv, Shapes
<1>3. OneWriter'
  BY <1>1 DEF Inv, OneWriter
<1>4. Versions' /\ PastSettled'
  BY DEF Inv, Versions, PastSettled
<1>5. ASSUME NEW q \in Requests PROVE Knows(request[q])'
  <2>1. Knows(request'[q])
    BY <1>1 DEF Inv
  <2> QED  BY <2>1 DEF Knows, SeenStill, OlderPast, Spares, Undecided, Repeats, StillTrue, NextVersion, Delivered, Proposed
<1> QED  BY <1>2, <1>3, <1>4, <1>5 DEF Inv

LEMMA EndsKeeps ==
  ASSUME Inv, NEW r \in Requests, End(r), UNCHANGED <<month, decision, made>>
  PROVE  Inv'
BY IdleKnows, OneRequest DEF End, Locked

LEMMA SeenStarts ==
  ASSUME Inv, NEW r \in Requests, NEW k \in Keys
  PROVE  Starts(Seen(r, k)) = Starts(decision[k])
BY DEF Inv, Knows, SeenStill, Starts, Seen

\* What the guard of the past lets through.
LEMMA GuardSpares ==
  ASSUME Inv, NEW r \in Requests, NEW s \in Months, NEW touched \in SUBSET Keys,
         Allowed(r, s, touched), s < month,
         NEW k \in touched, NEW c \in Delivered, c <= month
  PROVE  Untouched(decision[k], s, c)
<1>1. c \in Months /\ c \in Nat /\ s \in Nat /\ month \in Nat
  BY DeliveredMonths, MonthsNat DEF Inv, Shapes
<1>2. c \notin Guarded(Seen(r, k), s, month)
  BY DEF Allowed
<1>3. ~(s >= month)
  BY <1>1
<1>4. StartsAfter(Seen(r, k), s) = {t \in Starts(decision[k]) : t > s}
  BY SeenStarts DEF StartsAfter
<1>5. CASE c = month
  <2>1. \E t \in StartsAfter(Seen(r, k), s) : ~(t > month)
    BY <1>2, <1>3, <1>5 DEF Guarded
  <2>2. PICK t \in Starts(decision[k]) : t > s /\ ~(t > month)
    BY <2>1, <1>4
  <2>3. t \in Nat
    BY MonthsNat DEF Starts
  <2>4. s < t /\ t <= c
    BY <2>2, <2>3, <1>1, <1>5
  <2> QED  BY <2>4 DEF Untouched
<1>6. CASE c < month /\ s <= c
  <2>1. c \notin Affected(Seen(r, k), s, month)
    BY <1>2, <1>3 DEF Guarded
  <2>2. \E t \in StartsAfter(Seen(r, k), s) : ~(c < t)
    BY <2>1, <1>1, <1>6 DEF Affected
  <2>3. PICK t \in Starts(decision[k]) : t > s /\ ~(c < t)
    BY <2>2, <1>4
  <2>4. t \in Nat
    BY MonthsNat DEF Starts
  <2>5. s < t /\ t <= c
    BY <2>3, <2>4, <1>1
  <2> QED  BY <2>5 DEF Untouched
<1>7. CASE c < s
  BY <1>7 DEF Untouched
<1> QED  BY <1>1, <1>5, <1>6, <1>7

LEMMA WriteKeeps ==
  ASSUME Inv, NEW r \in Requests, NEW s \in Months, NEW effect \in [Keys -> Targets \cup {None}],
         Write(r, s, effect), request[r].bulk /\ ~request[r].late => Repeats(s, effect)
  PROVE  Inv'
<1> DEFINE written == {k \in Keys : effect[k] # None /\ ~Unchanged(Seen(r, k), s, effect[k])}
           mine == [k \in Keys |-> IF k \in written THEN effect[k] ELSE None]
           again == {k \in written : Seen(r, k)[s] # None}
           new == [request[r] EXCEPT !.pc = "write", !.start = s, !.today = month,
                     !.effect = mine, !.resolve = again]
<1>1. /\ Free /\ Allowed(r, s, Touched(r, s, effect))
      /\ UNCHANGED <<month, decision, made>>
      /\ request' = [request EXCEPT ![r] = new]
  BY DEF Write, Inv, Shapes
<1>2. Touched(r, s, effect) = written
  BY DEF Touched
<1>3. written \in SUBSET Keys /\ mine \in [Keys -> Targets \cup {None}] /\ again \in SUBSET Keys
      /\ \A k \in Keys : mine[k] # None => k \in written /\ mine[k] = effect[k]
  BY MappingConstants
<1> HIDE DEF written, mine, again
<1>4. /\ new \in Request
      /\ new.pc = "write" /\ new.start = s /\ new.today = month /\ new.effect = mine
      /\ new.seen = request[r].seen /\ new.bulk = request[r].bulk /\ new.late = request[r].late
  <2>1. request[r] \in Request /\ month \in Months
    BY DEF Inv, Shapes
  <2> QED  BY <2>1, <1>3 DEF Request, Phases
<1> HIDE DEF new
<1>5. SeenStill(new)
  BY <1>4 DEF Inv, Knows, SeenStill
<1>6. OlderPast(new)
  BY <1>4, MonthsNat DEF Inv, OlderPast, PastSettled, Shapes
<1>7. Spares(new)
  BY <1>1, <1>2, <1>3, <1>4, GuardSpares DEF Spares
<1>8. new.bulk /\ ~new.late => Repeats(new.start, new.effect)
  BY <1>3, <1>4 DEF Repeats
<1>9. Knows(new)
  BY <1>4, <1>5, <1>6, <1>7, <1>8 DEF Knows
<1>10. \A q \in Requests : request[q].pc \in Locked => q = r
  BY <1>1 DEF Free
<1> QED  BY <1>1, <1>4, <1>9, <1>10, OneRequest

LEMMA DecideKeeps ==
  ASSUME Inv, NEW r \in Requests, Decide(r)
  PROVE  Inv'
<1>1. PICK s \in Months : \E effect \in [Keys -> Targets \cup {None}] : Write(r, s, effect)
  BY DEF Decide
<1>2. PICK effect \in [Keys -> Targets \cup {None}] : Write(r, s, effect)
  BY <1>1
<1>3. ~request[r].bulk
  BY DEF Decide, At, Inv, Knows
<1> QED  BY <1>2, <1>3, WriteKeeps

LEMMA ConfirmReadKeeps ==
  ASSUME Inv, NEW r \in Requests, ConfirmRead(r)
  PROVE  Inv'
<1>1. PICK s \in Months : \E chosen \in (SUBSET Inherited(s)) \ {{}} :
        request' = [request EXCEPT ![r] = [Idle EXCEPT !.pc = "confirm", !.start = s,
          !.bulk = TRUE, !.seen = decision,
          !.effect = [k \in Keys |-> IF k \in chosen
             THEN decision[k][Proposed(k, s)].target ELSE None]]]
  BY DEF ConfirmRead
<1>2. PICK chosen \in (SUBSET Inherited(s)) \ {{}} :
        request' = [request EXCEPT ![r] = [Idle EXCEPT !.pc = "confirm", !.start = s,
          !.bulk = TRUE, !.seen = decision,
          !.effect = [k \in Keys |-> IF k \in chosen
             THEN decision[k][Proposed(k, s)].target ELSE None]]]
  BY <1>1
<1> DEFINE effect == [k \in Keys |-> IF k \in chosen
             THEN decision[k][Proposed(k, s)].target ELSE None]
           new == [Idle EXCEPT !.pc = "confirm", !.start = s, !.bulk = TRUE,
                     !.seen = decision, !.effect = effect]
<1>3. request' = [request EXCEPT ![r] = new] /\ UNCHANGED <<month, decision, made>>
  BY <1>2 DEF ConfirmRead
<1>4. ASSUME NEW k \in chosen
      PROVE  k \in Keys /\ Proposed(k, s) # 0 /\ decision[k][Proposed(k, s)].target \in Targets
  <2>1. k \in Keys /\ Proposed(k, s) # 0
    BY DEF Inherited
  <2>2. decision[k] \in Decisions
    BY <2>1 DEF Inv, Shapes
  <2>3. Proposed(k, s) \in Starts(decision[k])
    BY <2>1, <2>2, VigenteIsLast DEF Proposed
  <2>4. decision[k][Proposed(k, s)] \in Rows
    BY <2>2, <2>3 DEF Starts, Decisions
  <2> QED  BY <2>1, <2>4 DEF Rows
<1>5. effect \in [Keys -> Targets \cup {None}]
  BY <1>4
<1>6. Repeats(s, effect)
  BY <1>4 DEF Repeats
<1> HIDE DEF effect
<1>7. decision \in [Keys -> Decisions]
  BY DEF Inv, Shapes
<1>8. /\ new \in Request /\ new.pc = "confirm" /\ new.start = s /\ new.effect = effect
      /\ new.seen = decision /\ new.bulk
  BY <1>5, <1>7, IdleKnows DEF Idle, Request, Phases
<1> HIDE DEF new
<1>9. Knows(new)
  BY <1>6, <1>8 DEF Knows, SeenStill, Locked
<1> QED  BY <1>3, <1>8, <1>9, OneRequest DEF Locked

LEMMA ConfirmWriteKeeps ==
  ASSUME Inv, NEW r \in Requests, ConfirmWrite(r)
  PROVE  Inv'
<1>1. Write(r, request[r].start, request[r].effect) /\ request[r].pc = "confirm"
  BY DEF ConfirmWrite, At
<1>2. request[r].start \in Months /\ request[r].effect \in [Keys -> Targets \cup {None}]
  BY DEF Inv, Shapes, Request
<1>3. request[r].bulk /\ ~request[r].late => Repeats(request[r].start, request[r].effect)
  BY <1>1 DEF Inv, Knows
<1> QED  BY <1>1, <1>2, <1>3, WriteKeeps

LEMMA InheritKeeps ==
  ASSUME Inv, NEW r \in Requests, Inherit(r)
  PROVE  Inv'
<1>1. PICK s \in Months : \E chart \in [Keys -> Targets \cup {None}] :
       LET new == {k \in Keys : chart[k] # None /\ ~Decided(k)} IN
       /\ Allowed(r, s, new)
       /\ request' = [request EXCEPT ![r] = [Idle EXCEPT !.pc = "inherit", !.start = s,
            !.today = month, !.effect = [k \in Keys |-> IF k \in new THEN chart[k] ELSE None]]]
  BY DEF Inherit
<1>2. PICK chart \in [Keys -> Targets \cup {None}] :
       LET new == {k \in Keys : chart[k] # None /\ ~Decided(k)} IN
       /\ Allowed(r, s, new)
       /\ request' = [request EXCEPT ![r] = [Idle EXCEPT !.pc = "inherit", !.start = s,
            !.today = month, !.effect = [k \in Keys |-> IF k \in new THEN chart[k] ELSE None]]]
  BY <1>1
<1> DEFINE open == {k \in Keys : chart[k] # None /\ ~Decided(k)}
           effect == [k \in Keys |-> IF k \in open THEN chart[k] ELSE None]
           new == [Idle EXCEPT !.pc = "inherit", !.start = s, !.today = month, !.effect = effect]
<1>3. /\ Allowed(r, s, open)
      /\ request' = [request EXCEPT ![r] = new]
      /\ Free /\ UNCHANGED <<month, decision, made>>
  BY <1>2 DEF Inherit
<1>4. /\ open \in SUBSET Keys /\ effect \in [Keys -> Targets \cup {None}]
      /\ \A k \in Keys : effect[k] # None => k \in open
      /\ \A k \in open : Starts(decision[k]) = {}
  BY DEF Decided
<1> HIDE DEF open, effect
<1>5. month \in Months
  BY DEF Inv, Shapes
<1>6. /\ new \in Request /\ new.pc = "inherit" /\ new.start = s /\ new.today = month
      /\ new.effect = effect /\ new.seen = NoDecision
  BY <1>4, <1>5, IdleKnows DEF Idle, Request, Phases
<1> HIDE DEF new
<1>7. SeenStill(new)
  BY <1>6 DEF SeenStill, NoDecision
<1>8. OlderPast(new)
  BY <1>6, MonthsNat DEF Inv, OlderPast, PastSettled, Shapes
<1>9. Spares(new)
  BY <1>3, <1>4, <1>6, GuardSpares DEF Spares
<1>10. Undecided(new)
  BY <1>4, <1>6 DEF Undecided
<1>11. Knows(new)
  BY <1>6, <1>7, <1>8, <1>9, <1>10 DEF Knows
<1>12. \A q \in Requests : request[q].pc \in Locked => q = r
  BY <1>3 DEF Free
<1> QED  BY <1>3, <1>6, <1>11, <1>12, OneRequest

LEMMA PreviewKeeps ==
  ASSUME Inv, NEW r \in Requests, Preview(r)
  PROVE  Inv'
<1>1. PICK c \in Months : \E present \in (SUBSET Keys) \ {{}} :
        request' = [request EXCEPT ![r] = [Idle EXCEPT !.pc = "previewed", !.start = c,
          !.items = Applied(decision, present, c)]]
  BY DEF Preview
<1>2. PICK present \in (SUBSET Keys) \ {{}} :
        request' = [request EXCEPT ![r] = [Idle EXCEPT !.pc = "previewed", !.start = c,
          !.items = Applied(decision, present, c)]]
  BY <1>1
<1> DEFINE items == Applied(decision, present, c)
           new == [Idle EXCEPT !.pc = "previewed", !.start = c, !.items = items]
<1>3. request' = [request EXCEPT ![r] = new] /\ UNCHANGED <<month, decision, made>>
  BY <1>2 DEF Preview
<1>4. items \in Items
  <2>1. \A k \in present : decision[k] \in Decisions
    BY DEF Inv, Shapes
  <2>2. \A k \in present : Line(decision[k], c) \in Lines \cup {None}
    BY <2>1, LineType
  <2>3. items \in [present -> Lines \cup {None}]
    BY <2>2 DEF Applied
  <2> QED  BY <2>3 DEF Items
<1> HIDE DEF items
<1>5. new \in Request /\ new.pc = "previewed" /\ new.items = items /\ new.seen = NoDecision
  BY <1>4, IdleKnows DEF Idle, Request, Phases
<1> HIDE DEF new
<1>6. Knows(new)
  BY <1>4, <1>5 DEF Knows, SeenStill, NoDecision, Locked
<1> QED  BY <1>3, <1>5, <1>6, OneRequest DEF Locked

LEMMA LatestIsLast ==
  ASSUME Inv, NEW c \in Months
  PROVE  LET v == LatestVersion(c) IN
         /\ v \in Nat
         /\ \A m \in made : m.competence = c => m.version <= v
         /\ \A u \in 1..v : \E m \in made : m.competence = c /\ m.version = u
<1> DEFINE S == {0} \cup {m.version : m \in {n \in made : n.competence = c}}
           v == Max(S)
<1>1. PICK b \in Nat : \A m \in made : m.version <= b
  BY DEF Inv, Versions
<1>2. \A m \in made : m.version \in Nat
  BY DEF Inv, Shapes
<1>3. S \subseteq Nat /\ S # {} /\ \A x \in S : x <= b
  BY <1>1, <1>2
<1>4. v \in S /\ \A x \in S : v >= x
  BY <1>3, MaxOfBounded
<1>5. v \in Nat
  BY <1>3, <1>4
<1>6. ASSUME NEW m \in made, m.competence = c PROVE m.version <= v
  <2>1. m.version \in S
    BY <1>6
  <2> HIDE DEF S, v
  <2> QED  BY <2>1, <1>2, <1>4, <1>5
<1>7. v = 0 \/ \E m \in made : m.competence = c /\ m.version = v
  <2> HIDE DEF v
  <2> QED  BY <1>4
<1>8. \A u \in 1..v : \E m \in made : m.competence = c /\ m.version = u
  <2> HIDE DEF S, v
  <2>1. CASE v = 0
    BY <2>1
  <2>2. CASE \E m \in made : m.competence = c /\ m.version = v
    BY <2>2 DEF Inv, Versions
  <2> QED  BY <1>7, <2>1, <2>2
<1>9. LatestVersion(c) = v
  BY DEF LatestVersion
<1> HIDE DEF v
<1> QED  BY <1>5, <1>6, <1>8, <1>9

LEMMA MaterialiseKeeps ==
  ASSUME Inv, NEW r \in Requests, Materialise(r)
  PROVE  Inv'
<1>1. request[r].pc = "previewed" /\ Free /\ UNCHANGED <<month, decision, made>>
  BY DEF Materialise, At
<1>2. CASE ~SameToken(r)
  BY <1>1, <1>2, EndsKeeps DEF Materialise
<1>3. CASE SameToken(r)
  <2> DEFINE start == request[r].start
             new == [request[r] EXCEPT !.pc = "materialise", !.today = month,
                       !.version = LatestVersion(start) + 1]
  <2>1. request[r] \in Request /\ month \in Months /\ start \in Months /\ Knows(request[r])
    BY DEF Inv, Shapes, Request
  <2>2. /\ LatestVersion(start) \in Nat
        /\ \A m \in made : m.competence = start => m.version <= LatestVersion(start)
        /\ \A u \in 1..LatestVersion(start) : \E m \in made : m.competence = start /\ m.version = u
    BY <2>1, LatestIsLast
  <2>3. request' = [request EXCEPT ![r] = new]
    BY <1>3 DEF Materialise
  <2>4. /\ new \in Request /\ new.pc = "materialise" /\ new.start = start /\ new.today = month
        /\ new.seen = request[r].seen /\ new.items = request[r].items
        /\ new.version = LatestVersion(start) + 1
    <3> DEFINE version == LatestVersion(start) + 1
    <3>1. version \in Nat
      BY <2>2
    <3> HIDE DEF version
    <3>2. /\ new = [request[r] EXCEPT !.pc = "materialise", !.today = month, !.version = version]
          /\ version = LatestVersion(start) + 1
      BY DEF version
    <3> HIDE DEF new
    <3>3. /\ new \in Request /\ new.pc = "materialise" /\ new.start = start /\ new.today = month
          /\ new.seen = request[r].seen /\ new.items = request[r].items /\ new.version = version
      BY <2>1, <3>1, <3>2 DEF Request, Phases
    <3> QED  BY <3>2, <3>3
  <2> HIDE DEF new
  <2>5. SeenStill(new) /\ new.items \in Items
    BY <1>1, <2>1, <2>4 DEF Knows, SeenStill
  <2>6. OlderPast(new)
    BY <2>4, MonthsNat DEF Inv, OlderPast, PastSettled, Shapes
  <2>7. StillTrue(new)
    <3>1. Applied(decision, DOMAIN new.items, start) = new.items
      BY <1>3, <2>4 DEF SameToken
    <3>2. \A k \in DOMAIN new.items :
            Applied(decision, DOMAIN new.items, start)[k] = Line(decision[k], start)
      BY DEF Applied
    <3> QED  BY <2>4, <3>1, <3>2 DEF StillTrue
  <2>8. NextVersion(new)
    <3>1. \A m \in made : m.version \in Nat
      BY DEF Inv, Shapes
    <3>2. \A m \in made : m.competence = start => m.version < LatestVersion(start) + 1
      BY <2>2, <3>1
    <3>3. new.version # 0 /\ new.version - 1 = LatestVersion(start)
      BY <2>2, <2>4
    <3> QED  BY <2>2, <2>4, <3>2, <3>3 DEF NextVersion
  <2>9. Knows(new)
    BY <2>4, <2>5, <2>6, <2>7, <2>8 DEF Knows
  <2>10. \A q \in Requests : request[q].pc \in Locked => q = r
    BY <1>1 DEF Free
  <2> QED  BY <1>1, <2>3, <2>4, <2>9, <2>10, OneRequest
<1> QED  BY <1>2, <1>3

LEMMA MaterialiseCommitKeeps ==
  ASSUME Inv, NEW r \in Requests, MaterialiseCommit(r)
  PROVE  Inv'
<1> DEFINE new == Materialised(r)
<1>1. At(r, "materialise") /\ End(r) /\ UNCHANGED <<month, decision>>
  BY DEF MaterialiseCommit
<1>2. CASE made' = made
  BY <1>1, <1>2, EndsKeeps
<1>3. CASE made' = made \cup {new}
  <2> DEFINE rec == request[r]
  <2>1. /\ rec \in Request /\ rec.pc = "materialise" /\ rec.items \in Items
        /\ StillTrue(rec) /\ NextVersion(rec) /\ OlderPast(rec)
    BY <1>1 DEF Inv, Shapes, Knows, At, Locked
  <2>2. /\ rec.start \in Months /\ rec.start \in Nat /\ rec.today \in Nat
        /\ rec.version \in Nat /\ month \in Nat
    BY <2>1, MonthsNat DEF Request, Inv, Shapes
  <2>3. /\ new.competence = rec.start /\ new.version = rec.version
        /\ new.items = rec.items /\ new.past = (rec.start < rec.today)
        /\ new \in [competence : Months, version : Nat \ {0}, items : Items, past : BOOLEAN]
    BY <2>1, <2>2 DEF Materialised, NextVersion
  <2> HIDE DEF new
  <2>4. \A m \in made : m.version \in Nat /\ m.competence \in Months /\ m.competence \in Nat
    BY MonthsNat DEF Inv, Shapes
  <2>5. \A m \in made : m.competence = new.competence => m.version < new.version
    BY <2>1, <2>3 DEF NextVersion
  <2>6. \A q \in Requests : q # r => request[q].pc \notin Locked
    BY <2>1 DEF Inv, OneWriter, Locked
  <2>7. \A q \in Requests : request'[q] = IF q = r THEN Idle ELSE request[q]
    BY <1>1 DEF End, Inv, Shapes
  <2>8. Shapes'
    BY <1>1, <1>3, <2>3, IdleKnows DEF Inv, Shapes, End
  <2>9. OneWriter'
    BY <2>6, <2>7, IdleKnows DEF OneWriter, Locked
  <2>10. Versions'
    <3>1. \E b \in Nat : \A m \in made' : m.version <= b
      <4>1. PICK b \in Nat : \A m \in made : m.version <= b
        BY DEF Inv, Versions
      <4>2. b + new.version \in Nat /\ new.version <= b + new.version
        BY <2>2, <2>3
      <4>3. \A m \in made : m.version <= b + new.version
        BY <2>2, <2>3, <2>4, <4>1
      <4> QED  BY <1>3, <4>2, <4>3
    <3>2. \A m, n \in made' : m.competence = n.competence /\ m.version = n.version => m = n
      BY <1>3, <2>2, <2>3, <2>4, <2>5 DEF Inv, Versions
    <3>3. ASSUME NEW m \in made', NEW v \in 1..m.version
          PROVE  \E n \in made' : n.competence = m.competence /\ n.version = v
      <4>1. CASE m \in made
        BY <1>3, <4>1 DEF Inv, Versions
      <4>2. CASE m = new /\ v = new.version
        BY <1>3, <4>2
      <4>3. CASE m = new /\ v # new.version
        <5>1. v \in 1..(rec.version - 1)
          BY <2>2, <2>3, <4>3
        <5>2. \E n \in made : n.competence = rec.start /\ n.version = v
          BY <2>1, <5>1 DEF NextVersion
        <5> QED  BY <1>3, <2>3, <4>3, <5>2
      <4> QED  BY <1>3, <4>1, <4>2, <4>3
    <3> QED  BY <3>1, <3>2, <3>3 DEF Versions
  <2>11. PastSettled'
    <3>1. ASSUME NEW m \in made', m.past
          PROVE  /\ m.competence < month
                 /\ \A k \in DOMAIN m.items : m.items[k] = Line(decision[k], m.competence)
      <4>1. CASE m \in made
        BY <3>1, <4>1 DEF Inv, PastSettled
      <4>2. CASE m = new
        <5>1. m.competence < month
          BY <2>1, <2>2, <2>3, <3>1, <4>2 DEF OlderPast
        <5> QED  BY <2>1, <2>3, <4>2, <5>1 DEF StillTrue
      <4> QED  BY <1>3, <4>1, <4>2
    <3>2. ASSUME NEW m \in made', NEW n \in made',
                 m.competence = n.competence, m.past, m.version < n.version
          PROVE  n.past
      <4>1. CASE m \in made /\ n \in made
        BY <3>2, <4>1 DEF Inv, PastSettled
      <4>2. CASE m \in made /\ n = new
        BY <2>1, <2>3, <3>2, <4>2 DEF OlderPast
      <4>3. CASE m = new /\ n \in made
        BY <2>2, <2>3, <2>4, <2>5, <3>2, <4>3
      <4>4. CASE m = new /\ n = new
        BY <3>2, <4>4
      <4> QED  BY <1>3, <4>1, <4>2, <4>3, <4>4
    <3> QED  BY <1>1, <3>1, <3>2 DEF PastSettled
  <2>12. ASSUME NEW q \in Requests PROVE Knows(request[q])'
    <3>1. Knows(request'[q]) /\ request'[q].pc \notin Locked
      BY <2>6, <2>7, IdleKnows DEF Inv, Locked
    <3> QED  BY <1>1, <3>1 DEF Knows, SeenStill, Repeats, Proposed, Locked
  <2> QED  BY <2>8, <2>9, <2>10, <2>11, <2>12 DEF Inv
<1> QED  BY <1>2, <1>3 DEF MaterialiseCommit

-------------------------------------------------------------------------------
(* The commits of decisions.                                                *)

\* What r has written: something in the month it starts from, for what it is about.
Written(r) ==
  /\ request[r].pc \in {"write", "inherit"}
  /\ decision' \in [Keys -> Decisions]
  /\ \A k \in Keys : decision'[k] # decision[k] => request[r].effect[k] # None
  /\ \A k \in Keys : \A t \in Months : t # request[r].start => decision'[k][t] = decision[k][t]
  /\ \A k \in Keys : \A t \in Months : decision[k][t] # None => decision'[k][t] # None

LEMMA WrittenSpares ==
  ASSUME Inv, NEW r \in Requests, Written(r), NEW k \in Keys, NEW c \in Delivered,
         IF request[r].start < request[r].today THEN c <= request[r].today ELSE c < request[r].today
  PROVE  Line(decision'[k], c) = Line(decision[k], c)
<1> DEFINE s == request[r].start
<1>1. s \in Months /\ request[r].today \in Months /\ c \in Months /\ Knows(request[r])
  BY DeliveredMonths DEF Inv, Shapes, Request
<1>2. decision[k] \in Decisions /\ decision'[k] \in Decisions
      /\ \A t \in Months \ {s} : decision'[k][t] = decision[k][t]
  BY DEF Inv, Shapes, Written
<1>3. CASE decision'[k] = decision[k]
  BY <1>3
<1>4. CASE request[r].effect[k] # None /\ s < request[r].today
  <2>1. Untouched(decision[k], s, c)
    BY <1>1, <1>4 DEF Knows, Spares, Written
  <2> QED  BY <1>1, <1>2, <2>1, LineUntouched
<1>5. CASE ~(s < request[r].today)
  <2>1. c < s
    <3>1. s \in Nat /\ c \in Nat /\ request[r].today \in Nat
      BY <1>1, MonthsNat
    <3> QED  BY <1>5, <3>1
  <2>2. Untouched(decision[k], s, c)
    BY <2>1 DEF Untouched
  <2> QED  BY <1>1, <1>2, <2>2, LineUntouched
<1> QED  BY <1>3, <1>4, <1>5 DEF Written

LEMMA WrittenKeeps ==
  ASSUME Inv, NEW r \in Requests, Written(r), request' = Overtake(r), UNCHANGED <<month, made>>
  PROVE  Inv'
<1>1. \A q \in Requests : q # r => request[q].pc \notin Locked
  BY DEF Inv, OneWriter, Written, Locked
<1>2. \A q \in Requests : request[q] \in Request
  BY DEF Inv, Shapes
<1>3. \A q \in Requests : request'[q] \in Request /\ request'[q].pc \notin Locked
  <2>1. \A q \in Requests : [request[q] EXCEPT !.late = TRUE] \in Request
    BY <1>2 DEF Request
  <2> QED  BY <1>1, <1>2, <2>1, IdleKnows DEF Overtake, Locked
<1>4. Shapes'
  BY <1>3 DEF Inv, Shapes, Written, Overtake
<1>5. OneWriter'
  BY <1>3 DEF OneWriter
<1>6. Versions'
  BY DEF Inv, Versions
<1>7. PastSettled'
  <2>1. ASSUME NEW m \in made, m.past, NEW k \in DOMAIN m.items
        PROVE  m.items[k] = Line(decision'[k], m.competence)
    <3>1. m.items[k] = Line(decision[k], m.competence)
      BY <2>1 DEF Inv, PastSettled
    <3>2. k \in Keys
      BY DEF Inv, Shapes, Items
    <3>3. m.competence \in Delivered
      BY DEF Delivered
    <3>4. m.competence < request[r].today
      BY <2>1 DEF Inv, Knows, OlderPast, Written, Locked
    <3>5. m.competence \in Nat /\ request[r].today \in Nat
      BY <1>2, MonthsNat DEF Inv, Shapes, Request
    <3>6. m.competence <= request[r].today
      BY <3>4, <3>5
    <3> QED  BY <3>1, <3>2, <3>3, <3>4, <3>6, WrittenSpares
  <2> QED  BY <2>1 DEF Inv, PastSettled
<1>8. ASSUME NEW q \in Requests PROVE Knows(request[q])'
  <2>1. CASE q = r
    <3>1. request'[q] = Idle
      BY <2>1 DEF Overtake
    <3>2. SeenStill(request[q])'
      BY <3>1 DEF SeenStill, Idle, NoDecision
    <3> QED  BY <3>1, <3>2, IdleKnows DEF Knows, Locked
  <2>2. CASE q # r /\ request[q].pc # "confirm"
    <3>1. request'[q] = request[q] /\ Knows(request[q]) /\ request[q].pc \notin Locked
      BY <1>1, <2>2 DEF Overtake, At, Inv
    <3>2. SeenStill(request[q])'
      BY <3>1 DEF Knows, SeenStill, Written
    <3> QED  BY <2>2, <3>1, <3>2 DEF Knows, Locked
  <2>3. CASE q # r /\ request[q].pc = "confirm"
    <3>1. request'[q] = [request[q] EXCEPT !.late = TRUE]
      BY <2>3 DEF Overtake, At
    <3>2. request'[q].pc = "confirm" /\ request'[q].late /\ request'[q].seen = request[q].seen
      BY <1>2, <2>3, <3>1 DEF Request
    <3>3. SeenStill(request[q])'
      BY <3>2 DEF Inv, Knows, SeenStill, Written
    <3> QED  BY <3>2, <3>3 DEF Knows, Locked
  <2> QED  BY <2>1, <2>2, <2>3
<1> QED  BY <1>4, <1>5, <1>6, <1>7, <1>8 DEF Inv

LEMMA WriteCommitWrites ==
  ASSUME Inv, NEW r \in Requests, WriteCommit(r), \A k \in Keys : request[r].effect[k] # None => StillOpen(r, k)
  PROVE  /\ Written(r) /\ request' = Overtake(r)
         /\ \A k \in Keys : request[r].effect[k] # None =>
              decision'[k][request[r].start] =
                [target |-> request[r].effect[k], origin |-> "confirmada"]
<1> DEFINE s == request[r].start
           mine == {k \in Keys : request[r].effect[k] # None}
           said(k) == [target |-> request[r].effect[k], origin |-> "confirmada"]
<1>1. /\ request[r].pc = "write" /\ request' = Overtake(r)
      /\ decision' = [k \in Keys |-> IF k \in mine
                        THEN [decision[k] EXCEPT ![s] = said(k)] ELSE decision[k]]
  BY DEF WriteCommit, At
<1>2. s \in Months /\ request[r].effect \in [Keys -> Targets \cup {None}]
      /\ \A k \in Keys : decision[k] \in Decisions
  BY DEF Inv, Shapes, Request
<1>3. \A k \in mine : said(k) \in Rows /\ said(k) # None
  BY <1>2, MappingConstants DEF Rows
<1>4. \A k \in mine : k \in Keys /\ request[r].effect[k] # None
  OBVIOUS
<1>5. \A k \in Keys : request[r].effect[k] # None => k \in mine
  OBVIOUS
<1> HIDE DEF said, mine
<1>6. ASSUME NEW k \in Keys
      PROVE  /\ decision'[k] \in Decisions
             /\ decision'[k] # decision[k] => request[r].effect[k] # None
             /\ \A t \in Months : t # s => decision'[k][t] = decision[k][t]
             /\ \A t \in Months : decision[k][t] # None => decision'[k][t] # None
             /\ request[r].effect[k] # None => decision'[k][s] = said(k)
  BY <1>1, <1>2, <1>3, <1>4, <1>5 DEF Decisions
<1>7. decision' \in [Keys -> Decisions]
  BY <1>1, <1>6
<1> QED  BY <1>1, <1>6, <1>7 DEF Written, said

LEMMA InheritCommitWrites ==
  ASSUME Inv, NEW r \in Requests, InheritCommit(r)
  PROVE  /\ Written(r) /\ request' = Overtake(r)
<1> DEFINE s == request[r].start
           mine == {k \in Keys : request[r].effect[k] # None /\ decision[k][s] = None}
           said(k) == [target |-> request[r].effect[k], origin |-> "herdada"]
<1>1. /\ request[r].pc = "inherit" /\ request' = Overtake(r)
      /\ decision' = [k \in Keys |-> IF k \in mine
                        THEN [decision[k] EXCEPT ![s] = said(k)] ELSE decision[k]]
  BY DEF InheritCommit, At
<1>2. s \in Months /\ request[r].effect \in [Keys -> Targets \cup {None}]
      /\ \A k \in Keys : decision[k] \in Decisions
  BY DEF Inv, Shapes, Request
<1>3. \A k \in mine : said(k) \in Rows /\ said(k) # None
  BY <1>2, MappingConstants DEF Rows
<1>4. \A k \in mine : k \in Keys /\ request[r].effect[k] # None
  OBVIOUS
<1> HIDE DEF said, mine
<1>5. ASSUME NEW k \in Keys
      PROVE  /\ decision'[k] \in Decisions
             /\ decision'[k] # decision[k] => request[r].effect[k] # None
             /\ \A t \in Months : t # s => decision'[k][t] = decision[k][t]
             /\ \A t \in Months : decision[k][t] # None => decision'[k][t] # None
  BY <1>1, <1>2, <1>3, <1>4 DEF Decisions
<1>6. decision' \in [Keys -> Decisions]
  BY <1>1, <1>5
<1> QED  BY <1>1, <1>5, <1>6 DEF Written

LEMMA WriteCommitKeeps ==
  ASSUME Inv, NEW r \in Requests, WriteCommit(r)
  PROVE  Inv'
<1>1. UNCHANGED <<month, made>>
  BY DEF WriteCommit
<1>2. CASE \A k \in Keys : request[r].effect[k] # None => StillOpen(r, k)
  BY <1>1, <1>2, WriteCommitWrites, WrittenKeeps
<1>3. CASE ~(\A k \in Keys : request[r].effect[k] # None => StillOpen(r, k))
  BY <1>1, <1>3, EndsKeeps DEF WriteCommit
<1> QED  BY <1>2, <1>3

LEMMA InheritCommitKeeps ==
  ASSUME Inv, NEW r \in Requests, InheritCommit(r)
  PROVE  Inv'
BY InheritCommitWrites, WrittenKeeps DEF InheritCommit

LEMMA MonthTurnsKeeps == Inv /\ MonthTurns => Inv'
<1> SUFFICES ASSUME Inv, MonthTurns PROVE Inv'
  OBVIOUS
<1>1. month \in Nat /\ month' = month + 1 /\ month < LastMonth /\ UNCHANGED <<decision, made, request>>
  BY MonthsNat DEF Inv, Shapes, MonthTurns
<1>2. month' \in Months
  BY <1>1, MappingConstants DEF Months
<1>3. Shapes'
  BY <1>1, <1>2 DEF Inv, Shapes
<1>4. OneWriter' /\ Versions'
  BY <1>1 DEF Inv, OneWriter, Versions
<1>5. PastSettled'
  <2>1. \A m \in made : m.competence \in Nat
    BY MonthsNat DEF Inv, Shapes
  <2>2. \A m \in made : m.competence < month => m.competence < month'
    BY <1>1, <2>1
  <2> QED  BY <1>1, <2>2 DEF Inv, PastSettled
<1>6. ASSUME NEW r \in Requests PROVE Knows(request[r])'
  <2>1. Knows(request[r]) /\ request[r].today \in Nat
    BY MonthsNat DEF Inv, Shapes, Request
  <2>2. OlderPast(request[r]) => OlderPast(request[r])'
    BY <1>1, <2>1 DEF OlderPast
  <2> QED  BY <1>1, <2>1, <2>2 DEF Knows, SeenStill, Spares, Undecided, Repeats, StillTrue,
             NextVersion, Delivered, Proposed
<1> QED  BY <1>3, <1>4, <1>5, <1>6 DEF Inv

LEMMA NextKeeps == Inv /\ [Next]_vars => Inv'
<1> SUFFICES ASSUME Inv, [Next]_vars PROVE Inv'
  OBVIOUS
<1>1. CASE MonthTurns
  BY <1>1, MonthTurnsKeeps
<1>2. ASSUME NEW r \in Requests, Decide(r) PROVE Inv'
  BY <1>2, DecideKeeps
<1>3. ASSUME NEW r \in Requests, WriteCommit(r) PROVE Inv'
  BY <1>3, WriteCommitKeeps
<1>4. ASSUME NEW r \in Requests, ConfirmRead(r) PROVE Inv'
  BY <1>4, ConfirmReadKeeps
<1>5. ASSUME NEW r \in Requests, ConfirmWrite(r) PROVE Inv'
  BY <1>5, ConfirmWriteKeeps
<1>6. ASSUME NEW r \in Requests, Inherit(r) PROVE Inv'
  BY <1>6, InheritKeeps
<1>7. ASSUME NEW r \in Requests, InheritCommit(r) PROVE Inv'
  BY <1>7, InheritCommitKeeps
<1>8. ASSUME NEW r \in Requests, Preview(r) PROVE Inv'
  BY <1>8, PreviewKeeps
<1>9. ASSUME NEW r \in Requests, Materialise(r) PROVE Inv'
  BY <1>9, MaterialiseKeeps
<1>10. ASSUME NEW r \in Requests, MaterialiseCommit(r) PROVE Inv'
  BY <1>10, MaterialiseCommitKeeps
<1>11. ASSUME NEW r \in Requests, Abort(r) PROVE Inv'
  BY <1>11, EndsKeeps DEF Abort
<1>12. CASE UNCHANGED vars
  <2>1. UNCHANGED <<month, decision, made, request>>
    BY <1>12 DEF vars
  <2> QED  BY <2>1 DEF Inv, Shapes, OneWriter, Versions, PastSettled, Knows, SeenStill,
             OlderPast, Spares, Undecided, Repeats, StillTrue, NextVersion, Delivered, Proposed
<1> QED  BY <1>1, <1>2, <1>3, <1>4, <1>5, <1>6, <1>7, <1>8, <1>9, <1>10, <1>11, <1>12 DEF Next

-------------------------------------------------------------------------------
(* The theorems.                                                            *)

\* The invariant that the others rest on.
THEOREM MappingInvariant == Spec => []Inv
<1>1. Init => Inv
  BY InitInv
<1>2. Inv /\ [Next]_vars => Inv'
  BY NextKeeps
<1> QED  BY <1>1, <1>2, PTL DEF Spec

\* State has its types, and the versions of a month are numbered from 1 without a gap.
THEOREM MappingTypeCorrect == Spec => []TypeOK
<1>1. Inv => TypeOK
  <2> SUFFICES ASSUME Inv PROVE TypeOK
    OBVIOUS
  <2>1. ASSUME NEW m \in made, NEW v \in 1..m.version
        PROVE  Cardinality({n \in made : n.competence = m.competence /\ n.version = v}) = 1
    <3>1. PICK n \in made : n.competence = m.competence /\ n.version = v
      BY DEF Inv, Versions
    <3>2. {u \in made : u.competence = m.competence /\ u.version = v} = {n}
      BY <3>1 DEF Inv, Versions
    <3> QED  BY <3>2, FS_Singleton
  <2>2. ASSUME NEW m \in made
        PROVE  /\ m.competence \in Months /\ m.past \in BOOLEAN /\ m.version \in Nat \ {0}
               /\ \A k \in DOMAIN m.items : k \in Keys /\ m.items[k] \in Lines \cup {None}
    <3>1. /\ m.competence \in Months /\ m.past \in BOOLEAN /\ m.version \in Nat \ {0}
          /\ m.items \in Items
      BY DEF Inv, Shapes
    <3>2. PICK present \in SUBSET Keys : m.items \in [present -> Lines \cup {None}]
      BY <3>1 DEF Items
    <3> QED  BY <3>1, <3>2
  <2>3. month \in Months /\ decision \in [Keys -> [Months -> Rows \cup {None}]]
    BY DEF Inv, Shapes, Decisions
  <2>4. \A r \in Requests :
          /\ request[r].pc \in {"idle", "write", "confirm", "inherit", "previewed", "materialise"}
          /\ request[r].effect \in [Keys -> Targets \cup {None}]
    BY DEF Inv, Shapes, Request, Phases
  <2> QED  BY <2>1, <2>2, <2>3, <2>4 DEF TypeOK
<1> QED  BY <1>1, MappingInvariant, PTL

\* A past month that is materialised again gives what it gave.
THEOREM PastIsReproducible == Spec => []Reproducible
<1>1. Inv => Reproducible
  <2> SUFFICES ASSUME Inv, NEW m \in made, NEW n \in made, m.competence = n.competence,
                      m.past, m.version < n.version, NEW k \in DOMAIN m.items \cap DOMAIN n.items
               PROVE  m.items[k] = n.items[k]
    BY DEF Reproducible
  <2>1. n.past
    BY DEF Inv, PastSettled
  <2> QED  BY <2>1 DEF Inv, PastSettled
<1> QED  BY <1>1, MappingInvariant, PTL

\* What is stored is what the decisions say when it is stored.
THEOREM StoredIsTrue == Spec => []PreviewStillTrue
<1>1. Inv => PreviewStillTrue
  BY DEF Inv, Knows, StillTrue, PreviewStillTrue, At
<1> QED  BY <1>1, MappingInvariant, PTL

\* Decisions change by a commit of the one writer, or not at all.
LEMMA WhoWrites ==
  ASSUME Inv, [Next]_vars, decision' # decision
  PROVE  \E r \in Requests :
           /\ Written(r) /\ request' = Overtake(r)
           /\ InheritCommit(r) \/ (WriteCommit(r) /\ \A k \in Keys :
                                     request[r].effect[k] # None => StillOpen(r, k))
<1>1. PICK r \in Requests : WriteCommit(r) \/ InheritCommit(r)
  BY DEF Next, vars, MonthTurns, Decide, ConfirmRead, ConfirmWrite, Write, Inherit,
     Preview, Materialise, MaterialiseCommit, Abort
<1>2. CASE InheritCommit(r)
  BY <1>2, InheritCommitWrites
<1>3. CASE WriteCommit(r)
  <2>1. \A k \in Keys : request[r].effect[k] # None => StillOpen(r, k)
    BY <1>3 DEF WriteCommit
  <2> QED  BY <1>3, <2>1, WriteCommitWrites
<1> QED  BY <1>1, <1>2, <1>3

\* Nothing that a request does changes a decision that a person has confirmed.
THEOREM ConfirmedStands == Spec => ConfirmedIsFixed
<1>1. Inv /\ [Next]_vars => [\A k \in Keys : \A s \in Months :
       (decision[k][s] # None /\ decision[k][s].origin = "confirmada")
         => decision'[k][s] = decision[k][s]]_vars
  <2> SUFFICES ASSUME Inv, [Next]_vars, NEW k \in Keys, NEW s \in Months,
                      decision[k][s] # None, decision[k][s].origin = "confirmada"
               PROVE  decision'[k][s] = decision[k][s]
    OBVIOUS
  <2>1. CASE decision' = decision
    BY <2>1
  <2>2. CASE decision' # decision
    <3>1. PICK r \in Requests :
            /\ Written(r)
            /\ InheritCommit(r) \/ (WriteCommit(r) /\ \A q \in Keys :
                                      request[r].effect[q] # None => StillOpen(r, q))
      BY <2>2, WhoWrites
    <3>2. CASE s # request[r].start \/ request[r].effect[k] = None
      BY <3>1, <3>2 DEF Written
    <3>3. CASE s = request[r].start /\ request[r].effect[k] # None
      <4>1. ~StillOpen(r, k)
        BY <3>3 DEF StillOpen
      <4>2. InheritCommit(r)
        BY <3>1, <3>3, <4>1
      <4> QED  BY <3>3, <4>2 DEF InheritCommit
    <3> QED  BY <3>2, <3>3
  <2> QED  BY <2>1, <2>2
<1> QED  BY <1>1, MappingInvariant, PTL DEF Spec, ConfirmedIsFixed

\* A category has a proposal of the system or decisions of people, never one added to
\* the other.
THEOREM ProposedOnce == Spec => OneProposal
<1>1. Inv /\ [Next]_vars => [\A k \in Keys : \A s \in Months :
       (decision[k][s] = None /\ decision'[k][s] # None /\ decision'[k][s].origin = "herdada")
         => ~Decided(k)]_vars
  <2> SUFFICES ASSUME Inv, [Next]_vars, NEW k \in Keys, NEW s \in Months,
                      decision[k][s] = None, decision'[k][s] # None,
                      decision'[k][s].origin = "herdada"
               PROVE  ~Decided(k)
    OBVIOUS
  <2>1. PICK r \in Requests :
          /\ Written(r)
          /\ InheritCommit(r) \/ (WriteCommit(r) /\ \A q \in Keys :
                                    request[r].effect[q] # None => StillOpen(r, q))
    BY WhoWrites
  <2>2. request[r].effect[k] # None /\ s = request[r].start
    BY <2>1 DEF Written
  <2>3. CASE InheritCommit(r)
    BY <2>2, <2>3 DEF InheritCommit, At, Inv, Knows, Undecided, Decided
  <2>4. CASE WriteCommit(r) /\ \A q \in Keys : request[r].effect[q] # None => StillOpen(r, q)
    <3>1. decision'[k][s] = [target |-> request[r].effect[k], origin |-> "confirmada"]
      BY <2>2, <2>4, WriteCommitWrites
    <3> QED  BY <3>1
  <2> QED  BY <2>1, <2>3, <2>4
<1> QED  BY <1>1, MappingInvariant, PTL DEF Spec, OneProposal

\* A decision from a month already past leaves every delivered month as it was.
THEOREM RetroactiveIsHarmless == Spec => RetroactiveSparesDelivered
<1>1. Inv /\ [Next]_vars => [\A r \in Requests :
       (request[r].pc \in {"write", "inherit"} /\ request[r].start < request[r].today
          /\ decision' # decision /\ ~At(r, "idle") /\ request'[r].pc = "idle") =>
         \A c \in Delivered : c <= request[r].today =>
           \A k \in Keys : Line(decision'[k], c) = Line(decision[k], c)]_vars
  <2> SUFFICES ASSUME Inv, [Next]_vars, NEW r \in Requests,
                      request[r].pc \in {"write", "inherit"}, request[r].start < request[r].today,
                      decision' # decision,
                      NEW c \in Delivered, c <= request[r].today, NEW k \in Keys
               PROVE  Line(decision'[k], c) = Line(decision[k], c)
    OBVIOUS
  <2>1. PICK q \in Requests : Written(q)
    BY WhoWrites
  <2>2. q = r
    BY <2>1 DEF Written, Inv, OneWriter, Locked
  <2> QED  BY <2>1, <2>2, WrittenSpares
<1> QED  BY <1>1, MappingInvariant, PTL DEF Spec, RetroactiveSparesDelivered

\* A bulk confirmation that nobody has overtaken moves no category to another target.
THEOREM BulkConfirmIsNeutral == Spec => BulkConfirmKeepsTargets
<1>1. Inv /\ [Next]_vars => [\A r \in Requests :
       (At(r, "write") /\ request[r].bulk /\ ~request[r].late /\ request'[r].pc = "idle") =>
         \A k \in Keys : \A c \in Months :
           LET before == Line(decision[k], c)
               after == Line(decision'[k], c)
           IN before # after => before # None /\ before.target = after.target]_vars
  <2> SUFFICES ASSUME Inv, [Next]_vars, NEW r \in Requests,
                      request[r].pc = "write", request[r].bulk, ~request[r].late,
                      NEW k \in Keys, NEW c \in Months,
                      Line(decision[k], c) # Line(decision'[k], c)
               PROVE  /\ Line(decision[k], c) # None
                      /\ Line(decision[k], c).target = Line(decision'[k], c).target
    BY DEF At
  <2>1. PICK q \in Requests :
          /\ Written(q)
          /\ InheritCommit(q) \/ (WriteCommit(q) /\ \A l \in Keys :
                                    request[q].effect[l] # None => StillOpen(q, l))
    BY WhoWrites
  <2>2. q = r
    BY <2>1 DEF Written, Inv, OneWriter, Locked
  <2>3. WriteCommit(r) /\ \A l \in Keys : request[r].effect[l] # None => StillOpen(r, l)
    BY <2>1, <2>2 DEF InheritCommit, At
  <2> DEFINE s == request[r].start
  <2>4. request[r].effect[k] # None
    BY <2>1, <2>2 DEF Written
  <2>5. decision'[k][s] = [target |-> request[r].effect[k], origin |-> "confirmada"]
    BY <2>3, <2>4, WriteCommitWrites
  <2>6. Vigente(decision[k], s) # 0 /\ decision[k][Vigente(decision[k], s)].target = request[r].effect[k]
    BY <2>4 DEF Inv, Knows, Repeats, Proposed
  <2>7. s \in Months /\ request[r].effect[k] \in Targets
    BY <2>4 DEF Inv, Shapes, Request
  <2>8. decision'[k][s] # None /\ decision'[k][s].target = decision[k][Vigente(decision[k], s)].target
    BY <2>5, <2>6, <2>7, MappingConstants DEF Rows
  <2>9. decision[k] \in Decisions /\ decision'[k] \in Decisions
        /\ \A t \in Months \ {s} : decision'[k][t] = decision[k][t]
    BY <2>1, <2>2 DEF Inv, Shapes, Written
  <2> QED  BY <2>6, <2>7, <2>8, <2>9, LineRepeated
<1> QED  BY <1>1, MappingInvariant, PTL DEF Spec, BulkConfirmKeepsTargets
===============================================================================
