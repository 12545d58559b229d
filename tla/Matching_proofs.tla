---------------------------- MODULE Matching_proofs ----------------------------
(***************************************************************************)
(* Proofs about Matching, for any lines, movements, tolerance and range of *)
(* days: the pairs are one to one, stable, and raise no double alarm; the  *)
(* balance of a run that conciliates everything is that of its pairs.      *)
(***************************************************************************)
EXTENDS Matching, FiniteSetTheorems, TLAPS

\* A pair is decided when it is closed, or lost to one at least as strong.
Decided(e) == e \in pairs \/ \E p \in pairs : Shares(p, e) /\ AsStrong(p, e)

\* What is left undecided by a pass is free and belongs to this pass or a later one.
DecidedByPass == \A e \in Eligible : Decided(e) \/ (Free(e) /\ Days(e) >= pass)

Disjoint == \A p, q \in pairs : p # q => ~Shares(p, q)

ResultOfPairs ==
  result # None =>
    /\ pass > LastPass
    /\ result.situation = [l \in Lines |-> Situation(l)]
    /\ result.entries = Left
    /\ result.anomalies = Anomalies
    /\ result.difference = Difference

MatchInv ==
  /\ input \in Inputs
  /\ pass \in Nat
  /\ pairs \subseteq Eligible
  /\ Disjoint
  /\ DecidedByPass
  /\ ResultOfPairs

-------------------------------------------------------------------------------
\* Days, distances in the amount and affinities are numbers.
LEMMA EligibleNumbers ==
  ASSUME input \in Inputs, NEW e \in Eligible
  PROVE  Days(e) \in Nat /\ Off(e) \in Nat /\ Affinity(e) \in Nat /\ LastPass \in Nat
<1>1. e.line \in Lines /\ e.move \in Movements /\ e.move \in input.rows
  BY DEF Eligible, Movements, Read
<1>2. /\ Line(e.line).day \in Int /\ Line(e.line).amount \in Int
      /\ e.move.day \in Int /\ e.move.amount \in Int
      /\ e.move.realized => input.affinity[<<e.line, e.move.id>>] \in Nat
  BY <1>1, MatchingConstants DEF Line
<1>3. Days(e) \in Nat
  BY <1>2 DEF Days, Distance
<1>4. Off(e) \in Nat
  BY <1>2 DEF Off, Distance
<1>5. Affinity(e) \in Nat
  BY <1>2 DEF Affinity
<1>6. LastPass \in Nat
  BY MatchingConstants DEF LastPass
<1> QED  BY <1>3, <1>4, <1>5, <1>6

\* Between candidates of one pass, what is closed first is as strong as the others.
LEMMA StrongerIsAsStrong ==
  ASSUME input \in Inputs, NEW p \in Eligible, NEW q \in Eligible,
         Days(p) = Days(q), Stronger(p, q)
  PROVE  AsStrong(p, q)
<1>1. Affinity(p) \in Nat /\ Affinity(q) \in Nat
  BY EligibleNumbers
<1>2. Off(p) < Off(q) \/ (Off(p) = Off(q) /\ (Affinity(p) > Affinity(q) \/ Affinity(p) = Affinity(q)))
  BY DEF Stronger
<1> QED  BY <1>1, <1>2 DEF AsStrong

\* deduplicate_by_id leaves one row of an id.
LEMMA OneRowOfAnId ==
  ASSUME input \in Inputs, NEW m \in Movements, NEW n \in Movements, m.id = n.id
  PROVE  m = n
<1>1. m \in Read /\ n \in Read /\ m.at <= n.at /\ n.at <= m.at
  BY DEF Movements
<1>2. m \in input.rows /\ n \in input.rows
  BY <1>1 DEF Read
<1>3. m.at \in Int /\ n.at \in Int /\ (m.at = n.at => m = n)
  BY <1>2, MatchingConstants
<1> QED  BY <1>1, <1>3

-------------------------------------------------------------------------------
\* What depends on the input alone stays as it is while the input does.
LEMMA InputDecides ==
  ASSUME input' = input
  PROVE  /\ Eligible' = Eligible
         /\ LastPass' = LastPass
         /\ Movements' = Movements
         /\ \A p, q : AsStrong(p, q)' = AsStrong(p, q)
         /\ \A p : Days(p)' = Days(p)
<1>1. Movements' = Movements
  BY DEF Movements, Read, InWindow, ByLot, FirstDay, LastDay, Line
<1>2. LastPass' = LastPass
  BY DEF LastPass, ByLot
<1>3. \A p : Days(p)' = Days(p) /\ Off(p)' = Off(p) /\ Affinity(p)' = Affinity(p)
  BY DEF Days, Off, Affinity, ByLot, Line
<1>4. Eligible' = Eligible
  BY <1>1, <1>2, <1>3 DEF Eligible
<1>5. \A p, q : AsStrong(p, q)' = AsStrong(p, q)
  BY <1>3 DEF AsStrong
<1> QED  BY <1>1, <1>2, <1>3, <1>4, <1>5

LEMMA ResultIs ==
  ASSUME input' = input, pairs' = pairs
  PROVE  Difference' = Difference /\ \A l : Situation(l)' = Situation(l)
<1>1. Movements' = Movements /\ Lines' = Lines
  BY DEF Movements, Read, InWindow, ByLot, FirstDay, LastDay, Line
<1>2. \A l : Line(l)' = Line(l)
  BY DEF Line
<1>3. \A m : Counts(m)' = Counts(m)
  BY DEF Counts, FirstDay, LastDay, Line
<1>4. Difference' = Difference
  BY <1>1, <1>2, <1>3 DEF Difference, MapThenSumSet, MapThenFoldSet
<1> QED  BY <1>4 DEF Situation, Days, ByLot, Line

LEMMA InitMatch == Init => MatchInv
<1> SUFFICES ASSUME Init PROVE MatchInv
  OBVIOUS
<1>1. DecidedByPass
  BY EligibleNumbers DEF Init, DecidedByPass, Free
<1> QED  BY <1>1 DEF Init, MatchInv, Disjoint, ResultOfPairs

\* A new pair is free, and every other candidate it shares with is no stronger.
LEMMA CloseKeeps ==
  ASSUME MatchInv, Close
  PROVE  MatchInv'
<1>1. PICK p \in Candidates : /\ \A q \in Candidates \ {p} : Stronger(p, q)
                              /\ pairs' = pairs \cup {p}
  BY DEF Close
<1>2. input' = input /\ pass' = pass /\ result' = result /\ result = None
  BY DEF Close
<1>3. p \in Eligible /\ Days(p) = pass /\ Free(p)
  BY <1>1 DEF Candidates
<1>4. Eligible' = Eligible /\ LastPass' = LastPass
      /\ \A e, q : AsStrong(e, q)' = AsStrong(e, q)
      /\ \A d : Days(d)' = Days(d)
  BY <1>2, InputDecides
<1>5. pairs' \subseteq Eligible'
  BY <1>1, <1>3, <1>4 DEF MatchInv
<1>6. Disjoint'
  BY <1>1, <1>3 DEF MatchInv, Disjoint, Free, Shares
<1>7. DecidedByPass'
  <2> SUFFICES ASSUME NEW e \in Eligible, e \notin pairs,
                      ~\E q \in pairs : Shares(q, e) /\ AsStrong(q, e)
               PROVE  Decided(e)' \/ (Free(e) /\ Days(e) >= pass)'
    BY <1>1, <1>4 DEF DecidedByPass, Decided, Shares
  <2>1. Free(e) /\ Days(e) >= pass
    BY DEF MatchInv, DecidedByPass, Decided
  <2>2. CASE e = p
    BY <2>2, <1>1 DEF Decided
  <2>3. CASE e # p /\ ~Shares(p, e)
    <3>1. Free(e)'
      BY <2>1, <2>3, <1>1 DEF Free, Shares
    <3> QED  BY <3>1, <2>1, <1>2, <1>4
  <2>4. CASE e # p /\ Shares(p, e)
    <3>1. AsStrong(p, e)
      <4>1. CASE Days(e) = pass
        <5>1. e \in Candidates \ {p}
          BY <4>1, <2>1, <2>4 DEF Candidates
        <5> QED  BY <5>1, <1>1, <1>3, <4>1, StrongerIsAsStrong DEF MatchInv
      <4>2. CASE Days(e) # pass
        <5>1. Days(e) \in Nat /\ pass \in Nat
          BY EligibleNumbers DEF MatchInv
        <5>2. Days(p) < Days(e)
          BY <5>1, <4>2, <2>1, <1>3
        <5> QED  BY <5>2 DEF AsStrong
      <4> QED  BY <4>1, <4>2
    <3> QED  BY <3>1, <2>4, <1>1, <1>4 DEF Decided, Shares
  <2> QED  BY <2>2, <2>3, <2>4
<1> QED  BY <1>2, <1>5, <1>6, <1>7 DEF MatchInv, ResultOfPairs

LEMMA NextPassKeeps ==
  ASSUME MatchInv, NextPass
  PROVE  MatchInv'
<1>1. /\ input' = input /\ pairs' = pairs /\ result' = result /\ result = None
      /\ pass' = pass + 1 /\ Candidates = {}
  BY DEF NextPass
<1>2. Eligible' = Eligible
      /\ \A e, q : AsStrong(e, q)' = AsStrong(e, q)
      /\ \A d : Days(d)' = Days(d)
  BY <1>1, InputDecides
<1>3. DecidedByPass'
  <2> SUFFICES ASSUME NEW e \in Eligible, ~Decided(e)
               PROVE  (Free(e) /\ Days(e) >= pass)'
    BY <1>1, <1>2 DEF DecidedByPass, Decided, Shares
  <2>1. Free(e) /\ Days(e) >= pass
    BY DEF MatchInv, DecidedByPass
  <2>2. Days(e) # pass
    BY <2>1, <1>1 DEF Candidates
  <2>3. Days(e) >= pass + 1
    BY <2>1, <2>2, EligibleNumbers DEF MatchInv
  <2> QED  BY <2>1, <2>3, <1>1, <1>2 DEF Free, Shares
<1> QED  BY <1>1, <1>2, <1>3 DEF MatchInv, Disjoint, Shares, ResultOfPairs

LEMMA LandKeeps ==
  ASSUME MatchInv, Land
  PROVE  MatchInv'
<1>1. /\ input' = input /\ pairs' = pairs /\ pass' = pass /\ pass > LastPass
      /\ result'.situation = [l \in Lines |-> Situation(l)]
      /\ result'.entries = Left /\ result'.anomalies = Anomalies
      /\ result'.difference = Difference
  BY DEF Land
<1>2. /\ Eligible' = Eligible /\ LastPass' = LastPass /\ Movements' = Movements
      /\ \A e, q : AsStrong(e, q)' = AsStrong(e, q)
      /\ \A d : Days(d)' = Days(d)
  BY <1>1, InputDecides
<1>3. Left' = Left
  BY <1>1, <1>2 DEF Left
<1>4. Difference' = Difference /\ \A l : Situation(l)' = Situation(l)
  BY <1>1, ResultIs
<1>5. Anomalies' = Anomalies
  BY <1>3, <1>4 DEF Anomalies
<1>6. DecidedByPass'
  BY <1>1, <1>2 DEF MatchInv, DecidedByPass, Decided, Free, Shares
<1> QED  BY <1>1, <1>2, <1>3, <1>4, <1>5, <1>6 DEF MatchInv, Disjoint, Shares, ResultOfPairs

LEMMA StutterKeeps ==
  ASSUME MatchInv, UNCHANGED vars
  PROVE  MatchInv'
<1>1. input' = input /\ pairs' = pairs /\ pass' = pass /\ result' = result
  BY DEF vars
<1>2. /\ Eligible' = Eligible /\ LastPass' = LastPass /\ Movements' = Movements
      /\ \A e, q : AsStrong(e, q)' = AsStrong(e, q)
      /\ \A d : Days(d)' = Days(d)
  BY <1>1, InputDecides
<1>3. Left' = Left
  BY <1>1, <1>2 DEF Left
<1>4. Difference' = Difference /\ \A l : Situation(l)' = Situation(l)
  BY <1>1, ResultIs
<1>5. Anomalies' = Anomalies
  BY <1>3, <1>4 DEF Anomalies
<1>6. DecidedByPass'
  BY <1>1, <1>2 DEF MatchInv, DecidedByPass, Decided, Free, Shares
<1> QED  BY <1>1, <1>2, <1>3, <1>4, <1>5, <1>6 DEF MatchInv, Disjoint, Shares, ResultOfPairs

\* The invariant holds in every state of a run.
THEOREM MatchInvariant == Spec => []MatchInv
<1>1. MatchInv /\ [Next]_vars => MatchInv'
  <2> SUFFICES ASSUME MatchInv, [Next]_vars PROVE MatchInv'
    OBVIOUS
  <2>1. CASE Close      BY <2>1, CloseKeeps
  <2>2. CASE NextPass   BY <2>2, NextPassKeeps
  <2>3. CASE Land       BY <2>3, LandKeeps
  <2>4. CASE Landed     BY <2>4, StutterKeeps DEF Landed
  <2>5. CASE UNCHANGED vars  BY <2>5, StutterKeeps
  <2> QED  BY <2>1, <2>2, <2>3, <2>4, <2>5 DEF Next
<1> QED  BY InitMatch, <1>1, PTL DEF Spec

-------------------------------------------------------------------------------
\* Whoever goes without a partner lost it to evidence no weaker, in both matchers
\* and for any number of lines and movements.
THEOREM MatchingIsStable == Spec => []Stable
<1>1. MatchInv => Stable
  <2> SUFFICES ASSUME MatchInv, pass > LastPass, NEW e \in Eligible \ pairs
               PROVE  \E p \in pairs : Shares(p, e) /\ AsStrong(p, e)
    BY DEF Stable
  <2>1. Days(e) <= LastPass
    BY DEF Eligible
  <2>2. ~(Days(e) >= pass)
    BY <2>1, EligibleNumbers DEF MatchInv
  <2> QED  BY <2>2 DEF MatchInv, DecidedByPass, Decided
<1> QED  BY MatchInvariant, <1>1, PTL

\* A line has one movement and a movement one line, and none both closes a line and is
\* left over.
THEOREM MatchingIsOneToOne == Spec => []OneToOne
<1>1. MatchInv => OneToOne
  <2> SUFFICES ASSUME MatchInv PROVE OneToOne
    OBVIOUS
  <2>1. \A p \in pairs : p \in Eligible /\ p.line \in Lines /\ p.move \in Movements
    BY DEF MatchInv, Eligible
  <2>2. ASSUME NEW p \in pairs, NEW q \in pairs, p # q
        PROVE  p.line # q.line /\ p.move.id # q.move.id
    BY <2>1, <2>2, OneRowOfAnId DEF MatchInv, Disjoint, Shares
  <2>3. ASSUME result # None
        PROVE  /\ \A m, n \in result.entries : m # n => m.id # n.id
               /\ \A m \in result.entries : \A p \in pairs : p.move.id # m.id
    <3>1. result.entries = Left
      BY <2>3 DEF MatchInv, ResultOfPairs
    <3> QED  BY <3>1, <2>1, OneRowOfAnId DEF MatchInv, Left
  <2> QED  BY <2>2, <2>3 DEF OneToOne
<1> QED  BY MatchInvariant, <1>1, PTL

\* One purchase does not raise two alarms: a line said to be missing in Omie and a title
\* said to be missing in the statement were not each other's pair.
THEOREM NoPurchaseAlarmsTwice == Spec => []NoDoubleAlarm
<1>1. MatchInv => NoDoubleAlarm
  <2> SUFFICES ASSUME MatchInv, result # None, NEW a \in result.anomalies, NEW b \in result.anomalies,
                      a.type = "missing_in_omie", b.type = "missing_in_file",
                      [line |-> a.of, move |-> b.of] \in Eligible
               PROVE  FALSE
    BY DEF NoDoubleAlarm
  <2> DEFINE e == [line |-> a.of, move |-> b.of]
  <2>1. a \in Anomalies /\ b \in Anomalies /\ pass > LastPass
    BY DEF MatchInv, ResultOfPairs
  <2>2. Situation(a.of) = "sem_omie"
    BY <2>1 DEF Anomalies
  <2>3. b.of \in Left
    BY <2>1 DEF Anomalies
  <2>4. \A p \in pairs : p.line # a.of
    BY <2>2 DEF Situation
  <2>5. \A p \in pairs : p.move # b.of
    BY <2>3 DEF Left
  <2>6. e \in Eligible /\ e.line = a.of /\ e.move = b.of
    OBVIOUS
  <2>7. \A p \in pairs : ~Shares(p, e)
    BY <2>4, <2>5, <2>6 DEF Shares
  <2>8. e \notin pairs
    BY <2>4, <2>6
  <2>9. Days(e) <= LastPass
    BY <2>6 DEF Eligible
  <2>10. ~(Days(e) >= pass)
    BY <2>1, <2>6, <2>9, EligibleNumbers DEF MatchInv
  <2> HIDE DEF e
  <2> QED  BY <2>6, <2>7, <2>8, <2>10 DEF MatchInv, DecidedByPass, Decided
<1> QED  BY MatchInvariant, <1>1, PTL

-------------------------------------------------------------------------------
(* Sums over finite sets, by induction over their subsets.                  *)

\* Of any sets of subsets of a finite set, one contains no other: the step of an induction
\* over them that needs no operator as a parameter.
LEMMA SmallestSubset ==
  ASSUME NEW S, IsFiniteSet(S), NEW T \in SUBSET (SUBSET S), T # {}
  PROVE  \E U \in T : \A V \in T : V \subseteq U => V = U
<1>1. IsWellFoundedOn(StrictSubsetOrdering(S), SUBSET S)
  BY FS_StrictSubsetOrderingWellFounded, FS_FiniteSubsetsOfFinite
<1>2. \E U \in T : \A V \in T : <<V, U>> \notin StrictSubsetOrdering(S)
  BY <1>1, WFMin
<1> QED  BY <1>2 DEF StrictSubsetOrdering

\* What MapThenSumSet takes out of a set, and the sums over the subsets of one.
Some(s) == CHOOSE x \in s : TRUE

LEMMA SomeIs == ASSUME NEW s, s # {} PROVE Some(s) \in s
BY DEF Some

IsSum(F, g, S) ==
  F = [s \in SUBSET S |-> IF s = {} THEN 0 ELSE g[Some(s)] + F[s \ {Some(s)}]]

LEMMA SumAt ==
  ASSUME NEW F, NEW g, NEW S, IsSum(F, g, S)
  PROVE  /\ F[{}] = 0
         /\ \A s \in SUBSET S : s # {} => F[s] = g[Some(s)] + F[s \ {Some(s)}]
<1> DEFINE body(u) == IF u = {} THEN 0 ELSE g[Some(u)] + F[u \ {Some(u)}]
<1>1. F = [u \in SUBSET S |-> body(u)]
  BY DEF IsSum
<1> HIDE DEF body
<1>2. \A s \in SUBSET S : F[s] = body(s)
  BY <1>1
<1>3. {} \in SUBSET S
  OBVIOUS
<1> QED  BY <1>2, <1>3 DEF body

\* Two such functions are one where both are defined, and there is one.
LEMMA SumsAgree ==
  ASSUME NEW S, IsFiniteSet(S), NEW T \in SUBSET S, NEW g, NEW F, NEW G,
         IsSum(F, g, S), IsSum(G, g, T)
  PROVE  \A U \in SUBSET T : F[U] = G[U]
<1> DEFINE Bad == {U \in SUBSET T : F[U] # G[U]}
<1> SUFFICES ASSUME Bad # {} PROVE FALSE
  OBVIOUS
<1>1. IsFiniteSet(T)
  BY FS_Subset
<1>2. PICK U \in Bad : \A V \in Bad : V \subseteq U => V = U
  <2> HIDE DEF Bad
  <2>1. Bad \in SUBSET (SUBSET T)
    BY DEF Bad
  <2> QED  BY <2>1, <1>1, SmallestSubset
<1>3. U \in SUBSET T /\ U \in SUBSET S /\ F[U] # G[U]
  BY <1>2
<1>4. CASE U = {}
  <2>1. F[{}] = 0 /\ G[{}] = 0
    BY SumAt
  <2> QED  BY <2>1, <1>3, <1>4
<1>5. CASE U # {}
  <2>1. Some(U) \in U
    BY <1>5, SomeIs
  <2>2. U \ {Some(U)} \in SUBSET T /\ U \ {Some(U)} # U
    BY <2>1, <1>3
  <2>3. F[U \ {Some(U)}] = G[U \ {Some(U)}]
    BY <2>2, <1>2
  <2>4. /\ F[U] = g[Some(U)] + F[U \ {Some(U)}]
        /\ G[U] = g[Some(U)] + G[U \ {Some(U)}]
    <3>1. \A s \in SUBSET S : s # {} => F[s] = g[Some(s)] + F[s \ {Some(s)}]
      BY SumAt
    <3>2. \A s \in SUBSET T : s # {} => G[s] = g[Some(s)] + G[s \ {Some(s)}]
      BY SumAt
    <3> QED  BY <3>1, <3>2, <1>3, <1>5
  <2> QED  BY <2>3, <2>4, <1>3
<1> QED  BY <1>4, <1>5

LEMMA SumExists ==
  ASSUME NEW S, IsFiniteSet(S), NEW g
  PROVE  \E F : IsSum(F, g, S)
<1> DEFINE Bad == {U \in SUBSET S : \A F : ~IsSum(F, g, U)}
<1> SUFFICES ASSUME Bad # {} PROVE FALSE
  OBVIOUS
<1>1. PICK U \in Bad : \A V \in Bad : V \subseteq U => V = U
  <2> HIDE DEF Bad
  <2>1. Bad \in SUBSET (SUBSET S)
    BY DEF Bad
  <2> QED  BY <2>1, SmallestSubset
<1>2. U \in SUBSET S /\ \A F : ~IsSum(F, g, U)
  BY <1>1
<1> DEFINE Of(s) == CHOOSE F : IsSum(F, g, s)
           Rest(s) == s \ {Some(s)}
           value(s) == IF s = {} THEN 0 ELSE g[Some(s)] + Of(Rest(s))[Rest(s)]
           F == [s \in SUBSET U |-> value(s)]
<1>3. ASSUME NEW V \in SUBSET U, V # U PROVE IsSum(Of(V), g, V)
  <2>1. \E G : IsSum(G, g, V)
    BY <1>1, <1>2, <1>3
  <2> QED  BY <2>1
<1>4. ASSUME NEW s \in SUBSET U, s # {} PROVE F[Rest(s)] = Of(Rest(s))[Rest(s)]
  <2>1. Some(s) \in s
    BY <1>4, SomeIs
  <2>2. Rest(s) \in SUBSET U /\ Rest(s) # U /\ IsFiniteSet(Rest(s))
    BY <2>1, <1>2, FS_Subset
  <2>3. F[Rest(s)] = value(Rest(s))
    BY <2>2
  <2>4. CASE Rest(s) = {}
    <3>1. IsSum(Of({}), g, {})
      BY <2>4, <2>2, <1>3
    <3>2. Of({})[{}] = 0
      BY <3>1, SumAt
    <3> QED  BY <3>2, <2>3, <2>4
  <2>5. CASE Rest(s) # {}
    <3> DEFINE t == Rest(s)
    <3>1. IsSum(Of(t), g, t)
      BY <2>2, <1>3
    <3>2. Some(t) \in t
      BY <2>5, SomeIs
    <3>3. Rest(t) \in SUBSET t /\ Rest(t) \in SUBSET U /\ Rest(t) # U
      BY <3>2, <2>2
    <3>4. IsSum(Of(Rest(t)), g, Rest(t))
      BY <3>3, <1>3
    <3>5. Of(t)[Rest(t)] = Of(Rest(t))[Rest(t)]
      <4> HIDE DEF t, Rest, Of
      <4> QED  BY <3>1, <3>3, <3>4, <2>2, SumsAgree DEF t
    <3>6. Of(t)[t] = g[Some(t)] + Of(t)[Rest(t)]
      <4> HIDE DEF Of
      <4>1. \A u \in SUBSET t : u # {} => Of(t)[u] = g[Some(u)] + Of(t)[u \ {Some(u)}]
        BY <3>1, SumAt
      <4> QED  BY <4>1, <2>5
    <3> QED  BY <3>5, <3>6, <2>3, <2>5
  <2> QED  BY <2>4, <2>5
<1>5. IsSum(F, g, U)
  <2>1. \A s \in SUBSET U : value(s) = IF s = {} THEN 0 ELSE g[Some(s)] + F[s \ {Some(s)}]
    <3> HIDE DEF F, Of
    <3> QED  BY <1>4
  <2> HIDE DEF value
  <2> QED  BY <2>1 DEF IsSum
<1> QED  BY <1>2, <1>5

\* A sum is that without any one of its terms, and the term.
LEMMA SumIs ==
  ASSUME NEW S, IsFiniteSet(S), NEW g \in [S -> Int], NEW F, IsSum(F, g, S)
  PROVE  /\ F[{}] = 0
         /\ \A U \in SUBSET S : F[U] \in Int
         /\ \A U \in SUBSET S : \A x \in U : F[U] = g[x] + F[U \ {x}]
<1> DEFINE Good(U) == F[U] \in Int /\ \A x \in U : F[U] = g[x] + F[U \ {x}]
           Bad == {U \in SUBSET S : ~Good(U)}
<1>1. F[{}] = 0
  BY SumAt
<1>2. SUFFICES ASSUME Bad # {} PROVE FALSE
  BY <1>1
<1>3. PICK U \in Bad : \A V \in Bad : V \subseteq U => V = U
  <2> HIDE DEF Bad
  <2>1. Bad \in SUBSET (SUBSET S)
    BY DEF Bad
  <2> QED  BY <2>1, <1>2, SmallestSubset
<1>4. U \in SUBSET S /\ ~Good(U)
  BY <1>3
<1>5. \A V \in SUBSET U : V # U => Good(V)
  BY <1>3, <1>4
<1>6. U # {}
  <2>1. Good({})
    BY <1>1
  <2> QED  BY <2>1, <1>4
<1> DEFINE c == Some(U)
<1>7. c \in U /\ F[U] = g[c] + F[U \ {c}]
  <2>1. \A s \in SUBSET S : s # {} => F[s] = g[Some(s)] + F[s \ {Some(s)}]
    BY SumAt
  <2> QED  BY <2>1, <1>4, <1>6, SomeIs
<1> HIDE DEF c
<1>8. Good(U \ {c}) /\ g[c] \in Int
  BY <1>5, <1>7, <1>4
<1>9. ASSUME NEW x \in U PROVE F[U] = g[x] + F[U \ {x}]
  <2>1. CASE x = c
    BY <2>1, <1>7
  <2>2. CASE x # c
    <3>1. F[U \ {c}] = g[x] + F[(U \ {c}) \ {x}]
      BY <2>2, <1>8
    <3>2. F[U \ {x}] = g[c] + F[(U \ {x}) \ {c}]
      <4>1. Good(U \ {x}) /\ c \in U \ {x}
        BY <2>2, <1>5, <1>7
      <4> QED  BY <4>1
    <3>3. (U \ {c}) \ {x} = (U \ {x}) \ {c}
      OBVIOUS
    <3>4. Good((U \ {c}) \ {x}) /\ g[x] \in Int
      BY <1>5, <1>4
    <3> HIDE DEF Bad
    <3>5. F[(U \ {c}) \ {x}] \in Int
      BY <3>4
    <3>6. PICK rest \in Int : rest = F[(U \ {c}) \ {x}]
      BY <3>5
    <3>7. F[U \ {c}] = g[x] + rest /\ F[U \ {x}] = g[c] + rest
      BY <3>1, <3>2, <3>3, <3>6
    <3>8. g[x] \in Int /\ g[c] \in Int
      BY <3>4, <1>8
    <3> HIDE DEF Good
    <3>9. F[U] = g[c] + (g[x] + rest)
      BY <3>7, <1>7
    <3>10. F[U] = g[x] + (g[c] + rest)
      BY <3>8, <3>9
    <3> QED  BY <3>7, <3>10
  <2> QED  BY <2>1, <2>2
<1> QED  BY <1>4, <1>7, <1>8, <1>9

-------------------------------------------------------------------------------
(* The balance.                                                             *)

\* The sums of the model are such functions, of all their terms.
LEMMA SumsOfTheModel ==
  ASSUME input \in Inputs
  PROVE  LET terms == {m \in Movements : Counts(m)}
         IN  \E F, G : /\ IsSum(F, [l \in Lines |-> Line(l).amount], Lines)
                       /\ IsSum(G, [m \in terms |-> m.amount], terms)
                       /\ Difference = F[Lines] - G[terms]
<1> DEFINE terms == {m \in Movements : Counts(m)}
           byLine == [l \in Lines |-> Line(l).amount]
           byMove == [m \in terms |-> m.amount]
           F == CHOOSE iter : iter = [s \in SUBSET Lines |->
                  IF s = {} THEN 0
                  ELSE Line(CHOOSE x \in s : TRUE).amount + iter[s \ {CHOOSE x \in s : TRUE}]]
           G == CHOOSE iter : iter = [s \in SUBSET terms |->
                  IF s = {} THEN 0
                  ELSE (CHOOSE x \in s : TRUE).amount + iter[s \ {CHOOSE x \in s : TRUE}]]
<1>1. Difference = F[Lines] - G[terms]
  BY DEF Difference, MapThenSumSet, MapThenFoldSet
<1>2. IsFiniteSet(Lines) /\ IsFiniteSet(terms)
  <2>1. terms \in SUBSET input.rows
    BY DEF Movements, Read
  <2> QED  BY <2>1, MatchingConstants, FS_Subset
<1>3. IsSum(F, byLine, Lines)
  <2>1. PICK H : IsSum(H, byLine, Lines)
    BY <1>2, SumExists
  <2>2. ASSUME NEW K
        PROVE  [s \in SUBSET Lines |-> IF s = {} THEN 0
                  ELSE Line(CHOOSE x \in s : TRUE).amount + K[s \ {CHOOSE x \in s : TRUE}]]
             = [s \in SUBSET Lines |-> IF s = {} THEN 0 ELSE byLine[Some(s)] + K[s \ {Some(s)}]]
    <3>1. \A s \in SUBSET Lines : s # {} => Some(s) \in Lines
      BY SomeIs
    <3>2. \A s \in SUBSET Lines : s # {} => byLine[Some(s)] = Line(Some(s)).amount
      BY <3>1
    <3> HIDE DEF byLine
    <3> QED  BY <3>2 DEF Some
  <2> HIDE DEF byLine
  <2>3. H = [s \in SUBSET Lines |-> IF s = {} THEN 0
                  ELSE Line(CHOOSE x \in s : TRUE).amount + H[s \ {CHOOSE x \in s : TRUE}]]
    BY <2>1, <2>2 DEF IsSum
  <2>4. F = [s \in SUBSET Lines |-> IF s = {} THEN 0
                  ELSE Line(CHOOSE x \in s : TRUE).amount + F[s \ {CHOOSE x \in s : TRUE}]]
    BY <2>3, Zenon
  <2> HIDE DEF F
  <2> QED  BY <2>2, <2>4 DEF IsSum
<1>4. IsSum(G, byMove, terms)
  <2>1. PICK H : IsSum(H, byMove, terms)
    BY <1>2, SumExists
  <2>2. ASSUME NEW K
        PROVE  [s \in SUBSET terms |-> IF s = {} THEN 0
                  ELSE (CHOOSE x \in s : TRUE).amount + K[s \ {CHOOSE x \in s : TRUE}]]
             = [s \in SUBSET terms |-> IF s = {} THEN 0 ELSE byMove[Some(s)] + K[s \ {Some(s)}]]
    <3> HIDE DEF terms
    <3>1. \A s \in SUBSET terms : s # {} => Some(s) \in terms
      BY SomeIs
    <3>2. \A s \in SUBSET terms : s # {} => byMove[Some(s)] = Some(s).amount
      BY <3>1
    <3> HIDE DEF byMove
    <3> QED  BY <3>2 DEF Some
  <2> HIDE DEF byMove, terms
  <2>3. H = [s \in SUBSET terms |-> IF s = {} THEN 0
                  ELSE (CHOOSE x \in s : TRUE).amount + H[s \ {CHOOSE x \in s : TRUE}]]
    BY <2>1, <2>2 DEF IsSum
  <2>4. G = [s \in SUBSET terms |-> IF s = {} THEN 0
                  ELSE (CHOOSE x \in s : TRUE).amount + G[s \ {CHOOSE x \in s : TRUE}]]
    BY <2>3, Zenon
  <2> HIDE DEF G
  <2> QED  BY <2>2, <2>4 DEF IsSum
<1> QED  BY <1>1, <1>3, <1>4

\* A finite set of numbers has a smallest and a largest one.
LEMMA MinIs ==
  ASSUME NEW S, S \subseteq Int, IsFiniteSet(S), S # {}
  PROVE  Min(S) \in S /\ \A x \in S : Min(S) <= x
<1> DEFINE Bad == {U \in SUBSET S : U # {} /\ \A x \in U : \E y \in U : ~(x <= y)}
<1>1. Bad = {}
  <2> SUFFICES ASSUME Bad # {} PROVE FALSE
    OBVIOUS
  <2>1. PICK U \in Bad : \A V \in Bad : V \subseteq U => V = U
    <3> HIDE DEF Bad
    <3>1. Bad \in SUBSET (SUBSET S)
      BY DEF Bad
    <3>2. IsFiniteSet(S) /\ Bad # {}
      OBVIOUS
    <3> QED  BY ONLY <3>1, <3>2, SmallestSubset
  <2>2. PICK c \in U : TRUE
    BY <2>1
  <2>3. U \ {c} \notin Bad /\ U \ {c} \in SUBSET S
    BY <2>1, <2>2
  <2>4. CASE U \ {c} = {}
    BY <2>4, <2>1, <2>2
  <2>5. CASE U \ {c} # {}
    <3>1. PICK m \in U \ {c} : \A y \in U \ {c} : m <= y
      BY <2>3, <2>5
    <3>2. PICK n \in {m, c} : n <= m /\ n <= c /\ n \in Int /\ m \in Int /\ c \in Int
      BY <2>1, <2>2, <3>1
    <3>3. n \in U /\ \A y \in U : n <= y
      BY <2>1, <2>2, <3>1, <3>2
    <3> QED  BY <3>3, <2>1
  <2> QED  BY <2>4, <2>5
<1>2. S \notin Bad
  BY <1>1
<1>3. \E x \in S : \A y \in S : x =< y
  BY <1>2
<1> QED  BY <1>3 DEF Min

LEMMA MaxIs ==
  ASSUME NEW S, S \subseteq Int, IsFiniteSet(S), S # {}
  PROVE  Max(S) \in S /\ \A x \in S : x <= Max(S)
<1> DEFINE Bad == {U \in SUBSET S : U # {} /\ \A x \in U : \E y \in U : ~(y <= x)}
<1>1. Bad = {}
  <2> SUFFICES ASSUME Bad # {} PROVE FALSE
    OBVIOUS
  <2>1. PICK U \in Bad : \A V \in Bad : V \subseteq U => V = U
    <3> HIDE DEF Bad
    <3>1. Bad \in SUBSET (SUBSET S)
      BY DEF Bad
    <3>2. IsFiniteSet(S) /\ Bad # {}
      OBVIOUS
    <3> QED  BY ONLY <3>1, <3>2, SmallestSubset
  <2>2. PICK c \in U : TRUE
    BY <2>1
  <2>3. U \ {c} \notin Bad /\ U \ {c} \in SUBSET S
    BY <2>1, <2>2
  <2>4. CASE U \ {c} = {}
    BY <2>4, <2>1, <2>2
  <2>5. CASE U \ {c} # {}
    <3>1. PICK m \in U \ {c} : \A y \in U \ {c} : y <= m
      BY <2>3, <2>5
    <3>2. PICK n \in {m, c} : m <= n /\ c <= n /\ n \in Int /\ m \in Int /\ c \in Int
      BY <2>1, <2>2, <3>1
    <3>3. n \in U /\ \A y \in U : y <= n
      BY <2>1, <2>2, <3>1, <3>2
    <3> QED  BY <3>3, <2>1
  <2> QED  BY <2>4, <2>5
<1>2. S \notin Bad
  BY <1>1
<1>3. \E x \in S : \A y \in S : x >= y
  BY <1>2
<1> QED  BY <1>3 DEF Max

\* The days of the statement.
LEMMA DaysOfTheStatement ==
  ASSUME input \in Inputs, NEW l \in Lines
  PROVE  Line(l).day \in Int /\ Line(l).amount \in Int
         /\ Line(l).day \in FirstDay .. LastDay
<1> DEFINE days == {Line(k).day : k \in Lines}
<1>1. \A k \in Lines : Line(k).day \in Int /\ Line(k).amount \in Int
  BY MatchingConstants DEF Line
<1>2. IsFiniteSet(days)
  <2> DEFINE day == [k \in Lines |-> Line(k).day]
  <2>1. day \in Surjection(Lines, days)
    BY DEF Surjection
  <2> QED  BY <2>1, MatchingConstants, FS_Surjection
<1>3. days \in SUBSET Int /\ Line(l).day \in days
  BY <1>1
<1> HIDE DEF days
<1>4. /\ Min(days) \in days /\ Min(days) <= Line(l).day
      /\ Max(days) \in days /\ Line(l).day <= Max(days)
  BY <1>2, <1>3, MinIs, MaxIs
<1>5. FirstDay = Min(days) /\ LastDay = Max(days)
  BY DEF FirstDay, LastDay, days
<1> QED  BY <1>1, <1>3, <1>4, <1>5

\* Two sums whose terms are paired one to one, no pair further apart than d, are no further
\* apart than d for each pair.
LEMMA PairedSums ==
  ASSUME NEW S, IsFiniteSet(S), NEW T, IsFiniteSet(T),
         NEW f \in [S -> Int], NEW g \in [T -> Int], NEW F, IsSum(F, f, S), NEW G, IsSum(G, g, T),
         NEW to \in [S -> T], \A x, y \in S : to[x] = to[y] => x = y,
         NEW d \in Nat, \A x \in S : f[x] - g[to[x]] \in -d .. d
  PROVE  \A U \in SUBSET S : F[U] - G[{to[x] : x \in U}] \in -(d * Cardinality(U)) .. d * Cardinality(U)
<1> DEFINE image(U) == {to[x] : x \in U}
           Good(U) == F[U] - G[image(U)] \in -(d * Cardinality(U)) .. d * Cardinality(U)
           Bad == {U \in SUBSET S : ~Good(U)}
<1> SUFFICES ASSUME Bad # {} PROVE FALSE
  OBVIOUS
<1>1. PICK U \in Bad : \A V \in Bad : V \subseteq U => V = U
  <2> HIDE DEF Bad
  <2>1. Bad \in SUBSET (SUBSET S)
    BY DEF Bad
  <2>2. IsFiniteSet(S) /\ Bad # {}
    OBVIOUS
  <2> QED  BY ONLY <2>1, <2>2, SmallestSubset
<1>2. U \in SUBSET S /\ ~Good(U) /\ IsFiniteSet(U)
  BY <1>1, FS_Subset
<1>3. \A V \in SUBSET U : V # U => Good(V)
  BY <1>1, <1>2
<1>4. /\ F[{}] = 0 /\ \A V \in SUBSET S : F[V] \in Int
      /\ \A V \in SUBSET S : \A x \in V : F[V] = f[x] + F[V \ {x}]
  BY SumIs
<1>5. /\ G[{}] = 0 /\ \A V \in SUBSET T : G[V] \in Int
      /\ \A V \in SUBSET T : \A x \in V : G[V] = g[x] + G[V \ {x}]
  BY SumIs
<1> HIDE DEF Bad
<1>6. CASE U = {}
  <2>1. image({}) = {} /\ Cardinality({}) = 0
    BY FS_EmptySet
  <2>2. -(d * 0) = 0 /\ d * 0 = 0
    OBVIOUS
  <2> HIDE DEF image
  <2>3. F[{}] - G[image({})] = 0
    <3>1. F[{}] = 0 /\ G[{}] = 0
      BY <1>4, <1>5
    <3>2. image({}) = {}
      BY <2>1
    <3> QED  BY ONLY <3>1, <3>2
  <2>4. Good({})
    BY <2>1, <2>2, <2>3
  <2> HIDE DEF Good
  <2> QED  BY <2>4, <1>6, <1>2
<1>7. CASE U # {}
  <2>1. PICK x \in U : TRUE
    BY <1>7
  <2> DEFINE V == U \ {x}
  <2>2. V \in SUBSET U /\ V # U /\ V \in SUBSET S /\ x \in S
    BY <2>1, <1>2
  <2>3. Good(V)
    BY <2>2, <1>3
  <2>4. image(U) \ {to[x]} = image(V) /\ to[x] \in image(U) /\ image(U) \in SUBSET T
        /\ image(V) \in SUBSET T
    BY <2>1, <2>2, <1>2
  <2>5. Cardinality(U) \in Nat /\ Cardinality(V) \in Nat /\ Cardinality(U) = Cardinality(V) + 1
    <3>1. IsFiniteSet(V) /\ Cardinality(V) = Cardinality(U) - 1
      BY <2>1, <1>2, FS_RemoveElement
    <3>2. Cardinality(V) \in Nat /\ Cardinality(U) \in Nat
      BY <3>1, <1>2, FS_CardinalityType
    <3> QED  BY <3>1, <3>2
  <2> DEFINE n == Cardinality(V)
  <2>6. F[U] = f[x] + F[V] /\ f[x] \in Int /\ F[V] \in Int
    BY <2>1, <2>2, <1>2, <1>4
  <2> HIDE DEF V, image
  <2>7. G[image(U)] = g[to[x]] + G[image(V)] /\ g[to[x]] \in Int /\ G[image(V)] \in Int
    <3>1. \A W \in SUBSET T : G[W] \in Int /\ \A y \in W : G[W] = g[y] + G[W \ {y}]
      BY <1>5
    <3>2. G[image(U)] = g[to[x]] + G[image(U) \ {to[x]}]
      BY <2>4, <3>1
    <3>3. G[image(V)] \in Int
      BY <2>4, <3>1
    <3>4. g[to[x]] \in Int
      BY <2>2
    <3> QED  BY <3>2, <3>3, <3>4, <2>4
  <2>8. f[x] - g[to[x]] \in -d .. d
    BY <2>2
  <2>9. F[V] - G[image(V)] \in -(d * n) .. d * n
    BY <2>3
  <2>10. d * Cardinality(U) = d * n + d /\ d * n \in Nat
    BY <2>5
  <2> HIDE DEF n
  <2>11. PICK k \in Nat : k = d * n
    BY <2>10
  <2>12. F[U] - G[image(U)] \in -(k + d) .. k + d
    BY <2>6, <2>7, <2>8, <2>9, <2>11
  <2>13. Good(U)
    BY <2>10, <2>11, <2>12
  <2> QED  BY <2>13, <1>2
<1> QED  BY <1>6, <1>7

\* Lines conciliated one by one with the movements that count: the two sums are of as many
\* terms, paired.
LEMMA BalancedByPairs ==
  ASSUME input \in Inputs, pairs \subseteq Eligible, Disjoint, ~ByLot,
         \A l \in Lines : Situation(l) = "conciliado",
         \A p \in pairs : p.move.realized,
         \A m \in Left : m.realized => m.day \notin FirstDay..LastDay
  PROVE  Difference \in -(Tolerance * Cardinality(Lines)) .. Tolerance * Cardinality(Lines)
<1> DEFINE terms == {m \in Movements : Counts(m)}
           byLine == [l \in Lines |-> Line(l).amount]
           byMove == [m \in terms |-> m.amount]
           pair(l) == CHOOSE p \in pairs : p.line = l
           to == [l \in Lines |-> pair(l).move]
<1>1. ASSUME NEW l \in Lines
      PROVE  /\ pair(l) \in pairs /\ pair(l).line = l /\ Days(pair(l)) = 0
             /\ pair(l).move \in Movements /\ Off(pair(l)) <= Tolerance
  <2>1. \E p \in pairs : p.line = l /\ Days(p) = 0
    BY DEF Situation
  <2>2. pair(l) \in pairs /\ pair(l).line = l
    BY <2>1
  <2>3. \A p \in pairs : p.line = l => p = pair(l)
    BY <2>2 DEF Disjoint, Shares
  <2> HIDE DEF pair
  <2> QED  BY <2>1, <2>2, <2>3 DEF Eligible
<1>2. \A m \in Movements : m \in input.rows /\ m.day \in Int /\ m.amount \in Int
  BY MatchingConstants DEF Movements, Read
<1> HIDE DEF pair
<1>3. ASSUME NEW l \in Lines PROVE pair(l).move \in terms
  <2>1. pair(l).move \in Movements /\ pair(l).move.realized /\ pair(l).move.day \in Int
    BY <1>1, <1>2
  <2>2. Line(l).day \in Int /\ Line(l).day \in FirstDay .. LastDay
    BY DaysOfTheStatement
  <2>3. Distance(Line(l).day, pair(l).move.day) = 0
    BY <1>1 DEF Days
  <2>4. pair(l).move.day = Line(l).day
    BY <2>1, <2>2, <2>3 DEF Distance
  <2> QED  BY <2>1, <2>2, <2>4 DEF Counts
<1>4. to \in [Lines -> terms] /\ \A k, l \in Lines : to[k] = to[l] => k = l
  <2> HIDE DEF terms
  <2>1. \A k, l \in Lines : pair(k).move = pair(l).move => k = l
    BY <1>1 DEF Disjoint, Shares
  <2> QED  BY <2>1, <1>3
<1>5. terms = {to[l] : l \in Lines}
  <2>1. ASSUME NEW m \in terms PROVE \E l \in Lines : m = to[l]
    <3>1. m \in Movements /\ m.realized /\ m.day \in FirstDay .. LastDay
      BY <1>2 DEF Counts
    <3>2. m \notin Left
      BY <3>1
    <3>3. PICK p \in pairs : p.move = m
      BY <3>1, <3>2 DEF Left
    <3>4. p.line \in Lines
      BY <3>3 DEF Eligible
    <3>5. p = pair(p.line)
      BY <1>1, <3>4 DEF Disjoint, Shares
    <3> QED  BY <3>3, <3>4, <3>5
  <2>2. \A l \in Lines : to[l] \in terms
    BY <1>4
  <2> HIDE DEF terms, to
  <2> QED  BY <2>1, <2>2
<1>6. \A l \in Lines : byLine[l] - byMove[to[l]] \in -Tolerance .. Tolerance
  <2> SUFFICES ASSUME NEW l \in Lines PROVE byLine[l] - byMove[to[l]] \in -Tolerance .. Tolerance
    OBVIOUS
  <2>1. byLine[l] = Line(l).amount /\ byMove[to[l]] = pair(l).move.amount
    BY <1>3
  <2>2. Line(l).amount \in Int /\ pair(l).move.amount \in Int /\ Tolerance \in Nat
    BY <1>1, <1>2, DaysOfTheStatement, MatchingConstants
  <2>3. Distance(Line(l).amount, pair(l).move.amount) <= Tolerance
    BY <1>1 DEF Off
  <2> HIDE DEF byLine, byMove, to
  <2> QED  BY <2>1, <2>2, <2>3 DEF Distance
<1>7. byLine \in [Lines -> Int] /\ byMove \in [terms -> Int]
  BY <1>2, DaysOfTheStatement
<1>8. IsFiniteSet(Lines) /\ IsFiniteSet(terms) /\ Tolerance \in Nat
  <2>1. terms \in SUBSET input.rows
    BY DEF Movements, Read
  <2> QED  BY <2>1, MatchingConstants, FS_Subset
<1>9. PICK F, G : /\ IsSum(F, byLine, Lines) /\ IsSum(G, byMove, terms)
                  /\ Difference = F[Lines] - G[terms]
  BY SumsOfTheModel
<1> HIDE DEF terms, byLine, byMove, to
<1>10. \A U \in SUBSET Lines :
         F[U] - G[{to[l] : l \in U}] \in -(Tolerance * Cardinality(U)) .. Tolerance * Cardinality(U)
  BY <1>4, <1>6, <1>7, <1>8, <1>9, PairedSums
<1>11. Lines \in SUBSET Lines
  OBVIOUS
<1> QED  BY <1>5, <1>9, <1>10, <1>11

\* A statement whose lines are all conciliated by movements that happened, and whose days
\* have no other such movement, balances to a cent per line: the sums of compute_balances
\* are of terms paired one to one, whatever their number.
THEOREM ConciliatedIsBalanced == Spec => []ConciliatedMeansBalanced
<1>1. MatchInv => ConciliatedMeansBalanced
  <2> SUFFICES ASSUME MatchInv, result # None, ~ByLot,
                      \A l \in Lines : result.situation[l] = "conciliado",
                      \A p \in pairs : p.move.realized,
                      \A m \in result.entries : m.realized => m.day \notin FirstDay..LastDay
               PROVE  Distance(result.difference, 0) <= Tolerance * Cardinality(Lines)
    BY DEF ConciliatedMeansBalanced
  <2>1. /\ result.situation = [l \in Lines |-> Situation(l)]
        /\ result.entries = Left /\ result.difference = Difference
    BY DEF MatchInv, ResultOfPairs
  <2>2. \A l \in Lines : Situation(l) = "conciliado"
    BY <2>1
  <2>3. \A m \in Left : m.realized => m.day \notin FirstDay..LastDay
    BY <2>1
  <2>4. input \in Inputs /\ pairs \subseteq Eligible /\ Disjoint
    BY DEF MatchInv
  <2>5. Difference \in -(Tolerance * Cardinality(Lines)) .. Tolerance * Cardinality(Lines)
    BY <2>2, <2>3, <2>4, BalancedByPairs
  <2>6. Tolerance * Cardinality(Lines) \in Nat
    BY MatchingConstants, FS_CardinalityType
  <2> QED  BY <2>1, <2>5, <2>6 DEF Distance
<1> QED  BY MatchInvariant, <1>1, PTL
===============================================================================
