----------------------------- MODULE Review_proofs -----------------------------
(***************************************************************************)
(* Proofs about Review, for any lines, entries, anomalies and requests:    *)
(* links are one to one and agree with situations, and where the counters  *)
(* may be wrong is exactly known.                                          *)
(***************************************************************************)
EXTENDS Review, FiniteSetTheorems, TLAPS

PCs == {"idle", "read", "patch", "create", "resolve", "posting", "recount"}

Rows == [situation : Situations, link : OmieIds \cup {NoId}]
Writes == [situation : Situations \cup {Same}, link : OmieIds \cup {NoId, Same}]
Tallies == {c \in Counts : c.conciliated + c.semOmie <= Cardinality(Lines)}

Request == [pc : PCs, line : Marks \cup {NoLine}, write : Writes, named : BOOLEAN,
            counted : Tallies, behind : BOOLEAN]

OnLine(rec) == rec.pc \in {"read", "patch"}

Shapes ==
  /\ row \in [Lines -> Rows]
  /\ omieRows \subseteq OmieIds
  /\ anomalies \subseteq Marks
  /\ status \in {"processing", "reviewing", "error"}
  /\ counters \in Tallies
  /\ request \in [Requests -> Request]
  /\ mixed \subseteq Lines /\ named \subseteq Lines
  /\ \A r \in Requests :
       /\ OnLine(request[r]) => request[r].line \in Lines
       /\ At(r, "create") => request[r].line \in Marks
       /\ At(r, "resolve") => request[r].line \in anomalies

\* Row locks: one uncommitted patch of a line.
OneWriter ==
  \A q, r \in Requests : At(q, "patch") /\ At(r, "patch") /\ request[q].line = request[r].line => q = r

\* The links that are being written are nobody's, nor about to be.
LinksFree ==
  \A r \in Requests : At(r, "patch") /\ request[r].write.link \in OmieIds =>
    /\ \A m \in Lines : m # request[r].line => row[m].link # request[r].write.link
    /\ \A q \in Requests : At(q, "patch") /\ q # r => request[q].write.link # request[r].write.link

Links == OneWriter /\ LinksFree /\ OneLinePerEntry

\* Two that have one line at once are in the history; a lone one that leaves the situation to
\* the code leaves an agreeing row.
Agrees(new) == new.situation # "ignorado" => (new.situation \in Conciliated <=> new.link # NoId)

Alone ==
  \A q, r \in Requests :
    q # r /\ OnLine(request[q]) /\ OnLine(request[r]) /\ request[q].line = request[r].line
      => request[r].line \in mixed

WillAgree ==
  \A r \in Requests : OnLine(request[r]) /\ request[r].line \notin mixed /\ ~request[r].named
    => Agrees(Updated(request[r].line, request[r].write))

Agreement == Alone /\ WillAgree /\ LinkMeansConciliated

\* What a request that is not behind has counted is what will be there after its commit.
CountIsTrue(rec) == ~rec.behind =>
  /\ rec.pc = "patch" =>
       rec.counted = Derived([row EXCEPT ![rec.line] = Updated(rec.line, rec.write)], anomalies)
  /\ rec.pc = "create" => rec.counted = Derived(row, anomalies \cup {rec.line})
  /\ rec.pc \in {"resolve", "recount"} => rec.counted = Derived(row, anomalies)

\* A run that nobody has interfered with lands on what the reset left.
CleanRun ==
  status = "processing" /\ lapse = {} => row = [l \in Lines |-> Parsed] /\ anomalies = {}

Counting == CleanRun /\ CountersOfTheRows /\ \A r \in Requests : CountIsTrue(request[r])

Inv == Shapes /\ Links /\ Agreement /\ Counting

-------------------------------------------------------------------------------
(* Counting.                                                                *)

LEMMA MarksFinite ==
  /\ IsFiniteSet(Marks) /\ Cardinality(Marks) \in Nat /\ Cardinality(Lines) \in Nat
  /\ \A S \in SUBSET Marks : IsFiniteSet(S) /\ Cardinality(S) \in 0 .. Cardinality(Marks)
<1>1. IsFiniteSet(Lines \cup OmieIds)
  BY ReviewConstants, FS_Union
<1>2. IsFiniteSet(Marks)
  BY <1>1, ReviewConstants, FS_Union DEF Marks
<1>3. Cardinality(Marks) \in Nat /\ Cardinality(Lines) \in Nat
  BY <1>2, ReviewConstants, FS_CardinalityType
<1>4. ASSUME NEW S \in SUBSET Marks
      PROVE  IsFiniteSet(S) /\ Cardinality(S) \in 0 .. Cardinality(Marks)
  <2>1. IsFiniteSet(S) /\ Cardinality(S) <= Cardinality(Marks)
    BY <1>2, FS_Subset
  <2>2. Cardinality(S) \in Nat
    BY <2>1, FS_CardinalityType
  <2> QED  BY <1>3, <2>1, <2>2
<1> QED  BY <1>2, <1>3, <1>4

\* Disjoint sets of lines, of entries and of marks make a tally.
LEMMA Tally ==
  ASSUME NEW A \in SUBSET Lines, NEW B \in SUBSET Lines, A \cap B = {},
         NEW C \in SUBSET OmieIds, NEW D \in SUBSET Marks
  PROVE  [conciliated |-> Cardinality(A), semOmie |-> Cardinality(B),
          omie |-> Cardinality(C), anomaly |-> Cardinality(D)] \in Tallies
<1>1. /\ A \in SUBSET Marks /\ B \in SUBSET Marks /\ C \in SUBSET Marks
  BY DEF Marks
<1>2. /\ Cardinality(A) \in 0 .. Cardinality(Marks) /\ Cardinality(B) \in 0 .. Cardinality(Marks)
      /\ Cardinality(C) \in 0 .. Cardinality(Marks) /\ Cardinality(D) \in 0 .. Cardinality(Marks)
      /\ IsFiniteSet(A) /\ IsFiniteSet(B)
  BY <1>1, MarksFinite
<1>3. Cardinality(A) + Cardinality(B) <= Cardinality(Lines)
  <2>1. Cardinality(A \cup B) = Cardinality(A) + Cardinality(B) - Cardinality(A \cap B)
    BY <1>2, FS_Union
  <2>2. Cardinality(A \cap B) = 0
    BY FS_EmptySet
  <2>3. Cardinality(A \cup B) <= Cardinality(Lines)
    BY ReviewConstants, FS_Subset
  <2>4. Cardinality(A) \in Nat /\ Cardinality(B) \in Nat /\ Cardinality(Lines) \in Nat
    BY <1>2, MarksFinite
  <2> QED  BY <2>1, <2>2, <2>3, <2>4
<1> QED  BY <1>2, <1>3 DEF Tallies, Counts

LEMMA DerivedTally ==
  ASSUME omieRows \subseteq OmieIds, NEW rows, NEW marks \in SUBSET Marks
  PROVE  Derived(rows, marks) \in Tallies
<1> DEFINE A == {l \in Lines : rows[l].situation \in Conciliated}
           B == {l \in Lines : rows[l].situation = "sem_omie"}
<1>1. A \in SUBSET Lines /\ B \in SUBSET Lines /\ A \cap B = {}
  BY DEF Conciliated
<1>2. Derived(rows, marks) = [conciliated |-> Cardinality(A), semOmie |-> Cardinality(B),
                              omie |-> Cardinality(omieRows), anomaly |-> Cardinality(marks)]
  BY DEF Derived
<1> HIDE DEF A, B
<1> QED  BY <1>1, <1>2, Tally

LEMMA ZeroTally == Zero \in Tallies
<1>1. [conciliated |-> Cardinality({}), semOmie |-> Cardinality({}),
       omie |-> Cardinality({}), anomaly |-> Cardinality({})] \in Tallies
  <2>1. {} \in SUBSET Lines /\ {} \in SUBSET OmieIds /\ {} \in SUBSET Marks /\ {} \cap {} = {}
    OBVIOUS
  <2> QED  BY <2>1, Tally
<1> QED  BY <1>1, FS_EmptySet DEF Zero

LEMMA IdleIs ==
  /\ Idle \in Request /\ Idle.pc = "idle" /\ ~OnLine(Idle)
  /\ CountIsTrue(Idle)
<1>1. Untouched \in Writes
  BY DEF Untouched, Writes
<1>2. Idle \in Request /\ Idle.pc = "idle"
  BY <1>1, ZeroTally DEF Idle, Request, PCs
<1> QED  BY <1>2 DEF OnLine, CountIsTrue

LEMMA ParsedIs == Parsed \in Rows /\ Parsed.link = NoId /\ Agrees(Parsed)
                  /\ Parsed.situation = "sem_omie"
BY DEF Parsed, Rows, Situations, Agrees, Conciliated

LEMMA UpdatedType ==
  ASSUME Shapes, NEW l \in Lines, NEW write \in Writes
  PROVE  /\ Updated(l, write) \in Rows
         /\ write.link = Same => Updated(l, write).link = row[l].link
         /\ write.link # Same => Updated(l, write).link = write.link
         /\ [row EXCEPT ![l] = Updated(l, write)] \in [Lines -> Rows]
<1>1. row[l] \in Rows
  BY DEF Shapes
<1>2. /\ Updated(l, write) \in Rows
      /\ write.link = Same => Updated(l, write).link = row[l].link
      /\ write.link # Same => Updated(l, write).link = write.link
  BY <1>1 DEF Updated, Rows, Writes
<1> QED  BY <1>2 DEF Shapes

LEMMA InitInv == Init => Inv
<1> SUFFICES ASSUME Init PROVE Inv
  OBVIOUS
<1>1. \A r \in Requests : request[r] = Idle
  BY DEF Init
<1>2. Shapes
  <2>1. row \in [Lines -> Rows] /\ counters \in Tallies /\ request \in [Requests -> Request]
    BY ParsedIs, ZeroTally, IdleIs DEF Init
  <2> QED  BY <1>1, <2>1, IdleIs DEF Init, Shapes, At
<1>3. Links
  BY <1>1, IdleIs, ParsedIs DEF Init, Links, OneWriter, LinksFree, OneLinePerEntry, At
<1>4. Agreement
  BY <1>1, IdleIs, ParsedIs DEF Init, Agreement, Alone, WillAgree, LinkMeansConciliated, Agrees
<1>5. Counting
  BY <1>1, IdleIs DEF Init, Counting, CleanRun, CountersOfTheRows
<1> QED  BY <1>2, <1>3, <1>4, <1>5 DEF Inv

-------------------------------------------------------------------------------
(* Requests that read and recount.                                          *)

\* A step of one request that commits nothing.
LEMMA Quiet ==
  ASSUME Inv, NEW r \in Requests, NEW new \in Request,
         UNCHANGED <<row, omieRows, anomalies, status, counters, lapse, named>>,
         mixed \subseteq mixed', mixed' \subseteq Lines,
         request' = [request EXCEPT ![r] = new],
         OnLine(new) => new.line \in Lines,
         new.pc = "create" => new.line \in Marks,
         new.pc = "resolve" => new.line \in anomalies,
         new.pc = "patch" => \A q \in Requests : q # r /\ At(q, "patch") => request[q].line # new.line,
         new.pc = "patch" /\ new.write.link \in OmieIds =>
            /\ \A m \in Lines : m # new.line => row[m].link # new.write.link
            /\ \A q \in Requests : q # r /\ At(q, "patch") => request[q].write.link # new.write.link,
         OnLine(new) => \A q \in Requests :
            q # r /\ OnLine(request[q]) /\ request[q].line = new.line => new.line \in mixed',
         OnLine(new) /\ new.line \notin mixed' /\ ~new.named => Agrees(Updated(new.line, new.write)),
         CountIsTrue(new)
  PROVE  Inv'
<1>1. request'[r] = new /\ \A q \in Requests : q # r => request'[q] = request[q]
  BY DEF Inv, Shapes
<1>2. Shapes'
  <2>1. request' \in [Requests -> Request]
    BY DEF Inv, Shapes
  <2> QED  BY <1>1, <2>1 DEF Inv, Shapes, OnLine, At
<1>3. Links'
  BY <1>1 DEF Inv, Links, OneWriter, LinksFree, OneLinePerEntry, At
<1>4. Agreement'
  <2>1. Alone'
    BY <1>1 DEF Inv, Agreement, Alone, OnLine
  <2>2. WillAgree'
    <3>1. ASSUME NEW q \in Requests, OnLine(request'[q]), request'[q].line \notin mixed',
                 ~request'[q].named
          PROVE  Agrees(Updated(request'[q].line, request'[q].write))
      <4>1. CASE q = r
        BY <1>1, <3>1, <4>1
      <4>2. CASE q # r
        <5>1. request'[q] = request[q] /\ request[q].line \notin mixed
          BY <1>1, <3>1, <4>2
        <5> QED  BY <3>1, <5>1 DEF Inv, Agreement, WillAgree
      <4> QED  BY <4>1, <4>2
    <3> QED  BY <3>1 DEF WillAgree, OnLine, Agrees, Updated
  <2>3. LinkMeansConciliated'
    BY DEF Inv, Agreement, LinkMeansConciliated
  <2> QED  BY <2>1, <2>2, <2>3 DEF Agreement
<1>5. Counting'
  <2>1. CleanRun' /\ CountersOfTheRows'
    BY DEF Inv, Counting, CleanRun, CountersOfTheRows, Derived
  <2>2. ASSUME NEW q \in Requests PROVE CountIsTrue(request[q])'
    <3>1. CountIsTrue(request'[q])
      BY <1>1 DEF Inv, Counting
    <3> QED  BY <3>1 DEF CountIsTrue, Derived, Updated
  <2> QED  BY <2>1, <2>2 DEF Counting
<1> QED  BY <1>2, <1>3, <1>4, <1>5 DEF Inv

LEMMA AbortKeeps ==
  ASSUME Inv, NEW r \in Requests, End(r),
         UNCHANGED <<row, omieRows, anomalies, status, counters, lapse, mixed, named>>
  PROVE  Inv'
<1>1. mixed' = mixed /\ mixed \subseteq Lines
  BY DEF Inv, Shapes
<1> QED  BY <1>1, IdleIs, Quiet DEF End

\* A body that leaves the situation out makes it follow the link.
LEMMA PatchedIs ==
  ASSUME NEW was \in Rows, NEW body \in Asked
  PROVE  /\ Patched(was, body) \in Rows
         /\ body.situation = Same => Agrees(Patched(was, body))
<1>1. body \in Bodies /\ body # Untouched
  BY ReviewConstants DEF Bodies
<1>2. Patched(was, body) \in Rows
  BY <1>1, ReviewConstants DEF Bodies, Rows, Patched, Situations
<1>3. ASSUME body.situation = Same PROVE Agrees(Patched(was, body))
  <2>1. body.link # Same
    BY <1>1, <1>3 DEF Bodies, Untouched
  <2>2. /\ Patched(was, body).link = body.link
        /\ Patched(was, body).situation = IF body.link = NoId THEN "sem_omie" ELSE "conciliado"
    BY <1>3, <2>1 DEF Patched
  <2> QED  BY <2>2 DEF Agrees, Conciliated
<1> QED  BY <1>2, <1>3

LEMMA PatchReadKeeps ==
  ASSUME Inv, NEW r \in Requests, PatchRead(r)
  PROVE  Inv'
<1>1. PICK l \in Lines, body \in Asked :
         /\ request' = [request EXCEPT ![r] =
              [Idle EXCEPT !.pc = "read", !.line = l, !.named = body.situation # Same,
                           !.write = Changed(row[l], Patched(row[l], body))]]
         /\ mixed' = IF \E q \in Requests : request[q].pc \in {"read", "patch"} /\ request[q].line = l
                     THEN mixed \cup {l} ELSE mixed
  BY DEF PatchRead
<1> DEFINE will == Patched(row[l], body)
           write == Changed(row[l], will)
           said == body.situation # Same
           new == [Idle EXCEPT !.pc = "read", !.line = l, !.named = said, !.write = write]
<1>3. request' = [request EXCEPT ![r] = new]
      /\ UNCHANGED <<row, omieRows, anomalies, status, counters, lapse, named>>
  BY <1>1 DEF PatchRead
<1>4. row[l] \in Rows
  BY DEF Inv, Shapes
<1>5. will \in Rows /\ (~said => Agrees(will)) /\ said \in BOOLEAN
  BY <1>4, PatchedIs
<1> HIDE DEF will, said
<1>6. write \in Writes
  BY <1>5 DEF Changed, Rows, Writes
<1>7. Updated(l, write) = will
  BY <1>4, <1>5, ReviewConstants DEF Updated, Changed, Rows
<1> HIDE DEF write
<1>8. /\ new \in Request /\ new.pc = "read" /\ new.line = l /\ new.write = write
      /\ new.named = said /\ OnLine(new)
  <2>1. l \in Marks
    BY DEF Marks
  <2> QED  BY <1>5, <1>6, <2>1, IdleIs DEF Idle, Request, PCs, OnLine
<1> HIDE DEF new
<1>9. mixed \subseteq mixed' /\ mixed' \subseteq Lines
  BY <1>1 DEF Inv, Shapes
<1>10. \A q \in Requests : q # r /\ OnLine(request[q]) /\ request[q].line = l => l \in mixed'
  BY <1>1 DEF OnLine
<1>11. CountIsTrue(new)
  BY <1>8 DEF CountIsTrue
<1> QED  BY <1>3, <1>5, <1>7, <1>8, <1>9, <1>10, <1>11, Quiet

LEMMA PatchFlushKeeps ==
  ASSUME Inv, NEW r \in Requests, PatchFlush(r)
  PROVE  Inv'
<1> DEFINE l == request[r].line
           write == request[r].write
           counted == Derived([row EXCEPT ![l] = Updated(l, write)], anomalies)
           new == [request[r] EXCEPT !.pc = "patch", !.counted = counted]
<1>1. /\ At(r, "read") /\ ~Locked(l)
      /\ UNCHANGED <<row, omieRows, anomalies, status, counters, lapse, mixed, named>>
  BY DEF PatchFlush
<1>2. CASE ~(write.link = Same \/ IndexAllows(l, write.link))
  BY <1>1, <1>2, AbortKeeps DEF PatchFlush
<1>3. CASE write.link = Same \/ IndexAllows(l, write.link)
  <2>1. request' = [request EXCEPT ![r] = new]
    BY <1>3 DEF PatchFlush
  <2>2. request[r] \in Request /\ l \in Lines /\ OnLine(request[r])
    BY <1>1 DEF Inv, Shapes, OnLine, At
  <2>3. counted \in Tallies
    BY DerivedTally DEF Inv, Shapes
  <2>4. counted = Derived([row EXCEPT ![l] = Updated(l, write)], anomalies)
    OBVIOUS
  <2> HIDE DEF counted
  <2>5. /\ new \in Request /\ new.pc = "patch" /\ new.line = l /\ new.write = write
        /\ new.named = request[r].named /\ new.counted = counted /\ OnLine(new)
    BY <2>2, <2>3 DEF Request, PCs, OnLine
  <2> HIDE DEF new
  <2>6. \A q \in Requests : q # r /\ At(q, "patch") => request[q].line # l
    BY <1>1 DEF Locked, At
  <2>7. write.link \in OmieIds =>
          /\ \A m \in Lines : m # l => row[m].link # write.link
          /\ \A q \in Requests : q # r /\ At(q, "patch") => request[q].write.link # write.link
    BY <1>3, <2>6, ReviewConstants DEF IndexAllows, Taken
  <2>8. \A q \in Requests : q # r /\ OnLine(request[q]) /\ request[q].line = l => l \in mixed'
    BY <1>1, <2>2 DEF Inv, Agreement, Alone
  <2>9. l \notin mixed' /\ ~request[r].named => Agrees(Updated(l, write))
    BY <1>1, <2>2 DEF Inv, Agreement, WillAgree
  <2>10. CountIsTrue(new)
    BY <2>4, <2>5 DEF CountIsTrue
  <2>11. mixed \subseteq mixed' /\ mixed' \subseteq Lines
    BY <1>1 DEF Inv, Shapes
  <2> HIDE DEF l, write
  <2>12. /\ new.line \in Lines
         /\ \A q \in Requests : q # r /\ At(q, "patch") => request[q].line # new.line
         /\ new.write.link \in OmieIds =>
              /\ \A m \in Lines : m # new.line => row[m].link # new.write.link
              /\ \A q \in Requests : q # r /\ At(q, "patch") => request[q].write.link # new.write.link
         /\ \A q \in Requests : q # r /\ OnLine(request[q]) /\ request[q].line = new.line => new.line \in mixed'
         /\ new.line \notin mixed' /\ ~new.named => Agrees(Updated(new.line, new.write))
    BY <2>2, <2>5, <2>6, <2>7, <2>8, <2>9
  <2> QED  BY <1>1, <2>1, <2>5, <2>10, <2>11, <2>12, Quiet
<1> QED  BY <1>2, <1>3

LEMMA CreateKeeps ==
  ASSUME Inv, NEW r \in Requests, Create(r)
  PROVE  Inv'
<1>1. PICK m \in Manual : request' = [request EXCEPT ![r] = [Idle EXCEPT !.pc = "create", !.line = m,
            !.counted = Derived(row, anomalies \cup {m})]]
  BY DEF Create
<1> DEFINE counted == Derived(row, anomalies \cup {m})
           new == [Idle EXCEPT !.pc = "create", !.line = m, !.counted = counted]
<1>2. UNCHANGED <<row, omieRows, anomalies, status, counters, lapse, mixed, named>>
      /\ request' = [request EXCEPT ![r] = new]
  BY <1>1 DEF Create
<1>3. m \in Marks
  BY DEF Marks
<1>4. counted \in Tallies
  <2>1. anomalies \cup {m} \in SUBSET Marks
    BY <1>3 DEF Inv, Shapes
  <2> QED  BY <2>1, DerivedTally DEF Inv, Shapes
<1>5. counted = Derived(row, anomalies \cup {m})
  OBVIOUS
<1> HIDE DEF counted
<1>6. new \in Request /\ new.pc = "create" /\ new.line = m /\ new.counted = counted
  BY <1>3, <1>4, IdleIs DEF Idle, Request, PCs
<1> HIDE DEF new
<1>7. ~OnLine(new) /\ CountIsTrue(new)
  BY <1>5, <1>6 DEF CountIsTrue, OnLine
<1>8. mixed \subseteq mixed' /\ mixed' \subseteq Lines
  BY <1>2 DEF Inv, Shapes
<1> QED  BY <1>2, <1>3, <1>6, <1>7, <1>8, Quiet

LEMMA ResolveKeeps ==
  ASSUME Inv, NEW r \in Requests, Resolve(r)
  PROVE  Inv'
<1>1. PICK m \in anomalies : request' = [request EXCEPT ![r] = [Idle EXCEPT !.pc = "resolve", !.line = m,
                                                         !.counted = Derived(row, anomalies)]]
  BY DEF Resolve
<1> DEFINE counted == Derived(row, anomalies)
           new == [Idle EXCEPT !.pc = "resolve", !.line = m, !.counted = counted]
<1>2. UNCHANGED <<row, omieRows, anomalies, status, counters, lapse, mixed, named>>
      /\ request' = [request EXCEPT ![r] = new]
  BY <1>1 DEF Resolve
<1>3. m \in Marks
  BY DEF Inv, Shapes
<1>4. counted \in Tallies
  BY DerivedTally DEF Inv, Shapes
<1>5. counted = Derived(row, anomalies)
  OBVIOUS
<1> HIDE DEF counted
<1>6. new \in Request /\ new.pc = "resolve" /\ new.line = m /\ new.counted = counted
  BY <1>3, <1>4, IdleIs DEF Idle, Request, PCs
<1> HIDE DEF new
<1>7. ~OnLine(new) /\ CountIsTrue(new)
  BY <1>5, <1>6 DEF CountIsTrue, OnLine
<1>8. mixed \subseteq mixed' /\ mixed' \subseteq Lines
  BY <1>2 DEF Inv, Shapes
<1> QED  BY <1>2, <1>3, <1>6, <1>7, <1>8, Quiet

LEMMA PostRecountKeeps ==
  ASSUME Inv, NEW r \in Requests, PostRecount(r)
  PROVE  Inv'
<1> DEFINE counted == Derived(row, anomalies)
           new == [request[r] EXCEPT !.pc = "recount", !.counted = counted]
<1>1. UNCHANGED <<row, omieRows, anomalies, status, counters, lapse, mixed, named>>
      /\ request' = [request EXCEPT ![r] = new]
  BY DEF PostRecount
<1>2. request[r] \in Request
  BY DEF Inv, Shapes
<1>3. counted \in Tallies
  BY DerivedTally DEF Inv, Shapes
<1>4. counted = Derived(row, anomalies)
  OBVIOUS
<1> HIDE DEF counted
<1>5. new \in Request /\ new.pc = "recount" /\ new.counted = counted
  BY <1>2, <1>3 DEF Request, PCs
<1> HIDE DEF new
<1>6. ~OnLine(new) /\ CountIsTrue(new)
  BY <1>4, <1>5 DEF CountIsTrue, OnLine
<1>7. mixed \subseteq mixed' /\ mixed' \subseteq Lines
  BY <1>1 DEF Inv, Shapes
<1> QED  BY <1>1, <1>5, <1>6, <1>7, Quiet

-------------------------------------------------------------------------------
(* Steps that change rows.                                                  *)

\* Whoever had a line keeps it as it was, or is done; nobody gets one.
KeepsOrDrops ==
  \A q \in Requests : OnLine(request'[q]) =>
    /\ request'[q].pc = request[q].pc
    /\ request'[q].line = request[q].line
    /\ request'[q].write = request[q].write
    /\ request'[q].named = request[q].named

LEMMA LinksAfter ==
  ASSUME Links, KeepsOrDrops, OneLinePerEntry',
         \A q \in Requests : request'[q].pc = "patch" /\ request[q].write.link \in OmieIds =>
           \A m \in Lines : m # request[q].line => row'[m].link # request[q].write.link
  PROVE  Links'
<1>1. \A q \in Requests : request'[q].pc = "patch" =>
        /\ request[q].pc = "patch" /\ request'[q].line = request[q].line
        /\ request'[q].write = request[q].write
  BY DEF KeepsOrDrops, OnLine
<1>2. OneWriter'
  BY <1>1 DEF Links, OneWriter, At
<1>3. LinksFree'
  BY <1>1 DEF Links, LinksFree, At
<1> QED  BY <1>2, <1>3 DEF Links

LEMMA AgreementAfter ==
  ASSUME Agreement, KeepsOrDrops, LinkMeansConciliated',
         \A q \in Requests : OnLine(request'[q]) /\ request[q].line \notin mixed' =>
           /\ request[q].line \notin mixed
           /\ row'[request[q].line] = row[request[q].line]
  PROVE  Agreement'
<1>1. Alone'
  BY DEF Agreement, KeepsOrDrops, Alone, OnLine
<1>2. WillAgree'
  <2>1. ASSUME NEW q \in Requests, OnLine(request'[q]), request'[q].line \notin mixed'
        PROVE  /\ OnLine(request[q]) /\ request[q].line \notin mixed
               /\ request'[q].line = request[q].line /\ request'[q].write = request[q].write
               /\ request'[q].named = request[q].named
               /\ row'[request[q].line] = row[request[q].line]
    BY <2>1 DEF KeepsOrDrops, OnLine
  <2>2. ASSUME NEW q \in Requests, OnLine(request'[q]), request'[q].line \notin mixed',
               ~request'[q].named
        PROVE  Agrees(Updated(request[q].line, request[q].write))
    BY <2>1, <2>2 DEF Agreement, WillAgree
  <2> QED  BY <2>1, <2>2 DEF WillAgree, OnLine, Agrees, Updated
<1> QED  BY <1>1, <1>2 DEF Agreement

\* The requests that are overtaken are in their place, and behind if they have counted.
LEMMA OvertakeIs ==
  ASSUME Shapes, NEW r \in Requests, NEW ended \in Request, ~OnLine(ended),
         request' = Overtake(r, ended), CountIsTrue(ended), ended.pc \notin {"create", "resolve"},
         anomalies \subseteq anomalies'
  PROVE  /\ request' \in [Requests -> Request]
         /\ KeepsOrDrops
         /\ request'[r] = ended
         /\ \A q \in Requests :
              /\ OnLine(request'[q]) => request'[q].line \in Lines
              /\ request'[q].pc = "create" => request'[q].line \in Marks
              /\ request'[q].pc = "resolve" => request'[q].line \in anomalies'
              /\ q # r /\ ~request'[q].behind =>
                   request'[q].pc \notin {"patch", "create", "resolve", "recount"}
<1>1. /\ request'[r] = ended
      /\ \A q \in Requests : q # r => request'[q] =
           IF request[q].pc \in {"patch", "create", "resolve", "recount"}
           THEN [request[q] EXCEPT !.behind = TRUE] ELSE request[q]
  BY DEF Overtake
<1>2. ASSUME NEW q \in Requests, q # r
      PROVE  /\ request'[q] \in Request
             /\ request'[q].pc = request[q].pc /\ request'[q].line = request[q].line
             /\ request'[q].write = request[q].write /\ request'[q].named = request[q].named
             /\ ~request'[q].behind => request'[q].pc \notin {"patch", "create", "resolve", "recount"}
  <2>1. request[q] \in Request
    BY DEF Shapes
  <2>2. CASE request[q].pc \in {"patch", "create", "resolve", "recount"}
    <3>1. request'[q] = [request[q] EXCEPT !.behind = TRUE]
      BY <1>1, <1>2, <2>2
    <3> QED  BY <2>1, <3>1 DEF Request
  <2>3. CASE request[q].pc \notin {"patch", "create", "resolve", "recount"}
    BY <1>1, <1>2, <2>1, <2>3
  <2> QED  BY <2>2, <2>3
<1>3. request' \in [Requests -> Request]
  <2>1. request' = [q \in Requests |-> request'[q]]
    BY DEF Overtake
  <2>2. \A q \in Requests : request'[q] \in Request
    BY <1>1, <1>2
  <2> QED  BY <2>1, <2>2
<1>4. KeepsOrDrops
  BY <1>1, <1>2 DEF KeepsOrDrops
<1>5. ASSUME NEW q \in Requests
      PROVE  /\ OnLine(request'[q]) => request'[q].line \in Lines
             /\ request'[q].pc = "create" => request'[q].line \in Marks
             /\ request'[q].pc = "resolve" => request'[q].line \in anomalies'
  <2>1. CASE q = r
    BY <1>1, <2>1
  <2>2. CASE q # r
    BY <1>2, <2>2 DEF Shapes, OnLine, At
  <2> QED  BY <2>1, <2>2
<1> QED  BY <1>1, <1>2, <1>3, <1>4, <1>5

\* The commit of whoever has counted: true counters, unless it is behind.
LEMMA CommitKeeps ==
  ASSUME Inv, NEW r \in Requests, Commit(r), UNCHANGED <<omieRows, status, mixed>>,
         named' \subseteq Lines, row' \in [Lines -> Rows], anomalies \subseteq anomalies', anomalies' \subseteq Marks,
         ~request[r].behind => request[r].counted = Derived(row, anomalies)',
         OneLinePerEntry', LinkMeansConciliated',
         \A q \in Requests : q # r /\ At(q, "patch") /\ request[q].write.link \in OmieIds =>
           \A m \in Lines : m # request[q].line => row'[m].link # request[q].write.link,
         \A q \in Requests : q # r /\ OnLine(request[q]) /\ request[q].line \notin mixed =>
           row'[request[q].line] = row[request[q].line]
  PROVE  Inv'
<1>1. /\ request' = Overtake(r, Idle)
      /\ counters' = request[r].counted
      /\ status = "processing" => lapse' # {}
      /\ request[r].behind => lapse' # {}
  BY DEF Commit, Materialised
<1>2. /\ request' \in [Requests -> Request]
      /\ KeepsOrDrops
      /\ request'[r] = Idle
      /\ \A q \in Requests :
           /\ OnLine(request'[q]) => request'[q].line \in Lines
           /\ request'[q].pc = "create" => request'[q].line \in Marks
           /\ request'[q].pc = "resolve" => request'[q].line \in anomalies'
           /\ q # r /\ ~request'[q].behind =>
                request'[q].pc \notin {"patch", "create", "resolve", "recount"}
  BY <1>1, OvertakeIs, IdleIs DEF Inv
<1>3. Shapes'
  <2>1. request[r] \in Request
    BY DEF Inv, Shapes
  <2>2. counters' \in Tallies
    BY <1>1, <2>1 DEF Request
  <2>3. Tallies' = Tallies
    BY DEF Tallies, Counts
  <2> QED  BY <1>2, <2>2 DEF Inv, Shapes, OnLine, At
<1>4. Links'
  <2>1. \A q \in Requests : request'[q].pc = "patch" => q # r /\ At(q, "patch")
    BY <1>2, IdleIs DEF KeepsOrDrops, OnLine, At
  <2> QED  BY <1>2, <2>1, LinksAfter DEF Inv
<1>5. Agreement'
  <2>1. \A q \in Requests : OnLine(request'[q]) => q # r /\ OnLine(request[q])
    BY <1>2, IdleIs DEF KeepsOrDrops, OnLine
  <2> QED  BY <1>2, <2>1, AgreementAfter DEF Inv
<1>6. Counting'
  <2>1. CleanRun' /\ CountersOfTheRows'
    BY <1>1 DEF CleanRun, CountersOfTheRows
  <2>2. \A q \in Requests : CountIsTrue(request[q])'
    BY <1>2, IdleIs DEF CountIsTrue, Idle
  <2> QED  BY <2>1, <2>2 DEF Counting
<1> QED  BY <1>3, <1>4, <1>5, <1>6 DEF Inv

LEMMA PatchCommitKeeps ==
  ASSUME Inv, NEW r \in Requests, PatchCommit(r)
  PROVE  Inv'
<1> DEFINE l == request[r].line
           write == request[r].write
           new == Updated(l, write)
<1>1. /\ At(r, "patch") /\ Commit(r)
      /\ row' = [row EXCEPT ![l] = new]
      /\ named' = IF request[r].named THEN named \cup {l} ELSE named \ {l}
      /\ UNCHANGED <<omieRows, anomalies, status, mixed>>
  BY DEF PatchCommit
<1>2. request[r] \in Request /\ OnLine(request[r]) /\ l \in Lines /\ row \in [Lines -> Rows]
  BY <1>1 DEF Inv, Shapes, At, OnLine
<1>3. write \in Writes
  BY <1>2 DEF Request
<1>4. /\ new \in Rows /\ row' \in [Lines -> Rows]
      /\ write.link = Same => new.link = row[l].link
      /\ write.link # Same => new.link = write.link
  BY <1>1, <1>2, <1>3, UpdatedType DEF Inv
<1>5. ~request[r].behind => request[r].counted = Derived(row, anomalies)'
  <2>1. ~request[r].behind => request[r].counted = Derived([row EXCEPT ![l] = new], anomalies)
    BY <1>1 DEF Inv, Counting, CountIsTrue, At
  <2>2. Derived(row, anomalies)' = Derived([row EXCEPT ![l] = new], anomalies)
    BY <1>1 DEF Derived
  <2> QED  BY <2>1, <2>2
<1>6. l \notin mixed /\ ~request[r].named => Agrees(new)
  BY <1>2 DEF Inv, Agreement, WillAgree
<1> HIDE DEF new
<1>7. row'[l] = new /\ \A m \in Lines : m # l => row'[m] = row[m]
  BY <1>1, <1>2
<1>8. write.link \in OmieIds => \A m \in Lines : m # l => row[m].link # write.link
  BY <1>1 DEF Inv, Links, LinksFree
<1>9. OneLinePerEntry'
  <2>1. \A m \in Lines : m # l /\ row[m].link = new.link => new.link = NoId
    <3>1. CASE write.link = Same
      BY <1>2, <1>4, <3>1 DEF Inv, Links, OneLinePerEntry
    <3>2. CASE write.link # Same
      BY <1>3, <1>4, <1>8, <3>2 DEF Writes
    <3> QED  BY <3>1, <3>2
  <2> QED  BY <1>7, <2>1 DEF Inv, Links, OneLinePerEntry
<1>10. LinkMeansConciliated'
  BY <1>1, <1>6, <1>7 DEF Inv, Agreement, LinkMeansConciliated, Agrees
<1>11. ASSUME NEW q \in Requests, q # r, At(q, "patch"), request[q].write.link \in OmieIds,
              NEW m \in Lines, m # request[q].line
       PROVE  row'[m].link # request[q].write.link
  <2>1. row[m].link # request[q].write.link
    BY <1>11 DEF Inv, Links, LinksFree
  <2>2. CASE m # l
    BY <1>7, <2>1, <2>2
  <2>3. CASE m = l /\ write.link = Same
    BY <1>4, <1>7, <2>1, <2>3
  <2>4. CASE m = l /\ write.link # Same
    <3>1. request[r].write.link # request[q].write.link
      BY <1>1, <1>11 DEF Inv, Links, LinksFree
    <3> QED  BY <1>4, <1>7, <2>4, <3>1
  <2> QED  BY <2>2, <2>3, <2>4
<1>12. \A q \in Requests : q # r /\ OnLine(request[q]) /\ request[q].line \notin mixed =>
         row'[request[q].line] = row[request[q].line]
  <2>1. ASSUME NEW q \in Requests, q # r, OnLine(request[q]), request[q].line \notin mixed
        PROVE  request[q].line \in Lines /\ request[q].line # l
    BY <1>2, <2>1 DEF Inv, Shapes, Agreement, Alone
  <2> QED  BY <1>7, <2>1
<1>13. anomalies \subseteq anomalies' /\ anomalies' \subseteq Marks /\ named' \subseteq Lines
  BY <1>1, <1>2 DEF Inv, Shapes
<1> QED  BY <1>1, <1>4, <1>5, <1>9, <1>10, <1>11, <1>12, <1>13, CommitKeeps

\* A commit that changes no line.
LEMMA SameRowsKeep ==
  ASSUME Inv, NEW r \in Requests, Commit(r), UNCHANGED <<row, omieRows, status, mixed, named>>,
         anomalies \subseteq anomalies', anomalies' \subseteq Marks,
         ~request[r].behind => request[r].counted = Derived(row, anomalies)'
  PROVE  Inv'
<1>1. row' \in [Lines -> Rows] /\ named' \subseteq Lines
  BY DEF Inv, Shapes
<1>2. OneLinePerEntry' /\ LinkMeansConciliated'
  BY DEF Inv, Links, OneLinePerEntry, Agreement, LinkMeansConciliated
<1>3. \A q \in Requests : q # r /\ At(q, "patch") /\ request[q].write.link \in OmieIds =>
        \A m \in Lines : m # request[q].line => row'[m].link # request[q].write.link
  BY DEF Inv, Links, LinksFree
<1>4. \A q \in Requests : q # r /\ OnLine(request[q]) /\ request[q].line \notin mixed =>
        row'[request[q].line] = row[request[q].line]
  OBVIOUS
<1> QED  BY <1>1, <1>2, <1>3, <1>4, CommitKeeps

LEMMA OtherCommitsKeep ==
  ASSUME Inv, NEW r \in Requests, CreateCommit(r) \/ ResolveCommit(r) \/ PostCommit(r)
  PROVE  Inv'
<1>1. Commit(r) /\ UNCHANGED <<row, omieRows, status, mixed, named>>
  BY DEF CreateCommit, ResolveCommit, PostCommit
<1>2. CASE CreateCommit(r)
  <2>1. At(r, "create") /\ anomalies' = anomalies \cup {request[r].line}
    BY <1>2 DEF CreateCommit
  <2>2. anomalies \subseteq anomalies' /\ anomalies' \subseteq Marks
    BY <2>1 DEF Inv, Shapes
  <2>3. ~request[r].behind => request[r].counted = Derived(row, anomalies)'
    <3>1. ~request[r].behind => request[r].counted = Derived(row, anomalies \cup {request[r].line})
      BY <2>1 DEF Inv, Counting, CountIsTrue, At
    <3> QED  BY <1>1, <2>1, <3>1 DEF Derived
  <2> QED  BY <1>1, <2>2, <2>3, SameRowsKeep
<1>3. CASE ResolveCommit(r) \/ PostCommit(r)
  <2>1. request[r].pc \in {"resolve", "recount"} /\ anomalies' = anomalies
    BY <1>3 DEF ResolveCommit, PostCommit, At
  <2>2. anomalies \subseteq anomalies' /\ anomalies' \subseteq Marks
    BY <2>1 DEF Inv, Shapes
  <2>3. ~request[r].behind => request[r].counted = Derived(row, anomalies)'
    <3>1. ~request[r].behind => request[r].counted = Derived(row, anomalies)
      BY <2>1 DEF Inv, Counting, CountIsTrue
    <3> QED  BY <1>1, <2>1, <3>1 DEF Derived
  <2> QED  BY <1>1, <2>2, <2>3, SameRowsKeep
<1> QED  BY <1>2, <1>3

LEMMA PostConfirmKeeps ==
  ASSUME Inv, NEW r \in Requests, PostConfirm(r)
  PROVE  Inv'
<1> DEFINE ended == [Idle EXCEPT !.pc = "posting"]
<1>1. PICK l \in Lines, id \in OmieIds :
        /\ ~Locked(l) /\ IndexAllows(l, id)
        /\ row' = [row EXCEPT ![l] = [situation |-> "conciliado", link |-> id]]
        /\ request' = Overtake(r, ended)
        /\ mixed' = IF l \in BeingRead THEN mixed \cup {l} ELSE mixed \ {l}
        /\ named' = named \ {l}
  BY DEF PostConfirm
<1>2. /\ request[r].pc \in {"idle", "posting"}
      /\ lapse' # {}
      /\ UNCHANGED <<omieRows, anomalies, status, counters>>
  BY DEF PostConfirm
<1>3. ended \in Request /\ ended.pc = "posting" /\ ~OnLine(ended) /\ CountIsTrue(ended)
  BY IdleIs DEF Idle, Request, PCs, OnLine, CountIsTrue
<1> HIDE DEF ended
<1>4. /\ request' \in [Requests -> Request]
      /\ KeepsOrDrops
      /\ request'[r] = ended
      /\ \A q \in Requests :
           /\ OnLine(request'[q]) => request'[q].line \in Lines
           /\ request'[q].pc = "create" => request'[q].line \in Marks
           /\ request'[q].pc = "resolve" => request'[q].line \in anomalies'
           /\ q # r /\ ~request'[q].behind =>
                request'[q].pc \notin {"patch", "create", "resolve", "recount"}
  BY <1>1, <1>2, <1>3, OvertakeIs DEF Inv
<1>5. mixed' \subseteq Lines /\ named' \subseteq Lines
  BY <1>1 DEF Inv, Shapes
<1>6. row \in [Lines -> Rows]
  BY DEF Inv, Shapes
<1>7. /\ row' \in [Lines -> Rows]
      /\ row'[l].situation = "conciliado" /\ row'[l].link = id
      /\ \A m \in Lines : m # l => row'[m] = row[m]
  BY <1>1, <1>6 DEF Rows, Situations
<1>8. id # NoId /\ \A m \in Lines : m # l => row[m].link # id
  BY <1>1, ReviewConstants DEF IndexAllows, Taken
<1>9. Shapes'
  <2>1. Tallies' = Tallies
    BY DEF Tallies, Counts
  <2> QED  BY <1>2, <1>4, <1>5, <1>7, <2>1 DEF Inv, Shapes, OnLine, At
<1>10. Links'
  <2>1. OneLinePerEntry'
    BY <1>7, <1>8 DEF Inv, Links, OneLinePerEntry
  <2>2. ASSUME NEW q \in Requests, request'[q].pc = "patch", request[q].write.link \in OmieIds,
               NEW m \in Lines, m # request[q].line
        PROVE  row'[m].link # request[q].write.link
    <3>1. At(q, "patch")
      BY <1>4, <2>2 DEF KeepsOrDrops, OnLine, At
    <3>2. CASE m # l
      BY <1>7, <2>2, <3>1, <3>2 DEF Inv, Links, LinksFree
    <3>3. CASE m = l
      BY <1>1, <1>7, <1>8, <2>2, <3>1, <3>3 DEF IndexAllows
    <3> QED  BY <3>2, <3>3
  <2> QED  BY <1>4, <2>1, <2>2, LinksAfter DEF Inv
<1>11. Agreement'
  <2>1. LinkMeansConciliated'
    BY <1>1, <1>7, <1>8 DEF Inv, Agreement, LinkMeansConciliated, Conciliated
  <2>2. ASSUME NEW q \in Requests, OnLine(request'[q]), request[q].line \notin mixed'
        PROVE  /\ request[q].line \notin mixed
               /\ row'[request[q].line] = row[request[q].line]
    <3>1. OnLine(request[q]) /\ request[q].line \in Lines
      BY <1>4, <2>2 DEF KeepsOrDrops, OnLine
    <3>2. request[q].line # l
      BY <1>1, <2>2, <3>1 DEF Locked, BeingRead, At, OnLine
    <3> QED  BY <1>1, <1>7, <2>2, <3>1, <3>2
  <2> QED  BY <1>4, <2>1, <2>2, AgreementAfter DEF Inv
<1>12. Counting'
  <2>1. CleanRun' /\ CountersOfTheRows'
    BY <1>2 DEF CleanRun, CountersOfTheRows
  <2>2. \A q \in Requests : CountIsTrue(request[q])'
    BY <1>3, <1>4 DEF CountIsTrue
  <2> QED  BY <2>1, <2>2 DEF Counting
<1> QED  BY <1>9, <1>10, <1>11, <1>12 DEF Inv

-------------------------------------------------------------------------------
(* The run.                                                                 *)

\* The requests in progress are there, some of them behind.
LEMMA BehindIs ==
  ASSUME Shapes, NEW pcs,
         request' = [r \in Requests |->
           IF request[r].pc \in pcs THEN [request[r] EXCEPT !.behind = TRUE] ELSE request[r]]
  PROVE  /\ request' \in [Requests -> Request]
         /\ KeepsOrDrops
         /\ \A q \in Requests :
              /\ request'[q].pc = request[q].pc /\ request'[q].line = request[q].line
              /\ ~request'[q].behind => request'[q].pc \notin pcs
<1>1. ASSUME NEW q \in Requests
      PROVE  /\ request'[q] \in Request
             /\ request'[q].pc = request[q].pc /\ request'[q].line = request[q].line
             /\ request'[q].write = request[q].write /\ request'[q].named = request[q].named
             /\ ~request'[q].behind => request'[q].pc \notin pcs
  <2>1. request[q] \in Request
    BY DEF Shapes
  <2>2. request'[q] = IF request[q].pc \in pcs THEN [request[q] EXCEPT !.behind = TRUE] ELSE request[q]
    OBVIOUS
  <2>3. CASE request[q].pc \in pcs
    <3>1. request'[q] = [request[q] EXCEPT !.behind = TRUE]
      BY <2>2, <2>3
    <3> QED  BY <2>1, <2>3, <3>1 DEF Request
  <2>4. CASE request[q].pc \notin pcs
    BY <2>1, <2>2, <2>4
  <2> QED  BY <2>3, <2>4
<1>2. request' \in [Requests -> Request]
  <2>1. request' = [q \in Requests |-> request'[q]]
    OBVIOUS
  <2> QED  BY <1>1, <2>1
<1> QED  BY <1>1, <1>2 DEF KeepsOrDrops

LEMMA ResetKeeps ==
  ASSUME Inv, Reset
  PROVE  Inv'
<1>1. /\ \A l \in Lines : ~Locked(l)
      /\ \A m \in Marks : m \in anomalies => ~MarkLocked(m)
      /\ row' = [l \in Lines |-> Parsed]
      /\ omieRows' = {} /\ anomalies' = {} /\ status' = "processing"
      /\ counters' = Zero /\ lapse' = {} /\ named' = {}
      /\ mixed' = BeingRead
      /\ request' = [r \in Requests |->
           IF request[r].pc \in {"create", "recount"} THEN [request[r] EXCEPT !.behind = TRUE] ELSE request[r]]
  BY DEF Reset
<1>2. /\ request' \in [Requests -> Request]
      /\ KeepsOrDrops
      /\ \A q \in Requests :
           /\ request'[q].pc = request[q].pc /\ request'[q].line = request[q].line
           /\ ~request'[q].behind => request'[q].pc \notin {"create", "recount"}
  BY <1>1, BehindIs DEF Inv
<1>3. \A q \in Requests : request[q].pc \notin {"patch", "resolve"}
  <2>1. ASSUME NEW q \in Requests PROVE ~At(q, "patch")
    BY <1>1 DEF Inv, Shapes, OnLine, At, Locked
  <2>2. ASSUME NEW q \in Requests PROVE ~At(q, "resolve")
    BY <1>1 DEF Inv, Shapes, At, MarkLocked
  <2> QED  BY <2>1, <2>2 DEF At
<1>4. \A l \in Lines : row'[l] = Parsed
  BY <1>1
<1>5. mixed' \subseteq Lines /\ named' \subseteq Lines
  BY <1>1 DEF Inv, Shapes, OnLine, At, BeingRead
<1>6. Shapes'
  <2>1. Tallies' = Tallies
    BY DEF Tallies, Counts
  <2>2. row' \in [Lines -> Rows]
    BY <1>1, ParsedIs
  <2> QED  BY <1>1, <1>2, <1>3, <1>5, <2>1, <2>2, ZeroTally DEF Inv, Shapes, OnLine, At
<1>7. Links'
  <2>1. OneLinePerEntry'
    BY <1>4, ParsedIs DEF OneLinePerEntry
  <2> QED  BY <1>2, <1>3, <2>1, LinksAfter DEF Inv
<1>8. Agreement'
  <2>1. LinkMeansConciliated'
    BY <1>4, ParsedIs DEF LinkMeansConciliated, Conciliated
  <2>2. \A q \in Requests : OnLine(request'[q]) => request[q].line \in mixed'
    BY <1>1, <1>2, <1>3 DEF OnLine, At, BeingRead
  <2> QED  BY <1>2, <2>1, <2>2, AgreementAfter DEF Inv
<1>9. Counting'
  <2>1. CleanRun' /\ CountersOfTheRows'
    BY <1>1 DEF CleanRun, CountersOfTheRows
  <2>2. \A q \in Requests : CountIsTrue(request[q])'
    BY <1>2, <1>3 DEF CountIsTrue
  <2> QED  BY <2>1, <2>2 DEF Counting
<1> QED  BY <1>6, <1>7, <1>8, <1>9 DEF Inv

LEMMA LandKeeps ==
  ASSUME Inv, Land
  PROVE  Inv'
<1>1. PICK matched \in SUBSET Lines, exact \in SUBSET Lines, link \in [Lines -> OmieIds] :
        LET rows == [l \in Lines |-> IF l \notin matched THEN row[l] ELSE
                       [situation |-> IF l \in exact THEN "conciliado" ELSE "divergente",
                        link |-> link[l]]]
            lone == OmieIds \ {link[l] : l \in matched}
            signalled == {l \in Lines : rows[l].situation = "sem_omie"} \cup (matched \ exact)
        IN /\ exact \subseteq matched
           /\ \A l \in matched : ~Locked(l)
           /\ \A l, m \in Lines : l # m /\ rows[l].link = rows[m].link => rows[l].link = NoId
           /\ \A l \in Lines : \A r \in Requests :
                At(r, "patch") => rows[l].link # request[r].write.link \/ rows[l].link = NoId
           /\ row' = rows
           /\ omieRows' = lone
           /\ anomalies' = anomalies \cup signalled \cup lone
           /\ counters' = [conciliated |-> Cardinality(matched),
                           semOmie     |-> Cardinality(Lines \ matched),
                           omie        |-> Cardinality(lone),
                           anomaly     |-> Cardinality(signalled \cup lone)]
           /\ mixed' = (mixed \ matched) \cup (BeingRead \cap matched)
           /\ named' = named \ matched
  BY DEF Land
<1> DEFINE lone == OmieIds \ {link[l] : l \in matched}
           signalled == {l \in Lines : row'[l].situation = "sem_omie"} \cup (matched \ exact)
<1>2. /\ exact \subseteq matched
      /\ \A l \in matched : ~Locked(l)
      /\ \A l, m \in Lines : l # m /\ row'[l].link = row'[m].link => row'[l].link = NoId
      /\ \A l \in Lines : \A r \in Requests :
           At(r, "patch") => row'[l].link # request[r].write.link \/ row'[l].link = NoId
      /\ row' = [l \in Lines |-> IF l \notin matched THEN row[l] ELSE
                  [situation |-> IF l \in exact THEN "conciliado" ELSE "divergente",
                   link |-> link[l]]]
      /\ mixed' = (mixed \ matched) \cup (BeingRead \cap matched)
      /\ named' = named \ matched
  BY <1>1
<1>3. /\ omieRows' = lone
      /\ anomalies' = anomalies \cup signalled \cup lone
      /\ counters' = [conciliated |-> Cardinality(matched),
                      semOmie     |-> Cardinality(Lines \ matched),
                      omie        |-> Cardinality(lone),
                      anomaly     |-> Cardinality(signalled \cup lone)]
  BY <1>1
<1>4. /\ status = "processing" /\ status' = "reviewing" /\ lapse' = lapse
      /\ request' = [r \in Requests |->
           IF request[r].pc \in {"patch", "create", "resolve", "recount"}
           THEN [request[r] EXCEPT !.behind = TRUE] ELSE request[r]]
  BY DEF Land
<1>5. /\ request' \in [Requests -> Request]
      /\ KeepsOrDrops
      /\ \A q \in Requests :
           /\ request'[q].pc = request[q].pc /\ request'[q].line = request[q].line
           /\ ~request'[q].behind => request'[q].pc \notin {"patch", "create", "resolve", "recount"}
  BY <1>4, BehindIs DEF Inv
<1>6. /\ \A l \in Lines \ matched : row'[l] = row[l]
      /\ \A l \in matched : /\ row'[l].situation \in Conciliated
                            /\ row'[l].link \in OmieIds
                            /\ row'[l] \in Rows
  <2>1. ASSUME NEW l \in matched
        PROVE  row'[l] = [situation |-> IF l \in exact THEN "conciliado" ELSE "divergente",
                          link |-> link[l]]
    BY <1>2
  <2> QED  BY <1>2, <2>1 DEF Rows, Situations, Conciliated
<1>7. row' \in [Lines -> Rows]
  <2>1. \A l \in Lines : row'[l] \in Rows
    BY <1>6 DEF Inv, Shapes
  <2>2. row' = [l \in Lines |-> row'[l]]
    BY <1>2
  <2> QED  BY <2>1, <2>2
<1>8. lone \subseteq OmieIds /\ signalled \subseteq Lines
  OBVIOUS
<1> HIDE DEF lone
<1>9. mixed' \subseteq Lines /\ named' \subseteq Lines
  BY <1>2 DEF Inv, Shapes
<1>10. Shapes'
  <2>1. counters' \in Tallies
    <3>1. /\ Lines \ matched \in SUBSET Lines /\ matched \cap (Lines \ matched) = {}
          /\ signalled \cup lone \in SUBSET Marks
      BY <1>8 DEF Marks
    <3> QED  BY <1>3, <1>8, <3>1, Tally
  <2>2. Tallies' = Tallies
    BY DEF Tallies, Counts
  <2>3. anomalies \subseteq anomalies' /\ anomalies' \subseteq Marks
    BY <1>3, <1>8 DEF Inv, Shapes, Marks
  <2> QED  BY <1>3, <1>4, <1>5, <1>7, <1>8, <1>9, <2>1, <2>2, <2>3 DEF Inv, Shapes, OnLine, At
<1>11. Links'
  <2>1. OneLinePerEntry'
    BY <1>2 DEF OneLinePerEntry
  <2>2. \A q \in Requests : request'[q].pc = "patch" /\ request[q].write.link \in OmieIds =>
          \A m \in Lines : m # request[q].line => row'[m].link # request[q].write.link
    BY <1>2, <1>5, ReviewConstants DEF At
  <2> QED  BY <1>5, <2>1, <2>2, LinksAfter DEF Inv
<1>12. Agreement'
  <2>1. LinkMeansConciliated'
    <3>1. SUFFICES ASSUME NEW l \in Lines, l \notin mixed', l \notin named',
                          row'[l].situation # "ignorado"
                   PROVE  row'[l].situation \in Conciliated <=> row'[l].link # NoId
      BY DEF LinkMeansConciliated
    <3>2. CASE l \in matched
      BY <1>6, <3>2, ReviewConstants
    <3>3. CASE l \notin matched
      <4>1. row'[l] = row[l] /\ l \notin mixed /\ l \notin named
        BY <1>2, <1>6, <3>1, <3>3
      <4> QED  BY <3>1, <4>1 DEF Inv, Agreement, LinkMeansConciliated
    <3> QED  BY <3>2, <3>3
  <2>2. ASSUME NEW q \in Requests, OnLine(request'[q]), request[q].line \notin mixed'
        PROVE  /\ request[q].line \notin mixed
               /\ row'[request[q].line] = row[request[q].line]
    <3>1. OnLine(request[q]) /\ request[q].line \in Lines
      BY <1>5, <2>2 DEF OnLine, Inv, Shapes
    <3>2. request[q].line \notin matched
      BY <1>2, <2>2, <3>1 DEF OnLine, At, Locked, BeingRead
    <3> QED  BY <1>2, <1>6, <2>2, <3>1, <3>2
  <2> QED  BY <1>5, <2>1, <2>2, AgreementAfter DEF Inv
<1>13. Counting'
  <2>1. CleanRun'
    BY <1>4 DEF CleanRun
  <2>2. CountersOfTheRows'
    <3>1. SUFFICES ASSUME lapse = {} PROVE counters' = Derived(row, anomalies)'
      BY <1>4 DEF CountersOfTheRows
    <3>2. row = [l \in Lines |-> Parsed] /\ anomalies = {}
      BY <1>4, <3>1 DEF Inv, Counting, CleanRun
    <3>3. \A l \in Lines \ matched : row'[l] = Parsed
      BY <1>6, <3>2
    <3>4. {l \in Lines : row'[l].situation \in Conciliated} = matched
      BY <1>6, <3>3, ParsedIs DEF Conciliated
    <3>5. {l \in Lines : row'[l].situation = "sem_omie"} = Lines \ matched
      BY <1>6, <3>3, ParsedIs DEF Conciliated
    <3>6. anomalies' = signalled \cup lone
      BY <1>3, <3>2
    <3> HIDE DEF signalled
    <3> QED  BY <1>3, <3>4, <3>5, <3>6 DEF Derived
  <2>3. \A q \in Requests : CountIsTrue(request[q])'
    BY <1>5 DEF CountIsTrue
  <2> QED  BY <2>1, <2>2, <2>3 DEF Counting
<1> QED  BY <1>10, <1>11, <1>12, <1>13 DEF Inv

\* A cancel, and steps that change nothing.
LEMMA CancelKeeps ==
  ASSUME Inv, Cancel \/ UNCHANGED vars
  PROVE  Inv'
<1>1. /\ UNCHANGED <<row, omieRows, anomalies, counters, request, lapse, mixed, named>>
      /\ status' = status \/ status' = "error"
  BY DEF Cancel, vars
<1>2. Shapes'
  <2>1. Tallies' = Tallies /\ Request' = Request
    BY DEF Tallies, Counts, Request
  <2> QED  BY <1>1, <2>1 DEF Inv, Shapes, OnLine, At
<1>3. Links'
  BY <1>1 DEF Inv, Links, OneWriter, LinksFree, OneLinePerEntry, At
<1>4. Agreement'
  BY <1>1 DEF Inv, Agreement, Alone, WillAgree, LinkMeansConciliated, OnLine, Agrees, Updated
<1>5. Counting'
  <2>1. CleanRun' /\ CountersOfTheRows'
    BY <1>1 DEF Inv, Counting, CleanRun, CountersOfTheRows, Derived
  <2>2. ASSUME NEW q \in Requests PROVE CountIsTrue(request[q])'
    <3>1. CountIsTrue(request'[q])
      BY <1>1 DEF Inv, Counting
    <3> QED  BY <1>1, <3>1 DEF CountIsTrue, Derived, Updated
  <2> QED  BY <2>1, <2>2 DEF Counting
<1> QED  BY <1>2, <1>3, <1>4, <1>5 DEF Inv

LEMMA NextKeeps == Inv /\ [Next]_vars => Inv'
<1> SUFFICES ASSUME Inv, [Next]_vars PROVE Inv'
  OBVIOUS
<1>1. CASE Reset
  BY <1>1, ResetKeeps
<1>2. CASE Land
  BY <1>2, LandKeeps
<1>3. CASE Cancel \/ UNCHANGED vars
  BY <1>3, CancelKeeps
<1>4. ASSUME NEW r \in Requests, RequestStep(r) PROVE Inv'
  <2>1. CASE PatchRead(r)
    BY <2>1, PatchReadKeeps
  <2>2. CASE PatchFlush(r)
    BY <2>2, PatchFlushKeeps
  <2>3. CASE PatchCommit(r)
    BY <2>3, PatchCommitKeeps
  <2>4. CASE Create(r)
    BY <2>4, CreateKeeps
  <2>5. CASE Resolve(r)
    BY <2>5, ResolveKeeps
  <2>6. CASE CreateCommit(r) \/ ResolveCommit(r) \/ PostCommit(r)
    BY <2>6, OtherCommitsKeep
  <2>7. CASE PostConfirm(r)
    BY <2>7, PostConfirmKeeps
  <2>8. CASE PostRecount(r)
    BY <2>8, PostRecountKeeps
  <2>9. CASE Abort(r)
    BY <2>9, AbortKeeps DEF Abort
  <2> QED  BY <1>4, <2>1, <2>2, <2>3, <2>4, <2>5, <2>6, <2>7, <2>8, <2>9 DEF RequestStep
<1> QED  BY <1>1, <1>2, <1>3, <1>4 DEF Next

-------------------------------------------------------------------------------
(* The theorems.                                                            *)

\* The invariant that the others rest on.
THEOREM ReviewInvariant == Spec => []Inv
<1>1. Init => Inv
  BY InitInv
<1>2. Inv /\ [Next]_vars => Inv'
  BY NextKeeps
<1> QED  BY <1>1, <1>2, PTL DEF Spec

\* Types; a patch in progress has a line; no line is counted twice.
THEOREM ReviewTypeCorrect == Spec => []TypeOK
<1>1. Inv => TypeOK
  BY DEF Inv, Shapes, Rows, Tallies, OnLine, TypeOK
<1> QED  BY <1>1, ReviewInvariant, PTL

\* Unless a recount was overtaken, a run was interfered with or a batch is still
\* posting, the counters that the list shows are those of the rows.
THEOREM CountersAreOfTheRows == Spec => []CountersOfTheRows
<1>1. Inv => CountersOfTheRows
  BY DEF Inv, Counting
<1> QED  BY <1>1, ReviewInvariant, PTL

\* However patches, batches and runs interleave, an entry closes one line.
THEOREM EntryClosesOneLine == Spec => []OneLinePerEntry
<1>1. Inv => OneLinePerEntry
  BY DEF Inv, Links
<1> QED  BY <1>1, ReviewInvariant, PTL

\* A line with one writer at a time is conciliated exactly when it is linked, however runs,
\* batches and patches follow one another, until a patch says the situation itself.
THEOREM LinksAgree == Spec => []LinkMeansConciliated
<1>1. Inv => LinkMeansConciliated
  BY DEF Inv, Agreement
<1> QED  BY <1>1, ReviewInvariant, PTL
===============================================================================
