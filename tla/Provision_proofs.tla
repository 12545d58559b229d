---------------------------- MODULE Provision_proofs ----------------------------
(***************************************************************************)
(* Proofs about Provision, for any lines, purchases, invoices, requests    *)
(* and caps: what a row says is what was sent, as long as one request at a *)
(* time has the line; what never depends on that; that no purchase has a   *)
(* title too many; and that the titles of a series keep their promise.     *)
(***************************************************************************)
EXTENDS Provision, FiniteSetTheorems, TLAPS

PCs == {"idle", "decide", "step", "after", "ask", "lanc", "post", "claim", "futures", "installment"}

Effect == {Title(k) : k \in Keys} \cup {Payment(l, k) : l \in Lines, k \in Keys}
            \cup {Lancamento(l) : l \in Lines}

Task == [pc : PCs, line : Lines \cup {NoLine}, seen : Row, post : Effect \cup {Nothing},
         key : Keys \cup {NoKey}, missed : BOOLEAN, todo : SUBSET Keys]

Installment == [there : BOOLEAN, done : BOOLEAN, attempts : 0 .. MaxAttempts,
                claimed : Lines \cup {NoLine}]

Types ==
  /\ posting \in [Lines -> Row]
  /\ series \in [Keys -> Installment]
  /\ omie \subseteq Effect /\ flying \subseteq Effect
  /\ task \in [Requests -> Task]
  /\ plan \in Plans
  /\ excuse \in [Lines -> SUBSET {"race", "retry", "order"}]

\* The title k answers for the line l.
Held(l, k) == (k = Own(l) \/ series[k].claimed = l) /\ Title(k) \in omie

\* What the row of a line says of what was sent, if no two requests had the line.
AloneFacts(l, row) ==
  /\ row.step \in {"fornecedor", "titulo"} => row.payable = NoKey /\ ~row.payment
  /\ row.payment => Payment(l, row.payable) \in omie
  /\ row.kind = "provisao" /\ row.status = "pending" => row.attempts <= MaxSends
  /\ row.kind = "direto" /\ row.attempts = 0 => ~row.fault
  /\ Title(Own(l)) \in Effects => row.kind = "provisao" /\ row.step # "fornecedor"
  /\ \A k \in Keys : Payment(l, k) \in Effects => row.step \in {"baixa", "concluido"} /\ row.payable = k

\* And, if nothing else befell it, what it says of the direct way.
SentDirect(row) == row.kind = "direto" /\ row.attempts # 0 /\ ~(row.attempts = 1 /\ row.fault)
CleanFacts(l, row) == Lancamento(l) \in Effects => SentDirect(row)

LineFacts(l, row) ==
  /\ row = NoRow \/ Coherent(row)
  /\ row.payable # NoKey => Held(l, row.payable)
  /\ Title(Own(l)) \in Effects => row.kind # "none"
  /\ \A k \in Keys : Payment(l, k) \in Effects => row.kind # "none" /\ Held(l, k)
  /\ Lancamento(l) \in Effects => row.kind # "none"
  /\ Alone(l) => AloneFacts(l, row)
  /\ Clean(l) => CleanFacts(l, row)

LineInv(l) == LineFacts(l, posting[l])

SeriesInv ==
  \A k \in Keys :
    /\ series[k].there => k[2] > Number[k[1]]
    /\ ~series[k].there => ~series[k].done /\ series[k].claimed = NoLine
    /\ series[k].done => Title(k) \in omie
    /\ Title(k) \in Effects => k = Own(k[1]) \/ series[k].there

\* Two requests that have one line have it in its history.
Single ==
  \A q, r \in Requests : q # r /\ Line(q) = Line(r) /\ Line(r) \in Lines => ~Alone(Line(r))

\* What the request knows of its line.
SeenFacts(r) ==
  /\ Seen(r).payable # NoKey => Held(Line(r), Seen(r).payable)
  /\ Seen(r).step \in {"baixa", "concluido"} => Seen(r).payable # NoKey
  /\ Seen(r).kind # "none" => posting[Line(r)].kind # "none"
  /\ task[r].pc \notin {"decide", "lanc"} => Seen(r).kind # "none"
  /\ Alone(Line(r)) => Seen(r) = posting[Line(r)]

\* What it is doing about it.
StepFacts(r) ==
  /\ task[r].pc \in {"step", "claim"} /\ Alone(Line(r)) =>
       (Seen(r).status = "pending" => Seen(r).attempts < MaxSends)
  /\ At(r, "claim") => Seen(r).step = "titulo" /\ task[r].key \in Keys
  /\ At(r, "ask") /\ Alone(Line(r)) => Seen(r).kind = "direto"
  /\ At(r, "lanc") /\ Alone(Line(r)) => Seen(r).kind # "provisao"
  /\ task[r].pc \in {"futures", "installment"} => \A k \in task[r].todo : series[k].there
  /\ At(r, "installment") =>
       task[r].key \in Keys /\ series[task[r].key].there /\ task[r].post = Title(task[r].key)

\* What it is posting.
PostFacts(r) ==
  At(r, "post") =>
    \/ task[r].post = Nothing /\ Seen(r).step = "fornecedor"
    \/ task[r].post = Title(Own(Line(r))) /\ Seen(r).step = "titulo"
    \/ task[r].post = Payment(Line(r), Seen(r).payable) /\ Seen(r).step = "baixa"
    \/ /\ task[r].post = Lancamento(Line(r))
       /\ Alone(Line(r)) => SentDirect(Seen(r))
       /\ Clean(Line(r)) /\ Lancamento(Line(r)) \in Effects => Seen(r).attempts # 1

TaskInv(r) ==
  ~At(r, "idle") => Line(r) \in Lines /\ SeenFacts(r) /\ StepFacts(r) /\ PostFacts(r)

Inv ==
  /\ Types /\ SeriesInv /\ Single
  /\ \A l \in Lines : LineInv(l)
  /\ \A r \in Requests : TaskInv(r)

\* NeverBack, of one line.
Forward(l) == posting[l].kind = "provisao" /\ "race" \notin excuse'[l] =>
  \/ /\ posting'[l].kind = "provisao"
     /\ Rank(posting'[l].step) >= Rank(posting[l].step)
     /\ posting[l].payable \in {NoKey, posting'[l].payable}
  \/ posting'[l].kind = "direto" /\ posting[l].step = "fornecedor" /\ Title(Own(l)) \notin Effects

Onward == Inv' /\ \A l \in Lines : Forward(l)

-------------------------------------------------------------------------------
(* Keys, effects and rows.                                                  *)

LEMMA KeysAre ==
  /\ \A l \in Lines : Own(l) \in Keys /\ Own(l)[1] = l /\ Own(l)[2] = Number[l]
  /\ \A l, m \in Lines : Own(l) = Own(m) => l = m
  /\ \A k \in Keys : k[1] \in Lines /\ k[2] \in Nat /\ Number[k[1]] \in Nat /\ k # NoKey
  /\ NoKey \notin Keys /\ NoLine \notin Lines
BY ProvisionConstants DEF Own, Keys

\* An effect says what it is and of which line: two of different lines are different.
LEMMA EffectsAre ==
  /\ \A j, k \in Keys : Title(j) = Title(k) => j = k
  /\ \A j, k : \A l, m \in Lines : Payment(l, j) = Payment(m, k) => l = m /\ j = k
  /\ \A l, m \in Lines : Lancamento(l) = Lancamento(m) => l = m
  /\ \A j, k : \A l, m \in Lines : Title(j) # Payment(l, k) /\ Title(j) # Lancamento(l)
                                  /\ Payment(l, j) # Lancamento(m)
  /\ \A k : \A l \in Lines : Title(k) # Nothing /\ Payment(l, k) # Nothing /\ Lancamento(l) # Nothing
  /\ \A k : Title(k).what = "title" /\ Title(k).key = k /\ Title(k).line = k[1]
  /\ \A l, k : Payment(l, k).what = "payment" /\ Payment(l, k).line = l /\ Payment(l, k).key = k
  /\ \A l : Lancamento(l).what = "lanc" /\ Lancamento(l).line = l
  /\ Nothing.what = "supplier"
  /\ \A l \in Lines, k \in Keys :
       Title(k) \in Effect /\ Payment(l, k) \in Effect /\ Lancamento(l) \in Effect
<1>1. \A k : Title(k).what = "title" /\ Title(k).key = k /\ Title(k).line = k[1]
  BY DEF Title
<1>2. \A l, k : Payment(l, k).what = "payment" /\ Payment(l, k).line = l /\ Payment(l, k).key = k
  BY DEF Payment
<1>3. \A l : Lancamento(l).what = "lanc" /\ Lancamento(l).line = l
  BY DEF Lancamento
<1>4. Nothing.what = "supplier"
  BY DEF Nothing
<1>5. \A l \in Lines, k \in Keys :
        Title(k) \in Effect /\ Payment(l, k) \in Effect /\ Lancamento(l) \in Effect
  BY DEF Effect
<1>6. ASSUME NEW j \in Keys, NEW k \in Keys, Title(j) = Title(k) PROVE j = k
  <2>1. Title(j).key = Title(k).key
    BY <1>6
  <2> QED  BY <2>1, <1>1
<1>7. ASSUME NEW l \in Lines, NEW m \in Lines, NEW j, NEW k, Payment(l, j) = Payment(m, k)
      PROVE  l = m /\ j = k
  <2>1. Payment(l, j).key = Payment(m, k).key /\ Payment(l, j).line = Payment(m, k).line
    BY <1>7
  <2> QED  BY <2>1, <1>2
<1>8. ASSUME NEW l \in Lines, NEW m \in Lines, Lancamento(l) = Lancamento(m) PROVE l = m
  <2>1. Lancamento(l).line = Lancamento(m).line
    BY <1>8
  <2> QED  BY <2>1, <1>3
<1>9. ASSUME NEW l \in Lines, NEW m \in Lines, NEW j, NEW k
      PROVE  Title(j) # Payment(l, k) /\ Title(j) # Lancamento(l) /\ Payment(l, j) # Lancamento(m)
  <2>1. /\ Title(j).what # Payment(l, k).what /\ Title(j).what # Lancamento(l).what
        /\ Payment(l, j).what # Lancamento(m).what
    BY <1>1, <1>2, <1>3
  <2> QED  BY <2>1
<1>10. ASSUME NEW l \in Lines, NEW k
       PROVE  Title(k) # Nothing /\ Payment(l, k) # Nothing /\ Lancamento(l) # Nothing
  <2>1. /\ Title(k).what # Nothing.what /\ Payment(l, k).what # Nothing.what
        /\ Lancamento(l).what # Nothing.what
    BY <1>1, <1>2, <1>3, <1>4
  <2> QED  BY <2>1
<1>11. \A j, k : \A l, m \in Lines : Payment(l, j) = Payment(m, k) => l = m /\ j = k
  BY <1>7
<1>12. \A j, k : \A l, m \in Lines : Title(j) # Payment(l, k) /\ Title(j) # Lancamento(l)
                                      /\ Payment(l, j) # Lancamento(m)
  BY <1>9
<1>13. \A k : \A l \in Lines : Title(k) # Nothing /\ Payment(l, k) # Nothing /\ Lancamento(l) # Nothing
  BY <1>10
<1> QED  BY <1>1, <1>2, <1>3, <1>4, <1>5, <1>6, <1>8, <1>11, <1>12, <1>13

LEMMA ZeroIs == 0 \in 0 .. MaxAttempts /\ 0 \in 0 .. MaxSends /\ MaxSends \in Nat /\ 0 < MaxSends
BY ProvisionConstants

LEMMA NoRowIs == NoRow \in Row /\ NoRow.kind = "none" /\ NoRow.payable = NoKey
                   /\ NoRow.step = "none" /\ NoRow.status = "none"
BY ZeroIs DEF NoRow, Row

LEMMA FreshIs ==
  ASSUME NEW kind \in {"provisao", "direto"}
  PROVE  /\ Fresh(kind) \in Row /\ Fresh(kind).kind = kind /\ Fresh(kind).status = "pending"
         /\ Fresh(kind).step = IF kind = "provisao" THEN "fornecedor" ELSE "none"
         /\ Fresh(kind).attempts = 0 /\ ~Fresh(kind).supplier /\ Fresh(kind).payable = NoKey
         /\ ~Fresh(kind).payment /\ ~Fresh(kind).fault /\ ~Fresh(kind).lanc
         /\ Coherent(Fresh(kind))
<1> DEFINE step == IF kind = "provisao" THEN "fornecedor" ELSE "none"
<1>1. step \in {"fornecedor", "none"} /\ Fresh(kind) = [NoRow EXCEPT !.kind = kind, !.status = "pending", !.step = step]
  BY DEF Fresh
<1> HIDE DEF step
<1>2. Fresh(kind) \in Row
  BY <1>1, NoRowIs DEF Row
<1>3. Fresh(kind).kind = kind /\ Fresh(kind).status = "pending" /\ Fresh(kind).step = step
  BY <1>1, NoRowIs DEF Row
<1>4. /\ Fresh(kind).attempts = 0 /\ ~Fresh(kind).supplier /\ Fresh(kind).payable = NoKey
      /\ ~Fresh(kind).payment /\ ~Fresh(kind).fault /\ ~Fresh(kind).lanc
  BY <1>1 DEF NoRow
<1>5. Coherent(Fresh(kind))
  BY <1>3, <1>4 DEF Coherent, step
<1> QED  BY <1>2, <1>3, <1>4, <1>5 DEF step

LEMMA ResetIs ==
  ASSUME NEW kind \in {"provisao", "direto"}, NEW row \in Row
  PROVE  /\ Reset(row, kind) \in Row /\ Reset(row, kind).kind = kind /\ Reset(row, kind).status = "pending"
         /\ Reset(row, kind).step = IF kind = "provisao" THEN "fornecedor" ELSE "none"
         /\ Reset(row, kind).attempts = 0 /\ Reset(row, kind).payable = NoKey
         /\ ~Reset(row, kind).payment /\ ~Reset(row, kind).fault
BY FreshIs DEF Reset, Row

LEMMA FailedIs ==
  ASSUME NEW row \in Row
  PROVE  /\ Failed(row) \in Row /\ Failed(row).kind = row.kind /\ Failed(row).step = row.step
         /\ Failed(row).status = "failed" /\ Failed(row).attempts = 0
         /\ Failed(row).payable = row.payable /\ Failed(row).payment = row.payment
<1>1. Failed(row) \in Row
  BY ZeroIs DEF Failed, Row
<1>2. Failed(row).kind = row.kind /\ Failed(row).step = row.step /\ Failed(row).status = "failed"
  BY DEF Failed, Row
<1>3. /\ Failed(row).attempts = 0 /\ Failed(row).payable = row.payable /\ Failed(row).payment = row.payment
  BY DEF Failed, Row
<1> QED  BY <1>1, <1>2, <1>3

LEMMA AdvanceIs ==
  ASSUME NEW row \in Row, NEW step \in {"titulo", "baixa", "concluido"}
  PROVE  /\ Advance(row, step) \in Row /\ Advance(row, step).kind = row.kind /\ Advance(row, step).step = step
         /\ Advance(row, step).attempts = 0
         /\ Advance(row, step).payable = row.payable /\ Advance(row, step).payment = row.payment
<1> DEFINE status == IF step = "concluido" THEN "confirmed" ELSE "pending"
<1>1. /\ status \in {"confirmed", "pending"}
      /\ Advance(row, step) = [row EXCEPT !.step = step, !.attempts = 0, !.fault = FALSE, !.status = status]
  BY DEF Advance
<1> HIDE DEF status
<1>2. Advance(row, step) \in Row
  BY <1>1, ZeroIs DEF Row
<1>3. Advance(row, step).kind = row.kind /\ Advance(row, step).step = step
  BY <1>1 DEF Row
<1>4. /\ Advance(row, step).attempts = 0
      /\ Advance(row, step).payable = row.payable /\ Advance(row, step).payment = row.payment
  BY <1>1 DEF Row
<1> QED  BY <1>2, <1>3, <1>4

LEMMA CountedIs ==
  ASSUME NEW row \in Row, row.attempts < MaxAttempts
  PROVE  /\ Counted(row) \in Row /\ Counted(row).attempts = row.attempts + 1 /\ row.attempts \in Nat
         /\ Counted(row).kind = row.kind /\ Counted(row).step = row.step /\ Counted(row).status = row.status
         /\ Counted(row).payable = row.payable /\ Counted(row).payment = row.payment
         /\ Counted(row).fault = row.fault
         /\ Coherent(row) => Coherent(Counted(row))
<1>1. row.attempts \in Nat /\ row.attempts + 1 \in 0 .. MaxAttempts
  BY ProvisionConstants DEF Row
<1>2. Counted(row) = [row EXCEPT !.attempts = row.attempts + 1]
  BY DEF Counted
<1>3. /\ Counted(row) \in Row /\ Counted(row).attempts = row.attempts + 1
      /\ Counted(row).kind = row.kind /\ Counted(row).step = row.step /\ Counted(row).status = row.status
  BY <1>1, <1>2 DEF Row
<1>4. /\ Counted(row).payable = row.payable /\ Counted(row).payment = row.payment
      /\ Counted(row).fault = row.fault /\ Counted(row).lanc = row.lanc
      /\ Counted(row).supplier = row.supplier
  BY <1>1, <1>2 DEF Row
<1>5. Coherent(row) => Coherent(Counted(row))
  BY <1>3, <1>4 DEF Coherent
<1> QED  BY <1>1, <1>3, <1>4, <1>5

LEMMA Ranks ==
  /\ Rank("fornecedor") = 1 /\ Rank("titulo") = 2 /\ Rank("baixa") = 3 /\ Rank("concluido") = 4
  /\ Rank("none") = 0
  /\ \A row \in Row : Rank(row.step) \in 0 .. 4
<1>1. /\ Rank("fornecedor") = 1 /\ Rank("titulo") = 2 /\ Rank("baixa") = 3 /\ Rank("concluido") = 4
      /\ Rank("none") = 0
  BY DEF Rank
<1> QED  BY <1>1 DEF Row

LEMMA FlushedIs ==
  ASSUME NEW r, NEW new \in Row, Seen(r) \in Row, posting[Line(r)] \in Row
  PROVE  /\ Flushed(r, new) \in Row
         /\ Flushed(r, new).payable \in {new.payable, posting[Line(r)].payable}
         /\ Seen(r) = posting[Line(r)] => Flushed(r, new) = new
<1>1. Flushed(r, new) \in Row
  BY DEF Flushed, Row
<1>2. Flushed(r, new).payable \in {new.payable, posting[Line(r)].payable}
  BY DEF Flushed, Row
<1>3. Seen(r) = posting[Line(r)] => Flushed(r, new) = new
  BY DEF Flushed, Row
<1> QED  BY <1>1, <1>2, <1>3

LEMMA IdleIs == Idle \in Task /\ Idle.pc = "idle" /\ Idle.line = NoLine
BY NoRowIs DEF Idle, Task, PCs, Nothing

LEMMA InitInv == Init => Inv
<1> SUFFICES ASSUME Init PROVE Inv
  OBVIOUS
<1>1. Types
  <2>1. NoInstallment \in Installment
    BY ZeroIs DEF NoInstallment, Installment
  <2> QED  BY <2>1, NoRowIs, IdleIs DEF Init, Types
<1>2. Effects = {}
  BY DEF Init, Effects
<1>3. SeriesInv
  BY <1>2 DEF Init, SeriesInv, NoInstallment
<1>4. Single
  BY IdleIs, KeysAre DEF Init, Single, Line
<1>5. ASSUME NEW l \in Lines PROVE LineInv(l)
  BY <1>2 DEF Init, LineInv, LineFacts, AloneFacts, CleanFacts, NoRow
<1>6. ASSUME NEW r \in Requests PROVE TaskInv(r)
  BY IdleIs DEF Init, TaskInv, At
<1> QED  BY <1>1, <1>3, <1>4, <1>5, <1>6 DEF Inv

-------------------------------------------------------------------------------
(* What a step of one line leaves as it is for the others.                  *)

\* Nothing is taken back: not an effect, a title found, a registered installment, an excuse.
Grows ==
  /\ excuse' \in [Lines -> SUBSET {"race", "retry", "order"}]
  /\ \A m \in Lines : excuse[m] \subseteq excuse'[m]
  /\ omie \subseteq omie' /\ omie' \subseteq Effect /\ flying' \subseteq Effect
  /\ series' \in [Keys -> Installment]
  /\ \A k \in Keys : /\ series[k].there => series'[k].there
                     /\ series[k].claimed \in Lines => series'[k].claimed = series[k].claimed
  /\ plan' = plan

\* No effect of another line.
Spared(l) ==
  \A m \in Lines \ {l} :
    /\ Title(Own(m)) \in Effects' => Title(Own(m)) \in Effects
    /\ Lancamento(m) \in Effects' => Lancamento(m) \in Effects
    /\ \A k \in Keys : Payment(m, k) \in Effects' => Payment(m, k) \in Effects

Owner(r, l) == \A q \in Requests \ {r} : Line(q) = l => "race" \in excuse'[l]

\* A line is marked, or none is.
LEMMA ExcusedIs ==
  ASSUME excuse \in [Lines -> SUBSET {"race", "retry", "order"}], NEW l \in Lines,
         NEW why \in {"race", "retry", "order"}, Excused(l, why) \/ UNCHANGED excuse
  PROVE  /\ excuse' \in [Lines -> SUBSET {"race", "retry", "order"}]
         /\ \A m \in Lines : excuse[m] \subseteq excuse'[m]
         /\ Excused(l, why) => why \in excuse'[l]
<1>1. CASE Excused(l, why)
  <2>1. PICK w \in SUBSET {"race", "retry", "order"} : w = (excuse[l]) \cup {why}
    OBVIOUS
  <2>2. excuse' = [excuse EXCEPT ![l] = w]
    BY <1>1, <2>1 DEF Excused
  <2> QED  BY <2>1, <2>2
<1>2. CASE UNCHANGED excuse /\ ~Excused(l, why)
  BY <1>2
<1> QED  BY <1>1, <1>2

LEMMA ExcusesStay ==
  ASSUME Grows, NEW m \in Lines
  PROVE  (Alone(m)' => Alone(m)) /\ (Clean(m)' => Clean(m)) /\ (Clean(m)' => Alone(m)')
BY DEF Grows, Alone, Clean

LEMMA HeldStays ==
  ASSUME Grows, NEW m \in Lines, NEW k \in Keys, Held(m, k)
  PROVE  Held(m, k)'
BY DEF Grows, Held

LEMMA OwnerIs ==
  ASSUME Inv, Grows, NEW r \in Requests, Line(r) \in Lines
  PROVE  Owner(r, Line(r))
BY DEF Inv, Single, Owner, Grows, Alone

\* What a row of a line says stays true while nothing more is sent for the line.
LEMMA RowStays ==
  ASSUME Grows, NEW m \in Lines, NEW row \in Row, LineFacts(m, row),
         Title(Own(m)) \in Effects' => Title(Own(m)) \in Effects,
         Lancamento(m) \in Effects' => Lancamento(m) \in Effects,
         \A k \in Keys : Payment(m, k) \in Effects' => Payment(m, k) \in Effects
  PROVE  LineFacts(m, row)'
<1>1. row.payable \in Keys \cup {NoKey}
  BY DEF Row
<1>2. \A k \in Keys : Held(m, k) => Held(m, k)'
  BY HeldStays
<1>3. (Alone(m)' => Alone(m)) /\ (Clean(m)' => Clean(m))
  BY ExcusesStay
<1>4. \A x \in omie : x \in omie'
  BY DEF Grows
<1>5. Alone(m)' => AloneFacts(m, row)'
  BY <1>3, <1>4 DEF LineFacts, AloneFacts
<1>6. Clean(m)' => CleanFacts(m, row)'
  BY <1>3 DEF LineFacts, CleanFacts
<1> QED  BY <1>1, <1>2, <1>5, <1>6 DEF LineFacts

\* Another line keeps its facts.
LEMMA LineStays ==
  ASSUME Inv, Grows, NEW l, Spared(l), NEW m \in Lines \ {l}, posting'[m] = posting[m]
  PROVE  LineInv(m)' /\ Forward(m)
<1>1. PICK row \in Row : row = posting[m] /\ row = posting'[m] /\ LineFacts(m, row)
  BY DEF Inv, Types, LineInv
<1>2. LineFacts(m, row)'
  BY <1>1, RowStays DEF Spared
<1>3. LineInv(m)'
  BY <1>1, <1>2 DEF LineInv, LineFacts, AloneFacts, CleanFacts
<1>4. Rank(row.step) >= Rank(row.step)
  BY <1>1, Ranks
<1>5. Forward(m)
  BY <1>1, <1>4 DEF Forward
<1> QED  BY <1>3, <1>5

\* So does another request, on another line or on a line now marked.
LEMMA TaskStays ==
  ASSUME Inv, Grows, NEW r \in Requests, NEW l \in Lines, Spared(l), Owner(r, l),
         \A m \in Lines \ {l} : posting'[m] = posting[m],
         posting[l].kind # "none" => posting'[l].kind # "none",
         NEW q \in Requests \ {r}, task'[q] = task[q]
  PROVE  TaskInv(q)'
<1> SUFFICES ASSUME ~At(q, "idle") PROVE TaskInv(q)'
  BY DEF TaskInv, At
<1>0. PICK m \in Lines : m = Line(q)
  BY DEF Inv, TaskInv
<1>1. /\ Line(q)' = m /\ Seen(q)' = Seen(q) /\ task[q] \in Task /\ Seen(q) \in Row
      /\ \A pc \in PCs : At(q, pc)' <=> At(q, pc)
  BY <1>0 DEF Inv, Types, Task, Line, Seen, At
<1>2. SeenFacts(q) /\ StepFacts(q) /\ PostFacts(q)
  BY DEF Inv, TaskInv
<1>3. Alone(m)' => m # l /\ Alone(m)
  BY <1>0, ExcusesStay DEF Owner, Alone
<1>4. Clean(m)' => Alone(m)' /\ Clean(m)
  BY ExcusesStay
<1>5. \A k \in Keys : Held(m, k) => Held(m, k)'
  BY HeldStays
<1>6. m # l => posting'[m] = posting[m] /\ (Lancamento(m) \in Effects' => Lancamento(m) \in Effects)
  BY DEF Spared
<1>7. posting[m].kind # "none" => posting'[m].kind # "none"
  BY <1>6
<1>8. Seen(q).payable \in Keys \cup {NoKey} /\ task[q].todo \subseteq Keys
  BY <1>1 DEF Row, Task
<1>9. SeenFacts(q)'
  <2>1. PICK seen \in Row : seen = Seen(q)
    BY <1>1
  <2>2. /\ seen.payable # NoKey => Held(m, seen.payable)'
        /\ Seen(q).step \in {"baixa", "concluido"} => Seen(q).payable # NoKey
        /\ Seen(q).kind # "none" => posting'[m].kind # "none"
        /\ task[q].pc \notin {"decide", "lanc"} => Seen(q).kind # "none"
        /\ Alone(m)' => Seen(q) = posting'[m]
    BY <1>0, <1>2, <1>3, <1>5, <1>6, <1>7, <1>8, <2>1 DEF SeenFacts
  <2> QED  BY <1>0, <1>1, <2>1, <2>2 DEF SeenFacts
<1>10. StepFacts(q)'
  <2>1. \A k \in Keys : series[k].there => series'[k].there
    BY DEF Grows
  <2> QED  BY <2>1, <1>1, <1>2, <1>3, <1>8, <1>0 DEF StepFacts, At
<1>11. PostFacts(q)'
  BY <1>1, <1>2, <1>3, <1>4, <1>6, <1>0 DEF PostFacts, At
<1> QED  BY <1>1, <1>2, <1>9, <1>10, <1>11 DEF TaskInv

\* A step of request r about line l: what is left to show is about them.
LEMMA Rest ==
  ASSUME Inv, Grows, NEW r \in Requests, NEW l \in Lines, Spared(l), Owner(r, l),
         NEW t \in Task, task' = [task EXCEPT ![r] = t], t.line \in {l, NoLine},
         NEW row \in Row, posting' = [posting EXCEPT ![l] = row],
         posting[l].kind # "none" => row.kind # "none",
         SeriesInv', LineInv(l)', TaskInv(r)', Forward(l)
  PROVE  Onward
<1>1. Types'
  BY DEF Inv, Types, Grows
<1>2. /\ \A m \in Lines \ {l} : posting'[m] = posting[m]
      /\ posting'[l] = row
      /\ \A q \in Requests \ {r} : task'[q] = task[q]
      /\ task'[r] = t
  BY DEF Inv, Types
<1>3. \A m \in Lines : LineInv(m)' /\ Forward(m)
  BY <1>2, LineStays
<1>4. \A q \in Requests : TaskInv(q)'
  BY <1>2, TaskStays
<1>5. Single'
  <2> SUFFICES ASSUME NEW q \in Requests, NEW p \in Requests, q # p, Line(q)' = Line(p)', Line(p)' \in Lines
               PROVE  ~Alone(Line(p))'
    BY DEF Single
  <2>1. CASE q # r /\ p # r
    <3>1. Line(q)' = Line(q) /\ Line(p)' = Line(p)
      BY <2>1, <1>2 DEF Line
    <3> QED  BY <3>1, ExcusesStay DEF Inv, Single, Alone
  <2>2. ASSUME NEW o \in Requests \ {r}, Line(o)' = Line(r)', Line(r)' \in Lines
        PROVE  ~Alone(Line(r))'
    <3>1. Line(o)' = Line(o) /\ Line(r)' = l
      BY <1>2, <2>2, KeysAre DEF Line
    <3> QED  BY <3>1, <2>2 DEF Owner, Alone
  <2> QED  BY <2>1, <2>2
<1> QED  BY <1>1, <1>3, <1>4, <1>5 DEF Inv, Onward

-------------------------------------------------------------------------------
(* The ways a request's step goes.                                          *)

\* Only where the request is changes.
LEMMA Quiet ==
  ASSUME Inv, NEW r \in Requests, NEW l \in Lines, Owner(r, l),
         NEW t \in Task, task' = [task EXCEPT ![r] = t], t.line \in {l, NoLine},
         UNCHANGED <<posting, series, omie, flying, plan>>,
         excuse' \in [Lines -> SUBSET {"race", "retry", "order"}],
         \A m \in Lines : excuse[m] \subseteq excuse'[m],
         TaskInv(r)'
  PROVE  Onward
<1>1. Grows /\ SeriesInv' /\ Effects' = Effects
  <2>1. Effects' = Effects
    BY DEF Effects
  <2> QED  BY <2>1 DEF Inv, Types, SeriesInv, Grows
<1>2. Spared(l) /\ Spared(NoLine)
  BY <1>1 DEF Spared
<1>3. LineInv(l)' /\ Forward(l)
  BY <1>1, <1>2, LineStays, KeysAre
<1>4. PICK row \in Row : row = posting[l]
  BY DEF Inv, Types
<1>5. posting' = [posting EXCEPT ![l] = row]
  BY <1>4 DEF Inv, Types
<1> QED  BY <1>1, <1>2, <1>3, <1>4, <1>5, Rest

\* The request ends and leaves its row as it is, whatever became of its POST.
LEMMA Dropped ==
  ASSUME Inv, Grows, SeriesInv', NEW r \in Requests, ~At(r, "idle"), NEW l \in Lines, l = Line(r),
         Spared(l), End(r), posting' = posting,
         NEW row \in Row, row = posting[l], LineFacts(l, row)'
  PROVE  Onward
<1>1. Owner(r, l)
  BY OwnerIs
<1>2. task' = [task EXCEPT ![r] = Idle] /\ posting' = [posting EXCEPT ![l] = row] /\ posting'[l] = row
  BY DEF End, Inv, Types
<1>3. LineInv(l)'
  BY <1>2 DEF LineInv, LineFacts, AloneFacts, CleanFacts
<1>4. TaskInv(r)'
  BY <1>2, IdleIs DEF TaskInv, At, Inv, Types
<1>5. Forward(l)
  BY <1>2, Ranks DEF Forward
<1> QED  BY <1>1, <1>2, <1>3, <1>4, <1>5, IdleIs, Rest

\* The new row goes no further back than the old one, or changes to the direct form in time.
Ahead(l, row, new) ==
  row.kind = "provisao" =>
    \/ new.kind = "provisao" /\ Rank(new.step) >= Rank(row.step) /\ row.payable \in {NoKey, new.payable}
    \/ new.kind = "direto" /\ row.step = "fornecedor" /\ Title(Own(l)) \notin Effects

\* A commit that the CHECKs accept.
LEMMA Committed ==
  ASSUME Inv, Grows, SeriesInv', NEW r \in Requests, ~At(r, "idle"), NEW l \in Lines, l = Line(r),
         Spared(l), NEW new \in Row, NEW next \in {"idle", "step", "lanc"},
         Store(r, new, next), Coherent(Flushed(r, new)),
         NEW row \in Row, row = posting[l], LineFacts(l, row)',
         new.kind # "none", new.payable # NoKey => Held(l, new.payable)',
         new.step \in {"baixa", "concluido"} => new.payable # NoKey,
         Alone(l)' => AloneFacts(l, new)', Clean(l)' => CleanFacts(l, new)',
         Alone(l)' => Ahead(l, row, new),
         next = "step" /\ new.status = "pending" => new.attempts < MaxSends,
         next = "lanc" => new.kind # "provisao"
  PROVE  Onward
<1>1. Owner(r, l) /\ Seen(r) \in Row /\ posting[Line(r)] \in Row /\ task[r] \in Task
  BY OwnerIs DEF Inv, Types, Task, Seen
<1>2. PICK put \in Row : put = Flushed(r, new) /\ put.payable \in {new.payable, row.payable}
                           /\ (Seen(r) = posting[l] => put = new)
  BY <1>1, FlushedIs
<1>3. Alone(l)' => put = new
  BY <1>2, ExcusesStay DEF Inv, TaskInv, SeenFacts
<1>4. posting' = [posting EXCEPT ![l] = put] /\ posting'[l] = put
  BY <1>2 DEF Store, Inv, Types
<1>5. Coherent(put) /\ put.kind # "none"
  BY <1>2 DEF Coherent
<1>6. PICK t \in Task : /\ task' = [task EXCEPT ![r] = t] /\ t = task'[r]
                        /\ IF next = "idle" THEN t = Idle
                           ELSE t.pc = next /\ t.seen = new /\ t.line = l
  <2>1. task' = [task EXCEPT ![r] = IF next = "idle" THEN Idle
                   ELSE [task[r] EXCEPT !.pc = next, !.seen = new, !.post = Nothing]]
    BY DEF Store
  <2>2. next = "idle" \/ (next # "idle" /\ [task[r] EXCEPT !.pc = next, !.seen = new, !.post = Nothing] \in Task)
    BY <1>1 DEF Task, PCs
  <2>3. [task[r] EXCEPT !.pc = next, !.seen = new, !.post = Nothing].pc = next
    BY <1>1 DEF Task
  <2>4. [task[r] EXCEPT !.pc = next, !.seen = new, !.post = Nothing].seen = new
    BY <1>1 DEF Task
  <2>5. [task[r] EXCEPT !.pc = next, !.seen = new, !.post = Nothing].line = l
    BY <1>1 DEF Task, Line
  <2>6. task \in [Requests -> Task]
    BY DEF Inv, Types
  <2> QED  BY <2>1, <2>2, <2>3, <2>4, <2>5, <2>6, IdleIs
<1>7. t.line \in {l, NoLine}
  BY <1>6, IdleIs
<1>8. LineInv(l)'
  <2>1. put.payable # NoKey => Held(l, put.payable)'
    BY <1>2 DEF LineFacts
  <2>2. Alone(l)' => AloneFacts(l, put)'
    BY <1>3
  <2>3. Clean(l)' => CleanFacts(l, put)'
    BY <1>3, ExcusesStay DEF Alone, Clean
  <2>4. LineFacts(l, put)'
    BY <1>5, <2>1, <2>2, <2>3 DEF LineFacts
  <2> QED  BY <1>4, <2>4 DEF LineInv, LineFacts, AloneFacts, CleanFacts
<1>9. TaskInv(r)'
  <2>1. CASE next = "idle"
    BY <1>6, <2>1, IdleIs DEF TaskInv, At
  <2>2. CASE next # "idle"
    <3>1. Line(r)' = l /\ Seen(r)' = new /\ task'[r].pc = next
      BY <1>6, <2>2 DEF Line, Seen
    <3>2. SeenFacts(r)'
      BY <1>3, <1>4, <1>5, <3>1 DEF SeenFacts, Held
    <3>3. StepFacts(r)' /\ PostFacts(r)'
      BY <3>1 DEF StepFacts, PostFacts, At
    <3> QED  BY <3>1, <3>2, <3>3 DEF TaskInv
  <2> QED  BY <2>1, <2>2
<1>10. Forward(l)
  BY <1>3, <1>4 DEF Forward, Ahead, Alone
<1> QED  BY <1>1, <1>4, <1>5, <1>6, <1>7, <1>8, <1>9, <1>10, Rest

\* A commit, accepted or refused by the CHECKs.
LEMMA Written ==
  ASSUME Inv, Grows, SeriesInv', NEW r \in Requests, ~At(r, "idle"), NEW l \in Lines, l = Line(r),
         Spared(l), NEW new \in Row, NEW next \in {"idle", "step", "lanc"}, Store(r, new, next),
         NEW row \in Row, row = posting[l], LineFacts(l, row)',
         new.kind # "none", new.payable # NoKey => Held(l, new.payable)',
         new.step \in {"baixa", "concluido"} => new.payable # NoKey,
         Alone(l)' => AloneFacts(l, new)', Clean(l)' => CleanFacts(l, new)',
         Alone(l)' => Ahead(l, row, new),
         next = "step" /\ new.status = "pending" => new.attempts < MaxSends,
         next = "lanc" => new.kind # "provisao"
  PROVE  Onward
<1>1. CASE Coherent(Flushed(r, new))
  BY <1>1, Committed
<1>2. CASE ~Coherent(Flushed(r, new))
  BY <1>2, Dropped DEF Store
<1> QED  BY <1>1, <1>2

-------------------------------------------------------------------------------
(* The steps that send nothing.                                             *)

\* What a request may count on at the start of any of its steps.
LEMMA Known ==
  ASSUME Inv, NEW r \in Requests, ~At(r, "idle"), NEW l, l = Line(r), NEW mine, mine = Seen(r)
  PROVE  /\ l \in Lines /\ mine \in Row /\ posting[l] \in Row /\ task[r] \in Task
         /\ mine.payable \in Keys \cup {NoKey}
         /\ mine.payable # NoKey => Held(l, mine.payable)
         /\ mine.step \in {"baixa", "concluido"} => mine.payable # NoKey
         /\ task[r].pc \notin {"decide", "lanc"} => mine.kind # "none"
         /\ mine.kind # "none" => posting[l].kind # "none"
         /\ Alone(l) => mine = posting[l] /\ (mine = NoRow \/ Coherent(mine)) /\ AloneFacts(l, mine)
         /\ Clean(l) => Alone(l) /\ CleanFacts(l, mine)
         /\ LineFacts(l, posting[l])
<1>1. l \in Lines /\ SeenFacts(r) /\ LineInv(l) /\ task[r] \in Task /\ posting[l] \in Row
  BY DEF Inv, TaskInv, Types
<1>2. mine \in Row /\ mine.payable \in Keys \cup {NoKey}
  BY <1>1 DEF Task, Seen, Row
<1>3. Alone(l) => mine = posting[l]
  BY <1>1 DEF SeenFacts
<1>4. Clean(l) => Alone(l)
  BY DEF Clean, Alone
<1> QED  BY <1>1, <1>2, <1>3, <1>4 DEF SeenFacts, LineInv, LineFacts

\* A step that sends nothing and registers nothing leaves what rows say as true as it was.
LEMMA Still ==
  ASSUME Inv, UNCHANGED <<series, omie, flying, excuse, plan>>
  PROVE  /\ Grows /\ SeriesInv' /\ \A l : Spared(l)
         /\ \A l : (Alone(l)' <=> Alone(l)) /\ (Clean(l)' <=> Clean(l))
         /\ \A l, k : Held(l, k)' <=> Held(l, k)
         /\ \A l, row : /\ LineFacts(l, row)' <=> LineFacts(l, row)
                        /\ AloneFacts(l, row)' <=> AloneFacts(l, row)
                        /\ CleanFacts(l, row)' <=> CleanFacts(l, row)
<1>1. Effects' = Effects
  BY DEF Effects
<1>2. Grows /\ SeriesInv' /\ \A l : Spared(l)
  BY <1>1 DEF Inv, Types, SeriesInv, Grows, Spared
<1>3. /\ \A l : (Alone(l)' <=> Alone(l)) /\ (Clean(l)' <=> Clean(l))
      /\ \A l, k : Held(l, k)' <=> Held(l, k)
  BY DEF Alone, Clean, Held
<1>4. \A l, row : /\ AloneFacts(l, row)' <=> AloneFacts(l, row)
                  /\ CleanFacts(l, row)' <=> CleanFacts(l, row)
  BY <1>1 DEF AloneFacts, CleanFacts
<1>5. \A l, row : LineFacts(l, row)' <=> LineFacts(l, row)
  BY <1>1, <1>3, <1>4 DEF LineFacts
<1> QED  BY <1>2, <1>3, <1>4, <1>5

\* A commit with nothing sent.
LEMMA Plain ==
  ASSUME Inv, UNCHANGED <<series, omie, flying, excuse, plan>>,
         NEW r \in Requests, ~At(r, "idle"), NEW l \in Lines, l = Line(r),
         NEW new \in Row, NEW next \in {"idle", "step", "lanc"}, Store(r, new, next),
         new.kind # "none", new.payable # NoKey => Held(l, new.payable),
         new.step \in {"baixa", "concluido"} => new.payable # NoKey,
         Alone(l) => AloneFacts(l, new), Clean(l) => CleanFacts(l, new),
         Alone(l) => Ahead(l, posting[l], new),
         next = "step" /\ new.status = "pending" => new.attempts < MaxSends,
         next = "lanc" => new.kind # "provisao"
  PROVE  Onward
<1>1. PICK row \in Row : row = posting[l] /\ LineFacts(l, row)
  BY DEF Inv, Types, LineInv
<1>2. Grows /\ SeriesInv' /\ Spared(l) /\ LineFacts(l, row)'
  BY <1>1, Still
<1>3. /\ new.payable # NoKey => Held(l, new.payable)'
      /\ Alone(l)' => AloneFacts(l, new)'
      /\ Clean(l)' => CleanFacts(l, new)'
      /\ Alone(l)' => Ahead(l, row, new)
  BY <1>1, Still
<1> QED  BY <1>1, <1>2, <1>3, Written

\* The request goes on with the row it has.
LEMMA Moved ==
  ASSUME Inv, UNCHANGED <<posting, series, omie, flying, excuse, plan>>,
         NEW r \in Requests, ~At(r, "idle"), NEW l, l = Line(r), NEW mine, mine = Seen(r),
         NEW t \in Task, task' = [task EXCEPT ![r] = t], t.line = l, t.seen = mine,
         t.pc \in {"step", "after", "ask", "lanc", "claim"},
         mine.kind = "none" => t.pc = "lanc",
         t.pc \in {"step", "claim"} /\ Alone(l) /\ mine.status = "pending" => mine.attempts < MaxSends,
         t.pc = "claim" => mine.step = "titulo" /\ t.key \in Keys,
         t.pc = "ask" /\ Alone(l) => mine.kind = "direto",
         t.pc = "lanc" /\ Alone(l) => mine.kind # "provisao"
  PROVE  Onward
<1>1. task'[r] = t /\ Line(r)' = l /\ Seen(r)' = mine
  BY DEF Inv, Types, Line, Seen
<1>2. l \in Lines /\ SeenFacts(r)
  BY DEF Inv, TaskInv
<1>3. Owner(r, l)
  BY <1>2, Still, OwnerIs
<1>4. SeenFacts(r)'
  BY <1>1, <1>2 DEF SeenFacts, Held, Alone
<1>5. StepFacts(r)' /\ PostFacts(r)'
  BY <1>1 DEF StepFacts, PostFacts, At, Alone
<1>6. TaskInv(r)'
  BY <1>1, <1>2, <1>4, <1>5 DEF TaskInv
<1> QED  BY <1>2, <1>3, <1>6, Quiet, Still DEF Grows

LEMMA EndedIn ==
  ASSUME Inv, NEW r \in Requests, ~At(r, "idle"), End(r),
         UNCHANGED <<posting, series, omie, flying, excuse, plan>>
  PROVE  Onward
<1>1. PICK l \in Lines : l = Line(r)
  BY DEF Inv, TaskInv
<1>2. PICK row \in Row : row = posting[l] /\ LineFacts(l, row)
  BY DEF Inv, Types, LineInv
<1> QED  BY <1>1, <1>2, Still, Dropped

LEMMA EndedMarked ==
  ASSUME Inv, NEW r \in Requests, ~At(r, "idle"), End(r),
         UNCHANGED <<posting, series, omie, flying, plan>>,
         excuse' \in [Lines -> SUBSET {"race", "retry", "order"}],
         \A m \in Lines : excuse[m] \subseteq excuse'[m]
  PROVE  Onward
<1>1. PICK l \in Lines : l = Line(r)
  BY DEF Inv, TaskInv
<1>2. PICK row \in Row : row = posting[l] /\ LineFacts(l, row)
  BY DEF Inv, Types, LineInv
<1>3. Effects' = Effects
  BY DEF Effects
<1>4. Grows /\ SeriesInv' /\ Spared(l)
  BY <1>3 DEF Inv, Types, SeriesInv, Grows, Spared
<1>5. LineFacts(l, row)'
  BY <1>2, <1>3, <1>4, RowStays
<1> QED  BY <1>1, <1>2, <1>4, <1>5, Dropped

LEMMA GotoIs ==
  ASSUME Inv, NEW r \in Requests, NEW pc \in PCs, Goto(r, pc)
  PROVE  \E t \in Task : /\ task' = [task EXCEPT ![r] = t] /\ t.line = Line(r) /\ t.seen = Seen(r)
                         /\ t.pc = pc /\ t.key = task[r].key
<1>1. task[r] \in Task /\ task' = [task EXCEPT ![r] = [task[r] EXCEPT !.pc = pc]]
  BY DEF Inv, Types, Goto
<1>2. [task[r] EXCEPT !.pc = pc] \in Task
  BY <1>1 DEF Task
<1>3. /\ [task[r] EXCEPT !.pc = pc].line = Line(r) /\ [task[r] EXCEPT !.pc = pc].seen = Seen(r)
      /\ [task[r] EXCEPT !.pc = pc].pc = pc /\ [task[r] EXCEPT !.pc = pc].key = task[r].key
  BY <1>1 DEF Task, Line, Seen
<1> QED  BY <1>1, <1>2, <1>3

LEMMA ReadStep ==
  ASSUME Inv, NEW r \in Requests, Read(r), plan' = plan
  PROVE  Onward
<1>1. PICK l \in Lines :
        /\ task' = [task EXCEPT ![r] = [Idle EXCEPT !.pc = "decide", !.line = l, !.seen = posting[l]]]
        /\ IF \E q \in Requests \ {r} : Line(q) = l THEN Excused(l, "race") ELSE UNCHANGED excuse
  BY DEF Read
<1>2. PICK row \in Row : row = posting[l] /\ LineFacts(l, row)
  BY DEF Inv, Types, LineInv
<1>3. PICK t \in Task : t = [Idle EXCEPT !.pc = "decide", !.line = l, !.seen = row]
  BY IdleIs DEF Task, PCs
<1>4. t.pc = "decide" /\ t.line = l /\ t.seen = row
  BY <1>3 DEF Idle
<1>5. /\ excuse' \in [Lines -> SUBSET {"race", "retry", "order"}]
      /\ \A m \in Lines : excuse[m] \subseteq excuse'[m]
      /\ Owner(r, l)
  <2>1. CASE \E q \in Requests \ {r} : Line(q) = l
    BY <1>1, <2>1, ExcusedIs DEF Inv, Types, Owner
  <2>2. CASE ~\E q \in Requests \ {r} : Line(q) = l
    BY <1>1, <2>2 DEF Inv, Types, Owner
  <2> QED  BY <2>1, <2>2
<1>6. task' = [task EXCEPT ![r] = t] /\ task'[r] = t
  BY <1>1, <1>2, <1>3 DEF Inv, Types
<1>7. TaskInv(r)'
  <2>1. Line(r)' = l /\ Seen(r)' = row /\ posting' = posting
    BY <1>4, <1>6 DEF Line, Seen, Read
  <2>2. row.step \in {"baixa", "concluido"} => row.payable # NoKey
    BY <1>2, NoRowIs DEF LineFacts, Coherent
  <2>3. row.payable # NoKey => Held(l, row.payable)'
    BY <1>2 DEF LineFacts, Held, Read
  <2>4. SeenFacts(r)'
    BY <1>2, <1>4, <1>6, <2>1, <2>2, <2>3 DEF SeenFacts
  <2>5. StepFacts(r)' /\ PostFacts(r)'
    BY <1>4, <1>6 DEF StepFacts, PostFacts, At
  <2> QED  BY <2>1, <2>4, <2>5 DEF TaskInv
<1> QED  BY <1>4, <1>5, <1>6, <1>7, Quiet DEF Read

LEMMA DecideStep ==
  ASSUME Inv, NEW r \in Requests, Decide(r), plan' = plan
  PROVE  Onward
<1>1. At(r, "decide") /\ ~At(r, "idle") /\ UNCHANGED <<series, omie, flying, excuse, plan>>
  BY DEF Decide, At
<1>2. PICK mine \in Row, l \in Lines : mine = Seen(r) /\ l = Line(r)
  BY <1>1, Known
<1>3. /\ task[r] \in Task /\ posting[l] \in Row
      /\ Alone(l) => mine = posting[l] /\ (mine = NoRow \/ Coherent(mine)) /\ AloneFacts(l, mine)
      /\ Clean(l) => Alone(l) /\ CleanFacts(l, mine)
      /\ LineFacts(l, posting[l])
  BY <1>1, <1>2, Known
<1>4. CASE mine.kind = "none"
  <2>1. PICK row \in Row : row = IF posting[l] = NoRow THEN Fresh("provisao") ELSE posting[l]
    BY <1>3, FreshIs
  <2>2. /\ posting' = [posting EXCEPT ![l] = row]
        /\ task' = [task EXCEPT ![r].pc = "step", ![r].seen = row]
    BY <1>2, <1>4, <2>1 DEF Decide, Refuses
  <2>3. PICK t \in Task : t = [task[r] EXCEPT !.pc = "step", !.seen = row]
    BY <1>3 DEF Task, PCs
  <2>4. task' = [task EXCEPT ![r] = t] /\ t.line = l /\ t.pc = "step" /\ t.seen = row
    BY <1>2, <1>3, <2>2, <2>3 DEF Task, Line, Inv, Types
  <2>5. Coherent(row) /\ row.kind # "none"
    BY <1>3, <2>1, FreshIs DEF LineFacts, Coherent
  <2>6. LineFacts(l, row) /\ (Alone(l) => row.attempts < MaxSends)
    <3>1. CASE posting[l] = NoRow
      <4>1. /\ row.kind = "provisao" /\ row.step = "fornecedor" /\ row.attempts = 0 /\ row.payable = NoKey
            /\ ~row.payment
        BY <2>1, <3>1, FreshIs
      <4>2. /\ Title(Own(l)) \notin Effects /\ Lancamento(l) \notin Effects
            /\ \A k \in Keys : Payment(l, k) \notin Effects
        BY <1>3, <3>1, NoRowIs DEF LineFacts
      <4> QED  BY <2>5, <4>1, <4>2, ZeroIs DEF LineFacts, AloneFacts, CleanFacts
    <3>2. CASE posting[l] # NoRow
      BY <1>3, <1>4, <2>1, <3>2 DEF Coherent
    <3> QED  BY <3>1, <3>2
  <2>7. LineInv(l)'
    <3>1. LineFacts(l, row)' /\ posting'[l] = row
      BY <1>1, <2>2, <2>6, Still DEF Inv, Types
    <3> QED  BY <3>1 DEF LineInv, LineFacts, AloneFacts, CleanFacts
  <2>8. TaskInv(r)'
    <3>1. Line(r)' = l /\ Seen(r)' = row /\ task'[r] = t /\ posting'[l] = row
      BY <2>2, <2>4 DEF Line, Seen, Inv, Types
    <3>2. row.payable # NoKey => Held(l, row.payable)'
      BY <1>1, <2>6, Still DEF LineFacts
    <3>3. SeenFacts(r)'
      BY <2>5, <3>1, <3>2 DEF SeenFacts, Coherent
    <3>4. StepFacts(r)' /\ PostFacts(r)'
      BY <1>1, <2>4, <2>6, <3>1, Still DEF StepFacts, PostFacts, At
    <3> QED  BY <3>1, <3>3, <3>4 DEF TaskInv
  <2>9. Forward(l)
    BY <1>3, <2>1, <2>2, NoRowIs, Ranks DEF Forward, Inv, Types
  <2> QED  BY <1>1, <1>2, <2>2, <2>4, <2>5, <2>7, <2>8, <2>9, Still, OwnerIs, Rest
<1>5. CASE mine.status = "confirmed" /\ mine.kind = "provisao"
  <2>1. Goto(r, "after") /\ UNCHANGED posting
    BY <1>2, <1>5 DEF Decide, Refuses
  <2>2. PICK t \in Task : /\ task' = [task EXCEPT ![r] = t] /\ t.line = l /\ t.seen = mine /\ t.pc = "after"
    BY <1>2, <2>1, GotoIs DEF PCs
  <2> QED  BY <1>1, <1>2, <1>5, <2>1, <2>2, Moved
<1>6. CASE mine.kind # "none" /\ Refuses(mine) /\ ~(mine.status = "confirmed" /\ mine.kind = "provisao")
  <2>1. End(r) /\ UNCHANGED posting
    BY <1>2, <1>6 DEF Decide
  <2> QED  BY <1>1, <2>1, EndedIn
<1>7. CASE mine.kind = "direto" /\ ~Refuses(mine)
  <2>1. Store(r, Reset(mine, "provisao"), "step")
    BY <1>2, <1>7 DEF Decide
  <2>2. PICK new \in Row : /\ new = Reset(mine, "provisao") /\ new.kind = "provisao" /\ new.step = "fornecedor"
                           /\ new.attempts = 0 /\ new.payable = NoKey /\ ~new.payment
    BY ResetIs
  <2>3. mine.step # "none" => mine.kind # "direto" \/ ~Alone(l)
    BY <1>3, NoRowIs DEF Coherent
  <2>4. Alone(l) => AloneFacts(l, new) /\ Ahead(l, posting[l], new)
    BY <1>3, <1>7, <2>2, <2>3, ZeroIs DEF AloneFacts, Ahead
  <2>5. Clean(l) => CleanFacts(l, new)
    BY <1>3, <1>7 DEF CleanFacts, SentDirect, Refuses, SwitchAllowed
  <2> QED  BY <1>1, <1>2, <2>1, <2>2, <2>4, <2>5, ZeroIs, Plain
<1>8. CASE mine.kind = "provisao" /\ mine.status # "confirmed" /\ ~Refuses(mine)
  <2>1. Goto(r, "step") /\ UNCHANGED posting
    BY <1>2, <1>8 DEF Decide
  <2>2. PICK t \in Task : /\ task' = [task EXCEPT ![r] = t] /\ t.line = l /\ t.seen = mine /\ t.pc = "step"
    BY <1>2, <2>1, GotoIs DEF PCs
  <2>3. mine.status = "pending" => mine.attempts < MaxSends
    <3>1. mine.attempts \in Nat /\ MaxSends \in Nat
      BY ProvisionConstants DEF Row
    <3> QED  BY <3>1, <1>8 DEF Refuses
  <2> QED  BY <1>1, <1>2, <1>8, <2>1, <2>2, <2>3, Moved
<1> QED  BY <1>4, <1>5, <1>6, <1>7, <1>8 DEF Row

LEMMA DecideDirectStep ==
  ASSUME Inv, NEW r \in Requests, DecideDirect(r), plan' = plan
  PROVE  Onward
<1>1. At(r, "decide") /\ ~At(r, "idle") /\ UNCHANGED <<series, omie, flying, excuse, plan>>
  BY DEF DecideDirect, At
<1>2. PICK mine \in Row, l \in Lines : mine = Seen(r) /\ l = Line(r)
  BY <1>1, Known
<1>3. /\ Alone(l) => mine = posting[l] /\ (mine = NoRow \/ Coherent(mine)) /\ AloneFacts(l, mine)
      /\ Clean(l) => Alone(l) /\ CleanFacts(l, mine)
  BY <1>1, <1>2, Known
<1>4. CASE mine.kind = "provisao" /\ mine.status # "confirmed" /\ SwitchAllowed(mine)
  <2>1. Store(r, Reset(mine, "direto"), "lanc")
    BY <1>2, <1>4 DEF DecideDirect
  <2>2. PICK new \in Row : /\ new = Reset(mine, "direto") /\ new.kind = "direto" /\ new.step = "none"
                           /\ new.attempts = 0 /\ new.payable = NoKey /\ ~new.payment /\ ~new.fault
    BY ResetIs
  <2>3. mine.step = "fornecedor"
    BY <1>4 DEF SwitchAllowed
  <2>4. Alone(l) => AloneFacts(l, new) /\ Ahead(l, posting[l], new)
    BY <1>3, <1>4, <2>2, <2>3 DEF AloneFacts, Ahead
  <2>5. Clean(l) => CleanFacts(l, new)
    BY <1>3, <1>4 DEF CleanFacts, SentDirect
  <2> QED  BY <1>1, <1>2, <2>1, <2>2, <2>4, <2>5, Plain
<1>5. CASE \/ mine.status = "confirmed"
           \/ mine.kind = "provisao" /\ mine.status # "confirmed" /\ ~SwitchAllowed(mine)
  <2>1. End(r) /\ UNCHANGED posting
    BY <1>2, <1>5 DEF DecideDirect
  <2> QED  BY <1>1, <2>1, EndedIn
<1>6. CASE mine.kind # "provisao" /\ mine.status # "confirmed"
  <2>1. PICK pc \in {"ask", "lanc"} : Goto(r, pc) /\ UNCHANGED posting /\ (pc = "ask" => mine.kind = "direto")
    BY <1>2, <1>6 DEF DecideDirect
  <2>2. PICK t \in Task : /\ task' = [task EXCEPT ![r] = t] /\ t.line = l /\ t.seen = mine /\ t.pc = pc
    BY <1>2, <2>1, GotoIs DEF PCs
  <2> QED  BY <1>1, <1>2, <1>6, <2>1, <2>2, Moved
<1> QED  BY <1>4, <1>5, <1>6

LEMMA AskStep ==
  ASSUME Inv, NEW r \in Requests, Ask(r), plan' = plan
  PROVE  Onward
<1>1. At(r, "ask") /\ ~At(r, "idle") /\ UNCHANGED <<series, omie, flying, excuse, plan>>
  BY DEF Ask, At
<1>2. PICK mine \in Row, l \in Lines : mine = Seen(r) /\ l = Line(r)
  BY <1>1, Known
<1>3. /\ Alone(l) => mine = posting[l] /\ (mine = NoRow \/ Coherent(mine)) /\ AloneFacts(l, mine)
      /\ Clean(l) => Alone(l) /\ CleanFacts(l, mine)
      /\ mine.payable # NoKey => Held(l, mine.payable)
      /\ mine.step \in {"baixa", "concluido"} => mine.payable # NoKey
      /\ mine.kind # "none" /\ StepFacts(r)
  BY <1>1, <1>2, Known DEF Inv, TaskInv, At
<1>4. CASE Store(r, [mine EXCEPT !.status = "confirmed", !.lanc = TRUE], "idle")
  <2>1. PICK new \in Row : /\ new = [mine EXCEPT !.status = "confirmed", !.lanc = TRUE]
                           /\ new.kind = mine.kind /\ new.step = mine.step /\ new.attempts = mine.attempts
                           /\ new.payable = mine.payable /\ new.payment = mine.payment
                           /\ new.fault = mine.fault
    <3>1. [mine EXCEPT !.status = "confirmed", !.lanc = TRUE] \in Row
      BY DEF Row
    <3> QED  BY <3>1 DEF Row
  <2>2. new.status = "confirmed"
    BY <2>1 DEF Row
  <2>3. Alone(l) => mine.kind = "direto"
    BY <1>1, <1>2, <1>3 DEF StepFacts
  <2>4. Alone(l) => AloneFacts(l, new) /\ Ahead(l, posting[l], new)
    BY <1>3, <2>1, <2>2, <2>3 DEF AloneFacts, Ahead
  <2>5. Clean(l) => CleanFacts(l, new)
    BY <1>3, <2>1 DEF CleanFacts, SentDirect
  <2> QED  BY <1>1, <1>2, <1>3, <1>4, <2>1, <2>4, <2>5, Plain
<1>5. CASE Goto(r, "lanc") /\ UNCHANGED posting
  <2>1. PICK t \in Task : /\ task' = [task EXCEPT ![r] = t] /\ t.line = l /\ t.seen = mine /\ t.pc = "lanc"
    BY <1>2, <1>5, GotoIs DEF PCs
  <2>2. Alone(l) => mine.kind # "provisao"
    BY <1>1, <1>2, <1>3 DEF StepFacts
  <2> QED  BY <1>1, <1>2, <1>5, <2>1, <2>2, Moved
<1>6. CASE End(r) /\ UNCHANGED posting
  BY <1>1, <1>6, EndedIn
<1> QED  BY <1>2, <1>4, <1>5, <1>6 DEF Ask

LEMMA SuppliedIs ==
  ASSUME NEW row \in Row
  PROVE  \E new \in Row : /\ new = [row EXCEPT !.supplier = TRUE]
                          /\ new.kind = row.kind /\ new.payable = row.payable /\ new.payment = row.payment
<1>1. [row EXCEPT !.supplier = TRUE] \in Row
  BY DEF Row
<1> QED  BY <1>1 DEF Row

LEMMA SupplierKnownStep ==
  ASSUME Inv, NEW r \in Requests, SupplierKnown(r), plan' = plan
  PROVE  Onward
<1>1. At(r, "step") /\ ~At(r, "idle") /\ UNCHANGED <<series, omie, flying, excuse, plan>>
  BY DEF SupplierKnown, AtStep, At
<1>2. PICK mine \in Row, l \in Lines : mine = Seen(r) /\ l = Line(r)
  BY <1>1, Known
<1>3. /\ mine.step = "fornecedor" /\ mine.kind # "none"
      /\ Alone(l) => mine = posting[l] /\ (mine = NoRow \/ Coherent(mine)) /\ AloneFacts(l, mine)
      /\ Clean(l) => Alone(l) /\ CleanFacts(l, mine)
      /\ mine.payable # NoKey => Held(l, mine.payable)
  BY <1>1, <1>2, Known DEF SupplierKnown, AtStep, At
<1>4. PICK base \in Row : /\ base = [mine EXCEPT !.supplier = TRUE]
                          /\ base.kind = mine.kind /\ base.payable = mine.payable /\ base.payment = mine.payment
  BY SuppliedIs
<1>5. PICK new \in Row : /\ new = Advance(base, "titulo") /\ new.kind = mine.kind /\ new.step = "titulo"
                         /\ new.attempts = 0 /\ new.payable = mine.payable /\ new.payment = mine.payment
  <2>1. /\ Advance(base, "titulo") \in Row /\ Advance(base, "titulo").step = "titulo"
        /\ Advance(base, "titulo").kind = base.kind /\ Advance(base, "titulo").attempts = 0
        /\ Advance(base, "titulo").payable = base.payable /\ Advance(base, "titulo").payment = base.payment
    BY AdvanceIs
  <2> QED  BY <1>4, <2>1
<1>6. Store(r, new, "step")
  BY <1>2, <1>4, <1>5 DEF SupplierKnown
<1>7. Alone(l) => mine.kind = "provisao"
  BY <1>3, NoRowIs DEF Coherent
<1>8. Alone(l) => AloneFacts(l, new) /\ Ahead(l, posting[l], new)
  BY <1>3, <1>5, <1>7, ZeroIs, Ranks DEF AloneFacts, Ahead
<1>9. Clean(l) => CleanFacts(l, new)
  BY <1>3, <1>7 DEF CleanFacts, SentDirect
<1> QED  BY <1>1, <1>2, <1>3, <1>5, <1>6, <1>8, <1>9, ZeroIs, Plain

LEMMA SupplierPendingStep ==
  ASSUME Inv, NEW r \in Requests, SupplierPending(r), plan' = plan
  PROVE  Onward
<1>1. At(r, "step") /\ ~At(r, "idle") /\ UNCHANGED <<series, omie, flying, excuse, plan>>
  BY DEF SupplierPending, AtStep, At
<1>2. PICK mine \in Row, l \in Lines : mine = Seen(r) /\ l = Line(r)
  BY <1>1, Known
<1>3. /\ mine.step = "fornecedor" /\ mine.kind # "none"
      /\ Alone(l) => mine = posting[l] /\ (mine = NoRow \/ Coherent(mine)) /\ AloneFacts(l, mine)
      /\ Clean(l) => Alone(l) /\ CleanFacts(l, mine)
      /\ mine.payable # NoKey => Held(l, mine.payable)
  BY <1>1, <1>2, Known DEF SupplierPending, AtStep, At
<1>4. CASE End(r) /\ UNCHANGED posting
  BY <1>1, <1>4, EndedIn
<1>5. CASE Store(r, Failed(mine), "idle")
  <2>1. PICK new \in Row : /\ new = Failed(mine) /\ new.kind = mine.kind /\ new.step = mine.step
                           /\ new.status = "failed"
                           /\ new.attempts = 0 /\ new.payable = mine.payable /\ new.payment = mine.payment
    BY FailedIs
  <2>2. Alone(l) => mine.kind = "provisao"
    BY <1>3, NoRowIs DEF Coherent
  <2>3. Alone(l) => AloneFacts(l, new) /\ Ahead(l, posting[l], new)
    BY <1>3, <2>1, <2>2, Ranks DEF AloneFacts, Ahead
  <2>4. Clean(l) => CleanFacts(l, new)
    BY <1>3, <2>2 DEF CleanFacts, SentDirect
  <2> QED  BY <1>1, <1>2, <1>3, <1>5, <2>1, <2>3, <2>4, Plain
<1> QED  BY <1>2, <1>4, <1>5 DEF SupplierPending

LEMMA SearchStep ==
  ASSUME Inv, NEW r \in Requests, Search(r), plan' = plan
  PROVE  Onward
<1>1. /\ At(r, "step") /\ ~At(r, "idle") /\ UNCHANGED <<posting, series, omie, flying, excuse, plan>>
      /\ Seen(r).step = "titulo"
  BY DEF Search, AtStep, At
<1>2. PICK mine \in Row, l \in Lines : mine = Seen(r) /\ l = Line(r)
  BY <1>1, Known
<1>3. /\ task[r] \in Task /\ task[r].line = l /\ task[r].seen = mine /\ task[r].pc = "step"
      /\ mine.kind # "none" /\ StepFacts(r)
  BY <1>1, <1>2, Known DEF Inv, TaskInv, Line, Seen, At
<1>4. Alone(l) /\ mine.status = "pending" => mine.attempts < MaxSends
  BY <1>2, <1>3 DEF StepFacts
<1>5. CASE task' = [task EXCEPT ![r].missed = TRUE]
  <2>1. PICK t \in Task : t = [task[r] EXCEPT !.missed = TRUE]
    BY <1>3 DEF Task
  <2>2. task' = [task EXCEPT ![r] = t] /\ t.line = l /\ t.seen = mine /\ t.pc = "step"
    BY <1>3, <1>5, <2>1 DEF Task
  <2> QED  BY <1>1, <1>2, <1>3, <1>4, <2>2, Moved
<1>6. CASE \E k \in Keys : task' = [task EXCEPT ![r].pc = "claim", ![r].key = k]
  <2>1. PICK k \in Keys : task' = [task EXCEPT ![r].pc = "claim", ![r].key = k]
    BY <1>6
  <2>2. PICK t \in Task : t = [task[r] EXCEPT !.pc = "claim", !.key = k]
    BY <1>3 DEF Task, PCs
  <2>3. task' = [task EXCEPT ![r] = t] /\ t.line = l /\ t.seen = mine /\ t.pc = "claim" /\ t.key = k
    BY <1>3, <2>1, <2>2 DEF Task
  <2> QED  BY <1>1, <1>2, <1>3, <1>4, <2>3, Moved
<1>7. CASE End(r)
  BY <1>1, <1>7, EndedIn
<1>8. InSeries(Line(r), Number[Line(r)]) \subseteq Keys
  BY DEF InSeries, Waiting
<1> QED  BY <1>5, <1>6, <1>7, <1>8 DEF Search

LEMMA ClaimLostStep ==
  ASSUME Inv, NEW r \in Requests, ClaimLost(r), plan' = plan
  PROVE  Onward
<1>1. At(r, "claim") /\ ~At(r, "idle") /\ UNCHANGED <<posting, series, omie, flying, excuse, plan>>
  BY DEF ClaimLost, At
<1>2. PICK mine \in Row, l \in Lines : mine = Seen(r) /\ l = Line(r)
  BY <1>1, Known
<1>3. /\ task[r] \in Task /\ task[r].line = l /\ task[r].seen = mine /\ task[r].pc = "claim"
      /\ mine.kind # "none" /\ StepFacts(r)
  BY <1>1, <1>2, Known DEF Inv, TaskInv, Line, Seen, At
<1>4. Alone(l) /\ mine.status = "pending" => mine.attempts < MaxSends
  BY <1>2, <1>3 DEF StepFacts
<1>5. PICK missed \in BOOLEAN : task' = [task EXCEPT ![r] = [task[r] EXCEPT !.pc = "step", !.key = NoKey, !.missed = missed]]
  <2>1. CASE task' = [task EXCEPT ![r].pc = "step", ![r].key = NoKey]
    <3>1. [task[r] EXCEPT !.pc = "step", !.key = NoKey]
            = [task[r] EXCEPT !.pc = "step", !.key = NoKey, !.missed = task[r].missed]
      BY <1>3 DEF Task
    <3>2. task' = [task EXCEPT ![r] = [task[r] EXCEPT !.pc = "step", !.key = NoKey]]
      BY <2>1
    <3>3. task[r].missed \in BOOLEAN
      BY <1>3 DEF Task
    <3> QED  BY <3>1, <3>2, <3>3
  <2>2. CASE task' = [task EXCEPT ![r].pc = "step", ![r].key = NoKey, ![r].missed = TRUE]
    BY <2>2
  <2> QED  BY <2>1, <2>2 DEF ClaimLost
<1>6. PICK t \in Task : t = [task[r] EXCEPT !.pc = "step", !.key = NoKey, !.missed = missed]
  BY <1>3 DEF Task, PCs
<1>7. task' = [task EXCEPT ![r] = t] /\ t.line = l /\ t.seen = mine /\ t.pc = "step"
  BY <1>3, <1>5, <1>6 DEF Task
<1> QED  BY <1>1, <1>2, <1>3, <1>4, <1>7, Moved

LEMMA ClaimStep ==
  ASSUME Inv, NEW r \in Requests, Claim(r), plan' = plan
  PROVE  Onward
<1>1. /\ At(r, "claim") /\ ~At(r, "idle") /\ UNCHANGED <<omie, flying, plan>>
      /\ Claimable(task[r].key)
  BY DEF Claim, At
<1>2. PICK mine \in Row, l \in Lines, row \in Row : mine = Seen(r) /\ l = Line(r) /\ row = posting[l]
  BY <1>1, Known
<1>0. /\ excuse' \in [Lines -> SUBSET {"race", "retry", "order"}]
      /\ \A m \in Lines : excuse[m] \subseteq excuse'[m]
  <2>1. Excused(l, "order") \/ UNCHANGED excuse
    BY <1>2 DEF Claim
  <2> QED  BY <2>1, ExcusedIs DEF Inv, Types
<1>3. /\ mine.kind # "none"
      /\ Alone(l) => mine = row /\ (mine = NoRow \/ Coherent(mine)) /\ AloneFacts(l, mine)
      /\ Clean(l) => Alone(l) /\ CleanFacts(l, mine)
      /\ LineFacts(l, row)
      /\ mine.step = "titulo" /\ task[r].key \in Keys
  BY <1>1, <1>2, Known DEF Inv, TaskInv, StepFacts, At
<1>4. PICK k \in Keys, step \in {"titulo", "baixa", "concluido"} :
        k = task[r].key /\ step = AfterTitle(l) /\ step # "titulo"
  BY <1>3 DEF AfterTitle
<1>5. PICK base \in Row : base = [mine EXCEPT !.payable = k] /\ base.kind = mine.kind /\ base.payable = k
                          /\ base.payment = mine.payment
  <2>1. [mine EXCEPT !.payable = k] \in Row
    BY DEF Row
  <2> QED  BY <2>1 DEF Row
<1>6. PICK new \in Row : /\ new = Advance(base, step) /\ new.kind = mine.kind /\ new.step = step
                         /\ new.attempts = 0 /\ new.payable = k /\ new.payment = mine.payment
  <2>1. /\ Advance(base, step) \in Row /\ Advance(base, step).step = step
        /\ Advance(base, step).kind = base.kind /\ Advance(base, step).attempts = 0
        /\ Advance(base, step).payable = base.payable /\ Advance(base, step).payment = base.payment
    BY AdvanceIs
  <2> QED  BY <1>5, <2>1
<1>7. /\ Store(r, new, "step")
      /\ series' = IF Coherent(Flushed(r, new)) THEN [series EXCEPT ![k].claimed = l] ELSE series
  BY <1>2, <1>4, <1>5, <1>6 DEF Claim
<1>8. CASE ~Coherent(Flushed(r, new))
  BY <1>0, <1>1, <1>7, <1>8, EndedMarked DEF Store
<1>9. CASE Coherent(Flushed(r, new))
  <2>1. series \in [Keys -> Installment] /\ series' = [series EXCEPT ![k].claimed = l] /\ Effects' = Effects
    BY <1>1, <1>7, <1>9 DEF Inv, Types, Effects
  <2>2. series[k].done /\ series[k].claimed = NoLine /\ series[k].there /\ Title(k) \in omie
    BY <1>1, <1>4 DEF Claimable, Inv, SeriesInv
  <2>3. \A j \in Keys : /\ series'[j].there = series[j].there /\ series'[j].done = series[j].done
                        /\ series'[j].claimed = IF j = k THEN l ELSE series[j].claimed
    BY <2>1 DEF Installment
  <2>4. series' \in [Keys -> Installment]
    BY <2>1 DEF Installment
  <2>5. Grows
    BY <1>0, <1>1, <2>2, <2>3, <2>4, KeysAre DEF Grows, Inv, Types
  <2>6. SeriesInv'
    BY <1>1, <2>1, <2>2, <2>3 DEF Inv, SeriesInv
  <2>7. Spared(l)
    BY <2>1 DEF Spared
  <2>8. LineFacts(l, row)'
    BY <1>3, <2>1, <2>5, RowStays
  <2>9. Held(l, k)'
    BY <1>1, <2>2, <2>3 DEF Held
  <2>10. Alone(l)' => Alone(l) /\ mine.kind = "provisao"
    BY <1>3, <2>5, NoRowIs, ExcusesStay DEF Coherent
  <2>11. Alone(l)' => AloneFacts(l, new)' /\ Ahead(l, row, new)
    <3>1. Alone(l)' => AloneFacts(l, new)'
      BY <1>3, <1>4, <1>6, <2>1, <2>10, ZeroIs DEF AloneFacts
    <3>2. Alone(l)' => Ahead(l, row, new)
      BY <1>3, <1>4, <1>6, <2>10, Ranks DEF AloneFacts, Ahead
    <3> QED  BY <3>1, <3>2
  <2>12. Clean(l)' => CleanFacts(l, new)'
    BY <1>3, <2>1, <2>5, <2>10, ExcusesStay DEF CleanFacts, SentDirect
  <2>13. new.payable # NoKey
    BY <1>6, KeysAre
  <2> QED  BY <1>1, <1>2, <1>3, <1>6, <1>7, <1>9, <2>5, <2>6, <2>7, <2>8, <2>9, <2>11, <2>12, <2>13,
              ZeroIs, Committed
<1> QED  BY <1>8, <1>9

LEMMA RestSteps ==
  ASSUME Inv, NEW r \in Requests, Abort(r) \/ Concluded(r) \/ Done(r), plan' = plan
  PROVE  Onward
<1>1. CASE Abort(r)
  BY <1>1, EndedIn DEF Abort
<1>2. CASE Concluded(r)
  <2>1. At(r, "step") /\ ~At(r, "idle") /\ Goto(r, "after")
        /\ UNCHANGED <<posting, series, omie, flying, excuse, plan>>
    BY <1>2 DEF Concluded, AtStep, At
  <2>2. PICK mine \in Row, l \in Lines : mine = Seen(r) /\ l = Line(r)
    BY <2>1, Known
  <2>3. mine.kind # "none"
    BY <2>1, <2>2, Known DEF At
  <2>4. PICK t \in Task : /\ task' = [task EXCEPT ![r] = t] /\ t.line = l /\ t.seen = mine /\ t.pc = "after"
    BY <2>1, <2>2, GotoIs DEF PCs
  <2> QED  BY <2>1, <2>2, <2>3, <2>4, Moved
<1>3. CASE Done(r)
  <2>1. ~At(r, "idle")
    BY <1>3 DEF Done, At
  <2> QED  BY <1>3, <2>1, EndedIn DEF Done
<1> QED  BY <1>1, <1>2, <1>3

-------------------------------------------------------------------------------
(* The POSTs.                                                               *)

\* A send counted in the row and in the request's copy of it, for a reason the copy gives.
LEMMA Sending ==
  ASSUME Inv, UNCHANGED <<series, omie, flying, plan>>,
         excuse' \in [Lines -> SUBSET {"race", "retry", "order"}],
         \A m \in Lines : excuse[m] \subseteq excuse'[m],
         NEW r \in Requests, ~At(r, "idle"), NEW l \in Lines, l = Line(r),
         NEW put \in Row, posting' = [posting EXCEPT ![l] = put], NEW sent \in Row,
         NEW effect \in Effect \cup {Nothing},
         task' = [task EXCEPT ![r] = [task[r] EXCEPT !.pc = "post", !.post = effect, !.seen = sent]],
         Coherent(put), sent.kind # "none",
         put.payable # NoKey => Held(l, put.payable), sent.payable # NoKey => Held(l, sent.payable),
         sent.step \in {"baixa", "concluido"} => sent.payable # NoKey,
         Alone(l) => put = sent /\ AloneFacts(l, put) /\ Ahead(l, posting[l], put),
         Clean(l) => CleanFacts(l, put),
         \/ effect = Nothing /\ sent.step = "fornecedor"
         \/ effect = Title(Own(l)) /\ sent.step = "titulo"
         \/ effect = Payment(l, sent.payable) /\ sent.step = "baixa"
         \/ /\ effect = Lancamento(l)
            /\ Alone(l) => SentDirect(sent)
            /\ Clean(l) /\ Lancamento(l) \in Effects => sent.attempts # 1
  PROVE  Onward
<1>1. Grows /\ SeriesInv' /\ Effects' = Effects
  <2>1. Effects' = Effects
    BY DEF Effects
  <2> QED  BY <2>1 DEF Inv, Types, SeriesInv, Grows
<1>2. Spared(l) /\ Owner(r, l)
  BY <1>1, OwnerIs DEF Spared
<1>3. PICK row \in Row : row = posting[l] /\ LineFacts(l, row)
  BY DEF Inv, Types, LineInv
<1>4. PICK t \in Task : /\ task' = [task EXCEPT ![r] = t] /\ t = task'[r]
                        /\ t.pc = "post" /\ t.post = effect /\ t.seen = sent /\ t.line = l
  <2>1. task \in [Requests -> Task] /\ task[r] \in Task /\ task[r].line = l
    BY DEF Inv, Types, Line
  <2>2. PICK t \in Task : t = [task[r] EXCEPT !.pc = "post", !.post = effect, !.seen = sent]
    BY <2>1 DEF Task, PCs
  <2>3. t.pc = "post" /\ t.post = effect /\ t.seen = sent /\ t.line = l
    BY <2>1, <2>2 DEF Task
  <2> QED  BY <2>1, <2>2, <2>3
<1>5. put.kind # "none" /\ posting'[l] = put
  BY DEF Coherent, Inv, Types
<1>6. /\ Alone(l)' => Alone(l)
      /\ Clean(l)' => Clean(l)
      /\ \A k : Held(l, k)' <=> Held(l, k)
  BY <1>1, ExcusesStay DEF Held
<1>7. LineInv(l)'
  <2>1. LineFacts(l, row)'
    BY <1>1, <1>3, RowStays
  <2>2. Alone(l)' => AloneFacts(l, put)'
    BY <1>1, <1>6 DEF AloneFacts
  <2>3. Clean(l)' => CleanFacts(l, put)'
    BY <1>1, <1>6 DEF CleanFacts
  <2>4. LineFacts(l, put)'
    BY <1>5, <1>6, <2>1, <2>2, <2>3 DEF LineFacts
  <2> QED  BY <1>5, <2>4 DEF LineInv, LineFacts, AloneFacts, CleanFacts
<1>8. TaskInv(r)'
  <2>1. Line(r)' = l /\ Seen(r)' = sent /\ task'[r] = t
    BY <1>4 DEF Line, Seen
  <2>2. SeenFacts(r)'
    BY <1>5, <1>6, <2>1 DEF SeenFacts, Held
  <2>3. StepFacts(r)'
    BY <1>4, <2>1 DEF StepFacts, At
  <2>4. PostFacts(r)'
    BY <1>1, <1>4, <1>6, <2>1 DEF PostFacts, At
  <2> QED  BY <2>1, <2>2, <2>3, <2>4 DEF TaskInv
<1>9. Forward(l)
  BY <1>5, <1>6 DEF Forward, Ahead, Alone
<1> QED  BY <1>1, <1>2, <1>4, <1>5, <1>7, <1>8, <1>9, Rest

LEMMA CountAndPostStep ==
  ASSUME Inv, UNCHANGED <<series, omie, flying, plan>>,
         excuse' \in [Lines -> SUBSET {"race", "retry", "order"}],
         \A m \in Lines : excuse[m] \subseteq excuse'[m],
         NEW r \in Requests, At(r, "step"), NEW l, l = Line(r), NEW mine, mine = Seen(r),
         NEW effect \in Effect \cup {Nothing}, CountAndPost(r, effect),
         \/ effect = Nothing /\ mine.step = "fornecedor"
         \/ effect = Title(Own(l)) /\ mine.step = "titulo"
         \/ effect = Payment(l, mine.payable) /\ mine.step = "baixa"
  PROVE  Onward
<1>1. ~At(r, "idle") /\ posting[l].attempts < MaxAttempts /\ mine.attempts < MaxAttempts
  BY DEF At, CountAndPost
<1>2. l \in Lines /\ mine \in Row /\ StepFacts(r)
  BY <1>1, Known DEF Inv, TaskInv
<1>3. PICK row \in Row : row = posting[l]
  BY <1>1, Known
<1>4. /\ mine.payable # NoKey => Held(l, mine.payable)
      /\ mine.step \in {"baixa", "concluido"} => mine.payable # NoKey
      /\ mine.kind # "none" /\ row.kind # "none"
      /\ Alone(l) => mine = row /\ (mine = NoRow \/ Coherent(mine)) /\ AloneFacts(l, mine)
      /\ Clean(l) => Alone(l) /\ CleanFacts(l, mine)
      /\ LineFacts(l, row)
  BY <1>1, <1>3, Known DEF At
<1>5. PICK put \in Row : /\ put = Counted(row) /\ put.attempts = row.attempts + 1 /\ row.attempts \in Nat
                         /\ put.kind = row.kind /\ put.step = row.step /\ put.status = row.status
                         /\ put.payable = row.payable /\ put.payment = row.payment
                         /\ put.fault = row.fault /\ (Coherent(row) => Coherent(put))
  BY <1>1, <1>3, CountedIs
<1>6. PICK sent \in Row : sent = Counted(mine) /\ sent.kind = mine.kind /\ sent.step = mine.step /\ sent.payable = mine.payable
  BY <1>1, <1>2, CountedIs
<1>7. /\ posting' = [posting EXCEPT ![l] = put]
      /\ task' = [task EXCEPT ![r] = [task[r] EXCEPT !.pc = "post", !.post = effect, !.seen = sent]]
  BY <1>3, <1>5, <1>6 DEF CountAndPost
<1>8. Coherent(put) /\ (put.payable # NoKey => Held(l, put.payable))
  BY <1>4, <1>5, NoRowIs DEF LineFacts
<1>9. Alone(l) => mine.kind = "provisao"
  BY <1>4, NoRowIs DEF Coherent
<1>10. Alone(l) /\ mine.status = "pending" => mine.attempts < MaxSends
  BY <1>2 DEF StepFacts, At
<1>11. Alone(l) => AloneFacts(l, put)
  <2>1. Alone(l) /\ row.status = "pending" => row.attempts + 1 <= MaxSends
    BY <1>4, <1>5, <1>10, ZeroIs
  <2> QED  BY <1>4, <1>5, <1>9, <2>1 DEF AloneFacts
<1>12. Alone(l) => put = sent /\ Ahead(l, posting[l], put)
  BY <1>3, <1>4, <1>5, <1>6, <1>9, Ranks DEF Ahead
<1>13. Clean(l) => CleanFacts(l, put)
  BY <1>4, <1>9 DEF CleanFacts, SentDirect
<1>14. /\ sent.kind # "none" /\ (sent.payable # NoKey => Held(l, sent.payable))
       /\ sent.step \in {"baixa", "concluido"} => sent.payable # NoKey
  BY <1>4, <1>6
<1>15. \/ effect = Nothing /\ sent.step = "fornecedor"
       \/ effect = Title(Own(l)) /\ sent.step = "titulo"
       \/ effect = Payment(l, sent.payable) /\ sent.step = "baixa"
  BY <1>6
<1>16. Alone(l) => put = sent /\ AloneFacts(l, put) /\ Ahead(l, posting[l], put)
  BY <1>11, <1>12
<1>17. \/ effect = Nothing /\ sent.step = "fornecedor"
       \/ effect = Title(Own(l)) /\ sent.step = "titulo"
       \/ effect = Payment(l, sent.payable) /\ sent.step = "baixa"
       \/ /\ effect = Lancamento(l)
          /\ Alone(l) => SentDirect(sent)
          /\ Clean(l) /\ Lancamento(l) \in Effects => sent.attempts # 1
  BY <1>15
<1>18. ~At(r, "idle") /\ l \in Lines /\ l = Line(r)
  BY <1>1, <1>2
<1> QED  BY <1>18, <1>7, <1>8, <1>13, <1>14, <1>16, <1>17, Sending

LEMMA SendSteps ==
  ASSUME Inv, NEW r \in Requests, SendSupplier(r) \/ SendTitle(r) \/ SendPayment(r), plan' = plan
  PROVE  Onward
<1>1. /\ At(r, "step") /\ ~At(r, "idle") /\ UNCHANGED <<series, omie, flying, plan>>
      /\ excuse \in [Lines -> SUBSET {"race", "retry", "order"}]
  BY DEF SendSupplier, SendTitle, SendPayment, AtStep, At, Inv, Types
<1>2. PICK mine \in Row, l \in Lines : mine = Seen(r) /\ l = Line(r)
  BY <1>1, Known
<1>3. CASE SendSupplier(r)
  BY <1>1, <1>2, <1>3, CountAndPostStep DEF SendSupplier, AtStep
<1>4. CASE SendTitle(r)
  <2>1. /\ excuse' \in [Lines -> SUBSET {"race", "retry", "order"}]
        /\ \A m \in Lines : excuse[m] \subseteq excuse'[m]
    <3>1. Excused(l, "order") \/ UNCHANGED excuse
      BY <1>2, <1>4 DEF SendTitle
    <3> QED  BY <1>1, <3>1, ExcusedIs
  <2>2. Title(Own(l)) \in Effect
    BY KeysAre, EffectsAre
  <2>3. CountAndPost(r, Title(Own(l))) /\ mine.step = "titulo"
    BY <1>2, <1>4 DEF SendTitle, AtStep
  <2> QED  BY <1>1, <1>2, <2>1, <2>2, <2>3, CountAndPostStep
<1>5. CASE SendPayment(r)
  <2>1. CountAndPost(r, Payment(l, mine.payable)) /\ mine.step = "baixa" /\ excuse' = excuse
    BY <1>2, <1>5 DEF SendPayment, AtStep
  <2>2. mine.payable \in Keys
    BY <1>1, <1>2, <2>1, Known
  <2>3. Payment(l, mine.payable) \in Effect
    BY <2>2, EffectsAre
  <2> QED  BY <1>1, <1>2, <2>1, <2>3, CountAndPostStep
<1> QED  BY <1>3, <1>4, <1>5

LEMMA SendDirectStep ==
  ASSUME Inv, NEW r \in Requests, SendDirect(r), plan' = plan
  PROVE  Onward
<1>1. /\ At(r, "lanc") /\ ~At(r, "idle") /\ UNCHANGED <<series, omie, flying, excuse, plan>>
      /\ excuse \in [Lines -> SUBSET {"race", "retry", "order"}]
  BY DEF SendDirect, At, Inv, Types
<1>2. PICK old \in Row, seen \in Row, l \in Lines : old = posting[l] /\ seen = Seen(r) /\ l = Line(r)
  BY <1>1, Known
<1>3. /\ seen.payable # NoKey => Held(l, seen.payable)
      /\ seen.step \in {"baixa", "concluido"} => seen.payable # NoKey
      /\ Alone(l) => seen = old /\ (seen = NoRow \/ Coherent(seen)) /\ AloneFacts(l, seen)
      /\ Clean(l) => Alone(l) /\ CleanFacts(l, seen)
      /\ LineFacts(l, old)
  BY <1>1, <1>2, Known
<1>4. Alone(l) => seen.kind # "provisao"
  BY <1>1, <1>2 DEF Inv, TaskInv, StepFacts
<1>5. PICK row \in Row, mine \in Row :
        /\ row = IF old = NoRow THEN Fresh("direto") ELSE old
        /\ mine = IF seen.kind = "none" THEN row ELSE seen
        /\ row.attempts < MaxAttempts /\ mine.attempts < MaxAttempts
        /\ posting' = [posting EXCEPT ![l] = Counted(row)]
        /\ task' = [task EXCEPT ![r] = [task[r] EXCEPT !.pc = "post", !.post = Lancamento(l),
                                                       !.seen = Counted(mine)]]
  BY <1>2, FreshIs DEF SendDirect
<1>6. PICK put \in Row : /\ put = Counted(row) /\ put.attempts = row.attempts + 1 /\ row.attempts \in Nat
                         /\ put.kind = row.kind /\ put.step = row.step /\ put.status = row.status
                         /\ put.payable = row.payable /\ put.payment = row.payment
                         /\ put.fault = row.fault /\ (Coherent(row) => Coherent(put))
  BY <1>5, CountedIs
<1>7. PICK sent \in Row : sent = Counted(mine) /\ sent.kind = mine.kind /\ sent.step = mine.step /\ sent.payable = mine.payable
  BY <1>5, CountedIs
<1>8. /\ Coherent(row) /\ (row.payable # NoKey => Held(l, row.payable))
      /\ row.step \in {"baixa", "concluido"} => row.payable # NoKey
  BY <1>3, <1>5, FreshIs DEF LineFacts, Coherent
<1>9. /\ mine.kind # "none" /\ (mine.payable # NoKey => Held(l, mine.payable))
      /\ mine.step \in {"baixa", "concluido"} => mine.payable # NoKey
  BY <1>3, <1>5, <1>8 DEF Coherent
<1>10. Alone(l) => /\ mine = row /\ row.kind = "direto" /\ row.step = "none"
                   /\ ~row.payment /\ row.payable = NoKey
                   /\ row.attempts = 0 => ~row.fault
  <2>1. CASE old = NoRow
    BY <1>3, <1>5, <2>1, NoRowIs, FreshIs DEF AloneFacts
  <2>2. CASE old # NoRow
    BY <1>3, <1>4, <1>5, <2>2 DEF Coherent, AloneFacts
  <2> QED  BY <2>1, <2>2
<1>11. Alone(l) => put = sent /\ SentDirect(put)
  BY <1>5, <1>6, <1>7, <1>10 DEF SentDirect
<1>12. Alone(l) => AloneFacts(l, put) /\ Ahead(l, old, put)
  <2>1. Alone(l) => Title(Own(l)) \notin Effects /\ \A k \in Keys : Payment(l, k) \notin Effects
    BY <1>3, <1>4, NoRowIs DEF AloneFacts, Coherent
  <2> QED  BY <1>3, <1>4, <1>6, <1>10, <2>1 DEF AloneFacts, Ahead
<1>13. Clean(l) => CleanFacts(l, put)
  BY <1>3, <1>11 DEF CleanFacts
<1>14. Clean(l) /\ Lancamento(l) \in Effects => sent.attempts # 1
  <2>1. Clean(l) /\ Lancamento(l) \in Effects => old = row /\ row.attempts # 0
    BY <1>3, <1>5, NoRowIs DEF CleanFacts, SentDirect
  <2> QED  BY <1>3, <1>6, <1>11, <2>1
<1>15. Lancamento(l) \in Effect /\ Coherent(put) /\ (put.payable # NoKey => Held(l, put.payable))
  BY <1>6, <1>8, EffectsAre, KeysAre
<1>16. /\ sent.kind # "none" /\ (sent.payable # NoKey => Held(l, sent.payable))
       /\ sent.step \in {"baixa", "concluido"} => sent.payable # NoKey
  BY <1>7, <1>9
<1>17. /\ posting' = [posting EXCEPT ![l] = put]
       /\ task' = [task EXCEPT ![r] = [task[r] EXCEPT !.pc = "post", !.post = Lancamento(l), !.seen = sent]]
  BY <1>5, <1>6, <1>7
<1>18. Alone(l) => put = sent /\ SentDirect(sent) /\ AloneFacts(l, put) /\ Ahead(l, posting[l], put)
  BY <1>2, <1>11, <1>12
<1> QED  BY <1>1, <1>2, <1>13, <1>14, <1>15, <1>16, <1>17, <1>18, Sending

-------------------------------------------------------------------------------
(* What becomes of a POST.                                                  *)

\* An effect that happens, or may, adds itself and nothing else.
LEMMA EffectGrows ==
  ASSUME Inv, NEW effect \in Effect \cup {Nothing},
         (Happens(effect) /\ flying' = flying) \/ MayHappen(effect)
  PROVE  /\ omie \subseteq omie' /\ omie' \subseteq Effect /\ flying' \subseteq Effect
         /\ \A e : e \in Effects' => e \in Effects \/ e = effect
<1>1. omie \subseteq Effect /\ flying \subseteq Effect /\ {effect} \ {Nothing} \subseteq Effect
  BY DEF Inv, Types
<1>2. CASE Happens(effect) /\ flying' = flying
  BY <1>1, <1>2 DEF Happens, Effects
<1>3. CASE UNCHANGED <<omie, flying>>
  BY <1>1, <1>3 DEF Effects
<1>4. CASE effect.line \in Late /\ flying' = (flying) \cup {effect} /\ UNCHANGED omie
  <2>1. effect # Nothing
    BY <1>4, ProvisionConstants DEF Nothing
  <2> QED  BY <1>1, <1>4, <2>1 DEF Effects
<1> QED  BY <1>2, <1>3, <1>4 DEF MayHappen

\* While a request waits for its POST, what may happen is of its line, and its row allows it.
LEMMA PostWorld ==
  ASSUME Inv, NEW r \in Requests, At(r, "post"), NEW l, l = Line(r), NEW mine, mine = Seen(r),
         NEW effect, effect = task[r].post,
         (Happens(effect) /\ flying' = flying) \/ MayHappen(effect),
         series' = series, plan' = plan,
         excuse' \in [Lines -> SUBSET {"race", "retry", "order"}],
         \A m \in Lines : excuse[m] \subseteq excuse'[m]
  PROVE  /\ l \in Lines /\ mine \in Row /\ effect \in Effect \cup {Nothing}
         /\ Grows /\ SeriesInv' /\ Spared(l)
         /\ \A row \in Row : row = posting[l] => LineFacts(l, row)'
         /\ mine.kind # "none"
         /\ mine.step \in {"baixa", "concluido"} => mine.payable # NoKey
         /\ mine.payable # NoKey => Held(l, mine.payable)'
         /\ Alone(l)' => mine = posting[l] /\ Coherent(mine) /\ AloneFacts(l, mine)
         /\ Clean(l)' => Alone(l)' /\ Clean(l) /\ CleanFacts(l, mine)
         /\ Title(Own(l)) \in Effects' => Title(Own(l)) \in Effects \/ mine.step = "titulo"
         /\ \A k \in Keys : Payment(l, k) \in Effects' =>
              Payment(l, k) \in Effects \/ (mine.step = "baixa" /\ k = mine.payable)
         /\ Lancamento(l) \in Effects' => Lancamento(l) \in Effects \/ effect = Lancamento(l)
         /\ \/ effect = Nothing /\ mine.step = "fornecedor"
            \/ effect = Title(Own(l)) /\ mine.step = "titulo"
            \/ effect = Payment(l, mine.payable) /\ mine.step = "baixa"
            \/ /\ effect = Lancamento(l)
               /\ Alone(l) => SentDirect(mine)
               /\ Clean(l) /\ Lancamento(l) \in Effects => mine.attempts # 1
<1>1. ~At(r, "idle") /\ task[r] \in Task /\ PostFacts(r)
  BY DEF At, Inv, Types, TaskInv
<1>2. /\ l \in Lines /\ mine \in Row /\ effect \in Effect \cup {Nothing}
      /\ mine.payable \in Keys \cup {NoKey}
      /\ mine.payable # NoKey => Held(l, mine.payable)
      /\ mine.step \in {"baixa", "concluido"} => mine.payable # NoKey
      /\ mine.kind # "none" /\ posting[l].kind # "none"
      /\ Alone(l) => mine = posting[l] /\ (mine = NoRow \/ Coherent(mine)) /\ AloneFacts(l, mine)
      /\ Clean(l) => Alone(l) /\ CleanFacts(l, mine)
      /\ LineFacts(l, posting[l])
  BY <1>1, Known DEF At, Task
<1>3. \/ effect = Nothing /\ mine.step = "fornecedor"
      \/ effect = Title(Own(l)) /\ mine.step = "titulo"
      \/ effect = Payment(l, mine.payable) /\ mine.step = "baixa"
      \/ /\ effect = Lancamento(l)
         /\ Alone(l) => SentDirect(mine)
         /\ Clean(l) /\ Lancamento(l) \in Effects => mine.attempts # 1
  BY <1>1 DEF PostFacts
<1>4. /\ omie \subseteq omie' /\ omie' \subseteq Effect /\ flying' \subseteq Effect
      /\ \A e : e \in Effects' => e \in Effects \/ e = effect
  BY <1>2, EffectGrows
<1>5. Grows
  BY <1>4 DEF Grows, Inv, Types
<1>6. ASSUME NEW m \in Lines
      PROVE  /\ Title(Own(m)) \in Effects' => Title(Own(m)) \in Effects \/ (m = l /\ mine.step = "titulo")
             /\ Lancamento(m) \in Effects' => Lancamento(m) \in Effects \/ (m = l /\ effect = Lancamento(l))
             /\ \A k \in Keys : Payment(m, k) \in Effects' =>
                  Payment(m, k) \in Effects \/ (m = l /\ mine.step = "baixa" /\ k = mine.payable)
  <2>1. Own(m) \in Keys /\ Own(l) \in Keys /\ (Own(m) = Own(l) => m = l)
    BY <1>2, KeysAre
  <2>2. Title(Own(m)) = effect => m = l /\ mine.step = "titulo"
    <3>1. /\ Title(Own(m)) # Nothing /\ Title(Own(m)) # Payment(l, mine.payable)
          /\ Title(Own(m)) # Lancamento(l) /\ (Title(Own(m)) = Title(Own(l)) => Own(m) = Own(l))
      BY <1>2, <2>1, EffectsAre
    <3> QED  BY <1>3, <2>1, <3>1
  <2>3. Lancamento(m) = effect => m = l
    <3>1. /\ Lancamento(m) # Nothing /\ Payment(l, mine.payable) # Lancamento(m)
          /\ Title(Own(l)) # Lancamento(m) /\ (Lancamento(m) = Lancamento(l) => m = l)
      BY <1>2, EffectsAre
    <3> QED  BY <1>3, <3>1
  <2>4. ASSUME NEW k \in Keys, Payment(m, k) = effect
        PROVE  m = l /\ mine.step = "baixa" /\ k = mine.payable
    <3>1. /\ Payment(m, k) # Nothing /\ Payment(m, k) # Lancamento(l) /\ Title(Own(l)) # Payment(m, k)
          /\ (Payment(m, k) = Payment(l, mine.payable) => m = l /\ k = mine.payable)
      BY <1>2, EffectsAre
    <3> QED  BY <1>3, <2>4, <3>1
  <2> QED  BY <1>4, <2>2, <2>3, <2>4
<1>7. Spared(l)
  BY <1>6 DEF Spared
<1>8. SeriesInv'
  <2> SUFFICES ASSUME NEW k \in Keys, Title(k) \in Effects', Title(k) \notin Effects
               PROVE  k = Own(k[1])
    BY <1>4 DEF Inv, SeriesInv
  <2>1. Title(k) = effect
    BY <1>4
  <2>2. Title(k) # Nothing /\ Title(k) # Payment(l, mine.payable) /\ Title(k) # Lancamento(l)
    BY <1>2, EffectsAre
  <2>3. Title(k) = Title(Own(l)) => k = Own(l)
    BY <1>2, EffectsAre, KeysAre
  <2> QED  BY <1>2, <1>3, <2>1, <2>2, <2>3, KeysAre
<1>9. mine.payable # NoKey => Held(l, mine.payable)'
  BY <1>2, <1>5, HeldStays
<1>10. /\ Alone(l)' => Alone(l) /\ mine = posting[l] /\ Coherent(mine) /\ AloneFacts(l, mine)
       /\ Clean(l)' => Alone(l)' /\ Clean(l) /\ CleanFacts(l, mine)
  BY <1>2, <1>5, NoRowIs, ExcusesStay
<1>11. ASSUME NEW row \in Row, row = posting[l] PROVE LineFacts(l, row)'
  <2>1. /\ row = NoRow \/ Coherent(row)
        /\ row.payable # NoKey => Held(l, row.payable)'
        /\ \A k \in Keys : Payment(l, k) \in Effects' => Held(l, k)'
    <3>1. row.payable \in Keys \cup {NoKey}
      BY DEF Row
    <3>2. \A k \in Keys : Held(l, k) => Held(l, k)'
      BY <1>2, <1>5, HeldStays
    <3>3. (row = NoRow \/ Coherent(row)) /\ (row.payable # NoKey => Held(l, row.payable)')
      BY <1>2, <1>11, <3>1, <3>2 DEF LineFacts
    <3>4. ASSUME NEW k \in Keys, Payment(l, k) \in Effects' PROVE Held(l, k)'
      BY <1>2, <1>6, <1>9, <1>11, <3>2, <3>4 DEF LineFacts
    <3> QED  BY <3>3, <3>4
  <2>2. Alone(l)' => AloneFacts(l, row)'
    <3>1. \A x \in omie : x \in omie'
      BY <1>4
    <3> QED  BY <1>2, <1>6, <1>10, <1>11, <3>1 DEF AloneFacts, Coherent
  <2>3. Clean(l)' => CleanFacts(l, row)'
    <3>1. /\ Lancamento(l) # Nothing /\ Payment(l, mine.payable) # Lancamento(l)
          /\ Title(Own(l)) # Lancamento(l)
      BY <1>2, EffectsAre
    <3> QED  BY <1>2, <1>3, <1>6, <1>10, <1>11, <3>1 DEF CleanFacts
  <2> QED  BY <1>2, <1>11, <2>1, <2>2, <2>3 DEF LineFacts
<1> QED  BY <1>2, <1>3, <1>5, <1>6, <1>7, <1>8, <1>9, <1>10, <1>11

LEMMA LostStep ==
  ASSUME Inv, NEW r \in Requests, Lost(r), plan' = plan
  PROVE  Onward
<1>1. /\ At(r, "post") /\ ~At(r, "idle") /\ MayHappen(task[r].post) /\ End(r)
      /\ UNCHANGED <<posting, series, excuse, plan>>
  BY DEF Lost, At
<1>2. /\ excuse' \in [Lines -> SUBSET {"race", "retry", "order"}]
      /\ \A m \in Lines : excuse[m] \subseteq excuse'[m]
  BY <1>1 DEF Inv, Types
<1>3. PICK l, mine, effect : l = Line(r) /\ mine = Seen(r) /\ effect = task[r].post
  OBVIOUS
<1>4. /\ l \in Lines /\ Grows /\ SeriesInv' /\ Spared(l)
      /\ \A row \in Row : row = posting[l] => LineFacts(l, row)'
  BY <1>1, <1>2, <1>3, PostWorld
<1>5. PICK row \in Row : row = posting[l]
  BY <1>4 DEF Inv, Types
<1> QED  BY <1>1, <1>3, <1>4, <1>5, Dropped

LEMMA RefusedStep ==
  ASSUME Inv, NEW r \in Requests, Refused(r), plan' = plan
  PROVE  Onward
<1>1. /\ At(r, "post") /\ ~At(r, "idle") /\ MayHappen(task[r].post) /\ series' = series
  BY DEF Refused, At
<1>2. PICK l \in Lines, mine \in Row, effect \in {task[r].post} : l = Line(r) /\ mine = Seen(r) /\ effect = task[r].post
  BY <1>1, Known DEF At
<1>3. excuse \in [Lines -> SUBSET {"race", "retry", "order"}]
  BY DEF Inv, Types
<1>4. /\ excuse' \in [Lines -> SUBSET {"race", "retry", "order"}]
      /\ \A m \in Lines : excuse[m] \subseteq excuse'[m]
      /\ effect.what = "lanc" /\ Clean(l)' => UNCHANGED <<omie, flying>>
  <2>1. CASE effect.what = "lanc" /\ <<omie, flying>>' # <<omie, flying>>
    <3>1. Excused(l, "retry")
      BY <1>2, <2>1 DEF Refused
    <3> QED  BY <1>3, <3>1, ExcusedIs DEF Clean
  <2>2. CASE ~(effect.what = "lanc" /\ <<omie, flying>>' # <<omie, flying>>)
    <3>1. excuse' = excuse
      BY <1>2, <2>2 DEF Refused
    <3> QED  BY <1>3, <2>2, <3>1
  <2> QED  BY <2>1, <2>2
<1>5. /\ Grows /\ SeriesInv' /\ Spared(l)
      /\ \A row \in Row : row = posting[l] => LineFacts(l, row)'
  BY <1>1, <1>2, <1>4, PostWorld
<1>6. /\ mine.kind # "none"
      /\ mine.step \in {"baixa", "concluido"} => mine.payable # NoKey
      /\ mine.payable # NoKey => Held(l, mine.payable)'
      /\ Alone(l)' => mine = posting[l] /\ Coherent(mine) /\ AloneFacts(l, mine)
      /\ Clean(l)' => Alone(l)' /\ Clean(l) /\ CleanFacts(l, mine)
  BY <1>1, <1>2, <1>4, PostWorld
<1>7. /\ Title(Own(l)) \in Effects' => Title(Own(l)) \in Effects \/ mine.step = "titulo"
      /\ \A k \in Keys : Payment(l, k) \in Effects' =>
           Payment(l, k) \in Effects \/ (mine.step = "baixa" /\ k = mine.payable)
      /\ Lancamento(l) \in Effects' => Lancamento(l) \in Effects \/ effect = Lancamento(l)
  BY <1>1, <1>2, <1>4, PostWorld
<1>8. \/ effect.what # "lanc" /\ mine.step \in {"fornecedor", "titulo", "baixa"}
      \/ /\ effect.what = "lanc" /\ effect = Lancamento(l)
         /\ Alone(l) => SentDirect(mine)
         /\ Clean(l) /\ Lancamento(l) \in Effects => mine.attempts # 1
  <2>1. \/ effect = Nothing /\ mine.step = "fornecedor"
        \/ effect = Title(Own(l)) /\ mine.step = "titulo"
        \/ effect = Payment(l, mine.payable) /\ mine.step = "baixa"
        \/ /\ effect = Lancamento(l)
           /\ Alone(l) => SentDirect(mine)
           /\ Clean(l) /\ Lancamento(l) \in Effects => mine.attempts # 1
    BY <1>1, <1>2, <1>4, PostWorld
  <2> QED  BY <2>1, EffectsAre
<1>9. PICK row \in Row : row = posting[l] /\ LineFacts(l, row)'
  BY <1>5 DEF Inv, Types
<1>10. \A x \in omie : x \in omie'
  BY <1>5 DEF Grows
<1>11. CASE effect.what = "lanc"
  <2>1. PICK new \in Row : /\ new = [mine EXCEPT !.status = "failed", !.fault = TRUE]
                           /\ new.kind = mine.kind /\ new.step = mine.step /\ new.attempts = mine.attempts
                           /\ new.payable = mine.payable /\ new.payment = mine.payment
    <3> DEFINE m == [mine EXCEPT !.status = "failed", !.fault = TRUE]
    <3>1. m \in Row
      BY DEF Row
    <3>2. m.kind = mine.kind /\ m.step = mine.step /\ m.attempts = mine.attempts
      BY DEF Row
    <3>3. m.payable = mine.payable /\ m.payment = mine.payment
      BY DEF Row
    <3> QED  BY <3>1, <3>2, <3>3
  <2>2. new.status = "failed" /\ new.fault
    BY <2>1 DEF Row
  <2>3. Store(r, new, "idle")
    BY <1>2, <1>11, <2>1 DEF Refused
  <2>4. Alone(l)' => mine.kind = "direto" /\ mine.attempts # 0
    BY <1>5, <1>8, <1>11, ExcusesStay DEF SentDirect
  <2>5. Alone(l)' => AloneFacts(l, new)' /\ Ahead(l, row, new)
    <3>1. Alone(l)' => AloneFacts(l, new)'
      BY <1>6, <1>7, <1>10, <2>1, <2>2, <2>4 DEF AloneFacts, Coherent
    <3>2. Alone(l)' => Ahead(l, row, new)
      BY <1>6, <1>9, <2>4 DEF Ahead
    <3> QED  BY <3>1, <3>2
  <2>6. Clean(l)' => CleanFacts(l, new)'
    <3>1. Clean(l)' => Effects' = Effects
      BY <1>4, <1>11 DEF Effects
    <3> QED  BY <1>6, <1>8, <1>11, <2>1, <3>1 DEF CleanFacts, SentDirect
  <2> QED  BY <1>1, <1>2, <1>5, <1>6, <1>9, <2>1, <2>3, <2>5, <2>6, Written
<1>12. CASE effect.what # "lanc"
  <2>1. PICK new \in Row : /\ new = Failed(mine) /\ new.kind = mine.kind /\ new.step = mine.step
                           /\ new.status = "failed"
                           /\ new.attempts = 0 /\ new.payable = mine.payable /\ new.payment = mine.payment
    BY FailedIs
  <2>2. Store(r, new, "idle")
    BY <1>2, <1>12, <2>1 DEF Refused
  <2>3. Alone(l)' => mine.kind = "provisao"
    BY <1>6, <1>8, <1>12 DEF Coherent
  <2>4. Alone(l)' => AloneFacts(l, new)' /\ Ahead(l, row, new)
    <3>1. Alone(l)' => AloneFacts(l, new)'
      BY <1>6, <1>7, <1>8, <1>10, <1>12, <2>1, <2>3 DEF AloneFacts
    <3>2. Alone(l)' => Ahead(l, row, new)
      BY <1>6, <1>9, <2>1, <2>3, Ranks DEF Ahead
    <3> QED  BY <3>1, <3>2
  <2>5. Clean(l)' => CleanFacts(l, new)'
    BY <1>6, <1>7, <1>12, <2>3, EffectsAre DEF CleanFacts, SentDirect
  <2> QED  BY <1>1, <1>2, <1>5, <1>6, <1>9, <2>1, <2>2, <2>4, <2>5, Written
<1> QED  BY <1>11, <1>12

LEMMA AcceptedStep ==
  ASSUME Inv, NEW r \in Requests, Accepted(r), plan' = plan
  PROVE  Onward
<1>1. /\ At(r, "post") /\ ~At(r, "idle") /\ Happens(task[r].post) /\ series' = series
      /\ flying' = flying /\ excuse' = excuse
  BY DEF Accepted, At
<1>2. PICK l \in Lines, mine \in Row, effect \in {task[r].post} : l = Line(r) /\ mine = Seen(r) /\ effect = task[r].post
  BY <1>1, Known DEF At
<1>3. /\ excuse' \in [Lines -> SUBSET {"race", "retry", "order"}]
      /\ \A m \in Lines : excuse[m] \subseteq excuse'[m]
  BY <1>1 DEF Inv, Types
<1>4. /\ Grows /\ SeriesInv' /\ Spared(l)
      /\ \A row \in Row : row = posting[l] => LineFacts(l, row)'
  BY <1>1, <1>2, <1>3, PostWorld
<1>5. /\ mine.kind # "none"
      /\ mine.step \in {"baixa", "concluido"} => mine.payable # NoKey
      /\ mine.payable # NoKey => Held(l, mine.payable)'
      /\ Alone(l)' => mine = posting[l] /\ Coherent(mine) /\ AloneFacts(l, mine)
      /\ Clean(l)' => Alone(l)' /\ Clean(l) /\ CleanFacts(l, mine)
  BY <1>1, <1>2, <1>3, PostWorld
<1>6. /\ Title(Own(l)) \in Effects' => Title(Own(l)) \in Effects \/ mine.step = "titulo"
      /\ \A k \in Keys : Payment(l, k) \in Effects' =>
           Payment(l, k) \in Effects \/ (mine.step = "baixa" /\ k = mine.payable)
      /\ Lancamento(l) \in Effects' => Lancamento(l) \in Effects \/ effect = Lancamento(l)
  BY <1>1, <1>2, <1>3, PostWorld
<1>7. PICK row \in Row : row = posting[l] /\ LineFacts(l, row)'
  BY <1>4 DEF Inv, Types
<1>8. /\ effect # Nothing => effect \in omie'
      /\ \A x \in omie : x \in omie'
  BY <1>1, <1>2 DEF Happens
<1>9. /\ effect.what # "lanc" => effect # Lancamento(l)
      /\ mine.step \in {"fornecedor", "titulo", "baixa"} => (Alone(l)' => mine.kind = "provisao")
  BY <1>5, EffectsAre DEF Coherent
<1>10. CASE effect = Nothing /\ mine.step = "fornecedor"
  <2>1. effect.what = "supplier"
    BY <1>10, EffectsAre
  <2>2. PICK base \in Row : /\ base = [mine EXCEPT !.supplier = TRUE]
                            /\ base.kind = mine.kind /\ base.payable = mine.payable
                            /\ base.payment = mine.payment
    BY SuppliedIs
  <2>3. PICK new \in Row : /\ new = Advance(base, "titulo") /\ new.kind = mine.kind /\ new.step = "titulo"
                           /\ new.attempts = 0 /\ new.payable = mine.payable /\ new.payment = mine.payment
    <3>1. /\ Advance(base, "titulo") \in Row /\ Advance(base, "titulo").step = "titulo"
          /\ Advance(base, "titulo").kind = base.kind /\ Advance(base, "titulo").attempts = 0
          /\ Advance(base, "titulo").payable = base.payable /\ Advance(base, "titulo").payment = base.payment
      BY AdvanceIs
    <3> QED  BY <2>2, <3>1
  <2>4. Store(r, new, "step")
    BY <1>2, <2>1, <2>2, <2>3 DEF Accepted
  <2>5. Alone(l)' => AloneFacts(l, new)'
    BY <1>5, <1>6, <1>8, <1>9, <1>10, <2>3, ZeroIs DEF AloneFacts
  <2>6. Alone(l)' => Ahead(l, row, new)
    BY <1>5, <1>7, <1>9, <1>10, <2>3, Ranks DEF Ahead
  <2>7. Clean(l)' => CleanFacts(l, new)'
    BY <1>5, <1>6, <1>9, <1>10, <2>1 DEF CleanFacts, SentDirect
  <2> QED  BY <1>1, <1>2, <1>4, <1>5, <1>7, <2>3, <2>4, <2>5, <2>6, <2>7, ZeroIs, Written
<1>11. CASE effect = Title(Own(l)) /\ mine.step = "titulo"
  <2>1. effect.what = "title" /\ effect.key = Own(l) /\ effect \in omie' /\ Own(l) \in Keys /\ Own(l) # NoKey
    BY <1>8, <1>11, EffectsAre, KeysAre
  <2>2. PICK step \in {"titulo", "baixa", "concluido"} : step = AfterTitle(l) /\ step # "titulo"
    BY DEF AfterTitle
  <2>3. PICK base \in Row : base = [mine EXCEPT !.payable = Own(l)] /\ base.kind = mine.kind
                            /\ base.payable = Own(l) /\ base.payment = mine.payment
    <3>1. [mine EXCEPT !.payable = Own(l)] \in Row
      BY <2>1 DEF Row
    <3> QED  BY <3>1 DEF Row
  <2>4. PICK new \in Row : /\ new = Advance(base, step) /\ new.kind = mine.kind /\ new.step = step
                           /\ new.attempts = 0 /\ new.payable = Own(l) /\ new.payment = mine.payment
    <3>1. /\ Advance(base, step) \in Row /\ Advance(base, step).step = step
          /\ Advance(base, step).kind = base.kind /\ Advance(base, step).attempts = 0
          /\ Advance(base, step).payable = base.payable /\ Advance(base, step).payment = base.payment
      BY AdvanceIs
    <3> QED  BY <2>3, <3>1
  <2>5. Store(r, new, "step")
    BY <1>2, <2>1, <2>2, <2>3, <2>4 DEF Accepted
  <2>6. new.payable # NoKey => Held(l, new.payable)'
    BY <1>11, <2>1, <2>4 DEF Held
  <2>7. Alone(l)' => AloneFacts(l, new)'
    BY <1>5, <1>6, <1>9, <1>11, <2>2, <2>4, ZeroIs DEF AloneFacts
  <2>8. Alone(l)' => Ahead(l, row, new)
    BY <1>5, <1>7, <1>9, <1>11, <2>2, <2>4, Ranks DEF Ahead, AloneFacts
  <2>9. Clean(l)' => CleanFacts(l, new)'
    BY <1>5, <1>6, <1>9, <1>11, <2>1 DEF CleanFacts, SentDirect
  <2>10. new.payable # NoKey
    BY <2>1, <2>4
  <2> QED  BY <1>1, <1>2, <1>4, <1>5, <1>7, <2>4, <2>5, <2>6, <2>7, <2>8, <2>9, <2>10, ZeroIs, Written
<1>12. CASE effect = Payment(l, mine.payable) /\ mine.step = "baixa"
  <2>1. effect.what = "payment" /\ effect \in omie'
    BY <1>8, <1>12, EffectsAre
  <2>2. PICK base \in Row : base = [mine EXCEPT !.payment = TRUE] /\ base.kind = mine.kind
                            /\ base.payable = mine.payable /\ base.payment
    <3>1. [mine EXCEPT !.payment = TRUE] \in Row
      BY DEF Row
    <3> QED  BY <3>1 DEF Row
  <2>3. PICK new \in Row : /\ new = Advance(base, "concluido") /\ new.kind = mine.kind /\ new.step = "concluido"
                           /\ new.attempts = 0 /\ new.payable = mine.payable /\ new.payment
    <3>1. /\ Advance(base, "concluido") \in Row /\ Advance(base, "concluido").step = "concluido"
          /\ Advance(base, "concluido").kind = base.kind /\ Advance(base, "concluido").attempts = 0
          /\ Advance(base, "concluido").payable = base.payable
          /\ Advance(base, "concluido").payment = base.payment
      BY AdvanceIs
    <3> QED  BY <2>2, <3>1
  <2>4. Store(r, new, "step")
    BY <1>2, <2>1, <2>2, <2>3 DEF Accepted
  <2>5. Alone(l)' => AloneFacts(l, new)'
    BY <1>5, <1>6, <1>9, <1>12, <2>1, <2>3, ZeroIs DEF AloneFacts
  <2>6. Alone(l)' => Ahead(l, row, new)
    BY <1>5, <1>7, <1>9, <1>12, <2>3, Ranks DEF Ahead
  <2>7. Clean(l)' => CleanFacts(l, new)'
    BY <1>5, <1>6, <1>9, <1>12, <2>1 DEF CleanFacts, SentDirect
  <2> QED  BY <1>1, <1>2, <1>4, <1>5, <1>7, <1>12, <2>3, <2>4, <2>5, <2>6, <2>7, ZeroIs, Written
<1>13. CASE effect = Lancamento(l) /\ (Alone(l) => SentDirect(mine))
  <2>1. effect.what = "lanc"
    BY <1>13, EffectsAre
  <2>2. PICK new \in Row :
          /\ new = [mine EXCEPT !.status = "confirmed", !.lanc = TRUE, !.fault = FALSE]
          /\ new.kind = mine.kind /\ new.step = mine.step /\ new.attempts = mine.attempts
          /\ new.payable = mine.payable /\ new.payment = mine.payment
    <3> DEFINE m == [mine EXCEPT !.status = "confirmed", !.lanc = TRUE, !.fault = FALSE]
    <3>1. m \in Row
      BY DEF Row
    <3>2. m.kind = mine.kind /\ m.step = mine.step /\ m.attempts = mine.attempts
      BY DEF Row
    <3>3. m.payable = mine.payable /\ m.payment = mine.payment
      BY DEF Row
    <3> QED  BY <3>1, <3>2, <3>3
  <2>3. new.status = "confirmed" /\ ~new.fault
    BY <2>2 DEF Row
  <2>4. Store(r, new, "idle")
    BY <1>2, <2>1, <2>2 DEF Accepted
  <2>5. Alone(l)' => mine.kind = "direto" /\ mine.attempts # 0
    BY <1>4, <1>13, ExcusesStay DEF SentDirect
  <2>6. Alone(l)' => AloneFacts(l, new)'
    BY <1>5, <1>6, <1>8, <2>2, <2>3, <2>5 DEF AloneFacts, Coherent
  <2>7. Alone(l)' => Ahead(l, row, new)
    BY <1>5, <1>7, <2>5 DEF Ahead
  <2>8. Clean(l)' => CleanFacts(l, new)'
    BY <1>5, <2>2, <2>3, <2>5 DEF CleanFacts, SentDirect
  <2> QED  BY <1>1, <1>2, <1>4, <1>5, <1>7, <2>2, <2>4, <2>6, <2>7, <2>8, Written
<1>14. \/ effect = Nothing /\ mine.step = "fornecedor"
       \/ effect = Title(Own(l)) /\ mine.step = "titulo"
       \/ effect = Payment(l, mine.payable) /\ mine.step = "baixa"
       \/ effect = Lancamento(l) /\ (Alone(l) => SentDirect(mine))
  BY <1>1, <1>2, <1>3, PostWorld
<1> QED  BY <1>10, <1>11, <1>12, <1>13, <1>14

LEMMA ArrivesStep ==
  ASSUME Inv, Arrives, plan' = plan
  PROVE  Onward
<1>1. /\ UNCHANGED <<posting, series, task, excuse, plan>> /\ Effects' = Effects
      /\ omie \subseteq omie' /\ omie' \subseteq Effect /\ flying' \subseteq Effect
  <2>1. PICK effect \in flying : Happens(effect) /\ flying' = flying \ {effect}
    BY DEF Arrives
  <2>2. effect \in Effect /\ effect # Nothing
    <3>1. effect \in Effect
      BY <2>1 DEF Inv, Types
    <3>2. \A e \in Effect : e.what # Nothing.what
      BY EffectsAre DEF Effect
    <3> QED  BY <3>1, <3>2
  <2>3. omie' = (omie) \cup {effect}
    BY <2>1, <2>2 DEF Happens
  <2> QED  BY <2>1, <2>2, <2>3 DEF Arrives, Effects, Inv, Types
<1>2. Grows /\ SeriesInv' /\ Spared(NoLine)
  BY <1>1 DEF Grows, Spared, Inv, Types, SeriesInv
<1>3. \A m \in Lines : LineInv(m)' /\ Forward(m)
  BY <1>1, <1>2, KeysAre, LineStays
<1>4. ASSUME NEW q \in Requests PROVE TaskInv(q)'
  <2>1. CASE At(q, "idle")
    BY <1>1, <2>1 DEF TaskInv, At
  <2>2. CASE ~At(q, "idle")
    <3>1. PICK l \in Lines, seen \in Row : l = Line(q) /\ seen = Seen(q)
      BY <2>2, Known
    <3>2. SeenFacts(q) /\ StepFacts(q) /\ PostFacts(q)
      BY <2>2 DEF Inv, TaskInv
    <3>3. seen.payable # NoKey => Held(l, seen.payable)'
      BY <1>2, <3>1, <3>2, HeldStays DEF SeenFacts, Row
    <3>4. SeenFacts(q)'
      BY <1>1, <3>1, <3>2, <3>3 DEF SeenFacts, Line, Seen, Alone
    <3>5. StepFacts(q)' /\ PostFacts(q)'
      BY <1>1, <3>2 DEF StepFacts, PostFacts, At, Line, Seen, Alone, Clean
    <3> QED  BY <1>1, <3>1, <3>4, <3>5 DEF TaskInv, Line
  <2> QED  BY <2>1, <2>2
<1>5. Types' /\ Single'
  BY <1>1 DEF Inv, Types, Single, Line, Alone
<1> QED  BY <1>2, <1>3, <1>4, <1>5 DEF Inv, Onward

-------------------------------------------------------------------------------
(* The installments still to come.                                          *)

\* A request past its provision, with nothing sent for any line's own title.
LEMMA Futures ==
  ASSUME Inv, Grows, SeriesInv', Spared(NoLine), posting' = posting,
         NEW r \in Requests, task[r].pc \in {"after", "futures", "installment"},
         NEW t \in Task, task' = [task EXCEPT ![r] = t],
         t.pc \in {"futures", "installment"}, t.line = task[r].line, t.seen = task[r].seen,
         \A k \in t.todo : series'[k].there,
         t.pc = "installment" => t.key \in Keys /\ series'[t.key].there /\ t.post = Title(t.key)
  PROVE  Onward
<1>1. ~At(r, "idle")
  BY DEF At
<1>2. PICK l \in Lines, mine \in Row, row \in Row : l = Line(r) /\ mine = Seen(r) /\ row = posting[l]
  BY <1>1, Known
<1>3. /\ mine.payable \in Keys \cup {NoKey}
      /\ mine.payable # NoKey => Held(l, mine.payable)
      /\ mine.step \in {"baixa", "concluido"} => mine.payable # NoKey
      /\ mine.kind # "none" /\ row.kind # "none"
      /\ Alone(l) => mine = row
  BY <1>1, <1>2, Known
<1>4. LineInv(l)' /\ Forward(l)
  BY KeysAre, LineStays
<1>5. Spared(l) /\ Owner(r, l)
  BY <1>2, OwnerIs, KeysAre DEF Spared
<1>6. posting' = [posting EXCEPT ![l] = row] /\ posting'[l] = row
  BY <1>2 DEF Inv, Types
<1>7. TaskInv(r)'
  <2>1. task'[r] = t /\ Line(r)' = l /\ Seen(r)' = mine
    BY <1>2 DEF Inv, Types, Line, Seen
  <2>2. mine.payable # NoKey => Held(l, mine.payable)'
    BY <1>3, HeldStays
  <2>3. Alone(l)' => mine = row
    BY <1>3, ExcusesStay
  <2>4. SeenFacts(r)'
    BY <1>3, <1>6, <2>1, <2>2, <2>3 DEF SeenFacts
  <2>5. StepFacts(r)' /\ PostFacts(r)'
    BY <2>1 DEF StepFacts, PostFacts, At
  <2> QED  BY <2>1, <2>4, <2>5 DEF TaskInv
<1> QED  BY <1>2, <1>3, <1>4, <1>5, <1>6, <1>7, Rest DEF Line

\* Nothing sent: what is registered may only grow, and only future installments.
LEMMA RegisteredMore ==
  ASSUME Inv, UNCHANGED <<omie, flying, plan>>,
         excuse' \in [Lines -> SUBSET {"race", "retry", "order"}],
         \A m \in Lines : excuse[m] \subseteq excuse'[m],
         series' \in [Keys -> Installment],
         \A k \in Keys : /\ series[k].there => /\ series'[k].there
                                               /\ series'[k].done = series[k].done
                                               /\ series'[k].claimed = series[k].claimed
                         /\ ~series[k].there => ~series'[k].done /\ series'[k].claimed = NoLine
                         /\ series'[k].there => k[2] > Number[k[1]]
  PROVE  Grows /\ SeriesInv' /\ Spared(NoLine)
<1>1. Effects' = Effects
  BY DEF Effects
<1>2. Spared(NoLine)
  BY <1>1 DEF Spared
<1>3. Grows
  BY KeysAre DEF Grows, Inv, Types, SeriesInv
<1>4. SeriesInv'
  BY <1>1 DEF Inv, SeriesInv
<1> QED  BY <1>2, <1>3, <1>4

LEMMA RegisterStep ==
  ASSUME Inv, NEW r \in Requests, Register(r), plan' = plan
  PROVE  Onward
<1>1. At(r, "after") /\ UNCHANGED <<posting, omie, flying, plan>>
  BY DEF Register
<1>2. PICK mine, due :
        /\ mine = {k \in Future(Line(r)) : ~series[k].there /\ InSeries(Line(r), k[2]) = {}}
        /\ due = {k \in Future(Line(r)) : series[k].there} \cup mine
        /\ series' = Registered(mine)
        /\ task' = [task EXCEPT ![r].pc = "futures", ![r].todo = {k \in due : Sendable(series[k])}]
  BY DEF Register
<1>3. mine \subseteq Keys /\ due \subseteq Keys /\ \A k \in mine : ~series[k].there /\ k[2] > Number[k[1]]
  BY <1>2 DEF Future
<1>4. /\ excuse' \in [Lines -> SUBSET {"race", "retry", "order"}]
      /\ \A m \in Lines : excuse[m] \subseteq excuse'[m]
  <2>1. excuse \in [Lines -> SUBSET {"race", "retry", "order"}]
    BY DEF Inv, Types
  <2>2. Excused(Line(r), "order") \/ UNCHANGED excuse
    BY DEF Register
  <2>3. Line(r) \in Lines
    BY <1>1 DEF Inv, TaskInv, At
  <2> QED  BY <2>1, <2>2, <2>3, ExcusedIs
<1>5. series \in [Keys -> Installment] /\ task \in [Requests -> Task] /\ task[r] \in Task
  BY DEF Inv, Types
<1>6. \A k \in Keys : IF k \in mine THEN series'[k].there /\ ~series'[k].done /\ series'[k].claimed = NoLine
                                          /\ series'[k] \in Installment
                                    ELSE series'[k] = series[k]
  <2>1. PICK new \in Installment : /\ new = [NoInstallment EXCEPT !.there = TRUE]
                                   /\ new.there /\ ~new.done /\ new.claimed = NoLine
    <3>1. NoInstallment \in Installment /\ ~NoInstallment.done /\ NoInstallment.claimed = NoLine
      BY ZeroIs DEF NoInstallment, Installment
    <3>2. [NoInstallment EXCEPT !.there = TRUE] \in Installment
      BY <3>1 DEF Installment
    <3> QED  BY <3>1, <3>2 DEF Installment
  <2>2. series' = [k \in Keys |-> IF k \in mine THEN new ELSE series[k]]
    BY <1>2, <2>1 DEF Registered
  <2> QED  BY <2>1, <2>2
<1>7. series' \in [Keys -> Installment]
  BY <1>2, <1>5, <1>6 DEF Registered
<1>8. \A k \in Keys : /\ series[k].there => /\ series'[k].there
                                            /\ series'[k].done = series[k].done
                                            /\ series'[k].claimed = series[k].claimed
                      /\ ~series[k].there => ~series'[k].done /\ series'[k].claimed = NoLine
                      /\ series'[k].there => k[2] > Number[k[1]]
  BY <1>3, <1>6 DEF Inv, SeriesInv
<1>9. Grows /\ SeriesInv' /\ Spared(NoLine)
  BY <1>1, <1>4, <1>7, <1>8, RegisteredMore
<1>10. PICK t \in Task : t = [task[r] EXCEPT !.pc = "futures", !.todo = {k \in due : Sendable(series[k])}]
  <2>1. {k \in due : Sendable(series[k])} \in SUBSET Keys
    BY <1>3
  <2> QED  BY <1>5, <2>1 DEF Task, PCs
<1>11. /\ task' = [task EXCEPT ![r] = t] /\ t.pc = "futures" /\ t.line = task[r].line /\ t.seen = task[r].seen
       /\ t.todo \subseteq due
  BY <1>2, <1>5, <1>10 DEF Task
<1>12. \A k \in t.todo : series'[k].there
  BY <1>2, <1>3, <1>6, <1>8, <1>11
<1> QED  BY <1>1, <1>9, <1>11, <1>12, Futures DEF At

LEMMA SendInstallmentStep ==
  ASSUME Inv, NEW r \in Requests, SendInstallment(r), plan' = plan
  PROVE  Onward
<1>1. At(r, "futures") /\ ~At(r, "idle") /\ UNCHANGED <<posting, omie, flying, excuse, plan>>
  BY DEF SendInstallment, At
<1>2. /\ series \in [Keys -> Installment] /\ task \in [Requests -> Task] /\ task[r] \in Task
      /\ excuse \in [Lines -> SUBSET {"race", "retry", "order"}] /\ task[r].todo \subseteq Keys
  BY DEF Inv, Types, Task
<1>3. \A k \in task[r].todo : series[k].there
  BY <1>1 DEF Inv, TaskInv, StepFacts, At
<1>4. PICK k \in task[r].todo :
        /\ series[k].attempts < MaxAttempts
        /\ series' = [series EXCEPT ![k].attempts = series[k].attempts + 1]
        /\ task' = [task EXCEPT ![r].pc = "installment", ![r].key = k,
                                ![r].todo = task[r].todo \ {k}, ![r].post = Title(k)]
  BY <1>2 DEF SendInstallment
<1>5. k \in Keys /\ series[k].there /\ task[r].todo \ {k} \in SUBSET Keys /\ Title(k) \in Effect
  BY <1>2, <1>3, <1>4, EffectsAre, KeysAre
<1>6. series' \in [Keys -> Installment] /\ \A j \in Keys : /\ series'[j].there = series[j].there
                                                           /\ series'[j].done = series[j].done
                                                           /\ series'[j].claimed = series[j].claimed
  <2>1. series[k].attempts + 1 \in 0 .. MaxAttempts
    BY <1>2, <1>4, <1>5, ProvisionConstants DEF Installment
  <2> QED  BY <1>2, <1>4, <1>5, <2>1 DEF Installment
<1>7. Grows /\ SeriesInv' /\ Spared(NoLine)
  BY <1>1, <1>2, <1>6, RegisteredMore DEF Inv, SeriesInv
<1>8. PICK t \in Task : t = [task[r] EXCEPT !.pc = "installment", !.key = k,
                                            !.todo = task[r].todo \ {k}, !.post = Title(k)]
  BY <1>2, <1>5 DEF Task, PCs
<1>9. task' = [task EXCEPT ![r] = t] /\ t.pc = "installment" /\ t.line = task[r].line /\ t.seen = task[r].seen
  BY <1>2, <1>4, <1>8 DEF Task
<1>10. t.todo \subseteq task[r].todo /\ t.key = k /\ t.post = Title(k)
  BY <1>2, <1>8 DEF Task
<1>11. (\A j \in t.todo : series'[j].there) /\ series'[k].there
  BY <1>2, <1>3, <1>5, <1>6, <1>10
<1> QED  BY <1>1, <1>5, <1>7, <1>9, <1>10, <1>11, Futures DEF At

\* An installment's title may be there: the row it was sent from was there before.
LEMMA InstallmentWorld ==
  ASSUME Inv, NEW r \in Requests, At(r, "installment"), NEW key, key = task[r].key,
         (Happens(task[r].post) /\ flying' = flying) \/ MayHappen(task[r].post),
         excuse' = excuse, plan' = plan, series' \in [Keys -> Installment],
         \A k \in Keys : /\ series'[k].there = series[k].there /\ series'[k].claimed = series[k].claimed
                         /\ series'[k].done => series[k].done \/ (k = key /\ Title(key) \in omie')
  PROVE  Grows /\ SeriesInv' /\ Spared(NoLine)
<1>1. key \in Keys /\ series[key].there /\ task[r].post = Title(key) /\ Title(key) \in Effect \cup {Nothing}
  BY EffectsAre, KeysAre DEF Inv, TaskInv, StepFacts, At
<1>2. /\ omie \subseteq omie' /\ omie' \subseteq Effect /\ flying' \subseteq Effect
      /\ \A e : e \in Effects' => e \in Effects \/ e = Title(key)
  BY <1>1, EffectGrows
<1>3. Grows
  BY <1>2 DEF Grows, Inv, Types
<1>4. SeriesInv'
  <2> SUFFICES ASSUME NEW k \in Keys
               PROVE  /\ series'[k].there => k[2] > Number[k[1]]
                      /\ ~series'[k].there => ~series'[k].done /\ series'[k].claimed = NoLine
                      /\ series'[k].done => Title(k) \in omie'
                      /\ Title(k) \in Effects' => k = Own(k[1]) \/ series'[k].there
    BY DEF SeriesInv
  <2>1. /\ series[k].there => k[2] > Number[k[1]]
        /\ ~series[k].there => ~series[k].done /\ series[k].claimed = NoLine
        /\ series[k].done => Title(k) \in omie
        /\ Title(k) \in Effects => k = Own(k[1]) \/ series[k].there
    BY DEF Inv, SeriesInv
  <2>2. Title(k) = Title(key) => k = key
    BY <1>1, EffectsAre
  <2> QED  BY <1>1, <1>2, <2>1, <2>2
<1>5. Spared(NoLine)
  <2> SUFFICES ASSUME NEW m \in Lines
               PROVE  /\ Title(Own(m)) # Title(key) /\ Lancamento(m) # Title(key)
                      /\ \A k \in Keys : Payment(m, k) # Title(key)
    BY <1>2 DEF Spared
  <2>1. key[2] > Number[key[1]]
    BY <1>1 DEF Inv, SeriesInv
  <2>2. Own(m) # key
    <3>1. Own(m)[1] = m /\ Own(m)[2] = Number[m] /\ Number[m] \in Nat
      BY KeysAre, ProvisionConstants
    <3> QED  BY <2>1, <3>1
  <2>3. Title(Own(m)) = Title(key) => Own(m) = key
    BY <1>1, KeysAre, EffectsAre
  <2>4. Lancamento(m) # Title(key) /\ \A k \in Keys : Payment(m, k) # Title(key)
    BY EffectsAre
  <2> QED  BY <2>2, <2>3, <2>4
<1> QED  BY <1>3, <1>4, <1>5

LEMMA InstallmentSteps ==
  ASSUME Inv, NEW r \in Requests, plan' = plan,
         InstallmentAccepted(r) \/ InstallmentRefused(r) \/ InstallmentLost(r)
  PROVE  Onward
<1>1. /\ At(r, "installment") /\ ~At(r, "idle") /\ posting' = posting /\ excuse' = excuse
      /\ (Happens(task[r].post) /\ flying' = flying) \/ MayHappen(task[r].post)
  BY DEF InstallmentAccepted, InstallmentRefused, InstallmentLost, At
<1>2. /\ series \in [Keys -> Installment] /\ task \in [Requests -> Task] /\ task[r] \in Task
      /\ task[r].todo \subseteq Keys /\ Nothing \in Effect \cup {Nothing}
  BY DEF Inv, Types, Task
<1>3. PICK key \in Keys : key = task[r].key /\ series[key].there /\ task[r].post = Title(key)
  BY <1>1 DEF Inv, TaskInv, StepFacts, At
<1>4. /\ series' \in [Keys -> Installment]
      /\ \A k \in Keys : /\ series'[k].there = series[k].there /\ series'[k].claimed = series[k].claimed
                         /\ series'[k].done => series[k].done \/ (k = key /\ Title(key) \in omie')
  <2>1. CASE InstallmentAccepted(r)
    <3>1. series' = [series EXCEPT ![key].done = TRUE, ![key].attempts = 0]
      BY <1>3, <2>1 DEF InstallmentAccepted
    <3>2. Title(key) \in omie'
      <4>1. Title(key) # Nothing
        BY KeysAre, EffectsAre
      <4> QED  BY <1>3, <2>1, <4>1 DEF InstallmentAccepted, Happens
    <3> QED  BY <1>2, <3>1, <3>2, ZeroIs DEF Installment
  <2>2. CASE InstallmentRefused(r)
    <3>1. series' = [series EXCEPT ![key].attempts = 0]
      BY <1>3, <2>2 DEF InstallmentRefused
    <3> QED  BY <1>2, <3>1, ZeroIs DEF Installment
  <2>3. CASE InstallmentLost(r)
    BY <1>2, <2>3 DEF InstallmentLost
  <2> QED  BY <2>1, <2>2, <2>3
<1>5. Grows /\ SeriesInv' /\ Spared(NoLine)
  BY <1>1, <1>3, <1>4, InstallmentWorld
<1>6. CASE Back(r)
  <2>1. PICK t \in Task : t = [task[r] EXCEPT !.pc = "futures", !.key = NoKey, !.post = Nothing]
    BY <1>2 DEF Task, PCs
  <2>2. /\ task' = [task EXCEPT ![r] = t] /\ t.pc = "futures" /\ t.line = task[r].line /\ t.seen = task[r].seen
        /\ t.todo = task[r].todo
    BY <1>2, <1>6, <2>1 DEF Task, Back
  <2>3. \A k \in t.todo : series'[k].there
    BY <1>1, <1>2, <1>4, <2>2 DEF Inv, TaskInv, StepFacts, At
  <2> QED  BY <1>1, <1>5, <2>2, <2>3, Futures DEF At
<1>7. CASE End(r)
  <2>1. PICK l \in Lines, row \in Row : l = Line(r) /\ row = posting[l]
    BY <1>1, Known
  <2>2. LineFacts(l, row)
    BY <1>1, <2>1, Known
  <2>3. Spared(l) /\ LineFacts(l, row)'
    BY <1>5, <2>2, RowStays, KeysAre DEF Spared
  <2> QED  BY <1>1, <1>5, <1>7, <2>1, <2>3, Dropped
<1> QED  BY <1>6, <1>7 DEF InstallmentAccepted, InstallmentRefused, InstallmentLost

-------------------------------------------------------------------------------
(* The theorems.                                                            *)

LEMMA NextInv == Inv /\ Next => Onward
<1> SUFFICES ASSUME Inv, Next PROVE Onward
  OBVIOUS
<1>1. plan' = plan
  BY DEF Next
<1>2. CASE Arrives
  BY <1>1, <1>2, ArrivesStep
<1>3. ASSUME NEW r \in Requests, RequestStep(r) PROVE Onward
  <2>1. CASE Read(r) \/ Abort(r) \/ Decide(r) \/ DecideDirect(r) \/ Ask(r) \/ SendDirect(r)
    BY <1>1, <2>1, ReadStep, RestSteps, DecideStep, DecideDirectStep, AskStep, SendDirectStep
  <2>2. CASE Concluded(r) \/ SupplierKnown(r) \/ SupplierPending(r) \/ SendSupplier(r)
    BY <1>1, <2>2, RestSteps, SupplierKnownStep, SupplierPendingStep, SendSteps
  <2>3. CASE Search(r) \/ Claim(r) \/ ClaimLost(r) \/ SendTitle(r) \/ SendPayment(r)
    BY <1>1, <2>3, SearchStep, ClaimStep, ClaimLostStep, SendSteps
  <2>4. CASE Accepted(r) \/ Refused(r) \/ Lost(r)
    BY <1>1, <2>4, AcceptedStep, RefusedStep, LostStep
  <2>5. CASE Register(r) \/ Done(r) \/ SendInstallment(r)
    BY <1>1, <2>5, RegisterStep, RestSteps, SendInstallmentStep
  <2>6. CASE InstallmentAccepted(r) \/ InstallmentRefused(r) \/ InstallmentLost(r)
    BY <1>1, <2>6, InstallmentSteps
  <2> QED  BY <1>3, <2>1, <2>2, <2>3, <2>4, <2>5, <2>6 DEF RequestStep
<1> QED  BY <1>2, <1>3 DEF Next

LEMMA StutterInv == Inv /\ UNCHANGED vars => Onward
<1> SUFFICES ASSUME Inv, UNCHANGED vars PROVE Onward
  OBVIOUS
<1>1. UNCHANGED <<posting, series, omie, flying, task, plan, excuse>> /\ Effects' = Effects
  BY DEF vars, Effects
<1>2. Grows /\ Spared(NoLine)
  BY <1>1 DEF Grows, Spared, Inv, Types, SeriesInv
<1>3. \A m \in Lines : LineInv(m)' /\ Forward(m)
  BY <1>1, <1>2, KeysAre, LineStays
<1>4. Types' /\ SeriesInv' /\ Single'
  BY <1>1 DEF Inv, Types, SeriesInv, Single, Line, Alone
<1>5. \A r \in Requests : TaskInv(r)'
  BY <1>1 DEF Inv, TaskInv, SeenFacts, StepFacts, PostFacts, At, Line, Seen, Held, Alone, Clean
<1> QED  BY <1>3, <1>4, <1>5 DEF Inv, Onward

\* The inductive invariant holds.
LEMMA Invariance == Spec => []Inv
<1>1. Inv /\ [Next]_vars => Inv'
  BY NextInv, StutterInv DEF Onward
<1> QED  BY InitInv, <1>1, PTL DEF Spec

\* Rows, installments, effects and requests have their types, whatever the instance.
THEOREM TypeCorrect == Spec => []TypeOK
<1>1. Inv => TypeOK
  <2> SUFFICES ASSUME Inv PROVE TypeOK
    OBVIOUS
  <2>1. /\ posting \in [Lines -> Row] /\ series \in [Keys -> Installment]
        /\ task \in [Requests -> Task] /\ excuse \in [Lines -> SUBSET {"race", "retry", "order"}]
        /\ Effects \subseteq Effect
    BY DEF Inv, Types, Effects
  <2>2. \A r \in Requests : task[r].seen \in Row /\ task[r].todo \subseteq Keys
    BY <2>1 DEF Task
  <2>3. \A e \in Effects : \/ \E k \in Keys : e = Title(k)
                           \/ \E l \in Lines, k \in Keys : e = Payment(l, k)
                           \/ \E l \in Lines : e = Lancamento(l)
    BY <2>1 DEF Effect
  <2> QED  BY <2>1, <2>2, <2>3 DEF TypeOK, Installment
<1> QED  BY Invariance, <1>1, PTL

\* Whatever Omie has or may still accept was in the database, in the row that answers for it,
\* before it was sent.
THEOREM EverythingSentIsRecorded == Spec => []RecordedBeforeSent
<1>1. Inv => RecordedBeforeSent
  <2> SUFFICES ASSUME Inv, NEW e \in Effects
               PROVE  CASE e.what = "title" /\ e.key # Own(e.line) -> series[e.key].there
                        [] e.what = "title" /\ e.key = Own(e.line) ->
                             posting[e.line].kind # "none" /\ (Alone(e.line) => posting[e.line].supplier)
                        [] e.what = "payment" ->
                             posting[e.line].kind # "none" /\ (Alone(e.line) => posting[e.line].payable = e.key)
                        [] e.what = "lanc" -> posting[e.line].kind # "none"
    BY DEF RecordedBeforeSent
  <2>1. e \in Effect
    BY DEF Inv, Types, Effects
  <2>2. ASSUME NEW l \in Lines PROVE LineFacts(l, posting[l]) /\ posting[l] \in Row
    BY DEF Inv, LineInv, Types
  <2>3. CASE \E k \in Keys : e = Title(k)
    <3>1. PICK k \in Keys : e = Title(k)
      BY <2>3
    <3>2. e.what = "title" /\ e.key = k /\ e.line = k[1] /\ k[1] \in Lines
      BY <3>1, EffectsAre, KeysAre
    <3>3. CASE k # Own(k[1])
      BY <3>1, <3>2, <3>3 DEF Inv, SeriesInv
    <3>4. CASE k = Own(k[1])
      <4>1. /\ posting[k[1]].kind # "none"
            /\ Alone(k[1]) => posting[k[1]].kind = "provisao" /\ posting[k[1]].step # "fornecedor"
        BY <2>2, <3>1, <3>2, <3>4 DEF LineFacts, AloneFacts
      <4>2. Alone(k[1]) => posting[k[1]].supplier
        BY <2>2, <3>2, <4>1, NoRowIs DEF LineFacts, Coherent
      <4> QED  BY <3>2, <3>4, <4>1, <4>2
    <3> QED  BY <3>3, <3>4
  <2>4. CASE \E l \in Lines, k \in Keys : e = Payment(l, k)
    <3>1. PICK l \in Lines, k \in Keys : e = Payment(l, k)
      BY <2>4
    <3>2. e.what = "payment" /\ e.key = k /\ e.line = l
      BY <3>1, EffectsAre
    <3> QED  BY <2>2, <3>1, <3>2 DEF LineFacts, AloneFacts
  <2>5. CASE \E l \in Lines : e = Lancamento(l)
    <3>1. PICK l \in Lines : e = Lancamento(l)
      BY <2>5
    <3>2. e.what = "lanc" /\ e.line = l
      BY <3>1, EffectsAre
    <3> QED  BY <2>2, <3>1, <3>2 DEF LineFacts
  <2>6. \/ \E k \in Keys : e = Title(k)
        \/ \E l \in Lines, k \in Keys : e = Payment(l, k)
        \/ \E l \in Lines : e = Lancamento(l)
    BY <2>1 DEF Effect
  <2> QED  BY <2>3, <2>4, <2>5, <2>6
<1> QED  BY Invariance, <1>1, PTL

\* No purchase that nothing unforeseen befell is both a lancamento and a title.
THEOREM NeverInBothForms == Spec => []OneForm
<1>1. Inv => OneForm
  <2> SUFFICES ASSUME Inv, NEW l \in Lines, Lancamento(l) \in Effects, Title(Own(l)) \in Effects, Clean(l)
               PROVE  FALSE
    BY DEF OneForm
  <2>1. LineFacts(l, posting[l]) /\ Alone(l)
    BY DEF Inv, LineInv, Clean, Alone
  <2>2. posting[l].kind = "provisao"
    BY <2>1 DEF LineFacts, AloneFacts
  <2>3. posting[l].kind = "direto"
    BY <2>1 DEF LineFacts, CleanFacts, SentDirect
  <2> QED  BY <2>2, <2>3
<1> QED  BY Invariance, <1>1, PTL

\* Who answers for a title: one line at most.
LEMMA HeldByOne ==
  ASSUME Inv, NEW l \in Lines, NEW m \in Lines, NEW k \in Keys, Held(l, k), Held(m, k)
  PROVE  l = m
<1>1. series[k].claimed \in Lines => k[2] > Number[k[1]]
  BY KeysAre DEF Inv, SeriesInv
<1>2. ASSUME NEW n \in Lines, k = Own(n) PROVE series[k].claimed \notin Lines
  <2>1. k[1] = n /\ k[2] = Number[n] /\ Number[n] \in Nat
    BY <1>2, KeysAre, ProvisionConstants
  <2> QED  BY <1>1, <2>1
<1>3. k = Own(l) /\ k = Own(m) => l = m
  BY KeysAre
<1> QED  BY <1>2, <1>3 DEF Held

\* Two rows never answer for one title, and a title has at most one payment, of a title that is there.
THEOREM TitlesHaveOneLine == Spec => []OneLinePerTitle
<1>1. Inv => OneLinePerTitle
  <2> SUFFICES ASSUME Inv PROVE OneLinePerTitle
    OBVIOUS
  <2>1. ASSUME NEW l \in Lines, NEW m \in Lines, l # m, posting[l].payable = posting[m].payable
        PROVE  posting[l].payable = NoKey
    <3>1. posting[l].payable \in Keys \cup {NoKey}
      BY DEF Inv, Types, Row
    <3>2. /\ posting[l].payable # NoKey => Held(l, posting[l].payable)
          /\ posting[m].payable # NoKey => Held(m, posting[m].payable)
      BY DEF Inv, LineInv, LineFacts
    <3> QED  BY <2>1, <3>1, <3>2, HeldByOne
  <2>2. ASSUME NEW e \in Effects, e.what = "payment"
        PROVE  \E l \in Lines, k \in Keys : e = Payment(l, k) /\ e.key = k /\ Held(l, k)
    <3>1. e \in Effect
      BY DEF Inv, Types, Effects
    <3>2. PICK l \in Lines, k \in Keys : e = Payment(l, k)
      <4>1. \A k \in Keys : Title(k).what # "payment"
        BY EffectsAre
      <4>2. \A l \in Lines : Lancamento(l).what # "payment"
        BY EffectsAre
      <4> QED  BY <2>2, <3>1, <4>1, <4>2 DEF Effect
    <3>3. Held(l, k)
      BY <3>2 DEF Inv, LineInv, LineFacts
    <3> QED  BY <3>2, <3>3, EffectsAre
  <2>3. ASSUME NEW e \in Effects, e.what = "payment"
        PROVE  /\ Title(e.key) \in omie
               /\ \A f \in Effects : f.what = "payment" /\ f.key = e.key => f = e
    <3>1. PICK l \in Lines, k \in Keys : e = Payment(l, k) /\ e.key = k /\ Held(l, k)
      BY <2>2, <2>3
    <3>2. ASSUME NEW f \in Effects, f.what = "payment", f.key = e.key PROVE f = e
      <4>1. PICK m \in Lines, j \in Keys : f = Payment(m, j) /\ f.key = j /\ Held(m, j)
        BY <2>2, <3>2
      <4>2. j = k /\ l = m
        BY <3>1, <3>2, <4>1, HeldByOne
      <4> QED  BY <3>1, <4>1, <4>2
    <3> QED  BY <3>1, <3>2 DEF Held
  <2> QED  BY <2>1, <2>3 DEF OneLinePerTitle
<1> QED  BY Invariance, <1>1, PTL

\* A line past its title has it at Omie, and one with a payment's id, the payment.
THEOREM BookedIsAtOmie == Spec => []BookedIsThere
<1>1. Inv => BookedIsThere
  <2> SUFFICES ASSUME Inv, NEW l \in Lines, NEW row, row = posting[l]
               PROVE  /\ row.step \in {"baixa", "concluido"} => Title(row.payable) \in omie
                      /\ row.payment /\ Alone(l) => Payment(l, row.payable) \in omie
    BY DEF BookedIsThere
  <2>1. LineFacts(l, row)
    BY DEF Inv, LineInv
  <2>2. row.step \in {"baixa", "concluido"} => row.payable # NoKey
    BY <2>1, NoRowIs DEF LineFacts, Coherent
  <2> QED  BY <2>1, <2>2 DEF LineFacts, AloneFacts, Held
<1> QED  BY Invariance, <1>1, PTL

\* A provision only advances, whatever is refused, lost or restarted.
THEOREM ProvisionsOnlyAdvance == Spec => NeverBack
<1>1. Inv /\ Next => \A l \in Lines : Forward(l)
  BY NextInv DEF Onward
<1>2. Inv /\ UNCHANGED vars => \A l \in Lines : Forward(l)
  BY StutterInv DEF Onward
<1>3. Inv /\ [Next]_vars =>
        [\A l \in Lines : posting[l].kind = "provisao" /\ "race" \notin excuse'[l] =>
           \/ /\ posting'[l].kind = "provisao"
              /\ Rank(posting'[l].step) >= Rank(posting[l].step)
              /\ posting[l].payable \in {NoKey, posting'[l].payable}
           \/ posting'[l].kind = "direto" /\ Title(Own(l)) \notin Effects]_vars
  BY <1>1, <1>2 DEF Forward
<1> QED  BY Invariance, <1>3, PTL DEF Spec, NeverBack

-------------------------------------------------------------------------------
(* Titles and purchases.                                                    *)

Same(l, n) == {m \in Lines : Identity[m] = Identity[l] /\ Number[m] <= n}

\* The line's own title is at Omie or on its way.
Started(m) ==
  \/ Title(Own(m)) \in Effects
  \/ \E q \in Requests : At(q, "post") /\ task[q].post = Title(Own(m))

\* The titles n that there are or may be, for purchases like l's.
Taken(l, n) ==
  {k \in Keys : /\ k[2] = n /\ k[1] \in Same(l, n)
                /\ series[k].there \/ (k = Own(k[1]) /\ Started(k[1]))}

\* A claimed title is the claimant's, and instead of its own.
ClaimFacts(c, k) ==
  /\ Number[c] = k[2] /\ Identity[c] = Identity[k[1]]
  /\ \A j \in Keys : series[j].claimed = c => j = k
  /\ Clean(c) => ~Started(c)
  /\ Alone(c) => posting[c].kind = "provisao" /\ posting[c].step \in {"baixa", "concluido"}

Claims == \A k \in Keys : \A c \in Lines : series[k].claimed = c => ClaimFacts(c, k)

Aims(r) == At(r, "claim") => Like(Line(r), task[r].key)

Enough(l, n) ==
  (\A m \in Same(l, n) : Clean(m)) =>
    Cardinality(Taken(l, n)) <= Cardinality({Purchase[m] : m \in Same(l, n)})

Counts == \A l \in Lines, n \in 1 .. Total : Enough(l, n)

CountInv == Claims /\ (\A r \in Requests : Aims(r)) /\ Counts

\* Where a request goes, other than to a POST or to a claim.
Turned(r) ==
  /\ \A q \in Requests \ {r} : task'[q] = task[q]
  /\ task'[r].pc \notin {"post", "claim"}

\* No title begun, registered or claimed, no claim in sight.
Steady ==
  /\ \A k \in Keys : series'[k].there = series[k].there /\ series'[k].claimed = series[k].claimed
  /\ \A m \in Lines : Started(m)' => Started(m)
  /\ \A r \in Requests : Aims(r)'

LEMMA StoreTurns ==
  ASSUME Inv, NEW r \in Requests, NEW new, NEW next \in {"idle", "step", "lanc"}, Store(r, new, next)
  PROVE  Turned(r)
<1>1. task \in [Requests -> Task] /\ task[r] \in Task
  BY DEF Inv, Types
<1>2. PICK t : task' = [task EXCEPT ![r] = t] /\ (t = Idle \/ (next # "idle" /\ t = [task[r] EXCEPT !.pc = next, !.seen = new, !.post = Nothing]))
  BY DEF Store, End
<1>3. task'[r] = t /\ \A q \in Requests \ {r} : task'[q] = task[q]
  BY <1>1, <1>2
<1>4. t.pc \in {"idle", next}
  BY <1>1, <1>2, IdleIs DEF Task
<1> QED  BY <1>3, <1>4 DEF Turned

LEMMA GoesTurn ==
  ASSUME Inv, NEW r \in Requests, End(r) \/ \E pc \in PCs \ {"post", "claim"} : Goto(r, pc)
  PROVE  Turned(r)
<1>1. task \in [Requests -> Task] /\ task[r] \in Task
  BY DEF Inv, Types
<1>2. CASE End(r)
  BY <1>1, <1>2, IdleIs DEF End, Turned
<1>3. CASE \E pc \in PCs \ {"post", "claim"} : Goto(r, pc)
  BY <1>1, <1>3 DEF Goto, Turned, Task
<1> QED  BY <1>2, <1>3

\* Most steps.
LEMMA QuietTurns ==
  ASSUME Inv, NEW r \in Requests,
         \/ Read(r) \/ Abort(r) \/ Decide(r) \/ DecideDirect(r) \/ Ask(r)
         \/ Concluded(r) \/ SupplierKnown(r) \/ SupplierPending(r) \/ ClaimLost(r) \/ Claim(r)
         \/ Accepted(r) \/ Refused(r) \/ Lost(r) \/ Register(r) \/ Done(r) \/ SendInstallment(r)
         \/ InstallmentAccepted(r) \/ InstallmentRefused(r) \/ InstallmentLost(r)
  PROVE  Turned(r)
<1>1. task \in [Requests -> Task] /\ task[r] \in Task
  BY DEF Inv, Types
<1>2. CASE Read(r)
  <2>1. PICK l : task' = [task EXCEPT ![r] = [Idle EXCEPT !.pc = "decide", !.line = l, !.seen = posting[l]]]
    BY <1>2 DEF Read
  <2>2. [Idle EXCEPT !.pc = "decide", !.line = l, !.seen = posting[l]].pc = "decide"
    BY DEF Idle
  <2> QED  BY <1>1, <2>1, <2>2 DEF Turned
<1>3. CASE Abort(r) \/ Lost(r) \/ Done(r) \/ InstallmentLost(r)
  BY <1>3, GoesTurn DEF Abort, Lost, Done, InstallmentLost
<1>4. CASE Decide(r)
  <2>1. CASE Seen(r).kind = "none"
    <3>1. PICK row : task' = [task EXCEPT ![r].pc = "step", ![r].seen = row]
      BY <1>4, <2>1 DEF Decide, Refuses
    <3> QED  BY <1>1, <3>1 DEF Turned, Task
  <2>2. CASE Seen(r).kind # "none"
    <3>1. End(r) \/ Goto(r, "after") \/ Goto(r, "step") \/ \E new : Store(r, new, "step")
      BY <1>4, <2>2 DEF Decide
    <3> QED  BY <3>1, GoesTurn, StoreTurns DEF PCs
  <2> QED  BY <2>1, <2>2
<1>5. CASE DecideDirect(r)
  <2>1. End(r) \/ Goto(r, "ask") \/ Goto(r, "lanc") \/ \E new : Store(r, new, "lanc")
    BY <1>5 DEF DecideDirect
  <2> QED  BY <2>1, GoesTurn, StoreTurns DEF PCs
<1>6. CASE Ask(r) \/ Concluded(r) \/ SupplierKnown(r) \/ SupplierPending(r)
  <2>1. End(r) \/ Goto(r, "lanc") \/ Goto(r, "after") \/ \E new : \E next \in {"idle", "step"} : Store(r, new, next)
    BY <1>6 DEF Ask, Concluded, SupplierKnown, SupplierPending
  <2> QED  BY <2>1, GoesTurn, StoreTurns DEF PCs
<1>7. CASE Claim(r) \/ Refused(r)
  <2>1. \E new : \E next \in {"idle", "step"} : Store(r, new, next)
    BY <1>7 DEF Claim, Refused
  <2> QED  BY <2>1, StoreTurns
<1>8. CASE Accepted(r)
  <2>1. At(r, "post") /\ PostFacts(r)
    BY <1>8 DEF Accepted, Inv, TaskInv, At
  <2>2. task[r].post.what \in {"supplier", "title", "payment", "lanc"}
    BY <2>1, EffectsAre DEF PostFacts
  <2>3. \E new : \E next \in {"idle", "step"} : Store(r, new, next)
    BY <1>8, <2>2 DEF Accepted
  <2> QED  BY <2>3, StoreTurns
<1>9. CASE ClaimLost(r)
  BY <1>1, <1>9 DEF ClaimLost, Turned, Task
<1>10. CASE Register(r)
  <2>1. PICK todo : task' = [task EXCEPT ![r].pc = "futures", ![r].todo = todo]
    BY <1>10 DEF Register
  <2> QED  BY <1>1, <2>1 DEF Turned, Task
<1>11. CASE SendInstallment(r)
  <2>1. PICK k \in task[r].todo :
          task' = [task EXCEPT ![r].pc = "installment", ![r].key = k,
                               ![r].todo = task[r].todo \ {k}, ![r].post = Title(k)]
    BY <1>11 DEF SendInstallment
  <2> QED  BY <1>1, <2>1 DEF Turned, Task
<1>12. CASE InstallmentAccepted(r) \/ InstallmentRefused(r)
  BY <1>1, <1>12 DEF InstallmentAccepted, InstallmentRefused, Back, Turned, Task
<1> QED  BY <1>2, <1>3, <1>4, <1>5, <1>6, <1>7, <1>8, <1>9, <1>10, <1>11, <1>12

\* Who is posting a line's own title.
LEMMA StartedBy ==
  ASSUME Inv, NEW q \in Requests, NEW m \in Lines, At(q, "post"), task[q].post = Title(Own(m))
  PROVE  Line(q) = m /\ Seen(q).step = "titulo"
<1>1. PICK l \in Lines, mine \in Row : l = Line(q) /\ mine = Seen(q)
  BY Known DEF At
<1>2. mine.payable \in Keys \cup {NoKey} /\ PostFacts(q)
  BY <1>1 DEF Row, Inv, TaskInv, At
<1>3. Own(l) \in Keys /\ Own(m) \in Keys /\ (Own(l) = Own(m) => l = m)
  BY KeysAre
<1>4. /\ Title(Own(m)) # Nothing /\ Title(Own(m)) # Payment(l, mine.payable) /\ Title(Own(m)) # Lancamento(l)
      /\ Title(Own(m)) = Title(Own(l)) => l = m
  BY <1>3, EffectsAre
<1> QED  BY <1>1, <1>2, <1>4 DEF PostFacts

\* A line's own title is there only if it was being posted.
LEMMA EffectsStart ==
  ASSUME Inv, NEW r \in Requests, RequestStep(r), NEW m \in Lines, Title(Own(m)) \in Effects'
  PROVE  Started(m)
<1>1. CASE UNCHANGED <<omie, flying>>
  BY <1>1 DEF Effects, Started
<1>2. CASE At(r, "post") /\ ((Happens(task[r].post) /\ flying' = flying) \/ MayHappen(task[r].post))
  <2>1. task[r].post \in Effect \cup {Nothing}
    BY DEF Inv, Types, Task
  <2>2. Title(Own(m)) \in Effects \/ Title(Own(m)) = task[r].post
    BY <1>2, <2>1, EffectGrows
  <2> QED  BY <1>2, <2>2 DEF Started
<1>3. CASE At(r, "installment") /\ ((Happens(task[r].post) /\ flying' = flying) \/ MayHappen(task[r].post))
  <2>1. task[r].post \in Effect \cup {Nothing}
    BY DEF Inv, Types, Task
  <2>2. PICK key \in Keys : key = task[r].key /\ series[key].there /\ task[r].post = Title(key)
    BY <1>3 DEF Inv, TaskInv, StepFacts, At
  <2>3. key[2] > Number[key[1]] /\ Own(m) \in Keys
    BY <2>2, KeysAre DEF Inv, SeriesInv
  <2>4. key # Own(m)
    <3>1. Own(m)[1] = m /\ Own(m)[2] = Number[m] /\ Number[m] \in Nat
      BY KeysAre, ProvisionConstants
    <3> QED  BY <2>3, <3>1
  <2>5. Title(Own(m)) # task[r].post
    BY <2>2, <2>3, <2>4, EffectsAre
  <2> QED  BY <1>3, <2>1, <2>5, EffectGrows DEF Started
<1>4. \/ UNCHANGED <<omie, flying>>
      \/ At(r, "post") /\ ((Happens(task[r].post) /\ flying' = flying) \/ MayHappen(task[r].post))
      \/ At(r, "installment") /\ ((Happens(task[r].post) /\ flying' = flying) \/ MayHappen(task[r].post))
  <2>1. CASE \/ Read(r) \/ Abort(r) \/ Decide(r) \/ DecideDirect(r) \/ Ask(r) \/ SendDirect(r)
             \/ Concluded(r) \/ SupplierKnown(r) \/ SupplierPending(r) \/ SendSupplier(r)
    BY <2>1 DEF Read, Abort, Decide, DecideDirect, Ask, SendDirect, Concluded, SupplierKnown,
                SupplierPending, SendSupplier
  <2>2. CASE \/ Search(r) \/ Claim(r) \/ ClaimLost(r) \/ SendTitle(r) \/ SendPayment(r)
             \/ Register(r) \/ Done(r) \/ SendInstallment(r)
    BY <2>2 DEF Search, Claim, ClaimLost, SendTitle, SendPayment, Register, Done, SendInstallment
  <2>3. CASE Accepted(r) \/ Refused(r) \/ Lost(r)
    BY <2>3 DEF Accepted, Refused, Lost
  <2>4. CASE InstallmentAccepted(r) \/ InstallmentRefused(r) \/ InstallmentLost(r)
    BY <2>4 DEF InstallmentAccepted, InstallmentRefused, InstallmentLost
  <2> QED  BY <2>1, <2>2, <2>3, <2>4 DEF RequestStep
<1> QED  BY <1>1, <1>2, <1>3, <1>4

\* A line is started only by the request that sends its title.
LEMMA StartsWith ==
  ASSUME Inv, NEW r \in Requests, RequestStep(r),
         \A q \in Requests \ {r} : task'[q] = task[q],
         NEW m \in Lines, Started(m)', ~Started(m)
  PROVE  task'[r].pc = "post" /\ task'[r].post = Title(Own(m))
<1>1. Title(Own(m)) \notin Effects'
  BY EffectsStart
<1>2. PICK q \in Requests : task'[q].pc = "post" /\ task'[q].post = Title(Own(m))
  BY <1>1 DEF Started, At
<1> QED  BY <1>2 DEF Started, At

LEMMA AimsStay ==
  ASSUME NEW r \in Requests, \A q \in Requests : Aims(q), \A q \in Requests \ {r} : task'[q] = task[q], Aims(r)'
  PROVE  \A q \in Requests : Aims(q)'
BY DEF Aims, At, Line

\* What is there and claimed changes only by Register and Claim.
LEMMA SeriesStays ==
  ASSUME Inv, NEW r \in Requests, RequestStep(r), ~Register(r), ~Claim(r), NEW k \in Keys
  PROVE  series'[k].there = series[k].there /\ series'[k].claimed = series[k].claimed
<1>1. series \in [Keys -> Installment]
  BY DEF Inv, Types
<1>2. CASE series' = series
  BY <1>2
<1>3. CASE SendInstallment(r)
  <2>1. \E j, n : series' = [series EXCEPT ![j].attempts = n]
    BY <1>3 DEF SendInstallment
  <2> QED  BY <1>1, <2>1 DEF Installment
<1>4. CASE InstallmentAccepted(r)
  BY <1>1, <1>4 DEF InstallmentAccepted, Installment
<1>5. CASE InstallmentRefused(r)
  BY <1>1, <1>5 DEF InstallmentRefused, Installment
<1>6. series' = series \/ SendInstallment(r) \/ InstallmentAccepted(r) \/ InstallmentRefused(r)
  <2>1. CASE \/ Read(r) \/ Abort(r) \/ Decide(r) \/ DecideDirect(r) \/ Ask(r) \/ SendDirect(r)
             \/ Concluded(r) \/ SupplierKnown(r) \/ SupplierPending(r) \/ SendSupplier(r)
    BY <2>1 DEF Read, Abort, Decide, DecideDirect, Ask, SendDirect, Concluded, SupplierKnown,
                SupplierPending, SendSupplier
  <2>2. CASE \/ Search(r) \/ ClaimLost(r) \/ SendTitle(r) \/ SendPayment(r) \/ Done(r)
             \/ Accepted(r) \/ Refused(r) \/ Lost(r) \/ InstallmentLost(r)
    BY <2>2 DEF Search, ClaimLost, SendTitle, SendPayment, Done, Accepted, Refused, Lost, InstallmentLost
  <2> QED  BY <2>1, <2>2 DEF RequestStep
<1> QED  BY <1>2, <1>3, <1>4, <1>5, <1>6

\* A send of something else: the request is at its POST.
LEMMA SendsTurn ==
  ASSUME Inv, NEW r \in Requests, SendSupplier(r) \/ SendPayment(r) \/ SendDirect(r)
  PROVE  /\ \A q \in Requests \ {r} : task'[q] = task[q]
         /\ task'[r].pc = "post" /\ \A m \in Lines : task'[r].post # Title(Own(m))
<1>1. task \in [Requests -> Task] /\ task[r] \in Task
  BY DEF Inv, Types
<1>2. PICK l \in Lines : l = Line(r)
  BY DEF Inv, TaskInv, SendSupplier, SendPayment, SendDirect, AtStep, At
<1>3. PICK effect, seen : /\ task' = [task EXCEPT ![r] = [task[r] EXCEPT !.pc = "post", !.post = effect, !.seen = seen]]
                          /\ \/ effect = Nothing
                             \/ effect = Payment(l, Seen(r).payable)
                             \/ effect = Lancamento(l)
  BY <1>2 DEF SendSupplier, SendPayment, SendDirect, CountAndPost
<1>4. [task[r] EXCEPT !.pc = "post", !.post = effect, !.seen = seen].pc = "post"
  BY <1>1 DEF Task
<1>5. [task[r] EXCEPT !.pc = "post", !.post = effect, !.seen = seen].post = effect
  BY <1>1 DEF Task
<1>6. \A m \in Lines : effect # Title(Own(m))
  BY <1>3, EffectsAre
<1> QED  BY <1>1, <1>3, <1>4, <1>5, <1>6

\* A request that found the title it looked for goes for one of its number and kind of purchase.
LEMMA SearchTurns ==
  ASSUME Inv, NEW r \in Requests, Search(r)
  PROVE  (\A q \in Requests \ {r} : task'[q] = task[q]) /\ task'[r].pc # "post" /\ Aims(r)'
<1>1. task \in [Requests -> Task] /\ task[r] \in Task /\ task[r].pc = "step"
  BY DEF Inv, Types, Search, AtStep, At
<1>2. CASE task' = [task EXCEPT ![r].missed = TRUE]
  BY <1>1, <1>2 DEF Task, Aims, At
<1>3. CASE End(r)
  BY <1>1, <1>3, IdleIs DEF End, Aims, At
<1>4. CASE \E k \in InSeries(Line(r), Number[Line(r)]) : task' = [task EXCEPT ![r].pc = "claim", ![r].key = k]
  <2>1. PICK k \in InSeries(Line(r), Number[Line(r)]) : task' = [task EXCEPT ![r].pc = "claim", ![r].key = k]
    BY <1>4
  <2>2. task'[r].pc = "claim" /\ task'[r].key = k /\ task'[r].line = task[r].line
        /\ \A q \in Requests \ {r} : task'[q] = task[q]
    BY <1>1, <2>1 DEF Task
  <2>3. Like(Line(r), k)
    BY DEF InSeries, Waiting, Like
  <2> QED  BY <2>2, <2>3 DEF Aims, Line
<1> QED  BY <1>2, <1>3, <1>4 DEF Search

\* Every step but three.
LEMMA SteadySteps ==
  ASSUME Inv, CountInv, NEW r \in Requests, RequestStep(r), ~Register(r), ~Claim(r), ~SendTitle(r)
  PROVE  Steady
<1>1. /\ \A q \in Requests \ {r} : task'[q] = task[q]
      /\ Aims(r)'
      /\ \A m \in Lines : ~(task'[r].pc = "post" /\ task'[r].post = Title(Own(m)))
  <2>1. CASE Turned(r)
    BY <2>1 DEF Turned, Aims, At
  <2>2. CASE SendSupplier(r) \/ SendPayment(r) \/ SendDirect(r)
    BY <2>2, SendsTurn DEF Aims, At
  <2>3. CASE Search(r)
    BY <2>3, SearchTurns
  <2> QED  BY <2>1, <2>2, <2>3, QuietTurns DEF RequestStep
<1>2. \A m \in Lines : Started(m)' => Started(m)
  BY <1>1, StartsWith
<1>3. \A q \in Requests : Aims(q)'
  BY <1>1, AimsStay DEF CountInv
<1> QED  BY <1>2, <1>3, SeriesStays DEF Steady

\* The line a title answers for: the claimant, or the one that brought or announced it.
Answers(ser, k) == IF ser[k].claimed \in Lines THEN ser[k].claimed ELSE k[1]

LEMMA KeysAreFinite == IsFiniteSet(Keys)
<1>1. IsFiniteSet(1 .. Total)
  BY ProvisionConstants, FS_Interval
<1> QED  BY <1>1, PurchasesComeOnce, FS_Product DEF Keys

\* Titles that answer for different purchases are no more than the purchases.
LEMMA Spread ==
  ASSUME NEW S \in SUBSET Keys, NEW M \in SUBSET Lines, NEW ser,
         \A k \in S : Answers(ser, k) \in M,
         \A j, k \in S : Purchase[Answers(ser, j)] = Purchase[Answers(ser, k)] => j = k
  PROVE  Cardinality(S) <= Cardinality({Purchase[m] : m \in M})
<1> DEFINE P == {Purchase[m] : m \in M}
           bought == [m \in M |-> Purchase[m]]
           of == [k \in S |-> Purchase[Answers(ser, k)]]
<1>1. IsFiniteSet(P)
  <2>1. IsFiniteSet(M)
    BY PurchasesComeOnce, FS_Subset
  <2>2. bought \in Surjection(M, P)
    BY DEF Surjection
  <2> QED  BY <2>1, <2>2, FS_Surjection
<1>2. of \in Injection(S, P)
  BY DEF Injection, IsInjective
<1> QED  BY <1>1, <1>2, FS_Injection

\* Fewer titles are still no more than the purchases.
LEMMA FewerStill ==
  ASSUME NEW T \in SUBSET Keys, NEW S \in SUBSET T, NEW M \in SUBSET Lines,
         Cardinality(T) <= Cardinality({Purchase[m] : m \in M})
  PROVE  Cardinality(S) <= Cardinality({Purchase[m] : m \in M})
<1> DEFINE P == {Purchase[m] : m \in M}
           bought == [m \in M |-> Purchase[m]]
<1>1. IsFiniteSet(P)
  <2>1. IsFiniteSet(M)
    BY PurchasesComeOnce, FS_Subset
  <2>2. bought \in Surjection(M, P)
    BY DEF Surjection
  <2> QED  BY <2>1, <2>2, FS_Surjection
<1>2. IsFiniteSet(T) /\ IsFiniteSet(S) /\ Cardinality(S) <= Cardinality(T)
  BY KeysAreFinite, FS_Subset
<1>3. Cardinality(P) \in Nat /\ Cardinality(S) \in Nat /\ Cardinality(T) \in Nat
  BY <1>1, <1>2, FS_CardinalityType
<1> HIDE DEF P
<1>4. Cardinality(T) <= Cardinality(P)
  BY DEF P
<1>5. Cardinality(S) <= Cardinality(P)
  BY <1>2, <1>3, <1>4
<1> QED  BY <1>5 DEF P

\* What was claimed is in order after a step that neither claims nor starts the claimant.
LEMMA ClaimStays ==
  ASSUME Inv, Inv', NEW k \in Keys, NEW c \in Lines, ClaimFacts(c, k), Forward(c),
         excuse[c] \subseteq excuse'[c], Clean(c)' /\ Started(c)' => Started(c),
         \A j \in Keys : series'[j].claimed = c => series[j].claimed = c
  PROVE  ClaimFacts(c, k)'
<1>1. (Clean(c)' => Clean(c)) /\ (Alone(c)' => Alone(c))
  BY DEF Clean, Alone
<1>2. posting[c] \in Row /\ posting'[c] \in Row
  BY DEF Inv, Types
<1>3. Alone(c)' => posting'[c].kind = "provisao" /\ posting'[c].step \in {"baixa", "concluido"}
  <2>1. PICK old \in Row, new \in Row : old = posting[c] /\ new = posting'[c]
    BY <1>2
  <2>2. Alone(c)' => /\ old.kind = "provisao" /\ old.step \in {"baixa", "concluido"}
                     /\ new.kind = "provisao" /\ Rank(new.step) >= Rank(old.step)
    BY <1>1, <2>1 DEF ClaimFacts, Forward, Alone
  <2>3. new.step \in {"none", "fornecedor", "titulo", "baixa", "concluido"}
    BY DEF Row
  <2>4. Alone(c)' => new.step \in {"baixa", "concluido"}
    BY <2>2, <2>3, Ranks
  <2> QED  BY <2>1, <2>2, <2>4
<1> QED  BY <1>1, <1>3 DEF ClaimFacts

\* Fewer titles taken, in a history no cleaner, are enough if they were.
LEMMA EnoughStays ==
  ASSUME NEW l \in Lines, NEW n, Enough(l, n),
         \A m \in Lines : excuse[m] \subseteq excuse'[m],
         Taken(l, n)' \subseteq Taken(l, n)
  PROVE  Enough(l, n)'
<1> SUFFICES ASSUME \A m \in Same(l, n) : Clean(m)'
             PROVE  Cardinality(Taken(l, n)') <= Cardinality({Purchase[m] : m \in Same(l, n)})
  BY DEF Enough, Same
<1>1. \A m \in Same(l, n) : Clean(m)
  BY DEF Clean, Same
<1>2. PICK T \in SUBSET Keys, S \in SUBSET Keys, M \in SUBSET Lines :
        T = Taken(l, n) /\ S = Taken(l, n)' /\ S \in SUBSET T /\ M = Same(l, n)
  <2>1. Taken(l, n) \subseteq Keys /\ Same(l, n) \subseteq Lines
    BY DEF Taken, Same
  <2> QED  BY <2>1
<1>3. Cardinality(T) <= Cardinality({Purchase[m] : m \in M})
  BY <1>1, <1>2 DEF Enough
<1> QED  BY <1>2, <1>3, FewerStill

LEMMA TakenShrinks ==
  ASSUME NEW l \in Lines, NEW n,
         \A k \in Keys : k[2] = n /\ series'[k].there => series[k].there,
         \A m \in Lines : Number[m] = n /\ Started(m)' => Started(m)
  PROVE  Taken(l, n)' \subseteq Taken(l, n)
BY KeysAre DEF Taken, Same

LEMMA SteadyCounts ==
  ASSUME Inv, Onward, CountInv, Steady, \A m \in Lines : excuse[m] \subseteq excuse'[m]
  PROVE  CountInv'
<1>1. Claims'
  <2> SUFFICES ASSUME NEW k \in Keys, NEW c \in Lines, series'[k].claimed = c PROVE ClaimFacts(c, k)'
    BY DEF Claims
  <2>1. ClaimFacts(c, k)
    BY DEF CountInv, Claims, Steady
  <2> QED  BY <2>1, ClaimStays DEF Steady, Onward
<1>2. Counts'
  <2> SUFFICES ASSUME NEW l \in Lines, NEW n \in 1 .. Total PROVE Enough(l, n)'
    BY DEF Counts
  <2>1. Taken(l, n)' \subseteq Taken(l, n)
    BY TakenShrinks DEF Steady
  <2> QED  BY <2>1, EnoughStays DEF CountInv, Counts
<1> QED  BY <1>1, <1>2 DEF CountInv, Steady

LEMMA ClaimCounts ==
  ASSUME Inv, Onward, CountInv, NEW r \in Requests, Claim(r),
         \A m \in Lines : excuse[m] \subseteq excuse'[m]
  PROVE  CountInv'
<1>1. /\ At(r, "claim") /\ ~At(r, "idle") /\ Claimable(task[r].key) /\ RequestStep(r) /\ Turned(r)
  BY QuietTurns DEF Claim, At, RequestStep
<1>2. PICK l \in Lines, mine \in Row : l = Line(r) /\ mine = Seen(r)
  BY <1>1, Known
<1>3. PICK k \in Keys : /\ k = task[r].key /\ mine.step = "titulo" /\ mine.kind # "none"
                        /\ Number[l] = k[2] /\ Identity[l] = Identity[k[1]]
  BY <1>1, <1>2, Known DEF Inv, TaskInv, StepFacts, At, CountInv, Aims, Like
<1>4. /\ series \in [Keys -> Installment] /\ posting[l] \in Row /\ posting \in [Lines -> Row]
      /\ \A j \in Keys : series[j].claimed # l
  BY <1>2 DEF Inv, Types, Claim
<1>5. \A m \in Lines : Started(m)' => Started(m)
  BY <1>1, StartsWith DEF Turned
<1>6. series' = series \/ series' = [series EXCEPT ![k].claimed = l]
  BY <1>2, <1>3 DEF Claim
<1>7. \A j \in Keys : /\ series'[j].there = series[j].there
                      /\ series'[j].claimed = series[j].claimed \/ (j = k /\ series'[j].claimed = l)
  BY <1>4, <1>6 DEF Installment
<1>8. Clean(l)' => ~Started(l)
  <2> SUFFICES ASSUME Clean(l)', Started(l) PROVE FALSE
    OBVIOUS
  <2>1. CASE Title(Own(l)) \in Effects
    <3>1. Excused(l, "order")
      BY <1>2, <2>1 DEF Claim
    <3>2. "order" \in excuse'[l]
      BY <3>1, ExcusedIs DEF Inv, Types
    <3> QED  BY <3>2 DEF Clean
  <2>2. CASE \E q \in Requests : At(q, "post") /\ task[q].post = Title(Own(l))
    <3>1. PICK q \in Requests : At(q, "post") /\ task[q].post = Title(Own(l))
      BY <2>2
    <3>2. q # r /\ Line(q) = l
      BY <1>1, <3>1, StartedBy DEF At
    <3>3. ~Alone(l)
      BY <1>2, <3>2 DEF Inv, Single
    <3> QED  BY <3>3 DEF Clean, Alone
  <2> QED  BY <2>1, <2>2 DEF Started
<1>9. series'[k].claimed = l /\ Alone(l)' => posting'[l].kind = "provisao" /\ posting'[l].step \in {"baixa", "concluido"}
  <2> SUFFICES ASSUME series'[k].claimed = l, Alone(l)'
               PROVE  posting'[l].kind = "provisao" /\ posting'[l].step \in {"baixa", "concluido"}
    OBVIOUS
  <2>1. Alone(l) /\ mine = posting[l] /\ (mine = NoRow \/ Coherent(mine))
    BY <1>1, <1>2, Known DEF Alone
  <2>2. mine.kind = "provisao"
    BY <1>3, <2>1, NoRowIs DEF Coherent
  <2>3. PICK step \in {"titulo", "baixa", "concluido"} : step = AfterTitle(l) /\ step # "titulo"
    BY DEF AfterTitle
  <2>4. PICK base \in Row : base = [mine EXCEPT !.payable = k] /\ base.kind = mine.kind
    <3>1. [mine EXCEPT !.payable = k] \in Row
      BY DEF Row
    <3> QED  BY <3>1 DEF Row
  <2>5. PICK new \in Row : new = Advance(base, step) /\ new.kind = mine.kind /\ new.step = step
    <3>1. Advance(base, step) \in Row /\ Advance(base, step).step = step /\ Advance(base, step).kind = base.kind
      BY AdvanceIs
    <3> QED  BY <2>4, <3>1
  <2>6. /\ Store(r, new, "step")
        /\ series' = IF Coherent(Flushed(r, new)) THEN [series EXCEPT ![k].claimed = l] ELSE series
    BY <1>2, <1>3, <2>3, <2>4, <2>5 DEF Claim
  <2>7. Coherent(Flushed(r, new))
    BY <1>4, <2>6
  <2>8. Flushed(r, new) = new
    BY <1>2, <2>1, FlushedIs
  <2>9. posting'[l] = new
    BY <1>2, <1>4, <2>6, <2>7, <2>8 DEF Store
  <2> QED  BY <2>2, <2>3, <2>5, <2>9
<1>10. Claims'
  <2> SUFFICES ASSUME NEW j \in Keys, NEW c \in Lines, series'[j].claimed = c PROVE ClaimFacts(c, j)'
    BY DEF Claims
  <2>1. CASE c # l
    <3>1. ClaimFacts(c, j)
      BY <1>7, <2>1 DEF CountInv, Claims
    <3>2. \A i \in Keys : series'[i].claimed = c => series[i].claimed = c
      BY <1>7, <2>1
    <3> QED  BY <1>5, <3>1, <3>2, ClaimStays DEF Onward
  <2>2. CASE c = l
    <3>1. j = k /\ \A i \in Keys : series'[i].claimed = c => i = k
      BY <1>4, <1>7, <2>2
    <3> QED  BY <1>3, <1>5, <1>8, <1>9, <2>2, <3>1 DEF ClaimFacts
  <2> QED  BY <2>1, <2>2
<1>11. Counts'
  <2> SUFFICES ASSUME NEW i \in Lines, NEW n \in 1 .. Total PROVE Enough(i, n)'
    BY DEF Counts
  <2>1. Taken(i, n)' \subseteq Taken(i, n)
    BY <1>5, <1>7, TakenShrinks
  <2> QED  BY <2>1, EnoughStays DEF CountInv, Counts
<1>12. \A q \in Requests : Aims(q)'
  BY <1>1, AimsStay DEF CountInv, Turned, Aims, At
<1> QED  BY <1>10, <1>11, <1>12 DEF CountInv

\* After a request's step about the line a, no title n of purchases like a's waits in another
\* invoice, and none that waits is of a purchase that has another: the titles n are enough.
LEMMA ToldApart ==
  ASSUME Inv', Claims', NEW a \in Lines, NEW l \in Lines, NEW n \in 1 .. Total, a \in Same(l, n),
         \A o \in Lines : LET k == <<o, n>> IN
           series'[k].there /\ series'[k].claimed = NoLine /\ Identity[o] = Identity[a] =>
             /\ Session[o] = Session[a]
             /\ \A m \in Lines \ {a} : Purchase[m] = Purchase[o] /\ Number[m] = n =>
                  ~Started(m)' /\ \A j \in Keys : series'[j].claimed # m
  PROVE  Enough(l, n)'
<1> SUFFICES ASSUME \A m \in Same(l, n) : Clean(m)'
             PROVE  Cardinality(Taken(l, n)') <= Cardinality({Purchase[m] : m \in Same(l, n)})
  BY DEF Enough, Same
<1>1. PICK S \in SUBSET Keys, M \in SUBSET Lines, ser \in [Keys -> Installment] :
        S = Taken(l, n)' /\ M = Same(l, n) /\ ser = series'
  <2>1. Taken(l, n)' \subseteq Keys /\ Same(l, n) \subseteq Lines /\ series' \in [Keys -> Installment]
    BY DEF Taken, Same, Inv, Types
  <2> QED  BY <2>1
<1>2. ASSUME NEW k \in S
      PROVE  /\ k = <<k[1], n>> /\ k \in Keys /\ k[1] \in M /\ k[1] \in Lines
             /\ ser[k].there \/ (Number[k[1]] = n /\ Started(k[1])')
             /\ ser[k].claimed \in Lines \cup {NoLine}
             /\ ser[k].claimed \in Lines => ser[k].there
             /\ ser[k].there => Number[k[1]] # n
             /\ \A c \in Lines : ser[k].claimed = c => ClaimFacts(c, k)'
  <2>1. k = <<k[1], n>> /\ k \in Keys /\ k[1] \in M /\ k[1] \in Lines
    BY <1>1 DEF Taken, Keys
  <2>2. ser[k].there \/ (Number[k[1]] = n /\ Started(k[1])')
    BY <1>1, <2>1, KeysAre DEF Taken
  <2>3. /\ ser[k].claimed \in Lines \cup {NoLine}
        /\ ser[k].claimed \in Lines => ser[k].there
    BY <1>1, <2>1, KeysAre DEF Installment, Inv, SeriesInv
  <2>4. ser[k].there => Number[k[1]] # n
    <3>1. ser[k].there => k[2] > Number[k[1]]
      BY <1>1, <2>1 DEF Inv, SeriesInv
    <3>2. k[2] = n /\ n \in Nat /\ Number[k[1]] \in Nat
      BY <2>1, KeysAre
    <3> QED  BY <3>1, <3>2
  <2>5. \A c \in Lines : ser[k].claimed = c => ClaimFacts(c, k)'
    BY <1>1, <2>1 DEF Claims
  <2> QED  BY <2>1, <2>2, <2>3, <2>4, <2>5
<1>3. ASSUME NEW k \in S, NEW c \in Lines, ser[k].claimed = c
      PROVE  c \in M /\ Number[c] = n /\ ~Started(c)' /\ \A j \in S : ser[j].claimed = c => j = k
  <2>1. ClaimFacts(c, k)' /\ k[2] = n /\ k[1] \in M
    BY <1>2, <1>3
  <2>2. Number[c] = n /\ Identity[c] = Identity[k[1]] /\ \A j \in Keys : ser[j].claimed = c => j = k
    BY <1>1, <2>1 DEF ClaimFacts
  <2>3. c \in M
    BY <1>1, <2>1, <2>2, KeysAre DEF Same
  <2>4. ~Started(c)'
    BY <1>1, <2>1, <2>3 DEF ClaimFacts
  <2> QED  BY <2>2, <2>3, <2>4
<1>4. \A k \in S : Answers(ser, k) \in M
  BY <1>2, <1>3 DEF Answers
<1>5. ASSUME NEW k \in S, ser[k].there, ser[k].claimed = NoLine
      PROVE  /\ Session[k[1]] = Session[a] /\ Number[k[1]] # n
             /\ \A m \in Lines \ {a} : Purchase[m] = Purchase[k[1]] /\ Number[m] = n =>
                  ~Started(m)' /\ \A j \in Keys : ser[j].claimed # m
  <2>1. Identity[k[1]] = Identity[a]
    BY <1>1, <1>2 DEF Same
  <2> QED  BY <1>1, <1>2, <1>5, <2>1
\* The line a title answers for has it, or only waits for it.
<1>6. ASSUME NEW k \in S
      PROVE  \/ /\ Answers(ser, k) = k[1] /\ ser[k].claimed = NoLine
                /\ Number[k[1]] = n /\ Started(k[1])' /\ ~ser[k].there
             \/ Answers(ser, k) = ser[k].claimed /\ ser[k].claimed \in Lines /\ Number[ser[k].claimed] = n
             \/ Answers(ser, k) = k[1] /\ ser[k].claimed = NoLine /\ ser[k].there
  BY <1>2, <1>3, KeysAre DEF Answers
<1>7. ASSUME NEW k \in S, NEW m \in Lines, m = Answers(ser, k), Number[m] = n
      PROVE  Started(m)' \/ ser[k].claimed = m
  BY <1>2, <1>6, <1>7
<1>8. ASSUME NEW j \in S, NEW k \in S, Purchase[Answers(ser, j)] = Purchase[Answers(ser, k)]
      PROVE  j = k
  <2>1. ASSUME NEW x \in S, NEW y \in S, Purchase[Answers(ser, x)] = Purchase[Answers(ser, y)],
               Answers(ser, y) = y[1], ser[y].claimed = NoLine, ser[y].there,
               Number[Answers(ser, x)] = n,
               (~ser[x].there /\ Started(Answers(ser, x))') \/ ser[x].claimed = Answers(ser, x)
        PROVE  FALSE
    <3>1. PICK m \in Lines : m = Answers(ser, x)
      BY <1>4
    <3>2. CASE m = a
      <4>1. Session[y[1]] = Session[m] /\ Purchase[y[1]] = Purchase[m] /\ y[1] \in Lines
        BY <1>2, <1>5, <2>1, <3>1, <3>2
      <4>2. y[1] = m
        BY <4>1, PurchasesComeOnce
      <4> QED  BY <1>5, <2>1, <3>1, <4>2
    <3>3. CASE m # a
      <4>1. ~Started(m)' /\ \A i \in Keys : ser[i].claimed # m
        BY <1>5, <2>1, <3>1, <3>3
      <4> QED  BY <1>2, <2>1, <3>1, <4>1
    <3> QED  BY <3>2, <3>3
  <2>2. CASE /\ Answers(ser, j) = j[1] /\ ser[j].claimed = NoLine /\ ser[j].there
             /\ Answers(ser, k) = k[1] /\ ser[k].claimed = NoLine /\ ser[k].there
    <3>1. Session[j[1]] = Session[k[1]] /\ Purchase[j[1]] = Purchase[k[1]] /\ j[1] \in Lines /\ k[1] \in Lines
      BY <1>2, <1>5, <1>8, <2>2
    <3>2. j[1] = k[1]
      BY <3>1, PurchasesComeOnce
    <3> QED  BY <1>2, <3>2
  <2>3. CASE Number[Answers(ser, j)] = n /\ Number[Answers(ser, k)] = n
    <3>1. PICK m \in Lines : m = Answers(ser, j) /\ m = Answers(ser, k)
      <4>1. Answers(ser, j) \in Lines /\ Answers(ser, k) \in Lines
        BY <1>4
      <4> QED  BY <1>8, <2>3, <4>1, PurchasesComeOnce
    <3>2. CASE ser[j].claimed = m
      <4>1. ~Started(m)' /\ (ser[k].claimed = m => k = j)
        BY <1>3, <3>2
      <4>2. ser[k].claimed = m
        BY <1>7, <2>3, <3>1, <4>1
      <4> QED  BY <4>1, <4>2
    <3>3. CASE ser[k].claimed = m
      <4>1. ~Started(m)' /\ (ser[j].claimed = m => j = k)
        BY <1>3, <3>3
      <4>2. ser[j].claimed = m
        BY <1>7, <2>3, <3>1, <4>1
      <4> QED  BY <4>1, <4>2
    <3>4. CASE ser[j].claimed # m /\ ser[k].claimed # m
      <4>1. j[1] = k[1]
        BY <1>6, <3>1, <3>4
      <4> QED  BY <1>2, <4>1
    <3> QED  BY <3>2, <3>3, <3>4
  <2> QED  BY <1>2, <1>3, <1>6, <1>8, <2>1, <2>2, <2>3
<1> QED  BY <1>1, <1>4, <1>8, Spread

\* The title n of another line that the request's history would have noted.
LEMMA NotOvertaken ==
  ASSUME NEW a \in Lines, NEW n \in 1 .. Total, ~Overtaken(a, n), NEW o \in Lines,
         o = a \/ (<<o, n>> \in Waiting(a, n) /\ Session[o] = Session[a]),
         NEW m \in Lines \ {a}, Purchase[m] = Purchase[o], Number[m] = n
  PROVE  ~Started(m) /\ \A j \in Keys : series[j].claimed # m
BY DEF Overtaken, Used, Started

LEMMA SendTitleCounts ==
  ASSUME Inv, Onward, CountInv, NEW r \in Requests, SendTitle(r),
         \A m \in Lines : excuse[m] \subseteq excuse'[m]
  PROVE  CountInv'
<1>1. At(r, "step") /\ ~At(r, "idle") /\ Seen(r).step = "titulo" /\ RequestStep(r) /\ ~Register(r) /\ ~Claim(r)
  BY DEF SendTitle, AtStep, At, RequestStep, Register, Claim
<1>2. PICK a \in Lines : a = Line(r)
  BY <1>1, Known
<1>3. \A k \in Keys : series'[k].there = series[k].there /\ series'[k].claimed = series[k].claimed
  BY <1>1, SeriesStays
<1>4. /\ \A q \in Requests \ {r} : task'[q] = task[q]
      /\ task'[r].pc = "post" /\ task'[r].post = Title(Own(a))
  <2>1. task \in [Requests -> Task] /\ task[r] \in Task
    BY DEF Inv, Types
  <2>2. PICK seen : task' = [task EXCEPT ![r] = [task[r] EXCEPT !.pc = "post", !.post = Title(Own(a)), !.seen = seen]]
    BY <1>2 DEF SendTitle, CountAndPost
  <2>3. [task[r] EXCEPT !.pc = "post", !.post = Title(Own(a)), !.seen = seen].pc = "post"
    BY <2>1 DEF Task
  <2>4. [task[r] EXCEPT !.pc = "post", !.post = Title(Own(a)), !.seen = seen].post = Title(Own(a))
    BY <2>1 DEF Task
  <2> QED  BY <2>1, <2>2, <2>3, <2>4
<1>5. \A m \in Lines \ {a} : Started(m)' => Started(m)
  <2> SUFFICES ASSUME NEW m \in Lines \ {a}, Started(m)', ~Started(m) PROVE FALSE
    OBVIOUS
  <2>1. Title(Own(a)) = Title(Own(m))
    BY <1>1, <1>4, StartsWith
  <2> QED  BY <2>1, KeysAre, EffectsAre
<1>6. Claims'
  <2> SUFFICES ASSUME NEW k \in Keys, NEW c \in Lines, series'[k].claimed = c PROVE ClaimFacts(c, k)'
    BY DEF Claims
  <2>1. ClaimFacts(c, k)
    BY <1>3 DEF CountInv, Claims
  <2>2. c = a => ~Alone(c)
    <3>1. Alone(a) => posting[a].step = "titulo"
      BY <1>1, <1>2, Known
    <3> QED  BY <2>1, <3>1 DEF ClaimFacts
  <2>3. Clean(c)' /\ Started(c)' => Started(c)
    BY <1>5, <2>2 DEF Clean, Alone
  <2>4. \A j \in Keys : series'[j].claimed = c => series[j].claimed = c
    BY <1>3
  <2> QED  BY <2>1, <2>3, <2>4, ClaimStays DEF Onward
<1>7. Counts'
  <2> SUFFICES ASSUME NEW l \in Lines, NEW n \in 1 .. Total PROVE Enough(l, n)'
    BY DEF Counts
  <2>1. CASE n # Number[a]
    <3>1. Taken(l, n)' \subseteq Taken(l, n)
      BY <1>3, <1>5, <2>1, TakenShrinks
    <3> QED  BY <3>1, EnoughStays DEF CountInv, Counts
  <2>2. CASE a \notin Same(l, n)
    <3>1. Taken(l, n)' \subseteq Taken(l, n)
      BY <1>3, <1>5, <2>2, KeysAre DEF Taken, Same
    <3> QED  BY <3>1, EnoughStays DEF CountInv, Counts
  <2>3. CASE n = Number[a] /\ a \in Same(l, n) /\ ~Clean(a)'
    BY <2>3 DEF Enough, Same
  <2>4. CASE n = Number[a] /\ a \in Same(l, n) /\ Clean(a)'
    <3>1. InSeries(a, n) = {} /\ ~Overtaken(a, n)
      <4> SUFFICES ASSUME InSeries(a, n) # {} \/ Overtaken(a, n) PROVE FALSE
        OBVIOUS
      <4>1. Excused(a, "order")
        BY <1>2, <2>4 DEF SendTitle
      <4>2. "order" \in excuse'[a]
        BY <4>1, ExcusedIs DEF Inv, Types
      <4> QED  BY <2>4, <4>2 DEF Clean
    <3>2. ASSUME NEW o \in Lines, NEW k, k = <<o, n>>,
                 series'[k].there, series'[k].claimed = NoLine, Identity[o] = Identity[a]
          PROVE  /\ Session[o] = Session[a]
                 /\ \A m \in Lines \ {a} : Purchase[m] = Purchase[o] /\ Number[m] = n =>
                      ~Started(m)' /\ \A j \in Keys : series'[j].claimed # m
      <4>1. k \in Keys /\ k[1] = o /\ k[2] = n
        BY <3>2 DEF Keys
      <4>2. k \in Waiting(a, n)
        BY <1>3, <3>2, <4>1 DEF Waiting
      <4>3. Session[o] = Session[a]
        BY <3>1, <4>1, <4>2 DEF InSeries
      <4> QED  BY <1>3, <1>5, <3>1, <3>2, <4>2, <4>3, NotOvertaken
    <3> QED  BY <1>6, <2>4, <3>2, ToldApart DEF Onward
  <2> QED  BY <2>1, <2>2, <2>3, <2>4
<1>8. \A q \in Requests : Aims(q)'
  BY <1>4, AimsStay DEF CountInv, Aims, At
<1> QED  BY <1>6, <1>7, <1>8 DEF CountInv

LEMMA RegisterCounts ==
  ASSUME Inv, Onward, CountInv, NEW r \in Requests, Register(r),
         \A m \in Lines : excuse[m] \subseteq excuse'[m]
  PROVE  CountInv'
<1>1. At(r, "after") /\ ~At(r, "idle") /\ RequestStep(r) /\ Turned(r)
  BY QuietTurns DEF Register, At, RequestStep
<1>2. PICK a \in Lines : a = Line(r)
  BY <1>1, Known
<1>3. PICK mine :
        /\ mine = {k \in Future(a) : ~series[k].there /\ InSeries(a, k[2]) = {}}
        /\ series' = Registered(mine)
        /\ IF \E k \in mine : Overtaken(a, k[2]) THEN Excused(a, "order") ELSE UNCHANGED excuse
  BY <1>2 DEF Register
<1>4. mine \subseteq Keys /\ \A k \in mine : k[1] = a /\ k[2] > Number[a] /\ ~series[k].there /\ InSeries(a, k[2]) = {}
  BY <1>3 DEF Future
<1>5. \A k \in Keys : /\ k \notin mine => series'[k] = series[k]
                      /\ k \in mine => series'[k].claimed = NoLine
  BY <1>3 DEF Registered, NoInstallment
<1>6. \A k \in Keys : \A c \in Lines : series'[k].claimed = c => series[k].claimed = c
  BY <1>5, KeysAre
<1>7. \A m \in Lines : Started(m)' => Started(m)
  BY <1>1, StartsWith DEF Turned
<1>8. Claims'
  <2> SUFFICES ASSUME NEW k \in Keys, NEW c \in Lines, series'[k].claimed = c PROVE ClaimFacts(c, k)'
    BY DEF Claims
  <2>1. ClaimFacts(c, k)
    BY <1>6 DEF CountInv, Claims
  <2> QED  BY <1>6, <1>7, <2>1, ClaimStays DEF Onward
<1>9. Counts'
  <2> SUFFICES ASSUME NEW l \in Lines, NEW n \in 1 .. Total PROVE Enough(l, n)'
    BY DEF Counts
  <2>0. <<a, n>> \in Keys /\ \A k \in mine : k[2] = n => k = <<a, n>>
    BY <1>4 DEF Keys
  <2>1. CASE <<a, n>> \notin mine
    <3>1. Taken(l, n)' \subseteq Taken(l, n)
      BY <1>5, <1>7, <2>0, <2>1, TakenShrinks
    <3> QED  BY <3>1, EnoughStays DEF CountInv, Counts
  <2>2. CASE a \notin Same(l, n)
    <3>1. Taken(l, n)' \subseteq Taken(l, n)
      BY <1>4, <1>5, <1>7, <2>2, KeysAre DEF Taken, Same
    <3> QED  BY <3>1, EnoughStays DEF CountInv, Counts
  <2>3. CASE a \in Same(l, n) /\ ~Clean(a)'
    BY <2>3 DEF Enough, Same
  <2>4. CASE <<a, n>> \in mine /\ a \in Same(l, n) /\ Clean(a)'
    <3>1. InSeries(a, n) = {} /\ Number[a] < n
      BY <1>4, <2>4, KeysAre
    <3>2. ~Overtaken(a, n)
      <4> SUFFICES ASSUME Overtaken(a, n) PROVE FALSE
        OBVIOUS
      <4>1. Excused(a, "order")
        BY <1>3, <2>4
      <4>2. "order" \in excuse'[a]
        BY <4>1, ExcusedIs DEF Inv, Types
      <4> QED  BY <2>4, <4>2 DEF Clean
    <3>3. ASSUME NEW o \in Lines, NEW k, k = <<o, n>>,
                 series'[k].there, series'[k].claimed = NoLine, Identity[o] = Identity[a]
          PROVE  /\ Session[o] = Session[a]
                 /\ \A m \in Lines \ {a} : Purchase[m] = Purchase[o] /\ Number[m] = n =>
                      ~Started(m)' /\ \A j \in Keys : series'[j].claimed # m
      <4>1. k \in Keys /\ k[1] = o /\ k[2] = n
        BY <3>3 DEF Keys
      <4>2. o = a \/ k \in Waiting(a, n)
        <5>1. o # a => k \notin mine
          BY <2>0, <3>3, <4>1
        <5> QED  BY <1>5, <3>3, <4>1, <5>1 DEF Waiting
      <4>3. Session[o] = Session[a]
        BY <3>1, <4>1, <4>2 DEF InSeries
      <4> QED  BY <1>6, <1>7, <3>2, <3>3, <4>2, <4>3, NotOvertaken
    <3> QED  BY <1>8, <2>4, <3>3, ToldApart DEF Onward
  <2> QED  BY <2>1, <2>2, <2>3, <2>4
<1>10. \A q \in Requests : Aims(q)'
  BY <1>1, AimsStay DEF CountInv, Turned, Aims, At
<1> QED  BY <1>8, <1>9, <1>10 DEF CountInv

\* A step marks one line or none.
LEMMA ExcusesGrow ==
  ASSUME Inv, NEW r \in Requests, RequestStep(r), NEW m \in Lines
  PROVE  excuse[m] \subseteq excuse'[m]
<1>1. UNCHANGED excuse \/ \E l \in Lines, why \in {"race", "retry", "order"} : Excused(l, why)
  <2>1. CASE \/ Abort(r) \/ Decide(r) \/ DecideDirect(r) \/ Ask(r) \/ SendDirect(r)
             \/ Concluded(r) \/ SupplierKnown(r) \/ SupplierPending(r) \/ SendSupplier(r)
    BY <2>1 DEF Abort, Decide, DecideDirect, Ask, SendDirect, Concluded, SupplierKnown,
                SupplierPending, SendSupplier
  <2>2. CASE \/ Search(r) \/ ClaimLost(r) \/ SendPayment(r) \/ Done(r) \/ Accepted(r) \/ Lost(r)
             \/ SendInstallment(r) \/ InstallmentAccepted(r) \/ InstallmentRefused(r) \/ InstallmentLost(r)
    BY <2>2 DEF Search, ClaimLost, SendPayment, Done, Accepted, Lost, SendInstallment,
                InstallmentAccepted, InstallmentRefused, InstallmentLost
  <2>3. CASE Read(r)
    BY <2>3 DEF Read
  <2>4. CASE Claim(r) \/ SendTitle(r) \/ Refused(r) \/ Register(r)
    <3>1. Line(r) \in Lines
      BY <2>4 DEF Inv, TaskInv, Claim, SendTitle, Refused, Register, AtStep, At
    <3> QED  BY <2>4, <3>1 DEF Claim, SendTitle, Refused, Register
  <2> QED  BY <2>1, <2>2, <2>3, <2>4 DEF RequestStep
<1> QED  BY <1>1, ExcusedIs DEF Inv, Types

LEMMA InitCounts == Init => CountInv
<1> SUFFICES ASSUME Init PROVE CountInv
  OBVIOUS
<1>1. Effects = {}
  BY DEF Init, Effects
<1>2. \A r \in Requests : ~At(r, "post") /\ ~At(r, "claim")
  BY IdleIs DEF Init, At
<1>3. Claims
  BY KeysAre DEF Init, Claims, NoInstallment
<1>4. ASSUME NEW l \in Lines, NEW n \in 1 .. Total PROVE Enough(l, n)
  <2>1. Taken(l, n) = {}
    BY <1>1, <1>2 DEF Taken, Init, NoInstallment, Started
  <2>2. PICK M \in SUBSET Lines : M = Same(l, n)
    BY DEF Same
  <2>3. Cardinality({}) <= Cardinality({Purchase[m] : m \in M})
    <3>1. \A k \in {} : k \in Keys
      OBVIOUS
    <3> QED  BY Spread
  <2> QED  BY <2>1, <2>2, <2>3 DEF Enough
<1> QED  BY <1>2, <1>3, <1>4 DEF CountInv, Counts, Aims

LEMMA NextCounts == Inv /\ CountInv /\ [Next]_vars => CountInv'
<1> SUFFICES ASSUME Inv, CountInv, [Next]_vars PROVE CountInv'
  OBVIOUS
<1>1. Onward
  BY NextInv, StutterInv
<1>2. CASE Arrives \/ UNCHANGED vars
  <2>1. UNCHANGED <<series, task, excuse>> /\ Effects' = Effects
    <3>1. CASE UNCHANGED vars
      BY <3>1 DEF vars, Effects
    <3>2. CASE Arrives
      <4>1. PICK effect \in flying : Happens(effect) /\ flying' = flying \ {effect}
        BY <3>2 DEF Arrives
      <4>2. effect \in Effect /\ \A e \in Effect : e # Nothing
        BY <4>1, EffectsAre DEF Inv, Types, Effect
      <4>3. omie' = (omie) \cup {effect}
        BY <4>1, <4>2 DEF Happens
      <4> QED  BY <3>2, <4>1, <4>3 DEF Arrives, Effects
    <3> QED  BY <1>2, <3>1, <3>2
  <2>2. Steady
    BY <2>1 DEF Steady, Started, At, CountInv, Aims, Line
  <2> QED  BY <1>1, <2>1, <2>2, SteadyCounts
<1>3. ASSUME NEW r \in Requests, RequestStep(r) PROVE CountInv'
  <2>1. \A m \in Lines : excuse[m] \subseteq excuse'[m]
    BY <1>3, ExcusesGrow
  <2>2. CASE Claim(r)
    BY <1>1, <2>1, <2>2, ClaimCounts
  <2>3. CASE SendTitle(r)
    BY <1>1, <2>1, <2>3, SendTitleCounts
  <2>4. CASE Register(r)
    BY <1>1, <2>1, <2>4, RegisterCounts
  <2>5. CASE ~Register(r) /\ ~Claim(r) /\ ~SendTitle(r)
    BY <1>1, <1>3, <2>1, <2>5, SteadySteps, SteadyCounts
  <2> QED  BY <2>2, <2>3, <2>4, <2>5
<1> QED  BY <1>2, <1>3 DEF Next

LEMMA CountsInvariance == Spec => []CountInv
<1>1. Inv /\ CountInv /\ [Next]_vars => CountInv'
  BY NextCounts
<1> QED  BY Invariance, InitCounts, <1>1, PTL DEF Spec

\* Of the installments n of purchases the program cannot tell apart there are no more titles
\* than purchases, whatever the number of purchases, invoices and requests.
THEOREM NoTitleTooMany == Spec => []NoMoreTitlesThanPurchases
<1>1. Inv /\ CountInv => NoMoreTitlesThanPurchases
  <2> SUFFICES ASSUME Inv, CountInv, NEW l \in Lines, NEW n \in 1 .. Total,
                      NEW same, same = Same(l, n), \A m \in same : Clean(m),
                      NEW titles, titles = {k \in Keys : k[2] = n /\ k[1] \in same /\ Title(k) \in Effects}
               PROVE  Cardinality(titles) <= Cardinality({Purchase[m] : m \in same})
    BY DEF NoMoreTitlesThanPurchases, Same
  <2>1. titles \subseteq Taken(l, n)
    BY KeysAre DEF Taken, Started, Inv, SeriesInv
  <2>2. PICK T \in SUBSET Keys, M \in SUBSET Lines : T = Taken(l, n) /\ M = same
    BY DEF Taken, Same
  <2>3. Cardinality(T) <= Cardinality({Purchase[m] : m \in M})
    BY <2>2 DEF CountInv, Counts, Enough
  <2>4. titles \in SUBSET T
    BY <2>1, <2>2
  <2> QED  BY <2>2, <2>3, <2>4, FewerStill
<1> QED  BY Invariance, CountsInvariance, <1>1, PTL

-------------------------------------------------------------------------------
(* The sends of an installment.                                             *)

\* What a request has to send is of its line and, while no other request had that line,
\* below the cap in the stored row too.
Below(r) ==
  \A k \in task[r].todo : k[1] = Line(r) /\ (Alone(Line(r)) => series[k].attempts < MaxSends)

CapInv ==
  /\ \A r \in Requests : Below(r)
  /\ \A k \in Keys : Alone(k[1]) => series[k].attempts <= MaxSends

\* The request goes on with what it had to send, or with nothing.
Carried(r) ==
  /\ \A q \in Requests \ {r} : task'[q] = task[q]
  /\ task'[r].todo = {} \/ (task'[r].todo = task[r].todo /\ task'[r].line = task[r].line)

LEMMA StoreCarries ==
  ASSUME Inv, NEW r \in Requests, NEW new, NEW next, Store(r, new, next)
  PROVE  Carried(r)
<1>1. task \in [Requests -> Task] /\ task[r] \in Task
  BY DEF Inv, Types
<1>2. CASE task' = [task EXCEPT ![r] = Idle]
  BY <1>1, <1>2 DEF Carried, Idle
<1>3. CASE task' = [task EXCEPT ![r] = [task[r] EXCEPT !.pc = next, !.seen = new, !.post = Nothing]]
  BY <1>1, <1>3 DEF Carried, Task
<1> QED  BY <1>2, <1>3 DEF Store, End

LEMMA GoesCarried ==
  ASSUME Inv, NEW r \in Requests, End(r) \/ \E pc : Goto(r, pc)
  PROVE  Carried(r)
<1>1. task \in [Requests -> Task] /\ task[r] \in Task
  BY DEF Inv, Types
<1>2. CASE End(r)
  BY <1>1, <1>2 DEF End, Carried, Idle
<1>3. CASE \E pc : Goto(r, pc)
  BY <1>1, <1>3 DEF Goto, Carried, Task
<1> QED  BY <1>2, <1>3

\* A POST for the line itself.
LEMMA PostCarries ==
  ASSUME Inv, NEW r \in Requests, NEW effect, NEW seen,
         task' = [task EXCEPT ![r] = [task[r] EXCEPT !.pc = "post", !.post = effect, !.seen = seen]]
  PROVE  Carried(r)
BY DEF Inv, Types, Carried, Task

\* Every step but two.
LEMMA RequestCarries ==
  ASSUME Inv, NEW r \in Requests, RequestStep(r), ~Register(r), ~SendInstallment(r)
  PROVE  Carried(r)
<1>1. task \in [Requests -> Task] /\ task[r] \in Task
  BY DEF Inv, Types
<1>2. CASE Read(r)
  <2>1. PICK l : task' = [task EXCEPT ![r] = [Idle EXCEPT !.pc = "decide", !.line = l, !.seen = posting[l]]]
    BY <1>2 DEF Read
  <2>2. [Idle EXCEPT !.pc = "decide", !.line = l, !.seen = posting[l]].todo = {}
    BY DEF Idle
  <2> QED  BY <1>1, <2>1, <2>2 DEF Carried
<1>3. CASE Abort(r) \/ Lost(r) \/ Done(r) \/ InstallmentLost(r)
  BY <1>3, GoesCarried DEF Abort, Lost, Done, InstallmentLost
<1>4. CASE Decide(r)
  <2>1. CASE Seen(r).kind = "none"
    <3>1. PICK row : task' = [task EXCEPT ![r].pc = "step", ![r].seen = row]
      BY <1>4, <2>1 DEF Decide, Refuses
    <3> QED  BY <1>1, <3>1 DEF Carried, Task
  <2>2. CASE Seen(r).kind # "none"
    <3>1. End(r) \/ Goto(r, "after") \/ Goto(r, "step") \/ \E new : Store(r, new, "step")
      BY <1>4, <2>2 DEF Decide
    <3> QED  BY <3>1, GoesCarried, StoreCarries
  <2> QED  BY <2>1, <2>2
<1>5. CASE DecideDirect(r)
  <2>1. End(r) \/ Goto(r, "ask") \/ Goto(r, "lanc") \/ \E new : Store(r, new, "lanc")
    BY <1>5 DEF DecideDirect
  <2> QED  BY <2>1, GoesCarried, StoreCarries
<1>6. CASE Ask(r) \/ Concluded(r) \/ SupplierKnown(r) \/ SupplierPending(r)
  <2>1. End(r) \/ Goto(r, "lanc") \/ Goto(r, "after") \/ \E new, next : Store(r, new, next)
    BY <1>6 DEF Ask, Concluded, SupplierKnown, SupplierPending
  <2> QED  BY <2>1, GoesCarried, StoreCarries
<1>7. CASE Claim(r) \/ Refused(r)
  <2>1. \E new, next : Store(r, new, next)
    BY <1>7 DEF Claim, Refused
  <2> QED  BY <2>1, StoreCarries
<1>8. CASE Accepted(r)
  <2>1. At(r, "post") /\ PostFacts(r)
    BY <1>8 DEF Accepted, Inv, TaskInv, At
  <2>2. task[r].post.what \in {"supplier", "title", "payment", "lanc"}
    BY <2>1, EffectsAre DEF PostFacts
  <2>3. \E new, next : Store(r, new, next)
    BY <1>8, <2>2 DEF Accepted
  <2> QED  BY <2>3, StoreCarries
<1>9. CASE ClaimLost(r)
  <2>1. \/ task' = [task EXCEPT ![r].pc = "step", ![r].key = NoKey]
        \/ task' = [task EXCEPT ![r].pc = "step", ![r].key = NoKey, ![r].missed = TRUE]
    BY <1>9 DEF ClaimLost
  <2> QED  BY <1>1, <2>1 DEF Carried, Task
<1>10. CASE Search(r)
  <2>1. \/ task' = [task EXCEPT ![r].missed = TRUE]
        \/ \E k : task' = [task EXCEPT ![r].pc = "claim", ![r].key = k]
        \/ End(r)
    BY <1>10 DEF Search
  <2>2. CASE task' = [task EXCEPT ![r].missed = TRUE]
    BY <1>1, <2>2 DEF Carried, Task
  <2>3. CASE \E k : task' = [task EXCEPT ![r].pc = "claim", ![r].key = k]
    BY <1>1, <2>3 DEF Carried, Task
  <2> QED  BY <2>1, <2>2, <2>3, GoesCarried
<1>11. CASE InstallmentAccepted(r) \/ InstallmentRefused(r)
  BY <1>1, <1>11 DEF InstallmentAccepted, InstallmentRefused, Back, Carried, Task
<1>12. CASE SendSupplier(r) \/ SendTitle(r) \/ SendPayment(r) \/ SendDirect(r)
  <2>1. \E effect, seen : task' = [task EXCEPT ![r] = [task[r] EXCEPT !.pc = "post", !.post = effect, !.seen = seen]]
    BY <1>12 DEF SendSupplier, SendTitle, SendPayment, SendDirect, CountAndPost
  <2> QED  BY <2>1, PostCarries
<1> QED  BY <1>2, <1>3, <1>4, <1>5, <1>6, <1>7, <1>8, <1>9, <1>10, <1>11, <1>12 DEF RequestStep

\* Nor do those steps count a send of an installment.
LEMMA AttemptsStay ==
  ASSUME Inv, NEW r \in Requests, RequestStep(r), ~Register(r), ~SendInstallment(r), NEW k \in Keys
  PROVE  series'[k].attempts \in {0, series[k].attempts}
<1>1. series \in [Keys -> Installment]
  BY DEF Inv, Types
<1>2. CASE series' = series
  BY <1>2
<1>3. CASE Claim(r)
  <2>1. series' = series \/ \E j, c : series' = [series EXCEPT ![j].claimed = c]
    BY <1>3 DEF Claim
  <2> QED  BY <1>1, <2>1 DEF Installment
<1>4. CASE InstallmentAccepted(r)
  BY <1>1, <1>4 DEF InstallmentAccepted, Installment
<1>5. CASE InstallmentRefused(r)
  BY <1>1, <1>5 DEF InstallmentRefused, Installment
<1>6. series' = series \/ Claim(r) \/ InstallmentAccepted(r) \/ InstallmentRefused(r)
  <2>1. CASE \/ Read(r) \/ Abort(r) \/ Decide(r) \/ DecideDirect(r) \/ Ask(r) \/ SendDirect(r)
             \/ Concluded(r) \/ SupplierKnown(r) \/ SupplierPending(r) \/ SendSupplier(r)
    BY <2>1 DEF Read, Abort, Decide, DecideDirect, Ask, SendDirect, Concluded, SupplierKnown,
                SupplierPending, SendSupplier
  <2>2. CASE \/ Search(r) \/ ClaimLost(r) \/ SendTitle(r) \/ SendPayment(r) \/ Done(r)
             \/ Accepted(r) \/ Refused(r) \/ Lost(r) \/ InstallmentLost(r)
    BY <2>2 DEF Search, ClaimLost, SendTitle, SendPayment, Done, Accepted, Refused, Lost, InstallmentLost
  <2> QED  BY <2>1, <2>2 DEF RequestStep
<1> QED  BY <1>2, <1>3, <1>4, <1>5, <1>6

LEMMA CarriedCaps ==
  ASSUME CapInv, NEW r \in Requests, Carried(r), 0 < MaxSends, MaxSends \in Nat,
         \A k \in Keys : series'[k].attempts \in {0, series[k].attempts},
         \A m \in Lines : excuse[m] \subseteq excuse'[m],
         \A q \in Requests : task[q].todo \subseteq Keys
  PROVE  CapInv'
<1>1. \A m \in Lines : Alone(m)' => Alone(m)
  BY DEF Alone
<1>2. ASSUME NEW q \in Requests PROVE Below(q)'
  <2> SUFFICES ASSUME NEW k \in task'[q].todo
               PROVE  k[1] = Line(q)' /\ (Alone(Line(q))' => series'[k].attempts < MaxSends)
    BY DEF Below
  <2>1. k \in task[q].todo /\ k \in Keys /\ Line(q)' = Line(q)
    BY DEF Carried, Line
  <2>2. k[1] = Line(q) /\ k[1] \in Lines /\ (Alone(Line(q)) => series[k].attempts < MaxSends)
    BY <2>1, KeysAre DEF CapInv, Below
  <2>3. Alone(Line(q))' => Alone(Line(q))
    BY <1>1, <2>1, <2>2 DEF Alone
  <2> QED  BY <2>1, <2>2, <2>3
<1>3. ASSUME NEW k \in Keys, Alone(k[1])' PROVE series'[k].attempts <= MaxSends
  BY <1>1, <1>3, KeysAre DEF CapInv
<1> QED  BY <1>2, <1>3 DEF CapInv, Alone

LEMMA RegisterCaps ==
  ASSUME Inv, CapInv, NEW r \in Requests, Register(r), \A m \in Lines : excuse[m] \subseteq excuse'[m]
  PROVE  CapInv'
<1>1. PICK mine, due :
        /\ mine = {k \in Future(Line(r)) : ~series[k].there /\ InSeries(Line(r), k[2]) = {}}
        /\ due = {k \in Future(Line(r)) : series[k].there} \cup mine
        /\ series' = Registered(mine)
        /\ task' = [task EXCEPT ![r].pc = "futures", ![r].todo = {k \in due : Sendable(series[k])}]
  BY DEF Register
<1>2. \A k \in due : k \in Keys /\ k[1] = Line(r)
  BY <1>1 DEF Future
<1>3. /\ task \in [Requests -> Task] /\ task[r] \in Task /\ series \in [Keys -> Installment]
      /\ \A q \in Requests : task[q].todo \subseteq Keys
  BY DEF Inv, Types, Task
<1>4. \A k \in Keys : series'[k].attempts \in {0, series[k].attempts}
  BY <1>1, <1>3 DEF Registered, NoInstallment, Installment
<1>5. /\ \A q \in Requests \ {r} : task'[q] = task[q]
      /\ task'[r].line = task[r].line /\ task'[r].todo = {k \in due : Sendable(series[k])}
  BY <1>1, <1>3 DEF Task
<1>6. \A m \in Lines : Alone(m)' => Alone(m)
  BY DEF Alone
<1>7. ASSUME NEW q \in Requests PROVE Below(q)'
  <2> SUFFICES ASSUME NEW k \in task'[q].todo
               PROVE  k[1] = Line(q)' /\ (Alone(Line(q))' => series'[k].attempts < MaxSends)
    BY DEF Below
  <2>1. CASE q = r
    <3>1. k \in Keys /\ k[1] = Line(r)' /\ series[k].attempts < MaxSends
      BY <1>2, <1>5, <2>1 DEF Sendable, Line
    <3> QED  BY <1>4, <2>1, <3>1, ZeroIs
  <2>2. CASE q # r
    <3>1. k \in task[q].todo /\ k \in Keys /\ Line(q)' = Line(q)
      BY <1>3, <1>5, <2>2 DEF Line
    <3>2. k[1] = Line(q) /\ k[1] \in Lines /\ (Alone(Line(q)) => series[k].attempts < MaxSends)
      BY <3>1, KeysAre DEF CapInv, Below
    <3>3. Alone(Line(q))' => Alone(Line(q))
      BY <1>6, <3>1, <3>2 DEF Alone
    <3> QED  BY <1>4, <3>1, <3>2, <3>3, ZeroIs
  <2> QED  BY <2>1, <2>2
<1>8. ASSUME NEW k \in Keys, Alone(k[1])' PROVE series'[k].attempts <= MaxSends
  BY <1>4, <1>6, <1>8, KeysAre, ZeroIs DEF CapInv
<1> QED  BY <1>7, <1>8 DEF CapInv, Alone

\* The only step that counts a send: another request that has the same installment to send
\* has the same line.
LEMMA SendInstallmentCaps ==
  ASSUME Inv, CapInv, NEW r \in Requests, SendInstallment(r)
  PROVE  CapInv'
<1>1. /\ task \in [Requests -> Task] /\ task[r] \in Task /\ series \in [Keys -> Installment]
      /\ \A q \in Requests : task[q].todo \subseteq Keys
  BY DEF Inv, Types, Task
<1>2. excuse' = excuse
  BY DEF SendInstallment
<1>3. PICK k \in task[r].todo :
        /\ series' = [series EXCEPT ![k].attempts = series[k].attempts + 1]
        /\ task' = [task EXCEPT ![r].pc = "installment", ![r].key = k,
                                ![r].todo = task[r].todo \ {k}, ![r].post = Title(k)]
  BY <1>1 DEF SendInstallment
<1>4. /\ k \in Keys /\ k[1] \in Lines /\ k[1] = Line(r)
      /\ Alone(Line(r)) => series[k].attempts < MaxSends
  BY <1>1, <1>3, KeysAre DEF CapInv, Below
<1>5. /\ \A j \in Keys \ {k} : series'[j].attempts = series[j].attempts
      /\ series'[k].attempts = series[k].attempts + 1 /\ series[k].attempts \in Nat
  BY <1>1, <1>3, <1>4 DEF Installment
<1>6. /\ \A q \in Requests \ {r} : task'[q] = task[q]
      /\ task'[r].line = task[r].line /\ task'[r].todo = task[r].todo \ {k}
  BY <1>1, <1>3 DEF Task
<1>7. ASSUME NEW q \in Requests PROVE Below(q)'
  <2> SUFFICES ASSUME NEW j \in task'[q].todo
               PROVE  j[1] = Line(q)' /\ (Alone(Line(q))' => series'[j].attempts < MaxSends)
    BY DEF Below
  <2>1. j \in task[q].todo /\ j \in Keys /\ Line(q)' = Line(q) /\ (q = r => j # k)
    BY <1>1, <1>6 DEF Line
  <2>2. j[1] = Line(q) /\ (Alone(Line(q)) => series[j].attempts < MaxSends)
    BY <2>1 DEF CapInv, Below
  <2>3. Alone(Line(q))' => Alone(Line(q))
    BY <1>2, <2>1 DEF Alone
  <2>4. j = k => ~Alone(Line(q))
    BY <1>4, <2>1, <2>2 DEF Inv, Single
  <2> QED  BY <1>5, <2>1, <2>2, <2>3, <2>4
<1>8. ASSUME NEW j \in Keys, Alone(j[1])' PROVE series'[j].attempts <= MaxSends
  <2>1. Alone(j[1])
    BY <1>2, <1>8 DEF Alone
  <2> QED  BY <1>4, <1>5, <2>1, ZeroIs DEF CapInv
<1> QED  BY <1>7, <1>8 DEF CapInv, Alone

LEMMA CapsInvariance == Spec => []CapInv
<1>1. Init => CapInv
  BY ZeroIs DEF Init, CapInv, Below, Idle, NoInstallment
<1>2. Inv /\ CapInv /\ [Next]_vars => CapInv'
  <2> SUFFICES ASSUME Inv, CapInv, [Next]_vars PROVE CapInv'
    OBVIOUS
  <2>1. CASE Arrives \/ UNCHANGED vars
    <3>1. UNCHANGED <<series, task, excuse>>
      BY <2>1 DEF Arrives, vars
    <3> QED  BY <3>1 DEF CapInv, Below, Line, Alone
  <2>2. ASSUME NEW r \in Requests, RequestStep(r) PROVE CapInv'
    <3>1. \A m \in Lines : excuse[m] \subseteq excuse'[m]
      BY <2>2, ExcusesGrow
    <3>2. CASE Register(r)
      BY <3>1, <3>2, RegisterCaps
    <3>3. CASE SendInstallment(r)
      BY <3>3, SendInstallmentCaps
    <3>4. CASE ~Register(r) /\ ~SendInstallment(r)
      <4>1. Carried(r) /\ \A k \in Keys : series'[k].attempts \in {0, series[k].attempts}
        BY <2>2, <3>4, RequestCarries, AttemptsStay
      <4>2. \A q \in Requests : task[q].todo \subseteq Keys
        BY DEF Inv, Types, Task
      <4> QED  BY <3>1, <4>1, <4>2, CarriedCaps, ZeroIs
    <3> QED  BY <3>2, <3>3, <3>4
  <2> QED  BY <2>1, <2>2 DEF Next
<1> QED  BY Invariance, <1>1, <1>2, PTL DEF Spec

\* Sends that were never answered, of a line's step or of an installment it announced, are
\* MAX_STEP_SENDS at most, unless two requests had the line at once.
THEOREM SendsAreCapped == Spec => []CapWhilePending
<1>1. Inv /\ CapInv => CapWhilePending
  BY DEF Inv, LineInv, LineFacts, AloneFacts, CapInv, CapWhilePending
<1> QED  BY Invariance, CapsInvariance, <1>1, PTL

-------------------------------------------------------------------------------
(* The titles of a series: Provision implements InstallmentTitles.          *)

\* What the promise is about, in the program's terms.
SameSeries ==
  \A k \in Coming : /\ series'[k].there = series[k].there
                    /\ series'[k].done = series[k].done
                    /\ series'[k].claimed = series[k].claimed

LEMMA ComingIs ==
  /\ Coming \subseteq Keys
  /\ Inv => \A k \in Coming : k # Own(k[1]) /\ series[k].done \in BOOLEAN
                              /\ (series[k].done => series[k].there /\ Title(k) \in omie)
                              /\ (Title(k) \in Effects => series[k].there)
                              /\ (~series[k].there => series[k].claimed = NoLine)
  /\ Inv => \A k \in Keys : series[k].there => k \in Coming
<1>1. Coming \subseteq Keys
  BY DEF Coming
<1>2. \A k \in Coming : k # Own(k[1])
  <2>1. \A k \in Coming : k[2] > Number[k[1]] /\ Number[k[1]] \in Nat
    BY <1>1, KeysAre DEF Coming
  <2> QED  BY <2>1 DEF Own
<1>3. Inv => \A k \in Keys : series[k].there => k \in Coming
  BY DEF Inv, SeriesInv, Coming
<1>4. Inv => \A k \in Coming : /\ series[k].done \in BOOLEAN
                               /\ (series[k].done => series[k].there /\ Title(k) \in omie)
                               /\ (Title(k) \in Effects => series[k].there)
                               /\ (~series[k].there => series[k].claimed = NoLine)
  BY <1>1, <1>2 DEF Inv, SeriesInv, Types, Installment
<1> QED  BY <1>1, <1>2, <1>3, <1>4

LEMMA SeriesRest ==
  ASSUME SameSeries, omie' = omie
  PROVE  UNCHANGED Series!vars
BY DEF SameSeries, Series!vars

\* What comes to Omie is announced, if it is a title, and the claimant's, if it is a payment.
LEMMA Appears ==
  ASSUME Inv, SameSeries, NEW e \in Effect, omie' = (omie) \cup {e},
         \A k \in Coming : e = Title(k) => series[k].there,
         \A l \in Lines : \A k \in Coming : e = Payment(l, k) => series[k].claimed = l
  PROVE  [Series!Next]_(Series!vars)
<1> DEFINE paying == {p \in Lines \X Coming : Payment(p[1], p[2]) \in omie}
           there == {k \in Coming : Title(k) \in omie}
<1>1. /\ UNCHANGED {k \in Coming : series[k].there}
      /\ UNCHANGED {k \in Coming : series[k].done}
      /\ UNCHANGED [k \in Coming |-> series[k].claimed]
  BY DEF SameSeries
<1>2. Coming \subseteq Keys
  BY ComingIs
<1>3. CASE \E k \in Coming : e = Title(k)
  <2>1. PICK k \in Coming : e = Title(k)
    BY <1>3
  <2>2. there' = there \cup {k}
    BY <2>1, <1>2, EffectsAre
  <2>3. paying' = paying
    BY <2>1, <1>2, EffectsAre
  <2>4. Series!Create(k)
    BY <2>1, <2>2, <2>3, <1>1 DEF Series!Create
  <2> QED  BY <2>4 DEF Series!Next
<1>4. CASE \E l \in Lines : \E k \in Coming : e = Payment(l, k)
  <2>1. PICK l \in Lines : \E k \in Coming : e = Payment(l, k)
    BY <1>4
  <2>2. PICK k \in Coming : e = Payment(l, k)
    BY <2>1
  <2>3. there' = there
    BY <2>2, <1>2, EffectsAre
  <2>4. paying' = paying \cup {<<l, k>>}
    <3>1. \A p \in Lines \X Coming : Payment(p[1], p[2]) = e <=> p = <<l, k>>
      BY <2>2, <1>2, EffectsAre
    <3> QED  BY <3>1
  <2>5. [j \in Coming |-> series[j].claimed][k] = l
    BY <2>2
  <2>6. Series!Pay(l, k)
    BY <2>3, <2>4, <2>5, <1>1 DEF Series!Pay
  <2> QED  BY <2>6 DEF Series!Next
<1>5. CASE (\A k \in Coming : e # Title(k)) /\ (\A l \in Lines : \A k \in Coming : e # Payment(l, k))
  <2>1. there' = there /\ paying' = paying
    BY <1>5
  <2> QED  BY <2>1, <1>1 DEF Series!vars
<1> QED  BY <1>3, <1>4, <1>5

\* The same, of a POST's outcome.
LEMMA PostAppears ==
  ASSUME Inv, SameSeries, NEW e \in Effect \cup {Nothing},
         (Happens(e) /\ flying' = flying) \/ MayHappen(e),
         \A k \in Coming : e = Title(k) => series[k].there,
         \A l \in Lines : \A k \in Coming : e = Payment(l, k) => series[k].claimed = l
  PROVE  [Series!Next]_(Series!vars)
<1>1. CASE omie' = omie
  BY <1>1, SeriesRest
<1>2. CASE Happens(e) /\ e # Nothing
  <2>1. omie' = (omie) \cup {e} /\ e \in Effect
    BY <1>2 DEF Happens
  <2> QED  BY <2>1, Appears
<1>3. omie' = omie \/ (Happens(e) /\ e # Nothing)
  BY DEF MayHappen, Happens
<1> QED  BY <1>1, <1>2, <1>3

\* Only InstallmentAccepted, and Register of what was not there, touch what is recorded as done.
LEMMA DoneStays ==
  ASSUME Inv, NEW r \in Requests, RequestStep(r), ~Register(r), ~InstallmentAccepted(r), NEW k \in Keys
  PROVE  series'[k].done = series[k].done
<1>1. series \in [Keys -> Installment]
  BY DEF Inv, Types
<1>2. CASE series' = series
  BY <1>2
<1>3. CASE SendInstallment(r)
  <2>1. \E j, n : series' = [series EXCEPT ![j].attempts = n]
    BY <1>3 DEF SendInstallment
  <2> QED  BY <1>1, <2>1 DEF Installment
<1>4. CASE InstallmentRefused(r)
  BY <1>1, <1>4 DEF InstallmentRefused, Installment
<1>5. CASE Claim(r)
  <2>1. series' = series \/ \E j, n : series' = [series EXCEPT ![j].claimed = n]
    BY <1>5 DEF Claim
  <2> QED  BY <1>1, <2>1 DEF Installment
<1>6. series' = series \/ SendInstallment(r) \/ InstallmentRefused(r) \/ Claim(r)
  <2>1. CASE \/ Read(r) \/ Abort(r) \/ Decide(r) \/ DecideDirect(r) \/ Ask(r) \/ SendDirect(r)
             \/ Concluded(r) \/ SupplierKnown(r) \/ SupplierPending(r) \/ SendSupplier(r)
    BY <2>1 DEF Read, Abort, Decide, DecideDirect, Ask, SendDirect, Concluded, SupplierKnown,
                SupplierPending, SendSupplier
  <2>2. CASE \/ Search(r) \/ ClaimLost(r) \/ SendTitle(r) \/ SendPayment(r) \/ Done(r)
             \/ Accepted(r) \/ Refused(r) \/ Lost(r) \/ InstallmentLost(r)
    BY <2>2 DEF Search, ClaimLost, SendTitle, SendPayment, Done, Accepted, Refused, Lost, InstallmentLost
  <2> QED  BY <2>1, <2>2 DEF RequestStep
<1> QED  BY <1>2, <1>3, <1>4, <1>5, <1>6

LEMMA RegisterAnnounces ==
  ASSUME Inv, NEW r \in Requests, Register(r)
  PROVE  Series!Announce
<1>1. PICK mine : /\ mine = {k \in Future(Line(r)) : ~series[k].there /\ InSeries(Line(r), k[2]) = {}}
                  /\ series' = Registered(mine)
  BY DEF Register
<1>2. mine \subseteq Coming /\ \A k \in mine : ~series[k].there
  BY <1>1 DEF Future, Coming
<1>3. NoInstallment.claimed = NoLine /\ ~NoInstallment.done /\ [NoInstallment EXCEPT !.there = TRUE].there
      /\ ~[NoInstallment EXCEPT !.there = TRUE].done
      /\ [NoInstallment EXCEPT !.there = TRUE].claimed = NoLine
  BY DEF NoInstallment
<1>4. \A k \in Coming : /\ k \in mine => series'[k] = [NoInstallment EXCEPT !.there = TRUE]
                        /\ k \notin mine => series'[k] = series[k]
  BY <1>1, ComingIs DEF Registered
<1>5. \A k \in mine : ~series[k].done /\ series[k].claimed = NoLine
  BY <1>2, ComingIs
<1>6. {k \in Coming : series[k].there}' = {k \in Coming : series[k].there} \cup mine
  BY <1>2, <1>3, <1>4
<1>7. /\ UNCHANGED {k \in Coming : series[k].done}
      /\ UNCHANGED [k \in Coming |-> series[k].claimed]
  <2>1. \A k \in Coming : series'[k].claimed = series[k].claimed
    BY <1>3, <1>4, <1>5
  <2>2. \A k \in Coming : series'[k].done <=> series[k].done
    BY <1>3, <1>4, <1>5
  <2> QED  BY <2>1, <2>2
<1>8. omie' = omie
  BY DEF Register
<1> QED  BY <1>2, <1>6, <1>7, <1>8 DEF Series!Announce

LEMMA ClaimClaims ==
  ASSUME Inv, CountInv, NEW r \in Requests, Claim(r)
  PROVE  [Series!Next]_(Series!vars)
<1>1. At(r, "claim") /\ ~At(r, "idle") /\ Claimable(task[r].key) /\ omie' = omie
  BY DEF Claim, At
<1>2. PICK l \in Lines : l = Line(r)
  BY <1>1 DEF Inv, TaskInv
<1>3. PICK k \in Keys : k = task[r].key /\ Like(l, k) /\ series[k].done /\ series[k].claimed = NoLine
  BY <1>1, <1>2 DEF Inv, TaskInv, StepFacts, At, CountInv, Aims, Claimable
<1>4. k \in Coming
  BY <1>3, ComingIs DEF Inv, SeriesInv
<1>5. series \in [Keys -> Installment] /\ \A j \in Keys : series[j].claimed # l
  BY <1>2 DEF Inv, Types, Claim
<1>6. series' = series \/ series' = [series EXCEPT ![k].claimed = l]
  BY <1>2, <1>3 DEF Claim
<1>7. CASE series' = series
  BY <1>1, <1>7, SeriesRest DEF SameSeries
<1>8. CASE series' = [series EXCEPT ![k].claimed = l]
  <2>1. \A j \in Coming : /\ series'[j].there = series[j].there /\ series'[j].done = series[j].done
                          /\ series'[j].claimed = IF j = k THEN l ELSE series[j].claimed
    BY <1>5, <1>8, ComingIs DEF Installment
  <2>2. [j \in Coming |-> series[j].claimed]' = [[j \in Coming |-> series[j].claimed] EXCEPT ![k] = l]
    BY <2>1
  <2>3. <<l, k>> \in {p \in Lines \X Coming : Like(p[1], p[2])}
    BY <1>3, <1>4
  <2>4. Series!Claim(l, k)
    BY <1>1, <1>3, <1>4, <1>5, <2>1, <2>2, <2>3, ComingIs DEF Series!Claim
  <2> QED  BY <1>4, <2>4 DEF Series!Next
<1> QED  BY <1>6, <1>7, <1>8

LEMMA AcceptedOffers ==
  ASSUME Inv, NEW r \in Requests, InstallmentAccepted(r)
  PROVE  [Series!Next]_(Series!vars)
<1>1. PICK k \in Keys : k = task[r].key /\ series[k].there /\ task[r].post = Title(k)
  BY DEF InstallmentAccepted, Inv, TaskInv, StepFacts, At
<1>2. k \in Coming /\ Title(k) # Nothing
  BY <1>1, ComingIs, EffectsAre, KeysAre
<1>3. omie' = (omie) \cup {Title(k)} /\ series \in [Keys -> Installment]
      /\ series' = [series EXCEPT ![k].done = TRUE, ![k].attempts = 0]
  BY <1>1, <1>2 DEF InstallmentAccepted, Happens, Inv, Types
<1>4. \A j \in Coming : /\ series'[j].there = series[j].there
                        /\ series'[j].claimed = series[j].claimed
                        /\ series'[j].done = IF j = k THEN TRUE ELSE series[j].done
  BY <1>3, ComingIs DEF Installment
<1>5. /\ UNCHANGED {j \in Coming : series[j].there}
      /\ UNCHANGED [j \in Coming |-> series[j].claimed]
  BY <1>4
<1>6. {j \in Coming : series[j].done}' = {j \in Coming : series[j].done} \cup {k}
  BY <1>2, <1>4
<1>7. {j \in Coming : Title(j) \in omie}' = {j \in Coming : Title(j) \in omie} \cup {k}
  BY <1>2, <1>3, ComingIs, EffectsAre
<1>8. UNCHANGED {p \in Lines \X Coming : Payment(p[1], p[2]) \in omie}
  BY <1>3, EffectsAre
<1>9. Series!Offer(k)
  BY <1>1, <1>2, <1>5, <1>6, <1>7, <1>8 DEF Series!Offer
<1> QED  BY <1>2, <1>9 DEF Series!Next

\* A step of the program is one of the promise, or none.
LEMMA RequestKeepsPromise ==
  ASSUME Inv, CountInv, NEW r \in Requests, RequestStep(r)
  PROVE  [Series!Next]_(Series!vars)
<1>1. CASE Register(r)
  BY <1>1, RegisterAnnounces DEF Series!Next
<1>2. CASE Claim(r)
  BY <1>2, ClaimClaims
<1>3. CASE InstallmentAccepted(r)
  BY <1>3, AcceptedOffers
<1>4. CASE ~Register(r) /\ ~Claim(r) /\ ~InstallmentAccepted(r)
  <2>1. SameSeries
    BY <1>4, SeriesStays, DoneStays, ComingIs DEF SameSeries
  <2>2. CASE omie' = omie
    BY <2>1, <2>2, SeriesRest
  <2>3. CASE Accepted(r) \/ Refused(r) \/ Lost(r)
    <3>1. /\ At(r, "post") /\ ~At(r, "idle")
          /\ (Happens(task[r].post) /\ flying' = flying) \/ MayHappen(task[r].post)
      BY <2>3 DEF Accepted, Refused, Lost, At
    <3>2. PICK e \in Effect \cup {Nothing}, l \in Lines, mine \in Row :
            e = task[r].post /\ l = Line(r) /\ mine = Seen(r)
      BY <3>1, Known DEF Inv, Types, Task
    <3>3. \/ e = Nothing
          \/ e = Title(Own(l))
          \/ e = Payment(l, mine.payable) /\ mine.step = "baixa"
          \/ e = Lancamento(l)
      BY <3>1, <3>2 DEF Inv, TaskInv, PostFacts
    <3>4. mine.step = "baixa" => mine.payable \in Keys /\ Held(l, mine.payable)
      BY <3>1, <3>2 DEF Inv, TaskInv, SeenFacts, Row
    <3>5. \A k \in Coming : e # Title(k)
      BY <3>3, EffectsAre, KeysAre, ComingIs
    <3>6. \A m \in Lines : \A k \in Coming : e = Payment(m, k) => series[k].claimed = m
      <4> SUFFICES ASSUME NEW m \in Lines, NEW k \in Coming, e = Payment(m, k)
                   PROVE  series[k].claimed = m
        OBVIOUS
      <4>1. k \in Keys /\ k # Own(k[1])
        BY ComingIs
      <4>2. e = Payment(l, mine.payable) /\ mine.step = "baixa"
        BY <3>3, <4>1, EffectsAre, KeysAre
      <4>3. l = m /\ mine.payable = k
        <5>1. \A i, j : Payment(l, i) = Payment(m, j) => l = m /\ i = j
          BY EffectsAre
        <5>2. Payment(l, mine.payable) = Payment(m, k)
          BY <4>2
        <5> QED  BY <5>1, <5>2
      <4>4. k = Own(l) => k = Own(k[1])
        BY KeysAre
      <4> QED  BY <3>4, <4>1, <4>2, <4>3, <4>4 DEF Held
    <3> QED  BY <2>1, <3>1, <3>2, <3>5, <3>6, PostAppears
  <2>4. CASE InstallmentRefused(r) \/ InstallmentLost(r)
    <3>1. At(r, "installment") /\ MayHappen(task[r].post)
      BY <2>4 DEF InstallmentRefused, InstallmentLost
    <3>2. PICK k \in Keys : series[k].there /\ task[r].post = Title(k)
      BY <3>1 DEF Inv, TaskInv, StepFacts, At
    <3>3. PICK e \in Effect : e = Title(k)
      BY KeysAre, EffectsAre
    <3>4. \A j \in Coming : e = Title(j) => series[j].there
      BY <3>2, <3>3, ComingIs, EffectsAre
    <3>5. \A l \in Lines : \A j \in Coming : e # Payment(l, j)
      BY <3>3, EffectsAre
    <3> QED  BY <2>1, <3>1, <3>2, <3>3, <3>4, <3>5, PostAppears
  <2>5. \/ omie' = omie \/ Accepted(r) \/ Refused(r) \/ Lost(r)
        \/ InstallmentRefused(r) \/ InstallmentLost(r)
    <3>1. CASE \/ Read(r) \/ Abort(r) \/ Decide(r) \/ DecideDirect(r) \/ Ask(r) \/ SendDirect(r)
               \/ Concluded(r) \/ SupplierKnown(r) \/ SupplierPending(r) \/ SendSupplier(r)
      BY <3>1 DEF Read, Abort, Decide, DecideDirect, Ask, SendDirect, Concluded, SupplierKnown,
                  SupplierPending, SendSupplier
    <3>2. CASE \/ Search(r) \/ ClaimLost(r) \/ SendTitle(r) \/ SendPayment(r)
               \/ Done(r) \/ SendInstallment(r)
      BY <3>2 DEF Search, ClaimLost, SendTitle, SendPayment, Done, SendInstallment
    <3> QED  BY <1>4, <3>1, <3>2 DEF RequestStep
  <2> QED  BY <2>2, <2>3, <2>4, <2>5
<1> QED  BY <1>1, <1>2, <1>3, <1>4

\* Refinement: whatever the number of lines, invoices and requests, and without exception, a
\* title is announced, created, offered, taken by one line of another invoice for good, and
\* paid by that line.
THEOREM SeriesKeepsItsPromise == Spec => TitlesOfTheSeries
<1>1. Init => Series!Init
  <2> SUFFICES ASSUME Init PROVE Series!Init
    OBVIOUS
  <2>1. \A k \in Coming : ~series[k].there /\ ~series[k].done /\ series[k].claimed = NoLine
    BY ComingIs DEF Init, NoInstallment
  <2>2. omie = {}
    BY DEF Init
  <2> QED  BY <2>1, <2>2 DEF Series!Init
<1>2. Inv /\ CountInv /\ [Next]_vars => [Series!Next]_(Series!vars)
  <2> SUFFICES ASSUME Inv, CountInv, [Next]_vars PROVE [Series!Next]_(Series!vars)
    OBVIOUS
  <2>1. CASE UNCHANGED vars
    BY <2>1, SeriesRest DEF vars, SameSeries
  <2>2. CASE Arrives
    <3>1. PICK e \in flying : Happens(e) /\ series' = series
      BY <2>2 DEF Arrives
    <3>2. e \in Effect /\ e \in Effects
      BY DEF Inv, Types, Effects
    <3>3. e # Nothing
      <4>1. \A f \in Effect : f.what # Nothing.what
        BY EffectsAre DEF Effect
      <4> QED  BY <3>2, <4>1
    <3>4. omie' = (omie) \cup {e} /\ SameSeries
      BY <3>1, <3>3 DEF Happens, SameSeries
    <3>5. \A k \in Coming : e = Title(k) => series[k].there
      BY <3>2, ComingIs
    <3>6. \A l \in Lines : \A k \in Coming : e = Payment(l, k) => series[k].claimed = l
      <4> SUFFICES ASSUME NEW l \in Lines, NEW k \in Coming, e = Payment(l, k)
                   PROVE  series[k].claimed = l
        OBVIOUS
      <4>1. k \in Keys /\ k # Own(k[1])
        BY ComingIs
      <4>2. Held(l, k)
        BY <3>2, <4>1 DEF Inv, LineInv, LineFacts
      <4>3. k = Own(l) => k = Own(k[1])
        BY KeysAre
      <4> QED  BY <4>1, <4>2, <4>3 DEF Held
    <3> QED  BY <3>2, <3>4, <3>5, <3>6, Appears
  <2>3. ASSUME NEW r \in Requests, RequestStep(r) PROVE [Series!Next]_(Series!vars)
    BY <2>3, RequestKeepsPromise
  <2> QED  BY <2>1, <2>2, <2>3 DEF Next
<1> QED  BY Invariance, CountsInvariance, <1>1, <1>2, PTL DEF Spec, TitlesOfTheSeries, Series!Spec
================================================================================
