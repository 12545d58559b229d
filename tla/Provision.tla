------------------------------- MODULE Provision -------------------------------
(***************************************************************************)
(* Sending card purchases to Omie as accounts payable (`provisionar`): the *)
(* supplier, the title and, for an invoice processed on the purchase date, *)
(* its payment; the titles of a purchase's future installments, which the  *)
(* line of a later invoice must find instead of creating its own; and the  *)
(* switch between this way and the direct one of DirectPosting.            *)
(*                                                                         *)
(* Each of Omie's three writes is idempotent on a key derived from the     *)
(* line, so an id is its key.  A request is modelled per line: a batch of  *)
(* n lines is n of them.  A request keeps the row it loaded: a write sends *)
(* the columns that differ from it (autoflush and expire_on_commit off).   *)
(***************************************************************************)
EXTENDS Naturals, FiniteSets

CONSTANTS
  Lines,        \* card purchases, or installments of one, as invoices bring them
  Requests,     \* lines being worked on at once
  Number,       \* the N of each line's N/M
  Total,        \* the M, of all of them
  Session,      \* the reconciliation (invoice) of a line
  Purchase,     \* the purchase a line is an installment of
  Identity,     \* what find_in_series knows of a purchase: supplier, value, M
  PayLines,     \* lines of invoices in the "data da compra" process
  DirectLines,  \* lines someone may ask to post directly
  NewSuppliers, \* lines whose supplier is looked up by CNPJ and created if absent
  MaxSends,     \* MAX_STEP_SENDS
  MaxAttempts,  \* bound on the sends counted
  Plans,        \* bound: the lines each request may take, fixed at the start
  Late,         \* bound: the lines whose POSTs may take effect after the request
  NoLine, NoKey

ASSUME ProvisionConstants ==
  /\ Total \in Nat \ {0}
  /\ Number \in [Lines -> 1 .. Total]
  /\ DOMAIN Session = Lines /\ DOMAIN Purchase = Lines
  /\ PayLines \subseteq Lines /\ Plans \subseteq [Requests -> SUBSET Lines] /\ Late \subseteq Lines
  /\ DirectLines \subseteq PayLines /\ NewSuppliers \subseteq Lines
  /\ MaxSends \in Nat \ {0} /\ MaxAttempts \in Nat
  /\ NoLine \notin Lines /\ NoKey \notin Lines \X (1 .. Total)

\* An installment comes once, and an invoice does not bring two of one purchase ("uma
\* fatura nao traz a parcela 7 e a 8 da MESMA compra").
ASSUME PurchasesComeOnce ==
  /\ IsFiniteSet(Lines)
  /\ \A l, m \in Lines :
       Purchase[l] = Purchase[m] /\ (Number[l] = Number[m] \/ Session[l] = Session[m]) => l = m

VARIABLES
  posting,   \* reconciliation_omie_postings, by line
  series,    \* reconciliation_omie_posting_installments, by line and number
  omie,      \* what exists at Omie
  flying,    \* POSTs nobody waits for any more and that may still take effect
  task,      \* where each request is
  plan,      \* who may ask for which lines
  excuse     \* history: what happened to a line that the protocol cannot absorb

vars == <<posting, series, omie, flying, task, plan, excuse>>

Keys == Lines \X (1 .. Total)

\* derive_payable_key for a line, derive_installment_payable_key after it.
Own(l) == <<l, Number[l]>>
Title(k) == [what |-> "title", line |-> k[1], key |-> k]
Payment(l, k) == [what |-> "payment", line |-> l, key |-> k]
Lancamento(l) == [what |-> "lanc", line |-> l, key |-> Own(l)]
Nothing == [what |-> "supplier", line |-> NoLine, key |-> NoKey]

NoRow == [kind |-> "none", step |-> "none", status |-> "none", attempts |-> 0,
          supplier |-> FALSE, payable |-> NoKey, payment |-> FALSE,
          fault |-> FALSE, lanc |-> FALSE]

NoInstallment == [there |-> FALSE, done |-> FALSE, attempts |-> 0, claimed |-> NoLine]

Idle == [pc |-> "idle", line |-> NoLine, seen |-> NoRow, post |-> Nothing,
         key |-> NoKey, missed |-> FALSE, todo |-> {}]

Init ==
  /\ posting = [l \in Lines |-> NoRow]
  /\ series = [k \in Keys |-> NoInstallment]
  /\ omie = {} /\ flying = {}
  /\ task = [r \in Requests |-> Idle]
  /\ plan \in Plans
  /\ excuse = [l \in Lines |-> {}]

-------------------------------------------------------------------------------
(* Rows.                                                                    *)

AnyRow(row) == TRUE

\* The table's CHECKs kind_shape and provisao_steps_coherent.
Coherent(row) ==
  \/ /\ row.kind = "direto" /\ row.step = "none"
     /\ ~row.supplier /\ row.payable = NoKey /\ ~row.payment
  \/ /\ row.kind = "provisao" /\ row.step # "none" /\ ~row.lanc
     /\ row.step # "fornecedor" => row.supplier
     /\ row.step \in {"baixa", "concluido"} => row.payable # NoKey
     /\ row.status = "confirmed" <=> row.step = "concluido"

Fresh(kind) ==
  [NoRow EXCEPT !.kind = kind, !.status = "pending",
                !.step = IF kind = "provisao" THEN "fornecedor" ELSE "none"]

\* reset_kind: everything but the key and omie_lancamento_id starts again.
Reset(row, kind) == [Fresh(kind) EXCEPT !.lanc = row.lanc]

SwitchAllowedBeforeTitle(row) ==
  IF row.kind = "provisao" THEN row.step \in {"fornecedor", "titulo"}
  ELSE row.status = "failed" /\ row.attempts = 1 /\ row.fault /\ ~row.lanc

\* A provision that wrote no money, or a direct POST refused at the only send.
SwitchAllowed(row) ==
  IF row.kind = "provisao" THEN row.step = "fornecedor"
  ELSE row.status = "failed" /\ row.attempts = 1 /\ row.fault /\ ~row.lanc

\* record_provision_step: the next step, its sends not counted yet.
Advance(row, step) ==
  [row EXCEPT !.step = step, !.attempts = 0, !.fault = FALSE,
              !.status = IF step = "concluido" THEN "confirmed" ELSE "pending"]

AfterTitle(l) == IF l \in PayLines THEN "baixa" ELSE "concluido"

FailedFromTheStart(row) ==
  [row EXCEPT !.step = "fornecedor", !.status = "failed", !.attempts = 0]

\* mark_failed with reset_attempts; the step stays.
Failed(row) == [row EXCEPT !.status = "failed", !.attempts = 0, !.fault = TRUE]

Seen(r) == task[r].seen
Line(r) == task[r].line
At(r, pc) == task[r].pc = pc
Goto(r, pc) == task' = [task EXCEPT ![r].pc = pc]
End(r) == task' = [task EXCEPT ![r] = Idle]
Excused(l, why) == excuse' = [excuse EXCEPT ![l] = @ \cup {why}]

\* What Omie has or may still accept.
Effects == omie \cup flying

\* What the flush of new makes of the stored row.
Flushed(r, new) ==
  [c \in DOMAIN new |-> IF new[c] = Seen(r)[c] THEN posting[Line(r)][c] ELSE new[c]]

\* Flush and commit, then go on as next; a CHECK that refuses ends the request.
Store(r, new, next) ==
  IF Coherent(Flushed(r, new))
  THEN /\ posting' = [posting EXCEPT ![Line(r)] = Flushed(r, new)]
       /\ task' = [task EXCEPT ![r] = IF next = "idle" THEN Idle
              ELSE [@ EXCEPT !.pc = next, !.seen = new, !.post = Nothing]]
  ELSE UNCHANGED posting /\ End(r)

Counted(row) == [row EXCEPT !.attempts = @ + 1]

\* increment_attempts, here and in the object the request holds, then the POST.
CountAndPost(r, effect) ==
  LET l == Line(r)
  IN /\ posting[l].attempts < MaxAttempts /\ Seen(r).attempts < MaxAttempts
     /\ posting' = [posting EXCEPT ![l] = Counted(@)]
     /\ task' = [task EXCEPT ![r] = [@ EXCEPT !.pc = "post", !.post = effect,
                                              !.seen = Counted(Seen(r))]]

-------------------------------------------------------------------------------
(* The request up to its first write.                                       *)

Read(r) ==
  /\ At(r, "idle")
  /\ \E l \in Lines :
       /\ l \in plan[r]
       /\ task' = [task EXCEPT ![r] = [Idle EXCEPT !.pc = "decide", !.line = l,
                                                   !.seen = posting[l]]]
       /\ IF \E q \in Requests \ {r} : Line(q) = l
          THEN Excused(l, "race") ELSE UNCHANGED excuse
  /\ UNCHANGED <<posting, series, omie, flying>>

\* Rows of other lines, and those of the requests in hand, stay: an exception, a
\* closed connection or the death of the process.
Abort(r) ==
  /\ ~At(r, "idle")
  /\ End(r)
  /\ UNCHANGED <<posting, series, omie, flying, excuse>>

RefusesLate(row) ==
  row.kind = "direto" /\ (row.status = "confirmed" \/ ~SwitchAllowed(row))

\* Already done; the cap of sends without an answer; the wrong way.
Refuses(row) ==
  \/ row.kind = "direto" /\ (row.status = "confirmed" \/ ~SwitchAllowed(row))
  \/ row.kind = "provisao" /\ row.status = "pending" /\ row.attempts >= MaxSends

Decide(r) ==
  /\ At(r, "decide")
  /\ LET mine == Seen(r)
         l == Line(r)
     IN CASE mine.kind = "none" ->       \* register_intent, or the row someone else put
               LET row == IF posting[l] = NoRow THEN Fresh("provisao") ELSE posting[l]
               IN /\ posting' = [posting EXCEPT ![l] = row]
                  /\ task' = [task EXCEPT ![r].pc = "step", ![r].seen = row]
          [] mine.status = "confirmed" /\ mine.kind = "provisao" ->
               Goto(r, "after") /\ UNCHANGED posting
          [] Refuses(mine) -> End(r) /\ UNCHANGED posting
          [] mine.kind = "direto" /\ ~Refuses(mine) ->
               Store(r, Reset(mine, "provisao"), "step")
          [] OTHER -> Goto(r, "step") /\ UNCHANGED posting
  /\ UNCHANGED <<series, omie, flying, excuse>>

\* The direct way, for a line whose invoice allows it (details in DirectPosting).
DecideDirect(r) ==
  /\ At(r, "decide") /\ Line(r) \in DirectLines
  /\ LET mine == Seen(r)
     IN CASE mine.status = "confirmed" -> End(r) /\ UNCHANGED posting
          [] mine.kind = "provisao" /\ mine.status # "confirmed" ->
               IF SwitchAllowed(mine) THEN Store(r, Reset(mine, "direto"), "lanc")
               ELSE End(r) /\ UNCHANGED posting
          [] mine.kind = "direto" /\ mine.status = "pending" /\ mine.attempts > 0 ->
               Goto(r, "ask") /\ UNCHANGED posting
          [] OTHER -> Goto(r, "lanc") /\ UNCHANGED posting
  /\ UNCHANGED <<series, omie, flying, excuse>>

Ask(r) ==
  /\ At(r, "ask")
  /\ \/ /\ Lancamento(Line(r)) \in omie
        /\ Store(r, [Seen(r) EXCEPT !.status = "confirmed", !.lanc = TRUE], "idle")
        /\ UNCHANGED excuse
     \/ /\ Lancamento(Line(r)) \notin omie
        /\ Goto(r, "lanc")
        /\ UNCHANGED <<posting, excuse>>
     \/ End(r) /\ UNCHANGED <<posting, excuse>>       \* inconclusive
  /\ UNCHANGED <<series, omie, flying>>

\* register_intent returns what is there, in whatever kind, and _send goes on.
SendDirect(r) ==
  /\ At(r, "lanc")
  /\ LET l == Line(r)
         row == IF posting[l] = NoRow THEN Fresh("direto") ELSE posting[l]
         mine == IF Seen(r).kind = "none" THEN row ELSE Seen(r)
     IN /\ row.attempts < MaxAttempts /\ mine.attempts < MaxAttempts
        /\ posting' = [posting EXCEPT ![l] = Counted(row)]
        /\ task' = [task EXCEPT ![r] = [@ EXCEPT !.pc = "post", !.post = Lancamento(l),
                                                 !.seen = Counted(mine)]]
  /\ UNCHANGED <<series, omie, flying, excuse>>

-------------------------------------------------------------------------------
(* The steps.                                                               *)

AtStep(r, step) == At(r, "step") /\ Seen(r).step = step

\* A step the intent does not have: _run_step raises, and Abort is what follows.
Concluded(r) ==
  /\ AtStep(r, "concluido")
  /\ Goto(r, "after")
  /\ UNCHANGED <<posting, series, omie, flying, excuse>>

\* The chosen supplier, the one with this CNPJ or the client's default one.
SupplierKnown(r) ==
  /\ AtStep(r, "fornecedor")
  /\ Store(r, Advance([Seen(r) EXCEPT !.supplier = TRUE], "titulo"), "step")
  /\ UNCHANGED <<series, omie, flying, excuse>>

\* No supplier at all, no answer from the search by CNPJ, or a fault in it.
SupplierPending(r) ==
  /\ AtStep(r, "fornecedor")
  /\ \/ End(r) /\ UNCHANGED posting
     \/ Line(r) \in NewSuppliers /\ Store(r, Failed(Seen(r)), "idle")
  /\ UNCHANGED <<series, omie, flying, excuse>>

SendSupplier(r) ==
  /\ AtStep(r, "fornecedor") /\ Line(r) \in NewSuppliers
  /\ CountAndPost(r, Nothing)
  /\ UNCHANGED <<series, omie, flying, excuse>>

\* The installments n registered for purchases like l's that nobody found yet.
Waiting(l, n) ==
  {k \in Keys : /\ series[k].there /\ series[k].claimed = NoLine /\ k[2] = n
                /\ Identity[k[1]] = Identity[l]}

InSeriesDone(l, n) == {k \in Waiting(l, n) : series[k].done /\ Session[k[1]] # Session[l]}

\* find_in_series: those of another reconciliation.  Titles still to be confirmed are
\* among them.
InSeries(l, n) == {k \in Waiting(l, n) : Session[k[1]] # Session[l]}

\* A line has its title, or one is on its way.
Used(m) ==
  \/ Title(Own(m)) \in Effects
  \/ \E q \in Requests : task[q].post = Title(Own(m))
  \/ \E k \in Keys : series[k].claimed = m

\* History: an installment n waits, or is about to, of a purchase in l's own invoice whose
\* line of a later invoice was worked before l.
Overtaken(l, n) ==
  \E o, m \in Lines :
    /\ o = l \/ (<<o, n>> \in Waiting(l, n) /\ Session[o] = Session[l])
    /\ m # l /\ Purchase[m] = Purchase[o] /\ Number[m] = n /\ Used(m)

\* The later installment looks for its title before creating one: a registered
\* one without a title stops the line, one with a title is to be claimed.
Search(r) ==
  /\ AtStep(r, "titulo") /\ Number[Line(r)] > 1 /\ ~task[r].missed
  /\ LET found == InSeries(Line(r), Number[Line(r)])
     IN \/ found = {} /\ task' = [task EXCEPT ![r].missed = TRUE]
        \/ \E k \in found :
             IF series[k].done
             THEN task' = [task EXCEPT ![r].pc = "claim", ![r].key = k]
             ELSE End(r)
  /\ UNCHANGED <<posting, series, omie, flying, excuse>>

ClaimableOnTheRead(k) == series[k].done

\* The conditional UPDATE, the UNIQUE on the claimant and the step, one commit.
Claimable(k) == series[k].done /\ series[k].claimed = NoLine

Claim(r) ==
  /\ At(r, "claim") /\ Claimable(task[r].key)
  /\ LET k == task[r].key
         l == Line(r)
         row == Advance([Seen(r) EXCEPT !.payable = k], AfterTitle(l))
     IN /\ Store(r, row, "step")
        /\ series' = IF Coherent(Flushed(r, row)) THEN [series EXCEPT ![k].claimed = l]
                                                 ELSE series
        /\ \A j \in Keys : series[j].claimed # l
        /\ IF Title(Own(l)) \in Effects THEN Excused(l, "order") ELSE UNCHANGED excuse
  /\ UNCHANGED <<omie, flying>>

\* Lost to another line: look again.  After _CLAIM_RETRIES losses it gives up.
ClaimLost(r) ==
  /\ At(r, "claim")
  /\ series[task[r].key].claimed # NoLine
  /\ \/ task' = [task EXCEPT ![r].pc = "step", ![r].key = NoKey]
     \/ task' = [task EXCEPT ![r].pc = "step", ![r].key = NoKey, ![r].missed = TRUE]
  /\ UNCHANGED <<posting, series, omie, flying, excuse>>

SendTitle(r) ==
  /\ AtStep(r, "titulo") /\ (Number[Line(r)] = 1 \/ task[r].missed)
  /\ CountAndPost(r, Title(Own(Line(r))))
  /\ IF InSeries(Line(r), Number[Line(r)]) # {} \/ Overtaken(Line(r), Number[Line(r)])
     THEN Excused(Line(r), "order") ELSE UNCHANGED excuse
  /\ UNCHANGED <<series, omie, flying>>

SendPayment(r) ==
  /\ AtStep(r, "baixa")
  /\ CountAndPost(r, Payment(Line(r), Seen(r).payable))
  /\ UNCHANGED <<series, omie, flying, excuse>>

-------------------------------------------------------------------------------
(* What becomes of a POST.                                                  *)

Happens(effect) == omie' = omie \cup ({effect} \ {Nothing})

Accepted(r) ==
  /\ At(r, "post")
  /\ LET mine == Seen(r)
         effect == task[r].post
     IN /\ Happens(effect)
        /\ CASE effect.what = "supplier" ->
                  Store(r, Advance([mine EXCEPT !.supplier = TRUE], "titulo"), "step")
             [] effect.what = "title" ->
                  Store(r, Advance([mine EXCEPT !.payable = effect.key], AfterTitle(Line(r))),
                        "step")
             [] effect.what = "payment" ->
                  Store(r, Advance([mine EXCEPT !.payment = TRUE], "concluido"), "step")
             [] effect.what = "lanc" ->
                  Store(r, [mine EXCEPT !.status = "confirmed", !.lanc = TRUE,
                                        !.fault = FALSE], "idle")
  /\ UNCHANGED <<series, flying, excuse>>

\* An effect of a POST without an answer: it may be there, or come, or never come.
MayHappen(effect) ==
  \/ UNCHANGED <<omie, flying>>
  \/ effect # Nothing /\ Happens(effect) /\ UNCHANGED flying
  \/ /\ effect.line \in Late
     /\ flying' = flying \cup {effect} /\ UNCHANGED omie

RefusedAsDone(r) ==
  /\ At(r, "post") /\ MayHappen(task[r].post)
  /\ IF task[r].post.what # "title" THEN End(r) /\ UNCHANGED posting
     ELSE Store(r, Advance([Seen(r) EXCEPT !.payable = task[r].post.key],
                           AfterTitle(Line(r))), "step")
  /\ UNCHANGED <<series, excuse>>

\* A faultstring; the client's call may have sent the same POST before, in vain.
Refused(r) ==
  /\ At(r, "post")
  /\ LET effect == task[r].post
         mine == Seen(r)
     IN /\ MayHappen(effect)
        /\ IF effect.what = "lanc" /\ <<omie, flying>>' # <<omie, flying>>
           THEN Excused(Line(r), "retry") ELSE UNCHANGED excuse
        /\ Store(r, IF effect.what = "lanc"
                    THEN [mine EXCEPT !.status = "failed", !.fault = TRUE]
                    ELSE Failed(mine), "idle")
  /\ UNCHANGED series

\* Timeout or 5xx: the batch stops; the row stays as counted.
Lost(r) ==
  /\ At(r, "post")
  /\ MayHappen(task[r].post)
  /\ End(r)
  /\ UNCHANGED <<posting, series, excuse>>

Arrives ==
  /\ \E effect \in flying : Happens(effect) /\ flying' = flying \ {effect}
  /\ UNCHANGED <<posting, series, task, excuse>>

-------------------------------------------------------------------------------
(* The installments still to come.                                          *)

Future(l) == {k \in Keys : k[1] = l /\ k[2] > Number[l]}

RegisteredNowhere(mine) == series

\* to_send and, first thing in _send_installment, the cap: both read the loaded row.
Sendable(row) == ~row.done /\ row.attempts < MaxSends

Registered(mine) ==
  [k \in Keys |-> IF k \in mine THEN [NoInstallment EXCEPT !.there = TRUE] ELSE series[k]]

\* _after_provision, when asked for the installments or when some are registered
\* (the line that claimed its title leaves them to their owner): those nobody has
\* are registered, all in one commit, before any is sent.  What the request will send is
\* decided by the rows as loaded here: those without a title whose sends are below the cap.
Register(r) ==
  /\ At(r, "after")
  /\ LET l == Line(r)
         mine == {k \in Future(l) : ~series[k].there /\ InSeries(l, k[2]) = {}}
         due == {k \in Future(l) : series[k].there} \cup mine
     IN /\ ~\E k \in Keys : series[k].claimed = l
        /\ Future(l) # {}
        /\ series' = Registered(mine)
        /\ task' = [task EXCEPT ![r].pc = "futures",
                                ![r].todo = {k \in due : Sendable(series[k])}]
        /\ IF \E k \in mine : Overtaken(l, k[2]) THEN Excused(l, "order")
                                              ELSE UNCHANGED excuse
  /\ UNCHANGED <<posting, omie, flying>>

Done(r) ==
  /\ At(r, "after") \/ (At(r, "futures") /\ task[r].todo = {})
  /\ End(r)
  /\ UNCHANGED <<posting, series, omie, flying, excuse>>

\* In order of number.  increment_attempts adds one to what is stored by now, whoever else
\* sent since the row was loaded.
SendInstallment(r) ==
  /\ At(r, "futures")
  /\ \E k \in task[r].todo :
       /\ \A j \in task[r].todo : k[2] <= j[2]
       /\ series[k].attempts < MaxAttempts
       /\ series' = [series EXCEPT ![k].attempts = @ + 1]
       /\ task' = [task EXCEPT ![r].pc = "installment", ![r].key = k,
                               ![r].todo = @ \ {k}, ![r].post = Title(k)]
  /\ UNCHANGED <<posting, omie, flying, excuse>>

Back(r) == task' = [task EXCEPT ![r].pc = "futures", ![r].key = NoKey, ![r].post = Nothing]

InstallmentAccepted(r) ==
  /\ At(r, "installment")
  /\ Happens(task[r].post)
  /\ series' = [series EXCEPT ![task[r].key].done = TRUE, ![task[r].key].attempts = 0]
  /\ Back(r)
  /\ UNCHANGED <<posting, flying, excuse>>

InstallmentRefusedAsDone(r) ==
  /\ At(r, "installment") /\ MayHappen(task[r].post)
  /\ series' = [series EXCEPT ![task[r].key].done = TRUE, ![task[r].key].attempts = 0]
  /\ Back(r)
  /\ UNCHANGED <<posting, excuse>>

InstallmentRefused(r) ==
  /\ At(r, "installment")
  /\ MayHappen(task[r].post)
  /\ series' = [series EXCEPT ![task[r].key].attempts = 0]
  /\ Back(r)
  /\ UNCHANGED <<posting, excuse>>

InstallmentLost(r) ==
  /\ At(r, "installment")
  /\ MayHappen(task[r].post)
  /\ End(r)
  /\ UNCHANGED <<posting, series, excuse>>

RequestStep(r) ==
  \/ Read(r) \/ Abort(r) \/ Decide(r) \/ DecideDirect(r) \/ Ask(r) \/ SendDirect(r)
  \/ Concluded(r) \/ SupplierKnown(r) \/ SupplierPending(r) \/ SendSupplier(r)
  \/ Search(r) \/ Claim(r) \/ ClaimLost(r) \/ SendTitle(r) \/ SendPayment(r)
  \/ Accepted(r) \/ Refused(r) \/ Lost(r)
  \/ Register(r) \/ Done(r) \/ SendInstallment(r)
  \/ InstallmentAccepted(r) \/ InstallmentRefused(r) \/ InstallmentLost(r)

Next == /\ Arrives \/ \E r \in Requests : RequestStep(r)
        /\ UNCHANGED plan

Spec == Init /\ [][Next]_vars

-------------------------------------------------------------------------------
(* Properties.                                                              *)

Clean(l) == excuse[l] = {}
Alone(l) == "race" \notin excuse[l]

Row == [kind: {"none", "direto", "provisao"},
        step: {"none", "fornecedor", "titulo", "baixa", "concluido"},
        status: {"none", "pending", "confirmed", "failed"},
        attempts: 0 .. MaxAttempts, supplier: BOOLEAN, payable: Keys \cup {NoKey},
        payment: BOOLEAN, fault: BOOLEAN, lanc: BOOLEAN]

\* Types; every effect is one that some line's protocol may cause.
TypeOK ==
  /\ posting \in [Lines -> Row]
  /\ series \in [Keys -> [there: BOOLEAN, done: BOOLEAN, attempts: 0 .. MaxAttempts,
                          claimed: Lines \cup {NoLine}]]
  /\ \A e \in Effects : \/ \E k \in Keys : e = Title(k)
                        \/ \E l \in Lines, k \in Keys : e = Payment(l, k)
                        \/ \E l \in Lines : e = Lancamento(l)
  /\ \A r \in Requests : task[r].seen \in Row /\ task[r].todo \subseteq Keys
  /\ \A l \in Lines : excuse[l] \subseteq {"race", "retry", "order"}

\* Whatever Omie has or may still accept, the database knew of it before it was sent:
\* a line's own title, an installment's, a payment, a lancamento (_send_step,
\* _run_future_installments: "barreira de durabilidade").
RecordedBeforeSent ==
  \A e \in Effects :
    CASE e.what = "title" /\ e.key # Own(e.line) -> series[e.key].there
      [] e.what = "title" /\ e.key = Own(e.line) ->
           posting[e.line].kind # "none" /\ (Alone(e.line) => posting[e.line].supplier)
      [] e.what = "payment" ->
           posting[e.line].kind # "none" /\ (Alone(e.line) => posting[e.line].payable = e.key)
      [] e.what = "lanc" -> posting[e.line].kind # "none"

\* One purchase is never both a lancamento and a title, whatever was refused, lost,
\* restarted or switched in between (_kind_switch_allowed).
OneForm ==
  \A l \in Lines : (Lancamento(l) \in Effects /\ Title(Own(l)) \in Effects) => ~Clean(l)

\* Of each installment number of indistinguishable purchases there are no more titles
\* than purchases: a later invoice finds the title, or stops, rather than creating one.
NoMoreTitlesThanPurchases ==
  \A l \in Lines, n \in 1 .. Total :
    LET same == {m \in Lines : Identity[m] = Identity[l] /\ Number[m] <= n}
        titles == {k \in Keys : k[2] = n /\ k[1] \in same /\ Title(k) \in Effects}
    IN (\A m \in same : Clean(m))
         => Cardinality(titles) <= Cardinality({Purchase[m] : m \in same})

\* One title answers for one line and is paid at most once, whoever competes for it;
\* what is paid exists.
OneLinePerTitle ==
  /\ \A l, m \in Lines : l # m /\ posting[l].payable = posting[m].payable
       => posting[l].payable = NoKey
  /\ \A e \in Effects : e.what = "payment" =>
       /\ Title(e.key) \in omie
       /\ \A f \in Effects : f.what = "payment" /\ f.key = e.key => f = e

\* What a row says is done is at Omie: the title of a line at its payment or beyond,
\* the payment of one that has its id.
BookedIsThere ==
  \A l \in Lines : LET row == posting[l] IN
    /\ row.step \in {"baixa", "concluido"} => Title(row.payable) \in omie
    /\ row.payment /\ Alone(l) => Payment(l, row.payable) \in omie

Rank(step) == CASE step = "fornecedor" -> 1 [] step = "titulo" -> 2
                [] step = "baixa" -> 3 [] step = "concluido" -> 4 [] OTHER -> 0

\* A provision is resumed, never repeated: without a race its step only advances, its
\* title stays the same, and only one that wrote no money changes to the direct form.
NeverBack ==
  [][\A l \in Lines : posting[l].kind = "provisao" /\ "race" \notin excuse'[l] =>
       \/ /\ posting'[l].kind = "provisao"
          /\ Rank(posting'[l].step) >= Rank(posting[l].step)
          /\ posting[l].payable \in {NoKey, posting'[l].payable}
       \/ posting'[l].kind = "direto" /\ Title(Own(l)) \notin Effects]_vars

\* Sends that all stayed without an answer stop at MAX_STEP_SENDS, across requests and
\* restarts, those of a line's step and those of each installment it announced, unless two
\* requests had the line at once: each tests the count it loaded (_send_step,
\* _send_installment).
CapWhilePending ==
  /\ \A l \in Lines : posting[l].kind = "provisao" /\ posting[l].status = "pending" /\ Alone(l)
       => posting[l].attempts <= MaxSends
  /\ \A k \in Keys : Alone(k[1]) => series[k].attempts <= MaxSends

\* The titles of installments still to come, and the lines they could be the title of.
Coming == {k \in Keys : k[2] > Number[k[1]]}
Like(l, k) == Number[l] = k[2] /\ Identity[l] = Identity[k[1]] /\ Session[l] # Session[k[1]]

Series == INSTANCE InstallmentTitles WITH
  Titles <- Coming,
  MayAnswer <- {p \in Lines \X Coming : Like(p[1], p[2])},
  announced <- {k \in Coming : series[k].there},
  existing <- {k \in Coming : Title(k) \in omie},
  offered <- {k \in Coming : series[k].done},
  claimant <- [k \in Coming |-> series[k].claimed],
  paid <- {p \in Lines \X Coming : Payment(p[1], p[2]) \in omie}

\* The protocol between the line that announces an installment, the requests that send it
\* and the lines of later invoices that look for it keeps its promise, without exception:
\* no race, lost answer or order of the invoices gives a title back, offers one that does not
\* exist or lets another line pay it (find_in_series, claim, mark_done).
TitlesOfTheSeries == Series!Spec
================================================================================
