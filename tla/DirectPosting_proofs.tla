------------------------ MODULE DirectPosting_proofs ------------------------
(***************************************************************************)
(* Proofs about DirectPosting, for any number of lines, batches, entries,  *)
(* tries and attempts.                                                     *)
(***************************************************************************)
EXTENDS DirectPosting, TLAPS

-------------------------------------------------------------------------------
(* What a step does to the batch that takes it.                             *)

LEMMA RestingPlace == Resting \in Places
  BY PostingConstants DEF Resting, Places, Unknown, Intents, Statuses

LEMMA NextLinePlace ==
  ASSUME TypeOK, NEW b \in Batches, NextLine(b), batch[b].line \in Lines
  PROVE  /\ batch' \in [Batches -> Places]
         /\ \A c \in Batches \ {b} : batch'[c] = batch[c]
         /\ batch'[b].pc = "next" /\ batch'[b].line = NoLine
         /\ ~batch'[b].asked
         /\ batch'[b].todo = batch[b].todo
         /\ \A l \in Lines : l \in batch[b].todo /\ l # batch[b].line =>
                              batch'[b].seen[l] = batch[b].seen[l]
<1>1. batch[b] \in Places
  BY DEF TypeOK
<1>2. Unknown \in Intents
  BY DEF Unknown, Intents, Statuses
<1>3. CASE batch[b].todo = {}
  <2>1. batch' = [batch EXCEPT ![b] = Resting]
    BY <1>3 DEF NextLine
  <2> QED
    BY <2>1, <1>3, RestingPlace DEF TypeOK, Resting
<1>4. CASE batch[b].todo # {}
  <2> DEFINE p == [Resting EXCEPT !.todo = batch[b].todo,
                                  !.seen = [batch[b].seen EXCEPT ![batch[b].line] = Unknown]]
  <2>1. batch' = [batch EXCEPT ![b] = p]
    BY <1>4 DEF NextLine
  <2>2. p \in Places
    BY <1>1, <1>2, RestingPlace DEF Places
  <2>3. /\ p.pc = "next" /\ p.line = NoLine /\ ~p.asked /\ p.todo = batch[b].todo
        /\ \A l \in Lines : l # batch[b].line => p.seen[l] = batch[b].seen[l]
    BY <1>1, RestingPlace DEF Resting, Places
  <2> HIDE DEF p
  <2> QED
    BY <2>1, <2>2, <2>3 DEF TypeOK
<1> QED BY <1>3, <1>4

\* A step that leaves alone what Omie holds and what is linked, and brings no
\* batch to the point of confirming, has only its own types to keep.
LEMMA QuietType ==
  ASSUME TypeOK, UNCHANGED <<owner, stray, link>>,
         posting' \in [Lines -> Intents], excuse' \in [Lines -> SUBSET Excuses],
         batch' \in [Batches -> Places],
         \A b \in Batches : batch'[b].pc = "confirm" /\ batch'[b].line \in Lines =>
            batch[b].pc = "confirm" /\ UNCHANGED <<batch[b].line, batch[b].got>>
  PROVE  TypeOK'
  BY DEF TypeOK, At

LEMMA QuietBatchType ==
  ASSUME TypeOK, NEW b \in Batches, UNCHANGED <<owner, stray, link>>,
         UNCHANGED posting \/ posting' \in [Lines -> Intents],
         UNCHANGED excuse \/ excuse' \in [Lines -> SUBSET Excuses],
         batch' \in [Batches -> Places],
         \A c \in Batches \ {b} : batch'[c] = batch[c],
         batch'[b].pc # "confirm" \/ batch'[b].line \notin Lines
  PROVE  TypeOK'
<1>1. posting' \in [Lines -> Intents] /\ excuse' \in [Lines -> SUBSET Excuses]
  BY DEF TypeOK
<1>2. \A c \in Batches : batch'[c].pc = "confirm" /\ batch'[c].line \in Lines =>
        batch[c].pc = "confirm" /\ UNCHANGED <<batch[c].line, batch[c].got>>
  OBVIOUS
<1> QED
  BY <1>1, <1>2, QuietType

LEMMA ExcuseType ==
  ASSUME TypeOK, NEW l \in Lines, NEW why \in Excuses, Excused(l, why)
  PROVE  excuse' \in [Lines -> SUBSET Excuses]
  BY DEF TypeOK, Excused

LEMMA CountedIntent ==
  ASSUME NEW mine \in Intents
  PROVE  /\ Counted(mine) \in Intents
         /\ Counted(mine).status \in {mine.status, "pending"}
         /\ Counted(mine).status # "none"
         /\ Counted(mine).attempts = mine.attempts + 1
         /\ Counted(mine).entry = mine.entry
  BY DEF Counted, Intents, Statuses

LEMMA BatchType ==
  ASSUME TypeOK, NEW b \in Batches, BatchStep(b)
  PROVE  TypeOK'
<1> USE PostingConstants
<1>1. batch[b] \in Places
  BY DEF TypeOK
<1>2. Unknown \in Intents
  BY DEF Unknown, Intents, Statuses
<1>3. CASE BatchRead(b)
  <2>1. PICK chosen \in SUBSET Lines :
          /\ batch' = [batch EXCEPT ![b].todo = chosen,
               ![b].seen = [l \in Lines |-> IF l \in chosen THEN posting[l] ELSE Unknown]]
          /\ excuse' = [l \in Lines |->
               IF l \in chosen /\ \E c \in Batches \ {b} : Holds(c, l)
               THEN excuse[l] \cup {"race"} ELSE excuse[l]]
    BY <1>3 DEF BatchRead
  <2>2. excuse' \in [Lines -> SUBSET Excuses]
    BY <2>1 DEF TypeOK, Excuses
  <2>3. [l \in Lines |-> IF l \in chosen THEN posting[l] ELSE Unknown] \in [Lines -> Intents]
    BY <1>2 DEF TypeOK
  <2>4. batch' \in [Batches -> Places]
    BY <1>1, <2>1, <2>3 DEF TypeOK, Places
  <2>5. \A c \in Batches : batch'[c].pc = batch[c].pc
                           /\ batch'[c].line = batch[c].line /\ batch'[c].got = batch[c].got
    BY <1>1, <2>1 DEF TypeOK, Places
  <2> QED
    BY <1>3, <2>2, <2>4, <2>5, QuietType DEF BatchRead, TypeOK
<1>4. CASE Decide(b)
  <2>1. PICK l \in batch[b].todo :
          LET mine == batch[b].seen[l]
              left == batch[b].todo \ {l}
          IN batch' = [batch EXCEPT ![b] =
               IF mine.status = "confirmed"
               THEN IF left = {} THEN Resting
                    ELSE [@ EXCEPT !.todo = left, !.seen[l] = Unknown]
               ELSE [@ EXCEPT !.todo = left, !.line = l, !.pc = Decision(mine)]]
    BY <1>4 DEF Decide
  <2>2. UNCHANGED <<owner, stray, link, posting, excuse>>
    BY <1>4 DEF Decide
  <2>3. CASE batch' = [batch EXCEPT ![b] = Resting]
    BY <2>2, <2>3, QuietBatchType, RestingPlace DEF TypeOK, Resting
  <2>4. CASE batch' = [batch EXCEPT ![b] = [@ EXCEPT !.todo = batch[b].todo \ {l}, !.seen[l] = Unknown]]
    <3>1. batch'[b] \in Places /\ batch'[b].line = NoLine
      BY <1>1, <1>2, <1>4, <2>4 DEF Decide, TypeOK, Places
    <3>2. \A c \in Batches \ {b} : batch'[c] = batch[c]
      BY <2>4 DEF TypeOK
    <3>3. batch' \in [Batches -> Places]
      BY <2>4, <3>1, <3>2 DEF TypeOK
    <3> QED BY <2>2, <3>1, <3>2, <3>3, QuietBatchType
  <2>5. CASE batch' = [batch EXCEPT ![b] =
               [@ EXCEPT !.todo = batch[b].todo \ {l}, !.line = l, !.pc = Decision(batch[b].seen[l])]]
    <3>1. batch'[b] \in Places /\ batch'[b].pc # "confirm"
      BY <1>1, <2>5 DEF TypeOK, Places, Decision
    <3>2. \A c \in Batches \ {b} : batch'[c] = batch[c]
      BY <2>5 DEF TypeOK
    <3>3. batch' \in [Batches -> Places]
      BY <2>5, <3>1, <3>2 DEF TypeOK
    <3> QED BY <2>2, <3>1, <3>2, <3>3, QuietBatchType
  <2> QED
    BY <2>1, <2>3, <2>4, <2>5
<1>5. CASE Abort(b)
  <2>1. excuse' \in [Lines -> SUBSET Excuses]
    BY <1>5, ExcuseType DEF Abort, At, TypeOK, Excuses
  <2>2. /\ batch' \in [Batches -> Places] /\ batch'[b].pc # "confirm"
        /\ \A c \in Batches \ {b} : batch'[c] = batch[c]
    BY <1>5, RestingPlace DEF Abort, TypeOK, Resting
  <2> QED
    BY <1>5, <2>1, <2>2, QuietBatchType DEF Abort
<1>6. CASE AskFound(b)
  <2>1. PICK e \in Entries :
          /\ owner[e] = batch[b].line
          /\ batch' = [batch EXCEPT ![b].pc = "confirm", ![b].got = e, ![b].asked = TRUE]
    BY <1>6 DEF AskFound
  <2>2. batch'[b] \in Places /\ batch'[b].got = e /\ batch'[b].line = batch[b].line
    BY <1>1, <2>1 DEF Places, TypeOK
  <2> QED
    BY <1>6, <2>1, <2>2 DEF AskFound, TypeOK, At
<1>7. CASE AskAbsent(b)
  <2>1. /\ batch' \in [Batches -> Places] /\ batch'[b].pc # "confirm"
        /\ \A c \in Batches \ {b} : batch'[c] = batch[c]
    BY <1>1, <1>7 DEF AskAbsent, Goto, TypeOK, Places
  <2>2. excuse' \in [Lines -> SUBSET Excuses]
    BY <1>7 DEF AskAbsent, Excused, TypeOK, Excuses
  <2> QED
    BY <1>7, <2>1, <2>2, QuietBatchType DEF AskAbsent
<1>8. CASE AskInconclusive(b)
  BY <1>8, NextLinePlace, QuietType DEF AskInconclusive, TypeOK, At
<1>9. CASE Intent(b)
  <2>1. /\ posting' \in [Lines -> Intents]
        /\ \A l \in Lines : l = batch[b].line => posting'[l] \in Intents
    BY <1>9, CountedIntent DEF Intent, TypeOK, At
  <2>2. /\ batch' \in [Batches -> Places] /\ batch'[b].pc # "confirm"
        /\ \A c \in Batches \ {b} : batch'[c] = batch[c]
    <3> DEFINE l == batch[b].line
               m == IF batch[b].seen[l].status = "none" THEN posting'[l] ELSE batch[b].seen[l]
    <3>1. m \in Intents /\ l \in Lines
      BY <1>1, <1>9, <2>1 DEF Intent, At, Places
    <3>2. batch' = [batch EXCEPT ![b].pc = "post", ![b].seen[l] = m]
      BY <1>9 DEF Intent
    <3> HIDE DEF m
    <3> QED
      BY <1>1, <3>1, <3>2 DEF TypeOK, Places
  <2> QED
    BY <1>9, <2>1, <2>2, QuietBatchType DEF Intent
<1>10. CASE Answered(b)
  <2>1. PICK e \in Entries :
          /\ Create(e, batch[b].line)
          /\ batch' = [batch EXCEPT ![b].pc = "confirm", ![b].got = e]
    BY <1>10 DEF Answered
  <2>2. batch'[b] \in Places /\ batch'[b].got = e /\ batch'[b].line = batch[b].line
    BY <1>1, <2>1 DEF Places, TypeOK
  <2>3. owner' \in [Entries -> Lines \cup {NoLine}] /\ owner'[e] = batch[b].line
        /\ \A d \in Entries : owner[d] \in Lines => owner'[d] = owner[d]
    BY <1>10, <2>1 DEF Answered, At, Create, TypeOK
  <2> QED
    BY <1>10, <2>1, <2>2, <2>3 DEF Answered, TypeOK, At
<1>11. CASE Refused(b)
  <2>1. posting' \in [Lines -> Intents]
    BY <1>11 DEF Refused, Flush, TypeOK, Intents, Statuses, At
  <2> QED
    BY <1>11, <2>1, NextLinePlace, QuietType DEF Refused, TypeOK, At
<1>12. CASE Lost(b)
  <2>1. \/ batch' = [batch EXCEPT ![b].tries = @ + 1]
        \/ batch' = [batch EXCEPT ![b] = Resting]
    BY <1>12 DEF Lost
  <2>2. /\ batch' \in [Batches -> Places] /\ batch'[b].pc # "confirm"
        /\ \A c \in Batches \ {b} : batch'[c] = batch[c]
    <3>1. CASE batch' = [batch EXCEPT ![b].tries = @ + 1]
      <4> DEFINE p == [batch[b] EXCEPT !.tries = @ + 1]
      <4>1. p \in Places /\ p.pc # "confirm"
        BY <1>1, <1>12 DEF Places, Lost, At
      <4>2. batch' = [batch EXCEPT ![b] = p]
        BY <3>1
      <4> HIDE DEF p
      <4> QED BY <4>1, <4>2 DEF TypeOK
    <3>2. CASE batch' = [batch EXCEPT ![b] = Resting]
      BY <3>2, RestingPlace DEF TypeOK, Resting
    <3> QED BY <2>1, <3>1, <3>2
  <2>3. excuse' \in [Lines -> SUBSET Excuses] /\ stray' \in [Lines -> Nat]
    BY <1>12 DEF Lost, TypeOK, Excuses
  <2>4. owner' \in [Entries -> Lines \cup {NoLine}]
        /\ \A d \in Entries : owner[d] \in Lines => owner'[d] = owner[d]
    BY <1>12 DEF Lost, At, Create, TypeOK
  <2> QED
    <3>1. UNCHANGED <<posting, link>> /\ batch[b].line \in Lines
      BY <1>12 DEF Lost, At
    <3>2. \A c \in Batches : batch'[c].pc = "confirm" => batch'[c] = batch[c]
      BY <2>2
    <3> QED BY <2>2, <2>3, <2>4, <3>1, <3>2 DEF TypeOK, At
<1>13. CASE Confirm(b)
  <2>1. posting' \in [Lines -> Intents]
    <3> DEFINE l == batch[b].line
    <3>1. l \in Lines /\ Flush(b, l, "confirmed") \in Statuses /\ batch[b].got \in Entries
      BY <1>13 DEF Confirm, At, Flush, TypeOK, Intents, Statuses
    <3>2. posting' = [posting EXCEPT ![l].status = Flush(b, l, "confirmed"),
                                     ![l].entry = batch[b].got]
      BY <1>13 DEF Confirm
    <3> HIDE DEF l
    <3>3. posting'[l] \in Intents
      BY <3>1, <3>2 DEF TypeOK, Intents
    <3> QED BY <3>1, <3>2, <3>3 DEF TypeOK
  <2>2. /\ link' \in [Lines -> Entries \cup {NoEntry}]
        /\ \A k, l \in Lines : k # l /\ link'[k] = link'[l] => link'[k] = NoEntry
    BY <1>1, <1>13 DEF Confirm, LinkedElsewhere, TypeOK, At, Places
  <2> QED
    BY <1>13, <2>1, <2>2, NextLinePlace DEF Confirm, TypeOK, At
<1>14. CASE ConfirmRefused(b)
  <2>1. posting' \in [Lines -> Intents] /\ excuse' \in [Lines -> SUBSET Excuses]
    <3> DEFINE l == batch[b].line
    <3>1. l \in Lines /\ Flush(b, l, "failed") \in Statuses
      BY <1>14 DEF ConfirmRefused, At, Flush, TypeOK, Intents, Statuses
    <3>2. \/ UNCHANGED <<posting, excuse>>
          \/ /\ posting' = [posting EXCEPT ![l].status = Flush(b, l, "failed")]
             /\ Excused(l, "failed")
      BY <1>14 DEF ConfirmRefused
    <3> HIDE DEF l
    <3>3. posting' \in [Lines -> Intents]
      <4>1. posting[l] \in Intents
        BY <3>1 DEF TypeOK
      <4>2. [posting[l] EXCEPT !.status = Flush(b, l, "failed")] \in Intents
        BY <3>1, <4>1 DEF Intents
      <4> QED BY <3>1, <3>2, <4>2 DEF TypeOK
    <3>4. excuse' \in [Lines -> SUBSET Excuses]
      BY <3>1, <3>2, ExcuseType DEF TypeOK, Excuses
    <3> QED BY <3>3, <3>4
  <2>2. /\ batch' \in [Batches -> Places] /\ batch'[b].pc # "confirm"
        /\ \A c \in Batches \ {b} : batch'[c] = batch[c]
    <3>1. batch' = [batch EXCEPT ![b] = Resting] \/ NextLine(b)
      BY <1>14 DEF ConfirmRefused
    <3>2. batch[b].line \in Lines
      BY <1>14 DEF ConfirmRefused, At
    <3>3. CASE batch' = [batch EXCEPT ![b] = Resting]
      BY <3>3, RestingPlace DEF TypeOK, Resting
    <3>4. CASE NextLine(b)
      BY <3>2, <3>4, NextLinePlace
    <3> QED BY <3>1, <3>3, <3>4
  <2> QED
    BY <1>14, <2>1, <2>2, QuietBatchType DEF ConfirmRefused
<1> QED
  BY <1>3, <1>4, <1>5, <1>6, <1>7, <1>8, <1>9, <1>10, <1>11, <1>12, <1>13, <1>14
     DEF BatchStep

LEMMA TypeStep ==
  ASSUME TypeOK, [Next]_vars
  PROVE  TypeOK'
<1>1. CASE \E l \in Lines : StrayArrives(l)
  BY <1>1, PostingConstants DEF StrayArrives, Create, TypeOK, At
<1>2. CASE Reprocess
  BY <1>2 DEF Reprocess, TypeOK, At
<1>3. CASE Rematch
  <2>1. link' \in [Lines -> Entries \cup {NoEntry}]
    BY <1>3 DEF Rematch, TypeOK
  <2> QED
    BY <1>3, <2>1 DEF Rematch, TypeOK, At
<1>4. CASE UNCHANGED vars
  BY <1>4 DEF vars, TypeOK, At
<1> QED
  BY <1>1, <1>2, <1>3, <1>4, BatchType DEF Next

-------------------------------------------------------------------------------
(* How a step moves the batch that takes it.                                *)

Leaves(b) ==
  /\ batch'[b].pc = "next" /\ batch'[b].line = NoLine /\ ~batch'[b].asked
  /\ batch'[b].todo \subseteq batch[b].todo
  /\ \A l \in batch'[b].todo : l # batch[b].line => batch'[b].seen[l] = batch[b].seen[l]

Takes(b) ==
  \E l \in batch[b].todo :
    /\ batch[b].line = NoLine /\ batch[b].seen[l].status # "confirmed"
    /\ batch'[b].line = l /\ batch'[b].todo = batch[b].todo \ {l}
    /\ batch'[b].pc = Decision(batch[b].seen[l])
    /\ batch'[b].seen = batch[b].seen /\ ~batch'[b].asked

Keeps(b, from, to) ==
  /\ batch[b].pc = from /\ batch[b].line \in Lines /\ batch'[b].pc = to
  /\ batch'[b].line = batch[b].line /\ batch'[b].todo = batch[b].todo
  /\ \A l \in Lines : l # batch[b].line => batch'[b].seen[l] = batch[b].seen[l]

LEMMA RestLeaves ==
  ASSUME TypeOK, NEW b \in Batches, batch' = [batch EXCEPT ![b] = Resting]
  PROVE  Leaves(b)
  BY DEF TypeOK, Leaves, Resting

LEMMA NextLeaves ==
  ASSUME TypeOK, NEW b \in Batches, NextLine(b), batch[b].line \in Lines
  PROVE  Leaves(b)
<1>1. batch[b].todo \subseteq Lines
  BY DEF TypeOK, Places
<1> QED
  BY <1>1, NextLinePlace DEF Leaves

LEMMA Frame ==
  ASSUME TypeOK, NEW b \in Batches, BatchStep(b)
  PROVE  \A c \in Batches \ {b} : batch'[c] = batch[c]
<1> DEFINE frame == \A c \in Batches \ {b} : batch'[c] = batch[c]
<1>1. CASE NextLine(b)
  BY <1>1 DEF NextLine, TypeOK
<1>2. CASE batch' = [batch EXCEPT ![b] = Resting]
  BY <1>2 DEF TypeOK
<1>3. AskInconclusive(b) \/ Refused(b) \/ Confirm(b) => frame
  BY <1>1 DEF AskInconclusive, Refused, Confirm
<1>4. Abort(b) \/ ConfirmRefused(b) => frame
  BY <1>1, <1>2 DEF Abort, ConfirmRefused
<1>5. BatchRead(b) => frame
  BY DEF BatchRead, TypeOK
<1>6. Decide(b) => frame
  BY DEF Decide, TypeOK
<1>7. AskFound(b) \/ AskAbsent(b) => frame
  BY DEF AskFound, AskAbsent, Goto, TypeOK
<1>8. Intent(b) => frame
  BY DEF Intent, TypeOK
<1>9. Answered(b) => frame
  BY DEF Answered, TypeOK
<1>10. Lost(b) => frame
  BY <1>2 DEF Lost, TypeOK
<1> QED
  BY <1>3, <1>4, <1>5, <1>6, <1>7, <1>8, <1>9, <1>10 DEF BatchStep

\* Which steps touch what is recorded, and what Omie has.
LEMMA Untouched ==
  ASSUME NEW b \in Batches, BatchStep(b)
  PROVE  /\ Intent(b) \/ Refused(b) \/ Confirm(b) \/ ConfirmRefused(b) \/ UNCHANGED posting
         /\ Answered(b) \/ Lost(b) \/ UNCHANGED <<owner, stray>>
<1>1. BatchRead(b) \/ Decide(b) \/ Abort(b) \/ AskFound(b) => UNCHANGED <<owner, stray, posting>>
  BY DEF BatchRead, Decide, Abort, AskFound
<1>2. AskAbsent(b) \/ AskInconclusive(b) => UNCHANGED <<owner, stray, posting>>
  BY DEF AskAbsent, AskInconclusive
<1>3. Answered(b) \/ Lost(b) => UNCHANGED posting
  BY DEF Answered, Lost
<1>4. Intent(b) \/ Refused(b) \/ Confirm(b) \/ ConfirmRefused(b) => UNCHANGED <<owner, stray>>
  BY DEF Intent, Refused, Confirm, ConfirmRefused
<1> QED BY <1>1, <1>2, <1>3, <1>4 DEF BatchStep

LEMMA Moves ==
  ASSUME TypeOK, StepInv, NEW b \in Batches
  PROVE  /\ Abort(b) \/ AskInconclusive(b) \/ Refused(b) \/ Confirm(b) \/ ConfirmRefused(b)
              => Leaves(b)
         /\ Decide(b) => Leaves(b) \/ Takes(b)
         /\ Lost(b) => Leaves(b) \/ (Keeps(b, "post", "post") /\ ~batch'[b].asked)
         /\ AskFound(b) => Keeps(b, "ask", "confirm") /\ batch'[b].asked
         /\ AskAbsent(b) => Keeps(b, "ask", "intent") /\ ~batch'[b].asked
         /\ Intent(b) => Keeps(b, "intent", "post") /\ ~batch'[b].asked
         /\ Answered(b) => Keeps(b, "post", "confirm") /\ ~batch'[b].asked
<1>1. batch[b] \in Places /\ batch \in [Batches -> Places]
  BY DEF TypeOK
<1>2. batch[b].pc # "confirm" => ~batch[b].asked
  BY DEF StepInv
<1>3. ASSUME Abort(b) \/ AskInconclusive(b) \/ Refused(b) \/ Confirm(b) \/ ConfirmRefused(b)
      PROVE  Leaves(b)
  <2>1. batch' = [batch EXCEPT ![b] = Resting] \/ (NextLine(b) /\ batch[b].line \in Lines)
    BY <1>3 DEF Abort, AskInconclusive, Refused, Confirm, ConfirmRefused, At
  <2> QED BY <2>1, RestLeaves, NextLeaves
<1>4. ASSUME Decide(b) PROVE Leaves(b) \/ Takes(b)
  <2>1. PICK l \in batch[b].todo :
          LET mine == batch[b].seen[l]
              left == batch[b].todo \ {l}
          IN batch' = [batch EXCEPT ![b] =
               IF mine.status = "confirmed"
               THEN IF left = {} THEN Resting
                    ELSE [@ EXCEPT !.todo = left, !.seen[l] = Unknown]
               ELSE [@ EXCEPT !.todo = left, !.line = l, !.pc = Decision(mine)]]
    BY <1>4 DEF Decide
  <2>2. batch[b].line = NoLine /\ batch[b].pc = "next" /\ ~batch[b].asked
    BY <1>4, <1>2 DEF Decide, StepInv
  <2>3. CASE batch' = [batch EXCEPT ![b] = Resting]
    BY <2>3, RestLeaves
  <2>4. CASE batch' = [batch EXCEPT ![b] = [@ EXCEPT !.todo = batch[b].todo \ {l}, !.seen[l] = Unknown]]
    <3> DEFINE p == [batch[b] EXCEPT !.todo = batch[b].todo \ {l}, !.seen[l] = Unknown]
    <3>1. /\ p.pc = batch[b].pc /\ p.line = batch[b].line /\ p.asked = batch[b].asked
          /\ p.todo = batch[b].todo \ {l}
          /\ \A k \in p.todo : p.seen[k] = batch[b].seen[k]
      BY <1>1 DEF Places
    <3>2. batch'[b] = p
      BY <1>1, <2>4
    <3> HIDE DEF p
    <3> QED BY <2>2, <3>1, <3>2 DEF Leaves
  <2>5. CASE batch[b].seen[l].status # "confirmed" /\ batch' = [batch EXCEPT ![b] =
               [@ EXCEPT !.todo = batch[b].todo \ {l}, !.line = l, !.pc = Decision(batch[b].seen[l])]]
    <3> DEFINE p == [batch[b] EXCEPT !.todo = batch[b].todo \ {l}, !.line = l,
                                     !.pc = Decision(batch[b].seen[l])]
    <3>1. /\ p.pc = Decision(batch[b].seen[l]) /\ p.line = l /\ p.asked = batch[b].asked
          /\ p.todo = batch[b].todo \ {l} /\ p.seen = batch[b].seen
      BY <1>1 DEF Places
    <3>2. batch'[b] = p
      BY <1>1, <2>5
    <3> HIDE DEF p
    <3> QED BY <2>2, <2>5, <3>1, <3>2 DEF Takes
  <2> QED BY <2>1, <2>3, <2>4, <2>5
<1>5. ASSUME Lost(b) PROVE Leaves(b) \/ (Keeps(b, "post", "post") /\ ~batch'[b].asked)
  <2>1. \/ batch' = [batch EXCEPT ![b].tries = @ + 1]
        \/ batch' = [batch EXCEPT ![b] = Resting]
    BY <1>5 DEF Lost
  <2>2. batch[b].pc = "post" /\ batch[b].line \in Lines
    BY <1>5 DEF Lost, At
  <2>3. CASE batch' = [batch EXCEPT ![b].tries = @ + 1]
    BY <1>1, <1>2, <2>2, <2>3 DEF Keeps, Places
  <2> QED BY <2>1, <2>3, RestLeaves
<1>6. ASSUME AskFound(b) PROVE Keeps(b, "ask", "confirm") /\ batch'[b].asked
  BY <1>1, <1>6 DEF AskFound, At, Keeps, Places
<1>7. ASSUME AskAbsent(b) PROVE Keeps(b, "ask", "intent") /\ ~batch'[b].asked
  BY <1>1, <1>2, <1>7 DEF AskAbsent, At, Goto, Keeps, Places
<1>8. ASSUME Intent(b) PROVE Keeps(b, "intent", "post") /\ ~batch'[b].asked
  <2> DEFINE l == batch[b].line
             m == IF batch[b].seen[l].status = "none" THEN posting'[l] ELSE batch[b].seen[l]
  <2>1. batch' = [batch EXCEPT ![b].pc = "post", ![b].seen[l] = m] /\ At(b, "intent")
    BY <1>8 DEF Intent
  <2> HIDE DEF m
  <2> QED BY <1>1, <1>2, <2>1 DEF At, Keeps, Places
<1>9. ASSUME Answered(b) PROVE Keeps(b, "post", "confirm") /\ ~batch'[b].asked
  BY <1>1, <1>2, <1>9 DEF Answered, At, Keeps, Places
<1> QED
  BY <1>3, <1>4, <1>5, <1>6, <1>7, <1>8, <1>9

-------------------------------------------------------------------------------
(* How a step changes what is recorded of the lines, and what Omie has.     *)

\* An excuse is never taken back, and a record never erased.
LEMMA Remembers ==
  ASSUME TypeOK, [Next]_vars, NEW l \in Lines
  PROVE  excuse[l] \subseteq excuse'[l] /\ (Recorded(l) => Recorded(l)')
<1>1. ASSUME NEW b \in Batches, BatchStep(b)
      PROVE  excuse[l] \subseteq excuse'[l] /\ (Recorded(l) => Recorded(l)')
  <2>1. excuse[l] \subseteq excuse'[l]
    <3>1. CASE BatchRead(b)
      BY <3>1 DEF BatchRead
    <3>2. CASE Lost(b)
      <4>1. UNCHANGED excuse \/ \E k \in Lines, w \in SUBSET Excuses :
               excuse' = [excuse EXCEPT ![k] = @ \cup w]
        BY <3>2 DEF Lost, At, Excuses
      <4> QED BY <4>1 DEF TypeOK
    <3>3. CASE UNCHANGED excuse \/ \E k \in Lines, w \in Excuses : Excused(k, w)
      BY <3>3 DEF Excused, TypeOK
    <3>4. Abort(b) \/ AskAbsent(b) \/ ConfirmRefused(b) =>
            UNCHANGED excuse \/ \E k \in Lines, w \in Excuses : Excused(k, w)
      BY DEF Abort, AskAbsent, ConfirmRefused, At, Excuses
    <3>5. Decide(b) \/ AskFound(b) \/ AskInconclusive(b) \/ Intent(b) \/ Answered(b)
            \/ Refused(b) \/ Confirm(b) => UNCHANGED excuse
      BY Zenon DEF Decide, AskFound, AskInconclusive, Intent, Answered, Refused, Confirm
    <3> QED BY <1>1, <3>1, <3>2, <3>3, <3>4, <3>5 DEF BatchStep
  <2>2. posting'[l] = posting[l]
        \/ (posting'[l].status \in {posting[l].status, "pending", "failed", "confirmed"}
            /\ posting'[l].attempts \in {posting[l].attempts, posting[l].attempts + 1})
    <3>1. posting[l] \in Intents /\ posting \in [Lines -> Intents]
      BY DEF TypeOK
    <3>2. CASE UNCHANGED posting
      BY <3>2
    <3>3. CASE Intent(b)
      BY <3>1, <3>3, CountedIntent DEF Intent
    <3>4. CASE \E k \in Lines, w \in {"failed", "confirmed"} :
                 posting' = [posting EXCEPT ![k].status = Flush(b, k, w)]
      <4>1. PICK k \in Lines, w \in {"failed", "confirmed"} :
              posting' = [posting EXCEPT ![k].status = Flush(b, k, w)]
        BY <3>4
      <4>2. Flush(b, k, w) \in {posting[k].status, "failed", "confirmed"}
        BY DEF Flush
      <4> QED BY <3>1, <4>1, <4>2 DEF Intents
    <3>5. CASE Confirm(b)
      BY <3>1, <3>5, Zenon DEF Confirm, Flush, Intents
    <3>6. Refused(b) \/ ConfirmRefused(b) => UNCHANGED posting
            \/ \E k \in Lines, w \in {"failed", "confirmed"} :
                 posting' = [posting EXCEPT ![k].status = Flush(b, k, w)]
      BY DEF Refused, ConfirmRefused, At
    <3> QED
      BY <1>1, <3>2, <3>3, <3>4, <3>5, <3>6, Untouched
  <2> QED
    BY <2>1, <2>2 DEF Recorded, TypeOK, Intents
<1>2. CASE UNCHANGED <<posting, excuse>>
  BY <1>2 DEF Recorded
<1> QED
  BY <1>1, <1>2 DEF Next, StrayArrives, Reprocess, Rematch, vars

\* A batch step is about the line in the batch's hand.
LEMMA OthersAlone ==
  ASSUME TypeOK, NEW b \in Batches, BatchStep(b), NEW l \in Lines, l # batch[b].line
  PROVE  /\ posting'[l] = posting[l] /\ stray'[l] = stray[l]
         /\ \A e \in Entries : owner'[e] = l <=> owner[e] = l
<1>1. posting'[l] = posting[l]
  <2>1. Intent(b) \/ Refused(b) => posting'[l] = posting[l]
    BY DEF Intent, Refused, TypeOK
  <2>2. Confirm(b) => posting'[l] = posting[l]
    BY DEF Confirm, TypeOK
  <2>3. ConfirmRefused(b) => posting'[l] = posting[l]
    BY DEF ConfirmRefused, TypeOK
  <2> QED BY <2>1, <2>2, <2>3, Untouched
<1>2. stray'[l] = stray[l] /\ \A e \in Entries : owner'[e] = l <=> owner[e] = l
  <2>1. ASSUME NEW d \in Entries, Create(d, batch[b].line)
        PROVE  \A e \in Entries : owner'[e] = l <=> owner[e] = l
    BY <2>1, PostingConstants DEF Create, TypeOK
  <2>2. Answered(b) => UNCHANGED stray /\ \E d \in Entries : Create(d, batch[b].line)
    BY DEF Answered
  <2>3. Lost(b) =>
          \/ UNCHANGED <<owner, stray>>
          \/ UNCHANGED stray /\ \E d \in Entries : Create(d, batch[b].line)
          \/ UNCHANGED owner /\ stray' = [stray EXCEPT ![batch[b].line] = @ + 1]
    <3>1. HAVE Lost(b)
    <3>2. \/ UNCHANGED <<owner, stray, excuse>>
          \/ (\E d \in Entries : Create(d, batch[b].line)) /\ UNCHANGED stray
          \/ stray' = [stray EXCEPT ![batch[b].line] = @ + 1] /\ UNCHANGED owner
      BY <3>1, Zenon DEF Lost
    <3> QED BY <3>2
  <2> QED BY <2>1, <2>2, <2>3, Untouched DEF TypeOK
<1> QED BY <1>1, <1>2

\* Nothing comes to be at Omie for a line but by a batch that sends it.
LEMMA PostedBySending ==
  ASSUME TypeOK, [Next]_vars, NEW l \in Lines, Posted(l)'
  PROVE  Posted(l) \/ \E b \in Batches : Doing(b, l, {"post"})
<1>1. ASSUME NEW b \in Batches, BatchStep(b)
      PROVE  Posted(l) \/ Doing(b, l, {"post"})
  <2>1. CASE l # batch[b].line
    BY <1>1, <2>1, OthersAlone DEF Posted, Entered
  <2>2. CASE l = batch[b].line /\ (Answered(b) \/ Lost(b))
    BY <2>2 DEF Doing, Answered, Lost, At
  <2>3. CASE ~(Answered(b) \/ Lost(b))
    BY <1>1, <2>3, Untouched DEF Posted, Entered
  <2> QED BY <2>1, <2>2, <2>3
<1>2. ASSUME NEW k \in Lines, StrayArrives(k)
      PROVE  Posted(l)
  BY <1>2, PostingConstants DEF StrayArrives, Create, TypeOK, Posted, Entered
<1>3. CASE UNCHANGED <<owner, stray>>
  BY <1>3 DEF Posted, Entered
<1> QED
  BY <1>1, <1>2, <1>3 DEF Next, Reprocess, Rematch, vars

-------------------------------------------------------------------------------
(* StepInv and IntentBeforeEffect.                                          *)

LEMMA StepInvStep ==
  ASSUME TypeOK, StepInv, [Next]_vars
  PROVE  StepInv'
<1> USE PostingConstants
<1>1. ASSUME NEW b \in Batches, BatchStep(b)
      PROVE  StepInv'
  <2>1. \A c \in Batches \ {b} : batch'[c] = batch[c]
    BY <1>1, Frame
  <2>2. \A l \in Lines : Recorded(l) => Recorded(l)'
    BY <1>1, Remembers DEF Next
  <2>3. /\ batch'[b].line = NoLine <=> batch'[b].pc = "next"
        /\ batch'[b].line \notin batch'[b].todo
        /\ batch'[b].pc # "confirm" => ~batch'[b].asked
    <3>1. CASE BatchRead(b)
      BY <3>1 DEF BatchRead, TypeOK, Places, StepInv, Resting
    <3>2. CASE Leaves(b)
      BY <3>2 DEF Leaves, TypeOK, Places
    <3>3. CASE Takes(b)
      BY <3>3 DEF Takes, TypeOK, Places, Decision
    <3>4. CASE \E from, to \in {"ask", "intent", "post", "confirm"} : Keeps(b, from, to)
               /\ (to # "confirm" => ~batch'[b].asked)
      BY <3>4 DEF Keeps, StepInv
    <3> QED BY <1>1, <3>1, <3>2, <3>3, <3>4, Moves DEF BatchStep
  <2>4. \A l \in Lines : batch'[b].line = l /\ batch'[b].pc = "post" => Recorded(l)'
    <3>1. CASE Intent(b)
      <4>1. Keeps(b, "intent", "post")
        BY <3>1, Moves
      <4>2. Recorded(batch[b].line)'
        BY <3>1, CountedIntent DEF Intent, At, Recorded, TypeOK, Intents
      <4> QED BY <4>1, <4>2 DEF Keeps
    <3>2. CASE Lost(b)
      BY <2>2, <3>2, Moves DEF Keeps, Leaves, StepInv, Doing
    <3>3. CASE ~Intent(b) /\ ~Lost(b)
      <4>1. CASE BatchRead(b)
        BY <4>1 DEF BatchRead, Resting, TypeOK, Places
      <4>2. CASE ~BatchRead(b)
        BY <1>1, <3>3, <4>2, Moves DEF BatchStep, Leaves, Takes, Keeps, Decision
      <4> QED BY <4>1, <4>2
    <3> QED BY <3>1, <3>2, <3>3
  <2> QED
    BY <2>1, <2>2, <2>3, <2>4 DEF StepInv, Doing
<1>2. CASE UNCHANGED batch
  <2>1. \A l \in Lines : Recorded(l) => Recorded(l)'
    BY Remembers
  <2> QED BY <1>2, <2>1 DEF StepInv, Doing
<1> QED
  BY <1>1, <1>2 DEF Next, StrayArrives, Reprocess, Rematch, vars

LEMMA IntentStep ==
  ASSUME TypeOK, StepInv, IntentBeforeEffect, [Next]_vars
  PROVE  IntentBeforeEffect'
<1> SUFFICES ASSUME NEW l \in Lines, Posted(l)' PROVE Recorded(l)'
  BY DEF IntentBeforeEffect, Posted, Recorded
<1>1. Posted(l) \/ \E b \in Batches : Doing(b, l, {"post"})
  BY PostedBySending
<1>2. Recorded(l)
  BY <1>1 DEF IntentBeforeEffect, StepInv, Posted, Recorded
<1> QED BY <1>2, Remembers

-------------------------------------------------------------------------------
(* AloneInv: a line nobody raced for is in one batch's hands.               *)

LEMMA ReadEffect ==
  ASSUME TypeOK, NEW b \in Batches, BatchRead(b), NEW l \in Lines
  PROVE  /\ ~Holds(b, l)
         /\ batch'[b].line = NoLine /\ batch'[b].pc = "next" /\ ~batch'[b].asked
         /\ l \in batch'[b].todo =>
              /\ batch'[b].seen[l] = posting[l]
              /\ "race" \in excuse'[l] \/ \A c \in Batches \ {b} : ~Holds(c, l)
<1> DEFINE s == [k \in Lines |-> IF k \in batch'[b].todo THEN posting[k] ELSE Unknown]
<1>1. PICK chosen \in SUBSET Lines :
        /\ batch' = [batch EXCEPT ![b].todo = chosen,
             ![b].seen = [k \in Lines |-> IF k \in chosen THEN posting[k] ELSE Unknown]]
        /\ excuse' = [k \in Lines |->
             IF k \in chosen /\ \E c \in Batches \ {b} : Holds(c, k)
             THEN excuse[k] \cup {"race"} ELSE excuse[k]]
  BY DEF BatchRead
<1>2. batch[b] = Resting /\ batch[b] \in Places
  BY DEF BatchRead, TypeOK
<1>3. /\ batch'[b].todo = chosen /\ batch'[b].line = NoLine /\ batch'[b].pc = "next"
      /\ ~batch'[b].asked
      /\ batch'[b].seen = [k \in Lines |-> IF k \in chosen THEN posting[k] ELSE Unknown]
  BY <1>1, <1>2 DEF TypeOK, Places, Resting
<1> QED
  BY <1>1, <1>2, <1>3, PostingConstants DEF Holds, Resting

LEMMA AloneStep ==
  ASSUME TypeOK, StepInv, AloneInv, [Next]_vars
  PROVE  AloneInv'
<1> USE PostingConstants
<1>1. ASSUME NEW b \in Batches, BatchStep(b)
      PROVE  AloneInv'
  <2> SUFFICES ASSUME NEW l \in Lines, "race" \notin excuse'[l],
                      NEW a \in Batches, Holds(a, l)'
               PROVE  /\ \A c \in Batches : Holds(c, l)' => a = c
                      /\ l \in batch'[a].todo \/ Doing(a, l, {"ask", "intent"})' =>
                           batch'[a].seen[l] = posting'[l]
                      /\ batch'[a].line = l =>
                           posting'[l].status # "confirmed" /\ batch'[a].seen[l].status # "confirmed"
    BY DEF AloneInv
  <2>1. \A c \in Batches \ {b} : batch'[c] = batch[c]
    BY <1>1, Frame
  <2>2. "race" \notin excuse[l]
    BY <1>1, Remembers DEF Next
  <2>3. l # batch[b].line => posting'[l] = posting[l]
    BY <1>1, OthersAlone
  <2>4. \A c \in Batches \ {b} : Holds(c, l)' <=> Holds(c, l)
    BY <2>1 DEF Holds
  <2>5. CASE BatchRead(b)
    <3>1. posting'[l] = posting[l]
      BY <2>5 DEF BatchRead
    <3>2. Holds(b, l)' => l \in batch'[b].todo /\ \A c \in Batches \ {b} : ~Holds(c, l)
      BY <2>5, ReadEffect DEF Holds
    <3>3. \A c \in Batches : Holds(c, l)' => a = c
      BY <2>2, <2>4, <3>2 DEF AloneInv
    <3>4. CASE a = b
      BY <2>5, <3>1, <3>3, <3>4, ReadEffect DEF Doing
    <3>5. CASE a # b
      BY <2>1, <2>2, <2>4, <3>1, <3>3, <3>5 DEF AloneInv, Doing
    <3> QED BY <3>4, <3>5
  <2>6. CASE ~BatchRead(b)
    <3>1. Leaves(b) \/ Takes(b) \/ \E from, to \in {"ask", "intent", "post", "confirm"} :
                                     Keeps(b, from, to)
      BY <1>1, <2>6, Moves, SMTT(30) DEF BatchStep
    <3>2. Holds(b, l)' => Holds(b, l)
      BY <3>1 DEF Leaves, Takes, Keeps, Holds
    <3>3. \A c \in Batches : Holds(c, l)' => a = c
      BY <2>2, <2>4, <3>2 DEF AloneInv
    <3>4. CASE a # b
      <4>1. l # batch[b].line
        BY <2>2, <2>4, <3>4 DEF AloneInv, Holds
      <4> QED BY <2>1, <2>2, <2>3, <2>4, <3>3, <3>4, <4>1 DEF AloneInv, Doing
    <3>5. CASE a = b
      <4>1. CASE Leaves(b)
        <5>1. l \in batch'[b].todo /\ l \in batch[b].todo /\ l # batch[b].line
          BY <3>5, <4>1 DEF Leaves, Holds, StepInv
        <5> QED
          BY <2>2, <2>3, <3>2, <3>3, <3>5, <4>1, <5>1 DEF Leaves, AloneInv, Doing
      <4>2. CASE Takes(b)
        <5>1. batch[b].line = NoLine /\ l \in batch[b].todo
          BY <3>5, <4>2 DEF Takes, Holds
        <5>2. batch[b].seen[l] = posting[l] /\ posting'[l] = posting[l]
          BY <2>2, <2>3, <5>1 DEF AloneInv, Holds
        <5> QED
          BY <3>3, <3>5, <4>2, <5>2 DEF Takes
      <4>3. ASSUME NEW from \in {"ask", "intent", "post", "confirm"},
                   NEW to \in {"ask", "intent", "post", "confirm"}, Keeps(b, from, to)
            PROVE  /\ l \in batch'[b].todo \/ Doing(b, l, {"ask", "intent"})' =>
                           batch'[b].seen[l] = posting'[l]
                   /\ batch'[b].line = l =>
                           posting'[l].status # "confirmed" /\ batch'[b].seen[l].status # "confirmed"
        <5>1. CASE l # batch[b].line
          BY <2>2, <2>3, <3>2, <3>5, <4>3, <5>1 DEF Keeps, AloneInv, Doing
        <5>2. CASE l = batch[b].line
          <6>1. l \notin batch'[b].todo /\ Holds(b, l)
            BY <4>3, <5>2 DEF Keeps, StepInv, Holds
          <6>2. CASE Intent(b)
            <7>1. posting[l].status # "confirmed" /\ batch[b].seen[l].status # "confirmed"
              BY <2>2, <5>2, <6>1 DEF AloneInv
            <7>2. posting'[l].status # "confirmed" /\ batch'[b].pc = "post"
              <8>1. posting[l] \in Intents /\ posting \in [Lines -> Intents]
                BY DEF TypeOK
              <8>2. posting'[l].status \in {posting[l].status, "pending"}
                BY <5>2, <6>2, <8>1, CountedIntent DEF Intent
              <8> QED BY <6>2, <7>1, <8>2, Moves DEF Keeps
            <7>3. batch'[b].seen[l] \in {posting'[l], batch[b].seen[l]}
              <8> DEFINE m == IF batch[b].seen[l].status = "none"
                              THEN posting'[l] ELSE batch[b].seen[l]
              <8>1. batch' = [batch EXCEPT ![b].pc = "post", ![b].seen[l] = m]
                BY <5>2, <6>2 DEF Intent
              <8> HIDE DEF m
              <8>2. batch'[b].seen[l] = m
                BY <8>1 DEF TypeOK, Places
              <8> QED BY <8>2 DEF m
            <7> QED BY <6>1, <7>1, <7>2, <7>3 DEF Doing
          <6>3. CASE ~Intent(b)
            <7>1. batch'[b].seen = batch[b].seen /\ posting' = posting
                  /\ (batch'[b].pc \in {"ask", "intent"} => batch[b].pc \in {"ask", "intent"})
              <8>1. AskFound(b) \/ AskAbsent(b) \/ Answered(b) \/ Lost(b)
                BY <1>1, <2>6, <4>3, <6>3, Moves DEF BatchStep, Leaves, Takes, Keeps
              <8>2. CASE AskFound(b) \/ AskAbsent(b) \/ Answered(b)
                <9>1. batch[b] \in Places /\ batch \in [Batches -> Places]
                  BY DEF TypeOK
                <9>2. batch'[b].seen = batch[b].seen
                  <10>1. CASE AskFound(b)
                    BY <9>1, <10>1 DEF AskFound, Places
                  <10>2. CASE AskAbsent(b)
                    BY <9>1, <10>2 DEF AskAbsent, Goto, Places
                  <10>3. CASE Answered(b)
                    BY <9>1, <10>3 DEF Answered, Places
                  <10> QED BY <8>2, <10>1, <10>2, <10>3
                <9>3. batch'[b].pc \in {"ask", "intent"} => batch[b].pc \in {"ask", "intent"}
                  BY <8>2, Moves DEF Keeps
                <9> QED BY <8>2, <9>2, <9>3 DEF AskFound, AskAbsent, Answered
              <8>3. CASE Lost(b)
                <9>1. batch' = [batch EXCEPT ![b].tries = @ + 1]
                  BY <4>3, <8>3 DEF Lost, Keeps, TypeOK, Resting
                <9> QED BY <8>3, <9>1 DEF Lost, At, TypeOK, Places
              <8> QED BY <8>1, <8>2, <8>3
            <7> QED
              BY <2>2, <4>3, <5>2, <6>1, <7>1 DEF AloneInv, Doing, Keeps
          <6> QED BY <6>2, <6>3
        <5> QED BY <5>1, <5>2
      <4> QED BY <3>1, <3>3, <3>5, <4>1, <4>2, <4>3
    <3> QED BY <3>4, <3>5
  <2> QED BY <2>5, <2>6
<1>2. CASE UNCHANGED <<batch, posting, excuse>>
  BY <1>2 DEF AloneInv, Holds, Doing
<1> QED
  BY <1>1, <1>2 DEF Next, StrayArrives, Reprocess, Rematch, vars

-------------------------------------------------------------------------------
(* What is recorded as confirmed.                                           *)

LEMMA OwnersStay ==
  ASSUME TypeOK, [Next]_vars, NEW e \in Entries, owner[e] \in Lines
  PROVE  owner'[e] = owner[e]
<1>1. UNCHANGED owner \/ \E d \in Entries, k \in Lines : Create(d, k)
  <2>1. \A b \in Batches : Answered(b) \/ Lost(b) =>
          UNCHANGED owner \/ \E d \in Entries, k \in Lines : Create(d, k)
    BY DEF Answered, Lost, At
  <2>2. \A k \in Lines : StrayArrives(k) => UNCHANGED owner \/ \E d \in Entries : Create(d, k)
    BY DEF StrayArrives
  <2> QED BY <2>1, <2>2, Untouched DEF Next, Reprocess, Rematch, vars
<1> QED
  BY <1>1, PostingConstants DEF Create, TypeOK

LEMMA ThereStep ==
  ASSUME TypeOK, ConfirmedIsThere, [Next]_vars
  PROVE  ConfirmedIsThere'
<1> SUFFICES ASSUME NEW l \in Lines, posting'[l].status = "confirmed"
             PROVE  posting'[l].entry \in Entries /\ owner'[posting'[l].entry] = l
  BY DEF ConfirmedIsThere
<1>1. CASE posting[l].status = "confirmed" /\ posting'[l].entry = posting[l].entry
  BY <1>1, OwnersStay DEF ConfirmedIsThere
<1>2. ASSUME NEW b \in Batches, BatchStep(b), ~Confirm(b)
      PROVE  posting[l].status = "confirmed" /\ posting'[l].entry = posting[l].entry
  <2>1. posting[l] \in Intents /\ posting \in [Lines -> Intents]
    BY DEF TypeOK
  <2>2. CASE UNCHANGED posting
    BY <2>2
  <2>3. CASE Intent(b)
    BY <2>1, <2>3, CountedIntent DEF Intent
  <2>4. CASE \E k \in Lines : posting' = [posting EXCEPT ![k].status = Flush(b, k, "failed")]
    BY <2>1, <2>4 DEF Flush, Intents
  <2>5. Refused(b) \/ ConfirmRefused(b) => UNCHANGED posting
          \/ \E k \in Lines : posting' = [posting EXCEPT ![k].status = Flush(b, k, "failed")]
    BY DEF Refused, ConfirmRefused, At
  <2> QED
    BY <1>2, <2>2, <2>3, <2>4, <2>5, Untouched
<1>3. ASSUME NEW b \in Batches, Confirm(b), posting'[l] # posting[l]
      PROVE  posting'[l].entry \in Entries /\ owner'[posting'[l].entry] = l
  <2>1. l = batch[b].line /\ At(b, "confirm")
    BY <1>3, OthersAlone DEF Confirm, BatchStep
  <2>2. batch[b].got \in Entries /\ owner[batch[b].got] = l
    BY <2>1 DEF TypeOK
  <2>3. posting'[l].entry = batch[b].got
    <3> DEFINE w == Flush(b, l, "confirmed")
    <3>1. posting' = [posting EXCEPT ![l].status = w, ![l].entry = batch[b].got]
      BY <1>3, <2>1 DEF Confirm
    <3> HIDE DEF w
    <3> QED BY <3>1 DEF TypeOK, Intents
  <2> QED BY <1>3, <2>2, <2>3 DEF Confirm
<1> QED
  BY <1>1, <1>2, <1>3 DEF Next, StrayArrives, Reprocess, Rematch, vars

LEMMA ConfirmedKept ==
  ASSUME TypeOK, StepInv, AloneInv, [Next]_vars, NEW l \in Lines,
         posting[l].status = "confirmed", "race" \notin excuse[l]
  PROVE  posting'[l] = posting[l]
<1>1. ASSUME NEW b \in Batches, BatchStep(b) PROVE posting'[l] = posting[l]
  <2>1. l # batch[b].line
    BY DEF AloneInv, Holds
  <2> QED BY <1>1, <2>1, OthersAlone
<1> QED
  BY <1>1 DEF Next, StrayArrives, Reprocess, Rematch, vars

-------------------------------------------------------------------------------
(* OnceInv: what a line that no excuse touched has at Omie.                 *)

Single(l) ==
  /\ stray[l] <= 1 /\ (stray[l] > 0 => ~Entered(l))
  /\ \A d, e \in Entries : owner[d] = l /\ owner[e] = l => d = e

LEMMA ExcusedIs ==
  ASSUME TypeOK, NEW l \in Lines, NEW why, Excused(l, why)
  PROVE  why \in excuse'[l]
  BY DEF TypeOK, Excused

\* A batch that takes up a line to send it finds nothing of it at Omie.
LEMMA TakenUnposted ==
  ASSUME TypeOK, StepInv, IntentBeforeEffect, AloneInv, OnceInv,
         NEW b \in Batches, batch[b].line = NoLine,
         NEW l \in Lines, l \in batch[b].todo, excuse[l] = {},
         batch[b].seen[l].status # "confirmed",
         Decision(batch[b].seen[l]) = "intent"
  PROVE  ~Posted(l)
<1> SUFFICES ASSUME Posted(l) PROVE FALSE
  OBVIOUS
<1>1. Holds(b, l) /\ batch[b].seen[l] = posting[l]
  BY DEF Holds, AloneInv
<1>2. Recorded(l)
  BY DEF IntentBeforeEffect, Posted, Recorded
<1>3. posting[l].status = "failed"
  BY <1>1, <1>2 DEF Recorded, Decision, TypeOK, Intents, Statuses
<1>4. PICK c \in Batches : Doing(c, l, {"confirm"})
  BY <1>3 DEF OnceInv
<1>5. c = b
  BY <1>1, <1>4 DEF AloneInv, Doing, Holds
<1> QED BY <1>4, <1>5, PostingConstants DEF Doing

\* A line that is not in the hand of the batch that moves.
LEMMA OnceOther ==
  ASSUME TypeOK, StepInv, IntentBeforeEffect, AloneInv, OnceInv,
         NEW b \in Batches, BatchStep(b),
         NEW l \in Lines, excuse[l] = {}, l # batch[b].line
  PROVE  /\ Single(l)'
         /\ \A c \in Batches : Doing(c, l, {"intent", "post"})' => ~Posted(l)'
         /\ Posted(l)' /\ posting'[l].status = "failed" =>
              \E c \in Batches : Doing(c, l, {"confirm"})' /\ ~batch'[c].asked
<1> USE PostingConstants
<1>1. /\ posting'[l] = posting[l] /\ stray'[l] = stray[l]
      /\ \A e \in Entries : owner'[e] = l <=> owner[e] = l
  BY OthersAlone
<1>2. \A c \in Batches \ {b} : batch'[c] = batch[c]
  BY Frame
<1>3. (Posted(l)' <=> Posted(l)) /\ (Entered(l)' <=> Entered(l))
  BY <1>1 DEF Posted, Entered
<1>4. Single(l)'
  BY <1>1, <1>3 DEF OnceInv, Single
<1>5. ASSUME NEW c \in Batches, Doing(c, l, {"intent", "post"})' PROVE ~Posted(l)'
  <2>1. CASE c # b
    BY <1>2, <1>3, <1>5, <2>1 DEF OnceInv, Doing
  <2>2. CASE c = b
    <3>1. ~BatchRead(b)
      BY <1>5, <2>2, ReadEffect DEF Doing
    <3>2. Takes(b)
      BY <1>5, <2>2, <3>1, Moves DEF BatchStep, Leaves, Keeps, Doing
    <3>3. /\ batch[b].line = NoLine /\ l \in batch[b].todo
          /\ batch[b].seen[l].status # "confirmed" /\ Decision(batch[b].seen[l]) = "intent"
      BY <1>5, <2>2, <3>2 DEF Takes, Doing, Decision
    <3> QED BY <1>3, <3>3, TakenUnposted
  <2> QED BY <2>1, <2>2
<1>6. ASSUME Posted(l)', posting'[l].status = "failed"
      PROVE  \E c \in Batches : Doing(c, l, {"confirm"})' /\ ~batch'[c].asked
  <2>1. PICK c \in Batches : Doing(c, l, {"confirm"}) /\ ~batch[c].asked
    BY <1>1, <1>3, <1>6 DEF OnceInv
  <2>2. batch'[c] = batch[c]
    BY <1>2, <2>1 DEF Doing
  <2> QED BY <2>1, <2>2 DEF Doing
<1> QED BY <1>4, <1>5, <1>6

\* The line in the hand of the batch that moves: nobody else has it, and if it
\* is posted and marked failed, this batch is about to confirm what it sent.
LEMMA OnceMine ==
  ASSUME TypeOK, StepInv, IntentBeforeEffect, AloneInv, OnceInv,
         NEW b \in Batches, BatchStep(b),
         NEW l \in Lines, excuse[l] = {}, excuse'[l] = {}, l = batch[b].line
  PROVE  /\ Single(l)'
         /\ \A c \in Batches : Doing(c, l, {"intent", "post"})' => ~Posted(l)'
         /\ Posted(l)' /\ posting'[l].status = "failed" =>
              \E c \in Batches : Doing(c, l, {"confirm"})' /\ ~batch'[c].asked
<1> USE PostingConstants
<1>1. Single(l) /\ stray[l] \in Nat
  BY DEF OnceInv, Single, TypeOK
<1>2. \A c \in Batches \ {b} : ~(batch'[c].line = l) /\ ~(batch[c].line = l)
  BY Frame DEF AloneInv, Holds
<1>3. Doing(b, l, {"intent", "post"}) => ~Posted(l)
  BY DEF OnceInv
<1>4. Posted(l) /\ posting[l].status = "failed" => Doing(b, l, {"confirm"}) /\ ~batch[b].asked
  BY <1>2 DEF OnceInv, Doing
<1>5. posting[l].status # "confirmed" /\ batch[b].seen[l].status # "confirmed"
  BY DEF AloneInv, Holds
<1>6. ASSUME UNCHANGED <<owner, stray>>
      PROVE  Single(l)' /\ (Posted(l)' <=> Posted(l))
  BY <1>1, <1>6 DEF Single, Posted, Entered
<1>7. ASSUME Leaves(b)
      PROVE  \A c \in Batches : ~Doing(c, l, {"intent", "post"})'
  BY <1>2, <1>7 DEF Leaves, Doing
<1>8. CASE Abort(b)
  <2>1. ~(Posted(l) /\ posting[l].status = "failed")
    <3>1. At(b, "confirm") /\ posting[l].status = "failed" => Excused(l, "failed")
      BY <1>8 DEF Abort
    <3> QED BY <1>4, <3>1, ExcusedIs DEF At, Doing
  <2> QED BY <1>6, <1>7, <1>8, <2>1, Moves DEF Abort
<1>9. CASE AskFound(b)
  <2>1. ~(Posted(l) /\ posting[l].status = "failed")
    BY <1>4, <1>9 DEF AskFound, At, Doing
  <2>2. \A c \in Batches : ~Doing(c, l, {"intent", "post"})'
    BY <1>2, <1>9, Moves DEF Keeps, Doing
  <2> QED BY <1>6, <1>9, <2>1, <2>2 DEF AskFound
<1>10. CASE AskAbsent(b)
  <2>1. ~Entered(l) /\ ~(stray[l] > 0)
    BY <1>10 DEF AskAbsent, Excused, TypeOK
  <2> QED BY <1>6, <1>10, <2>1 DEF AskAbsent, Posted
<1>11. CASE AskInconclusive(b)
  <2>1. ~(Posted(l) /\ posting[l].status = "failed")
    BY <1>4, <1>11 DEF AskInconclusive, At, Doing
  <2> QED BY <1>6, <1>7, <1>11, <2>1, Moves DEF AskInconclusive
<1>12. CASE Intent(b) \/ Refused(b)
  <2>1. UNCHANGED <<owner, stray>> /\ Doing(b, l, {"intent", "post"})
    BY <1>12 DEF Intent, Refused, At, Doing
  <2> QED BY <1>3, <1>6, <2>1
<1>13. CASE Answered(b)
  <2>1. PICK e \in Entries : Create(e, l)
    BY <1>13 DEF Answered
  <2>2. ~Entered(l) /\ ~(stray[l] > 0)
    BY <1>3, <1>13 DEF Answered, At, Doing, Posted
  <2>3. /\ UNCHANGED <<stray, posting>>
        /\ \A d \in Entries : owner'[d] = l => d = e
    BY <1>13, <2>1, <2>2 DEF Answered, Create, Entered, TypeOK
  <2>4. Doing(b, l, {"confirm"})' /\ ~batch'[b].asked
    BY <1>13, Moves DEF Keeps, Doing
  <2>5. \A c \in Batches : ~Doing(c, l, {"intent", "post"})'
    BY <1>2, <2>4 DEF Doing
  <2> QED BY <1>1, <2>2, <2>3, <2>4, <2>5 DEF Single, Entered
<1>14. CASE Lost(b)
  <2>1. ~Entered(l) /\ ~(stray[l] > 0) /\ stray[l] = 0
    BY <1>1, <1>3, <1>14 DEF Lost, At, Doing, Posted
  <2>2. PICK again \in {FALSE, batch[b].tries + 1 < HttpTries} :
          LET why == (IF again THEN {"retry"} ELSE {})
                     \cup (IF posting[l].status = "failed" THEN {"failed"} ELSE {})
          IN /\ \/ UNCHANGED <<owner, stray, excuse>>
                \/ /\ \E e \in Entries : Create(e, l)
                   /\ excuse' = [excuse EXCEPT ![l] = @ \cup why]
                   /\ UNCHANGED stray
                \/ /\ stray[l] < MaxStray
                   /\ stray' = [stray EXCEPT ![l] = @ + 1]
                   /\ excuse' = [excuse EXCEPT ![l] = @ \cup why]
                   /\ UNCHANGED owner
             /\ batch' = IF again THEN [batch EXCEPT ![b].tries = @ + 1]
                                  ELSE [batch EXCEPT ![b] = Resting]
    BY <1>14 DEF Lost
  <2>3. UNCHANGED posting
    BY <1>14 DEF Lost
  <2>4. CASE UNCHANGED <<owner, stray>>
    BY <1>6, <2>1, <2>4 DEF Posted
  <2>5. CASE ~UNCHANGED <<owner, stray>>
    <3>1. ~again /\ posting[l].status # "failed"
      <4> DEFINE why == (IF again THEN {"retry"} ELSE {})
                        \cup (IF posting[l].status = "failed" THEN {"failed"} ELSE {})
      <4>1. excuse' = [excuse EXCEPT ![l] = @ \cup why]
        BY <2>2, <2>5
      <4> HIDE DEF why
      <4>2. why = {}
        BY <4>1 DEF TypeOK
      <4>3. "retry" \notin why /\ "failed" \notin why
        BY <4>2
      <4>4. ~again
        BY <4>3 DEF why
      <4> QED BY <4>3, <4>4 DEF why
    <3>2. Leaves(b)
      BY <2>2, <3>1, RestLeaves
    <3>3. Single(l)'
      <4>1. CASE UNCHANGED owner /\ stray' = [stray EXCEPT ![l] = @ + 1]
        BY <1>1, <2>1, <4>1 DEF Single, Entered, TypeOK
      <4>2. CASE UNCHANGED stray /\ \E e \in Entries : Create(e, l)
        BY <1>1, <2>1, <4>2 DEF Single, Entered, Create, TypeOK
      <4> QED BY <2>2, <2>5, <4>1, <4>2
    <3> QED BY <1>7, <2>3, <3>1, <3>2, <3>3
  <2> QED BY <2>4, <2>5
<1>15. CASE Confirm(b)
  <2>1. Flush(b, l, "confirmed") = "confirmed"
    BY <1>5 DEF Flush
  <2>2. posting'[l].status = "confirmed"
    BY <1>15, <2>1 DEF Confirm, TypeOK, Intents
  <2> QED BY <1>6, <1>7, <1>15, <2>2, Moves DEF Confirm
<1>16. CASE ConfirmRefused(b)
  <2>1. batch[b].asked /\ UNCHANGED posting
    <3>1. ~batch[b].asked => Excused(l, "failed")
      BY <1>16 DEF ConfirmRefused
    <3>2. batch[b].asked
      BY <3>1, ExcusedIs
    <3> QED BY <1>16, <3>2 DEF ConfirmRefused
  <2>2. ~(Posted(l) /\ posting[l].status = "failed")
    BY <1>4, <2>1, SMTT(30)
  <2> QED BY <1>6, <1>7, <1>16, <2>1, <2>2, Moves DEF ConfirmRefused
<1>17. ~BatchRead(b) /\ ~Decide(b)
  BY ReadEffect, Zenon DEF Holds, Decide
<1> QED
  BY <1>8, <1>9, <1>10, <1>11, <1>12, <1>13, <1>14, <1>15, <1>16, <1>17 DEF BatchStep

LEMMA OnceStep ==
  ASSUME TypeOK, StepInv, IntentBeforeEffect, AloneInv, OnceInv, [Next]_vars
  PROVE  OnceInv'
<1> SUFFICES ASSUME NEW l \in Lines, excuse'[l] = {}
             PROVE  /\ Single(l)'
                    /\ \A b \in Batches : Doing(b, l, {"intent", "post"})' => ~Posted(l)'
                    /\ Posted(l)' /\ posting'[l].status = "failed" =>
                         \E b \in Batches : Doing(b, l, {"confirm"})' /\ ~batch'[b].asked
  BY DEF OnceInv, Single
<1>1. excuse[l] = {}
  BY Remembers
<1>2. ASSUME NEW b \in Batches, BatchStep(b)
      PROVE  /\ Single(l)'
             /\ \A c \in Batches : Doing(c, l, {"intent", "post"})' => ~Posted(l)'
             /\ Posted(l)' /\ posting'[l].status = "failed" =>
                  \E c \in Batches : Doing(c, l, {"confirm"})' /\ ~batch'[c].asked
  BY <1>1, <1>2, OnceOther, OnceMine
<1>3. /\ Single(l)
      /\ \A b \in Batches : Doing(b, l, {"intent", "post"}) => ~Posted(l)
      /\ Posted(l) /\ posting[l].status = "failed" =>
           \E b \in Batches : Doing(b, l, {"confirm"}) /\ ~batch[b].asked
  BY <1>1 DEF OnceInv, Single
<1>4. CASE UNCHANGED <<owner, stray, posting, batch>>
  BY <1>3, <1>4 DEF Single, Posted, Entered, Doing
<1>5. ASSUME NEW k \in Lines, StrayArrives(k)
      PROVE  Single(l)' /\ (Posted(l)' => Posted(l)) /\ UNCHANGED <<posting, batch>>
  <2>1. CASE k = l
    BY <1>3, <1>5, <2>1 DEF StrayArrives, Create, Single, Posted, Entered, TypeOK
  <2>2. CASE k # l
    BY <1>3, <1>5, <2>2, PostingConstants
       DEF StrayArrives, Create, Single, Posted, Entered, TypeOK
  <2> QED BY <1>5, <2>1, <2>2 DEF StrayArrives
<1> QED
  BY <1>2, <1>3, <1>4, <1>5 DEF Next, Reprocess, Rematch, vars, Doing

-------------------------------------------------------------------------------
(* The theorems.                                                            *)

PostingInv ==
  TypeOK /\ StepInv /\ IntentBeforeEffect /\ ConfirmedIsThere /\ AloneInv /\ OnceInv

LEMMA PostingInit == Init => PostingInv
<1> SUFFICES ASSUME Init PROVE PostingInv
  OBVIOUS
<1> USE PostingConstants
<1>1. Unknown \in Intents /\ Unknown.status = "none"
  BY DEF Unknown, Intents, Statuses
<1>2. \A b \in Batches : /\ batch[b].pc = "next" /\ batch[b].line = NoLine
                         /\ batch[b].todo = {} /\ ~batch[b].asked
  BY DEF Init, Resting
<1>3. TypeOK
  BY <1>1, <1>2, RestingPlace DEF Init, TypeOK, At
<1>4. \A l \in Lines : ~Posted(l) /\ posting[l].status = "none"
  BY <1>1 DEF Init, Posted, Entered
<1>5. StepInv /\ AloneInv
  BY <1>2 DEF StepInv, AloneInv, Doing, Holds
<1>6. IntentBeforeEffect /\ ConfirmedIsThere
  BY <1>4 DEF IntentBeforeEffect, ConfirmedIsThere, Posted
<1>7. OnceInv
  BY <1>4 DEF OnceInv, Init, Posted, Entered
<1> QED BY <1>3, <1>5, <1>6, <1>7 DEF PostingInv

LEMMA PostingStep == PostingInv /\ [Next]_vars => PostingInv'
  BY TypeStep, StepInvStep, IntentStep, ThereStep, AloneStep, OnceStep DEF PostingInv

LEMMA PostingAlways == Spec => []PostingInv
  BY PostingInit, PostingStep, PTL DEF Spec

\* Every variable keeps its type; an entry about to be confirmed carries the key of
\* the line it closes, and closes no other.
THEOREM PostingTypeCorrect == Spec => []TypeOK
<1>1. PostingInv => TypeOK
  BY DEF PostingInv
<1> QED BY <1>1, PostingAlways, PTL

\* Whatever Omie holds or may still accept for a line was recorded and committed
\* before it was sent, however many batches run and wherever each of them stops.
THEOREM IntentIsDurable == Spec => []IntentBeforeEffect
<1>1. PostingInv => IntentBeforeEffect
  BY DEF PostingInv
<1> QED BY <1>1, PostingAlways, PTL

\* An intent that says `confirmed` names an entry that Omie has under that key.
THEOREM ConfirmedEntryExists == Spec => []ConfirmedIsThere
<1>1. PostingInv => ConfirmedIsThere
  BY DEF PostingInv
<1> QED BY <1>1, PostingAlways, PTL

\* Outside the four named circumstances a line has at most one entry in Omie, for
\* any number of lines, batches, attempts and answers lost.
THEOREM PostedAtMostOnce == Spec => []AtMostOnce
<1>1. PostingInv => AtMostOnce
  BY DEF PostingInv, OnceInv, AtMostOnce
<1> QED BY <1>1, PostingAlways, PTL

\* What is confirmed stays confirmed, with its entry, unless two batches raced.
THEOREM ConfirmedIsFinal == Spec => ConfirmedStays
<1>1. PostingInv /\ [Next]_vars =>
        [\A l \in Lines : posting[l].status = "confirmed" /\ "race" \notin excuse[l]
           => posting'[l] = posting[l]]_vars
  BY ConfirmedKept DEF PostingInv
<1> QED BY <1>1, PostingAlways, PTL DEF Spec, ConfirmedStays
=============================================================================
