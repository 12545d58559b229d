---------------------------- MODULE DirectPosting ----------------------------
(***************************************************************************)
(* Sending the unmatched card purchases of one reconciliation to Omie, the *)
(* `direto` way (IncluirLancCC): the program's own record of each intent,  *)
(* the batches that read it and send, and Omie, which accepts a POST       *)
(* whether or not its answer arrives and is not known to refuse a second   *)
(* one with the same key.                                                  *)
(*                                                                         *)
(* A batch is a request.  It loads lines and intents once and keeps those  *)
(* objects (expire_on_commit=False) while it sends line after line; other  *)
(* batches, a reprocess and the landing of its matching run in between.    *)
(***************************************************************************)
EXTENDS Naturals, FiniteSets

CONSTANTS
  Lines,        \* the purchases
  Batches,      \* requests at work at once
  Entries,      \* the ids Omie may give; bounds how many POSTs it accepts
  HttpTries,    \* POSTs that one call of the client makes before giving up
  MaxAttempts,  \* bound on the sends of a line
  MaxStray,     \* bound on the POSTs of a line still travelling unattended
  NoLine, NoEntry

ASSUME PostingConstants ==
  /\ HttpTries \in Nat \ {0}
  /\ MaxAttempts \in Nat /\ MaxStray \in Nat
  /\ NoLine \notin Lines /\ NoEntry \notin Entries

VARIABLES
  owner,    \* Omie: the line whose key the entry carries, NoLine if not created
  stray,    \* POSTs their sender gave up on and Omie may still accept
  posting,  \* reconciliation_omie_postings, by line
  link,     \* file_entries.omie_lancamento_id
  batch,    \* where each request is
  excuse    \* history: what happened to a line that the protocol cannot absorb

vars == <<owner, stray, posting, link, batch, excuse>>

Statuses == {"none", "pending", "confirmed", "failed"}
Excuses == {"race", "retry", "late", "failed"}

Unknown == [status |-> "none", attempts |-> 0, entry |-> NoEntry]
Resting == [pc |-> "next", todo |-> {}, line |-> NoLine, tries |-> 0,
            got |-> NoEntry, asked |-> FALSE, seen |-> [l \in Lines |-> Unknown]]

\* b still has the line ahead of it, or in its hands.
Holds(b, l) == l \in batch[b].todo \cup {batch[b].line}

At(b, pc) == batch[b].pc = pc /\ batch[b].line \in Lines

Entered(l) == \E e \in Entries : owner[e] = l

Excused(l, why) == excuse' = [excuse EXCEPT ![l] = @ \cup {why}]

Init ==
  /\ owner = [e \in Entries |-> NoLine]
  /\ stray = [l \in Lines |-> 0]
  /\ posting = [l \in Lines |-> Unknown]
  /\ link = [l \in Lines |-> NoEntry]
  /\ batch = [b \in Batches |-> Resting]
  /\ excuse = [l \in Lines |-> {}]

-------------------------------------------------------------------------------
(* The batch: one read, then its lines one after the other.                 *)

\* Lines already linked are answered `ja_lancada` from this very read.
BatchRead(b) ==
  /\ batch[b] = Resting
  /\ \E chosen \in SUBSET {l \in Lines : link[l] = NoEntry} :
       /\ chosen # {}
       /\ batch' = [batch EXCEPT ![b].todo = chosen,
            ![b].seen = [l \in Lines |-> IF l \in chosen THEN posting[l] ELSE Unknown]]
       /\ excuse' = [l \in Lines |->
            IF l \in chosen /\ \E c \in Batches \ {b} : Holds(c, l)
            THEN excuse[l] \cup {"race"} ELSE excuse[l]]
  /\ UNCHANGED <<owner, stray, posting, link>>

Goto(b, pc) == batch' = [batch EXCEPT ![b].pc = pc]

\* Done with the line in hand; with nothing left the response goes out.
NextLine(b) ==
  batch' = [batch EXCEPT ![b] =
    IF @.todo = {} THEN Resting
    ELSE [Resting EXCEPT !.todo = batch[b].todo,
                         !.seen = [batch[b].seen EXCEPT ![batch[b].line] = Unknown]]]

\* An exception leaves post_batch's loop, or the process dies.  What was
\* committed stays: a refusal, too, that a later POST has made untrue.
Abort(b) ==
  /\ batch[b] # Resting
  /\ batch' = [batch EXCEPT ![b] = Resting]
  /\ IF At(b, "confirm") /\ posting[batch[b].line].status = "failed"
     THEN Excused(batch[b].line, "failed") ELSE UNCHANGED excuse
  /\ UNCHANGED <<owner, stray, posting, link>>

NeverAsks(mine) == "intent"

\* The program's own state decides first: a confirmed line is not sent, one
\* sent without an answer is asked about.
Decision(mine) ==
  IF mine.status = "pending" /\ mine.attempts > 0 THEN "ask" ELSE "intent"

DecideForgetful(b) ==
  /\ batch[b].line = NoLine
  /\ \E l \in batch[b].todo :
       batch' = [batch EXCEPT ![b].todo = @ \ {l}, ![b].line = l,
                              ![b].pc = Decision(batch[b].seen[l])]
  /\ UNCHANGED <<owner, stray, posting, link, excuse>>

Decide(b) ==
  /\ batch[b].line = NoLine
  /\ \E l \in batch[b].todo :
       LET mine == batch[b].seen[l]
           left == batch[b].todo \ {l}
       IN batch' = [batch EXCEPT ![b] =
            IF mine.status = "confirmed"
            THEN IF left = {} THEN Resting
                 ELSE [@ EXCEPT !.todo = left, !.seen[l] = Unknown]
            ELSE [@ EXCEPT !.todo = left, !.line = l, !.pc = Decision(mine)]]
  /\ UNCHANGED <<owner, stray, posting, link, excuse>>

\* _reconcile: the bank statement, searched by key.  Without an entry the answer
\* is `absent` only if some entry shows its key; otherwise, as when the field is
\* missing everywhere, it is inconclusive and the line is not sent.
AskFoundAny(b) ==
  /\ At(b, "ask")
  /\ \E e \in Entries :
       /\ owner[e] # NoLine
       /\ batch' = [batch EXCEPT ![b].pc = "confirm", ![b].got = e, ![b].asked = TRUE]
  /\ UNCHANGED <<owner, stray, posting, link, excuse>>

AskFound(b) ==
  /\ At(b, "ask")
  /\ \E e \in Entries :
       /\ owner[e] = batch[b].line
       /\ batch' = [batch EXCEPT ![b].pc = "confirm", ![b].got = e, ![b].asked = TRUE]
  /\ UNCHANGED <<owner, stray, posting, link, excuse>>

AskAbsent(b) ==
  /\ At(b, "ask")
  /\ ~Entered(batch[b].line)
  /\ Goto(b, "intent")
  /\ IF stray[batch[b].line] > 0
     THEN Excused(batch[b].line, "late") ELSE UNCHANGED excuse
  /\ UNCHANGED <<owner, stray, posting, link>>

AskInconclusive(b) ==
  /\ At(b, "ask")
  /\ NextLine(b)
  /\ UNCHANGED <<owner, stray, posting, link, excuse>>

IntentUncommitted(b) ==
  /\ At(b, "intent")
  /\ Goto(b, "post")
  /\ UNCHANGED <<owner, stray, link, posting, excuse>>

\* The insert does nothing where a row exists, and leaves its status as it is.
Counted(mine) ==
  [status |-> IF mine.status = "none" THEN "pending" ELSE mine.status,
   attempts |-> mine.attempts + 1, entry |-> mine.entry]

\* register_intent, increment_attempts and the commit before the POST.
Intent(b) ==
  /\ At(b, "intent")
  /\ LET l == batch[b].line
         mine == batch[b].seen[l]
     IN /\ posting[l].attempts < MaxAttempts
        /\ posting' = [posting EXCEPT ![l] = Counted(@)]
        /\ batch' = [batch EXCEPT ![b].pc = "post",
             ![b].seen[l] = IF mine.status = "none" THEN posting'[l] ELSE mine]
  /\ UNCHANGED <<owner, stray, link, excuse>>

-------------------------------------------------------------------------------
(* One POST of the client's call, and its answer.                           *)

Create(e, l) ==
  /\ owner[e] = NoLine
  /\ owner' = [owner EXCEPT ![e] = l]

Answered(b) ==
  /\ At(b, "post")
  /\ \E e \in Entries :
       /\ Create(e, batch[b].line)
       /\ batch' = [batch EXCEPT ![b].pc = "confirm", ![b].got = e]
  /\ UNCHANGED <<stray, posting, link, excuse>>

\* The session writes a column only where it differs from what it had loaded.
Flush(b, l, status) ==
  IF batch[b].seen[l].status = status THEN posting[l].status ELSE status

\* A faultstring: nothing was created; mark_failed commits.
Refused(b) ==
  /\ At(b, "post")
  /\ LET l == batch[b].line
     IN posting' = [posting EXCEPT ![l].status = Flush(b, l, "failed")]
  /\ NextLine(b)
  /\ UNCHANGED <<owner, stray, link, excuse>>

\* No answer (timeout or a 5xx): Omie accepted, will accept, or never will.  The
\* call tries again unless that was the last try or the process dies with it;
\* the intent stays as it is.
Lost(b) ==
  /\ At(b, "post")
  /\ \E again \in {FALSE, batch[b].tries + 1 < HttpTries} :
       LET l == batch[b].line
           why == (IF again THEN {"retry"} ELSE {})
                  \cup (IF posting[l].status = "failed" THEN {"failed"} ELSE {})
       IN /\ \/ UNCHANGED <<owner, stray, excuse>>
             \/ /\ \E e \in Entries : Create(e, l)
                /\ excuse' = [excuse EXCEPT ![l] = @ \cup why]
                /\ UNCHANGED stray
             \/ /\ stray[l] < MaxStray
                /\ stray' = [stray EXCEPT ![l] = @ + 1]
                /\ excuse' = [excuse EXCEPT ![l] = @ \cup why]
                /\ UNCHANGED owner
          /\ batch' = IF again THEN [batch EXCEPT ![b].tries = @ + 1]
                               ELSE [batch EXCEPT ![b] = Resting]
  /\ UNCHANGED <<posting, link>>

\* Omie gets to a POST nobody waits for any more.
StrayArrives(l) ==
  /\ stray[l] > 0
  /\ stray' = [stray EXCEPT ![l] = @ - 1]
  /\ (\E e \in Entries : Create(e, l)) \/ UNCHANGED owner
  /\ UNCHANGED <<posting, link, batch, excuse>>

-------------------------------------------------------------------------------
(* Confirmation: the intent and the line in one transaction.                *)

LinkedNowhere(e, l) == FALSE

LinkedElsewhere(e, l) == \E m \in Lines \ {l} : link[m] = e

Confirm(b) ==
  /\ At(b, "confirm")
  /\ LET l == batch[b].line
         e == batch[b].got
     IN /\ ~LinkedElsewhere(e, l)
        /\ posting' = [posting EXCEPT ![l].status = Flush(b, l, "confirmed"),
                                      ![l].entry = e]
        /\ link' = [link EXCEPT ![l] = e]
  /\ NextLine(b)
  /\ UNCHANGED <<owner, stray, excuse>>

\* The entry exists but already closes another line.  After a send the intent
\* is marked failed; after a question the exception leaves the batch.
ConfirmRefused(b) ==
  /\ At(b, "confirm")
  /\ LET l == batch[b].line
     IN /\ LinkedElsewhere(batch[b].got, l)
        /\ IF batch[b].asked
           THEN /\ batch' = [batch EXCEPT ![b] = Resting]
                /\ UNCHANGED <<posting, excuse>>
           ELSE /\ posting' = [posting EXCEPT ![l].status = Flush(b, l, "failed")]
                /\ Excused(l, "failed")
                /\ NextLine(b)
  /\ UNCHANGED <<owner, stray, link>>

-------------------------------------------------------------------------------
(* The reconciliation around it (see ReconciliationSession).                *)

\* The reset forgets every link and no intent.
Reprocess ==
  /\ \E l \in Lines : link[l] # NoEntry
  /\ link' = [l \in Lines |-> NoEntry]
  /\ UNCHANGED <<owner, stray, posting, batch, excuse>>

\* The landing of a run: lines matched, by value and date, to entries in Omie;
\* the partial unique index keeps an entry to one line.
Rematch ==
  /\ \E m \in [Lines -> {e \in Entries : owner[e] # NoLine} \cup {NoEntry}] :
       link' = [l \in Lines |-> IF m[l] = NoEntry THEN link[l] ELSE m[l]]
  /\ link' # link
  /\ \A k, l \in Lines : k # l /\ link'[k] = link'[l] => link'[k] = NoEntry
  /\ UNCHANGED <<owner, stray, posting, batch, excuse>>

BatchStep(b) ==
  \/ BatchRead(b) \/ Decide(b) \/ Abort(b)
  \/ AskFound(b) \/ AskAbsent(b) \/ AskInconclusive(b)
  \/ Intent(b) \/ Answered(b) \/ Refused(b) \/ Lost(b)
  \/ Confirm(b) \/ ConfirmRefused(b)

Next ==
  \/ \E b \in Batches : BatchStep(b)
  \/ \E l \in Lines : StrayArrives(l)
  \/ Reprocess \/ Rematch

Spec == Init /\ [][Next]_vars

-------------------------------------------------------------------------------
Intents == [status : Statuses, attempts : Nat, entry : Entries \cup {NoEntry}]

Places == [pc : {"next", "ask", "intent", "post", "confirm"}, todo : SUBSET Lines,
           line : Lines \cup {NoLine}, tries : Nat, got : Entries \cup {NoEntry},
           asked : BOOLEAN, seen : [Lines -> Intents]]

\* Types; an entry a batch is about to confirm, or confirmed, carries the key of
\* that very line, and an entry closes one line at most.
TypeOK ==
  /\ owner \in [Entries -> Lines \cup {NoLine}]
  /\ stray \in [Lines -> Nat]
  /\ posting \in [Lines -> Intents]
  /\ link \in [Lines -> Entries \cup {NoEntry}]
  /\ batch \in [Batches -> Places]
  /\ excuse \in [Lines -> SUBSET Excuses]
  /\ \A b \in Batches : At(b, "confirm") =>
       batch[b].got \in Entries /\ owner[batch[b].got] = batch[b].line
  /\ \A k, l \in Lines : k # l /\ link[k] = link[l] => link[k] = NoEntry

\* The durability barrier: whatever Omie holds, or may still accept, for a line
\* was recorded before, so that no crash makes the program forget it asked.
IntentBeforeEffect ==
  \A l \in Lines : Entered(l) \/ stray[l] > 0 =>
    posting[l].status # "none" /\ posting[l].attempts > 0

\* A posting says `confirmed` only of an entry that is in Omie under that key.
ConfirmedIsThere ==
  \A l \in Lines : posting[l].status = "confirmed" =>
    posting[l].entry \in Entries /\ owner[posting[l].entry] = l

\* Unless one of the four named things happened to the line, it has at most one
\* entry in Omie: across timeouts, crashes at any step, repeated batches and
\* reprocessings that wipe the links.
AtMostOnce ==
  \A l \in Lines : excuse[l] = {} =>
    \A d, e \in Entries : owner[d] = l /\ owner[e] = l => d = e

\* The deduplication is never lost: a confirmed intent stays as it is, whatever
\* reprocessing does, unless two batches had the line in hand at once.
ConfirmedStays ==
  [][\A l \in Lines : posting[l].status = "confirmed" /\ "race" \notin excuse[l]
        => posting'[l] = posting[l]]_vars

\* service.py: "O guardrail da sprint é **zero lançamento duplicado**".
ZeroDuplicates ==
  \A l \in Lines : \A d, e \in Entries : owner[d] = l /\ owner[e] = l => d = e

-------------------------------------------------------------------------------
(* What makes the above inductive.                                          *)

Posted(l) == Entered(l) \/ stray[l] > 0
Recorded(l) == posting[l].status # "none" /\ posting[l].attempts > 0
Doing(b, l, pcs) == batch[b].line = l /\ batch[b].pc \in pcs

\* A batch sends only what it has recorded, and asks before it has sent.
StepInv ==
  \A b \in Batches :
    /\ batch[b].line = NoLine <=> batch[b].pc = "next"
    /\ batch[b].line \notin batch[b].todo
    /\ batch[b].pc # "confirm" => ~batch[b].asked
    /\ \A l \in Lines : Doing(b, l, {"post"}) => Recorded(l)

\* Without a race one batch has the line, what it loaded is still what is stored
\* until it writes itself, and it works on nothing that is confirmed.
AloneInv ==
  \A l \in Lines : "race" \notin excuse[l] =>
    \A b \in Batches : Holds(b, l) =>
      /\ \A c \in Batches : Holds(c, l) => b = c
      /\ l \in batch[b].todo \/ Doing(b, l, {"ask", "intent"}) =>
           batch[b].seen[l] = posting[l]
      /\ batch[b].line = l =>
           posting[l].status # "confirmed" /\ batch[b].seen[l].status # "confirmed"

\* A line without an excuse: nothing of it is at Omie when it is sent, at most
\* one thing is afterwards, and an intent says `failed` of something that is
\* there only while the batch that just sent it is about to confirm it.
OnceInv ==
  \A l \in Lines : excuse[l] = {} =>
    /\ stray[l] <= 1 /\ (stray[l] > 0 => ~Entered(l))
    /\ \A d, e \in Entries : owner[d] = l /\ owner[e] = l => d = e
    /\ \A b \in Batches : Doing(b, l, {"intent", "post"}) => ~Posted(l)
    /\ Posted(l) /\ posting[l].status = "failed" =>
         \E b \in Batches : Doing(b, l, {"confirm"}) /\ ~batch[b].asked
===============================================================================
