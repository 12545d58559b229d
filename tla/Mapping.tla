-------------------------------- MODULE Mapping --------------------------------
(***************************************************************************)
(* The `de-para` of one client to one destination: decisions that say, from *)
(* a month on, where the movements of a category go, and materialisations, *)
(* the numbered and immutable results of applying them to one month.       *)
(*                                                                         *)
(* A request reads and writes in one transaction (READ COMMITTED); every   *)
(* writer takes an advisory lock of the client and destination and keeps   *)
(* it up to its commit.  What a request read before the lock stays in its  *)
(* session: a second SELECT returns the objects of the first as they were. *)
(***************************************************************************)
EXTENDS Naturals, FiniteSets, FiniteSetsExt

CONSTANTS
  Keys,        \* categories of one origin
  Targets,     \* what a decision may say: a target of the destination, or `nao_mapear`
  LastMonth,   \* bound on the clock
  MaxMade,     \* bound on the materialisations
  Requests,
  None

VARIABLES
  month,     \* current_competence(), the server's
  decision,  \* client_mapping_decisions, by category and effective_from; ids are never reused
  made,      \* client_mapping_materializations with their items
  request    \* where each request is

vars == <<month, decision, made, request>>

Months == 1..LastMonth
NoDecision == [k \in Keys |-> [s \in Months |-> None]]
NoEffect == [k \in Keys |-> None]
Rows == [target : Targets, origin : {"herdada", "confirmada"}]
Lines == [start : Months, target : Targets]

ASSUME MappingConstants ==
  /\ LastMonth \in Nat \ {0}
  /\ None \notin Rows \cup Targets \cup Lines

Idle == [pc |-> "idle", start |-> 1, today |-> 1, effect |-> NoEffect, resolve |-> {},
         seen |-> NoDecision, bulk |-> FALSE, late |-> FALSE, items |-> <<>>, version |-> 0]

Init ==
  /\ month \in Months
  /\ decision = NoDecision
  /\ made = {}
  /\ request = [r \in Requests |-> Idle]

-------------------------------------------------------------------------------
(* vigencia.py.  `rows` are the decisions of one category.                  *)

Starts(rows) == {s \in Months : rows[s] # None}

\* resolve_vigente: where the decision in force in c starts; 0 without one.
Vigente(rows, c) == Max({0} \cup {s \in Starts(rows) : s <= c})

Line(rows, c) ==
  IF Vigente(rows, c) = 0 THEN None
  ELSE [start |-> Vigente(rows, c), target |-> rows[Vigente(rows, c)].target]

\* next_start_after, as a set: all the later ones.
StartsAfter(rows, s) == {t \in Starts(rows) : t > s}

\* affected_competences: the past months that a decision from s would govern.
Affected(rows, s, today) ==
  {c \in Months : s <= c /\ c < today /\ \A t \in StartsAfter(rows, s) : c < t}

GuardedPast(rows, s, today) == IF s >= today THEN {} ELSE Affected(rows, s, today)

\* What _guard_retroactivity looks up: those, and the current one when governed too.
Guarded(rows, s, today) ==
  IF s >= today THEN {}
  ELSE Affected(rows, s, today)
       \cup {c \in {today} : \A t \in StartsAfter(rows, s) : t > today}

\* apply_mapping: the items of month c over the categories present in its base.
Applied(decisions, present, c) == [k \in present |-> Line(decisions[k], c)]

\* A month before every decision of the destination is refused.
Applicable(decisions, c) ==
  LET all == UNION {Starts(decisions[k]) : k \in Keys} IN all = {} \/ \E s \in all : s <= c

-------------------------------------------------------------------------------
Locked == {"write", "inherit", "materialise"}

\* lock_client_destination would not wait.
FreeAlways == TRUE

Free == \A r \in Requests : request[r].pc \notin Locked

\* materialized_competences.
Delivered == {m.competence : m \in made}

LatestOfAll(c) == Max({0} \cup {m.version : m \in made})

LatestVersion(c) == Max({0} \cup {m.version : m \in {n \in made : n.competence = c}})

At(r, pc) == request[r].pc = pc
End(r) == request' = [request EXCEPT ![r] = Idle]

\* What r sees: its session's objects first.
Seen(r, k) ==
  [s \in Months |-> IF request[r].seen[k][s] # None THEN request[r].seen[k][s] ELSE decision[k][s]]

-------------------------------------------------------------------------------
(* write_decisions: one decision, a batch or an import.                     *)

Duplicate(rows, s, to) == rows[s] # None /\ rows[s].origin = "confirmada" /\ rows[s].target # to

\* Already said by a person, with nothing later that would take over.
Unchanged(rows, s, to) ==
  LET v == Vigente(rows, s) IN
  /\ v # 0 /\ rows[v].origin = "confirmada" /\ rows[v].target = to
  /\ v = s \/ StartsAfter(rows, s) = {}

\* The categories whose decisions the guard looks at.
TouchedNew(r, s, effect) ==
  {k \in Keys : effect[k] # None /\ Seen(r, k)[s] = None /\ ~Unchanged(Seen(r, k), s, effect[k])}

Touched(r, s, effect) ==
  {k \in Keys : effect[k] # None /\ ~Unchanged(Seen(r, k), s, effect[k])}

\* _guard_retroactivity; a person who is asked to confirm does, or there is no write.
Allowed(r, s, touched) ==
  \A k \in touched : Guarded(Seen(r, k), s, month) \cap Delivered = {}

Write(r, s, effect) ==
  LET written == {k \in Keys : effect[k] # None /\ ~Unchanged(Seen(r, k), s, effect[k])} IN
  /\ Free
  /\ \A k \in Keys : effect[k] # None => ~Duplicate(Seen(r, k), s, effect[k])
  /\ written # {}
  /\ Allowed(r, s, Touched(r, s, effect))
  /\ request' = [request EXCEPT ![r] = [@ EXCEPT !.pc = "write", !.start = s, !.today = month,
       !.effect = [k \in Keys |-> IF k \in written THEN effect[k] ELSE None],
       !.resolve = {k \in written : Seen(r, k)[s] # None}]]
  /\ UNCHANGED <<month, decision, made>>

Decide(r) ==
  /\ At(r, "idle")
  /\ \E s \in Months : \E effect \in [Keys -> Targets \cup {None}] : Write(r, s, effect)

\* Requests that have read decisions without the lock are late from now on.
Overtake(r) ==
  [q \in Requests |-> IF q = r THEN Idle
     ELSE IF At(q, "confirm") THEN [request[q] EXCEPT !.late = TRUE] ELSE request[q]]

\* resolve_inherited's WHERE, and the UNIQUE of insert_decisions.
StillOpenUnasked(r, k) == TRUE

StillOpen(r, k) ==
  LET now == decision[k][request[r].start] IN
  IF k \in request[r].resolve THEN now.origin = "herdada" ELSE now = None

\* All of the batch or, with a 409, none of it.
WriteCommit(r) ==
  LET mine == {k \in Keys : request[r].effect[k] # None} IN
  /\ At(r, "write")
  /\ IF \A k \in mine : StillOpen(r, k)
     THEN /\ decision' = [k \in Keys |-> IF k \in mine
               THEN [decision[k] EXCEPT ![request[r].start] =
                       [target |-> request[r].effect[k], origin |-> "confirmada"]]
               ELSE decision[k]]
          /\ request' = Overtake(r)
     ELSE End(r) /\ UNCHANGED decision
  /\ UNCHANGED <<month, made>>

-------------------------------------------------------------------------------
(* confirm_inherited: reads without the lock, then writes what it read.     *)

\* resolve_vigentes, of the month that the confirmation starts in.
ProposedLatest(k, s) == Vigente(decision[k], LastMonth)

Proposed(k, s) == Vigente(decision[k], s)

\* The inherited decisions in force in s, or those of a code prefix.
Inherited(s) ==
  {k \in Keys : Proposed(k, s) # 0 /\ decision[k][Proposed(k, s)].origin = "herdada"}

ConfirmRead(r) ==
  /\ At(r, "idle")
  /\ \E s \in Months : \E chosen \in (SUBSET Inherited(s)) \ {{}} :
       request' = [request EXCEPT ![r] = [Idle EXCEPT !.pc = "confirm", !.start = s,
         !.bulk = TRUE, !.seen = decision,
         !.effect = [k \in Keys |-> IF k \in chosen
            THEN decision[k][Proposed(k, s)].target ELSE None]]]
  /\ UNCHANGED <<month, decision, made>>

ConfirmWrite(r) == At(r, "confirm") /\ Write(r, request[r].start, request[r].effect)

-------------------------------------------------------------------------------
(* inherit: proposals from the chart of accounts, where nobody has decided. *)

Decided(k) == Starts(decision[k]) # {}

Inherit(r) ==
  /\ At(r, "idle") /\ Free
  /\ \E s \in Months : \E chart \in [Keys -> Targets \cup {None}] :
       LET new == {k \in Keys : chart[k] # None /\ ~Decided(k)} IN
       /\ new # {}
       /\ Allowed(r, s, new)
       /\ request' = [request EXCEPT ![r] = [Idle EXCEPT !.pc = "inherit", !.start = s,
            !.today = month, !.effect = [k \in Keys |-> IF k \in new THEN chart[k] ELSE None]]]
  /\ UNCHANGED <<month, decision, made>>

\* insert_inherited: ON CONFLICT DO NOTHING.
InheritCommit(r) ==
  /\ At(r, "inherit")
  /\ decision' = [k \in Keys |->
       IF request[r].effect[k] # None /\ decision[k][request[r].start] = None
       THEN [decision[k] EXCEPT ![request[r].start] =
               [target |-> request[r].effect[k], origin |-> "herdada"]]
       ELSE decision[k]]
  /\ request' = Overtake(r)
  /\ UNCHANGED <<month, made>>

-------------------------------------------------------------------------------
(* preview and materialize.  What the base of a month holds is up to its    *)
(* syncs, which do not take the lock.                                       *)

Preview(r) ==
  /\ At(r, "idle")
  /\ \E c \in Months : \E present \in (SUBSET Keys) \ {{}} :
       /\ Applicable(decision, c)
       /\ request' = [request EXCEPT ![r] = [Idle EXCEPT !.pc = "previewed", !.start = c,
            !.items = Applied(decision, present, c)]]
  /\ UNCHANGED <<month, decision, made>>

\* The preview made again under the lock has the fingerprint of the one confirmed.
SameToken(r) ==
  /\ Applicable(decision, request[r].start)
  /\ Applied(decision, DOMAIN request[r].items, request[r].start) = request[r].items

Materialise(r) ==
  /\ At(r, "previewed") /\ Free
  /\ IF SameToken(r)
     THEN /\ Cardinality(made) < MaxMade
          /\ request' = [request EXCEPT ![r].pc = "materialise", ![r].today = month,
               ![r].version = LatestVersion(request[r].start) + 1]
     ELSE End(r)
  /\ UNCHANGED <<month, decision, made>>

Materialised(r) == [competence |-> request[r].start, version |-> request[r].version,
                    items |-> request[r].items, past |-> request[r].start < request[r].today]

\* insert_materialization; the UNIQUE of the version answers a second one with a 409.
MaterialiseCommit(r) ==
  /\ At(r, "materialise")
  /\ made' = IF \E m \in made : m.competence = request[r].start /\ m.version = request[r].version
             THEN made ELSE made \cup {Materialised(r)}
  /\ End(r)
  /\ UNCHANGED <<month, decision>>

-------------------------------------------------------------------------------
MonthTurns ==
  /\ month < LastMonth
  /\ month' = month + 1
  /\ UNCHANGED <<decision, made, request>>

\* The request fails, its page is left, or the process dies: nothing is written.
Abort(r) ==
  /\ ~At(r, "idle")
  /\ End(r)
  /\ UNCHANGED <<month, decision, made>>

Next ==
  \/ MonthTurns
  \/ \E r \in Requests :
       \/ Decide(r) \/ WriteCommit(r) \/ ConfirmRead(r) \/ ConfirmWrite(r)
       \/ Inherit(r) \/ InheritCommit(r)
       \/ Preview(r) \/ Materialise(r) \/ MaterialiseCommit(r) \/ Abort(r)

Spec == Init /\ [][Next]_vars

-------------------------------------------------------------------------------
\* The types; and the versions of a month are 1, 2, ... with one row each.
TypeOK ==
  /\ month \in Months
  /\ decision \in [Keys -> [Months -> Rows \cup {None}]]
  /\ \A m \in made :
       /\ m.competence \in Months /\ m.past \in BOOLEAN /\ m.version \in Nat \ {0}
       /\ \A v \in 1..m.version :
            Cardinality({n \in made : n.competence = m.competence /\ n.version = v}) = 1
       /\ \A k \in DOMAIN m.items : k \in Keys /\ m.items[k] \in Lines \cup {None}
  /\ \A r \in Requests :
       /\ request[r].pc \in {"idle", "write", "confirm", "inherit", "previewed", "materialise"}
       /\ request[r].effect \in [Keys -> Targets \cup {None}]

\* "Refazer junho depois de uma vigência nova de setembro tem de aplicar a regra de
\* junho": a month materialised when it was past gives, whenever it is made again, the
\* same line for every category that both bases have.
Reproducible ==
  \A m, n \in made :
    (m.competence = n.competence /\ m.past /\ m.version < n.version) =>
      \A k \in DOMAIN m.items \cap DOMAIN n.items : m.items[k] = n.items[k]

\* What is about to be stored is the mapping as it stands: no decision has changed
\* between the check of the preview and the INSERT.
PreviewStillTrue ==
  \A r \in Requests : At(r, "materialise") =>
    \A k \in DOMAIN request[r].items :
      request[r].items[k] = Line(decision[k], request[r].start)

\* A decision that a person has confirmed is never changed, whatever a request had
\* read before it was confirmed.
ConfirmedIsFixed ==
  [][\A k \in Keys : \A s \in Months :
       (decision[k][s] # None /\ decision[k][s].origin = "confirmada")
         => decision'[k][s] = decision[k][s]]_vars

\* A decision that starts before the current month changes no month up to the current
\* one that has been materialised.
RetroactiveSparesDelivered ==
  [][\A r \in Requests :
       (request[r].pc \in {"write", "inherit"} /\ request[r].start < request[r].today
          /\ decision' # decision /\ ~At(r, "idle") /\ request'[r].pc = "idle") =>
         \A c \in Delivered : c <= request[r].today =>
           \A k \in Keys : Line(decision'[k], c) = Line(decision[k], c)]_vars

\* A proposal of the system is never added beside decisions of the category: two
\* requests that both found it undecided make it decided once.
OneProposal ==
  [][\A k \in Keys : \A s \in Months :
       (decision[k][s] = None /\ decision'[k][s] # None /\ decision'[k][s].origin = "herdada")
         => ~Decided(k)]_vars

\* Confirming the inherited decisions in bulk changes what no month derives, unless
\* somebody decided between its reading and its lock.
BulkConfirmKeepsTargets ==
  [][\A r \in Requests :
       (At(r, "write") /\ request[r].bulk /\ ~request[r].late /\ request'[r].pc = "idle") =>
         \A k \in Keys : \A c \in Months :
           LET before == Line(decision[k], c)
               after == Line(decision'[k], c)
           IN before # after => before # None /\ before.target = after.target]_vars
================================================================================
