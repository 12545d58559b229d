------------------------------ MODULE Connections ------------------------------
(***************************************************************************)
(* The connections of one client to the origins of its movements: Omie,    *)
(* with a credential, or uploaded files, without one.  A client has one    *)
(* type of origin.  Credentials are verified at the provider, which takes  *)
(* its time, before the row is written; nothing locks a row meanwhile, and *)
(* an UPDATE carries only the columns that differ from the row as loaded.  *)
(***************************************************************************)
EXTENDS Naturals, FiniteSets

CONSTANTS
  Ids,       \* client_connections.id, never reused: bounds the creations
  Labels,
  Secrets,   \* credentials of the same ERP account
  Requests,
  None,      \* no row yet; or no secret, label or id
  Gone       \* the row has been deleted

VARIABLES
  row,       \* client_connections
  accepted,  \* the credentials that the provider accepts
  request,   \* where each request is
  refused,   \* history: the credentials that the provider has refused
  late       \* history: rows where a verdict and a replacement overlapped

vars == <<row, accepted, request, refused, late>>

Types == {"omie", "arquivo"}
Statuses == {"ativa", "erro"}
Rows == [type : Types, label : Labels, status : Statuses, secret : Secrets \cup {None}]

ASSUME ConnectionConstants ==
  None # Gone /\ None \notin Rows \cup Labels \cup Ids /\ Gone \notin Rows

Idle == [pc |-> "idle", id |-> None, type |-> "omie", label |-> None, secret |-> None,
         was |-> "ativa", ok |-> FALSE]

Init ==
  /\ row = [c \in Ids |-> None]
  /\ accepted = Secrets
  /\ request = [r \in Requests |-> Idle]
  /\ refused = {}
  /\ late = {}

Stored == {c \in Ids : row[c] \notin {None, Gone}}
At(r, pc) == request[r].pc = pc
End(r) == request' = [request EXCEPT ![r] = Idle]

LabelTakenByActive(type, label, but) ==
  \E c \in Stored \ {but} :
    row[c].type = type /\ row[c].label = label /\ row[c].status = "ativa"

\* _assert_label_free and the UNIQUE of (client, type, label).
LabelTaken(type, label, but) ==
  \E c \in Stored \ {but} : row[c].type = type /\ row[c].label = label

\* lock_client_origins: taken by a creation, kept to its commit.
Free == \A r \in Requests : ~At(r, "create")

\* _assert_single_movement_origin, connections in error included.
SingleOriginActive(type) == \A c \in Stored : row[c].status = "erro" \/ row[c].type = type

SingleOrigin(type) == \A c \in Stored : row[c].type = type

-------------------------------------------------------------------------------
(* create_connection.                                                       *)

CreateCheck(r) ==
  /\ At(r, "idle") /\ Free
  /\ \E type \in Types : \E label \in Labels :
     \E secret \in IF type = "omie" THEN Secrets ELSE {None} :
       /\ SingleOrigin(type)
       /\ ~LabelTaken(type, label, None)
       /\ request' = [request EXCEPT ![r] = [Idle EXCEPT !.pc = "create", !.type = type,
            !.label = label, !.secret = secret]]
  /\ UNCHANGED <<row, accepted, refused, late>>

Verified(secret) == secret = None \/ secret \in accepted

\* The UNIQUE of (client, type, label), against a rename that has overtaken the check.
CreateInsert(r) ==
  /\ At(r, "create")
  /\ Verified(request[r].secret)
  /\ ~LabelTaken(request[r].type, request[r].label, None)
  /\ \E c \in {d \in Ids : row[d] = None} :
       row' = [row EXCEPT ![c] = [type |-> request[r].type, label |-> request[r].label,
                                  status |-> "ativa", secret |-> request[r].secret]]
  /\ End(r)
  /\ UNCHANGED <<accepted, refused, late>>

-------------------------------------------------------------------------------
(* test_connection; and a run that is refused, which marks the row likewise. *)

TestRead(r) ==
  /\ At(r, "idle")
  /\ \E c \in Stored :
       /\ row[c].type = "omie"
       /\ request' = [request EXCEPT ![r] =
            [Idle EXCEPT !.pc = "test", !.id = c, !.secret = row[c].secret]]
  /\ UNCHANGED <<row, accepted, refused, late>>

TestVerdict(r) ==
  /\ At(r, "test")
  /\ request' = [request EXCEPT ![r].pc = "verdict", ![r].ok = Verified(request[r].secret)]
  /\ refused' = IF Verified(request[r].secret) THEN refused ELSE refused \cup {request[r].secret}
  /\ UNCHANGED <<row, accepted, late>>

\* A timeout or an outage of the provider says nothing of the credential.
OutageMarks(r) ==
  /\ At(r, "test")
  /\ row' = [c \in Ids |-> IF c = request[r].id /\ c \in Stored
                           THEN [row[c] EXCEPT !.status = "erro"] ELSE row[c]]
  /\ End(r)
  /\ UNCHANGED <<accepted, refused, late>>

Outage(r) ==
  /\ At(r, "test")
  /\ End(r)
  /\ UNCHANGED <<row, accepted, refused, late>>

Replacing(c) == \E r \in Requests : request[r].pc \in {"update", "store"} /\ request[r].id = c
Judging(c) == \E r \in Requests : request[r].pc \in {"test", "verdict"} /\ request[r].id = c

\* mark_connection_checked, mark_connection_error: an UPDATE by id.
TestMark(r) ==
  LET c == request[r].id IN
  /\ At(r, "verdict")
  /\ row' = IF c \in Stored
            THEN [row EXCEPT ![c].status = IF request[r].ok THEN "ativa" ELSE "erro"] ELSE row
  /\ late' = IF Replacing(c) THEN late \cup {c} ELSE late
  /\ End(r)
  /\ UNCHANGED <<accepted, refused>>

-------------------------------------------------------------------------------
(* update_connection: another label, another credential or both.            *)

UpdateRead(r) ==
  /\ At(r, "idle")
  /\ \E c \in Stored : \E label \in Labels \cup {None} :
     \E secret \in IF row[c].type = "omie" THEN Secrets \cup {None} ELSE {None} :
       /\ label # None \/ secret # None
       /\ label \notin {None, row[c].label} => ~LabelTaken(row[c].type, label, c)
       /\ request' = [request EXCEPT ![r] =
            [Idle EXCEPT !.pc = "update", !.id = c, !.secret = secret, !.was = row[c].status,
                         !.label = IF label = row[c].label THEN None ELSE label]]
  /\ UNCHANGED <<row, accepted, refused, late>>

UpdateVerify(r) ==
  /\ At(r, "update")
  /\ IF Verified(request[r].secret)
     THEN request' = [request EXCEPT ![r].pc = "store"]
     ELSE End(r)
  /\ UNCHANGED <<row, accepted, refused, late>>

\* The status is in the UPDATE only if the row was not `ativa` when it was loaded.
StatusStored(mine, now) ==
  IF mine.secret # None /\ mine.was # "ativa" THEN "ativa" ELSE now.status

Replaced(mine, now) ==
  [now EXCEPT !.label = IF mine.label = None THEN @ ELSE mine.label,
              !.secret = IF mine.secret = None THEN @ ELSE mine.secret,
              !.status = StatusStored(mine, now)]

\* Without the row, or with its new label taken, an error and nothing written.
UpdateStore(r) ==
  LET mine == request[r]
      c == request[r].id
  IN
  /\ At(r, "store")
  /\ IF c \in Stored /\ (mine.label # None => ~LabelTaken(row[c].type, mine.label, c))
     THEN /\ row' = [row EXCEPT ![c] = Replaced(mine, row[c])]
          /\ late' = IF mine.secret # None /\ Judging(c) THEN late \cup {c} ELSE late
     ELSE UNCHANGED <<row, late>>
  /\ End(r)
  /\ UNCHANGED <<accepted, refused>>

-------------------------------------------------------------------------------
Delete(c) ==
  /\ c \in Stored
  /\ row' = [row EXCEPT ![c] = Gone]
  /\ UNCHANGED <<accepted, request, refused, late>>

\* At the provider, a credential is revoked or comes back.
ProviderChanges ==
  /\ \E secrets \in SUBSET Secrets : secrets # accepted /\ accepted' = secrets
  /\ UNCHANGED <<row, request, refused, late>>

\* Refused, failed or left: rolled back.
Abort(r) ==
  /\ request[r].pc \in {"create", "update", "store", "verdict"}
  /\ End(r)
  /\ UNCHANGED <<row, accepted, refused, late>>

Next ==
  \/ ProviderChanges
  \/ \E c \in Ids : Delete(c)
  \/ \E r \in Requests :
       \/ CreateCheck(r) \/ CreateInsert(r)
       \/ TestRead(r) \/ TestVerdict(r) \/ Outage(r) \/ TestMark(r)
       \/ UpdateRead(r) \/ UpdateVerify(r) \/ UpdateStore(r)
       \/ Abort(r)

Spec == Init /\ [][Next]_vars

-------------------------------------------------------------------------------
(* Types; a client has no two connections of one type and label.            *)
TypeOK ==
  /\ row \in [Ids -> Rows \cup {None, Gone}]
  /\ accepted \subseteq Secrets /\ refused \subseteq Secrets /\ late \subseteq Ids
  /\ \A r \in Requests :
       request[r].pc \in {"idle", "create", "test", "verdict", "update", "store"}
  /\ \A c, d \in Stored :
       c # d => row[c].type # row[d].type \/ row[c].label # row[d].label

\* "Um cliente tem UM tipo de origem": two creations at once cannot make it two, and
\* neither can one in error that is reconnected later.
OneTypeOfOrigin == \A c, d \in Stored : row[c].type = row[d].type

\* A connection in `erro` holds a credential that the provider has refused, unless a
\* verdict on the credential before overlapped its replacement.
ErrorIsDeserved ==
  \A c \in Stored \ late : row[c].status = "erro" => row[c].secret \in refused
================================================================================
