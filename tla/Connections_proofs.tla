--------------------------- MODULE Connections_proofs ---------------------------
(***************************************************************************)
(* Proofs about Connections, for any number of connections, labels,        *)
(* credentials and concurrent requests.                                    *)
(***************************************************************************)
EXTENDS Connections, TLAPS

PCs == {"idle", "create", "test", "verdict", "update", "store"}

Request == [pc : PCs, id : Ids \cup {None}, type : Types, label : Labels \cup {None},
            secret : Secrets \cup {None}, was : Statuses, ok : BOOLEAN]

Shapes ==
  /\ row \in [Ids -> Rows \cup {None, Gone}]
  /\ accepted \subseteq Secrets /\ refused \subseteq Secrets /\ late \subseteq Ids
  /\ request \in [Requests -> Request]
  /\ \A r \in Requests :
       /\ At(r, "create") => request[r].label \in Labels
       /\ request[r].pc \in {"test", "verdict", "update", "store"} =>
            request[r].id \in Ids /\ row[request[r].id] # None

LabelsUnique ==
  \A c, d \in Stored : c # d => row[c].type # row[d].type \/ row[c].label # row[d].label

\* The advisory lock: one creation at a time, which knows the type of all there is.
OneCreation ==
  /\ \A r, q \in Requests : At(r, "create") /\ At(q, "create") => r = q
  /\ \A r \in Requests : At(r, "create") => \A c \in Stored : row[c].type = request[r].type

\* A verdict is about the stored credential, or the row is late.
VerdictOfStored ==
  \A r \in Requests :
    /\ request[r].pc \in {"test", "verdict"} /\ request[r].id \in Stored \ late
         => row[request[r].id].secret = request[r].secret
    /\ At(r, "verdict") /\ ~request[r].ok => request[r].secret \in refused

\* A replacement that saw `ativa` still has it before it, or the row is late.
StatusAsRead ==
  \A r \in Requests :
    /\ request[r].pc \in {"update", "store"} /\ request[r].id \in Stored \ late
    /\ request[r].was = "ativa"
    => row[request[r].id].status = "ativa"

Inv == /\ Shapes /\ LabelsUnique /\ OneCreation /\ OneTypeOfOrigin
       /\ VerdictOfStored /\ StatusAsRead /\ ErrorIsDeserved

-------------------------------------------------------------------------------
LEMMA StoredRows ==
  ASSUME Shapes
  PROVE  /\ Stored \subseteq Ids
         /\ \A c \in Stored : row[c] \in Rows
         /\ \A c \in Ids : row[c] \in Rows => c \in Stored
BY ConnectionConstants DEF Shapes, Stored

LEMMA InitInv == Init => Inv
<1> SUFFICES ASSUME Init PROVE Inv
  OBVIOUS
<1>1. Stored = {}
  BY DEF Init, Stored
<1>2. Idle \in Request
  BY DEF Idle, Request, PCs, Types, Statuses
<1> QED  BY <1>1, <1>2 DEF Init, Inv, Shapes, LabelsUnique, OneCreation, OneTypeOfOrigin,
         VerdictOfStored, StatusAsRead, ErrorIsDeserved, At, Idle

\* A step that leaves the rows alone, and of the requests changes at most one.
LEMMA RowsStay ==
  ASSUME Inv, NEW r \in Requests, NEW new \in Request,
         row' = row, late' = late, accepted' \subseteq Secrets, refused \subseteq refused', refused' \subseteq Secrets,
         request' = [request EXCEPT ![r] = new],
         new.pc = "create" => /\ new.label \in Labels
                              /\ \A q \in Requests : At(q, "create") => q = r
                              /\ \A c \in Stored : row[c].type = new.type,
         new.pc \in {"test", "verdict", "update", "store"} => new.id \in Ids /\ row[new.id] # None,
         new.pc \in {"test", "verdict"} /\ new.id \in Stored \ late => row[new.id].secret = new.secret,
         new.pc = "verdict" /\ ~new.ok => new.secret \in refused',
         new.pc \in {"update", "store"} /\ new.id \in Stored \ late /\ new.was = "ativa"
           => row[new.id].status = "ativa"
  PROVE  Inv'
<1>1. Stored' = Stored
  BY DEF Stored
<1>2. request \in [Requests -> Request] /\ request'[r] = new
      /\ \A q \in Requests \ {r} : request'[q] = request[q]
  BY DEF Inv, Shapes
<1>3. Shapes'
  BY <1>2 DEF Inv, Shapes, At
<1>4. OneCreation'
  BY <1>1, <1>2 DEF Inv, OneCreation, At
<1>5. VerdictOfStored'
  BY <1>1, <1>2 DEF Inv, VerdictOfStored, At
<1>6. StatusAsRead'
  BY <1>1, <1>2 DEF Inv, StatusAsRead
<1> QED  BY <1>1, <1>3, <1>4, <1>5, <1>6 DEF Inv, LabelsUnique, OneTypeOfOrigin, ErrorIsDeserved

\* A request that ends, whatever it was.
LEMMA EndsKeeps ==
  ASSUME Inv, NEW r \in Requests, End(r), UNCHANGED <<row, accepted, refused, late>>
  PROVE  Inv'
<1>1. Idle \in Request /\ Idle.pc = "idle"
  BY DEF Idle, Request, PCs, Types, Statuses
<1> QED  BY <1>1, RowsStay DEF End, Inv, Shapes

LEMMA CreateCheckKeeps ==
  ASSUME Inv, NEW r \in Requests, CreateCheck(r)
  PROVE  Inv'
<1>1. PICK type \in Types, label \in Labels, secret \in Secrets \cup {None} :
        /\ SingleOrigin(type)
        /\ request' = [request EXCEPT ![r] = [Idle EXCEPT !.pc = "create", !.type = type,
             !.label = label, !.secret = secret]]
  BY DEF CreateCheck
<1> DEFINE new == [Idle EXCEPT !.pc = "create", !.type = type, !.label = label, !.secret = secret]
<1>2. new \in Request /\ new.pc = "create" /\ new.label = label /\ new.type = type
  BY DEF Idle, Request, PCs, Types, Statuses
<1>3. Free /\ UNCHANGED <<row, accepted, refused, late>>
  BY DEF CreateCheck
<1>4. request' = [request EXCEPT ![r] = new]
  BY <1>1
<1> HIDE DEF new
<1>5. \A q \in Requests : At(q, "create") => q = r
  BY <1>3 DEF Free
<1>6. \A c \in Stored : row[c].type = type
  BY <1>1 DEF SingleOrigin
<1>7. accepted \subseteq Secrets /\ refused \subseteq Secrets
  BY DEF Inv, Shapes
<1> QED  BY <1>2, <1>3, <1>4, <1>5, <1>6, <1>7, RowsStay

LEMMA CreateInsertKeeps ==
  ASSUME Inv, NEW r \in Requests, CreateInsert(r)
  PROVE  Inv'
<1> DEFINE new == [type |-> request[r].type, label |-> request[r].label,
                   status |-> "ativa", secret |-> request[r].secret]
<1>1. PICK c \in Ids : row[c] = None /\ row' = [row EXCEPT ![c] = new]
  BY DEF CreateInsert
<1>2. /\ At(r, "create") /\ ~LabelTaken(request[r].type, request[r].label, None)
      /\ request' = [request EXCEPT ![r] = Idle]
      /\ UNCHANGED <<accepted, refused, late>>
  BY DEF CreateInsert, End
<1>3. Idle \in Request /\ Idle.pc = "idle"
  BY DEF Idle, Request, PCs, Types, Statuses
<1>4. new \in Rows /\ new.type = request[r].type /\ new.label = request[r].label /\ new.status = "ativa"
  BY <1>2 DEF Inv, Shapes, Request, Rows, Statuses, At
<1> HIDE DEF new
<1>5. /\ row \in [Ids -> Rows \cup {None, Gone}] /\ row'[c] = new
      /\ \A d \in Ids \ {c} : row'[d] = row[d]
      /\ row' \in [Ids -> Rows \cup {None, Gone}]
  BY <1>1, <1>4 DEF Inv, Shapes
<1>6. Stored' = Stored \cup {c} /\ c \notin Stored
  BY <1>1, <1>4, <1>5, ConnectionConstants DEF Stored
<1>7. /\ request \in [Requests -> Request] /\ request'[r] = Idle
      /\ \A q \in Requests \ {r} : request'[q] = request[q]
  BY <1>2 DEF Inv, Shapes
<1>8. \A q \in Requests : request[q].pc \in {"test", "verdict", "update", "store"}
        => request[q].id \in Ids \ {c}
  BY <1>1 DEF Inv, Shapes
<1>9. Shapes'
  BY <1>1, <1>2, <1>3, <1>5, <1>7, <1>8 DEF Inv, Shapes, At
<1>10. LabelsUnique'
  <2>1. \A d \in Stored \ {None} : row[d].type # new.type \/ row[d].label # new.label
    BY <1>2, <1>4 DEF LabelTaken
  <2>2. None \notin Stored
    BY ConnectionConstants DEF Stored
  <2> QED  BY <2>1, <2>2, <1>5, <1>6 DEF Inv, LabelsUnique, Stored
<1>11. OneTypeOfOrigin' /\ OneCreation'
  BY <1>2, <1>3, <1>4, <1>5, <1>6, <1>7 DEF Inv, OneCreation, OneTypeOfOrigin, At, Stored
<1>12. VerdictOfStored' /\ StatusAsRead'
  BY <1>2, <1>3, <1>5, <1>6, <1>7, <1>8 DEF Inv, VerdictOfStored, StatusAsRead, At
<1>13. ErrorIsDeserved'
  BY <1>2, <1>4, <1>5, <1>6 DEF Inv, ErrorIsDeserved, Stored
<1> QED  BY <1>9, <1>10, <1>11, <1>12, <1>13 DEF Inv

LEMMA TestReadKeeps ==
  ASSUME Inv, NEW r \in Requests, TestRead(r)
  PROVE  Inv'
<1>1. PICK c \in Stored : request' = [request EXCEPT ![r] =
            [Idle EXCEPT !.pc = "test", !.id = c, !.secret = row[c].secret]]
  BY DEF TestRead
<1>2. c \in Ids /\ row[c] \in Rows /\ row[c] # None
  BY <1>1, StoredRows DEF Inv, Stored
<1> DEFINE new == [Idle EXCEPT !.pc = "test", !.id = c, !.secret = row[c].secret]
<1>3. new \in Request /\ new.pc = "test" /\ new.id = c /\ new.secret = row[c].secret
  BY <1>2 DEF Idle, Request, PCs, Types, Statuses, Rows
<1>4. request' = [request EXCEPT ![r] = new] /\ UNCHANGED <<row, accepted, refused, late>>
  BY <1>1 DEF TestRead
<1> HIDE DEF new
<1> QED  BY <1>2, <1>3, <1>4, RowsStay DEF Inv, Shapes

LEMMA TestVerdictKeeps ==
  ASSUME Inv, NEW r \in Requests, TestVerdict(r)
  PROVE  Inv'
<1> DEFINE ok == Verified(request[r].secret)
           new == [request[r] EXCEPT !.pc = "verdict", !.ok = ok]
<1>1. /\ request[r] \in Request /\ At(r, "test") /\ UNCHANGED <<row, accepted, late>>
      /\ refused' = IF ok THEN refused ELSE refused \cup {request[r].secret}
      /\ request' = [request EXCEPT ![r] = new]
  BY DEF TestVerdict, Inv, Shapes
<1>2. ok \in BOOLEAN /\ (~ok => request[r].secret \in Secrets)
  BY <1>1 DEF Verified, Request
<1> HIDE DEF ok
<1>3. /\ new \in Request /\ new.pc = "verdict" /\ new.id = request[r].id
      /\ new.secret = request[r].secret /\ new.ok = ok
  BY <1>1, <1>2 DEF Request, PCs
<1> HIDE DEF new
<1>4. /\ request[r].id \in Ids /\ row[request[r].id] # None
      /\ request[r].id \in Stored \ late => row[request[r].id].secret = request[r].secret
  BY <1>1 DEF Inv, Shapes, VerdictOfStored, At
<1>5. accepted \subseteq Secrets /\ refused \subseteq Secrets
  BY DEF Inv, Shapes
<1> QED  BY <1>1, <1>2, <1>3, <1>4, <1>5, RowsStay

\* A mark of an earlier verdict: the row keeps all but its status, and whoever has read
\* that status to replace the credential makes the row late.
LEMMA TestMarkKeeps ==
  ASSUME Inv, NEW r \in Requests, TestMark(r)
  PROVE  Inv'
<1> DEFINE c == request[r].id
           status == IF request[r].ok THEN "ativa" ELSE "erro"
<1>1. /\ At(r, "verdict") /\ UNCHANGED <<accepted, refused>>
      /\ request' = [request EXCEPT ![r] = Idle]
      /\ row' = IF c \in Stored THEN [row EXCEPT ![c].status = status] ELSE row
      /\ late' = IF Replacing(c) THEN late \cup {c} ELSE late
  BY DEF TestMark, End
<1>2. Idle \in Request /\ Idle.pc = "idle" /\ status \in Statuses
  BY DEF Idle, Request, PCs, Types, Statuses
<1>3. c \in Ids /\ row[c] # None
  BY <1>1 DEF Inv, Shapes, At
<1>4. /\ request \in [Requests -> Request] /\ request'[r] = Idle
      /\ \A q \in Requests \ {r} : request'[q] = request[q]
  BY <1>1 DEF Inv, Shapes
<1>5. c \in Stored \ late => row[c].secret = request[r].secret
  BY <1>1 DEF Inv, VerdictOfStored, At
<1>6. ~request[r].ok => request[r].secret \in refused
  BY <1>1 DEF Inv, VerdictOfStored
<1>7. CASE c \notin Stored
  <2>1. row' = row /\ Stored' = Stored
    BY <1>1, <1>7 DEF Stored
  <2>2. Shapes' /\ OneCreation'
    BY <2>1, <1>1, <1>2, <1>3, <1>4 DEF Inv, Shapes, OneCreation, At
  <2> QED  BY <2>1, <2>2, <1>1, <1>2, <1>4, <1>7 DEF Inv, LabelsUnique, OneTypeOfOrigin, ErrorIsDeserved,
             VerdictOfStored, StatusAsRead, At
<1>8. CASE c \in Stored
  <2> HIDE DEF status
  <2>1. row[c] \in Rows /\ row \in [Ids -> Rows \cup {None, Gone}]
    BY <1>8, StoredRows DEF Inv, Shapes
  <2>2. /\ row'[c] = [row[c] EXCEPT !.status = status]
        /\ \A d \in Ids \ {c} : row'[d] = row[d]
        /\ DOMAIN row' = Ids
    BY <1>1, <1>3, <1>8, <2>1
  <2>3. /\ row'[c] \in Rows /\ row'[c].status = status /\ row'[c].type = row[c].type
        /\ row'[c].label = row[c].label /\ row'[c].secret = row[c].secret
    BY <2>1, <2>2, <1>2 DEF Rows
  <2>4. row' \in [Ids -> Rows \cup {None, Gone}]
    BY <1>1, <1>8, <2>1, <2>2, <2>3
  <2>5. Stored' = Stored
    BY <1>3, <1>8, <2>2, <2>3, ConnectionConstants DEF Stored
  <2>6. Shapes'
    BY <1>1, <1>2, <1>3, <1>4, <2>2, <2>3, <2>4, ConnectionConstants DEF Inv, Shapes, At
  <2>7. Stored \subseteq Ids
    BY DEF Stored
  <2>14. \A d \in Stored : row'[d].type = row[d].type /\ row'[d].label = row[d].label
    BY <2>2, <2>3, <2>7
  <2>8. LabelsUnique' /\ OneTypeOfOrigin'
    BY <2>5, <2>14 DEF Inv, LabelsUnique, OneTypeOfOrigin
  <2>9. OneCreation'
    BY <1>2, <1>4, <2>5, <2>14 DEF Inv, OneCreation, At
  <2>10. late \subseteq late'
    BY <1>1
  <2>11. VerdictOfStored'
    BY <1>1, <1>2, <1>4, <2>2, <2>3, <2>5, <2>7, <2>10 DEF Inv, VerdictOfStored, At
  <2>12. StatusAsRead'
    <3> SUFFICES ASSUME NEW q \in Requests, request'[q].pc \in {"update", "store"},
                        request'[q].id \in Stored \ late', request'[q].was = "ativa"
                 PROVE  row'[request'[q].id].status = "ativa"
      BY <2>5 DEF StatusAsRead
    <3>1. q # r /\ request'[q] = request[q]
      BY <1>2, <1>4
    <3>2. request[q].id # c
      BY <3>1, <1>1 DEF Replacing
    <3> QED  BY <3>1, <3>2, <2>2, <2>7, <2>10 DEF Inv, StatusAsRead
  <2>13. ErrorIsDeserved'
    <3> SUFFICES ASSUME NEW d \in Stored, d \notin late', row'[d].status = "erro"
                 PROVE  row'[d].secret \in refused
      BY <2>5, <1>1 DEF ErrorIsDeserved
    <3>1. CASE d # c
      BY <3>1, <2>2, <2>7, <2>10 DEF Inv, ErrorIsDeserved
    <3>2. CASE d = c
      <4>1. ~request[r].ok
        BY <3>2, <2>3 DEF status
      <4> QED  BY <3>2, <4>1, <1>5, <1>6, <2>3, <2>10
    <3> QED  BY <3>1, <3>2
  <2> QED  BY <2>6, <2>8, <2>9, <2>11, <2>12, <2>13 DEF Inv
<1> QED  BY <1>7, <1>8

LEMMA UpdateReadKeeps ==
  ASSUME Inv, NEW r \in Requests, UpdateRead(r)
  PROVE  Inv'
<1>1. PICK c \in Stored, label \in Labels \cup {None}, secret \in Secrets \cup {None} :
        request' = [request EXCEPT ![r] =
            [Idle EXCEPT !.pc = "update", !.id = c, !.secret = secret, !.was = row[c].status,
                         !.label = IF label = row[c].label THEN None ELSE label]]
  BY DEF UpdateRead
<1>2. c \in Ids /\ row[c] \in Rows /\ row[c] # None
  BY <1>1, StoredRows DEF Inv, Stored
<1> DEFINE new == [Idle EXCEPT !.pc = "update", !.id = c, !.secret = secret, !.was = row[c].status,
                         !.label = IF label = row[c].label THEN None ELSE label]
<1>3. new \in Request /\ new.pc = "update" /\ new.id = c /\ new.was = row[c].status
  BY <1>2 DEF Idle, Request, PCs, Types, Statuses, Rows
<1>4. request' = [request EXCEPT ![r] = new] /\ UNCHANGED <<row, accepted, refused, late>>
  BY <1>1 DEF UpdateRead
<1> HIDE DEF new
<1> QED  BY <1>2, <1>3, <1>4, RowsStay DEF Inv, Shapes

LEMMA UpdateVerifyKeeps ==
  ASSUME Inv, NEW r \in Requests, UpdateVerify(r)
  PROVE  Inv'
<1> DEFINE new == [request[r] EXCEPT !.pc = "store"]
<1>1. At(r, "update") /\ request[r] \in Request /\ UNCHANGED <<row, accepted, refused, late>>
  BY DEF UpdateVerify, Inv, Shapes
<1>2. CASE End(r)
  BY <1>1, <1>2, EndsKeeps
<1>3. CASE request' = [request EXCEPT ![r].pc = "store"]
  <2>1. request' = [request EXCEPT ![r] = new]
    BY <1>3
  <2>2. new \in Request /\ new.pc = "store" /\ new.id = request[r].id /\ new.was = request[r].was
    BY <1>1 DEF Request, PCs
  <2>3. /\ request[r].id \in Ids /\ row[request[r].id] # None
        /\ request[r].id \in Stored \ late /\ request[r].was = "ativa"
             => row[request[r].id].status = "ativa"
    BY <1>1 DEF Inv, Shapes, StatusAsRead, At
  <2> HIDE DEF new
  <2> QED  BY <1>1, <2>1, <2>2, <2>3, RowsStay DEF Inv, Shapes
<1> QED  BY <1>2, <1>3 DEF UpdateVerify

\* The replacement: a row whose credential changes under a verdict is late, and one that
\* was `ativa` when it was read either still is or is late.
LEMMA UpdateStoreKeeps ==
  ASSUME Inv, NEW r \in Requests, UpdateStore(r)
  PROVE  Inv'
<1> DEFINE mine == request[r]
           c == request[r].id
           new == Replaced(mine, row[c])
<1>1. At(r, "store") /\ End(r) /\ UNCHANGED <<accepted, refused>>
  BY DEF UpdateStore
<1>2. CASE UNCHANGED <<row, late>>
  BY <1>1, <1>2, EndsKeeps
<1>3. CASE /\ c \in Stored /\ (mine.label # None => ~LabelTaken(row[c].type, mine.label, c))
           /\ row' = [row EXCEPT ![c] = new]
           /\ late' = IF mine.secret # None /\ Judging(c) THEN late \cup {c} ELSE late
  <2>1. Idle \in Request /\ Idle.pc = "idle"
    BY DEF Idle, Request, PCs, Types, Statuses
  <2>2. /\ request \in [Requests -> Request] /\ request'[r] = Idle
        /\ \A q \in Requests \ {r} : request'[q] = request[q]
    BY <1>1 DEF Inv, Shapes, End
  <2>3. /\ c \in Ids /\ row[c] \in Rows /\ row \in [Ids -> Rows \cup {None, Gone}]
        /\ mine \in Request /\ Stored \subseteq Ids
    BY <1>3, StoredRows DEF Inv, Shapes
  <2>4. StatusStored(mine, row[c]) \in Statuses
    BY <2>3 DEF StatusStored, Rows, Statuses
  <2>5. /\ new \in Rows /\ new.type = row[c].type
        /\ new.label = IF mine.label = None THEN row[c].label ELSE mine.label
        /\ new.secret = IF mine.secret = None THEN row[c].secret ELSE mine.secret
        /\ new.status = StatusStored(mine, row[c])
    BY <2>3, <2>4 DEF Rows, Request, Replaced
  <2> HIDE DEF new
  <2>6. /\ row'[c] = new /\ \A d \in Ids \ {c} : row'[d] = row[d]
        /\ row' \in [Ids -> Rows \cup {None, Gone}]
    BY <1>3, <2>3, <2>5
  <2>7. Stored' = Stored
    BY <1>3, <2>3, <2>5, <2>6, ConnectionConstants DEF Stored
  <2>8. late \subseteq late' /\ late' \subseteq Ids
    BY <1>3, <2>3 DEF Inv, Shapes
  <2>9. Shapes'
    <3>1. \A d \in Ids : row[d] # None => row'[d] # None
      BY <2>5, <2>6, ConnectionConstants
    <3>2. request' \in [Requests -> Request]
      BY <1>1, <2>1 DEF End, Inv, Shapes
    <3>3. \A q \in Requests :
            /\ request'[q].pc = "create" => request'[q].label \in Labels
            /\ request'[q].pc \in {"test", "verdict", "update", "store"} =>
                 request'[q].id \in Ids /\ row'[request'[q].id] # None
      BY <3>1, <2>1, <2>2 DEF Inv, Shapes, At
    <3> QED  BY <1>1, <2>6, <2>8, <3>2, <3>3 DEF Inv, Shapes, At
  <2>10. LabelsUnique'
    <3>1. ASSUME NEW d \in Stored, d # c
          PROVE  row[d].type # new.type \/ row[d].label # new.label
      <4>1. CASE mine.label = None
        BY <4>1, <3>1, <1>3, <2>5 DEF Inv, LabelsUnique
      <4>2. CASE mine.label # None
        BY <4>2, <3>1, <1>3, <2>5 DEF LabelTaken
      <4> QED  BY <4>1, <4>2
    <3> QED  BY <3>1, <2>3, <2>6, <2>7 DEF Inv, LabelsUnique
  <2>11. OneTypeOfOrigin' /\ OneCreation'
    BY <1>3, <2>1, <2>2, <2>3, <2>5, <2>6, <2>7 DEF Inv, OneTypeOfOrigin, OneCreation, At
  <2>12. VerdictOfStored'
    <3>1. ASSUME NEW q \in Requests, request'[q].pc \in {"test", "verdict"},
                 request'[q].id \in Stored \ late'
          PROVE  row'[request'[q].id].secret = request'[q].secret
      <4>1. q # r /\ request'[q] = request[q]
        BY <3>1, <2>1, <2>2
      <4>2. CASE request[q].id # c
        BY <4>1, <4>2, <3>1, <2>3, <2>6, <2>8 DEF Inv, VerdictOfStored
      <4>3. CASE request[q].id = c
        <5>1. Judging(c)
          BY <3>1, <4>1, <4>3 DEF Judging
        <5>2. mine.secret = None
          BY <5>1, <3>1, <4>1, <4>3, <1>3
        <5> QED  BY <5>2, <4>1, <4>3, <3>1, <2>5, <2>6, <2>8 DEF Inv, VerdictOfStored
      <4> QED  BY <4>2, <4>3
    <3> QED  BY <3>1, <1>1, <2>1, <2>2, <2>7 DEF Inv, VerdictOfStored, At
  <2>13. row[c].status = "ativa" => new.status = "ativa"
    BY <2>5 DEF StatusStored
  <2>14. StatusAsRead'
    BY <2>1, <2>2, <2>3, <2>6, <2>7, <2>8, <2>13 DEF Inv, StatusAsRead
  <2>15. ErrorIsDeserved'
    <3> SUFFICES ASSUME NEW d \in Stored, d \notin late', row'[d].status = "erro"
                 PROVE  row'[d].secret \in refused
      BY <2>7, <1>1 DEF ErrorIsDeserved
    <3>1. CASE d # c
      BY <3>1, <2>3, <2>6, <2>8 DEF Inv, ErrorIsDeserved
    <3>2. CASE d = c
      <4>1. mine.secret = None \/ mine.was = "ativa"
        BY <3>2, <2>5, <2>6 DEF StatusStored
      <4>2. row[c].status = "erro"
        BY <3>2, <2>5, <2>6 DEF StatusStored
      <4>3. mine.was # "ativa"
        BY <4>2, <3>2, <2>8, <1>1 DEF Inv, StatusAsRead, At
      <4> QED  BY <4>1, <4>2, <4>3, <3>2, <2>5, <2>6, <2>8 DEF Inv, ErrorIsDeserved
    <3> QED  BY <3>1, <3>2
  <2> QED  BY <2>9, <2>10, <2>11, <2>12, <2>14, <2>15 DEF Inv
<1>4. \/ UNCHANGED <<row, late>>
      \/ /\ c \in Stored /\ (mine.label # None => ~LabelTaken(row[c].type, mine.label, c))
         /\ row' = [row EXCEPT ![c] = new]
         /\ late' = IF mine.secret # None /\ Judging(c) THEN late \cup {c} ELSE late
  BY Zenon DEF UpdateStore
<1> QED  BY <1>2, <1>3, <1>4

LEMMA DeleteKeeps ==
  ASSUME Inv, NEW c \in Ids, Delete(c)
  PROVE  Inv'
<1>1. c \in Stored /\ row' = [row EXCEPT ![c] = Gone] /\ UNCHANGED <<accepted, request, refused, late>>
  BY DEF Delete
<1>2. /\ row \in [Ids -> Rows \cup {None, Gone}] /\ row'[c] = Gone
      /\ \A d \in Ids \ {c} : row'[d] = row[d]
  BY <1>1 DEF Inv, Shapes
<1>3. Stored' = Stored \ {c} /\ Stored \subseteq Ids
  BY <1>1, <1>2 DEF Stored
<1>4. Shapes'
  BY <1>1, <1>2, ConnectionConstants DEF Inv, Shapes, At
<1>5. LabelsUnique' /\ OneTypeOfOrigin' /\ OneCreation'
  BY <1>1, <1>2, <1>3 DEF Inv, LabelsUnique, OneTypeOfOrigin, OneCreation, At
<1>6. VerdictOfStored' /\ StatusAsRead' /\ ErrorIsDeserved'
  BY <1>1, <1>2, <1>3 DEF Inv, VerdictOfStored, StatusAsRead, ErrorIsDeserved, At
<1> QED  BY <1>4, <1>5, <1>6 DEF Inv

\* The invariant holds in every state of a run.
THEOREM ConnectionInvariant == Spec => []Inv
<1>1. Inv /\ [Next]_vars => Inv'
  <2> SUFFICES ASSUME Inv, [Next]_vars PROVE Inv'
    OBVIOUS
  <2>1. CASE ProviderChanges
    BY <2>1 DEF ProviderChanges, Inv, Shapes, LabelsUnique, OneCreation, OneTypeOfOrigin,
       VerdictOfStored, StatusAsRead, ErrorIsDeserved, Stored, At
  <2>2. CASE UNCHANGED vars
    BY <2>2 DEF vars, Inv, Shapes, LabelsUnique, OneCreation, OneTypeOfOrigin,
       VerdictOfStored, StatusAsRead, ErrorIsDeserved, Stored, At
  <2>3. ASSUME NEW c \in Ids, Delete(c) PROVE Inv'
    BY <2>3, DeleteKeeps
  <2>4. ASSUME NEW r \in Requests,
               \/ CreateCheck(r) \/ CreateInsert(r)
               \/ TestRead(r) \/ TestVerdict(r) \/ TestMark(r)
               \/ UpdateRead(r) \/ UpdateVerify(r) \/ UpdateStore(r)
        PROVE  Inv'
    BY <2>4, CreateCheckKeeps, CreateInsertKeeps, TestReadKeeps, TestVerdictKeeps, TestMarkKeeps,
       UpdateReadKeeps, UpdateVerifyKeeps, UpdateStoreKeeps
  <2>5. ASSUME NEW r \in Requests, Outage(r) \/ Abort(r) PROVE Inv'
    BY <2>5, EndsKeeps DEF Outage, Abort
  <2> QED  BY <2>1, <2>2, <2>3, <2>4, <2>5 DEF Next
<1> QED  BY InitInv, <1>1, PTL DEF Spec

-------------------------------------------------------------------------------
\* Types; no two connections of a client have one type and label, whatever a rename or a
\* creation overtakes.
THEOREM ConnectionsTypeCorrect == Spec => []TypeOK
<1>1. Inv => TypeOK
  BY DEF Inv, Shapes, LabelsUnique, TypeOK, Request, PCs
<1> QED  BY ConnectionInvariant, <1>1, PTL

\* A client has one type of origin, however many creations compete for the first.
THEOREM ClientHasOneTypeOfOrigin == Spec => []OneTypeOfOrigin
<1>1. Inv => OneTypeOfOrigin
  BY DEF Inv
<1> QED  BY ConnectionInvariant, <1>1, PTL

\* A connection in error holds a credential that was refused, unless verdict and
\* replacement overlapped.
THEOREM ErrorsAreDeserved == Spec => []ErrorIsDeserved
<1>1. Inv => ErrorIsDeserved
  BY DEF Inv
<1> QED  BY ConnectionInvariant, <1>1, PTL
===============================================================================
