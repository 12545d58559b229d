-------------------------- MODULE MovementBase_proofs --------------------------
(***************************************************************************)
(* Proofs about MovementBase, for any movements, accounts, months, files   *)
(* and syncs that overlap: a month of an account that was read in peace    *)
(* holds exactly what the origin has, and of several files one counts.     *)
(***************************************************************************)
EXTENDS MovementBase, TLAPS

PCs == {"idle", "reading", "upserted", "marking", "uploading"}

Request == [pc : PCs, month : Months, refreshed : BOOLEAN, accounts : SUBSET Accounts,
            read : SUBSET Accounts, found : [Ids -> Accounts \cup {Never}], seen : SUBSET Ids,
            gone : SUBSET Ids, dirty : SUBSET Accounts, file : Files \cup {Never}]

Shapes ==
  /\ place \in [Ids -> Cell \cup {Never}]
  /\ base \in [Ids -> Row \cup {Never}]
  /\ fileRows \in [Files -> {Never, "present", "absent"}]
  /\ known \in (SUBSET Accounts) \cup {Never} /\ open \subseteq Accounts
  /\ imports \subseteq Files /\ exact \subseteq Cell /\ last \in imports \cup {Never}
  /\ stamp \in [Months -> [synced : BOOLEAN, failed : BOOLEAN]]
  /\ request \in [Requests -> Request]

\* A movement that is stored was stored by a sync that stamped its month.
StoredIsSynced == \A i \in Ids : base[i] # Never => stamp[base[i].month].synced

CellOf(m, a) == [month |-> m, account |-> a]

\* What was read, and has not changed since, is what the origin has.
ReadIsTrue(rec) ==
  /\ rec.read \subseteq rec.accounts
  /\ \A i \in Ids : rec.found[i] # Never => rec.found[i] \in rec.read
  /\ \A a \in rec.read \ rec.dirty : \A i \in Ids :
       rec.found[i] = a <=> place[i] = CellOf(rec.month, a)

FoundBy(rec) == {i \in Ids : rec.found[i] # Never}

\* The rows that a sync is taking away are as it found them: it has locked them.
GoneStill(rec) ==
  \A i \in rec.gone :
    /\ i \notin FoundBy(rec) /\ base[i] # Never /\ base[i].present
    /\ base[i].month = rec.month /\ base[i].account \in rec.accounts

\* In an account that no outdated sync of the month wrote meanwhile, nothing is left over but
\* what the marking still has to visit.
NothingLeft(rec) ==
  \A a \in rec.accounts \ rec.dirty :
    PresentIn(CellOf(rec.month, a)) \subseteq FoundBy(rec) \cup rec.seen \cup rec.gone

Knows(rec) ==
  /\ ReadIsTrue(rec)
  /\ rec.pc # "marking" => rec.gone = {}
  /\ rec.pc \in {"upserted", "marking"} => rec.read = rec.accounts
  /\ rec.pc = "marking" => GoneStill(rec) /\ NothingLeft(rec)
  /\ rec.pc = "uploading" => rec.file \in Files

\* No two transactions write one row.
HeldBy(rec) == (IF rec.pc \in {"upserted", "marking"} THEN FoundBy(rec) ELSE {}) \cup rec.gone

RowLocks == \A q, r \in Requests : q # r => HeldBy(request[q]) \cap HeldBy(request[r]) = {}

Inv == /\ Shapes /\ StoredIsSynced /\ RowLocks /\ ExactMonth /\ OneFileCounts
       /\ \A r \in Requests : Knows(request[r])

-------------------------------------------------------------------------------
LEMMA HeldIs ==
  ASSUME NEW r \in Requests
  PROVE  Held(r) = HeldBy(request[r]) /\ Found(r) = FoundBy(request[r])
BY DEF Held, HeldBy, Found, FoundBy

LEMMA IdleKnows ==
  /\ Idle \in Request /\ Idle.pc = "idle" /\ Idle.gone = {}
  /\ Knows(Idle) /\ HeldBy(Idle) = {}
<1>1. Idle \in Request /\ Idle.pc = "idle" /\ Idle.read = {} /\ Idle.accounts = {}
      /\ Idle.found = [i \in Ids |-> Never] /\ Idle.gone = {}
  BY MovementConstants DEF Idle, Request, PCs
<1> QED  BY <1>1 DEF Knows, ReadIsTrue, HeldBy

LEMMA InitInv == Init => Inv
<1> SUFFICES ASSUME Init PROVE Inv
  OBVIOUS
<1>1. \A r \in Requests : request[r] = Idle
  BY DEF Init
<1>2. Shapes
  BY IdleKnows DEF Init, Shapes
<1>3. StoredIsSynced /\ ExactMonth /\ OneFileCounts
  BY MovementConstants DEF Init, StoredIsSynced, ExactMonth, OneFileCounts
<1>4. RowLocks
  BY <1>1, IdleKnows DEF RowLocks
<1> QED  BY <1>1, <1>2, <1>3, <1>4, IdleKnows DEF Inv

\* A step of one request that leaves movements, at the origin and stored, alone.
LEMMA OneRequest ==
  ASSUME Inv, NEW r \in Requests, NEW new \in Request, Knows(new),
         UNCHANGED <<place, base, exact>>, request' = [request EXCEPT ![r] = new],
         known' \in (SUBSET Accounts) \cup {Never}, open' \subseteq Accounts,
         fileRows' \in [Files -> {Never, "present", "absent"}], imports' \subseteq Files,
         last' \in imports' \cup {Never},
         stamp' \in [Months -> [synced : BOOLEAN, failed : BOOLEAN]],
         \A m \in Months : stamp[m].synced => stamp'[m].synced,
         OneFileCounts',
         \A q \in Requests \ {r} : HeldBy(request[q]) \cap HeldBy(new) = {}
  PROVE  Inv'
<1>1. request'[r] = new /\ \A q \in Requests : q # r => request'[q] = request[q]
  BY DEF Inv, Shapes
<1>2. Shapes'
  BY DEF Inv, Shapes
<1>3. StoredIsSynced'
  BY DEF Inv, Shapes, StoredIsSynced, Row
<1>4. RowLocks'
  <2>1. \A q \in Requests : HeldBy(request[q])' = IF q = r THEN HeldBy(new) ELSE HeldBy(request[q])
    BY <1>1 DEF HeldBy, FoundBy
  <2>2. ASSUME NEW p \in Requests, NEW q \in Requests, p # q
        PROVE  HeldBy(request[p])' \cap HeldBy(request[q])' = {}
    <3>1. CASE p = r
      BY <2>1, <2>2, <3>1
    <3>2. CASE q = r
      BY <2>1, <2>2, <3>2
    <3>3. CASE p # r /\ q # r
      BY <2>1, <2>2, <3>3 DEF Inv, RowLocks
    <3> QED  BY <3>1, <3>2, <3>3
  <2> QED  BY <2>2 DEF RowLocks
<1>5. ExactMonth'
  BY DEF Inv, ExactMonth, PresentIn, InCell
<1>6. ASSUME NEW q \in Requests PROVE Knows(request[q])'
  <2>1. Knows(request'[q])
    BY <1>1 DEF Inv
  <2> QED  BY <2>1 DEF Knows, ReadIsTrue, GoneStill, NothingLeft, PresentIn, FoundBy
<1> QED  BY <1>2, <1>3, <1>4, <1>5, <1>6 DEF Inv

LEMMA SyncStartKeeps ==
  ASSUME Inv, NEW r \in Requests, SyncStart(r)
  PROVE  Inv'
<1>1. PICK m \in Months, refreshed \in BOOLEAN :
        /\ refreshed \/ known # Never
        /\ Set(r, [Idle EXCEPT !.pc = "reading", !.month = m, !.refreshed = refreshed,
                               !.accounts = IF refreshed THEN open ELSE known])
  BY DEF SyncStart
<1> DEFINE accounts == IF refreshed THEN open ELSE known
           new == [Idle EXCEPT !.pc = "reading", !.month = m, !.refreshed = refreshed,
                               !.accounts = accounts]
<1>2. request' = [request EXCEPT ![r] = new] /\ UNCHANGED <<origin, stored>>
  BY <1>1 DEF Set, SyncStart
<1>3. accounts \in SUBSET Accounts
  BY <1>1 DEF Inv, Shapes
<1> HIDE DEF accounts
<1>4. /\ new \in Request /\ new.pc = "reading" /\ new.read = {} /\ new.gone = {}
      /\ new.found = [i \in Ids |-> Never]
  BY <1>3, IdleKnows DEF Idle, Request, PCs
<1> HIDE DEF new
<1>5. Knows(new) /\ HeldBy(new) = {}
  BY <1>4 DEF Knows, ReadIsTrue, HeldBy
<1>6. OneFileCounts'
  BY <1>2 DEF stored, OneFileCounts, Inv
<1>7. \A q \in Requests \ {r} : HeldBy(request[q]) \cap HeldBy(new) = {}
  BY <1>5
<1> QED  BY <1>2, <1>4, <1>5, <1>6, <1>7, OneRequest DEF origin, stored, Inv, Shapes

LEMMA SyncReadAccountKeeps ==
  ASSUME Inv, NEW r \in Requests, SyncReadAccount(r)
  PROVE  Inv'
<1> DEFINE mine == request[r]
<1>1. PICK a \in mine.accounts \ mine.read :
        Set(r, [mine EXCEPT
          !.read = @ \cup {a},
          !.found = [i \in Ids |-> IF InCell(i, CellOf(mine.month, a)) THEN a ELSE @[i]]])
  BY DEF SyncReadAccount, CellOf
<1> DEFINE read == mine.read \cup {a}
           found == [i \in Ids |-> IF place[i] = CellOf(mine.month, a) THEN a ELSE mine.found[i]]
           new == [mine EXCEPT !.read = read, !.found = found]
<1>2. request' = [request EXCEPT ![r] = new] /\ UNCHANGED <<origin, stored>>
  BY <1>1 DEF Set, SyncReadAccount, InCell
<1>3. mine \in Request /\ mine.pc = "reading" /\ ReadIsTrue(mine) /\ mine.gone = {}
  BY DEF SyncReadAccount, At, Inv, Shapes, Knows
<1>4. a \in Accounts /\ a # Never /\ a \in mine.accounts /\ a \notin mine.read
  BY <1>3, MovementConstants DEF Request
<1>5. read \in SUBSET Accounts /\ found \in [Ids -> Accounts \cup {Never}]
  BY <1>3, <1>4 DEF Request
<1>6. \A i \in Ids : found[i] = IF place[i] = CellOf(mine.month, a) THEN a ELSE mine.found[i]
  OBVIOUS
<1>r. \A b : b \in read <=> b \in mine.read \/ b = a
  OBVIOUS
<1> HIDE DEF read, found
<1>7. /\ new \in Request /\ new.pc = "reading" /\ new.read = read /\ new.found = found
      /\ new.month = mine.month /\ new.accounts = mine.accounts /\ new.dirty = mine.dirty
      /\ new.gone = {}
  BY <1>3, <1>5 DEF Request
<1> HIDE DEF new
<1>8. ReadIsTrue(new)
  <2>1. read \subseteq mine.accounts
    BY <1>3, <1>4, <1>r DEF ReadIsTrue
  <2>2. \A i \in Ids : found[i] # Never => found[i] \in read
    BY <1>3, <1>6, <1>r DEF ReadIsTrue
  <2>3. ASSUME NEW b \in read \ mine.dirty, NEW i \in Ids
        PROVE  found[i] = b <=> place[i] = CellOf(mine.month, b)
    <3>1. CASE b = a
      <4>1. mine.found[i] # a
        BY <1>3, <1>4 DEF ReadIsTrue
      <4> QED  BY <3>1, <4>1, <1>6
    <3>2. CASE b # a
      <4>1. b \in mine.read \ mine.dirty
        BY <3>2, <1>r
      <4>2. mine.found[i] = b <=> place[i] = CellOf(mine.month, b)
        BY <4>1, <1>3 DEF ReadIsTrue
      <4>3. CellOf(mine.month, a) # CellOf(mine.month, b)
        BY <3>2 DEF CellOf
      <4> QED  BY <3>2, <4>2, <4>3, <1>6
    <3> QED  BY <3>1, <3>2
  <2> QED  BY <2>1, <2>2, <2>3, <1>7 DEF ReadIsTrue
<1>9. Knows(new) /\ HeldBy(new) = {}
  BY <1>7, <1>8 DEF Knows, HeldBy
<1>10. OneFileCounts'
  BY <1>2 DEF stored, OneFileCounts, Inv
<1>11. \A q \in Requests \ {r} : HeldBy(request[q]) \cap HeldBy(new) = {}
  BY <1>9
<1> QED  BY <1>2, <1>7, <1>9, <1>10, <1>11, OneRequest DEF origin, stored, Inv, Shapes

\* The rows of a sync: given, then looked for, then visited.
LEMMA SyncUpsertKeeps ==
  ASSUME Inv, NEW r \in Requests, SyncUpsert(r)
  PROVE  Inv'
<1> DEFINE mine == request[r]
           new == [mine EXCEPT !.pc = "upserted"]
<1>1. /\ mine.pc = "reading" /\ mine.read = mine.accounts
      /\ \A q \in Requests \ {r} : HeldBy(request[q]) \cap FoundBy(mine) = {}
      /\ request' = [request EXCEPT ![r] = new]
      /\ UNCHANGED <<origin, stored>>
  BY HeldIs DEF SyncUpsert, AllRead, Free, Set, At
<1>2. mine \in Request /\ ReadIsTrue(mine) /\ mine.gone = {}
  BY <1>1 DEF Inv, Shapes, Knows
<1>3. /\ new \in Request /\ new.pc = "upserted" /\ new.gone = {}
      /\ new.read = mine.read /\ new.found = mine.found
      /\ new.month = mine.month /\ new.accounts = mine.accounts /\ new.dirty = mine.dirty
  BY <1>2 DEF Request, PCs
<1> HIDE DEF new
<1>4. HeldBy(new) = FoundBy(mine)
  BY <1>3 DEF HeldBy, FoundBy
<1>5. Knows(new)
  BY <1>1, <1>2, <1>3 DEF Knows, ReadIsTrue
<1>6. OneFileCounts'
  BY <1>1 DEF stored, OneFileCounts, Inv
<1> QED  BY <1>1, <1>3, <1>4, <1>5, <1>6, OneRequest DEF origin, stored, Inv, Shapes

\* What a marking takes away.
LEMMA LeavingIs ==
  ASSUME NEW r \in Requests
  PROVE  \A i : i \in Leaving(r) <=>
           /\ i \in Ids /\ i \notin FoundBy(request[r])
           /\ base[i] # Never /\ base[i].present
           /\ base[i].month = request[r].month /\ base[i].account \in request[r].accounts
BY HeldIs DEF Leaving, Missing

LEMMA SyncMarkKeeps ==
  ASSUME Inv, NEW r \in Requests, SyncMark(r)
  PROVE  Inv'
<1> DEFINE mine == request[r]
           seen == Leaving(r)
           new == [mine EXCEPT !.pc = "marking", !.seen = seen]
<1>1. /\ mine.pc = "upserted"
      /\ request' = [request EXCEPT ![r] = new]
      /\ UNCHANGED <<origin, stored>>
  BY DEF SyncMark, Set, At
<1>2. mine \in Request /\ ReadIsTrue(mine) /\ mine.gone = {} /\ mine.read = mine.accounts
  BY <1>1 DEF Inv, Shapes, Knows
<1>3. seen \in SUBSET Ids
  BY LeavingIs
<1>4. \A i : i \in seen <=> /\ i \in Ids /\ i \notin FoundBy(mine)
                            /\ base[i] # Never /\ base[i].present
                            /\ base[i].month = mine.month /\ base[i].account \in mine.accounts
  BY LeavingIs
<1> HIDE DEF seen
<1>5. /\ new \in Request /\ new.pc = "marking" /\ new.gone = {} /\ new.seen = seen
      /\ new.read = mine.read /\ new.found = mine.found
      /\ new.month = mine.month /\ new.accounts = mine.accounts /\ new.dirty = mine.dirty
  BY <1>2, <1>3 DEF Request, PCs
<1> HIDE DEF new
<1>6. FoundBy(new) = FoundBy(mine)
  BY <1>5 DEF FoundBy
<1>7. HeldBy(new) = HeldBy(mine)
  BY <1>1, <1>2, <1>5, <1>6 DEF HeldBy
<1>8. ReadIsTrue(new) /\ GoneStill(new)
  BY <1>2, <1>5 DEF ReadIsTrue, GoneStill
<1>9. NothingLeft(new)
  <2> SUFFICES ASSUME NEW a \in new.accounts \ new.dirty,
                      NEW i \in PresentIn(CellOf(new.month, a)), i \notin FoundBy(new)
               PROVE  i \in seen
    BY <1>5 DEF NothingLeft
  <2>1. /\ i \in Ids /\ base[i] # Never /\ base[i].present
        /\ base[i].month = mine.month /\ base[i].account = a
    BY <1>5 DEF PresentIn, CellOf
  <2> QED  BY <2>1, <1>4, <1>5, <1>6
<1>10. Knows(new)
  BY <1>2, <1>5, <1>8, <1>9 DEF Knows
<1>11. \A q \in Requests \ {r} : HeldBy(request[q]) \cap HeldBy(new) = {}
  BY <1>7 DEF Inv, RowLocks
<1>12. OneFileCounts'
  BY <1>1 DEF stored, OneFileCounts, Inv
<1> QED  BY <1>1, <1>5, <1>10, <1>11, <1>12, OneRequest DEF origin, stored, Inv, Shapes

LEMMA SyncMarkRowKeeps ==
  ASSUME Inv, NEW r \in Requests, SyncMarkRow(r)
  PROVE  Inv'
<1> DEFINE mine == request[r]
<1>1. PICK i \in mine.seen :
        /\ Free(r, {i})
        /\ Set(r, [mine EXCEPT !.seen = mine.seen \ {i}, !.gone = mine.gone \cup ({i} \cap Leaving(r))])
  BY DEF SyncMarkRow
<1> DEFINE seen == mine.seen \ {i}
           gone == mine.gone \cup ({i} \cap Leaving(r))
           new == [mine EXCEPT !.seen = seen, !.gone = gone]
<1>2. request' = [request EXCEPT ![r] = new] /\ UNCHANGED <<origin, stored>>
  BY <1>1 DEF Set, SyncMarkRow
<1>3. mine.pc = "marking" /\ mine \in Request
  BY DEF SyncMarkRow, At, Inv, Shapes
<1>4. ReadIsTrue(mine) /\ mine.read = mine.accounts /\ GoneStill(mine) /\ NothingLeft(mine)
  BY <1>3 DEF Inv, Knows
<1>5. i \in Ids /\ seen \in SUBSET Ids /\ gone \in SUBSET Ids
  BY <1>1, <1>3 DEF Request
<1>6. \A j \in gone : j \in mine.gone \/ (j = i /\ i \in Leaving(r))
  OBVIOUS
<1>7. mine.gone \subseteq gone /\ (i \in Leaving(r) => i \in gone)
      /\ \A j \in mine.seen : j # i => j \in seen
  OBVIOUS
<1> HIDE DEF seen, gone
<1>8. /\ new \in Request /\ new.pc = "marking" /\ new.gone = gone /\ new.seen = seen
      /\ new.read = mine.read /\ new.found = mine.found
      /\ new.month = mine.month /\ new.accounts = mine.accounts /\ new.dirty = mine.dirty
  BY <1>3, <1>5 DEF Request
<1> HIDE DEF new
<1>9. FoundBy(new) = FoundBy(mine)
  BY <1>8 DEF FoundBy
<1>10. ReadIsTrue(new)
  BY <1>4, <1>8 DEF ReadIsTrue
<1>11. GoneStill(new)
  BY <1>4, <1>6, <1>8, <1>9, LeavingIs DEF GoneStill
<1>12. NothingLeft(new)
  <2> SUFFICES ASSUME NEW a \in new.accounts \ new.dirty,
                      NEW j \in PresentIn(CellOf(new.month, a)), j \notin FoundBy(new)
               PROVE  j \in seen \/ j \in gone
    BY <1>8 DEF NothingLeft
  <2>1. /\ j \in Ids /\ base[j] # Never /\ base[j].present
        /\ base[j].month = mine.month /\ base[j].account = a
    BY <1>8 DEF PresentIn, CellOf
  <2>2. j \in mine.seen \/ j \in mine.gone
    BY <1>4, <1>8, <1>9 DEF NothingLeft
  <2>3. j \in Leaving(r)
    BY <2>1, <1>8, <1>9, LeavingIs
  <2> QED  BY <2>2, <2>3, <1>7
<1>13. Knows(new)
  BY <1>4, <1>8, <1>10, <1>11, <1>12 DEF Knows
<1>14. ASSUME NEW q \in Requests \ {r} PROVE HeldBy(request[q]) \cap HeldBy(new) = {}
  <2>1. HeldBy(request[q]) \cap HeldBy(mine) = {} /\ i \notin HeldBy(request[q])
    BY <1>1, HeldIs DEF Free, Inv, RowLocks
  <2>2. \A j \in HeldBy(new) : j \in HeldBy(mine) \/ j = i
    BY <1>3, <1>6, <1>8, <1>9 DEF HeldBy
  <2> QED  BY <2>1, <2>2
<1>15. OneFileCounts'
  BY <1>2 DEF stored, OneFileCounts, Inv
<1> QED  BY <1>2, <1>8, <1>13, <1>14, <1>15, OneRequest DEF origin, stored, Inv, Shapes

\* A request that ends, with no movement stored; perhaps a month is marked, or the accounts.
LEMMA EndsKeeps ==
  ASSUME Inv, NEW r \in Requests, End(r),
         UNCHANGED <<place, base, exact>>,
         known' \in (SUBSET Accounts) \cup {Never}, open' \subseteq Accounts,
         fileRows' \in [Files -> {Never, "present", "absent"}], imports' \subseteq Files,
         last' \in imports' \cup {Never},
         stamp' \in [Months -> [synced : BOOLEAN, failed : BOOLEAN]],
         \A m \in Months : stamp[m].synced => stamp'[m].synced,
         OneFileCounts'
  PROVE  Inv'
BY IdleKnows, OneRequest DEF End, Set

LEMMA FailedStamps ==
  ASSUME Inv, NEW m \in Months, stamp' = Failed(m)
  PROVE  /\ stamp' \in [Months -> [synced : BOOLEAN, failed : BOOLEAN]]
         /\ \A n \in Months : stamp[n].synced => stamp'[n].synced
BY DEF Inv, Shapes, Failed

LEMMA SyncedStamps ==
  ASSUME Inv, NEW m \in Months, stamp' = Synced(m)
  PROVE  /\ stamp' \in [Months -> [synced : BOOLEAN, failed : BOOLEAN]]
         /\ \A n \in Months : stamp[n].synced => stamp'[n].synced
         /\ stamp'[m].synced
BY DEF Inv, Shapes, Synced

LEMMA Published ==
  ASSUME Inv, NEW r \in Requests, Publish(r)
  PROVE  known' \in (SUBSET Accounts) \cup {Never}
BY DEF Inv, Shapes, Request, Publish

LEMMA SyncReadFailedKeeps ==
  ASSUME Inv, NEW r \in Requests, SyncReadFailed(r)
  PROVE  Inv'
<1>1. request[r].month \in Months
  BY DEF Inv, Shapes, Request
<1>2. /\ stamp' = Failed(request[r].month) /\ Publish(r) /\ End(r)
      /\ UNCHANGED <<origin, base, fileRows, imports, exact, last>>
  BY DEF SyncReadFailed
<1>3. OneFileCounts'
  BY <1>2 DEF OneFileCounts, Inv
<1> QED  BY <1>1, <1>2, <1>3, FailedStamps, Published, EndsKeeps DEF origin, Inv, Shapes

LEMMA PersistFailedKeeps ==
  ASSUME Inv, NEW r \in Requests, PersistFailed(r)
  PROVE  Inv'
<1>1. request[r].month \in Months
  BY DEF Inv, Shapes, Request
<1>2. /\ stamp' = Failed(request[r].month) /\ End(r)
      /\ UNCHANGED <<origin, known, base, fileRows, imports, exact, last>>
  BY DEF PersistFailed
<1>3. OneFileCounts'
  BY <1>2 DEF OneFileCounts, Inv
<1> QED  BY <1>1, <1>2, <1>3, FailedStamps, EndsKeeps DEF origin, Inv, Shapes

LEMMA AbortKeeps ==
  ASSUME Inv, NEW r \in Requests, Abort(r)
  PROVE  Inv'
<1>1. End(r) /\ UNCHANGED <<origin, stored>>
  BY DEF Abort
<1>2. OneFileCounts'
  BY <1>1 DEF stored, OneFileCounts, Inv
<1> QED  BY <1>1, <1>2, EndsKeeps DEF origin, stored, Inv, Shapes

LEMMA UploadKeeps ==
  ASSUME Inv, NEW r \in Requests, Upload(r)
  PROVE  Inv'
<1>1. PICK f \in Files \ imports : Set(r, [Idle EXCEPT !.pc = "uploading", !.file = f])
  BY DEF Upload
<1> DEFINE new == [Idle EXCEPT !.pc = "uploading", !.file = f]
<1>2. request' = [request EXCEPT ![r] = new] /\ UNCHANGED <<origin, stored>>
  BY <1>1 DEF Set, Upload
<1>3. /\ new \in Request /\ new.pc = "uploading" /\ new.file = f /\ new.read = {} /\ new.gone = {}
      /\ new.found = [i \in Ids |-> Never]
  BY IdleKnows DEF Idle, Request, PCs
<1> HIDE DEF new
<1>4. Knows(new) /\ HeldBy(new) = {}
  BY <1>3 DEF Knows, ReadIsTrue, HeldBy
<1>5. OneFileCounts'
  BY <1>2 DEF stored, OneFileCounts, Inv
<1>6. \A q \in Requests \ {r} : HeldBy(request[q]) \cap HeldBy(new) = {}
  BY <1>4
<1> QED  BY <1>2, <1>3, <1>4, <1>5, <1>6, OneRequest DEF origin, stored, Inv, Shapes

LEMMA UploadCommitKeeps ==
  ASSUME Inv, NEW r \in Requests, UploadCommit(r)
  PROVE  Inv'
<1> DEFINE f == request[r].file
<1>1. f \in Files /\ FileMonth \in Months
  BY MovementConstants DEF UploadCommit, At, Inv, Knows
<1>2. End(r) /\ UNCHANGED <<origin, known, base, exact>>
  BY DEF UploadCommit
<1>3. CASE NotSent(f)
  <2>1. /\ imports' = imports \cup {f} /\ last' = f
        /\ fileRows' = [g \in Files |-> IF g = f /\ f \notin Blank THEN "present"
                                        ELSE IF g \in Replaces(f) THEN "absent" ELSE fileRows[g]]
        /\ stamp' = Synced(FileMonth)
    BY <1>3 DEF UploadCommit
  <2>2. /\ fileRows' \in [Files -> {Never, "present", "absent"}]
        /\ imports' \subseteq Files /\ last' \in imports' \cup {Never}
    BY <1>1, <2>1 DEF Inv, Shapes
  <2>3. fileRows'[f] = "present" <=> f \notin Blank
    <3>1. f \notin imports /\ (last = f => f = Never)
      BY <1>3 DEF NotSent, Inv, Shapes
    <3>2. fileRows[f] # "present"
      BY <1>1, <3>1, MovementConstants DEF Inv, OneFileCounts
    <3> QED  BY <1>1, <2>1, <3>2 DEF Replaces
  <2>4. \A g \in Files : g # f => fileRows'[g] # "present"
    BY <2>1 DEF Replaces
  <2>5. OneFileCounts'
    BY <1>1, <2>1, <2>3, <2>4 DEF OneFileCounts
  <2> QED  BY <1>1, <1>2, <2>1, <2>2, <2>5, SyncedStamps, EndsKeeps DEF origin, Inv, Shapes
<1>4. CASE ~NotSent(f)
  <2>1. UNCHANGED <<imports, fileRows, stamp, last>>
    BY <1>4 DEF UploadCommit
  <2>2. OneFileCounts'
    BY <2>1 DEF OneFileCounts, Inv
  <2> QED  BY <1>2, <2>1, <2>2, EndsKeeps DEF origin, Inv, Shapes
<1> QED  BY <1>3, <1>4

\* At the origin or in the cache, but no movement.
LEMMA AccountsKeep ==
  ASSUME Inv, AccountsChange \/ SwitchOrigin
  PROVE  Inv'
<1>1. UNCHANGED <<place, base, fileRows, imports, stamp, request, exact, last>>
  BY DEF AccountsChange, SwitchOrigin, stored
<1>2. open' \subseteq Accounts /\ known' \in (SUBSET Accounts) \cup {Never}
  BY DEF AccountsChange, SwitchOrigin, stored, Inv, Shapes
<1>3. Shapes' /\ StoredIsSynced' /\ RowLocks' /\ ExactMonth' /\ OneFileCounts'
  BY <1>1, <1>2 DEF Inv, Shapes, StoredIsSynced, RowLocks, HeldBy, FoundBy, ExactMonth,
     PresentIn, InCell, OneFileCounts
<1>4. \A r \in Requests : Knows(request[r])'
  BY <1>1 DEF Inv, Knows, ReadIsTrue, GoneStill, NothingLeft, PresentIn, FoundBy
<1> QED  BY <1>3, <1>4 DEF Inv

LEMMA OriginMovesKeeps ==
  ASSUME Inv, NEW i \in Ids, OriginMoves(i)
  PROVE  Inv'
<1> DEFINE hit(rec) == {a \in rec.read : CellOf(rec.month, a) \in {place[i], place'[i]}}
<1>1. PICK p \in Cell \cup {Never} : place' = [place EXCEPT ![i] = p]
  BY DEF OriginMoves
<1>2. /\ exact' = exact \ {place[i], place'[i]}
      /\ request' = [r \in Requests |-> [request[r] EXCEPT !.dirty = request[r].dirty \cup hit(request[r])]]
      /\ UNCHANGED <<open, known, base, fileRows, imports, stamp, last>>
  BY DEF OriginMoves, CellOf
<1>3. \A r \in Requests : request[r] \in Request /\ hit(request[r]) \subseteq Accounts
  BY DEF Inv, Shapes, Request
<1>4. ASSUME NEW r \in Requests
      PROVE  /\ request'[r] \in Request
             /\ request'[r].pc = request[r].pc /\ request'[r].month = request[r].month
             /\ request'[r].accounts = request[r].accounts /\ request'[r].read = request[r].read
             /\ request'[r].found = request[r].found /\ request'[r].gone = request[r].gone
             /\ request'[r].seen = request[r].seen /\ request'[r].file = request[r].file
             /\ request'[r].dirty = request[r].dirty \cup hit(request[r])
  <2> DEFINE dirty == request[r].dirty \cup hit(request[r])
  <2>1. dirty \in SUBSET Accounts
    BY <1>3 DEF Request
  <2>2. request'[r] = [request[r] EXCEPT !.dirty = dirty]
    BY <1>2
  <2> HIDE DEF dirty
  <2>3. /\ request'[r] \in Request
        /\ request'[r].pc = request[r].pc /\ request'[r].month = request[r].month
        /\ request'[r].accounts = request[r].accounts /\ request'[r].read = request[r].read
        /\ request'[r].found = request[r].found /\ request'[r].gone = request[r].gone
        /\ request'[r].seen = request[r].seen /\ request'[r].file = request[r].file
        /\ request'[r].dirty = dirty
    BY <1>3, <2>1, <2>2 DEF Request
  <2> QED  BY <2>3 DEF dirty
<1>5. \A r \in Requests : \A a \in request[r].read :
        a \notin request'[r].dirty => /\ a \notin request[r].dirty
                                      /\ CellOf(request[r].month, a) # place[i]
                                      /\ CellOf(request[r].month, a) # place'[i]
  BY <1>4
<1> HIDE DEF hit
<1>6. place' \in [Ids -> Cell \cup {Never}] /\ \A j \in Ids : j # i => place'[j] = place[j]
  BY <1>1 DEF Inv, Shapes
<1>7. Shapes'
  BY <1>2, <1>4, <1>6 DEF Inv, Shapes
<1>8. StoredIsSynced' /\ OneFileCounts'
  BY <1>2 DEF Inv, StoredIsSynced, OneFileCounts
<1>9. \A r \in Requests : HeldBy(request[r])' = HeldBy(request[r])
  BY <1>4 DEF HeldBy, FoundBy
<1>10. RowLocks'
  BY <1>9 DEF Inv, RowLocks
<1>11. ExactMonth'
  <2> SUFFICES ASSUME NEW c \in exact' PROVE PresentIn(c)' = {j \in Ids : InCell(j, c)'}
    BY DEF ExactMonth
  <2>1. c \in exact /\ c # place[i] /\ c # place'[i]
    BY <1>2
  <2>2. PresentIn(c)' = PresentIn(c)
    BY <1>2 DEF PresentIn
  <2>3. PresentIn(c) = {j \in Ids : InCell(j, c)}
    BY <2>1 DEF Inv, ExactMonth
  <2>4. \A j \in Ids : InCell(j, c)' <=> InCell(j, c)
    BY <1>6, <2>1 DEF InCell
  <2> QED  BY <2>2, <2>3, <2>4
<1>12. ASSUME NEW r \in Requests PROVE Knows(request[r])'
  <2>1. Knows(request[r])
    BY DEF Inv
  <2>2. ReadIsTrue(request[r])'
    <3>1. request'[r].read \subseteq request'[r].accounts
      BY <1>4, <2>1 DEF Knows, ReadIsTrue
    <3>2. \A j \in Ids : request'[r].found[j] # Never => request'[r].found[j] \in request'[r].read
      BY <1>4, <2>1 DEF Knows, ReadIsTrue
    <3>3. ASSUME NEW a \in request'[r].read \ request'[r].dirty, NEW j \in Ids
          PROVE  request'[r].found[j] = a <=> place'[j] = CellOf(request'[r].month, a)
      <4>1. a \in request[r].read \ request[r].dirty
            /\ CellOf(request[r].month, a) # place[i] /\ CellOf(request[r].month, a) # place'[i]
        BY <1>4, <1>5
      <4>2. request[r].found[j] = a <=> place[j] = CellOf(request[r].month, a)
        BY <2>1, <4>1 DEF Knows, ReadIsTrue
      <4>3. CASE j = i
        BY <1>4, <4>1, <4>2, <4>3
      <4>4. CASE j # i
        BY <1>4, <1>6, <4>2, <4>4
      <4> QED  BY <4>3, <4>4
    <3> QED  BY <3>1, <3>2, <3>3 DEF ReadIsTrue
  <2>3. FoundBy(request[r])' = FoundBy(request[r])
    BY <1>4 DEF FoundBy
  <2>4. GoneStill(request[r]) => GoneStill(request[r])'
    BY <1>2, <1>4, <2>3 DEF GoneStill
  <2>5. NothingLeft(request[r]) => NothingLeft(request[r])'
    <3>1. \A c : PresentIn(c)' = PresentIn(c)
      BY <1>2 DEF PresentIn
    <3>2. \A a \in request'[r].accounts \ request'[r].dirty : a \in request[r].accounts \ request[r].dirty
      BY <1>4
    <3> QED  BY <1>4, <2>3, <3>1, <3>2 DEF NothingLeft
  <2> QED  BY <1>4, <2>1, <2>2, <2>4, <2>5 DEF Knows
<1> QED  BY <1>7, <1>8, <1>10, <1>11, <1>12 DEF Inv

-------------------------------------------------------------------------------
(* The commit of a sync.                                                    *)

LEMMA SyncCommitKeeps ==
  ASSUME Inv, NEW r \in Requests, SyncCommit(r)
  PROVE  Inv'
<1> DEFINE mine == request[r]
           cells == [month : {mine.month}, account : mine.accounts]
           overtaken == [month : {mine.month}, account : mine.dirty]
<1>1. /\ mine.pc = "marking" /\ mine.seen = {} /\ stamp' = Synced(mine.month) /\ Publish(r)
      /\ base' = [i \in Ids |->
           IF i \in Found(r) THEN Upserted(mine, i)
           ELSE IF i \in mine.gone THEN [base[i] EXCEPT !.present = FALSE] ELSE base[i]]
      /\ exact' = (exact \cup cells) \ (Disturbed(r) \cup overtaken)
      /\ UNCHANGED <<place, open, kind, fileRows, imports, last>>
  BY DEF SyncCommit, At, origin
<1>2. /\ request \in [Requests -> Request] /\ mine \in Request
      /\ base \in [Ids -> Row \cup {Never}] /\ place \in [Ids -> Cell \cup {Never}]
  BY DEF Inv, Shapes
<1>3. mine.month \in Months /\ mine.accounts \subseteq Accounts /\ mine.gone \subseteq Ids
      /\ mine.dirty \subseteq Accounts
  BY <1>2 DEF Request
<1>4. /\ ReadIsTrue(mine) /\ mine.read = mine.accounts /\ GoneStill(mine) /\ NothingLeft(mine)
  BY <1>1 DEF Inv, Knows
<1>5. Found(r) = FoundBy(mine) /\ \A i : i \in Found(r) <=> i \in Ids /\ mine.found[i] # Never
  BY DEF Found, FoundBy
<1>6. \A i \in Found(r) : mine.found[i] \in mine.accounts /\ mine.found[i] \in Accounts
  BY <1>3, <1>4, <1>5 DEF ReadIsTrue
\* The rows, one by one.
<1>8. ASSUME NEW i \in Found(r)
      PROVE  /\ base'[i] \in Row /\ base'[i].present
             /\ base'[i].month = mine.month /\ base'[i].account = mine.found[i]
  BY <1>1, <1>3, <1>5, <1>6 DEF Upserted, Row
<1>9. ASSUME NEW i \in mine.gone
      PROVE  /\ i \notin Found(r) /\ base'[i] \in Row /\ ~base'[i].present
             /\ base'[i].month = base[i].month
  <2>1. i \in Ids /\ i \notin Found(r) /\ base[i] \in Row
    BY <1>2, <1>3, <1>4, <1>5 DEF GoneStill
  <2>2. base'[i] = [base[i] EXCEPT !.present = FALSE]
    BY <1>1, <2>1
  <2> QED  BY <2>1, <2>2 DEF Row
<1>10. \A i \in Ids : i \notin Found(r) /\ i \notin mine.gone => base'[i] = base[i]
  BY <1>1
<1>11. base' \in [Ids -> Row \cup {Never}]
  <2>1. \A i \in Ids : base'[i] \in Row \cup {Never}
    BY <1>2, <1>8, <1>9, <1>10
  <2> QED  BY <1>1, <2>1
\* The other requests.
<1>12. request' = [q \in Requests |-> IF q = r THEN Idle
           ELSE IF At(q, "marking") /\ request[q].month = mine.month
           THEN [request[q] EXCEPT !.dirty = request[q].dirty \cup mine.dirty]
           ELSE request[q]]
  BY DEF SyncCommit
<1>13. request'[r] = Idle
  BY <1>12
<1>14. ASSUME NEW q \in Requests, q # r
       PROVE  /\ request'[q] \in Request
              /\ request'[q].pc = request[q].pc /\ request'[q].month = request[q].month
              /\ request'[q].accounts = request[q].accounts /\ request'[q].read = request[q].read
              /\ request'[q].found = request[q].found /\ request'[q].gone = request[q].gone
              /\ request'[q].seen = request[q].seen /\ request'[q].file = request[q].file
              /\ request[q].dirty \subseteq request'[q].dirty
              /\ request[q].pc = "marking" /\ request[q].month = mine.month
                   => mine.dirty \subseteq request'[q].dirty
  <2>1. request[q] \in Request
    BY <1>2
  <2>2. CASE request[q].pc = "marking" /\ request[q].month = mine.month
    <3> DEFINE dirty == request[q].dirty \cup mine.dirty
    <3>1. dirty \in SUBSET Accounts
      BY <1>3, <2>1 DEF Request
    <3>2. request'[q] = [request[q] EXCEPT !.dirty = dirty]
      BY <1>12, <1>14, <2>2 DEF At
    <3>3. request[q].dirty \subseteq dirty /\ mine.dirty \subseteq dirty
      OBVIOUS
    <3> HIDE DEF dirty
    <3> QED  BY <2>1, <3>1, <3>2, <3>3 DEF Request
  <2>3. CASE ~(request[q].pc = "marking" /\ request[q].month = mine.month)
    <3>1. request'[q] = request[q]
      BY <1>12, <1>14, <2>3 DEF At
    <3> QED  BY <2>1, <2>3, <3>1
  <2> QED  BY <2>2, <2>3
<1>15. exact' \subseteq Cell
  BY <1>1, <1>3 DEF Inv, Shapes, Cell
<1>16. Shapes'
  <2>1. known' \in (SUBSET Accounts) \cup {Never}
    BY <1>1, Published
  <2>2. stamp' \in [Months -> [synced : BOOLEAN, failed : BOOLEAN]]
    BY <1>1, <1>3, SyncedStamps
  <2>3. request' \in [Requests -> Request]
    BY <1>12, <1>13, <1>14, IdleKnows
  <2> QED  BY <1>1, <1>11, <1>15, <2>1, <2>2, <2>3 DEF Inv, Shapes
<1>17. StoredIsSynced'
  <2>1. /\ \A m \in Months : stamp[m].synced => stamp'[m].synced
        /\ stamp'[mine.month].synced
    BY <1>1, <1>3, SyncedStamps
  <2>2. ASSUME NEW i \in Ids, base'[i] # Never PROVE stamp'[base'[i].month].synced
    <3>1. CASE i \in Found(r)
      BY <1>8, <2>1, <3>1
    <3>2. CASE i \in mine.gone
      <4>1. base[i].month = mine.month
        BY <1>4, <3>2 DEF GoneStill
      <4> QED  BY <1>9, <2>1, <3>2, <4>1
    <3>3. CASE i \notin Found(r) /\ i \notin mine.gone
      <4>1. base'[i] = base[i] /\ base[i] \in Row
        BY <1>2, <1>10, <2>2, <3>3
      <4>2. base[i].month \in Months /\ base[i] # Never
        BY <2>2, <4>1 DEF Row
      <4>3. stamp[base[i].month].synced
        BY <4>2 DEF Inv, StoredIsSynced
      <4> QED  BY <2>1, <4>1, <4>2, <4>3
    <3> QED  BY <3>1, <3>2, <3>3
  <2> QED  BY <2>2 DEF StoredIsSynced
<1>18. /\ HeldBy(request[r])' = {} /\ HeldBy(mine) = Found(r) \cup mine.gone
       /\ \A q \in Requests : q # r => HeldBy(request[q])' = HeldBy(request[q])
  <2>1. HeldBy(request[r])' = {}
    BY <1>13, IdleKnows DEF HeldBy
  <2>2. \A q \in Requests : q # r => HeldBy(request[q])' = HeldBy(request[q])
    BY <1>14 DEF HeldBy, FoundBy
  <2> QED  BY <1>1, <1>5, <2>1, <2>2 DEF HeldBy
<1>19. RowLocks'
  BY <1>18 DEF Inv, RowLocks
<1>20. ExactMonth'
  <2> SUFFICES ASSUME NEW c \in exact'
               PROVE  \A i \in Ids : i \in PresentIn(c)' <=> place[i] = c
    BY <1>1 DEF ExactMonth, InCell, PresentIn
  <2>1. c \in Cell /\ c = CellOf(c.month, c.account) /\ c \notin Disturbed(r) /\ c \notin overtaken
    BY <1>1, <1>15 DEF Cell, CellOf
  <2>2. CASE c \in cells
    <3>1. c.month = mine.month /\ c.account \in mine.accounts \ mine.dirty /\ c = CellOf(mine.month, c.account)
      BY <2>1, <2>2
    <3>2. \A i \in Ids : mine.found[i] = c.account <=> place[i] = c
      BY <1>4, <3>1 DEF ReadIsTrue
    <3>3. c.account # Never
      BY <1>3, <3>1, MovementConstants
    <3>4. ASSUME NEW i \in Ids PROVE i \in PresentIn(c)' <=> mine.found[i] = c.account
      <4>1. CASE i \in Found(r)
        <5>1. base'[i] # Never
          BY <1>8, <4>1, MovementConstants
        <5> QED  BY <1>8, <3>1, <4>1, <5>1 DEF PresentIn
      <4>2. CASE i \in mine.gone
        <5>1. i \notin PresentIn(c)' /\ mine.found[i] = Never
          BY <1>5, <1>9, <4>2 DEF PresentIn
        <5> QED  BY <3>3, <5>1
      <4>3. CASE i \notin Found(r) /\ i \notin mine.gone
        <5>1. i \notin PresentIn(c)
          BY <1>1, <1>4, <1>5, <3>1, <4>3 DEF NothingLeft
        <5>2. i \notin PresentIn(c)'
          BY <1>10, <4>3, <5>1 DEF PresentIn
        <5> QED  BY <1>5, <3>3, <4>3, <5>2
      <4> QED  BY <4>1, <4>2, <4>3
    <3> QED  BY <3>2, <3>4
  <2>3. CASE c \notin cells
    <3>1. c \in exact /\ ~(c.month = mine.month /\ c.account \in mine.accounts)
      BY <1>1, <2>1, <2>3 DEF CellOf
    <3>2. \A i \in Ids : i \in PresentIn(c) <=> place[i] = c
      BY <3>1 DEF Inv, ExactMonth, InCell, PresentIn
    <3>3. ASSUME NEW i \in Ids PROVE i \in PresentIn(c)' <=> i \in PresentIn(c)
      <4>1. CASE i \in Found(r)
        <5>1. i \notin PresentIn(c)'
          BY <1>6, <1>8, <3>1, <4>1 DEF PresentIn
        <5>2. CellOf(mine.month, mine.found[i]) # c
          BY <1>6, <3>1, <4>1 DEF CellOf
        <5>3. i \notin PresentIn(c)
          <6>1. CASE place[i] = CellOf(mine.month, mine.found[i])
            BY <3>2, <5>2, <6>1
          <6>2. CASE place[i] # CellOf(mine.month, mine.found[i])
            BY <2>1, <4>1, <6>2 DEF Disturbed, InCell, CellOf
          <6> QED  BY <6>1, <6>2
        <5> QED  BY <5>1, <5>3
      <4>2. CASE i \in mine.gone
        <5>1. i \notin PresentIn(c)'
          BY <1>9, <4>2 DEF PresentIn
        <5>2. i \notin PresentIn(c)
          BY <1>4, <3>1, <4>2 DEF GoneStill, PresentIn
        <5> QED  BY <5>1, <5>2
      <4>3. CASE i \notin Found(r) /\ i \notin mine.gone
        BY <1>10, <4>3 DEF PresentIn
      <4> QED  BY <4>1, <4>2, <4>3
    <3> QED  BY <3>2, <3>3
  <2> QED  BY <2>2, <2>3
<1>21. OneFileCounts'
  BY <1>1 DEF Inv, OneFileCounts
<1>22. ASSUME NEW q \in Requests PROVE Knows(request[q])'
  <2>1. CASE q = r
    <3>1. Knows(Idle)'
      <4>1. Idle.pc = "idle" /\ Idle.read = {} /\ Idle.gone = {} /\ Idle.found = [i \in Ids |-> Never]
        BY IdleKnows DEF Idle
      <4> QED  BY <4>1 DEF Knows, ReadIsTrue
    <3>2. request'[q] = Idle
      BY <1>13, <2>1
    <3> QED  BY <3>1, <3>2 DEF Knows, ReadIsTrue, GoneStill, NothingLeft, FoundBy
  <2>2. CASE q # r
    <3> DEFINE rec == request[q]
    <3>1. Knows(rec)
      BY DEF Inv
    <3>2. ReadIsTrue(request[q])'
      BY <1>1, <1>14, <2>2, <3>1 DEF Knows, ReadIsTrue
    <3>3. CASE rec.pc = "marking"
      <4>1. rec.read = rec.accounts /\ GoneStill(rec) /\ NothingLeft(rec)
        BY <3>1, <3>3 DEF Knows
      <4>2. FoundBy(request[q])' = FoundBy(rec) /\ HeldBy(rec) = FoundBy(rec) \cup rec.gone
        BY <1>14, <2>2, <3>3 DEF FoundBy, HeldBy
      <4>3. \A i \in FoundBy(rec) \cup rec.gone : i \notin Found(r) /\ i \notin mine.gone
        BY <1>18, <2>2, <4>2 DEF Inv, RowLocks
      <4>4. GoneStill(request[q])'
        <5>1. \A i \in rec.gone : i \in Ids /\ base'[i] = base[i]
          BY <1>2, <1>10, <4>3 DEF Request
        <5> QED  BY <1>14, <2>2, <4>1, <4>2, <5>1 DEF GoneStill
      <4>5. NothingLeft(request[q])'
        <5> SUFFICES ASSUME NEW a \in request'[q].accounts \ request'[q].dirty,
                            NEW i \in PresentIn(CellOf(rec.month, a))'
                     PROVE  i \in FoundBy(rec) \cup rec.seen \cup rec.gone
          BY <1>14, <2>2, <4>2 DEF NothingLeft
        <5>1. a \in rec.accounts \ rec.dirty
          BY <1>14, <2>2
        <5>2. i \in Ids /\ base'[i] # Never /\ base'[i].present
              /\ base'[i].month = rec.month /\ base'[i].account = a
          BY <1>14, <2>2 DEF PresentIn, CellOf
        <5>3. i \notin Found(r)
          <6> SUFFICES ASSUME i \in Found(r) PROVE FALSE
            OBVIOUS
          <6>1. rec.month = mine.month /\ a \in mine.accounts /\ mine.found[i] = a
            BY <1>6, <1>8, <5>2
          <6>2. a \notin mine.dirty
            BY <1>14, <2>2, <3>3, <6>1
          <6>3. place[i] = CellOf(rec.month, a)
            BY <1>4, <5>2, <6>1, <6>2 DEF ReadIsTrue
          <6>4. rec.found[i] = a
            BY <3>1, <4>1, <5>1, <5>2, <6>3 DEF Knows, ReadIsTrue
          <6>5. a # Never
            BY <1>3, <6>1, MovementConstants
          <6> QED  BY <4>3, <5>2, <6>4, <6>5 DEF FoundBy
        <5>4. i \notin mine.gone
          BY <1>9, <5>2
        <5>5. i \in PresentIn(CellOf(rec.month, a))
          BY <1>10, <5>2, <5>3, <5>4 DEF PresentIn, CellOf
        <5> QED  BY <4>1, <5>1, <5>5 DEF NothingLeft
      <4> QED  BY <1>14, <2>2, <3>1, <3>2, <3>3, <4>1, <4>4, <4>5 DEF Knows
    <3>4. CASE rec.pc # "marking"
      BY <1>14, <2>2, <3>1, <3>2, <3>4 DEF Knows
    <3> QED  BY <3>3, <3>4
  <2> QED  BY <2>1, <2>2
<1> QED  BY <1>16, <1>17, <1>19, <1>20, <1>21, <1>22 DEF Inv

LEMMA NextKeeps == Inv /\ [Next]_vars => Inv'
<1> SUFFICES ASSUME Inv, [Next]_vars PROVE Inv'
  OBVIOUS
<1>1. CASE AccountsChange \/ SwitchOrigin
  BY <1>1, AccountsKeep
<1>2. ASSUME NEW i \in Ids, OriginMoves(i) PROVE Inv'
  BY <1>2, OriginMovesKeeps
<1>3. ASSUME NEW r \in Requests, SyncStart(r) PROVE Inv'
  BY <1>3, SyncStartKeeps
<1>4. ASSUME NEW r \in Requests, SyncReadAccount(r) PROVE Inv'
  BY <1>4, SyncReadAccountKeeps
<1>5. ASSUME NEW r \in Requests, SyncReadFailed(r) PROVE Inv'
  BY <1>5, SyncReadFailedKeeps
<1>6. ASSUME NEW r \in Requests, SyncUpsert(r) \/ SyncMark(r) \/ SyncMarkRow(r) PROVE Inv'
  BY <1>6, SyncUpsertKeeps, SyncMarkKeeps, SyncMarkRowKeeps
<1>7. ASSUME NEW r \in Requests, SyncCommit(r) PROVE Inv'
  BY <1>7, SyncCommitKeeps
<1>8. ASSUME NEW r \in Requests, PersistFailed(r) PROVE Inv'
  BY <1>8, PersistFailedKeeps
<1>9. ASSUME NEW r \in Requests, Upload(r) PROVE Inv'
  BY <1>9, UploadKeeps
<1>10. ASSUME NEW r \in Requests, UploadCommit(r) PROVE Inv'
  BY <1>10, UploadCommitKeeps
<1>11. ASSUME NEW r \in Requests, Abort(r) PROVE Inv'
  BY <1>11, AbortKeeps
<1>12. CASE UNCHANGED vars
  <2>1. UNCHANGED <<place, open, known, base, fileRows, imports, stamp, request, exact, last>>
    BY <1>12 DEF vars
  <2> QED  BY <2>1 DEF Inv, Shapes, StoredIsSynced, RowLocks, HeldBy, ExactMonth,
             PresentIn, InCell, OneFileCounts, Knows, ReadIsTrue, GoneStill, NothingLeft, FoundBy
<1> QED  BY <1>1, <1>2, <1>3, <1>4, <1>5, <1>6, <1>7, <1>8, <1>9, <1>10, <1>11, <1>12 DEF Next

-------------------------------------------------------------------------------
(* The theorems.                                                            *)

\* The invariant that the others rest on.
THEOREM MovementInvariant == Spec => []Inv
<1>1. Init => Inv
  BY InitInv
<1>2. Inv /\ [Next]_vars => Inv'
  BY NextKeeps
<1> QED  BY <1>1, <1>2, PTL DEF Spec

\* Types; and a month with movements has been synced, whatever failed since.
THEOREM MovementTypeCorrect == Spec => []TypeOK
<1>1. Inv => TypeOK
  BY DEF Inv, Shapes, StoredIsSynced, TypeOK
<1> QED  BY <1>1, MovementInvariant, PTL

\* What was read in peace is what the origin has, however the markings of several syncs wait
\* for one another, unless an outdated one commits out of the sight of a marking.
THEOREM MonthIsExact == Spec => []ExactMonth
<1>1. Inv => ExactMonth
  BY DEF Inv
<1> QED  BY <1>1, MovementInvariant, PTL

\* What counts is the file accepted last, and nothing after a blank one.
THEOREM FilesReplaceEachOther == Spec => []OneFileCounts
<1>1. Inv => OneFileCounts
  BY DEF Inv
<1> QED  BY <1>1, MovementInvariant, PTL
===============================================================================
