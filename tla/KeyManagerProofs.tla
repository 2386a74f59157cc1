-------------------------- MODULE KeyManagerProofs --------------------------
(***************************************************************************)
(* Proofs about KeyManager for every value of its constants: the type      *)
(* invariant, the validity of every stored key, and (with a clock that     *)
(* never repeats a token) the coherence of the manager's snapshots and     *)
(* the refinement of the atomic KeyStore.                                  *)
(***************************************************************************)
EXTENDS KeyManager, TLAPS

USE KnoxKeyAssumption, KeyManagerAssumption

\* The per-request state the type invariant alone does not tie together: a
\* request past its handler has a request record, and a request about to
\* write holds a snapshot.
ThreadsOK ==
    \A t \in Threads :
        /\ pc[t] # "Idle" => req[t] \in Requests
        /\ pc[t] = "Write" => snap[t] # Nil

TypeInv == TypeOK /\ ThreadsOK

-----------------------------------------------------------------------------
(* Lemmas on the key model.                                                *)

LEMMA VersionListsClosed ==
    ASSUME NEW vl \in VersionLists, NEW v \in VersionIDs, NEW s \in Statuses
    PROVE  /\ Appended(vl, v, s) \in VersionLists
           /\ Updated(vl, v, s) \in VersionLists
           /\ NewVersionList(v) \in VersionLists
BY DEF VersionLists, Appended, Updated, NewVersionList, Statuses,
       Primary, Active, Inactive, NotPresent

LEMMA StatusesCopiedType ==
    ASSUME NEW enc \in VersionLists, NEW kvl \in VersionLists
    PROVE  StatusesCopied(enc, kvl) \in VersionLists
BY DEF VersionLists, StatusesCopied

\* The write-back loop of UpdateVersion reproduces the updated list: a
\* transition never adds or removes a version, so every id present in one
\* list is present in the other.
LEMMA StatusesCopiedUpdated ==
    ASSUME NEW vl \in VersionLists, NEW v \in VersionIDs, NEW s \in Statuses,
           UpdateAllowed(vl, v, s)
    PROVE  StatusesCopied(vl, Updated(vl, v, s)) = Updated(vl, v, s)
BY DEF StatusesCopied, Updated, UpdateAllowed, VersionLists, Statuses,
       Primary, Active, Inactive, NotPresent

LEMMA ACLsClosed ==
    ASSUME NEW acl \in ACLs, NEW g \in Principals, NEW a \in AccessTypes
    PROVE  ACLAdd(acl, g, a) \in ACLs
BY DEF ACLs, ACLAdd

LEMMA NewKeyACLType ==
    ASSUME NEW reqACL \in ACLs, NEW p \in Principals
    PROVE  NewKeyACL(reqACL, p, DefaultAccess) \in ACLs
BY DEF NewKeyACL, ACLs, AccessTypes, Admin, NoDefault

LEMMA HashType ==
    ASSUME NEW vl \in VersionLists
    PROVE  Hash(vl) \in HashValues
BY DEF HashValues

-----------------------------------------------------------------------------
(* Lemmas on the DB contract.                                              *)

LEMMA WithStampType ==
    ASSUME NEW key, key.acl \in ACLs, key.versions \in VersionLists,
           key.hash \in HashValues, NEW s \in Stamps
    PROVE  WithStamp(key, s) \in Records
BY DEF WithStamp, Records

LEMMA NewStampsType == NewStamps \subseteq Stamps
BY DEF NewStamps

\* The DB calls store well-typed records.
LEMMA DBAddType ==
    ASSUME TypeOK, NEW k \in KeyIDs, NEW key, key.acl \in ACLs,
           key.versions \in VersionLists, key.hash \in HashValues, DBAdd(k, key)
    PROVE  db' \in [KeyIDs -> Records \cup {Nil}]
<1>1. PICK s \in NewStamps : db' = [db EXCEPT ![k] = WithStamp(key, s)]
    BY DEF DBAdd
<1>2. WithStamp(key, s) \in Records
    BY NewStampsType, WithStampType
<1>. QED BY <1>1, <1>2 DEF TypeOK

LEMMA DBUpdateType ==
    ASSUME TypeOK, NEW k \in KeyIDs, NEW key, key.acl \in ACLs,
           key.versions \in VersionLists, key.hash \in HashValues, DBUpdate(k, key)
    PROVE  db' \in [KeyIDs -> Records \cup {Nil}]
<1>1. CASE db' = db
    BY <1>1 DEF TypeOK
<1>2. CASE db' # db
    <2>1. PICK s \in NewStamps : db' = [db EXCEPT ![k] = WithStamp(key, s)]
        BY <1>2 DEF DBUpdate
    <2>2. WithStamp(key, s) \in Records
        BY NewStampsType, WithStampType
    <2>. QED BY <2>1, <2>2 DEF TypeOK
<1>. QED BY <1>1, <1>2

\* Ending a request leaves well-typed, consistent per-request state.
LEMMA FinishType ==
    ASSUME TypeInv, NEW t \in Threads, Finish(t)
    PROVE  /\ pc' \in [Threads -> {"Idle", "Get", "Write", "Remove"}]
           /\ req' \in [Threads -> Requests \cup {Nil}]
           /\ snap' \in [Threads -> Records \cup {Nil}]
           /\ ThreadsOK'
BY DEF TypeInv, TypeOK, ThreadsOK, Finish

\* A handler that lets a request through records a well-typed request.
LEMMA AuthorizeType ==
    ASSUME TypeInv, NEW t \in Threads, NEW p \in Principals, NEW k \in KeyIDs,
           NEW op, NEW arg, NEW next \in {"Get", "Remove"},
           [op |-> op, who |-> p, key |-> k, arg |-> arg] \in Requests,
           Authorize(t, p, k, op, arg, next)
    PROVE  TypeInv'
BY DEF TypeInv, TypeOK, ThreadsOK, Authorize

-----------------------------------------------------------------------------
(* Type correctness.                                                       *)

\* The request a goroutine holds while it writes, with its fields typed.
LEMMA WriteRequest ==
    ASSUME TypeInv, NEW t \in Threads, pc[t] = "Write"
    PROVE  /\ snap[t] \in Records
           /\ req[t].key \in KeyIDs
           /\ req[t].op = "UpdateAccess" =>
                 /\ req[t].arg[1] \in Principals
                 /\ req[t].arg[2] \in AccessTypes
           /\ req[t].op = "AddVersion" => req[t].arg \in VersionIDs
           /\ req[t].op = "UpdateVersion" =>
                 /\ req[t].arg[1] \in VersionIDs
                 /\ req[t].arg[2] \in Statuses
BY DEF TypeInv, TypeOK, ThreadsOK, Requests

LEMMA PostKeyType ==
    ASSUME TypeInv, NEW p \in Principals, NEW k \in KeyIDs, NEW acl \in ACLs,
           NEW v \in VersionIDs, PostKey(p, k, acl, v)
    PROVE  TypeInv'
<1> DEFINE key == [acl      |-> NewKeyACL(acl, p, DefaultAccess),
                versions |-> NewVersionList(v),
                hash     |-> Hash(NewVersionList(v))]
<1>1. DBAdd(k, key)
    BY DEF PostKey, AddNewKey
<1>2. NewVersionList(v) \in VersionLists
    BY DEF NewVersionList, VersionLists, Primary, NotPresent, Statuses
<1>3. /\ key.acl \in ACLs
      /\ key.versions \in VersionLists
      /\ key.hash \in HashValues
    BY <1>2, NewKeyACLType, HashType DEF key
<1>4. db' \in [KeyIDs -> Records \cup {Nil}]
    BY <1>1, <1>3, DBAddType, Zenon DEF TypeInv
<1>. QED BY <1>4 DEF PostKey, TypeInv, TypeOK, ThreadsOK

LEMMA ManagerGetType ==
    ASSUME TypeInv, NEW t \in Threads, ManagerGet(t)
    PROVE  TypeInv'
<1>1. req[t] \in Requests
    BY DEF ManagerGet, TypeInv, ThreadsOK
<1>2. CASE db[req[t].key] = Nil
    BY <1>2, FinishType DEF ManagerGet, TypeInv, TypeOK
<1>3. CASE db[req[t].key] # Nil
    BY <1>1, <1>3 DEF ManagerGet, TypeInv, TypeOK, ThreadsOK, Requests
<1>. QED BY <1>2, <1>3

LEMMA UpdateAccessWriteType ==
    ASSUME TypeInv, NEW t \in Threads, UpdateAccessWrite(t)
    PROVE  TypeInv'
<1>1. /\ snap[t] \in Records
      /\ req[t].key \in KeyIDs
      /\ req[t].arg[1] \in Principals
      /\ req[t].arg[2] \in AccessTypes
    BY WriteRequest DEF UpdateAccessWrite
<1>2. ACLAdd(snap[t].acl, req[t].arg[1], req[t].arg[2]) \in ACLs
    BY <1>1, ACLsClosed DEF Records
<1> DEFINE key == [snap[t] EXCEPT !.acl = ACLAdd(@, req[t].arg[1], req[t].arg[2])]
<1>3. /\ key.acl = ACLAdd(snap[t].acl, req[t].arg[1], req[t].arg[2])
      /\ key.versions = snap[t].versions
      /\ key.hash = snap[t].hash
    BY <1>1, Zenon DEF Records
<1>4. DBUpdate(req[t].key, key)
    BY DEF UpdateAccessWrite
<1>5. db' \in [KeyIDs -> Records \cup {Nil}]
    BY <1>1, <1>2, <1>3, <1>4, DBUpdateType, Zenon DEF TypeInv, Records
<1>. QED BY <1>5, FinishType DEF UpdateAccessWrite, TypeInv, TypeOK

LEMMA AddVersionWriteType ==
    ASSUME TypeInv, NEW t \in Threads, AddVersionWrite(t)
    PROVE  TypeInv'
<1>1. /\ snap[t] \in Records
      /\ req[t].key \in KeyIDs
      /\ req[t].arg \in VersionIDs
    BY WriteRequest DEF AddVersionWrite
<1> DEFINE added == Appended(snap[t].versions, req[t].arg, Active)
<1>2. added \in VersionLists /\ Hash(added) \in HashValues
    BY <1>1, VersionListsClosed, HashType DEF Records, Statuses
<1> DEFINE key == [snap[t] EXCEPT !.versions = added, !.hash = Hash(added)]
<1>3. key.acl = snap[t].acl /\ key.versions = added /\ key.hash = Hash(added)
    BY <1>1, Zenon DEF Records
<1>4. DBUpdate(req[t].key, key) \/ db' = db
    BY DEF AddVersionWrite, key, added
<1>5. db' \in [KeyIDs -> Records \cup {Nil}]
    BY <1>1, <1>2, <1>3, <1>4, DBUpdateType, Zenon DEF TypeInv, TypeOK, Records
<1>. QED BY <1>5, FinishType DEF AddVersionWrite, TypeInv, TypeOK

LEMMA UpdateVersionWriteType ==
    ASSUME TypeInv, NEW t \in Threads, UpdateVersionWrite(t)
    PROVE  TypeInv'
<1>1. /\ snap[t] \in Records
      /\ req[t].key \in KeyIDs
      /\ req[t].arg[1] \in VersionIDs
      /\ req[t].arg[2] \in Statuses
    BY WriteRequest DEF UpdateVersionWrite
<1> DEFINE vl  == snap[t].versions
           kvl == Updated(vl, req[t].arg[1], req[t].arg[2])
<1>2. /\ kvl \in VersionLists
      /\ Hash(kvl) \in HashValues
      /\ StatusesCopied(vl, kvl) \in VersionLists
    BY <1>1, VersionListsClosed, HashType, StatusesCopiedType DEF Records
<1> DEFINE key == [snap[t] EXCEPT !.versions = StatusesCopied(vl, kvl),
                                !.hash = Hash(kvl)]
<1>3. /\ key.acl = snap[t].acl
      /\ key.versions = StatusesCopied(vl, kvl)
      /\ key.hash = Hash(kvl)
    BY <1>1, Zenon DEF Records
<1>4. DBUpdate(req[t].key, key) \/ db' = db
    BY DEF UpdateVersionWrite, key, kvl, vl
<1>5. db' \in [KeyIDs -> Records \cup {Nil}]
    BY <1>1, <1>2, <1>3, <1>4, DBUpdateType, Zenon DEF TypeInv, TypeOK, Records
<1>. QED BY <1>5, FinishType DEF UpdateVersionWrite, TypeInv, TypeOK

LEMMA DeleteRemoveType ==
    ASSUME TypeInv, NEW t \in Threads, DeleteRemove(t)
    PROVE  TypeInv'
<1>1. req[t].key \in KeyIDs
    BY DEF DeleteRemove, TypeInv, ThreadsOK, Requests
<1>2. db' \in [KeyIDs -> Records \cup {Nil}]
    BY <1>1 DEF DeleteRemove, DBRemove, TypeInv, TypeOK
<1>. QED BY <1>2, FinishType DEF DeleteRemove, TypeInv, TypeOK

\* The type invariant and the per-request consistency hold in every state.
THEOREM TypeCorrect == Spec => []TypeInv
<1>1. Init => TypeInv
    BY DEF Init, TypeInv, TypeOK, ThreadsOK
<1>2. TypeInv /\ [Next]_vars => TypeInv'
    <2> SUFFICES ASSUME TypeInv, [Next]_vars PROVE TypeInv'
        OBVIOUS
    <2>1. ASSUME NEW p \in Principals, NEW k \in KeyIDs, NEW acl \in ACLs,
                 NEW v \in VersionIDs, PostKey(p, k, acl, v)
          PROVE  TypeInv'
        BY <2>1, PostKeyType
    <2>2. ASSUME NEW t \in Threads, NEW p \in Principals, NEW k \in KeyIDs,
                 NEW g \in Principals, NEW a \in AccessTypes,
                 PutAccess(t, p, k, g, a)
          PROVE  TypeInv'
        BY <2>2, AuthorizeType DEF PutAccess, Requests
    <2>3. ASSUME NEW t \in Threads, NEW p \in Principals, NEW k \in KeyIDs,
                 NEW v \in VersionIDs, PostVersion(t, p, k, v)
          PROVE  TypeInv'
        BY <2>3, AuthorizeType DEF PostVersion, Requests
    <2>4. ASSUME NEW t \in Threads, NEW p \in Principals, NEW k \in KeyIDs,
                 NEW v \in VersionIDs, NEW s \in Statuses,
                 PutVersion(t, p, k, v, s)
          PROVE  TypeInv'
        BY <2>4, AuthorizeType DEF PutVersion, Requests
    <2>5. ASSUME NEW t \in Threads, NEW p \in Principals, NEW k \in KeyIDs,
                 DeleteKeyHandler(t, p, k)
          PROVE  TypeInv'
        BY <2>5, AuthorizeType DEF DeleteKeyHandler, Requests
    <2>6. CASE UNCHANGED vars
        BY <2>6 DEF vars, TypeInv, TypeOK, ThreadsOK
    <2>. QED
        BY <2>1, <2>2, <2>3, <2>4, <2>5, <2>6, ManagerGetType,
           UpdateAccessWriteType, AddVersionWriteType, UpdateVersionWriteType,
           DeleteRemoveType DEF Next
<1>. QED BY <1>1, <1>2, PTL DEF Spec

\* The DB holds only well-typed records and every request goroutine is in
\* one of its handler's states, with a well-typed request and snapshot.
THEOREM TypeOKAlways == Spec => []TypeOK
<1>1. TypeInv => TypeOK
    BY DEF TypeInv
<1>. QED BY TypeCorrect, <1>1, PTL

-----------------------------------------------------------------------------
(* Every stored key validates.  Not inductive by itself: a write stores a  *)
(* key computed from the manager's snapshot, so the snapshots must be      *)
(* valid too.                                                              *)

SnapshotsValid == \A t \in Threads : snap[t] # Nil => KeyValid(snap[t])

ValidInv == TypeInv /\ StoredKeysValid /\ SnapshotsValid

\* A DB write of a valid key (or no write) keeps every stored key valid.
LEMMA DBWriteValid ==
    ASSUME TypeOK, StoredKeysValid, NEW k \in KeyIDs, NEW key,
           \/ /\ KeyValid(key)
              /\ \/ DBAdd(k, key)
                 \/ DBUpdate(k, key)
           \/ db' = db
    PROVE  StoredKeysValid'
<1>1. CASE db' = db
    BY <1>1 DEF StoredKeysValid
<1>2. CASE db' # db
    <2>1. KeyValid(key)
        BY <1>2
    <2>2. PICK s \in NewStamps : db' = [db EXCEPT ![k] = WithStamp(key, s)]
        BY <1>2 DEF DBAdd, DBUpdate
    <2>3. KeyValid(WithStamp(key, s))
        BY <2>1 DEF KeyValid, WithStamp
    <2>. QED BY <2>2, <2>3 DEF StoredKeysValid, TypeOK
<1>. QED BY <1>1, <1>2

\* Ending a request drops its snapshot and nothing else.
LEMMA FinishValid ==
    ASSUME SnapshotsValid, TypeOK, NEW t \in Threads, Finish(t)
    PROVE  SnapshotsValid'
BY DEF Finish, SnapshotsValid, TypeOK

LEMMA PostKeyValid ==
    ASSUME ValidInv, NEW p \in Principals, NEW k \in KeyIDs, NEW acl \in ACLs,
           NEW v \in VersionIDs, PostKey(p, k, acl, v)
    PROVE  (StoredKeysValid /\ SnapshotsValid)'
<1> DEFINE key == [acl      |-> NewKeyACL(acl, p, DefaultAccess),
                versions |-> NewVersionList(v),
                hash     |-> Hash(NewVersionList(v))]
<1>1. KeyValid(key) /\ DBAdd(k, key)
    BY DEF PostKey, AddNewKey, key
<1>2. StoredKeysValid'
    BY <1>1, DBWriteValid DEF ValidInv, TypeInv
<1>. QED BY <1>2 DEF PostKey, ValidInv, SnapshotsValid

LEMMA AuthorizeValid ==
    ASSUME ValidInv, NEW t, NEW p, NEW k, NEW op, NEW arg, NEW next,
           Authorize(t, p, k, op, arg, next)
    PROVE  (StoredKeysValid /\ SnapshotsValid)'
BY DEF Authorize, ValidInv, StoredKeysValid, SnapshotsValid

LEMMA ManagerGetValid ==
    ASSUME ValidInv, NEW t \in Threads, ManagerGet(t)
    PROVE  (StoredKeysValid /\ SnapshotsValid)'
<1>1. req[t].key \in KeyIDs
    BY DEF ManagerGet, ValidInv, TypeInv, ThreadsOK, Requests
<1>2. CASE db[req[t].key] = Nil
    BY <1>2, FinishValid DEF ManagerGet, ValidInv, TypeInv, StoredKeysValid
<1>3. CASE db[req[t].key] # Nil
    BY <1>1, <1>3 DEF ManagerGet, ValidInv, TypeInv, TypeOK, StoredKeysValid,
                      SnapshotsValid
<1>. QED BY <1>2, <1>3

LEMMA DeleteRemoveValid ==
    ASSUME ValidInv, NEW t \in Threads, DeleteRemove(t)
    PROVE  (StoredKeysValid /\ SnapshotsValid)'
<1>1. StoredKeysValid'
    BY DEF DeleteRemove, DBRemove, ValidInv, TypeInv, TypeOK, StoredKeysValid
<1>. QED BY <1>1, FinishValid DEF DeleteRemove, ValidInv, TypeInv

LEMMA UpdateAccessWriteValid ==
    ASSUME ValidInv, NEW t \in Threads, UpdateAccessWrite(t)
    PROVE  (StoredKeysValid /\ SnapshotsValid)'
<1>1. /\ snap[t] \in Records
      /\ snap[t] # Nil
      /\ req[t].key \in KeyIDs
    BY WriteRequest DEF UpdateAccessWrite, ValidInv, TypeInv, ThreadsOK
<1> DEFINE key == [snap[t] EXCEPT !.acl = ACLAdd(@, req[t].arg[1], req[t].arg[2])]
<1>2. key.versions = snap[t].versions /\ key.hash = snap[t].hash
    BY <1>1, Zenon DEF Records
<1>3. KeyValid(key)
    BY <1>1, <1>2 DEF ValidInv, SnapshotsValid, KeyValid
<1>4. DBUpdate(req[t].key, key)
    BY DEF UpdateAccessWrite
<1>5. StoredKeysValid'
    BY <1>1, <1>3, <1>4, DBWriteValid DEF ValidInv, TypeInv
<1>. QED BY <1>5, FinishValid DEF UpdateAccessWrite, ValidInv, TypeInv

LEMMA AddVersionWriteValid ==
    ASSUME ValidInv, NEW t \in Threads, AddVersionWrite(t)
    PROVE  (StoredKeysValid /\ SnapshotsValid)'
<1>1. /\ snap[t] \in Records
      /\ req[t].key \in KeyIDs
    BY WriteRequest DEF AddVersionWrite, ValidInv, TypeInv
<1> DEFINE added == Appended(snap[t].versions, req[t].arg, Active)
           key   == [snap[t] EXCEPT !.versions = added, !.hash = Hash(added)]
<1>2. key.versions = added /\ key.hash = Hash(added)
    BY <1>1, Zenon DEF Records
<1>3. \/ /\ KeyValid([versions |-> added, hash |-> Hash(added)])
         /\ DBUpdate(req[t].key, key)
      \/ db' = db
    BY DEF AddVersionWrite, key, added
<1>4. KeyValid([versions |-> added, hash |-> Hash(added)]) => KeyValid(key)
    BY <1>2 DEF KeyValid
<1>5. StoredKeysValid'
    BY <1>1, <1>3, <1>4, DBWriteValid DEF ValidInv, TypeInv
<1>. QED BY <1>5, FinishValid DEF AddVersionWrite, ValidInv, TypeInv

LEMMA UpdateVersionWriteValid ==
    ASSUME ValidInv, NEW t \in Threads, UpdateVersionWrite(t)
    PROVE  (StoredKeysValid /\ SnapshotsValid)'
<1>1. /\ snap[t] \in Records
      /\ req[t].key \in KeyIDs
      /\ req[t].arg[1] \in VersionIDs
      /\ req[t].arg[2] \in Statuses
    BY WriteRequest DEF UpdateVersionWrite, ValidInv, TypeInv
<1> DEFINE vl  == snap[t].versions
           kvl == Updated(vl, req[t].arg[1], req[t].arg[2])
           key == [snap[t] EXCEPT !.versions = StatusesCopied(vl, kvl),
                                  !.hash = Hash(kvl)]
<1>2. key.versions = StatusesCopied(vl, kvl) /\ key.hash = Hash(kvl)
    BY <1>1, Zenon DEF Records
<1>3. \/ /\ UpdateAllowed(vl, req[t].arg[1], req[t].arg[2])
         /\ KeyValid([versions |-> kvl, hash |-> Hash(kvl)])
         /\ DBUpdate(req[t].key, key)
      \/ db' = db
    BY DEF UpdateVersionWrite, key, kvl, vl
<1>4. ASSUME UpdateAllowed(vl, req[t].arg[1], req[t].arg[2]),
             KeyValid([versions |-> kvl, hash |-> Hash(kvl)])
      PROVE  KeyValid(key)
    <2>1. StatusesCopied(vl, kvl) = kvl
        BY <1>1, <1>4, StatusesCopiedUpdated DEF Records
    <2>. QED BY <1>2, <1>4, <2>1 DEF KeyValid
<1>5. StoredKeysValid'
    BY <1>1, <1>3, <1>4, DBWriteValid DEF ValidInv, TypeInv
<1>. QED BY <1>5, FinishValid DEF UpdateVersionWrite, ValidInv, TypeInv

\* Every key the DB holds validates: one Primary version, and the stored
\* hash is the hash of the stored versions, whatever the interleaving of
\* AddNewKey, UpdateAccess, AddVersion, UpdateVersion and DeleteKey.
THEOREM StoredKeysAlwaysValid == Spec => []StoredKeysValid
<1>1. Init => ValidInv
    BY DEF Init, ValidInv, TypeInv, TypeOK, ThreadsOK, StoredKeysValid,
           SnapshotsValid
<1>2. ValidInv /\ [Next]_vars => ValidInv'
    <2> SUFFICES ASSUME ValidInv, [Next]_vars PROVE ValidInv'
        OBVIOUS
    <2>1. TypeInv'
        BY PostKeyType, AuthorizeType, ManagerGetType, UpdateAccessWriteType,
           AddVersionWriteType, UpdateVersionWriteType, DeleteRemoveType
           DEF ValidInv, Next, vars, TypeInv, TypeOK, ThreadsOK, Requests,
               PutAccess, PostVersion, PutVersion, DeleteKeyHandler
    <2>2. (StoredKeysValid /\ SnapshotsValid)'
        <3>1. CASE UNCHANGED vars
            BY <3>1 DEF vars, ValidInv, StoredKeysValid, SnapshotsValid
        <3>. QED
            BY <3>1, PostKeyValid, AuthorizeValid, ManagerGetValid,
               UpdateAccessWriteValid, AddVersionWriteValid,
               UpdateVersionWriteValid, DeleteRemoveValid
            DEF Next, PutAccess, PostVersion, PutVersion, DeleteKeyHandler
    <2>. QED BY <2>1, <2>2 DEF ValidInv
<1>3. ValidInv => StoredKeysValid
    BY DEF ValidInv
<1>. QED BY <1>1, <1>2, <1>3, PTL DEF Spec

-----------------------------------------------------------------------------
(* Snapshot coherence, for a clock that never repeats a token.             *)

CoherentInv == TypeInv /\ SnapshotCoherent

\* A step that writes one key with a fresh token, removes it or writes
\* nothing, and ends at most the writer's own request, keeps every other
\* in-flight snapshot coherent.
LEMMA DBStepCoherent ==
    ASSUME TypeInv, SnapshotCoherent, FreshStamps,
           NEW u, NEW k \in KeyIDs, NEW key,
           \/ \E s \in NewStamps : db' = [db EXCEPT ![k] = WithStamp(key, s)]
           \/ db' = [db EXCEPT ![k] = Nil]
           \/ db' = db,
           \/ Finish(u)
           \/ UNCHANGED <<pc, req, snap>>
    PROVE  SnapshotCoherent'
<1> SUFFICES ASSUME NEW t \in Threads,
                    pc'[t] = "Write",
                    db'[req'[t].key] # Nil,
                    db'[req'[t].key].dbv = snap'[t].dbv
             PROVE  snap'[t] = db'[req'[t].key]
    BY DEF SnapshotCoherent
<1>1. pc[t] = "Write" /\ req'[t] = req[t] /\ snap'[t] = snap[t]
    BY DEF Finish, TypeInv, TypeOK
<1>2. req[t].key \in KeyIDs /\ snap[t] # Nil
    BY <1>1 DEF TypeInv, ThreadsOK, Requests
<1>3. CASE db' = db
    BY <1>1, <1>3 DEF SnapshotCoherent
<1>4. CASE db' = [db EXCEPT ![k] = Nil]
    BY <1>1, <1>2, <1>4 DEF SnapshotCoherent, TypeInv, TypeOK
<1>5. ASSUME NEW s \in NewStamps, db' = [db EXCEPT ![k] = WithStamp(key, s)]
      PROVE  snap'[t] = db'[req'[t].key]
    <2>1. s \notin StampsInUse
        BY FreshStamps DEF NewStamps
    <2>2. snap[t].dbv \in StampsInUse
        BY <1>2 DEF StampsInUse
    <2>3. req[t].key # k
        BY <1>1, <1>5, <2>1, <2>2 DEF WithStamp, TypeInv, TypeOK
    <2>. QED BY <1>1, <1>2, <1>5, <2>3 DEF SnapshotCoherent, TypeInv, TypeOK
<1>. QED BY <1>3, <1>4, <1>5

\* What a DB call does to the DB, with the call's arguments out of the way.
LEMMA DBCallShape ==
    ASSUME NEW k, NEW key, DBAdd(k, key) \/ DBUpdate(k, key)
    PROVE  \/ \E s \in NewStamps : db' = [db EXCEPT ![k] = WithStamp(key, s)]
           \/ db' = db
BY DEF DBAdd, DBUpdate

\* The manager's db.Get: the reader's new snapshot is the stored key.
LEMMA ManagerGetCoherent ==
    ASSUME TypeInv, SnapshotCoherent, FreshStamps, NEW u \in Threads,
           ManagerGet(u)
    PROVE  SnapshotCoherent'
<1>1. req[u].key \in KeyIDs
    BY DEF ManagerGet, TypeInv, ThreadsOK, Requests
<1>2. CASE db[req[u].key] = Nil
    BY <1>1, <1>2, DBStepCoherent DEF ManagerGet
<1>3. CASE db[req[u].key] # Nil
    BY <1>3 DEF ManagerGet, SnapshotCoherent, TypeInv, TypeOK
<1>. QED BY <1>2, <1>3

\* With a clock that never repeats a token, a request whose token still
\* matches the stored key at its write read exactly that key: db.Update's
\* DBVersion comparison detects every concurrent write, deletion and
\* re-creation of the key.
THEOREM SnapshotsCoherent ==
    ASSUME FreshStamps
    PROVE  Spec => []SnapshotCoherent
<1>1. Init => CoherentInv
    BY DEF Init, CoherentInv, TypeInv, TypeOK, ThreadsOK, SnapshotCoherent
<1>2. CoherentInv /\ [Next]_vars => CoherentInv'
    <2> SUFFICES ASSUME CoherentInv, [Next]_vars PROVE CoherentInv'
        OBVIOUS
    <2> USE DEF CoherentInv
    <2>1. TypeInv'
        BY PostKeyType, AuthorizeType, ManagerGetType, UpdateAccessWriteType,
           AddVersionWriteType, UpdateVersionWriteType, DeleteRemoveType
           DEF Next, vars, TypeInv, TypeOK, ThreadsOK, Requests,
               PutAccess, PostVersion, PutVersion, DeleteKeyHandler
    <2>2. ASSUME NEW p \in Principals, NEW k \in KeyIDs, NEW acl \in ACLs,
                 NEW v \in VersionIDs, PostKey(p, k, acl, v)
          PROVE  SnapshotCoherent'
        <3> DEFINE key == [acl      |-> NewKeyACL(acl, p, DefaultAccess),
                           versions |-> NewVersionList(v),
                           hash     |-> Hash(NewVersionList(v))]
        <3>1. DBAdd(k, key) /\ UNCHANGED <<pc, req, snap>>
            BY <2>2 DEF PostKey, AddNewKey, key
        <3>. QED BY <3>1, DBCallShape, DBStepCoherent
    <2>3. ASSUME NEW t \in Threads, NEW p, NEW k, NEW op, NEW arg,
                 NEW next \in {"Get", "Remove"}, Authorize(t, p, k, op, arg, next)
          PROVE  SnapshotCoherent'
        BY <2>3 DEF Authorize, SnapshotCoherent
    <2>4. ASSUME NEW t \in Threads, UpdateAccessWrite(t)
          PROVE  SnapshotCoherent'
        <3>1. req[t].key \in KeyIDs
            BY <2>4, WriteRequest DEF UpdateAccessWrite, CoherentInv
        <3> DEFINE key == [snap[t] EXCEPT !.acl = ACLAdd(@, req[t].arg[1], req[t].arg[2])]
        <3>2. DBUpdate(req[t].key, key) /\ Finish(t)
            BY <2>4 DEF UpdateAccessWrite
        <3>. QED BY <3>1, <3>2, DBCallShape, DBStepCoherent
    <2>5. ASSUME NEW t \in Threads, AddVersionWrite(t)
          PROVE  SnapshotCoherent'
        <3>1. req[t].key \in KeyIDs
            BY <2>5, WriteRequest DEF AddVersionWrite, CoherentInv
        <3> DEFINE added == Appended(snap[t].versions, req[t].arg, Active)
                   key   == [snap[t] EXCEPT !.versions = added, !.hash = Hash(added)]
        <3>2. (DBUpdate(req[t].key, key) \/ db' = db) /\ Finish(t)
            BY <2>5 DEF AddVersionWrite, key, added
        <3>. QED BY <3>1, <3>2, DBCallShape, DBStepCoherent
    <2>6. ASSUME NEW t \in Threads, UpdateVersionWrite(t)
          PROVE  SnapshotCoherent'
        <3>1. req[t].key \in KeyIDs
            BY <2>6, WriteRequest DEF UpdateVersionWrite, CoherentInv
        <3> DEFINE vl  == snap[t].versions
                   kvl == Updated(vl, req[t].arg[1], req[t].arg[2])
                   key == [snap[t] EXCEPT !.versions = StatusesCopied(vl, kvl),
                                          !.hash = Hash(kvl)]
        <3>2. (DBUpdate(req[t].key, key) \/ db' = db) /\ Finish(t)
            BY <2>6 DEF UpdateVersionWrite, key, kvl, vl
        <3>. QED BY <3>1, <3>2, DBCallShape, DBStepCoherent
    <2>7. ASSUME NEW t \in Threads, DeleteRemove(t)
          PROVE  SnapshotCoherent'
        <3>1. req[t].key \in KeyIDs
            BY <2>7 DEF DeleteRemove, TypeInv, ThreadsOK, Requests
        <3>. QED BY <2>7, <3>1, DBStepCoherent DEF DeleteRemove, DBRemove
    <2>8. ASSUME UNCHANGED vars PROVE SnapshotCoherent'
        BY <2>8 DEF vars, SnapshotCoherent
    <2>9. ASSUME NEW t \in Threads, ManagerGet(t)
          PROVE  SnapshotCoherent'
        BY <2>9, ManagerGetCoherent
    <2>10. SnapshotCoherent'
        <3>1. CASE \E p \in Principals, k \in KeyIDs, acl \in ACLs, v \in VersionIDs :
                      PostKey(p, k, acl, v)
            BY <3>1, <2>2
        <3>2. CASE \E t \in Threads, p \in Principals, k \in KeyIDs :
                      \/ \E g \in Principals, a \in AccessTypes : PutAccess(t, p, k, g, a)
                      \/ \E v \in VersionIDs : PostVersion(t, p, k, v)
                      \/ \E v \in VersionIDs, s \in Statuses : PutVersion(t, p, k, v, s)
                      \/ DeleteKeyHandler(t, p, k)
            BY <3>2, <2>3 DEF PutAccess, PostVersion, PutVersion, DeleteKeyHandler
        <3>3. CASE \E t \in Threads :
                      \/ ManagerGet(t)
                      \/ UpdateAccessWrite(t)
                      \/ AddVersionWrite(t)
                      \/ UpdateVersionWrite(t)
                      \/ DeleteRemove(t)
            BY <3>3, <2>4, <2>5, <2>6, <2>7, <2>9
        <3>4. CASE UNCHANGED vars
            BY <3>4, <2>8
        <3>. QED BY <3>1, <3>2, <3>3, <3>4 DEF Next
    <2>. QED BY <2>1, <2>10
<1>3. CoherentInv => SnapshotCoherent
    BY DEF CoherentInv
<1>. QED BY <1>1, <1>2, <1>3, PTL DEF Spec

-----------------------------------------------------------------------------
(* Refinement: with a clock that never repeats a token, the interleaved    *)
(* read-modify-writes implement the atomic KeyStore under AbstractStore.   *)

\* KeyStore builds its keys with the same key model.
LEMMA SameKeyModel ==
    /\ KS!ACLs = ACLs /\ KS!AccessTypes = AccessTypes /\ KS!Statuses = Statuses
    /\ \A acl, p, x : KS!ACLAdd(acl, p, x) = ACLAdd(acl, p, x)
    /\ \A vl, v, x : /\ KS!Appended(vl, v, x) = Appended(vl, v, x)
                     /\ KS!Updated(vl, v, x) = Updated(vl, v, x)
                     /\ KS!UpdateAllowed(vl, v, x) = UpdateAllowed(vl, v, x)
    /\ \A vl : KS!Hash(vl) = Hash(vl)
    /\ \A v : KS!NewVersionList(v) = NewVersionList(v)
    /\ \A acl, p : KS!NewKeyACL(acl, p, DefaultAccess) = NewKeyACL(acl, p, DefaultAccess)
    /\ KS!NotPresent = NotPresent /\ KS!Active = Active
<1>1. KS!ACLs = ACLs /\ KS!AccessTypes = AccessTypes /\ KS!Statuses = Statuses
    BY DEF KS!ACLs, ACLs, KS!AccessTypes, AccessTypes, KS!Statuses, Statuses,
           KS!None, None, KS!Read, Read, KS!Write, Write, KS!Admin, Admin,
           KS!Primary, Primary, KS!Active, Active, KS!Inactive, Inactive
<1>2. \A acl, p, x : KS!ACLAdd(acl, p, x) = ACLAdd(acl, p, x)
    BY DEF KS!ACLAdd, ACLAdd
<1>3. \A vl, v, x : /\ KS!Appended(vl, v, x) = Appended(vl, v, x)
                    /\ KS!Updated(vl, v, x) = Updated(vl, v, x)
                    /\ KS!UpdateAllowed(vl, v, x) = UpdateAllowed(vl, v, x)
    <2>1. KS!UpdateSource = UpdateSource
        BY DEF KS!UpdateSource, UpdateSource, KS!Statuses, Statuses,
               KS!Primary, Primary, KS!Active, Active, KS!Inactive, Inactive
    <2>. QED
        BY <2>1 DEF KS!Appended, Appended, KS!Updated, Updated,
               KS!UpdateAllowed, UpdateAllowed, KS!Primary, Primary,
               KS!Active, Active, KS!NotPresent, NotPresent
<1>0. \A S : KS!Cardinality(S) = Cardinality(S)
    BY DEF KS!Cardinality, Cardinality
<1>4. \A S : KS!SortedIDs(S) = SortedIDs(S)
    BY DEF KS!SortedIDs, SortedIDs, KS!Cardinality, Cardinality
<1>5. \A vl, x : KS!IDsWith(vl, x) = IDsWith(vl, x)
    BY DEF KS!IDsWith, IDsWith
<1>6. \A vl : KS!Hash(vl) = Hash(vl)
    BY <1>0, <1>4, <1>5 DEF KS!Hash, Hash, KS!Primary, Primary, KS!Active, Active,
                      KS!Inactive, Inactive
<1>7. \A v : KS!NewVersionList(v) = NewVersionList(v)
    BY DEF KS!NewVersionList, NewVersionList, KS!Primary, Primary,
           KS!NotPresent, NotPresent
<1>8. \A acl, p : KS!NewKeyACL(acl, p, DefaultAccess) = NewKeyACL(acl, p, DefaultAccess)
    BY DEF KS!NewKeyACL, NewKeyACL, KS!NoDefault, NoDefault, KS!Admin, Admin
<1>9. KS!NotPresent = NotPresent /\ KS!Active = Active
    BY DEF KS!NotPresent, NotPresent, KS!Active, Active
<1>. QED BY <1>1, <1>2, <1>3, <1>6, <1>7, <1>8, <1>9

\* What the abstract store sees of a stored record.
Contents(r) == [acl |-> r.acl, versions |-> r.versions, hash |-> r.hash]

LEMMA ContentsType ==
    ASSUME NEW r, r.acl \in ACLs, r.versions \in VersionLists, r.hash \in HashValues
    PROVE  Contents(r) \in Keys /\ Contents(r) # Nil
BY DEF Contents, Keys

\* The abstract store of a state, key by key.
LEMMA AbstractStoreAt ==
    ASSUME TypeOK, NEW k \in KeyIDs
    PROVE  /\ db[k] = Nil => AbstractStore[k] = Nil
           /\ db[k] # Nil => /\ AbstractStore[k] = Contents(db[k])
                             /\ AbstractStore[k] # Nil
<1>1. db[k] # Nil => db[k] \in Records
    BY DEF TypeOK
<1>. QED BY <1>1, ContentsType DEF AbstractStore, Contents, Records

\* A DB step that writes one record changes one key of the abstract store.
LEMMA AbstractWrite ==
    ASSUME TypeOK, NEW k \in KeyIDs, NEW key, key.acl \in ACLs,
           key.versions \in VersionLists, key.hash \in HashValues,
           NEW s \in NewStamps, db' = [db EXCEPT ![k] = WithStamp(key, s)]
    PROVE  AbstractStore' = [AbstractStore EXCEPT ![k] = Contents(key)]
<1>1. WithStamp(key, s) \in Records
    BY NewStampsType, WithStampType
<1>2. WithStamp(key, s) # Nil
    BY <1>1
<1>. QED BY <1>2 DEF AbstractStore, Contents, WithStamp, TypeOK

LEMMA AbstractRemove ==
    ASSUME TypeOK, NEW k \in KeyIDs, db' = [db EXCEPT ![k] = Nil]
    PROVE  AbstractStore' = [AbstractStore EXCEPT ![k] = Nil]
BY DEF AbstractStore, TypeOK

LEMMA AbstractDomain == DOMAIN AbstractStore = KeyIDs
BY DEF AbstractStore

LEMMA AbstractUnchanged ==
    ASSUME db' = db PROVE AbstractStore' = AbstractStore
BY DEF AbstractStore

\* A successful db.Update by a writer whose token matched: the write lands
\* on the record the writer read.
LEMMA WriteLandsOnSnapshot ==
    ASSUME CoherentInv, NEW t \in Threads, pc[t] = "Write", NEW key,
           key.dbv = snap[t].dbv, DBUpdate(req[t].key, key), db' # db
    PROVE  /\ db[req[t].key] = snap[t]
           /\ \E s \in NewStamps : db' = [db EXCEPT ![req[t].key] = WithStamp(key, s)]
<1>1. db[req[t].key] # Nil /\ db[req[t].key].dbv = key.dbv
    BY DEF DBUpdate
<1>. QED BY <1>1 DEF DBUpdate, CoherentInv, SnapshotCoherent

\* UpdateAccess: a write that lands is KeyStore's UpdateAccess.
LEMMA UpdateAccessRefines ==
    ASSUME CoherentInv, NEW t \in Threads, UpdateAccessWrite(t)
    PROVE  KS!Next \/ UNCHANGED AbstractStore
<1> DEFINE k == req[t].key  g == req[t].arg[1]  a == req[t].arg[2]
           sn == snap[t]
           new == [acl |-> ACLAdd(sn.acl, g, a), versions |-> sn.versions,
                   hash |-> sn.hash, dbv |-> sn.dbv]
<1>1. /\ pc[t] = "Write" /\ req[t].op = "UpdateAccess"
      /\ DBUpdate(k, [sn EXCEPT !.acl = ACLAdd(@, g, a)])
    BY DEF UpdateAccessWrite
<1>2. /\ sn \in Records /\ k \in KeyIDs
      /\ g \in Principals /\ a \in AccessTypes
    BY <1>1, WriteRequest DEF CoherentInv
<1>3. [sn EXCEPT !.acl = ACLAdd(@, g, a)] = new
    BY <1>2 DEF Records
<1>4. DBUpdate(k, new)
    BY <1>1, <1>3
<1>5. CASE db' = db
    BY <1>5, AbstractUnchanged
<1>6. CASE db' # db
    <2>1. /\ db[k] = sn
          /\ \E s \in NewStamps : db' = [db EXCEPT ![k] = WithStamp(new, s)]
        BY <1>1, <1>4, <1>6, WriteLandsOnSnapshot
    <2>2. new.acl \in ACLs /\ new.versions \in VersionLists /\ new.hash \in HashValues
        BY <1>2, ACLsClosed DEF Records
    <2>3. AbstractStore' = [AbstractStore EXCEPT ![k] = Contents(new)]
        BY <1>2, <2>1, <2>2, AbstractWrite DEF CoherentInv, TypeInv
    <2>4. AbstractStore[k] = Contents(sn) /\ AbstractStore[k] # Nil
        BY <1>2, <2>1, AbstractStoreAt DEF CoherentInv, TypeInv
    <2>5. KS!UpdateAccess(k, g, a)
        <3>1. AbstractStore[k] = [acl |-> sn.acl, versions |-> sn.versions, hash |-> sn.hash]
            BY <2>4 DEF Contents
        <3>2. Contents(new) = [acl |-> ACLAdd(sn.acl, g, a), versions |-> sn.versions,
                               hash |-> sn.hash]
            BY DEF Contents
        <3>3. [AbstractStore[k] EXCEPT !.acl = ACLAdd(sn.acl, g, a)] = Contents(new)
            BY <3>1, <3>2
        <3>4. [AbstractStore EXCEPT ![k].acl = ACLAdd(sn.acl, g, a)]
                = [AbstractStore EXCEPT ![k] = [AbstractStore[k] EXCEPT !.acl = ACLAdd(sn.acl, g, a)]]
            OBVIOUS
        <3>5. KS!ACLAdd(AbstractStore[k].acl, g, a) = ACLAdd(sn.acl, g, a)
            BY <3>1, SameKeyModel
        <3>. QED BY <2>3, <2>4, <3>3, <3>4, <3>5 DEF KS!UpdateAccess
    <2>. QED BY <1>2, <2>5, SameKeyModel DEF KS!Next
<1>. QED BY <1>5, <1>6

\* AddVersion: a write that lands is KeyStore's AddVersion.
LEMMA AddVersionRefines ==
    ASSUME CoherentInv, NEW t \in Threads, AddVersionWrite(t)
    PROVE  KS!Next \/ UNCHANGED AbstractStore
<1> DEFINE k == req[t].key  v == req[t].arg  sn == snap[t]
           added == Appended(sn.versions, v, Active)
           new == [acl |-> sn.acl, versions |-> added, hash |-> Hash(added),
                   dbv |-> sn.dbv]
<1>1. pc[t] = "Write" /\ req[t].op = "AddVersion"
    BY DEF AddVersionWrite
<1>2. sn \in Records /\ k \in KeyIDs /\ v \in VersionIDs
    BY <1>1, WriteRequest DEF CoherentInv
<1>3. [sn EXCEPT !.versions = added, !.hash = Hash(added)] = new
    <2>1. [sn EXCEPT !.versions = added]
            = [acl |-> sn.acl, versions |-> added, hash |-> sn.hash, dbv |-> sn.dbv]
        BY <1>2 DEF Records
    <2>2. [sn EXCEPT !.versions = added, !.hash = Hash(added)]
            = [[sn EXCEPT !.versions = added] EXCEPT !.hash = Hash(added)]
        OBVIOUS
    <2>3. [[acl |-> sn.acl, versions |-> added, hash |-> sn.hash, dbv |-> sn.dbv]
             EXCEPT !.hash = Hash(added)] = new
        OBVIOUS
    <2>. QED BY <2>1, <2>2, <2>3
<1>4. \/ sn.versions[v] = NotPresent /\ DBUpdate(k, new)
      \/ db' = db
    BY <1>3 DEF AddVersionWrite
<1>5. CASE db' = db
    BY <1>5, AbstractUnchanged
<1>6. CASE db' # db
    <2>1. sn.versions[v] = NotPresent /\ DBUpdate(k, new)
        BY <1>4, <1>6
    <2>2. /\ db[k] = sn
          /\ \E s \in NewStamps : db' = [db EXCEPT ![k] = WithStamp(new, s)]
        BY <1>1, <1>6, <2>1, WriteLandsOnSnapshot
    <2>3. new.acl \in ACLs /\ new.versions \in VersionLists /\ new.hash \in HashValues
        BY <1>2, VersionListsClosed, HashType DEF Records, Statuses
    <2>4. AbstractStore' = [AbstractStore EXCEPT ![k] = Contents(new)]
        BY <1>2, <2>2, <2>3, AbstractWrite DEF CoherentInv, TypeInv
    <2>5. AbstractStore[k] = Contents(sn) /\ AbstractStore[k] # Nil
        BY <1>2, <2>2, AbstractStoreAt DEF CoherentInv, TypeInv
    <2>6. KS!AddVersion(k, v)
        <3>1. AbstractStore[k] = [acl |-> sn.acl, versions |-> sn.versions, hash |-> sn.hash]
            BY <2>5 DEF Contents
        <3>2. KS!Appended(AbstractStore[k].versions, v, KS!Active) = added
            BY <3>1, SameKeyModel
        <3>3. [[AbstractStore[k] EXCEPT !.versions = added] EXCEPT !.hash = Hash(added)]
                = Contents(new)
            <4>1. [AbstractStore[k] EXCEPT !.versions = added]
                    = [acl |-> sn.acl, versions |-> added, hash |-> sn.hash]
                BY <3>1
            <4>2. [[acl |-> sn.acl, versions |-> added, hash |-> sn.hash]
                     EXCEPT !.hash = Hash(added)] = Contents(new)
                BY DEF Contents
            <4>. QED BY <4>1, <4>2
        <3>4. [AbstractStore EXCEPT ![k].versions = added, ![k].hash = Hash(added)]
                = [AbstractStore EXCEPT ![k] =
                     [[AbstractStore[k] EXCEPT !.versions = added] EXCEPT !.hash = Hash(added)]]
            OBVIOUS
        <3>5. AbstractStore[k].versions[v] = KS!NotPresent
            BY <2>1, <3>1, SameKeyModel
        <3>. QED BY <2>4, <2>5, <3>2, <3>3, <3>4, <3>5, SameKeyModel DEF KS!AddVersion
    <2>. QED BY <1>2, <2>6 DEF KS!Next
<1>. QED BY <1>5, <1>6

\* UpdateVersion: a write that lands is KeyStore's UpdateVersion; the
\* status write-back loop stores exactly the updated list.
LEMMA UpdateVersionRefines ==
    ASSUME CoherentInv, NEW t \in Threads, UpdateVersionWrite(t)
    PROVE  KS!Next \/ UNCHANGED AbstractStore
<1> DEFINE k == req[t].key  v == req[t].arg[1]  st == req[t].arg[2]
           sn == snap[t]  vl == sn.versions  kvl == Updated(vl, v, st)
           new == [acl |-> sn.acl, versions |-> kvl, hash |-> Hash(kvl),
                   dbv |-> sn.dbv]
<1>1. pc[t] = "Write" /\ req[t].op = "UpdateVersion"
    BY DEF UpdateVersionWrite
<1>2. sn \in Records /\ k \in KeyIDs /\ v \in VersionIDs /\ st \in Statuses
    BY <1>1, WriteRequest DEF CoherentInv
<1>3. \/ /\ UpdateAllowed(vl, v, st)
         /\ DBUpdate(k, [sn EXCEPT !.versions = StatusesCopied(vl, kvl),
                                   !.hash = Hash(kvl)])
      \/ db' = db
    BY DEF UpdateVersionWrite
<1>4. CASE db' = db
    BY <1>4, AbstractUnchanged
<1>5. CASE db' # db
    <2>1. UpdateAllowed(vl, v, st)
          /\ DBUpdate(k, [sn EXCEPT !.versions = StatusesCopied(vl, kvl),
                                    !.hash = Hash(kvl)])
        BY <1>3, <1>5
    <2>2. StatusesCopied(vl, kvl) = kvl
        BY <1>2, <2>1, StatusesCopiedUpdated DEF Records
    <2>3. [sn EXCEPT !.versions = StatusesCopied(vl, kvl), !.hash = Hash(kvl)] = new
        <3>1. [sn EXCEPT !.versions = kvl]
                = [acl |-> sn.acl, versions |-> kvl, hash |-> sn.hash, dbv |-> sn.dbv]
            BY <1>2 DEF Records
        <3>2. [[acl |-> sn.acl, versions |-> kvl, hash |-> sn.hash, dbv |-> sn.dbv]
                 EXCEPT !.hash = Hash(kvl)] = new
            OBVIOUS
        <3>3. [sn EXCEPT !.versions = StatusesCopied(vl, kvl), !.hash = Hash(kvl)]
                = [[sn EXCEPT !.versions = kvl] EXCEPT !.hash = Hash(kvl)]
            BY <2>2
        <3>. QED BY <3>1, <3>2, <3>3
    <2>4. /\ db[k] = sn
          /\ \E s \in NewStamps : db' = [db EXCEPT ![k] = WithStamp(new, s)]
        BY <1>1, <1>5, <2>1, <2>3, WriteLandsOnSnapshot
    <2>5. new.acl \in ACLs /\ new.versions \in VersionLists /\ new.hash \in HashValues
        BY <1>2, VersionListsClosed, HashType DEF Records
    <2>6. AbstractStore' = [AbstractStore EXCEPT ![k] = Contents(new)]
        BY <1>2, <2>4, <2>5, AbstractWrite DEF CoherentInv, TypeInv
    <2>7. AbstractStore[k] = Contents(sn) /\ AbstractStore[k] # Nil
        BY <1>2, <2>4, AbstractStoreAt DEF CoherentInv, TypeInv
    <2>8. KS!UpdateVersion(k, v, st)
        <3>1. AbstractStore[k] = [acl |-> sn.acl, versions |-> vl, hash |-> sn.hash]
            BY <2>7 DEF Contents
        <3>2. /\ KS!Updated(AbstractStore[k].versions, v, st) = kvl
              /\ KS!UpdateAllowed(AbstractStore[k].versions, v, st)
              /\ KS!Hash(kvl) = Hash(kvl)
            BY <2>1, <3>1, SameKeyModel
        <3>3. [[AbstractStore[k] EXCEPT !.versions = kvl] EXCEPT !.hash = Hash(kvl)]
                = Contents(new)
            <4>1. [AbstractStore[k] EXCEPT !.versions = kvl]
                    = [acl |-> sn.acl, versions |-> kvl, hash |-> sn.hash]
                BY <3>1
            <4>2. [[acl |-> sn.acl, versions |-> kvl, hash |-> sn.hash]
                     EXCEPT !.hash = Hash(kvl)] = Contents(new)
                BY DEF Contents
            <4>. QED BY <4>1, <4>2
        <3>4. [AbstractStore EXCEPT ![k].versions = kvl, ![k].hash = Hash(kvl)]
                = [AbstractStore EXCEPT ![k] =
                     [[AbstractStore[k] EXCEPT !.versions = kvl] EXCEPT !.hash = Hash(kvl)]]
            OBVIOUS
        <3>. QED BY <2>6, <2>7, <3>2, <3>3, <3>4 DEF KS!UpdateVersion
    <2>. QED BY <1>2, <2>8, SameKeyModel DEF KS!Next
<1>. QED BY <1>4, <1>5

\* Creating a key is KeyStore's AddNewKey.
LEMMA PostKeyRefines ==
    ASSUME TypeOK, NEW p \in Principals, NEW k \in KeyIDs, NEW acl \in ACLs,
           NEW v \in VersionIDs, PostKey(p, k, acl, v)
    PROVE  KS!Next
<1> DEFINE key == [acl      |-> NewKeyACL(acl, p, DefaultAccess),
                   versions |-> NewVersionList(v),
                   hash     |-> Hash(NewVersionList(v))]
<1>1. db[k] = Nil /\ \E s \in NewStamps : db' = [db EXCEPT ![k] = WithStamp(key, s)]
    BY DEF PostKey, AddNewKey, DBAdd
<1>2. key.acl \in ACLs /\ key.versions \in VersionLists /\ key.hash \in HashValues
    <2>1. NewVersionList(v) \in VersionLists
        BY DEF NewVersionList, VersionLists, Primary, NotPresent, Statuses
    <2>. QED BY <2>1, NewKeyACLType, HashType
<1>3. AbstractStore' = [AbstractStore EXCEPT ![k] = Contents(key)]
    BY <1>1, <1>2, AbstractWrite
<1>4. AbstractStore[k] = Nil
    BY <1>1, AbstractStoreAt
<1>5. KS!AddNewKey(k, p, acl, v)
    BY <1>3, <1>4, SameKeyModel DEF KS!AddNewKey, Contents
<1>. QED BY <1>5, SameKeyModel DEF KS!Next

\* Deleting a key is KeyStore's DeleteKey, or nothing when it is gone.
LEMMA DeleteRemoveRefines ==
    ASSUME TypeInv, NEW t \in Threads, DeleteRemove(t)
    PROVE  KS!Next \/ UNCHANGED AbstractStore
<1> DEFINE k == req[t].key
<1>1. k \in KeyIDs /\ db' = [db EXCEPT ![k] = Nil]
    BY DEF DeleteRemove, DBRemove, TypeInv, ThreadsOK, Requests
<1>2. CASE db[k] = Nil
    <2>1. db' = db
        BY <1>1, <1>2 DEF TypeInv, TypeOK
    <2>. QED BY <2>1, AbstractUnchanged
<1>3. CASE db[k] # Nil
    <2>1. AbstractStore[k] # Nil
        BY <1>1, <1>3, AbstractStoreAt DEF TypeInv
    <2>2. AbstractStore' = [AbstractStore EXCEPT ![k] = Nil]
        BY <1>1, AbstractRemove DEF TypeInv
    <2>. QED BY <1>1, <2>1, <2>2 DEF KS!Next, KS!DeleteKey
<1>. QED BY <1>2, <1>3

\* Every step of the server is a KeyStore step or leaves the abstract store
\* as it is: handlers and the manager's db.Get write nothing, a write that
\* fails its token check writes nothing, and one that passes writes the
\* key it read.
LEMMA RefineStep ==
    ASSUME CoherentInv, [Next]_vars
    PROVE  [KS!Next]_AbstractStore
<1>1. CASE \E p \in Principals, k \in KeyIDs, acl \in ACLs, v \in VersionIDs :
              PostKey(p, k, acl, v)
    BY <1>1, PostKeyRefines DEF CoherentInv, TypeInv
<1>2. CASE \E t \in Threads, p \in Principals, k \in KeyIDs :
              \/ \E g \in Principals, a \in AccessTypes : PutAccess(t, p, k, g, a)
              \/ \E v \in VersionIDs : PostVersion(t, p, k, v)
              \/ \E v \in VersionIDs, s \in Statuses : PutVersion(t, p, k, v, s)
              \/ DeleteKeyHandler(t, p, k)
    <2>1. db' = db
        BY <1>2 DEF PutAccess, PostVersion, PutVersion, DeleteKeyHandler, Authorize
    <2>. QED BY <2>1, AbstractUnchanged
<1>3. ASSUME NEW t \in Threads, ManagerGet(t)
      PROVE  [KS!Next]_AbstractStore
    BY <1>3, AbstractUnchanged DEF ManagerGet
<1>4. ASSUME NEW t \in Threads,
             \/ UpdateAccessWrite(t) \/ AddVersionWrite(t)
             \/ UpdateVersionWrite(t) \/ DeleteRemove(t)
      PROVE  [KS!Next]_AbstractStore
    BY <1>4, UpdateAccessRefines, AddVersionRefines, UpdateVersionRefines,
       DeleteRemoveRefines DEF CoherentInv
<1>5. CASE UNCHANGED vars
    BY <1>5, AbstractUnchanged DEF vars
<1>. QED BY <1>1, <1>2, <1>3, <1>4, <1>5 DEF Next

\* With a clock that never repeats a token, the server's interleaved
\* read-modify-writes implement the atomic key store: every successful
\* UpdateAccess, AddVersion, UpdateVersion, DeleteKey and AddNewKey takes
\* effect at one instant on the key as it is then (KeyManager over db.Get
\* and db.Update's DBVersion check).
THEOREM KeyStoreRefined ==
    ASSUME FreshStamps
    PROVE  Spec => KeyStoreRefinement
<1>1. Init => KS!Init
    BY DEF Init, KS!Init, AbstractStore
<1>2. CoherentInv /\ [Next]_vars => [KS!Next]_AbstractStore
    BY RefineStep
<1>3. Spec => []SnapshotCoherent
    BY SnapshotsCoherent
<1>4. Spec => []TypeInv
    BY TypeCorrect
<1>5. Spec => []CoherentInv
    BY <1>3, <1>4, PTL DEF CoherentInv
<1>. QED BY <1>1, <1>2, <1>5, PTL DEF Spec, KeyStoreRefinement, KS!Spec

=============================================================================
