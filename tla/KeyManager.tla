----------------------------- MODULE KeyManager -----------------------------
(***************************************************************************)
(* The Knox server's write path: the HTTP handlers of                      *)
(* src/server/routes.go, the key manager of src/server/key_manager.go and *)
(* the optimistic-concurrency DB contract of src/server/keydb/keydb.go     *)
(* (TempDB and SQLDB implement the same contract).                         *)
(*                                                                         *)
(* Requests run in parallel goroutines (Threads).  A handler first reads   *)
(* the key through KeyManager.GetKey and checks the caller's access; the   *)
(* manager then reads the key again (db.Get), computes the new key in      *)
(* memory and writes it with db.Update, which succeeds only if the record  *)
(* still carries the DBVersion token the manager read.  Every DB call is   *)
(* atomic (the TempDB lock, or one SQL statement); other requests run      *)
(* between any two of them.  Creating a key is one DB call (db.Add) and    *)
(* deleting a key after the handler's check is one more (db.Remove).       *)
(*                                                                         *)
(* The DBVersion token is time.Now().UnixNano() of the writing server.     *)
(* Tokens are only ever compared for equality, so they are model values.  *)
(* With FreshStamps = TRUE a write gets a token that no record and no      *)
(* in-flight request holds, which is what a clock that strictly increases  *)
(* between writes gives; with FreshStamps = FALSE it may get any token,    *)
(* which is what a coarse clock or servers with skewed clocks sharing one  *)
(* SQL database can give.                                                 *)
(***************************************************************************)
EXTENDS KnoxKey

CONSTANTS
    KeyIDs,         \* key identifiers (all valid under the id regexp)
    Threads,        \* request goroutines of the server
    Stamps,         \* DBVersion tokens
    FreshStamps,    \* does every write get a token nobody holds?
    DefaultAccess,  \* [Principals -> AccessTypes \cup {NoDefault}]: defaultAccess
    Nil             \* "nothing": no key stored, no request, no snapshot

\* A key as the manager hands it out, and as the DB stores it: a DBKey with
\* its DBVersion token.
Keys == [acl : ACLs, versions : VersionLists, hash : HashValues]

Records == [acl : ACLs, versions : VersionLists, hash : HashValues, dbv : Stamps]

ASSUME KeyManagerAssumption ==
    /\ FreshStamps \in BOOLEAN
    /\ DefaultAccess \in [Principals -> AccessTypes \cup {NoDefault}]
    /\ IsFiniteSet(Stamps) /\ IsFiniteSet(KeyIDs) /\ IsFiniteSet(Threads)
    \* enough tokens that a fresh one always exists
    /\ Cardinality(Stamps) > Cardinality(KeyIDs) + Cardinality(Threads)
    \* a nil *Key or *DBKey is no key
    /\ Nil \notin Keys \cup Records

VARIABLES
    db,     \* the DB: key id -> stored DBKey (with its DBVersion) or Nil
    pc,     \* where each request goroutine is
    req,    \* the request each goroutine serves
    snap    \* the DBKey the manager read with db.Get (its own copy)

vars == <<db, pc, req, snap>>

Requests ==
         [op : {"UpdateAccess"}, who : Principals, key : KeyIDs,
          arg : Principals \X AccessTypes]
    \cup [op : {"AddVersion"}, who : Principals, key : KeyIDs, arg : VersionIDs]
    \cup [op : {"UpdateVersion"}, who : Principals, key : KeyIDs,
          arg : VersionIDs \X Statuses]
    \cup [op : {"DeleteKey"}, who : Principals, key : KeyIDs, arg : {Nil}]

\* The access each handler demands before calling the manager.
Required == [UpdateAccess |-> Admin, AddVersion |-> Write,
             UpdateVersion |-> Write, DeleteKey |-> Admin]

Init ==
    /\ db = [k \in KeyIDs |-> Nil]
    /\ pc = [t \in Threads |-> "Idle"]
    /\ req = [t \in Threads |-> Nil]
    /\ snap = [t \in Threads |-> Nil]

-----------------------------------------------------------------------------
(* The DB contract.                                                        *)

StampsInUse ==
    {db[k].dbv : k \in {x \in KeyIDs : db[x] # Nil}}
      \cup {snap[t].dbv : t \in {x \in Threads : snap[x] # Nil}}

\* Mutant: a clock that may repeat a token.
NewStampsAnyClock == Stamps

\* k.DBVersion = time.Now().UnixNano() on every successful write.
NewStamps == IF FreshStamps THEN Stamps \ StampsInUse ELSE Stamps

WithStamp(key, s) ==
    [acl |-> key.acl, versions |-> key.versions, hash |-> key.hash, dbv |-> s]

\* Mutant: Add stores the key without setting its DBVersion.
DBAddUnstamped(k, key) ==
    /\ db[k] = Nil
    /\ db' = [db EXCEPT ![k] = key]

\* TempDB.Add: fails with ErrKeyExists when the id is taken.
DBAdd(k, key) ==
    /\ db[k] = Nil
    /\ \E s \in NewStamps : db' = [db EXCEPT ![k] = WithStamp(key, s)]

\* Mutant: Update without the DBVersion comparison.
DBUpdateUnchecked(k, key) ==
    \/ /\ db[k] # Nil
       /\ \E s \in NewStamps : db' = [db EXCEPT ![k] = WithStamp(key, s)]
    \/ /\ db[k] = Nil
       /\ UNCHANGED db

\* TempDB.Update: ErrKeyIDNotFound when the id is absent, ErrDBVersion when
\* the stored token differs from the one the caller read; otherwise the key
\* is stored with a new token.
DBUpdate(k, key) ==
    \/ /\ db[k] # Nil
       /\ db[k].dbv = key.dbv
       /\ \E s \in NewStamps : db' = [db EXCEPT ![k] = WithStamp(key, s)]
    \/ /\ ~ (db[k] # Nil /\ db[k].dbv = key.dbv)
       /\ UNCHANGED db

\* TempDB.Remove (ErrKeyIDNotFound leaves the DB as it is).
DBRemove(k) == db' = [db EXCEPT ![k] = Nil]

-----------------------------------------------------------------------------
(* Creating a key: postKeysHandler builds the key with newKey and calls    *)
(* KeyManager.AddNewKey, which validates, encrypts and calls db.Add.  A    *)
(* failure (ErrKeyExists) changes nothing.                                 *)

AddNewKey(k, p, reqACL, v) ==
    LET key == [acl      |-> NewKeyACL(reqACL, p, DefaultAccess),
                versions |-> NewVersionList(v),
                hash     |-> Hash(NewVersionList(v))]
    IN  /\ KeyValid(key)
        /\ DBAdd(k, key)

PostKey(p, k, reqACL, v) ==
    /\ AddNewKey(k, p, reqACL, v)
    /\ UNCHANGED <<pc, req, snap>>

-----------------------------------------------------------------------------
(* The handlers of the other mutations: GetKey, then principal.CanAccess.  *)
(* A missing key or a refused principal ends the request with no change.   *)

Authorize(t, p, k, op, arg, next) ==
    /\ pc[t] = "Idle"
    /\ db[k] # Nil
    /\ UserCanAccess(db[k].acl, p, Required[op])
    /\ pc' = [pc EXCEPT ![t] = next]
    /\ req' = [req EXCEPT ![t] = [op |-> op, who |-> p, key |-> k, arg |-> arg]]
    /\ UNCHANGED <<db, snap>>

\* putAccessHandler (Admin), then KeyManager.UpdateAccess.
PutAccess(t, p, k, g, a) == Authorize(t, p, k, "UpdateAccess", <<g, a>>, "Get")

\* postVersionHandler (Write): newKeyVersion draws a random id, then
\* KeyManager.AddVersion.
PostVersion(t, p, k, v) == Authorize(t, p, k, "AddVersion", v, "Get")

\* putVersionsHandler (Write), then KeyManager.UpdateVersion.
PutVersion(t, p, k, v, s) == Authorize(t, p, k, "UpdateVersion", <<v, s>>, "Get")

\* deleteKeyHandler (Admin), then KeyManager.DeleteKey.
DeleteKeyHandler(t, p, k) == Authorize(t, p, k, "DeleteKey", Nil, "Remove")

Finish(t) ==
    /\ pc' = [pc EXCEPT ![t] = "Idle"]
    /\ req' = [req EXCEPT ![t] = Nil]
    /\ snap' = [snap EXCEPT ![t] = Nil]

-----------------------------------------------------------------------------
(* The key manager's read-modify-write.                                    *)

\* encK, err := m.db.Get(id) and Decrypt, at the start of UpdateAccess,
\* AddVersion and UpdateVersion.
ManagerGet(t) ==
    /\ pc[t] = "Get"
    /\ \/ /\ db[req[t].key] = Nil
          /\ Finish(t)
       \/ /\ db[req[t].key] # Nil
          /\ snap' = [snap EXCEPT ![t] = db[req[t].key]]
          /\ pc' = [pc EXCEPT ![t] = "Write"]
          /\ UNCHANGED req
    /\ UNCHANGED db

\* UpdateAccess: copy, ACL.Add, ACL.Validate, db.Update.
UpdateAccessWrite(t) ==
    /\ pc[t] = "Write"
    /\ req[t].op = "UpdateAccess"
    /\ DBUpdate(req[t].key,
                [snap[t] EXCEPT !.acl = ACLAdd(@, req[t].arg[1], req[t].arg[2])])
    /\ Finish(t)

\* AddVersion: append the new version to the decrypted key, rehash and
\* Validate (ErrSameVersionID when the random id is taken); append the
\* encrypted version to a copy of the stored key, store the new hash.
AddVersionWrite(t) ==
    /\ pc[t] = "Write"
    /\ req[t].op = "AddVersion"
    /\ LET v     == req[t].arg
           added == Appended(snap[t].versions, v, Active)
       IN  \/ /\ snap[t].versions[v] = NotPresent
              /\ KeyValid([versions |-> added, hash |-> Hash(added)])
              /\ DBUpdate(req[t].key,
                          [snap[t] EXCEPT !.versions = added, !.hash = Hash(added)])
           \/ /\ ~ /\ snap[t].versions[v] = NotPresent
                   /\ KeyValid([versions |-> added, hash |-> Hash(added)])
              /\ UNCHANGED db
    /\ Finish(t)

\* Mutant: the write-back loop is left out.
StatusesNotCopied(enc, kvl) == enc

\* The write-back loop of UpdateVersion: every stored version takes the
\* status of the version with the same id in the updated list.
StatusesCopied(enc, kvl) ==
    [x \in VersionIDs |->
        IF enc[x] # NotPresent /\ kvl[x] # NotPresent THEN kvl[x] ELSE enc[x]]

\* UpdateVersion: KeyVersionList.Update on the decrypted key, rehash,
\* Validate, copy the statuses into a copy of the stored key, db.Update.
UpdateVersionWrite(t) ==
    /\ pc[t] = "Write"
    /\ req[t].op = "UpdateVersion"
    /\ LET vl  == snap[t].versions
           v   == req[t].arg[1]
           s   == req[t].arg[2]
           kvl == Updated(vl, v, s)
           ok  == UpdateAllowed(vl, v, s)
                  /\ KeyValid([versions |-> kvl, hash |-> Hash(kvl)])
       IN  \/ /\ ok
              /\ DBUpdate(req[t].key,
                          [snap[t] EXCEPT !.versions = StatusesCopied(vl, kvl),
                                          !.hash = Hash(kvl)])
           \/ /\ ~ok
              /\ UNCHANGED db
    /\ Finish(t)

\* DeleteKey: db.Remove, with no token.
DeleteRemove(t) ==
    /\ pc[t] = "Remove"
    /\ DBRemove(req[t].key)
    /\ Finish(t)

-----------------------------------------------------------------------------
Next ==
    \/ \E p \in Principals, k \in KeyIDs, acl \in ACLs, v \in VersionIDs :
          PostKey(p, k, acl, v)
    \/ \E t \in Threads :
          \/ \E p \in Principals, k \in KeyIDs :
                \/ \E g \in Principals, a \in AccessTypes : PutAccess(t, p, k, g, a)
                \/ \E v \in VersionIDs : PostVersion(t, p, k, v)
                \/ \E v \in VersionIDs, s \in Statuses : PutVersion(t, p, k, v, s)
                \/ DeleteKeyHandler(t, p, k)
          \/ ManagerGet(t)
          \/ UpdateAccessWrite(t)
          \/ AddVersionWrite(t)
          \/ UpdateVersionWrite(t)
          \/ DeleteRemove(t)

Spec == Init /\ [][Next]_vars

-----------------------------------------------------------------------------
(* Properties.                                                             *)

TypeOK ==
    /\ db \in [KeyIDs -> Records \cup {Nil}]
    /\ pc \in [Threads -> {"Idle", "Get", "Write", "Remove"}]
    /\ req \in [Threads -> Requests \cup {Nil}]
    /\ snap \in [Threads -> Records \cup {Nil}]

\* Every stored key validates: exactly one Primary version, and the stored
\* version hash is the hash of the stored version list.  The manager
\* validates the decrypted key but writes a separately built copy of the
\* encrypted one (AddVersion, the status loop of UpdateVersion), so the two
\* must agree; GetKey with the Primary filter dereferences GetPrimary().
StoredKeysValid ==
    \A k \in KeyIDs : db[k] # Nil => KeyValid(db[k])

\* A request about to write whose token still matches the stored record
\* read exactly that record: a matching DBVersion means no other write
\* happened since the manager's db.Get (no ABA on the token).
SnapshotCoherent ==
    \A t \in Threads :
        /\ pc[t] = "Write"
        /\ db[req[t].key] # Nil
        /\ db[req[t].key].dbv = snap[t].dbv
        => snap[t] = db[req[t].key]

\* A request that changes a key was allowed to by the key's ACL as it was
\* just before the change (the handler checks the ACL of its own GetKey,
\* the manager writes over the key it reads afterwards).
AuthorizedWrite ==
    [][\A t \in Threads :
          /\ pc[t] \in {"Write", "Remove"}
          /\ pc'[t] = "Idle"
          /\ db' # db
          => UserCanAccess(db[req[t].key].acl, req[t].who, Required[req[t].op])
      ]_vars

\* The stored keys without their DBVersion tokens.
AbstractStore ==
    [k \in KeyIDs |->
        IF db[k] = Nil THEN Nil
        ELSE [acl |-> db[k].acl, versions |-> db[k].versions, hash |-> db[k].hash]]

KS == INSTANCE KeyStore WITH store <- AbstractStore

\* Every successful request takes effect atomically on the current key: the
\* interleaved read-modify-write implements the atomic KeyStore.
KeyStoreRefinement == KS!Spec

=============================================================================
