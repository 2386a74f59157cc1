# TLA+ models of Knox

Knox is a secret-management service. A server stores keys: each key has an
ACL and a list of versions. Clients read keys, and a client daemon keeps
them cached on disk. This directory holds TLA+ models of the parts of Knox
where concurrency makes correctness hard to test. It also holds the TLC
configurations that check those models on small instances and the TLAPS
proofs of their main invariants for every instance.

## 1. The system and its parts

| Part | Source | State | Operations |
|---|---|---|---|
| Key model | `src/unnamed/part_000` | a key's ACL, its version list and the version hash | `ACL.Add`, `KeyVersionList.Update`, `Validate`, `Hash` |
| HTTP handlers | `src/server/routes.go`, `src/unnamed/part_009` | none; one goroutine per request | POST key, PUT access, POST version, PUT version, DELETE key, and reads |
| Key manager | `src/server/key_manager.go` | none; it reads and writes the DB | `AddNewKey`, `UpdateAccess`, `AddVersion`, `UpdateVersion`, `DeleteKey`, and reads |
| Key DB | `src/server/keydb/keydb.go` | stored keys, each with a `DBVersion` token | `Get`, `GetAll`, `Add`, `Update`, `Remove` |
| Cryptor | `src/server/keydb/cryptor.go` | none | encrypt and decrypt version data |
| Auth providers | `src/server/auth/spiffe.go`, `src/unnamed/part_010`, `src/unnamed/part_011` | none | authenticate a request, `CanAccess` |
| Client daemon | `src/client/daemon.go` | cache files, the registration file | periodic `update`, `processKey` |
| Registration | `src/client/register.go`, `src/unnamed/part_004`, `src/unnamed/part_005` | the registration file under `flock` | register, unregister |
| Client API | `src/unnamed/part_016` | none | HTTP calls, retried on 500 |

### How a mutation runs on the server

Each request runs in its own goroutine:

1. The handler calls `KeyManager.GetKey`, which is one DB read, and checks
   `principal.CanAccess(key.ACL, …)`.
2. It then calls the manager.
3. The manager reads the key again (`db.Get`), decrypts it, computes the new
   key in memory and validates it.
4. The manager writes the key with `db.Update`.

`db.Update` succeeds only if the stored `DBVersion` still equals the one the
manager read (TempDB compares in Go; SQLDB uses `UPDATE … WHERE
last_updated=?`). Every successful write stores a new token,
`time.Now().UnixNano()`. Each DB call is atomic, but other requests run
between any two of them.

### Hard behaviours

- **Interleaved read-modify-write cycles.** Two requests can work on the
  same key at once.
- **Authorization is checked on a different read than the one that is
  written.**
- **The version token is a wall-clock value, compared only for equality.**
- **Deleting a key needs no token.** A key can be deleted and re-created
  while another request still holds a snapshot of the old key.
- **The manager validates one key and writes another.** It validates the
  decrypted key but stores an encrypted copy that it builds separately.
- **Client side:** a lock held across network calls, retries, and files
  written while a crash can happen.

`PROJECT.json` lists the hazards with their source lines.

## 2. Modules

| Module | Models | Kind |
|---|---|---|
| `KnoxKey` | the key model: access types, ACLs as functions, version lists as functions, rotation, the hash, validation, `newKey` | pure operators |
| `KeyStore` | what the key manager promises: each mutation is atomic on the current key | abstract specification |
| `KeyManager` | the handlers, the manager's read-modify-write and the DB's token check, over parallel requests | detailed specification; refines `KeyStore` |
| `MCKeyManager` | constants for TLC and the symmetry set | model-checking module |
| `KeyManagerProofs` | TLAPS proofs about `KeyManager` | proofs |
| `Daemon` | the client side: the registration file and its `flock`, register and unregister commands, the daemon's `update`/`processKey` cycle, the cache directory, daemon crashes | detailed specification |
| `MCDaemon` | constants and symmetry for `Daemon` | model-checking module |
| `DaemonProofs` | TLAPS proofs that locked writers never lose a registration and the cache never holds a partial file | proofs |
| `TempDB` | TempDB's slice and backing array, `Add`/`Remove` in place, and a `GetAllKeyIDs` listing that reads the slice after `GetAll` unlocked | detailed specification |
| `MCTempDB` | constants and symmetry for `TempDB` | model-checking module |
| `TempDBProofs` | TLAPS proof that a listing never returns an id that was not stored | proofs |
| `RetryClient` | `getHTTPData`'s retry loop sending `UpdateVersion` against the server's token-checked update | detailed specification |
| `MCRetryClient` | constants for `RetryClient` | model-checking module |
| `RetryClientProofs` | TLAPS proofs that the retry loop never stores a mutation twice | proofs |

### Abstractions

- **Key data and creation times** are left out. No property tells them
  apart.
- **Principals** are users named by model values.
- **An ACL** is a function from principals to an access type, where `None`
  means "no entry". `ACL.Add` never leaves a `None` entry or a duplicate, so
  a valid ACL list and this function determine each other.
- **A version list** is a function from version ids to a status or to
  `NotPresent`.
- **The hash** is the buffer `KeyVersionList.Hash` feeds to SHA-256:
  - the sorted Primary ids, then the sorted Active ids, then one zero word
    per Inactive version;
  - SHA-256 is taken to have no collisions.
- **Encryption** is abstracted away. The DB holds the key as it would be
  decrypted. For each field, the encrypted copy that the manager stores
  (`newEncK`) is the value that the manager's code puts there.
- **`DBVersion` tokens** are model values from the set `Stamps`:
  - With `FreshStamps = TRUE`, a write takes a token that no stored record
    and no in-flight snapshot holds. This is the clock used in production
    when it strictly increases between writes.
  - With `FreshStamps = FALSE`, a write may take any token. This is a coarse
    clock, or several servers with skewed clocks sharing one SQL DB.

### `KeyManager`: state and actions

**State:**

- `db`: the DB, mapping each key id to a stored record or `Nil`.
- `pc[t]`: where request goroutine `t` is: `Idle`, `Get`, `Write` or
  `Remove`.
- `req[t]`: the request `t` is serving.
- `snap[t]`: the record the manager read.

**Actions:**

| Action | Code |
|---|---|
| `PostKey` | `postKeysHandler` → `newKey` → `AddNewKey` → `db.Add`, one atomic DB call |
| `PutAccess`, `PostVersion`, `PutVersion`, `DeleteKeyHandler` | the handler's `GetKey` and `CanAccess` check (`Authorize`) |
| `ManagerGet` | the manager's `db.Get`; a key that is gone ends the request |
| `UpdateAccessWrite` | `ACL.Add` and `db.Update` |
| `AddVersionWrite` | append the version, `Hash`, `Validate` (`ErrSameVersionID`), `db.Update` |
| `UpdateVersionWrite` | `KeyVersionList.Update`, `Hash`, `Validate`, the status-copy loop (`StatusesCopied`), `db.Update` |
| `DeleteRemove` | `db.Remove` |

A failed DB call or a failed validation ends the request with no change.

### `Daemon`: the client machine

The client machine has three kinds of actors:

- **The daemon** (`daemon.go`). It runs `update` forever, woken by a ticker
  or by a change to the registration file.
- **`knox register` and `knox unregister`** (`register.go`, `part_001`,
  `part_005`). Each run is one process that edits the registration file.
- **The server.** Its keys change under the daemon.

They share two things: the registration file, which lists the registered
key ids, and the cache directory, which holds one file per key.

**State:**

| Variables | What they hold |
|---|---|
| `srv`, `published`, `changes` | each server key as a version hash and whether this machine may read it; the history of hashes each key has had; the number of server changes so far |
| `reg`, `lock` | the registration file's contents; the holder of its `flock` |
| `intent` | history: what the completed commands and self-heal removals should have left in the file |
| `cache`, `tmp` | each cache file's hash or `NoFile`; the number of temporary files in the directory |
| `dpc`, `dmap`, `dtodo`, `dcur`, `dval`, `dbuf` | the daemon's phase and its locals |
| `cpc`, `ccmd`, `ctries`, `cbuf` | each command's phase, its command, its lock retries and the buffer it will write |

**Actions:**

| Action | Code |
|---|---|
| `Start` | the command line: `register` adds or overwrites (`-r`); `unregister` removes one id |
| `ClientLock`, `ClientLockWait` | `flock.lock`: `LOCK_EX\|LOCK_NB` retried until `lockTimeout`, when the command fails with `ErrTimeout` |
| `ClientLock` (no change) | `KeysFile.Add` returns before writing when nothing is new |
| `ClientOpen` | the older unregister, which skips the lock |
| `ClientFlush` | the write half of `ioutil.WriteFile`, and then `Unlock` |
| `DaemonLock` | the start of `update`: `Lock`, `Get`, building the `keyMap` from `CacheGetKey`, and deleting cache files of unregistered ids; a failing `ReadDir` (error ignored, line 173) leaves every hash empty |
| `DaemonList` | `GetKeys` → `GetUpdatedKeyIDs` |
| `DaemonFetch` | `NetworkGetKey`: a readable key is written to a new temporary file; "does not exist" or "not authorized" calls `KeysFile.Remove`; another failure skips the key |
| `DaemonRename` | `os.Rename` over the cache file, or unlinking the temporary file on error |
| `DaemonFlush` | the self-heal `Remove`'s write |
| `DaemonDone` | the deferred `Unlock` |
| `DaemonCrash`, `DaemonRestart` | the process is killed at any point, which releases the `flock`; a supervisor starts it again |
| `ServerChange` | another machine rotates, deletes or re-creates a key, or changes its ACL |

**Two steps for one write.** `ioutil.WriteFile` opens the file with
`O_TRUNC` and then writes it, so each KeysFile write is two steps:

1. `OpenForWrite` truncates the file and computes the new contents from what
   `Get` read just before. The read and the truncate are one step, because
   nothing can read the file between them in a way that matters.
2. `…Flush` writes the new contents.

**What is merged or abstracted.** Each other local computation is merged
with the file operation next to it. The key data is its hash.

**Bounds.** `LockTries`, `MaxFaults`, `MaxCrashes` and `MaxChanges` bound
the lock retries, the failed network and file calls, the crashes and the
server changes.

**Fairness.** `Fairness` is weak fairness on the daemon's steps and on each
started command:

- The daemon's loop never exits, and its ticker fires every
  `daemonRefreshTime` whether or not the file changes.
- A command, once started, runs to its end.
- No fairness is assumed for starting commands, for server changes or for
  failures. Failures are finite by their bounds.

### `TempDB`: listing keys while the DB changes

`TempDB.GetAll` returns `db.keys` itself and releases the read lock, so the
caller walks the slice while writers change it:

- `keyManager.GetAllKeyIDs` ranges over the returned slice, and so does
  `GetUpdatedKeyIDs`. This listing is what `GET /v0/keys/` and every daemon
  cycle use.
- `Remove` shifts the tail of the same backing array with
  `append(keys[:i], keys[i+1:]...)`.
- `Add` appends in place while there is capacity. Otherwise it moves the
  slice to a new array (capacity doubles), and a listing in progress keeps
  the old one.

**State:**

| Variables | What they hold |
|---|---|
| `arr`, `len` | the backing array and the slice length |
| `rlen`, `ri`, `rview`, `out` | the slice a listing got, its loop index, the array it reads, and its output |
| `seen`, `stable` | history: ids stored at some moment of the listing, and ids stored throughout it |

Copying one element (a `DBKey`) is taken to be atomic, although in Go it is
a data race. `Update` and `Get` do not change which ids are stored and are
modelled in `KeyManager`.

### `RetryClient`: the client's retry loop against optimistic updates

**Actors:** callers issuing `UpdateVersion` on one key, and the server
goroutine serving each attempt.

**The server side.** It runs in two steps:

- `ServerGet` reads the token.
- `ServerUpdate` writes if the token is unchanged. Otherwise it returns
  `ErrDBVersion`, which `writeErr` sends back as `InternalServerErrorCode`.

**The client side.** It follows `getHTTPData`:

- `ClientDo` sends the request.
- `ClientDecode` breaks on "ok", gives up at `maxRetryAttempts`, and
  otherwise sleeps and retries.

**The request body.** `getHTTPData` creates one request and reuses it:

- the first `Do` drains its `bytes.Buffer` body;
- a second `Do` of that request depends on the connection it goes out on:
  - on a fresh connection, the transport finds `ContentLength > 0` with
    nothing left to read, and fails before the request reaches the server
    (`ReplayBody = FALSE`);
  - on a reused keep-alive connection, the transport rewinds the body with
    the `GetBody` that `NewRequest` set (line 284), and the retry reaches
    the server (`ReplayBody = TRUE`). The server prefers HTTP/1.1, so
    connections are kept alive and this is the common case.
- Each run fixes one branch; network errors are not modelled.

**Fairness.** Each goroutine is weakly fair: a running call or handler
keeps running.

## 3. Runs of `KeyManager`

All runs use `MCKeyManager` with:

- one key id;
- two request goroutines;
- four tokens, one more than the records and snapshots that can hold one;
- symmetry over goroutines and tokens, which is sound because no definition
  names one of them and every property checked is a safety property.

Deadlock checking is off. The server is a passive request handler, and a
state where nothing can change is a real state. For example, a key whose ACL
lost every Write and Admin entry accepts no more mutations, and its id is
taken.

| Run | cfg | Instance | Checks | Result |
|---|---|---|---|---|
| `versions` | `MCKeyManagerVersions.cfg` | 1 user, version ids {1,2} | `TypeOK`, `StoredKeysValid`, `SnapshotCoherent`, `KeyStoreRefinement` | pass, 38 420 states |
| `access` | `MCKeyManagerAccess.cfg` | 2 users (u2 has a default Read), version id {1} | `KeyStoreRefinement` (the stamp and type invariants do not depend on the workload, so `versions` checks them) | pass, 64 282 states |
| `auth_toctou` | `MCKeyManagerAuth.cfg` | as `access` | `AuthorizedWrite` | violation |

### Why these bounds

- **Two version ids** are enough to reach every rotation transition:
  - add (including a repeated id), promote, demote, deactivate and
    reactivate;
  - the error paths of `Update`.
- **Two goroutines and one key** give every interleaving of two
  read-modify-write cycles on one key, including delete-then-recreate under
  an in-flight update.
- **Two users** are needed for ACL changes to matter to refinement. With one
  user, every ACL change is a single `UpdateAccess`.
- **Larger instances** did not finish in minutes: 3 version ids, or 2 users
  with 2 version ids.

The two passing runs together fire every action and every disjunct of
`Next`.

### The properties

- **`StoredKeysValid`:** every stored key has exactly one Primary version,
  and its hash is the hash of its list. This is what `GetKey(Primary)` relies
  on, because it dereferences `GetPrimary()`.
- **`SnapshotCoherent`:** a request about to write whose token still matches
  the stored key read exactly that key. This is the ABA question for the
  token.
- **`KeyStoreRefinement`:** `KeyManager` implements `KeyStore` under the
  refinement mapping that drops the tokens. Every successful request looks
  as if it ran alone, on the current key, at one instant.
- **`AuthorizedWrite`:** every write is allowed by the ACL of the key it
  overwrites.

### What the violations show

- **`auth_toctou`.** u1 (Admin) starts a DELETE, which passes the handler's
  check. A concurrent PUT /access then removes u1's entry, and the delete
  still goes through. The same window exists for PUT access, POST version
  and PUT versions: revoking a user's access does not stop the requests they
  already have in flight.

## 3b. Runs of the client side, `TempDB` and `RetryClient`

| Run | cfg | Instance | Checks | Result |
|---|---|---|---|---|
| `daemon_safety` | `MCDaemonSafety.cfg` | 2 key ids, 2 hashes, 2 commands; locked unregister; 1 failure, 2 server changes, no crash | `RegistrationsPreserved`, `CacheFilesWhole` | pass, about 1.7 M states |
| `daemon_liveness` | `MCDaemonLiveness.cfg` | 2 key ids, 1 command (unlocked unregister), 1 failure, 1 crash, 2 changes; `Spec` with fairness | `CacheConverges` | pass, about 490 000 states |
| `crash_truncate` | `MCDaemonTruncate.cfg` | as safety, 1 crash | `RegistrationsPreserved` | violation |
| `lock_scope` | `MCDaemonLockScope.cfg` | as safety | `NoLockTimeoutOnNetwork` | violation |
| `self_heal` | `MCDaemonSelfHeal.cfg` | 1 command, no failures; `Spec` | `DeletedKeysUnregistered` | violation |
| `getall_sound` | `MCTempDBSound.cfg` | 3 ids, 1 listing, 5 `Add`/`Remove` calls | `ListingSound` | pass, 791 states |
| `getall_race` | `MCTempDBRace.cfg` | as above | `ListingComplete` | violation |
| `retry_safety` | `MCRetrySafety.cfg` | 4 callers, 3 attempts, body replayed; `Spec` | `OkMeansAppliedOnce`, `FailsOnlyAfterLostRaces` | pass, 71 089 states |
| `retry_body` | `MCRetryBody.cfg` | 2 callers, 3 attempts, the real request | `FailsOnlyAfterBudget` | violation |

### Deadlock checking and symmetry

- **`Daemon` checks deadlock.** The daemon never stops, so a state where
  nothing can move would be a real defect.
- **`TempDB` and `RetryClient` turn deadlock checking off.** Their runs end
  when the bounded calls are done.
- **Symmetry over ids, hashes and commands** is used only by the safety
  runs. It is sound there because no definition names one of them.

### Why these bounds

- **`Daemon`.** Two key ids give:
  - one key refreshed while another is registered, unregistered or healed;
  - two commands racing on the file.

  Two hashes give a real refresh. The liveness runs use one command so that
  they finish without symmetry.
- **`TempDB`.** Five calls over three ids grow the array through
  capacities 1, 2 and 4. They also shift it under a listing in every order.
- **`RetryClient`.** With four callers, the last winner may need all three
  attempts, and a fourth caller can exhaust its budget. This fires the
  give-up branch and puts `FailsOnlyAfterLostRaces` at its limit: the
  failing caller lost to all three others.

### The properties

- **`RegistrationsPreserved`:** when no writer is mid-write, the registration
  file holds exactly what the completed commands and self-heal removals
  intended.
- **`CacheFilesWhole`:** every cache file holds a version the server really
  served for that id.
- **`CacheConverges`:** once changes, commands and failures stop, the cache
  ends up holding:
  - the current version of every readable registered key;
  - no file for an id that is not registered.
- **`ListingSound`:** a listing only returns ids stored at some moment of
  the call.
- **`OkMeansAppliedOnce`:** a call that returns success had its change
  stored exactly once.
- **`FailsOnlyAfterLostRaces`:** a failed call lost `maxRetryAttempts`
  token races, each to a different caller whose change was stored. So a
  refusal is always a real conflict, and with no more concurrent writers
  than attempts (spec scenario 6) every call succeeds. The mutant
  `GiveUpEarly`, an off-by-one in the give-up test, breaks it.
- **`FailsOnlyAfterBudget`** (checked only by `retry_body`): spec §5,
  "repeated conflicts surface as 500s after the client's budget". Every
  call returns, and a failed call has used all `maxRetryAttempts`
  attempts.

The two passing `Daemon` runs together fire every `Daemon` action. The
`TempDB` and `RetryClient` passing runs fire every action and disjunct of
their modules.

### What the violations show

- **`crash_truncate`:** the daemon is killed between the truncate and the
  write of its self-heal `Remove`. The file is left empty. This contradicts
  the spec's claim that SIGTERM needs no cleanup because all writes are
  atomic.
- **`lock_scope`:** `update` defers `Unlock`, so the flock is held during
  `GetKeys` and `NetworkGetKey`. A register waiting on it times out. Spec §5
  says the lock is never held across network calls.
- **`self_heal`:**
  1. A registered key is deleted on the server.
  2. `GetUpdatedKeyIDs` iterates only over stored keys, so the id is never
     returned.
  3. `processKey` never sees "does not exist".

  The id stays registered forever, against spec scenario 8.
- **`getall_race`:**
  1. With `[a, b]` stored, a listing takes the slice of length 2.
  2. `Remove(a)` shifts the array to `[b, b]`.
  3. The listing returns `b` twice. With three ids it can also skip an id
     that was stored throughout.
- **`retry_body`:**
  1. Two callers read the same token, and the loser gets
     `InternalServerError`.
  2. Its retry reuses the drained request. When the retry opens a fresh
     connection, it fails in the transport.

  The call returns an error after one conflict instead of retrying. This
  happens only when no idle keep-alive connection is available, for
  example after the server closed it. On a reused connection
  (`ReplayBody = TRUE`, `retry_safety`), the loser retries and succeeds.

### Seen while modelling, without a run of their own

TLC also finds the following when the constants are changed. They stay
listed as hazards in `PROJECT.json`; no run checks them.

- **`coarse_clock`.** Two concurrent ACL changes both read token s1. The
  first write gets s1 again, so the second write passes the version check
  and overwrites the first change, which is lost. With a strictly
  increasing clock (`versions`, `access`), no update is lost.
  Set `FreshStamps = FALSE` in an `MCKeyManager` cfg and check
  `KeyStoreRefinement`.
- **`unlocked_unregister`:**
  1. `c1` takes the lock for `register k1` and truncates the file.
  2. `c2` runs the older, lock-free `unregister k2` and reads the empty
     file.
  3. `c1` writes `{k1}`.
  4. `c2` writes `{}`.

  The registration of `k1` is lost.
  Set `UnregisterLocks = FALSE` in `MCDaemonSafety.cfg`. This is the older
  of the two `runUnregister` definitions in `part_005`.
- **`temp_leak`:** a crash between `TempFile` and `Rename` leaves
  `.*.<id>.tmp` in the directory, and no code removes it.
  Set `MaxCrashes = 1` and watch `tmp`.

## 4. Proofs

Four modules hold TLAPS proofs: `KeyManagerProofs` (five theorems),
`DaemonProofs` (two), `RetryClientProofs` (three) and `TempDBProofs` (one).
Each theorem holds for every value of the constants that the module's
`ASSUME` allows: `KnoxKeyAssumption` and `KeyManagerAssumption`,
`DaemonAssumption`, `RetryAssumption`, `TempDBAssumption`. Every invariance
theorem has the same shape: an inductive invariant `Inv`, checked by TLC
as an invariant before it was proved, and the three facts `Init => Inv`,
`Inv /\ [Next]_vars => Inv'` and `Inv => Property`, combined by PTL.

`KeyManagerAssumption` states that `Nil` is neither a key nor a stored
record (`Nil \notin Keys \cup Records`). In the code, `Nil` is the nil
`*Key` or `*DBKey`, which is no key.

### `TypeCorrect` and `TypeOKAlways`: `Spec => []TypeInv`, `Spec => []TypeOK`

`TypeInv` is `TypeOK` plus `ThreadsOK`:

- a request past its handler has a well-typed request record;
- a request in `Write` holds a snapshot.

`TypeOKAlways` states the runs' `TypeOK` on its own and follows from it.

### `StoredKeysAlwaysValid`: `Spec => []StoredKeysValid`

`StoredKeysValid` is not inductive on its own, because a write stores a key
computed from the writer's snapshot. The inductive invariant `ValidInv` adds
`SnapshotsValid`: every snapshot is valid, since it was a stored key. The
step cases are:

- `UpdateAccess` changes neither the versions nor the hash.
- `AddVersion` stores the list and the hash it validated.
- `UpdateVersion` stores `StatusesCopied(vl, Updated(vl, v, s))`. Lemma
  `StatusesCopiedUpdated` shows this equals the validated list: a legal
  transition keeps the set of present ids.

### `SnapshotsCoherent`: under `FreshStamps`, `Spec => []SnapshotCoherent`

The inductive invariant is `TypeInv /\ SnapshotCoherent`. The key step is
`DBStepCoherent`:

- A write takes a token outside `StampsInUse`, and every writer's snapshot
  token is in `StampsInUse`. So a write can never produce the token a
  pending writer holds.
- A delete leaves `Nil`.

The three facts `Init => Inv`, `Inv /\ [Next]_vars => Inv'` and
`Inv => Property` are combined by PTL.

### `RegistrationsNeverLost` (`DaemonProofs`)

**The theorem.** Under `UnregisterLocks` and `MaxCrashes = 0`:

`Spec => []RegistrationsPreserved`

It holds for all key ids, hashes and commands allowed by
`DaemonAssumption`. Both hypotheses are needed: the two violations above
show each of them matters.

**Why a strengthening is needed.** `RegistrationsPreserved` is not
inductive, because a truncated file differs from `intent` until its writer
flushes. The inductive invariant `RegInv` adds:

- the phase and buffer functions have the expected domains;
- `LockHeld`: a writer in `Flush` holds the flock;
- `WritesPending`: the pending buffer equals the writer's change applied to
  `intent` now;
- no command is in the unlocked `Open` phase.

**The step proof.** Lemma `RegStep` has one case per action. The lock-taking
actions show that no other writer is active, and so `reg = intent` at the
read. `RegFrame` handles the actions that leave the file alone.

### `KeyStoreRefined`: under `FreshStamps`, `Spec => KeyStoreRefinement`

The detailed `KeyManager` implements the atomic `KeyStore`. The refinement
mapping `AbstractStore` drops each record's `DBVersion` token. The
invariant used is `CoherentInv == TypeInv /\ SnapshotCoherent`, from the
previous theorem. Lemma `SameKeyModel` equates the copies of the `KnoxKey`
operators that `KS == INSTANCE KeyStore` brings in with the originals.
Lemma `RefineStep` handles each action of `Next`:

- The handlers, `ManagerGet`, `Authorize` and `Finish` leave `db`
  unchanged. They are stutters of `KeyStore`.
- A write whose token check fails leaves `db` unchanged, and is a stutter
  too.
- A write that passes the check lands on the snapshot it was computed from
  (`WriteLandsOnSnapshot`). Coherence gives `db[k] = snap[t]` up to the
  token, so `UpdateAccessWrite` and `AddVersionWrite` are the `KeyStore`
  steps `UpdateAccess` and `AddVersion` on the current key.
- For `UpdateVersionWrite`, lemma `StatusesCopiedUpdated` shows that
  writing back the statuses equals `KeyStore`'s `Updated`.
- `PostKey` is `KeyStore`'s `AddNewKey`, and `DeleteRemove` is its
  `DeleteKey`.

The hypothesis `FreshStamps` is needed. Without it, a coarse clock lets a
stale snapshot pass the token check, and an update is lost (`coarse_clock`
in section 3b).

### `CacheAlwaysWhole` (`DaemonProofs`): `Spec => []CacheFilesWhole`

This holds with daemon crashes and without the lock hypotheses. The
inductive invariant `CacheInv` adds:

- every hash the server holds has been published;
- while `processKey` is between its write of the temporary file and its
  rename, the value it will rename is a published hash.

Since a crash loses only the temporary file and the rename is atomic, a
cache file only ever receives a published hash.

### `RetryTypeOK` and `AppliedAtMostOnce` (`RetryClientProofs`)

`AppliedAtMostOnce` is `Spec => []OkMeansAppliedOnce`. The inductive
invariant `AppliedInv` adds, for each caller:

- the caller and the server goroutine serving it move in lock step: a
  server phase exists exactly while the caller waits;
- `applied` is 0 or 1;
- `applied = 1` exactly when an `"ok"` is being decoded or has been
  returned.

A server update with a stale token is refused, and a retry follows only a
non-`ok` answer. So the second application that a retry could cause never
happens. `RetryTypeOK` is the type invariant proved with the same
invariant.

### `FailsOnlyAfterRaces` (`RetryClientProofs`): under `ReplayBody`, `Spec => []FailsOnlyAfterLostRaces`

The inductive invariant `RacesInv` adds three things to `AppliedInv`:

- The token counts the stored mutations: `stamp = Cardinality(StoredBy)`.
- `RaceBound(c)` gives lower bounds on the token along one call:
  - before attempt `i` is sent, and while the server reads the key,
    `i - 1 <= stamp`;
  - at the update, `i - 1 <= snap[c] <= stamp`;
  - after a refusal at attempt `i`, `i <= stamp`;
  - after the give-up, `maxRetryAttempts <= stamp`.

The step argument:

- A refusal means the token moved after the snapshot, so `snap[c] < stamp`.
- A failed caller stored nothing (`AppliedInv`), so every stored mutation
  is another caller's.

The proof uses `FS_AddElement` of `FiniteSetTheorems`. It needs the set of
callers to be finite (`IsFiniteSet(Clients)` in `RetryAssumption`), since a
process runs finitely many goroutines. The hypothesis `ReplayBody` is
needed: on a fresh connection, a retry fails after one conflict
(`retry_body`).

### `ListingNeverInvents` (`TempDBProofs`): `Spec => []ListingSound`

The inductive invariant `SoundInv` says:

- the first `len` cells of the backing array hold ids;
- for each reader (`ReaderInv`):
  - an idle reader has empty output;
  - an active reader has output only from `seen`;
  - a reading reader has seen every id stored now, its slice length is
    within the array it reads, and every cell of that prefix holds an id
    it has seen.

The step argument:

- `Add` in place writes only cell `len + 1`. It is outside every reader's
  prefix, or it is an id that is now stored and so seen.
- `Remove` shifts cells down from above. Each shifted cell held a stored
  id.
- An `Add` that grows moves the slice to a new array. A reader keeps the
  old one, which nobody writes again.

`TempDBAssumption` states that the marker for "the shared array" is not
itself an array value, so the two cases are told apart. `TempDB` defines
`Elems` and `Distinct` itself rather than extending `SequencesExt`. This
keeps the proof module free of `RECURSIVE` operators. The proof cites
`AppendProperties` and `LenProperties` of `SequenceTheorems`.

### Beyond the prover's reach

The liveness property `CacheConverges` (`daemon_liveness`) is checked by
TLC only. It is a leads-to property under weak fairness. TLAPS's `PTL` backend cannot
reason about `ENABLED`, which a fairness argument needs. The modules with
theorems avoid `RECURSIVE` operators and the community modules built on
them.

### Only model-checked

- The liveness property `CacheConverges`.
- `FailsOnlyAfterBudget`, which only the violation run `retry_body` checks.
- The violation runs, which show counterexamples rather than theorems.
- `RegistrationsPreserved` is proved only under `UnregisterLocks` and
  `MaxCrashes = 0`. The runs show it fails without either hypothesis.

## 5. Not modelled yet, and why

- **Cryptor:** pure data transformation.
- **Auth providers other than user entries:** identity lookups.
- **Router and decorators:** stateless per request.
- **CLI commands other than register and unregister:** one API call each,
  through the retry loop modelled in `RetryClient`.
- **Server binaries, TLS and logging:** I/O only.
- **Key migration tool:** an offline copy.
- **SQLDB:** its `UPDATE` and the follow-up `SELECT` that classifies a
  failure are one atomic call in `KeyManager`. A delete between the two
  statements changes only the error returned, not the stored state.
- **The daemon's metrics and the `register -g` wait:** these are timers and
  logging around the cache read.

Planned next:

- the Windows `LockFileEx` lock.
