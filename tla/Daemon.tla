------------------------------- MODULE Daemon -------------------------------
(***************************************************************************)
(* The client side of Knox on one machine: the refresh daemon             *)
(* (src/client/daemon.go), the registration file it shares with the       *)
(* `knox register` and `knox unregister` commands under an advisory flock *)
(* (KeysFile, src/unnamed/part_004), the key cache it keeps on disk, and   *)
(* the server it polls, whose keys change, disappear and change access at *)
(* any time.                                                               *)
(*                                                                         *)
(* A cache file holds the JSON of one key; it is abstracted to the key's   *)
(* version hash.  A server key is its version hash and whether this       *)
(* machine may read it.  Each process is a sequence of atomic steps: one  *)
(* file-system call or one HTTP exchange, with a pure local computation   *)
(* folded into the step before or after it when nothing another process  *)
(* does can tell the difference.                                           *)
(***************************************************************************)
EXTENDS Naturals, FiniteSets

CONSTANTS
    KeyIDs,          \* key identifiers a machine may register
    Hashes,          \* version hashes a server key can have
    Clients,         \* processes running one register or unregister command
    DaemonProc,      \* the daemon, as a holder of the flock
    Free,            \* nobody holds the flock
    NoKey,           \* the server has no key with this id
    NoHash,          \* the fingerprint "" of a registered key with no readable cache file
    NoFile,          \* no cache file for this id
    NoCmd,           \* a client that has not started its command
    LockTries,       \* failed flock attempts before ErrTimeout: lockTimeout / lockRetryTime
    MaxFaults,       \* bound on network and file-system errors
    MaxCrashes,      \* bound on daemon crashes
    MaxChanges,      \* bound on server-side changes
    UnregisterLocks  \* runUnregister takes the flock (the second version in part_005)

ASSUME DaemonAssumption ==
    /\ IsFiniteSet(KeyIDs) /\ KeyIDs # {}
    /\ Hashes # {}
    /\ DaemonProc \notin Clients /\ Free \notin Clients \cup {DaemonProc}
    /\ {NoKey, NoHash, NoFile} \cap Hashes = {}
    /\ LockTries \in Nat /\ MaxFaults \in Nat
    /\ MaxCrashes \in Nat /\ MaxChanges \in Nat
    /\ UnregisterLocks \in BOOLEAN

VARIABLES
    srv,        \* the server: key id -> [hash, read]
    published,  \* history: the hashes each server key has had
    changes,    \* server-side changes so far
    reg,        \* the ids in the registration file
    intent,     \* history: the ids the completed commands and self-heals leave registered
    lock,       \* the holder of the flock on the registration file
    cache,      \* keys/<id>: the hash of the cached key, or NoFile
    tmp,        \* temporary key files in the daemon folder
    faults,     \* network and file-system errors so far
    crashes,    \* daemon crashes so far
    dpc,        \* where the daemon is
    dtries,     \* the daemon's failed flock attempts
    dmap,       \* the fingerprint map update() sends to the server
    dtodo,      \* ids the server listed and processKey has yet to handle
    dcur,       \* the id processKey is handling
    dval,       \* the hash processKey fetched for dcur
    dbuf,       \* the content the daemon's KeysFile.Remove is writing
    cpc,        \* where each client is
    ccmd,       \* each client's command
    ctries,     \* each client's failed flock attempts
    cbuf        \* the content each client is writing

serverVars == <<srv, published, changes>>
daemonVars == <<dpc, dtries, dmap, dtodo, dcur, dval, dbuf>>
clientVars == <<cpc, ccmd, ctries, cbuf>>
vars == <<serverVars, reg, intent, lock, cache, tmp, faults, crashes,
          daemonVars, clientVars>>

(* A key the server has, readable by this machine or not, or no key.      *)
ServerKeys == [hash : Hashes, read : BOOLEAN] \cup {[hash |-> NoKey, read |-> FALSE]}

(* getKeyHandler: the key exists and CanAccess(key.ACL, Read) holds.       *)
Readable(k) == srv[k].hash # NoKey /\ srv[k].read

(* The phases in which the daemon waits on the server.                     *)
NetworkPhases == {"List", "Fetch"}

-----------------------------------------------------------------------------
(***************************************************************************)
(* The registration file (KeysFile).  A file of ids, one per line, written *)
(* from a map, so it never holds a duplicate and is a set.                 *)
(***************************************************************************)
KeysAdd(old, ks) == old \cup ks

(* Add compares len(newKeys) with len(oldKeys) and writes nothing when no  *)
(* id is new.                                                              *)
KeysAddChanges(old, ks) == ~ (ks \subseteq old)

KeysRemove(old, ks) == old \ ks

KeysOverwrite(ks) == ks

(* The commands: register -k/-f (Add), register -r (Overwrite) and         *)
(* unregister, which names exactly one id.                                 *)
Cmds == [op : {"add", "overwrite"}, ks : SUBSET KeyIDs \ {{}}]
            \cup [op : {"remove"}, ks : {{k} : k \in KeyIDs}]

KeysApply(cmd, old) ==
    CASE cmd.op = "add"       -> KeysAdd(old, cmd.ks)
      [] cmd.op = "remove"    -> KeysRemove(old, cmd.ks)
      [] cmd.op = "overwrite" -> KeysOverwrite(cmd.ks)

NeedsLock(cmd) == cmd.op # "remove" \/ UnregisterLocks

(* Mutant: a process that writes the file without taking the flock.      *)
LockFreeIgnored == TRUE

(* flock with LOCK_EX|LOCK_NB succeeds only when nobody holds the lock.    *)
LockFree == lock = Free

-----------------------------------------------------------------------------
Init ==
    /\ srv \in [KeyIDs -> ServerKeys]
    /\ published = [k \in KeyIDs |-> {srv[k].hash}]
    /\ changes = 0
    /\ reg = {}
    /\ intent = {}
    /\ lock = Free
    /\ cache = [k \in KeyIDs |-> NoFile]
    /\ tmp = 0
    /\ faults = 0
    /\ crashes = 0
    /\ dpc = "Idle"
    /\ dtries = 0
    /\ dmap = [k \in {} |-> NoHash]
    /\ dtodo = {}
    /\ dcur = NoKey
    /\ dval = NoHash
    /\ dbuf = {}
    /\ cpc = [c \in Clients |-> "Ready"]
    /\ ccmd = [c \in Clients |-> NoCmd]
    /\ ctries = [c \in Clients |-> 0]
    /\ cbuf = [c \in Clients |-> {}]

-----------------------------------------------------------------------------
(***************************************************************************)
(* The server.  Keys rotate, are deleted or created, and this machine's   *)
(* read access is granted or revoked, at any time, a bounded number of    *)
(* times.                                                                  *)
(***************************************************************************)
ServerChange(k) ==
    /\ changes < MaxChanges
    /\ \E sk \in ServerKeys \ {srv[k]} :
          /\ srv' = [srv EXCEPT ![k] = sk]
          /\ published' = [published EXCEPT ![k] = @ \cup {sk.hash}]
    /\ changes' = changes + 1
    /\ UNCHANGED <<reg, intent, lock, cache, tmp, faults, crashes,
                   daemonVars, clientVars>>

(* GetUpdatedKeyIDs, serving GET /v0/keys/?<id>=<hash>...: the ids of the  *)
(* stored keys that the query names with a different hash.  It iterates    *)
(* over db.GetAll(), so an id the server no longer has is never listed.   *)
(* The route has no authorization check.                                  *)
UpdatedKeyIDs(versions) ==
    {k \in DOMAIN versions : srv[k].hash # NoKey /\ srv[k].hash # versions[k]}

-----------------------------------------------------------------------------
(***************************************************************************)
(* The register and unregister commands.  Each client runs one command.   *)
(***************************************************************************)
Start(c, cmd) ==
    /\ cpc[c] = "Ready"
    /\ ccmd' = [ccmd EXCEPT ![c] = cmd]
    /\ cpc' = [cpc EXCEPT ![c] = IF NeedsLock(cmd) THEN "Lock" ELSE "Open"]
    /\ UNCHANGED <<serverVars, reg, intent, lock, cache, tmp, faults, crashes,
                   daemonVars, ctries, cbuf>>

(* KeysFile.Get, then ioutil.WriteFile opening the file with O_TRUNC.      *)
OpenForWrite(c) ==
    /\ cbuf' = [cbuf EXCEPT ![c] = KeysApply(ccmd[c], reg)]
    /\ reg' = {}
    /\ cpc' = [cpc EXCEPT ![c] = "Flush"]

(* The flock is free: take it and read the file.  An Add with nothing new *)
(* unlocks again and succeeds without writing.                            *)
ClientLock(c) ==
    /\ cpc[c] = "Lock"
    /\ LockFree
    /\ IF ccmd[c].op = "add" /\ ~ KeysAddChanges(reg, ccmd[c].ks)
          THEN /\ UNCHANGED lock
               /\ cpc' = [cpc EXCEPT ![c] = "Done"]
               /\ intent' = KeysApply(ccmd[c], intent)
               /\ UNCHANGED <<reg, cbuf>>
          ELSE /\ lock' = c
               /\ OpenForWrite(c)
               /\ UNCHANGED intent
    /\ UNCHANGED <<serverVars, cache, tmp, faults, crashes, daemonVars,
                   ccmd, ctries>>

(* The flock is held: sleep lockRetryTime and try again, until the        *)
(* timeout, when the command exits through fatalf.                        *)
ClientLockWait(c) ==
    /\ cpc[c] = "Lock"
    /\ lock # Free
    /\ \/ /\ ctries[c] < LockTries
          /\ ctries' = [ctries EXCEPT ![c] = @ + 1]
          /\ UNCHANGED cpc
       \/ /\ ctries[c] = LockTries
          /\ cpc' = [cpc EXCEPT ![c] = "TimedOut"]
          /\ UNCHANGED ctries
    /\ UNCHANGED <<serverVars, reg, intent, lock, cache, tmp, faults, crashes,
                   daemonVars, ccmd, cbuf>>

(* The unregister that takes no lock reads and truncates the file         *)
(* whoever holds the flock.                                                *)
ClientOpen(c) ==
    /\ cpc[c] = "Open"
    /\ OpenForWrite(c)
    /\ UNCHANGED <<serverVars, intent, lock, cache, tmp, faults, crashes,
                   daemonVars, ccmd, ctries>>

(* The write of ioutil.WriteFile completes, and the command unlocks.      *)
ClientFlush(c) ==
    /\ cpc[c] = "Flush"
    /\ reg' = cbuf[c]
    /\ intent' = KeysApply(ccmd[c], intent)
    /\ lock' = IF lock = c THEN Free ELSE lock
    /\ cpc' = [cpc EXCEPT ![c] = "Done"]
    /\ cbuf' = [cbuf EXCEPT ![c] = {}]
    /\ UNCHANGED <<serverVars, cache, tmp, faults, crashes, daemonVars,
                   ccmd, ctries>>

ClientStep(c) ==
    \/ ClientLock(c)
    \/ ClientLockWait(c)
    \/ ClientOpen(c)
    \/ ClientFlush(c)

-----------------------------------------------------------------------------
(***************************************************************************)
(* The daemon: loop() calls update() on every tick and every change of    *)
(* the registration file.                                                  *)
(***************************************************************************)

(* update(): Lock, Get, then the scan of keys/: a cached id that is still *)
(* registered gets its hash from CacheGetKey, any other cached file is    *)
(* deleted.  The error of currentRegisteredKeys is ignored: when ReadDir  *)
(* fails, no file is deleted and every fingerprint is "".  With nothing   *)
(* registered, update() returns at once and the deferred Unlock runs.     *)
(* The keyMap entry of a registered id: the VersionHash CacheGetKey reads  *)
(* from keys/<id>, or "" when there is no cache file.                      *)
Fingerprint(k) == IF cache[k] = NoFile THEN NoHash ELSE cache[k]

(* Mutant: the scan forgets the `else d.deleteKey(keyID)` branch.         *)
DaemonLockKeepsFiles ==
    /\ dpc = "Idle"
    /\ LockFree
    /\ dmap' = [k \in reg |-> Fingerprint(k)]
    /\ IF reg = {} THEN UNCHANGED <<lock, dpc>>
                   ELSE lock' = DaemonProc /\ dpc' = "List"
    /\ dtries' = 0
    /\ UNCHANGED <<serverVars, reg, intent, cache, tmp, faults, crashes, dtodo,
                   dcur, dval, dbuf, clientVars>>

DaemonLock ==
    /\ dpc = "Idle"
    /\ LockFree
    /\ \/ /\ dmap' = [k \in reg |-> Fingerprint(k)]
          /\ cache' = [k \in KeyIDs |-> IF k \in reg THEN cache[k] ELSE NoFile]
          /\ UNCHANGED faults
       \/ /\ faults < MaxFaults
          /\ faults' = faults + 1
          /\ dmap' = [k \in reg |-> NoHash]
          /\ UNCHANGED cache
    /\ IF reg = {} THEN UNCHANGED <<lock, dpc>>
                   ELSE lock' = DaemonProc /\ dpc' = "List"
    /\ dtries' = 0
    /\ UNCHANGED <<serverVars, reg, intent, tmp, crashes, dtodo, dcur, dval,
                   dbuf, clientVars>>

(* Lock() retries every lockRetryTime and gives up after lockTimeout;     *)
(* update() then returns the error and the loop waits for the next tick.  *)
DaemonLockWait ==
    /\ dpc = "Idle"
    /\ lock # Free
    /\ dtries' = IF dtries < LockTries THEN dtries + 1 ELSE 0
    /\ UNCHANGED <<serverVars, reg, intent, lock, cache, tmp, faults, crashes,
                   dpc, dmap, dtodo, dcur, dval, dbuf, clientVars>>

(* cli.GetKeys(keyMap), still holding the flock.  On an error update()    *)
(* returns and the deferred Unlock runs.                                   *)
DaemonList ==
    /\ dpc = "List"
    /\ \/ /\ dtodo' = UpdatedKeyIDs(dmap)
          /\ dpc' = "Fetch"
          /\ UNCHANGED <<lock, faults>>
       \/ /\ faults < MaxFaults
          /\ faults' = faults + 1
          /\ dpc' = "Idle"
          /\ lock' = Free
          /\ UNCHANGED dtodo
    /\ dmap' = [k \in {} |-> NoHash]
    /\ UNCHANGED <<serverVars, reg, intent, cache, tmp, crashes, dtries,
                   dcur, dval, dbuf, clientVars>>

(* processKey(k) for one listed id.  NetworkGetKey succeeds, and the key  *)
(* is written to a new temporary file in the daemon folder.  Or the       *)
(* server answers "User or machine not authorized" or "Key identifer does *)
(* not exist", and KeysFile.Remove reads the file and truncates it.  Or   *)
(* another error (network, TempFile, Write: the temporary file is         *)
(* removed) skips the id.                                                  *)
(* Mutant: processKey writes the key straight into keys/<id>, which a    *)
(* reader sees truncated until the write completes.                       *)
DaemonFetchInPlace ==
    /\ dpc = "Fetch"
    /\ \E k \in dtodo :
          /\ dtodo' = dtodo \ {k}
          /\ Readable(k)
          /\ dcur' = k
          /\ dval' = srv[k].hash
          /\ cache' = [cache EXCEPT ![k] = NoHash]
          /\ tmp' = tmp + 1
          /\ dpc' = "Rename"
    /\ UNCHANGED <<serverVars, reg, intent, lock, faults, crashes, dtries, dmap,
                   dbuf, clientVars>>

DaemonFetch ==
    /\ dpc = "Fetch"
    /\ \E k \in dtodo :
          /\ dtodo' = dtodo \ {k}
          /\ \/ /\ Readable(k)
                /\ dcur' = k
                /\ dval' = srv[k].hash
                /\ tmp' = tmp + 1
                /\ dpc' = "Rename"
                /\ UNCHANGED <<reg, dbuf, faults>>
             \/ /\ ~ Readable(k)
                /\ dcur' = k
                /\ dbuf' = KeysRemove(reg, {k})
                /\ reg' = {}
                /\ dpc' = "Flush"
                /\ UNCHANGED <<dval, tmp, faults>>
             \/ /\ faults < MaxFaults
                /\ faults' = faults + 1
                /\ UNCHANGED <<reg, dpc, dcur, dval, dbuf, tmp>>
    /\ UNCHANGED <<serverVars, intent, lock, cache, crashes, dtries, dmap,
                   clientVars>>

(* os.Rename of the temporary file over keys/<id>, then Chmod; or the     *)
(* rename fails and the temporary file is removed.                        *)
DaemonRename ==
    /\ dpc = "Rename"
    /\ \/ /\ cache' = [cache EXCEPT ![dcur] = dval]
          /\ UNCHANGED faults
       \/ /\ faults < MaxFaults
          /\ faults' = faults + 1
          /\ UNCHANGED cache
    /\ tmp' = tmp - 1
    /\ dpc' = "Fetch"
    /\ dcur' = NoKey
    /\ dval' = NoHash
    /\ UNCHANGED <<serverVars, reg, intent, lock, crashes, dtries, dmap, dtodo,
                   dbuf, clientVars>>

(* The write of the daemon's KeysFile.Remove completes.                   *)
DaemonFlush ==
    /\ dpc = "Flush"
    /\ reg' = dbuf
    /\ intent' = KeysRemove(intent, {dcur})
    /\ dpc' = "Fetch"
    /\ dcur' = NoKey
    /\ dbuf' = {}
    /\ UNCHANGED <<serverVars, lock, cache, tmp, faults, crashes, dtries, dmap,
                   dtodo, dval, clientVars>>

(* Every listed id is handled: update() returns and the deferred Unlock   *)
(* releases the flock.                                                     *)
DaemonDone ==
    /\ dpc = "Fetch"
    /\ dtodo = {}
    /\ dpc' = "Idle"
    /\ lock' = Free
    /\ UNCHANGED <<serverVars, reg, intent, cache, tmp, faults, crashes, dtries,
                   dmap, dtodo, dcur, dval, dbuf, clientVars>>

(* The daemon is killed at any point.  The kernel releases its flock; its *)
(* temporary file, and a registration file it was writing, stay as they   *)
(* are.                                                                    *)
DaemonCrash ==
    /\ dpc # "Down"
    /\ crashes < MaxCrashes
    /\ crashes' = crashes + 1
    /\ dpc' = "Down"
    /\ lock' = IF lock = DaemonProc THEN Free ELSE lock
    /\ dtries' = 0
    /\ dmap' = [k \in {} |-> NoHash]
    /\ dtodo' = {}
    /\ dcur' = NoKey
    /\ dval' = NoHash
    /\ dbuf' = {}
    /\ UNCHANGED <<serverVars, reg, intent, cache, tmp, faults, clientVars>>

(* runDaemon restarts it: initialize() finds the folder and the           *)
(* registration file in place, and loop() begins.                          *)
DaemonRestart ==
    /\ dpc = "Down"
    /\ dpc' = "Idle"
    /\ UNCHANGED <<serverVars, reg, intent, lock, cache, tmp, faults, crashes,
                   dtries, dmap, dtodo, dcur, dval, dbuf, clientVars>>

DaemonStep ==
    \/ DaemonLock
    \/ DaemonLockWait
    \/ DaemonList
    \/ DaemonFetch
    \/ DaemonRename
    \/ DaemonFlush
    \/ DaemonDone
    \/ DaemonRestart

-----------------------------------------------------------------------------
Next ==
    \/ \E k \in KeyIDs : ServerChange(k)
    \/ \E c \in Clients, cmd \in Cmds : Start(c, cmd)
    \/ \E c \in Clients : ClientStep(c)
    \/ DaemonStep
    \/ DaemonCrash

(* The daemon's loop never ends and a ticker wakes it (daemon.go 91-113); *)
(* a supervisor restarts it after a crash.  A command, once started, runs *)
(* to its end.  Nobody has to start a command, and the server need not    *)
(* change.  Failures are bounded by MaxFaults and MaxCrashes, so they     *)
(* cannot recur forever.                                                   *)
Fairness ==
    /\ WF_vars(DaemonStep)
    /\ \A c \in Clients : WF_vars(ClientStep(c))

Spec == Init /\ [][Next]_vars /\ Fairness

-----------------------------------------------------------------------------
TypeOK ==
    /\ srv \in [KeyIDs -> ServerKeys]
    /\ published \in [KeyIDs -> SUBSET (Hashes \cup {NoKey})]
    /\ changes \in 0..MaxChanges
    /\ reg \in SUBSET KeyIDs
    /\ intent \in SUBSET KeyIDs
    /\ lock \in Clients \cup {DaemonProc, Free}
    /\ cache \in [KeyIDs -> Hashes \cup {NoFile}]
    /\ tmp \in Nat
    /\ faults \in 0..MaxFaults
    /\ crashes \in 0..MaxCrashes
    /\ dpc \in {"Idle", "List", "Fetch", "Rename", "Flush", "Down"}
    /\ dtries \in 0..LockTries
    /\ \E S \in SUBSET KeyIDs : dmap \in [S -> Hashes \cup {NoHash}]
    /\ dtodo \in SUBSET KeyIDs
    /\ dcur \in KeyIDs \cup {NoKey}
    /\ dval \in Hashes \cup {NoHash}
    /\ dbuf \in SUBSET KeyIDs
    /\ cpc \in [Clients -> {"Ready", "Lock", "Open", "Flush", "Done", "TimedOut"}]
    /\ ccmd \in [Clients -> Cmds \cup {NoCmd}]
    /\ ctries \in [Clients -> 0..LockTries]
    /\ cbuf \in [Clients -> SUBSET KeyIDs]

(* No registration is lost.  Whenever no write of the registration file  *)
(* is half done, the file holds exactly the ids that the completed        *)
(* register and unregister commands and the daemon's self-heal removals   *)
(* leave registered, in the order they completed.  Two KeysFile           *)
(* read-modify-write cycles (Add, Remove) that overlap, or a write cut    *)
(* short, break it.                                                        *)
RegistrationsPreserved ==
    (dpc # "Flush" /\ \A c \in Clients : cpc[c] # "Flush") => reg = intent

(* A reader of keys/<id> (CacheGetKey, `knox get`) sees a whole key that  *)
(* the server served for that id: processKey writes a temporary file and  *)
(* renames it over the cache file, so a reader never meets a truncated    *)
(* file or another key's content.                                         *)
CacheFilesWhole == \A k \in KeyIDs : cache[k] \in published[k] \cup {NoFile}

(* Scenario 7 of the spec (cache consistency): once the server, the       *)
(* commands and the failures are quiet, the cache settles.  Every         *)
(* registered key the machine may read is cached with the server's        *)
(* current hash, and no unregistered id keeps a cache file.               *)
CacheFresh(k) ==
    /\ k \in reg /\ Readable(k) => cache[k] = srv[k].hash
    /\ k \notin reg => cache[k] = NoFile

CacheConverges == <>[](\A k \in KeyIDs : CacheFresh(k))

(* Scenario 8 of the spec (revoked key self-heal): a registered id that   *)
(* the server no longer has is removed from the registration file by the  *)
(* daemon's cycle, so eventually no registered id is missing on the       *)
(* server.                                                                 *)
DeletedKeysUnregistered == <>[](\A k \in reg : srv[k].hash # NoKey)

(* Spec section 5: the daemon holds the registration-file lock only while *)
(* it reads and writes that file, never across network calls, so a       *)
(* register or unregister command never times out waiting on a daemon    *)
(* that is waiting on the server.                                         *)
NoLockTimeoutOnNetwork ==
    [][\A c \in Clients :
          cpc[c] # "TimedOut" /\ cpc'[c] = "TimedOut"
             => ~ (lock = DaemonProc /\ dpc \in NetworkPhases)]_vars

=============================================================================
