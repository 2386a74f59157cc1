---------------------------- MODULE DaemonProofs ----------------------------
(***************************************************************************)
(* Proofs about the client-side model for every set of key ids, hashes    *)
(* and clients: with the unregister that takes the flock and no daemon    *)
(* crash, no registration is ever lost.                                   *)
(***************************************************************************)
EXTENDS Daemon, TLAPS

USE DaemonAssumption

\* Who holds the flock: a client writing the registration file, and the
\* daemon from its Get until the deferred Unlock.
LockHeld ==
    /\ \A c \in Clients : cpc[c] = "Flush" => lock = c
    /\ dpc \in {"List", "Fetch", "Rename", "Flush"} => lock = DaemonProc

\* What a pending write will put in the file: the writer's change applied
\* to the registrations as they are now.
WritesPending ==
    /\ \A c \in Clients : cpc[c] = "Flush" => cbuf[c] = KeysApply(ccmd[c], intent)
    /\ dpc = "Flush" => dbuf = KeysRemove(intent, {dcur})

\* The inductive invariant: RegistrationsPreserved alone is not inductive,
\* because a truncated file differs from intent until its writer flushes.
RegInv ==
    /\ crashes \in Nat
    /\ cpc \in [Clients -> {"Ready", "Lock", "Open", "Flush", "Done", "TimedOut"}]
    /\ DOMAIN cbuf = Clients
    /\ LockHeld
    /\ WritesPending
    /\ \A c \in Clients : cpc[c] # "Open"
    /\ RegistrationsPreserved

LEMMA RegInit == Init => RegInv
BY DEF Init, RegInv, LockHeld, WritesPending, RegistrationsPreserved

\* Actions that leave the registration file, intent, the flock and every
\* writer's phase and buffer alone.
LEMMA RegFrame ==
    ASSUME RegInv,
           UNCHANGED <<reg, intent, lock, crashes, dpc, dbuf, dcur, cpc, ccmd, cbuf>>
    PROVE  RegInv'
BY DEF RegInv, LockHeld, WritesPending, RegistrationsPreserved

LEMMA RegStep ==
    ASSUME UnregisterLocks, MaxCrashes = 0
    PROVE  RegInv /\ [Next]_vars => RegInv'
<1> SUFFICES ASSUME RegInv, [Next]_vars PROVE RegInv'
    OBVIOUS
<1>1. ASSUME NEW k \in KeyIDs, ServerChange(k) PROVE RegInv'
    BY <1>1, RegFrame DEF ServerChange, daemonVars, clientVars
<1>2. ASSUME NEW c \in Clients, NEW cmd \in Cmds, Start(c, cmd) PROVE RegInv'
    BY <1>2 DEF Start, NeedsLock, serverVars, daemonVars, RegInv, LockHeld,
                WritesPending, RegistrationsPreserved
<1>3. ASSUME NEW c \in Clients, ClientLock(c) PROVE RegInv'
    <2>0. lock = Free
        BY <1>3 DEF ClientLock, LockFree
    <2>1. reg = intent /\ dpc \notin {"List", "Fetch", "Rename", "Flush"}
          /\ \A d \in Clients : cpc[d] # "Flush"
        <3>1. \A d \in Clients : cpc[d] # "Flush"
            BY <2>0 DEF RegInv, LockHeld
        <3>2. dpc \notin {"List", "Fetch", "Rename", "Flush"}
            BY <2>0 DEF RegInv, LockHeld
        <3>. QED BY <3>1, <3>2 DEF RegInv, RegistrationsPreserved
    <2>2. CASE ccmd[c].op = "add" /\ ~ KeysAddChanges(reg, ccmd[c].ks)
        <3>1. intent' = intent
            BY <1>3, <2>1, <2>2 DEF ClientLock, KeysApply, KeysAdd, KeysAddChanges
        <3>. QED
            BY <1>3, <2>1, <2>2, <3>1 DEF ClientLock, serverVars, daemonVars,
               RegInv, LockHeld, WritesPending, RegistrationsPreserved
    <2>3. CASE ~ (ccmd[c].op = "add" /\ ~ KeysAddChanges(reg, ccmd[c].ks))
        BY <1>3, <2>1, <2>3 DEF ClientLock, OpenForWrite, serverVars, daemonVars,
           RegInv, LockHeld, WritesPending, RegistrationsPreserved
    <2>. QED BY <2>2, <2>3
<1>4. ASSUME NEW c \in Clients, ClientLockWait(c) PROVE RegInv'
    BY <1>4 DEF ClientLockWait, serverVars, daemonVars, RegInv, LockHeld,
                WritesPending, RegistrationsPreserved
<1>5. ASSUME NEW c \in Clients, ClientOpen(c) PROVE RegInv'
    BY <1>5 DEF ClientOpen, RegInv
<1>6. ASSUME NEW c \in Clients, ClientFlush(c) PROVE RegInv'
    <2>0. lock = c
        BY <1>6 DEF ClientFlush, RegInv, LockHeld
    <2>1. lock = c /\ dpc \notin {"List", "Fetch", "Rename", "Flush"}
          /\ \A d \in Clients : d # c => cpc[d] # "Flush"
        BY <2>0 DEF RegInv, LockHeld
    <2>. QED
        BY <1>6, <2>1 DEF ClientFlush, serverVars, daemonVars, RegInv, LockHeld,
           WritesPending, RegistrationsPreserved
<1>7. CASE DaemonLock
    <2>1. \A d \in Clients : cpc[d] # "Flush"
        BY <1>7, DaemonAssumption DEF DaemonLock, LockFree, RegInv, LockHeld
    <2>. QED
        BY <1>7, <2>1 DEF DaemonLock, serverVars, clientVars, RegInv, LockHeld,
           WritesPending, RegistrationsPreserved
<1>8. CASE DaemonLockWait
    BY <1>8, RegFrame DEF DaemonLockWait, clientVars
<1>9. CASE DaemonList
    BY <1>9 DEF DaemonList, serverVars, clientVars, RegInv, LockHeld,
                WritesPending, RegistrationsPreserved
<1>10. CASE DaemonFetch
    <2>1. reg = intent /\ \A d \in Clients : cpc[d] # "Flush"
        BY <1>10, DaemonAssumption
        DEF DaemonFetch, RegInv, LockHeld, RegistrationsPreserved
    <2>. QED
        BY <1>10, <2>1 DEF DaemonFetch, serverVars, clientVars, RegInv, LockHeld,
           WritesPending, RegistrationsPreserved
<1>11. CASE DaemonRename
    BY <1>11 DEF DaemonRename, serverVars, clientVars, RegInv, LockHeld,
                 WritesPending, RegistrationsPreserved
<1>12. CASE DaemonFlush
    <2>1. \A d \in Clients : cpc[d] # "Flush"
        BY <1>12, DaemonAssumption DEF DaemonFlush, RegInv, LockHeld
    <2>. QED
        BY <1>12, <2>1 DEF DaemonFlush, serverVars, clientVars, RegInv, LockHeld,
           WritesPending, RegistrationsPreserved
<1>13. CASE DaemonDone
    BY <1>13 DEF DaemonDone, serverVars, clientVars, RegInv, LockHeld,
                 WritesPending, RegistrationsPreserved
<1>14. CASE DaemonRestart
    BY <1>14 DEF DaemonRestart, serverVars, clientVars, RegInv, LockHeld,
                 WritesPending, RegistrationsPreserved
<1>15. CASE DaemonCrash
    BY <1>15 DEF DaemonCrash, RegInv
<1>16. CASE UNCHANGED vars
    BY <1>16, RegFrame DEF vars, serverVars, daemonVars, clientVars
<1>. QED
    BY <1>1, <1>2, <1>3, <1>4, <1>5, <1>6, <1>7, <1>8, <1>9, <1>10, <1>11,
       <1>12, <1>13, <1>14, <1>15, <1>16
    DEF Next, ClientStep, DaemonStep

\* The flock serialises every read-modify-write of the registration file:
\* a register, an unregister and the daemon's self-heal removal never
\* overwrite each other's change (KeysFile.Add and Remove in daemon.go,
\* runRegister and the lock-taking runUnregister).
THEOREM RegistrationsNeverLost ==
    ASSUME UnregisterLocks, MaxCrashes = 0
    PROVE  Spec => []RegistrationsPreserved
<1>1. Init => RegInv
    BY RegInit
<1>2. RegInv /\ [Next]_vars => RegInv'
    BY RegStep
<1>3. RegInv => RegistrationsPreserved
    BY DEF RegInv
<1>. QED BY <1>1, <1>2, <1>3, PTL DEF Spec

-----------------------------------------------------------------------------
\* The cache directory.  What the daemon may put in keys/<id>: a hash the
\* server has had for that id.  The temporary file being renamed holds
\* one, and every hash the server serves is recorded in published.
CacheInv ==
    /\ srv \in [KeyIDs -> ServerKeys]
    /\ DOMAIN published = KeyIDs
    /\ DOMAIN cache = KeyIDs
    /\ \A k \in KeyIDs : srv[k].hash \in published[k]
    /\ dpc = "Rename" /\ dcur \in KeyIDs => dval \in published[dcur]
    /\ CacheFilesWhole

LEMMA CacheInit == Init => CacheInv
BY DEF Init, CacheInv, CacheFilesWhole

\* Steps that touch neither the server, the cache, nor processKey's file,
\* and do not move the daemon into its rename.
LEMMA CacheFrame ==
    ASSUME CacheInv,
           UNCHANGED <<srv, published, cache, dcur, dval>>,
           dpc' = dpc \/ dpc' # "Rename"
    PROVE  CacheInv'
BY DEF CacheInv, CacheFilesWhole

LEMMA CacheStep == CacheInv /\ [Next]_vars => CacheInv'
<1> SUFFICES ASSUME CacheInv, [Next]_vars PROVE CacheInv'
    OBVIOUS
<1>1. ASSUME NEW k \in KeyIDs, ServerChange(k) PROVE CacheInv'
    <2>1. PICK sk \in ServerKeys \ {srv[k]} :
                 /\ srv' = [srv EXCEPT ![k] = sk]
                 /\ published' = [published EXCEPT ![k] = @ \cup {sk.hash}]
        BY <1>1 DEF ServerChange
    <2>2. \A j \in KeyIDs : published[j] \subseteq published'[j]
        BY <2>1 DEF CacheInv
    <2>3. \A j \in KeyIDs : srv'[j].hash \in published'[j]
        BY <2>1 DEF CacheInv
    <2>4. UNCHANGED <<cache, dpc, dcur, dval>>
        BY <1>1 DEF ServerChange, daemonVars
    <2>. QED
        BY <2>1, <2>2, <2>3, <2>4 DEF CacheInv, CacheFilesWhole
<1>2. ASSUME NEW c \in Clients, NEW cmd \in Cmds, Start(c, cmd) PROVE CacheInv'
    BY <1>2, CacheFrame DEF Start, serverVars, daemonVars
<1>3. ASSUME NEW c \in Clients, ClientStep(c) PROVE CacheInv'
    <2>1. UNCHANGED <<srv, published, cache, dpc, dcur, dval>>
        BY <1>3 DEF ClientStep, ClientLock, ClientLockWait, ClientOpen,
                    ClientFlush, OpenForWrite, serverVars, daemonVars
    <2>. QED BY <2>1, CacheFrame
<1>4. CASE DaemonLock
    BY <1>4 DEF DaemonLock, serverVars, CacheInv, CacheFilesWhole
<1>5. CASE DaemonLockWait
    BY <1>5, CacheFrame DEF DaemonLockWait, serverVars
<1>6. CASE DaemonList
    BY <1>6, CacheFrame DEF DaemonList, serverVars
<1>7. CASE DaemonFetch
    <2>1. PICK k \in dtodo :
            \/ /\ Readable(k) /\ dcur' = k /\ dval' = srv[k].hash
               /\ dpc' = "Rename"
            \/ dpc' = "Flush"
            \/ UNCHANGED <<dpc, dcur, dval>>
        BY <1>7 DEF DaemonFetch
    <2>2. UNCHANGED <<srv, published, cache>> /\ dpc = "Fetch"
        BY <1>7 DEF DaemonFetch, serverVars
    <2>. QED
        BY <2>1, <2>2 DEF CacheInv, CacheFilesWhole
<1>8. CASE DaemonRename
    <2>1. UNCHANGED <<srv, published>> /\ dpc' = "Fetch" /\ dpc = "Rename"
        BY <1>8 DEF DaemonRename, serverVars
    <2>2. \/ cache' = [cache EXCEPT ![dcur] = dval]
          \/ UNCHANGED cache
        BY <1>8 DEF DaemonRename
    <2>3. CacheFilesWhole'
        BY <2>1, <2>2 DEF CacheInv, CacheFilesWhole
    <2>. QED
        BY <2>1, <2>2, <2>3 DEF CacheInv
<1>9. CASE DaemonFlush
    BY <1>9 DEF DaemonFlush, serverVars, CacheInv, CacheFilesWhole
<1>10. CASE DaemonDone
    BY <1>10, CacheFrame DEF DaemonDone, serverVars
<1>11. CASE DaemonRestart
    BY <1>11 DEF DaemonRestart, serverVars, CacheInv, CacheFilesWhole
<1>12. CASE DaemonCrash
    BY <1>12 DEF DaemonCrash, serverVars, CacheInv, CacheFilesWhole
<1>13. CASE UNCHANGED vars
    BY <1>13, CacheFrame DEF vars, serverVars, daemonVars
<1>. QED
    BY <1>1, <1>2, <1>3, <1>4, <1>5, <1>6, <1>7, <1>8, <1>9, <1>10, <1>11,
       <1>12, <1>13 DEF Next, DaemonStep

\* processKey writes into a temporary file and renames it over keys/<id>,
\* so a reader of the cache (CacheGetKey, knox get) only ever finds a key
\* the server really served for that id, whatever crashes, failed renames,
\* deletions of unregistered files and server-side changes interleave.
THEOREM CacheAlwaysWhole == Spec => []CacheFilesWhole
<1>1. Init => CacheInv
    BY CacheInit
<1>2. CacheInv /\ [Next]_vars => CacheInv'
    BY CacheStep
<1>3. CacheInv => CacheFilesWhole
    BY DEF CacheInv
<1>. QED BY <1>1, <1>2, <1>3, PTL DEF Spec

=============================================================================
