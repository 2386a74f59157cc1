\* Cache convergence under the daemon's fairness, with a crash, failures and the unregister that takes no lock.
CONSTANTS
    k1 = k1  k2 = k2  h1 = h1  h2 = h2  c1 = c1  c2 = c2
    KeyIDs = {k1, k2}
    Hashes = {h1, h2}
    Clients = {c1}
    DaemonProc = DaemonProc
    Free = Free
    NoKey = NoKey
    NoHash = NoHash
    NoFile = NoFile
    NoCmd = NoCmd
    LockTries = 1
    MaxFaults = 1
    MaxCrashes = 1
    MaxChanges = 2
    UnregisterLocks = FALSE

SPECIFICATION Spec


PROPERTY CacheConverges
