\* Four callers racing on one key with a request that replays its body:
\* enough conflicts that a caller exhausts its three attempts.
CONSTANTS
    c1 = c1  c2 = c2  c3 = c3  c4 = c4
    Clients = {c1, c2, c3, c4}
    MaxRetryAttempts = 3
    ReplayBody = TRUE
\* Every call returns after at most MaxRetryAttempts round trips.
CHECK_DEADLOCK FALSE
SPECIFICATION Spec
INVARIANT OkMeansAppliedOnce
INVARIANT FailsOnlyAfterLostRaces
