\* Two callers racing on one key with the request getHTTPData really
\* builds: its body is read once.
CONSTANTS
    c1 = c1  c2 = c2  c3 = c3  c4 = c4
    Clients = {c1, c2}
    MaxRetryAttempts = 3
    ReplayBody = FALSE
\* Every call returns after at most MaxRetryAttempts round trips.
CHECK_DEADLOCK FALSE
SPECIFICATION Spec
PROPERTY FailsOnlyAfterBudget
