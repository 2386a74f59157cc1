CONSTANTS
    u1 = u1
    u2 = u2
    Principals = {u1, u2}
    VersionIDs = {1}
    DefaultAccess <- MCDefaultAccess
    KeyIDs = {k1}
    Threads = {t1, t2}
    Stamps = {s1, s2, s3, s4}
    FreshStamps = TRUE
    Nil = Nil
SPECIFICATION Spec
SYMMETRY MCSymmetry
\* A key whose ACL lost every Write and Admin entry accepts no more
\* mutations, and its id cannot be reused: the server is then idle.
CHECK_DEADLOCK FALSE
PROPERTIES
    AuthorizedWrite
