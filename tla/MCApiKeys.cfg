CONSTANTS
    Secrets = {k1, k2, k3}
    Sessions = {s1, s2}
    Requests = {r1, r2}
    None = None
    MaxKeys = 3
    MaxRequests = 4
SYMMETRY Interchangeable
SPECIFICATION Spec
INVARIANT SessionStaysWithSecret
CHECK_DEADLOCK FALSE
