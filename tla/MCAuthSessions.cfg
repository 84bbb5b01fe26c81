CONSTANTS
    Cookies = {c1, c2}
    Requests = {r1, r2}
    TTL = 3
    TicksPerSecond = 2
    StoreFaults = TRUE
    MaxTime = 4
    MaxRestarts = 2
SPECIFICATION Spec
SYMMETRY Interchangeable
INVARIANT TermsKept DeniedForCause LogoutOutlivesRestart
CHECK_DEADLOCK FALSE
