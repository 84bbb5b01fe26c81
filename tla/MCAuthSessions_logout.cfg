CONSTANTS
    Cookies = {c1, c2}
    Requests = {r1, r2}
    TTL = 3
    TicksPerSecond = 2
    StoreFaults = FALSE
    MaxTime = 4
    MaxRestarts = 2
SPECIFICATION Spec
SYMMETRY Interchangeable
INVARIANT LogoutRevokes
CHECK_DEADLOCK FALSE
