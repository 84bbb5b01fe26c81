CONSTANTS
    Addresses = {a1, a2}
    Requests = {r1, r2, r3}
    MaxFailures = 3
    Window = 2
    Lockout = 4
    MaxTime = 8
    MaxAttempts = 7
SPECIFICATION Spec
SYMMETRY Interchangeable
INVARIANTS FewLatePasswords LockEarned GuessesBounded
PROPERTY LockStands
CHECK_DEADLOCK FALSE
