CONSTANTS
    t1 = t1
    t1new = t1new
    t2 = t2
    u1 = u1
    u2 = u2
    None = None
    Tokens = {t1, t1new, t2}
    Conversations = {u1, u2}
    Legacy = {}
    UserOf <- MCUserOf
    Seeded <- MCSeeded
    Owners = {admin}
    AdminOwners = {admin}
    Sessions = {s1, s2}
    Requests = {r1}
    Kinds = {"dial", "context", "title", "release", "upload"}
    MaxAccountAttempts = 2
    MaxAccounts = 3
    MaxOps = 3
    MaxEdits = 2
SYMMETRY Interchangeable
SPECIFICATION ListedSpec
INVARIANTS
    SessionStaysHome
    KnownResumable
    BoundIsListed
    ListedIsBound
CHECK_DEADLOCK FALSE
