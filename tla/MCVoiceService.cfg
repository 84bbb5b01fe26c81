CONSTANTS
    t1 = t1
    t1new = t1new
    t2 = t2
    u1 = u1
    u2 = u2
    None = None
    Tokens = {t1, t1new, t2}
    Conversations = {u1, u2, old}
    Legacy = {old}
    UserOf <- MCUserOf
    Seeded <- MCSeeded
    Owners = {admin, key}
    AdminOwners = {admin}
    Sessions = {s1}
    Requests = {r1, r2}
    Kinds = {"dial", "title", "release", "probe"}
    MaxAccountAttempts = 2
    MaxAccounts = 2
    MaxOps = 3
    MaxEdits = 1
SYMMETRY Interchangeable
SPECIFICATION Spec
INVARIANTS
    TypeOK
    Safe
    SessionKeepsOwner
    ConversationStaysHome
    AttemptsCounted
PROPERTIES OnlyRejectedDisabled KeepsPromise
CHECK_DEADLOCK FALSE
