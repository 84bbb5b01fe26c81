CONSTANTS
    t1 = t1
    t1new = t1new
    t2 = t2
    u1 = u1
    u2 = u2
    None = None
    Tokens = {t1, t1new, t2}
    Conversations = {u1, u2}
    Legacy = {}
    UserOf <- MCUserOf
    Seeded <- MCSeeded
    Owners = {admin}
    AdminOwners = {admin}
    Sessions = {s1}
    Requests = {r1, r2}
    Kinds = {"dial", "context", "title", "upload"}
    MaxAccountAttempts = 2
    MaxAccounts = 3
    MaxOps = 3
    MaxEdits = 1
SPECIFICATION FairSpec
PROPERTY RequestsAnswered
CHECK_DEADLOCK FALSE
