CONSTANTS
    Tokens = {old1, old2, new}
    Keys = {k1, k2}
    OldSchemas <- MCOldSchemas
    OldTokens = {old1, old2}
    Imports <- MCNew
    MaxAdds = 2
    MaxCrashes = 2
    MaxImports = 2
    NoKey = NoKey
    NoHash = NoHash
    old1 = old1
    old2 = old2
    new = new
SPECIFICATION FairSpec
INVARIANTS ServesEveryToken OncePerToken
PROPERTY StartsForGood
CHECK_DEADLOCK FALSE
