CONSTANTS
    Titles <- MCTitles
    Contents <- MCContents
    Heading <- MCHeading
    Fields <- MCFields
    Updates <- MCUpdates
    Upstream = {account, parent}
    Messages = {m1}
    NoTitle = NoTitle
    NoText = NoText
    NoUpstream = NoUpstream
    Ids = {c1}
    Requests = {r1, r2}
    StoreFaults = TRUE
    MaxCrashes = 1
    t1 = t1
    t2 = t2
    hello = hello
    parent = parent
    account = account
SPECIFICATION Spec
INVARIANTS NamedOnceAnswered NoUpdateLost DeletedStaysGone
SYMMETRY Interchangeable
