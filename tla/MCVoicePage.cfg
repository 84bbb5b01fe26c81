CONSTANTS
    Titles <- MCTitles
    Contents <- MCContents
    Heading <- MCHeading
    FirstWords <- MCHeading
    Grows <- MCGrows
    Extends <- MCExtends
    RenameTitles = {renamed1}
    OfficialTitles = {official}
    Messages = {mine, theirs}
    mine = mine
    theirs = theirs
    Fields = {}
    Upstream = {}
    NoTitle = NoTitle
    NoText = NoText
    NoUpstream = NoUpstream
    NetFaults = TRUE
    MaxSent = 2
    MaxHeard = 2
    MaxReloads = 1
    hi = hi
    hiThere = hiThere
    tHi = tHi
    tHiThere = tHiThere
    renamed1 = renamed1
    renamed2 = renamed2
    official = official
SPECIFICATION PageSpec
INVARIANTS QuietRenameStays CaptionsArrive
