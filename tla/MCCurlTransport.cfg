CONSTANTS
    RequestSizes = {0, 1, 3}
    PipeSize = 2
    BodyLimit = 3
    MaxEmitted = 7
SPECIFICATION FairSpec
INVARIANTS
    WholeIsWhole
    NothingLeft
    StatusIsUpstreams
PROPERTIES
    CloseEnds
    CallEnds
CHECK_DEADLOCK FALSE
