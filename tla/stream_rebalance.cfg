\* A partition is handed over to this member while it reads another one.
CONSTANTS
    x = x  y = y  c1 = c1  c2 = c2
    Partitions = {0, 1}
    Nodes = {x, y}
    Leader <- TwoLeaders
    Mode = "COMMITTED"
    Fallback = "EARLIEST"
    Manual <- NoManual
    Always = TRUE
    Closers = {c1}
    Forced = {}
    BatchSize = 2
    Committed0 <- BothBegun
    Assigned0 = {0}
    Assignments = {{0, 1}}
    NoCloser = NoCloser
    MaxBatches <- OtherLonger
    MaxRebalances = 1
    MaxFaults = 0
SPECIFICATION FairSpec
INVARIANTS
    NothingSkipped
    OffsetsFollowMessages
PROPERTIES
    EveryMessageArrives
CHECK_DEADLOCK FALSE
