\* A group at rest: two calls fail, and the stream or the consumer is closed.
CONSTANTS
    x = x  y = y  c1 = c1  c2 = c2
    Partitions = {0, 1}
    Nodes = {x, y}
    Leader <- TwoLeaders
    Mode = "COMMITTED"
    Fallback = "EARLIEST"
    Manual <- NoManual
    Always = FALSE
    Closers = {c1, c2}
    Forced = {c2}
    BatchSize = 2
    Committed0 <- MidBatch
    Assigned0 = {0, 1}
    Assignments = {{0, 1}}
    NoCloser = NoCloser
    MaxBatches <- OneLonger
    MaxRebalances = 0
    MaxFaults = 2
SPECIFICATION FairSpec
INVARIANTS
    NoRepeats
PROPERTIES
    EveryMessageArrives
    EveryPushIsCommitted
    EveryCloseAnswered
CHECK_DEADLOCK FALSE
