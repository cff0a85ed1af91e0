\* A user that awaits each call; one rebalance or expired session, one lost
\* connection.  Two calls about offsets, three brokers, one of which joins later.
CONSTANTS
    j1 = j1  k1 = k1  l1 = l1  r1 = r1  x = x  t1 = t1
    Joins = {j1}
    Consumes = {k1}
    Topic <- OwnTopic
    Leaves = {l1}
    Closer = x
    Forced = {x}
    MayClose = TRUE
    Overlapping = FALSE
    Rejoins = {r1}
    Ids = {1, 2, 3, 4}
    Retries = 1
    NoCall = NoCall
    MaxUpsets = 1
    MaxFaults = 1
    MaxEpoch = 9
    c1 = c1  c2 = c2
    OffsetCalls = {c1, c2}
    Asked <- Pairs
    Events <- Around
    Partitions <- AllPartitions
    Tracked = {"a"}
    Brokers = {0, 1, 2}
    FirstBrokers = {0, 1}
    Leaders0 <- TwoLeaders
    Coordinator0 = 1
    OffsetRetries = 1
    MaxLosses = 2
    MaxMoves = 2
    MaxEnd = 1
SPECIFICATION ConsumerSpec
INVARIANTS
    MemberTended
PROPERTIES
    EveryCallSettles
    RejoinsInTheEnd
    AnswersAreCurrent
    AckedCommitIsStored
    EveryOffsetsCallSettles
CHECK_DEADLOCK FALSE
