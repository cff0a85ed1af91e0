\* A user that awaits its sends to a partition.
CONSTANTS
    x = x  y = y  p = p  q = q  s1 = s1  s2 = s2  s3 = s3
    Partitions = {p, q}
    Brokers = {x, y}
    Sends = {s1, s2, s3}
    Messages <- Mixed
    InitialLeaders <- TwoLeaders
    Rejected <- TooLarge
    MaxInflights = 1
    Retries = 0
    Unlimited = TRUE
    Overlapping = FALSE
    MaxDrops = 2
    MaxMoves = 1
SPECIFICATION FairSpec
INVARIANTS
    AwaitedIsStored
    StoredOnce
    SequencesMatchLog
PROPERTY EverySendSettles
CHECK_DEADLOCK FALSE
