\* No retry, and one heartbeat that fails.
CONSTANTS
    j1 = j1  k1 = k1  l1 = l1  r1 = r1  x = x  t1 = t1
    Joins = {}
    Consumes = {k1}
    Topic <- OwnTopic
    Leaves = {}
    Closer = x
    Forced = {x}
    MayClose = FALSE
    Overlapping = FALSE
    Rejoins = {r1}
    Ids = {1, 2, 3, 4}
    Retries = 0
    NoCall = NoCall
    MaxUpsets = 0
    MaxFaults = 1
    MaxEpoch = 9
SPECIFICATION Spec
INVARIANTS
    MemberTended
CHECK_DEADLOCK FALSE
