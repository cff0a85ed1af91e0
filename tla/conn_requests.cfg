\* Every kind of request, two slots, a peer that may send a stray reply.
CONSTANTS
    a = a
    b = b
    c = c
    n = n
    u = u
    Requests = {a, b, n, u}
    NoResponse = {n}
    Unserializable = {u}
    MaxInflights = 2
    StrayReplies = TRUE
SPECIFICATION FairSpec
INVARIANTS
    SlotAccounting
    AnsweredAtMostOnce
    WireInSendOrder
    UnblockedCloseSettles
    InflightSettled
PROPERTY PromiseSpec
PROPERTY EveryRequestSettles
CHECK_DEADLOCK FALSE
