\* The connection closes while the socket is blocked.
CONSTANTS
    a = a
    b = b
    c = c
    n = n
    u = u
    Requests = {a, b, c}
    NoResponse = {}
    Unserializable = {}
    MaxInflights = 2
    StrayReplies = FALSE
SPECIFICATION Spec
INVARIANT CloseSettlesAll
CHECK_DEADLOCK FALSE
