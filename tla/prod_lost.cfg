\* Two sends under way at once, no failure at all.
CONSTANTS
    x = x  y = y  p = p  q = q  s1 = s1  s2 = s2  s3 = s3
    Partitions = {p, q}
    Brokers = {x, y}
    Sends = {s1, s2}
    Messages <- SpanningSend
    InitialLeaders <- TwoLeaders
    Rejected = {}
    MaxInflights = 1
    Retries = 0
    Unlimited = TRUE
    Overlapping = TRUE
    MaxDrops = 0
    MaxMoves = 0
SPECIFICATION Spec
INVARIANT AckedIsStored
CHECK_DEADLOCK FALSE
