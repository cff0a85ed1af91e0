SPECIFICATION FairSpec
CONSTANTS
    m1 = m1  m2 = m2  t1 = t1  t2 = t2
    MetadataCallers = {m1, m2}
    ListCallers = {}
    ApiCallers = {a1}
    Topics = {t1, ti}
    Internal = {ti}
    Retries = 1
    MaxClears = 1
INVARIANT ArraysDriven
PROPERTY OwnTopicsServed
PROPERTY EveryCallSettles
CHECK_DEADLOCK FALSE
