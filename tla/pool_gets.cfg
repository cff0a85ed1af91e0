\* Three calls, one of which falls back from an address createConnection
\* refuses, over brokers that ask for SASL/SCRAM.
CONSTANTS
    a = a
    b = b
    x = x
    g1 = g1
    g2 = g2
    g3 = g3
    Brokers = {a, b, x}
    BadBrokers = {x}
    Gets = {g1, g2, g3}
    Asks <- ThreeAsks
    Conns <- FourConns
    Mechanism = "scram"
SPECIFICATION FairSpec
INVARIANTS
    EachGetWaitsOnce
    OthersKeepTheirPlace
    NoDeadEntry
    CloseWaitsForSockets
PROPERTIES
    GivenConnected
    EveryGetSettles
CHECK_DEADLOCK FALSE
