SPECIFICATION FairSpec
CONSTANTS
    a = a
    b = b
    w1 = w1
    w2 = w2
    Conns = {a, b}
    Workers = {w1, w2}
    Cases <- AllCases
    MaxEarly = 1
    SinkPath = "/feed"
    HandshakeMax = 4
    Chunk = 2
    NoConn = NoConn
CHECK_DEADLOCK FALSE
INVARIANTS
    OneHolder
    UpgradeFirst
PROPERTIES
    ImplementsSession
    RequestsAnswered
    EndsClosed
