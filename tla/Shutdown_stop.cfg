SPECIFICATION ReadingSpec
CONSTANTS
    a = a
    x = x
    y = y
    l1 = l1
    l2 = l2
    w1 = w1
    w2 = w2
    Sources = {a}
    Sinks = {x, y}
    Listeners = {l1, l2}
    Workers = {w1}
    Home <- HomeOne
    Failing = {l1, w1, "aggregator", "upstream"}
    HWM = 2
    LWM = 1
    MaxMsgs = 3
    NoConn = NoConn
    Stop = Stop
CHECK_DEADLOCK FALSE
INVARIANTS
    NothingFreedInUse
    NoDangling
    QueuesDrained
PROPERTY
    Terminates
