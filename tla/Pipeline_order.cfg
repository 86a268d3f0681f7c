SPECIFICATION Spec
CONSTANTS
    a = a
    b = b
    w1 = w1
    w2 = w2
    Sources = {a, b}
    Workers = {w1, w2}
    Script <- ScriptClose
    HWM = 2
    LWM = 1
    MaxSinks = 2
    NoConn = NoConn
SYMMETRY WorkerSymmetry
INVARIANTS
    OwnedOnce
PROPERTIES
    ImplementsFanIn
