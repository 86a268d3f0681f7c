SPECIFICATION Spec
CONSTANTS
    Cases <- AllCases
    Chunk = 4096
    RequestLen = 300
    Filler = 120
    TextBytes = 8
    IntBits = 18
CHECK_DEADLOCK FALSE
INVARIANTS
    BufferIntact
    EndHandled
    NothingLeftBehind
    OutputWhole
    OptionsSafe
PROPERTIES
    ImplementsReceiver
