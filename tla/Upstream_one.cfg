SPECIFICATION FairSpec
CONSTANTS
    N = 1
    Script <- OneScript
    HWM = 2
    LWM = 1
    Faults = {"break", "fin", "watch", "stop"}
    MaxStreak = 5
    Others = 1
    MaxOthers = 1
INVARIANTS
    InterestFollows
    Backpressure
    FragmentsTogether
    ConformingNotRefused
PROPERTIES
    Backoff
    BufferedFramesProcessed
    Reconnects
    ReactorEnds
CHECK_DEADLOCK FALSE
