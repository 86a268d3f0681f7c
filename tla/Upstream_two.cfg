SPECIFICATION Spec
CONSTANTS
    N = 2
    Script <- TwoScript
    HWM = 2
    LWM = 1
    Faults = {"fin"}
    MaxStreak = 0
    Others = 1
    MaxOthers = 1
PROPERTIES
    ImplementsFeed
