SPECIFICATION Spec
CHECK_DEADLOCK FALSE
CONSTANTS
    DataLen = 3
    CtrlLen = 2
    Room = 3
    SinkKinds = {"ping"}
    MaxFrames = 1
    MaxMsgs = 2
    MaxSinks = 1
INVARIANTS
    FramesNotInterleaved
