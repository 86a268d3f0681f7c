SPECIFICATION FairSpec
CONSTANTS
    DataLen = 2
    CtrlLen = 2
    Room = 2
    SinkKinds = {"ping", "close", "long"}
    MaxFrames = 2
    MaxMsgs = 2
    MaxSinks = 2
CHECK_DEADLOCK FALSE
INVARIANTS
    FramesIntact
    ArmedForSlots
    OneLostPerSink
PROPERTIES
    SlotsEmpty
    SinkIsHeard
