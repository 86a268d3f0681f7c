SPECIFICATION FairSpec
CONSTANTS
    Cap = 2
    Room = 2
PROPERTIES
    ControlHandled
