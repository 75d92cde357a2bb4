SPECIFICATION FairSpec
\* All output was received and drawn.
CHECK_DEADLOCK FALSE
CONSTANTS
    Streams <- MCStreams
    FileBegin <- MCFileBegin
    FileEnd <- MCFileEnd
    FlowLimit = 1
    HighWater = 2
    LowWater = 1
    MaxLosses = 2
INVARIANTS
    ShowsStream
    PausedWhileDrawing
PROPERTIES
    PauseIsLifted
