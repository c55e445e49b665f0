CONSTANTS
    MaxSessions = 1
    MaxPresses = 1
    PressSessions = 1
    MaxErrors = 0
    Frames = 3
    KeyFrames = {0, 2}
    SkipFrames = 1
    OffsetStep = 1
SPECIFICATION Spec
PROPERTY ForwardEnds
CHECK_DEADLOCK FALSE
