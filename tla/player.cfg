CONSTANTS
    MaxSessions = 2
    MaxPresses = 2
    PressSessions = 1
    MaxErrors = 1
    Frames = 3
    KeyFrames = {0, 2}
    SkipFrames = 1
    OffsetStep = 1
SPECIFICATION Spec
INVARIANTS
    RenderEndsWithSession
    FreshImages
    PauseAgrees
CHECK_DEADLOCK FALSE
PROPERTIES
    StopReturns
    PausesAgain
