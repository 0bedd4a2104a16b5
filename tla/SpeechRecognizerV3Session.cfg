SPECIFICATION FairSpec
CONSTANTS
    Callers = {c1}
    Reader = reader
    Watchdog = watchdog
    NoThread = nobody
    NoFrame = noframe
    Frames <- MCFinalFrame
    MaxFrames = 1
    MaxAudio = 1
    WatchdogMayFail = FALSE
INVARIANTS
    FailedStartReleases
PROPERTIES
    ImplementsSession
    StartReturns
    StopReturns
    DestructorReturns
    SessionEnds
