SPECIFICATION Spec
CONSTANTS
    Callers = {c1}
    Reader = reader
    Watchdog = watchdog
    NoThread = nobody
    NoFrame = noframe
    Frames <- MCLiveFrames
    MaxFrames = 1
    MaxAudio = 1
    WatchdogMayFail = FALSE
INVARIANTS
    OnlySdkErrors
