SPECIFICATION Spec
CONSTANTS
    Callers = {c1, c2}
    Reader = reader
    Watchdog = watchdog
    NoThread = nobody
    NoFrame = noframe
    Frames <- MCAllFrames
    MaxFrames = 2
    MaxAudio = 1
    WatchdogMayFail = TRUE
SYMMETRY MCSymmetry
INVARIANTS
    IInv
    EndIsLast
    OneOutcome
    TerminalSeesStopped
    DoneReleases
    StopReleases
    ReaderNeverWaits
    NeverSilent
    IdleIsClean
PROPERTIES
    ImplementsSession
