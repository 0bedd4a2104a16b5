SPECIFICATION FairSpec
CONSTANTS
    Interval = 2
    Timeout = 3
    RequestTimeout = 2
    MaxClock = 12
INVARIANTS
    FileInv
    WaitBounded
    TimeoutIsRecent
    OutcomeIsTrue
PROPERTIES
    WaitReturns
