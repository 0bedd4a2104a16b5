SPECIFICATION Spec
CONSTANTS
    Interval = 1
    Timeout = 2
    RequestTimeout = 1
    MaxClock = 8
INVARIANTS
    NeverCrashes
