SPECIFICATION Spec
CONSTANTS
    Senders = {s1}
    Reader = reader
    NoThread = nobody
    Kinds <- MCKinds
    Rest <- MCRest
    ResponseSize = 2
    WireSize = 2
    SplitHeaders = TRUE
    MaxFrames = 2
    MaxOut = 1
INVARIANTS
    Aligned
