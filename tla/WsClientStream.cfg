SPECIFICATION FairSpec
CONSTANTS
    Senders = {s1}
    Reader = reader
    NoThread = nobody
    Kinds <- MCKinds
    Rest <- MCRest
    ResponseSize = 2
    WireSize = 2
    SplitHeaders = FALSE
    MaxFrames = 2
    MaxOut = 2
INVARIANTS
    WsInv
    Aligned
    MessagesDelivered
    FramesContiguous
    LengthsUnderstood
PROPERTIES
    CloseUnblocks
