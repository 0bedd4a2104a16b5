SPECIFICATION Spec
CONSTANTS
    Values <- MCValues
    RawData <- MCRawData
    MaxAudioSize = 3
    MaxEdits <- MCMaxEdits
    Text <- MCText
    NotUTF8 <- MCNotUTF8
    Ticket <- MCTicket
INVARIANTS
    PiecesAsDocumented
