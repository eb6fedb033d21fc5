SPECIFICATION CorrectionsSpec
CONSTANTS
    Ids <- MCIds
    Shapes <- MCShapes
    MaxMessages = 4
    Backlog = 4
    BufSize = 6
    FieldLimit = 6
    FrameLimit = 2
    Requests <- MCRequests
    MaxCalls = 2
    SetSizes = {0, 2}
    MaxSockets = 4
    MaxFaults = 4
INVARIANTS
    RoomToRead
    CutsDoNotMatter
    CorrectionsBelongTogether
    SetsSentInOrder
    QuietAfterDisconnect
    OneDescriptor
PROPERTIES
    NewestIsSent
    ComesBack
    DisconnectReturns
CHECK_DEADLOCK FALSE
