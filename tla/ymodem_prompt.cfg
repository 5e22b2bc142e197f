SPECIFICATION FairSpec
CONSTANTS
    Mode = "YMODEM"
    FcsMode = "CRC"
    NFiles = 2
    NBlocks = 5
    SeqMod = 4
    Faults = {}
    SyncMax = 3
    PktMax = 2
    FlushMax = 2
    InitRetry = 3
    DataRetry = 2
    DeclSize = 9
    FileMax = 9
    Late = FALSE
INVARIANTS
    AckedIsDelivered
PROPERTIES
    Succeeds
