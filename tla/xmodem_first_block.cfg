SPECIFICATION Spec
CONSTANTS
    Mode = "XMODEM"
    FcsMode = "CRC"
    NFiles = 1
    NBlocks = 2
    SeqMod = 4
    Faults = {}
    SyncMax = 3
    PktMax = 2
    FlushMax = 2
    InitRetry = 3
    DataRetry = 2
    DeclSize = 9
    FileMax = 9
    Late = TRUE
PROPERTIES
    DuplicateWasGot
