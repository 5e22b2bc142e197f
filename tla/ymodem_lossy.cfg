SPECIFICATION FairSpec
CONSTANTS
    Mode = "YMODEM"
    FcsMode = "CRC"
    NFiles = 2
    NBlocks = 2
    SeqMod = 5
    Faults = {"io", "corrupt", "truncate", "lose", "loseByte", "garble"}
    SyncMax = 3
    PktMax = 2
    FlushMax = 2
    InitRetry = 3
    DataRetry = 2
    DeclSize = 2
    FileMax = 9
    Late = TRUE
INVARIANTS
    NoGap
PROPERTIES
    Refines
    Terminates
