SPECIFICATION Spec
CONSTANTS
    Mode = "YMODEM"
    FcsMode = "CKS"
    NFiles = 2
    NBlocks = 2
    SeqMod = 5
    Faults = {"corrupt", "loseByte"}
    SyncMax = 3
    PktMax = 2
    FlushMax = 2
    InitRetry = 3
    DataRetry = 2
    DeclSize = 2
    FileMax = 9
    Late = TRUE
INVARIANTS
    TypeOK
    AckedIsSafe
    HeaderAfterWholeFile
    InOrder
PROPERTIES
    DuplicateWasGot
