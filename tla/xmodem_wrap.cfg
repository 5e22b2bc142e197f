SPECIFICATION Spec
CONSTANTS
    Mode = "XMODEM"
    FcsMode = "CKS"
    NFiles = 1
    NBlocks = 10
    SeqMod = 4
    Faults = {"lose", "behead", "truncate", "corrupt", "loseByte", "garble", "io"}
    SyncMax = 3
    PktMax = 2
    FlushMax = 2
    InitRetry = 3
    DataRetry = 3
    DeclSize = 9
    FileMax = 8
    Late = FALSE
INVARIANTS
    AllButFirst
    WithinDeclared
