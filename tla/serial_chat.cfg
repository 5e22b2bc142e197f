CONSTANTS
    Byte <- MCByte
    BufLen = 2
    QueueLen = 2
    MaxBytes = 4
    Timeouts = {0, 1}
    FoundTmo = 9
    FoundDcb <- MCFoundDcb
    Configs <- MCConfigs
    Faults = {"open", "close", "SetCommState", "SetCommTimeouts", "CreateEvent", "ReadFile", "WriteFile"}
    WaitLists <- MCWaitLists
    WaitMax = 2
    ChatTmo = 1
SPECIFICATION FairSpec
INVARIANTS TypeOK WaitsAsAsked ClosePutsBack DcbIsCurrent AnswerIsHeard FreshIsFound
PROPERTIES Refines ChatEnds
CHECK_DEADLOCK FALSE
