SPECIFICATION FairSpec
CONSTANTS
    Workers = {w1, w2}
    Main = main
    Callbacks = {c1, c2}
    HasReq = TRUE
    SaveFails = TRUE
    Stops = TRUE
    MaxVer = 0
    CntMod = 3
    MaxReq = 3
INVARIANTS
    TypeOK
    Exclusive
    PendingIsScheduled
PROPERTIES
    PendingIsAcked
CHECK_DEADLOCK FALSE
