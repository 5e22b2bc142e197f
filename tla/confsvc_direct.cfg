SPECIFICATION Spec
CONSTANTS
    Workers = {w1, w2}
    Main = main
    Callbacks = {c1}
    HasReq = FALSE
    SaveFails = FALSE
    Stops = TRUE
    MaxVer = 3
    CntMod = 2
    MaxReq = 3
INVARIANTS
    SaveIsDurable
    StopCommits
CHECK_DEADLOCK FALSE
