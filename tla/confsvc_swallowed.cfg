SPECIFICATION Spec
CONSTANTS
    Workers = {w1}
    Main = main
    Callbacks = {c1}
    HasReq = TRUE
    SaveFails = FALSE
    Stops = TRUE
    MaxVer = 2
    CntMod = 16
    MaxReq = 3
INVARIANTS
    StopCommits
CHECK_DEADLOCK FALSE
