CONSTANTS
    Modes = {"XMODEM", "XMODEM_1K", "YMODEM"}
    Small = 2
    Big = 8
    NFiles = 2
    Lens = {0, 5, 10}
    Chunks = {0, 1, 9}
    Reads = {1, 4}
    MaxFlush = 1
    MaxFails = 2
    MaxAhead = 2
    FileMax = 40
SPECIFICATION Spec
INVARIANTS TypeOK Framed Delivered NeverWrong
CHECK_DEADLOCK FALSE
