CONSTANTS
    Telnet = TRUE
    Chardelay = 0
    ChardelayMax = 0
    USec = 1
    Timeouts = {0}
    MaxSize = 4
    Inputs <- MCAllIAC
    CloseOn <- MCNoCloseOn
    TnCmdMax = 0
    ShortWrites = FALSE
SPECIFICATION Spec
CHECK_DEADLOCK FALSE
INVARIANT NoBufferOverrun
