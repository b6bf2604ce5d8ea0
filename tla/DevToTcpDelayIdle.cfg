CONSTANTS
    Telnet = FALSE
    Chardelay = 1
    ChardelayMax = 2
    USec = 2
    Timeouts = {1}
    MaxSize = 3
    Inputs <- MCRawInputs
    CloseOn <- MCNoCloseOn
    TnCmdMax = 0
    ShortWrites = FALSE
SPECIFICATION Spec
CHECK_DEADLOCK FALSE
PROPERTY TimeoutOnlyWhenIdle
