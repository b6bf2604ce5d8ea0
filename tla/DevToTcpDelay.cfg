CONSTANTS
    Telnet = FALSE
    Chardelay = 2
    ChardelayMax = 3
    USec = 4
    Timeouts = {0}
    MaxSize = 3
    Inputs <- MCRawInputs
    CloseOn <- MCCloseOnB
    TnCmdMax = 0
    ShortWrites = FALSE
SPECIFICATION Spec
CHECK_DEADLOCK FALSE
INVARIANT CharDelayBound
PROPERTY BufferedDataSent
