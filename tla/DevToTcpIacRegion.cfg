CONSTANTS
    Telnet = TRUE
    Chardelay = 2
    ChardelayMax = 3
    USec = 4
    Timeouts = {0}
    MaxSize = 5
    Inputs <- MCTelnetInputs
    CloseOn <- MCNoCloseOn
    TnCmdMax = 0
    ShortWrites = FALSE
SPECIFICATION Spec
CHECK_DEADLOCK FALSE
INVARIANT PeerReceivesDeviceBytes
