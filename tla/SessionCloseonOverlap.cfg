CONSTANTS
    Telnet = FALSE
    Chardelay = 0
    ChardelayMax = 0
    USec = 2
    Timeouts = {0, 1}
    MaxSize = 3
    Inputs <- MCOverlapInputs
    CloseOn <- MCCloseOnAB
    TnCmdMax = 0
    ShortWrites = TRUE
    PeerInputs <- MCRawPeer
    TMaxSize = 2
    OpenStr <- MCNoStr
    CloseStr <- MCCloseStr
    DevShortWrites = TRUE
    StrCtx <- MCCtx
    IpOutcomes <- MCIpOk
    BannerStr <- MCNoStr
SPECIFICATION SessionSpec
CHECK_DEADLOCK FALSE
PROPERTY CloseonCloses
