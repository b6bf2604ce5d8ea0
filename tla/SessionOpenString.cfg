CONSTANTS
    Telnet = FALSE
    Chardelay = 0
    ChardelayMax = 0
    USec = 1
    Timeouts = {0}
    MaxSize = 2
    Inputs <- MCSilent
    CloseOn <- MCNoCloseOn
    TnCmdMax = 0
    ShortWrites = FALSE
    PeerInputs <- MCRawPeer
    TMaxSize = 2
    OpenStr <- MCOpenStr
    CloseStr <- MCNoStr
    DevShortWrites = TRUE
    StrCtx <- MCCtx
    IpOutcomes <- MCIpOk
    BannerStr <- MCNoStr
SPECIFICATION SessionSpec
CHECK_DEADLOCK FALSE
INVARIANT DeviceReceivesPeerBytes
