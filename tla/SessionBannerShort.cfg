CONSTANTS
    Telnet = FALSE
    Chardelay = 0
    ChardelayMax = 0
    USec = 1
    Timeouts = {0}
    MaxSize = 3
    Inputs <- MCRawInputs
    CloseOn <- MCNoCloseOn
    TnCmdMax = 0
    ShortWrites = TRUE
    PeerInputs <- MCRawPeer
    TMaxSize = 2
    OpenStr <- MCNoStr
    CloseStr <- MCNoStr
    DevShortWrites = FALSE
    StrCtx <- MCCtx
    IpOutcomes <- MCIpOk
    BannerStr <- MCBanner
SPECIFICATION SessionSpec
CHECK_DEADLOCK FALSE
INVARIANT PeerReceivesDeviceBytes
