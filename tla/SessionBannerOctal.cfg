CONSTANTS
    Telnet = TRUE
    Chardelay = 0
    ChardelayMax = 0
    USec = 1
    Timeouts = {0}
    MaxSize = 5
    Inputs <- MCTelnetInputs
    CloseOn <- MCNoCloseOn
    TnCmdMax = 1
    ShortWrites = FALSE
    PeerInputs <- MCTelnetPeer
    TMaxSize = 2
    OpenStr <- MCOpenStr
    CloseStr <- MCNoStr
    DevShortWrites = FALSE
    StrCtx <- MCCtx
    IpOutcomes <- MCIpOk
    BannerStr <- MCBannerOctal
SPECIFICATION SessionSpec
CHECK_DEADLOCK FALSE
INVARIANT BannerAsSpecified
