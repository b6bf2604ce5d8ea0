CONSTANTS
    Telnet = FALSE
    Chardelay = 0
    ChardelayMax = 0
    USec = 2
    Timeouts = {0, 1}
    MaxSize = 3
    Inputs <- MCCloseonInputs
    CloseOn <- MCCloseOnAA
    TnCmdMax = 0
    ShortWrites = TRUE
    PeerInputs <- MCRawPeer
    TMaxSize = 2
    OpenStr <- MCNoStr
    CloseStr <- MCCloseStr
    DevShortWrites = TRUE
    StrCtx <- MCCtx
    IpOutcomes <- MCIpOk
    BannerStr <- MCNoStr
SPECIFICATION SessionSpec
CHECK_DEADLOCK FALSE
INVARIANT PeerReceivesDeviceBytes
INVARIANT DeviceReceivesPeerBytes
INVARIANT CloseonMatched
PROPERTY CloseonCloses
PROPERTY BufferedDataSent
PROPERTY TimeoutOnlyWhenIdle
PROPERTY PeerBytesWritten
PROPERTY SessionFinishes
PROPERTY PipeSpec
