CONSTANTS
    Ports <- MCPorts
    Devices <- MCDevices
    DevOf <- MCDevOf
    RotPorts <- MCRotPorts
    KickOld <- MCKickOld
    CloseStr <- MCCloseStr
    Modes <- MCModesOffRaw
SPECIFICATION Spec
INVARIANT TypeOK
INVARIANT DeviceExclusive
PROPERTY SessionEndsOnlyByShutdown
VIEW ControlView
