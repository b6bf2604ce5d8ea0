CONSTANTS
    Ports <- MCPortsD1
    Devices <- MCDevices
    DevOf <- MCDevOf
    RotPorts <- MCRotD1
    KickOld <- MCKickOld
    CloseStr <- MCCloseStr
    Modes <- MCModesOffRaw
SPECIFICATION Spec
PROPERTY FreedPortHasNoSession
