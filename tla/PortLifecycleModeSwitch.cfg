CONSTANTS
    Ports <- MCPortsD1
    Devices <- MCDevices
    DevOf <- MCDevOf
    RotPorts <- MCNoRotator
    KickOld <- MCKickOld
    CloseStr <- MCCloseStr
    Modes <- MCModesAll
SPECIFICATION Spec
INVARIANT ConfiguredModeLive
