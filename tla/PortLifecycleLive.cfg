CONSTANTS
    Ports <- MCPortsD1
    Devices <- MCDevices
    DevOf <- MCDevOf
    RotPorts <- MCRotD1
    KickOld <- MCKickOld
    CloseStr <- MCCloseStr
    Modes <- MCModesAll
SPECIFICATION Spec
PROPERTY ShutdownCompletes
PROPERTY WaitingClientServed
PROPERTY ExitCompletes
