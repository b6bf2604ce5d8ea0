\* The model's connections and reads are finite; once they are used up
\* the server waits for new control connections, which the model does not
\* make: that end state is not a deadlock of the code.
CONSTANTS
    Conns = {c1, c2, c3}
    MaxControllerPorts = 2
    InbufSize = 2
    MonTarget <- MCMonTarget
    PortIds = {"p1", "p2", "p1b"}
    NameOf <- MCNameOf
    InitPorts <- MCInitPorts
    Chunks <- MCChunks
    MaxReads = 2
SPECIFICATION Spec
CHECK_DEADLOCK FALSE
SYMMETRY MCSymmetry
INVARIANT TypeOK
INVARIANT ControllerCountMatches
INVARIANT LinesAsTyped
INVARIANT MonitorSlotLive
