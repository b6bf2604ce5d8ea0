CONSTANTS
    Calls <- MCCalls
    MaxCalls = 2
    MaxOpens = 2
    CloseTimeouts = 2
SPECIFICATION Spec
\* The model's calls and opens are finite; once they are used up and the
\* device is closed, nothing is left to do.
CHECK_DEADLOCK FALSE
INVARIANT TypeOK
INVARIANT DoneInOrder
INVARIANT QueueEmptyWhenClosed
PROPERTY GetReportsLastSet
PROPERTY RequestsComplete
PROPERTY CloseCompletes
PROPERTY SerialRequestsSpec
