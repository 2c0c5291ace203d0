SPECIFICATION Spec
CONSTANTS
    Clients = {c1, c2}
    Handles <- MCHandles
    Lines <- MCLines
    FdLimits = {5, 6}
    POLL_SET_SIZE = 2
    VlaAlign = 16
    QueueLen = 2
INVARIANT LookupReturns
\* All clients may have left.
CHECK_DEADLOCK FALSE
