SPECIFICATION FairSpec
CONSTANTS
    Clients = {c1, c2}
    Handles <- MCHandles
    Lines <- MCLines
    FdLimits = {5, 6}
    POLL_SET_SIZE = 2
    VlaAlign = 16
    QueueLen = 2
INVARIANTS TypeOK PollSetInBounds UniqueHandles SocketKeepsOwner ConfirmedIsListed
PROPERTIES ServerOutlives ConnectionsAccepted
\* All clients may have left.
CHECK_DEADLOCK FALSE
