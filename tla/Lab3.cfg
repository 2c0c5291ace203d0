SPECIFICATION FairSpecPart
CONSTANTS
    Clients = {c1, c2}
    ArgCounts = {1, 2, 3}
    Typed <- MCTyped
    FdLimit = 3
    QueueLen = 2
INVARIANTS TypeOK Lockstep
PROPERTIES ServerOutlives EchoArrives ConnectionsTaken
\* All clients may have left.
CHECK_DEADLOCK FALSE
