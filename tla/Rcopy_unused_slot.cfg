SPECIFICATION Spec
CONSTANTS
    WindowSize = 3
    MaxTries = 2
    ServerAddr <- MCServerAddr
    Packets <- MCPackets
    MaxSockets = 3
    Null = Null
    Garbage = Garbage
    HeapWords <- CleanHeap
    Junk = Junk
    MaxBlock = 5
INVARIANT SurvivesUnusedSlots
\* The client stops.
CHECK_DEADLOCK FALSE
