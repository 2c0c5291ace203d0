SPECIFICATION Spec
CONSTANTS
    WindowSize = 3
    MaxTries = 2
    ServerAddr <- MCServerAddr
    Packets <- MCPackets
    MaxSockets = 4
    Null = Null
    Garbage = Garbage
    HeapWords <- DirtyHeap
    Junk = Junk
    MaxBlock = 5
INVARIANTS TypeOK OutputInOrder BufferedAhead NeverGoesBack
PROPERTY StuckOnceBuffered
\* The client stops.
CHECK_DEADLOCK FALSE
