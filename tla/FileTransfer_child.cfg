SPECIFICATION FairSpec
CONSTANTS
    WindowSize = 2
    MaxTries = 1
    MaxSockets = 4
    MaxChildren = 3
    MaxFaults = 1
    Files <- JustEmpty
    Null = Null
    Garbage = Garbage
    HeapWords <- DirtyHeap
    Junk = Junk
    Absent = Absent
PROPERTY ChildTerminates
\* Both sides stop.
CHECK_DEADLOCK FALSE
