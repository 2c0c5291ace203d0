SPECIFICATION FairSpec
CONSTANTS
    WindowSize = 2
    MaxTries = 1
    MaxSockets = 6
    MaxChildren = 2
    MaxFaults = 2
    Files <- MCFiles
    Null = Null
    Garbage = Garbage
    HeapWords <- DirtyHeap
    Junk = Junk
    Absent = Absent
INVARIANTS SuccessIsMutual OnlyFnameReachesServer OpenedOnlyIfExists CompleteOnlyIfEmpty
PROPERTIES ImplementsTransfer ClientTerminates
\* Both sides stop.
CHECK_DEADLOCK FALSE
