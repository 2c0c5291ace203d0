SPECIFICATION Spec
CONSTANTS
    WindowSize = 4
    IntMax = 127
    MaxSeq = 13
    RRInputs <- MCRRInputs
    Null = Null
    Uninit = Uninit
INVARIANTS TypeOK NeverCrashes UnackedRetained SlotsRecent
PROPERTY ImplementsSlidingWindow
\* The program exits, and a run stops after MaxSeq PDUs.
CHECK_DEADLOCK FALSE
