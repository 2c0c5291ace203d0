SPECIFICATION Spec
CONSTANTS
    Frames <- MCFrames
    BufLen = 96
    Fill = {0, 170}
    MaxPackets = 2
INVARIANT IpVerdict
\* The capture ends.
CHECK_DEADLOCK FALSE
