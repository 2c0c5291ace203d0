SPECIFICATION Spec
CONSTANTS
    Frames <- MCFrames
    BufLen = 96
    Fill = {0, 170}
    MaxPackets = 2
INVARIANTS TcpVerdict OnlyOwnBytes FieldsRight
\* The capture ends.
CHECK_DEADLOCK FALSE
