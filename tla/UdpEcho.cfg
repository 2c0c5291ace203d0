SPECIFICATION Spec
CONSTANTS
    c1 = c1
    c2 = c2
    Clients = {c1, c2}
    Server = server
    Unset = unset
    NotANumber = notANumber
    Null = null
    Elsewhere = elsewhere
    Addresses <- MCAddresses
    Arguments <- MCArguments
    Lines <- MCLines
    Environments <- MCEnvironments
    PAYLOAD_MAXBUF = 10
    MaxLines <- MCMaxLines
    FlipPositions = {1, 9}
    MaxFaults = 1
INVARIANTS FlipsShow ListedNeverLeave StopAndWait
PROPERTY EchoArrives
\* A client that waits for a lost datagram is blocked for ever.
CHECK_DEADLOCK FALSE
