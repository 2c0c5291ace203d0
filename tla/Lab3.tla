--------------------------------- MODULE Lab3 ---------------------------------
(***************************************************************************)
(* The three pairs of programs of lab3, one of which runs.                 *)
(***************************************************************************)
EXTENDS TcpNet

VARIABLE part               \* "Lab3_Part1", "Lab3_Part2" or "partb"

P1 == INSTANCE Lab3Part1
P2 == INSTANCE Lab3Part2
PB == INSTANCE Lab3PartB

lab3vars == <<vars, part>>

InitPart == Init /\ part \in {"Lab3_Part1", "Lab3_Part2", "partb"}

NextPart ==
    /\ \/ part = "Lab3_Part1" /\ P1!Next
       \/ part = "Lab3_Part2" /\ P2!Next
       \/ part = "partb" /\ PB!Next
    /\ UNCHANGED part

ServerTurn ==
    /\ \/ part = "Lab3_Part1" /\ P1!ServerTurn
       \/ part = "Lab3_Part2" /\ P2!serverControl
       \/ part = "partb" /\ PB!ServerTurn
    /\ UNCHANGED part

GetEcho(c) ==
    /\ \/ part = "Lab3_Part1" /\ P1!GetEcho(c)
       \/ part = "Lab3_Part2" /\ P2!GetEcho(c)
    /\ UNCHANGED part

SpecPart == InitPart /\ [][NextPart]_lab3vars

\* The server's loop and a client that waits go on; users need not type.
FairSpecPart ==
    /\ SpecPart
    /\ WF_lab3vars(ServerTurn)
    /\ \A c \in Clients : WF_lab3vars(GetEcho(c))
-----------------------------------------------------------------------------
PDU == [len : Nat, text : {"exit", "line", "junk"}]

\* The types of the variables, with the bound on the socket buffers.
TypeOK ==
    /\ server \in {"starting", "running", "exited"}
    /\ \A s \in {queue, serving} : \A i \in DOMAIN s : s[i] \in Clients
    /\ fds \in 0 .. FdLimit
    /\ buf \in {"unknown", "exit", "line"}
    /\ \A c \in Clients :
        /\ \A s \in {up[c], down[c]} : \A i \in DOMAIN s : s[i] \in PDU
        /\ Len(up[c]) <= QueueLen
    /\ ended \in [Clients -> {"open", "fin", "reset"}]
    /\ broken \in [Clients -> BOOLEAN]
    /\ client \in [Clients -> {"start", "reading", "waiting", "ended"}]
    /\ guilty \in BOOLEAN

\* An echo client that waits has exactly one PDU under way, its line or the answer to
\* it, and one that reads has none: no answer is ever taken for that of a later line.
Lockstep ==
    part # "partb" /\ server = "running" =>
        \A c \in Clients :
            /\ client[c] = "waiting" => Len(up[c]) + Len(down[c]) = 1
            /\ client[c] = "reading" => Len(up[c]) + Len(down[c]) = 0

\* A running server exits only after a client sent a line whose length the framing
\* cannot take, or was killed while it waited, or after its standard input was hung
\* up; but Lab3_Part2, which closes no socket, also exits for want of descriptors.
ServerOutlives ==
    [][server = "running" /\ server' = "exited" =>
          guilty' \/ (part = "Lab3_Part2" /\ fds = FdLimit)]_lab3vars

\* The client on the lowest descriptor gets its answer, unless the server exits;
\* those above it may wait for ever, as pollLib.c says.
EchoArrives ==
    \A c \in Clients :
        (server = "running" /\ serving # <<>> /\ serving[1] = c /\ client[c] = "waiting")
            ~> (client[c] # "waiting" \/ server = "exited")

\* However busy its clients are, the polling server takes each connection.
ConnectionsTaken ==
    \A c \in Clients :
        (part = "Lab3_Part2" /\ InSeq(c, queue)) ~> (~InSeq(c, queue) \/ server = "exited")
=============================================================================
