------------------------------ MODULE Lab3Part2 ------------------------------
(***************************************************************************)
(* lab3/Lab3_Part2: the echo server that polls its sockets, and its        *)
(* client.  An action of the server is one turn of serverControl's loop.   *)
(* It closes no socket, so descriptors only rise and "serving" is in their *)
(* order; the listening socket is below them all.                          *)
(***************************************************************************)
EXTENDS TcpNet

\* send's result is kept in a uint8_t: a PDU of 256 bytes looks like none.
sendPDU(len) == IF (len + 2) % Byte = 0 THEN 0 ELSE len

\* A PDU whose length, with its own two bytes, exceeds the buffer ends the process.
recvPDU(len) == IF len + 2 > MAXBUF THEN Failed ELSE len

\* Lines that kill the server, or at which the client leaves without reading.
Harmful(line) == recvPDU(line.len) = Failed \/ sendPDU(line.len) = 0
-----------------------------------------------------------------------------
\* This directory's own copies of what TcpNet describes.
Listen == tcpServerSetup
TakeConnection == tcpAccept
Connect(c) == tcpClientSetup(c)
LineRead == readFromStdin

\* The server's main takes a port at most, the client's a host and a port.
checkArgs_Server(argc) == argc <= 2
checkArgs_Client(argc) == argc = 3

\* The server's main, up to its loop.
StartServer ==
    /\ server = "starting"
    /\ \E argc \in ArgCounts :
          IF checkArgs_Server(argc) THEN Listen ELSE server' = "exited"
    /\ UNCHANGED <<serving, fds, buf, netvars, client, guilty>>

\* The client's main, up to sendToServer.
StartClient(c) ==
    /\ client[c] = "start"
    /\ \E argc \in ArgCounts :
          IF checkArgs_Client(argc) THEN Connect(c) ELSE NotStarted(c)
    /\ UNCHANGED <<servervars, up, down, ended, broken, guilty>>
-----------------------------------------------------------------------------
\* A socket with something to receive: a PDU, an end or an error.
Ready(c) == up[c] # <<>> \/ ended[c] # "open"

\* Mutant: the poll set is searched from its top.
pollCall_Highest(c) ==
    \E i \in DOMAIN serving :
        /\ serving[i] = c /\ Ready(c)
        /\ \A j \in i + 1 .. Len(serving) : ~Ready(serving[j])

\* The lowest ready descriptor is taken: the listening socket before any connection.
pollCall(c) ==
    /\ queue = <<>>
    /\ \E i \in DOMAIN serving :
        /\ serving[i] = c /\ Ready(c)
        /\ \A j \in 1 .. i - 1 : ~Ready(serving[j])

removeFromPollSet(c) == serving' = Without(serving, c)

\* The connection enters the poll set.
addNewClient == TakeConnection

\* processClient receives a message and answers it with as many bytes, unless it
\* is "exit", which takes the socket out of the poll set.
ProcessMessage(c) ==
    /\ up[c] # <<>>
    /\ up' = [up EXCEPT ![c] = Tail(@)]
    /\ LET pdu == Head(up[c])
           messageLen == recvPDU(pdu.len)
       IN  \/ /\ messageLen = Failed
              /\ server' = "exited"
              /\ UNCHANGED <<serving, down, broken>>
           \/ /\ messageLen # Failed /\ pdu = Exit
              /\ removeFromPollSet(c)
              /\ UNCHANGED <<server, down, broken>>
           \/ /\ messageLen # Failed /\ pdu # Exit
              /\ ServerSends(c, [len |-> messageLen, text |-> "junk"])
              /\ UNCHANGED serving

\* processClient at the end of a connection: what its buffer held before is
\* compared with "exit"; if it differs an empty PDU is sent.
ProcessEnd(c) ==
    /\ up[c] = <<>> /\ ended[c] = "fin"
    /\ \/ UNCHANGED <<server, down, broken>>
       \/ ServerSends(c, [len |-> 0, text |-> "junk"])
    /\ IF server' = "running" THEN removeFromPollSet(c) ELSE UNCHANGED serving
    /\ UNCHANGED up

\* processClient when recv fails.
ProcessError(c) ==
    /\ up[c] = <<>> /\ ended[c] = "reset"
    /\ server' = "exited"
    /\ UNCHANGED <<serving, up, down, broken>>

processClient(c) ==
    /\ server = "running" /\ pollCall(c)
    /\ ProcessMessage(c) \/ ProcessEnd(c) \/ ProcessError(c)
    /\ UNCHANGED <<fds, buf, queue, ended, client, guilty>>

serverControl == addNewClient \/ \E c \in Clients : processClient(c)

\* Unused entries of the poll set are for descriptor 0: when the server's standard
\* input is hung up the first is ready, and recv fails on it.
StdinHangup ==
    /\ server = "running"
    /\ server' = "exited"
    /\ guilty' = TRUE
    /\ UNCHANGED <<serving, fds, buf, netvars, client>>
-----------------------------------------------------------------------------
\* sendToServer: a line is read and sent; the loop ends after "exit" and when
\* nothing seems to have been sent.
SendLine(c) ==
    /\ client[c] = "reading"
    /\ \E line \in LineRead :
          LET leaves == line = Exit \/ sendPDU(line.len) = 0 IN
          /\ ClientSends(c, line, IF leaves THEN "ended" ELSE "waiting")
          /\ ended' = [ended EXCEPT ![c] = IF client'[c] = "ended" THEN Closed(c) ELSE @]
          /\ guilty' = (guilty \/ Harmful(line))
    /\ UNCHANGED <<servervars, queue, down, broken>>

\* sendToServer: the answer.  The end of the connection is not noticed, an error is.
GetEcho(c) ==
    /\ client[c] = "waiting"
    /\ \/ /\ down[c] # <<>>
          /\ down' = [down EXCEPT ![c] = Tail(@)]
          /\ client' = [client EXCEPT ![c] =
                IF recvPDU(Head(down[c]).len) = Failed THEN "ended" ELSE "reading"]
       \/ /\ down[c] = <<>> /\ server = "exited"
          /\ client' \in {[client EXCEPT ![c] = next] : next \in {"reading", "ended"}}
          /\ UNCHANGED down
    /\ ended' = [ended EXCEPT ![c] = IF client'[c] = "ended" THEN "fin" ELSE @]
    /\ UNCHANGED <<servervars, queue, up, broken, guilty>>

ClientStep(c) ==
    StartClient(c) \/ SendLine(c) \/ GetEcho(c) \/ Kill(c) \/ Restart(c)

Next ==
    \/ StartServer \/ serverControl \/ StdinHangup
    \/ \E c \in Clients : ClientStep(c)

Spec == Init /\ [][Next]_vars
=============================================================================
