------------------------------ MODULE Lab3PartB ------------------------------
(***************************************************************************)
(* lab3/partb: a server that prints the messages of one client after the   *)
(* other and answers nothing, and a client that sends what it reads.       *)
(***************************************************************************)
EXTENDS TcpNet

\* send's result is kept in a uint8_t: a PDU of 256 bytes looks like none.
sendPDU(len) == IF (len + 2) % Byte = 0 THEN 0 ELSE len

\* What was received, in a uint8_t, is compared with the length in network order.
recvPDU(len) == IF len % Byte > htons(len + 2) THEN Failed ELSE len

Harmful(line) == sendPDU(line.len) = 0
-----------------------------------------------------------------------------
\* This directory's own copies of what TcpNet describes.
Listen == tcpServerSetup
TakeConnection == tcpAccept
Connect(c) == tcpClientSetup(c)
LineRead == readFromStdin

\* The server's main takes a port at most, the client's a host and a port.
checkArgs_Server(argc) == argc <= 2
checkArgs_Client(argc) == argc = 3

\* The server's main, up to its loop.
StartServer ==
    /\ server = "starting"
    /\ \E argc \in ArgCounts :
          IF checkArgs_Server(argc) THEN Listen ELSE server' = "exited"
    /\ UNCHANGED <<serving, fds, buf, netvars, client, guilty>>

\* The client's main, up to sendToServer.
StartClient(c) ==
    /\ client[c] = "start"
    /\ \E argc \in ArgCounts :
          IF checkArgs_Client(argc) THEN Connect(c) ELSE NotStarted(c)
    /\ UNCHANGED <<servervars, up, down, ended, broken, guilty>>
-----------------------------------------------------------------------------
\* main takes the next client.
Accept == serving = <<>> /\ TakeConnection

\* recvFromClient returns, at "exit" or at the end, and main closes the socket.
HangUp(c) ==
    /\ serving' = Without(serving, c)
    /\ fds' = fds - 1

\* recvFromClient prints a message.
Receive(c) ==
    /\ server = "running" /\ InSeq(c, serving) /\ up[c] # <<>>
    /\ LET pdu == Head(up[c]) IN
       IF recvPDU(pdu.len) = Failed
       THEN server' = "exited" /\ UNCHANGED <<serving, fds, buf>>
       ELSE /\ buf' = pdu.text
            /\ IF pdu = Exit THEN HangUp(c) ELSE UNCHANGED <<serving, fds>>
            /\ UNCHANGED server
    /\ up' = [up EXCEPT ![c] = Tail(@)]
    /\ UNCHANGED <<queue, down, ended, broken, client, guilty>>

ClientGone(c) ==
    /\ server = "running" /\ InSeq(c, serving)
    /\ up[c] = <<>> /\ ended[c] = "fin"
    /\ HangUp(c)
    /\ UNCHANGED <<server, buf, netvars, client, guilty>>

ServerTurn == Accept \/ \E c \in Clients : Receive(c) \/ ClientGone(c)
-----------------------------------------------------------------------------
\* sendToServer: the client goes on reading, whatever the server does.
SendLine(c) ==
    /\ client[c] = "reading"
    /\ \E line \in LineRead :
          LET leaves == line = Exit \/ sendPDU(line.len) = 0 IN
          /\ ClientSends(c, line, IF leaves THEN "ended" ELSE "reading")
          /\ ended' = [ended EXCEPT ![c] = IF client'[c] = "ended" THEN Closed(c) ELSE @]
          /\ guilty' = (guilty \/ Harmful(line))
    /\ UNCHANGED <<servervars, queue, down, broken>>

ClientStep(c) == StartClient(c) \/ SendLine(c) \/ Kill(c) \/ Restart(c)

Next == StartServer \/ ServerTurn \/ \E c \in Clients : ClientStep(c)

Spec == Init /\ [][Next]_vars
=============================================================================
