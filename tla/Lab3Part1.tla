------------------------------ MODULE Lab3Part1 ------------------------------
(***************************************************************************)
(* lab3/Lab3_Part1: an echo server for one client after the other, and its *)
(* client.  An action of the server is one turn of recvFromClient's loop.  *)
(***************************************************************************)
EXTENDS TcpNet

\* send's result is kept in a uint8_t: a PDU of 256 bytes looks like none.
sendPDU(len) == IF (len + 2) % Byte = 0 THEN 0 ELSE len

\* What was received, in a uint8_t, is compared with the length in network order.
\* recv's errors are not seen: the uint8_t is never negative.
recvPDU(len) == IF len % Byte > htons(len + 2) THEN Failed ELSE len

\* Lines that end the session and, where they fail, the server.
Harmful(line) == sendPDU(line.len) = 0
-----------------------------------------------------------------------------
\* The server's main takes a port at most, the client's a host and a port.
checkArgs_Server(argc) == argc <= 2
checkArgs_Client(argc) == argc = 3

\* The server's main, up to its loop.
StartServer ==
    /\ server = "starting"
    /\ \E argc \in ArgCounts :
          IF checkArgs_Server(argc) THEN tcpServerSetup ELSE server' = "exited"
    /\ UNCHANGED <<serving, fds, buf, netvars, client, guilty>>

\* The client's main, up to sendToServer.
StartClient(c) ==
    /\ client[c] = "start"
    /\ \E argc \in ArgCounts :
          IF checkArgs_Client(argc) THEN tcpClientSetup(c) ELSE NotStarted(c)
    /\ UNCHANGED <<servervars, up, down, ended, broken, guilty>>
-----------------------------------------------------------------------------
\* Mutant: main does not close the socket.
HangUp_Leaks(c) ==
    /\ serving' = Without(serving, c)
    /\ UNCHANGED fds

\* recvFromClient returns and main closes the socket.
HangUp(c) ==
    /\ serving' = Without(serving, c)
    /\ fds' = fds - 1

\* main takes the next client.
Accept == serving = <<>> /\ tcpAccept

\* A message: "exit", or one that is answered with as many bytes.
Echo(c) ==
    /\ server = "running" /\ InSeq(c, serving) /\ up[c] # <<>>
    /\ LET pdu == Head(up[c])
           messageLen == recvPDU(pdu.len)
       IN  \/ /\ messageLen = Failed
              /\ server' = "exited"
              /\ UNCHANGED <<serving, fds, buf, down, broken>>
           \/ /\ messageLen # Failed
              /\ buf' = pdu.text
              /\ \/ pdu = Exit /\ HangUp(c) /\ UNCHANGED <<server, down, broken>>
                 \/ /\ pdu # Exit
                    /\ ServerSends(c, [len |-> messageLen, text |-> "junk"])
                    /\ UNCHANGED <<serving, fds>>
    /\ up' = [up EXCEPT ![c] = Tail(@)]
    /\ UNCHANGED <<queue, ended, client, guilty>>

\* recv returns 0.
ClientGone(c) ==
    /\ server = "running" /\ InSeq(c, serving)
    /\ up[c] = <<>> /\ ended[c] = "fin"
    /\ HangUp(c)
    /\ UNCHANGED <<server, buf, netvars, client, guilty>>

\* recv fails, which is not noticed: buf is taken for a message of some length.
\* Answering it kills the server.
ClientReset(c) ==
    /\ server = "running" /\ InSeq(c, serving)
    /\ up[c] = <<>> /\ ended[c] = "reset"
    /\ \/ buf # "line" /\ HangUp(c) /\ UNCHANGED server
       \/ buf # "exit" /\ server' = "exited" /\ UNCHANGED <<serving, fds>>
    /\ UNCHANGED <<buf, netvars, client, guilty>>

ServerTurn ==
    Accept \/ \E c \in Clients : Echo(c) \/ ClientGone(c) \/ ClientReset(c)
-----------------------------------------------------------------------------
\* sendToServer: a line is read and sent; the loop ends after "exit" and when
\* nothing seems to have been sent.
SendLine(c) ==
    /\ client[c] = "reading"
    /\ \E line \in readFromStdin :
          LET leaves == line = Exit \/ sendPDU(line.len) = 0 IN
          /\ ClientSends(c, line, IF leaves THEN "ended" ELSE "waiting")
          /\ ended' = [ended EXCEPT ![c] = IF client'[c] = "ended" THEN Closed(c) ELSE @]
          /\ guilty' = (guilty \/ Harmful(line))
    /\ UNCHANGED <<servervars, queue, down, broken>>

\* Mutant: the answer is not waited for.
GetEcho_Eager(c) ==
    /\ client[c] = "waiting"
    /\ client' = [client EXCEPT ![c] = "reading"]
    /\ down' = [down EXCEPT ![c] = <<>>]
    /\ UNCHANGED <<servervars, queue, up, ended, broken, guilty>>

\* sendToServer: the answer.  The end of the connection is not noticed; an error is
\* taken for bytes received, which may exceed the length in recBuf.
GetEcho(c) ==
    /\ client[c] = "waiting"
    /\ \/ /\ down[c] # <<>>
          /\ down' = [down EXCEPT ![c] = Tail(@)]
          /\ client' = [client EXCEPT ![c] =
                IF recvPDU(Head(down[c]).len) = Failed THEN "ended" ELSE "reading"]
       \/ /\ down[c] = <<>> /\ server = "exited"
          /\ client' \in {[client EXCEPT ![c] = next] : next \in {"reading", "ended"}}
          /\ UNCHANGED down
    /\ ended' = [ended EXCEPT ![c] = IF client'[c] = "ended" THEN "fin" ELSE @]
    /\ UNCHANGED <<servervars, queue, up, broken, guilty>>

ClientStep(c) ==
    StartClient(c) \/ SendLine(c) \/ GetEcho(c) \/ Kill(c) \/ Restart(c)

Next == StartServer \/ ServerTurn \/ \E c \in Clients : ClientStep(c)

Spec == Init /\ [][Next]_vars
=============================================================================
