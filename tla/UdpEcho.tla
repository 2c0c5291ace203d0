-------------------------------- MODULE UdpEcho --------------------------------
(***************************************************************************)
(* Lab7_SendToErr: clients (rcopy.c) that send each line they read as a    *)
(* PDU (pdu.c) and wait for it, a server (server.c) that echoes whatever   *)
(* arrives, both sending through libcpe464, and a UDP network that         *)
(* reorders, loses and duplicates.  The server may start after its clients *)
(* or not at all.                                                          *)
(*                                                                         *)
(* A line is the bytes before its NUL.  Bytes are kept as they are: what   *)
(* the checksum tells depends on each of them.                             *)
(***************************************************************************)
EXTENDS SendToErr, Checksum, FiniteSets

CONSTANTS
    Clients, Server,
    Lines,            \* what readFromStdin may read
    Environments,     \* what a process may be started under
    Null,
    Addresses,        \* the sequence of addresses getaddrinfo gives for each host
    Arguments,        \* how a process may be started: [count, err, host]
    PAYLOAD_MAXBUF,
    MaxLines,         \* bound of the model: lines each client sends
    MaxFaults         \* bound of the model: datagrams lost or duplicated

Processes == Clients \cup {Server}
Dot == 46
DataFlag == 3
Hosts == DOMAIN Addresses

ASSUME EchoAssumption ==
    /\ Server \notin Clients
    \* No buffer is as long as a datagram may be (PAYLOAD_MAXBUF is 1400).
    /\ PAYLOAD_MAXBUF \in Nat /\ PAYLOAD_MAXBUF < Word16
    /\ MaxFaults \in Nat
    /\ MaxLines \in [Clients -> 0 .. Byte - 1]
    /\ \A l \in Lines : l \in Seq(1 .. Byte - 1) /\ Len(l) < PAYLOAD_MAXBUF
    \* A host's address here is one with the server's port; a client's socket has another.
    /\ \A h \in Hosts : Addresses[h] \in Seq(ToSet(Addresses[h]) \ Clients)
    /\ \A args \in Arguments : args.host \in Hosts

VARIABLES
    env,              \* each process' environment
    pktMgr,           \* its PacketManager
    m_MsgNo,          \* its number of messages
    client,           \* where it is: in main "start", in talkToServer "reading"
                      \* or "waiting", or "ended"
    server_address,   \* where a client sends to
    buffer,           \* the line a client read last
    sequenceNum,
    server,           \* where it is: in main "start", in processClient "serving",
                      \* past it "stopped", or "ended" before it
    net,              \* datagrams in flight
    faults,
    surplus           \* history: datagrams of a client duplicated, less those lost

clientvars == <<client, server_address, buffer, sequenceNum>>
vars == <<env, pktMgr, m_MsgNo, clientvars, server, net, faults, surplus>>

\* The library's constructors have run.
Init ==
    /\ env \in [Processes -> Environments]
    /\ pktMgr = [p \in Processes |-> SettingsManager(env[p])]
    /\ m_MsgNo = [p \in Processes |-> 0]
    /\ client = [c \in Clients |-> "start"]
    /\ server_address = [c \in Clients |-> Null]
    /\ buffer = [c \in Clients |-> <<>>]
    /\ sequenceNum = [c \in Clients |-> 0]
    /\ server = "start"
    /\ net = {}
    /\ faults = 0
    /\ surplus = [c \in Clients |-> 0]
-----------------------------------------------------------------------------
\* main's arguments: how many, and an error rate (in percent) from 0 to 1.
checkArgs_Client(args) == args.count = 4
checkArgs_Server(args) == args.count \in {2, 3}
rateInRange(err) == err \in 0 .. 100

\* sendtoErr_init(err, DROP_OFF, FLIP_ON, ...).
initialised(p, err) == sendErr_init(pktMgr[p], env[p], err >= 100, FALSE, TRUE)

\* Only the first address of the host is taken.
getIPAddress46(host) == IF Addresses[host] = <<>> THEN Null ELSE Head(Addresses[host])

\* An unknown host ends the client.
setupUdpClientToServer(c, host) ==
    IF getIPAddress46(host) = Null
    THEN client' = [client EXCEPT ![c] = "ended"] /\ UNCHANGED server_address
    ELSE /\ client' = [client EXCEPT ![c] = "reading"]
         /\ server_address' = [server_address EXCEPT ![c] = getIPAddress46(host)]

\* rcopy.c's main, up to talkToServer.
StartClient(c) ==
    /\ client[c] = "start"
    /\ \E args \in Arguments :
          IF checkArgs_Client(args) /\ rateInRange(args.err)
          THEN /\ pktMgr' = [pktMgr EXCEPT ![c] = initialised(c, args.err)]
               /\ setupUdpClientToServer(c, args.host)
          ELSE /\ client' = [client EXCEPT ![c] = "ended"]
               /\ UNCHANGED <<server_address, pktMgr>>
    /\ UNCHANGED <<env, m_MsgNo, buffer, sequenceNum, server, net, faults, surplus>>

\* The port may be taken: bind fails and ends the server.
udpServerSetup == server' \in {"serving", "ended"}

\* server.c's main, up to processClient.
StartServer ==
    /\ server = "start"
    /\ \E args \in Arguments :
          IF checkArgs_Server(args) /\ rateInRange(args.err)
          THEN /\ pktMgr' = [pktMgr EXCEPT ![Server] = initialised(Server, args.err)]
               /\ udpServerSetup
          ELSE server' = "ended" /\ UNCHANGED pktMgr
    /\ UNCHANGED <<env, m_MsgNo, clientvars, net, faults, surplus>>
-----------------------------------------------------------------------------
\* readFromStdin: the line and its NUL.
payload(line) == line \o <<0>>

\* The sequence number in network order, the checksum as the machine stores it.
createPDU(seq, data) ==
    LET header(lo, hi) == <<0, 0, 0, seq, lo, hi, DataFlag>>
        chksum == in_cksum(header(0, 0) \o data)
    IN  header(chksum % Byte, chksum \div Byte) \o data

\* The checksum it prints: 0 for a PDU that arrives as it was created.
outputPDU(buf) == in_cksum(buf)

\* sendto_Err: p sends buf, which belongs to client d.client.  sent and flips are
\* history: the PDU as its client created it, and the flips on its way.
sendto(p, buf, d, rest) ==
    \E out \in processEvents(pktMgr[p], buf, m_MsgNo[p] + 1) :
        /\ m_MsgNo' = [m_MsgNo EXCEPT ![p] = @ + 1]
        /\ IF out = Dropped
           THEN /\ net' = rest
                /\ surplus' = [surplus EXCEPT ![d.client] = @ - 1]
           ELSE /\ net' = rest \cup
                     {[d EXCEPT !.from = p, !.num = m_MsgNo[p] + 1, !.bytes = out,
                                !.flips = @ + (IF out = buf THEN 0 ELSE 1)]}
                /\ UNCHANGED surplus

\* Mutant: the client goes on without its echo.
SendLine_NoWait(c) ==
    /\ client[c] \in {"reading", "waiting"}
    /\ sequenceNum[c] < MaxLines[c]
    /\ \E line \in Lines :
          LET pdu == createPDU(sequenceNum[c], payload(line)) IN
          /\ buffer' = [buffer EXCEPT ![c] = line]
          /\ sendto(c, pdu, [client |-> c, from |-> c, to |-> server_address[c],
                             num |-> 0, bytes |-> pdu, sent |-> pdu, flips |-> 0,
                             copy |-> 0], net)
    /\ sequenceNum' = [sequenceNum EXCEPT ![c] = @ + 1]
    /\ client' = [client EXCEPT ![c] = "waiting"]
    /\ UNCHANGED <<env, pktMgr, server_address, server, faults>>

\* talkToServer: a line is read and sent.
SendLine(c) ==
    /\ client[c] = "reading"
    /\ sequenceNum[c] < MaxLines[c]
    /\ \E line \in Lines :
          LET pdu == createPDU(sequenceNum[c], payload(line)) IN
          /\ buffer' = [buffer EXCEPT ![c] = line]
          /\ sendto(c, pdu, [client |-> c, from |-> c, to |-> server_address[c],
                             num |-> 0, bytes |-> pdu, sent |-> pdu, flips |-> 0,
                             copy |-> 0], net)
    /\ sequenceNum' = [sequenceNum EXCEPT ![c] = @ + 1]
    /\ client' = [client EXCEPT ![c] = "waiting"]
    /\ UNCHANGED <<env, pktMgr, server_address, server, faults>>

\* talkToServer: any datagram from the server is taken for the echo.
ReceiveEcho(c) ==
    /\ client[c] = "waiting"
    /\ \E d \in net :
          /\ d.to = c
          /\ net' = net \ {d}
    /\ client' = [client EXCEPT ![c] = IF buffer[c] # <<>> /\ Head(buffer[c]) = Dot
                                       THEN "ended" ELSE "reading"]
    /\ UNCHANGED <<env, pktMgr, m_MsgNo, server_address, buffer, sequenceNum, server,
                   faults, surplus>>

\* Mutant: the loop tests the payload instead.
stops_OnPayload(buf) == buf[8] = Dot

\* processClient's loop tests the first byte of the PDU, which is its number's.
stops(buf) == buf[1] = Dot

\* processClient: one turn.  What does not fit the buffer is cut.
Echo ==
    /\ server = "serving"
    /\ \E d \in net :
          LET fits == IF Len(d.bytes) < PAYLOAD_MAXBUF THEN Len(d.bytes) ELSE PAYLOAD_MAXBUF
              buf  == SubSeq(d.bytes, 1, fits)
          IN  /\ d.to = Server
              /\ sendto(Server, buf, [d EXCEPT !.to = d.client], net \ {d})
              /\ server' = IF stops(buf) THEN "stopped" ELSE "serving"
    /\ UNCHANGED <<env, pktMgr, clientvars, faults>>

\* A datagram for which there is no socket is lost.
Unreachable ==
    /\ \E d \in net :
          /\ CASE d.to = Server -> server # "serving"
               [] d.to \in Clients -> client[d.to] = "ended"
               [] OTHER -> TRUE
          /\ net' = net \ {d}
          /\ surplus' = [surplus EXCEPT ![d.client] = @ - 1]
    /\ UNCHANGED <<env, pktMgr, m_MsgNo, clientvars, server, faults>>

\* The network loses or duplicates a datagram.
Fault ==
    /\ faults < MaxFaults
    /\ faults' = faults + 1
    /\ \E d \in net :
          \/ /\ net' = net \ {d}
             /\ surplus' = [surplus EXCEPT ![d.client] = @ - 1]
          \/ /\ net' = net \cup {[d EXCEPT !.copy = faults + 1]}
             /\ surplus' = [surplus EXCEPT ![d.client] = @ + 1]
    /\ UNCHANGED <<env, pktMgr, m_MsgNo, clientvars, server>>

Next ==
    \/ StartServer \/ Echo \/ Unreachable \/ Fault
    \/ \E c \in Clients : StartClient(c) \/ SendLine(c) \/ ReceiveEcho(c)

\* The processes are scheduled, and a datagram that arrives nowhere is gone;
\* nothing is assumed of the users, nor that the server is started.
Spec ==
    /\ Init /\ [][Next]_vars
    /\ WF_vars(Echo) /\ WF_vars(Unreachable)
    /\ \A c \in Clients : WF_vars(ReceiveEcho(c))
-----------------------------------------------------------------------------
\* The checksum that outputPDU prints is 0 exactly for a PDU that arrives as it
\* was created, if no more than one byte was flipped and nothing was cut
\* (pdu.c:21-23,41; two flips may cancel).
FlipsShow ==
    \A d \in net :
        d.flips <= 1 /\ Len(d.sent) <= PAYLOAD_MAXBUF
            => (outputPDU(d.bytes) = 0 <=> d.bytes = d.sent)

\* A message in the drop list of its process never leaves it, whatever the
\* random events do to it (PacketManager.cpp:144-187).
ListedNeverLeave ==
    \A d \in net : d.num \notin pktMgr[d.from].listed

\* Stop and wait: a client has one datagram in flight while it waits and none
\* while it reads, but for those that were lost or duplicated.
StopAndWait ==
    \A c \in Clients :
        Cardinality({d \in net : d.client = c})
            = surplus[c] + (IF client[c] = "waiting" THEN 1 ELSE 0)

\* A client gets an echo for every line, whatever lines others end with and
\* whatever is flipped, unless more of its datagrams are lost than duplicated, one
\* that comes before the server included: then it waits in recvfrom for ever
\* (rcopy.c:85).  A server that has served never leaves a client in the lurch.
EchoArrives ==
    \A c \in Clients :
        client[c] = "waiting"
            ~> \/ client[c] # "waiting"
               \/ surplus[c] < 0 /\ server # "stopped"
=============================================================================
