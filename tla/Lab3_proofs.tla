------------------------------ MODULE Lab3_proofs ------------------------------
(***************************************************************************)
(* Proofs about Lab3 for any number of clients, any lines, and any number  *)
(* of descriptors and size of the socket buffers.                          *)
(***************************************************************************)
EXTENDS Lab3, SequenceTheorems, TLAPS

(***************************************************************************)
(* What the three pairs of programs have in common.                        *)
(***************************************************************************)

\* Lengths at which a server gives up.
Bad(len) == IF part = "Lab3_Part2" THEN len + 2 > MAXBUF ELSE (len + 2) % Byte = 0

\* Only Lab3_Part2 closes no socket.
AnyHangUp(c) ==
    /\ serving' = Without(serving, c)
    /\ fds' = IF part = "Lab3_Part2" THEN fds ELSE fds - 1

AnyStartServer ==
    /\ server = "starting" /\ server' \in {"running", "exited"}
    /\ UNCHANGED <<serving, fds, buf, netvars, client, guilty>>

AnyAccept == tcpAccept /\ (part # "Lab3_Part2" => serving = <<>>)

AnyReceive(c) ==
    /\ server = "running" /\ InSeq(c, serving) /\ up[c] # <<>>
    /\ up' = [up EXCEPT ![c] = Tail(@)]
    /\ buf' \in {buf, Head(up[c]).text}
    /\ \/ /\ Bad(Head(up[c]).len) /\ server' = "exited"
          /\ UNCHANGED <<serving, fds, down, broken>>
       \/ /\ Head(up[c]) = Exit /\ AnyHangUp(c)
          /\ UNCHANGED <<server, down, broken>>
       \/ /\ Head(up[c]) # Exit
          /\ \/ part = "partb" /\ UNCHANGED <<server, down, broken>>
             \/ part # "partb" /\ ServerSends(c, [len |-> Head(up[c]).len, text |-> "junk"])
          /\ UNCHANGED <<serving, fds>>
    /\ UNCHANGED <<queue, ended, client, guilty>>

\* Only Lab3_Part2 sends on a connection that has ended.
AnyGone(c) ==
    /\ server = "running" /\ InSeq(c, serving)
    /\ up[c] = <<>> /\ ended[c] = "fin"
    /\ \/ AnyHangUp(c) /\ UNCHANGED <<server, down, broken>>
       \/ /\ AnyHangUp(c) /\ broken' = [broken EXCEPT ![c] = TRUE]
          /\ UNCHANGED <<server, down>>
       \/ /\ part = "Lab3_Part2" /\ broken[c] /\ server' = "exited"
          /\ UNCHANGED <<serving, fds, down, broken>>
    /\ UNCHANGED <<buf, queue, up, ended, client, guilty>>

AnyReset(c) ==
    /\ server = "running" /\ InSeq(c, serving)
    /\ up[c] = <<>> /\ ended[c] = "reset" /\ part # "partb"
    /\ \/ AnyHangUp(c) /\ UNCHANGED server
       \/ server' = "exited" /\ UNCHANGED <<serving, fds>>
    /\ UNCHANGED <<buf, netvars, client, guilty>>

AnyHup ==
    /\ server = "running" /\ server' = "exited" /\ guilty' = TRUE
    /\ UNCHANGED <<serving, fds, buf, netvars, client>>

AnyStartClient(c) ==
    /\ client[c] = "start" /\ tcpClientSetup(c)
    /\ UNCHANGED <<servervars, up, down, ended, broken, guilty>>

AnySendLine(c) ==
    /\ client[c] = "reading"
    /\ \E line \in readFromStdin :
          \E next \in {"ended", IF part = "partb" THEN "reading" ELSE "waiting"} :
             /\ ClientSends(c, line, next)
             /\ line = Exit => next = "ended"
             /\ next = "ended" => line = Exit \/ guilty'
             /\ ended' = [ended EXCEPT ![c] = IF client'[c] = "ended" THEN Closed(c) ELSE @]
             /\ Bad(line.len) => guilty'
    /\ guilty => guilty'
    /\ guilty' \in BOOLEAN
    /\ UNCHANGED <<servervars, queue, down, broken>>

AnyGetEcho(c) ==
    /\ part # "partb" /\ client[c] = "waiting"
    /\ client' \in {[client EXCEPT ![c] = next] : next \in {"reading", "ended"}}
    /\ \/ down[c] # <<>> /\ down' = [down EXCEPT ![c] = Tail(@)]
       \/ server = "exited" /\ UNCHANGED down
    /\ ended' = [ended EXCEPT ![c] = IF client'[c] = "ended" THEN "fin" ELSE @]
    /\ UNCHANGED <<servervars, queue, up, broken, guilty>>

AnyServer(c) == AnyReceive(c) \/ AnyGone(c) \/ AnyReset(c)
AnyClient(c) ==
    AnyStartClient(c) \/ AnySendLine(c) \/ AnyGetEcho(c) \/ Kill(c) \/ Restart(c)

AnyNext ==
    /\ \/ AnyStartServer \/ AnyAccept \/ AnyHup
       \/ \E c \in Clients : AnyServer(c) \/ AnyClient(c)
    /\ UNCHANGED part
-----------------------------------------------------------------------------
UpPDU == [len : Nat, text : {"exit", "line"}]

TypeInv ==
    /\ part \in {"Lab3_Part1", "Lab3_Part2", "partb"}
    /\ server \in {"starting", "running", "exited"}
    /\ queue \in Seq(Clients) /\ serving \in Seq(Clients)
    /\ fds \in 0 .. FdLimit
    /\ buf \in {"unknown", "exit", "line"}
    /\ up \in [Clients -> Seq(UpPDU)] /\ down \in [Clients -> Seq(PDU)]
    /\ \A c \in Clients : Len(up[c]) <= QueueLen
    /\ ended \in [Clients -> {"open", "fin", "reset"}]
    /\ broken \in [Clients -> BOOLEAN]
    /\ client \in [Clients -> {"start", "reading", "waiting", "ended"}]
    /\ guilty \in BOOLEAN

Injective(s) == \A i, j \in DOMAIN s : s[i] = s[j] => i = j

\* A client has one connection at most, and none before it starts.
OneConnection ==
    /\ Injective(queue) /\ Injective(serving)
    /\ \A c \in Clients : ~(InSeq(c, queue) /\ InSeq(c, serving))
    /\ \A c \in Clients : client[c] = "start" => ~InSeq(c, queue) /\ ~InSeq(c, serving)

\* The servers that close their sockets have one at a time.
OneAtATime == part # "Lab3_Part2" => fds = Len(serving) /\ Len(serving) <= 1

\* What a client that starts finds, and when its end is open.
Fresh(c) ==
    /\ client[c] = "start" => up[c] = <<>> /\ down[c] = <<>> /\ ended[c] = "open" /\ ~broken[c]
    /\ client[c] \in {"reading", "waiting"} => ended[c] = "open" /\ server # "starting"

\* A PDU the server gives up at has its sender to blame.
Blamed(c) == \A i \in DOMAIN up[c] : Bad(up[c][i].len) => guilty

\* An echo client has one PDU under way while it waits, which is not "exit", and none
\* while it reads.  So an innocent one leaves nothing but "exit" behind when it goes,
\* and nothing is sent to it that could come back as a reset.
EchoClient(c) ==
    /\ client[c] = "waiting" =>
          Len(up[c]) + Len(down[c]) = 1 /\ \A i \in DOMAIN up[c] : up[c][i] # Exit
    /\ client[c] = "reading" => Len(up[c]) + Len(down[c]) = 0
    /\ ended[c] = "fin" /\ ~guilty => up[c] \in {<<>>, <<Exit>>}
    /\ ended[c] = "reset" => guilty
    /\ broken[c] /\ ~guilty => ~InSeq(c, serving) /\ ~InSeq(c, queue)

EchoClients ==
    part # "partb" /\ server # "exited" => \A c \in Clients : EchoClient(c)

IInv ==
    /\ TypeInv /\ OneConnection /\ OneAtATime
    /\ \A c \in Clients : Fresh(c) /\ Blamed(c)
    /\ EchoClients
-----------------------------------------------------------------------------
\* The uint8_t that send's and recv's results are kept in looks wrong for the lengths
\* that are Bad, and for no others.
LEMMA Framing ==
    ASSUME NEW len \in Nat
    PROVE  /\ len % 256 > ((len + 2) % 256) * 256 + (len + 2) \div 256 => (len + 2) % 256 = 0
           /\ len # -1
  <1>1. len % 256 \in 0 .. 255 /\ (len + 2) % 256 \in 0 .. 255 /\ (len + 2) \div 256 \in Nat
    OBVIOUS
  <1> DEFINE a == len % 256
             b == (len + 2) % 256
             q == (len + 2) \div 256
  <1> HIDE DEF a, b, q
  <1>2. a \in 0 .. 255 /\ b \in 0 .. 255 /\ q \in Nat
    BY <1>1 DEF a, b, q
  <1>3. a > b * 256 + q => b = 0
    BY <1>2
  <1> QED
    BY <1>3 DEF a, b, q

\* The PDU the server receives next.
LEMMA HeadPDU ==
    ASSUME TypeInv, NEW c \in Clients, up[c] # <<>>
    PROVE  Head(up[c]) \in UpPDU /\ Head(up[c]).len \in Nat
  <1>1. up[c] \in Seq(UpPDU)
    BY DEF TypeInv
  <1>2. Head(up[c]) \in UpPDU
    <2> HIDE DEF UpPDU
    <2> QED
      BY <1>1
  <1> QED
    BY <1>2 DEF UpPDU

LEMMA P1Server ==
    ASSUME TypeInv, part = "Lab3_Part1", NEW c \in Clients,
           P1!Echo(c) \/ P1!ClientGone(c) \/ P1!ClientReset(c)
    PROVE  AnyServer(c)
  <1> USE DEF P1!InSeq, InSeq, netvars, P1!netvars
  <1>1. P1!HangUp(c) => AnyHangUp(c)
    BY DEF P1!HangUp, AnyHangUp, P1!Without, Without, P1!RemoveAt, RemoveAt
  <1>2. CASE P1!Echo(c)
    <2>1. up[c] # <<>> /\ Head(up[c]).len \in Nat
      BY <1>2, HeadPDU DEF P1!Echo
    <2> DEFINE pdu == Head(up[c])
    <2>2. P1!recvPDU(pdu.len) = P1!Failed => Bad(pdu.len)
      BY <2>1, Framing DEF P1!recvPDU, P1!Failed, P1!htons, P1!Byte, Bad, Byte
    <2>3. P1!recvPDU(pdu.len) # P1!Failed => P1!recvPDU(pdu.len) = pdu.len
      BY DEF P1!recvPDU
    <2>4. \A q : P1!ServerSends(c, q) => ServerSends(c, q)
      BY DEF P1!ServerSends, ServerSends
    <2> HIDE DEF pdu
    <2>5. /\ server = "running" /\ InSeq(c, serving)
          /\ up' = [up EXCEPT ![c] = Tail(@)]
          /\ UNCHANGED <<queue, ended, client, guilty>>
          /\ \/ /\ P1!recvPDU(pdu.len) = P1!Failed
                /\ server' = "exited"
                /\ UNCHANGED <<serving, fds, buf, down, broken>>
             \/ /\ P1!recvPDU(pdu.len) # P1!Failed
                /\ buf' = pdu.text
                /\ \/ pdu = Exit /\ P1!HangUp(c) /\ UNCHANGED <<server, down, broken>>
                   \/ /\ pdu # Exit
                      /\ P1!ServerSends(c, [len |-> P1!recvPDU(pdu.len), text |-> "junk"])
                      /\ UNCHANGED <<serving, fds>>
      BY <1>2 DEF P1!Echo, pdu, P1!Exit, Exit
    <2>6. AnyReceive(c)
      BY <1>1, <2>1, <2>2, <2>3, <2>4, <2>5 DEF AnyReceive, pdu
    <2> QED
      BY <2>6 DEF AnyServer
  <1>3. CASE P1!ClientGone(c)
    BY <1>1, <1>3 DEF P1!ClientGone, AnyServer, AnyGone
  <1>4. CASE P1!ClientReset(c)
    BY <1>1, <1>4 DEF P1!ClientReset, AnyServer, AnyReset
  <1> QED
    BY <1>2, <1>3, <1>4

\* The lines a user may type.
LEMMA Lines ==
    /\ \A line \in readFromStdin : line \in UpPDU /\ line.len \in Nat \ {0}
  <1>1. Exit \in UpPDU /\ Exit.len = 5
    BY DEF Exit, UpPDU
  <1>2. ASSUME NEW n \in Typed
        PROVE  LET line == [len |-> (IF n < MAXBUF - 1 THEN n ELSE MAXBUF - 1) + 1,
                            text |-> "line"]
               IN  line \in UpPDU /\ line.len \in Nat \ {0}
    BY TcpNetAssumption DEF UpPDU, MAXBUF
  <1> QED
    BY <1>1, <1>2 DEF readFromStdin

LEMMA P1Client ==
    ASSUME TypeInv, part = "Lab3_Part1", NEW c \in Clients, P1!ClientStep(c)
    PROVE  AnyClient(c)
  <1> USE DEF P1!servervars, servervars
  <1>1. CASE P1!StartClient(c)
    BY <1>1 DEF P1!StartClient, P1!tcpClientSetup, P1!NotStarted, AnyStartClient,
                tcpClientSetup, NotStarted, AnyClient
  <1>2. CASE P1!SendLine(c)
    <2>1. P1!readFromStdin = readFromStdin
      BY DEF P1!readFromStdin, readFromStdin, P1!Exit, Exit, P1!MAXBUF, MAXBUF
    <2>2. PICK line \in readFromStdin :
             LET leaves == line = Exit \/ P1!sendPDU(line.len) = 0 IN
             /\ P1!ClientSends(c, line, IF leaves THEN "ended" ELSE "waiting")
             /\ ended' = [ended EXCEPT ![c] = IF client'[c] = "ended" THEN P1!Closed(c) ELSE @]
             /\ guilty' = (guilty \/ P1!Harmful(line))
      BY <1>2, <2>1 DEF P1!SendLine, P1!Exit, Exit
    <2>3. line.len \in Nat \ {0}
      BY Lines
    <2>4. /\ P1!sendPDU(line.len) = 0 <=> Bad(line.len)
          /\ P1!Harmful(line) <=> Bad(line.len)
      BY <2>3 DEF P1!sendPDU, P1!Harmful, P1!Byte, Byte, Bad
    <2> DEFINE next == IF line = Exit \/ Bad(line.len) THEN "ended" ELSE "waiting"
    <2>5. ClientSends(c, line, next)
      BY <2>2, <2>4 DEF P1!ClientSends, ClientSends
    <2>6. guilty' = (guilty \/ Bad(line.len)) /\ guilty' \in BOOLEAN
      BY <2>2, <2>4 DEF TypeInv
    <2>7. ended' = [ended EXCEPT ![c] = IF client'[c] = "ended" THEN Closed(c) ELSE @]
      BY <2>2 DEF P1!Closed, Closed
    <2>8. client[c] = "reading" /\ UNCHANGED <<servervars, queue, down, broken>>
      BY <1>2 DEF P1!SendLine
    <2>9. /\ next \in {"ended", IF part = "partb" THEN "reading" ELSE "waiting"}
          /\ line = Exit => next = "ended"
          /\ next = "ended" => line = Exit \/ guilty'
      BY <2>6
    <2> HIDE DEF next
    <2>10. AnySendLine(c)
      BY <2>5, <2>6, <2>7, <2>8, <2>9 DEF AnySendLine
    <2> QED
      BY <2>10 DEF AnyClient
  <1>3. CASE P1!GetEcho(c)
    BY <1>3 DEF P1!GetEcho, AnyGetEcho, AnyClient
  <1>4. CASE P1!Kill(c)
    BY <1>4 DEF P1!Kill, P1!Closed, Kill, Closed, AnyClient
  <1>5. CASE P1!Restart(c)
    BY <1>5 DEF P1!Restart, P1!InSeq, InSeq, Restart, AnyClient
  <1> QED
    BY <1>1, <1>2, <1>3, <1>4, <1>5 DEF P1!ClientStep

LEMMA P2Server ==
    ASSUME TypeInv, part = "Lab3_Part2", NEW c \in Clients, P2!processClient(c)
    PROVE  AnyServer(c)
  <1> USE DEF InSeq
  <1>1. P2!removeFromPollSet(c) /\ UNCHANGED fds => AnyHangUp(c)
    BY DEF P2!removeFromPollSet, AnyHangUp, P2!Without, Without, P2!RemoveAt, RemoveAt
  <1>2. server = "running" /\ InSeq(c, serving)
        /\ UNCHANGED <<fds, buf, queue, ended, client, guilty>>
    BY DEF P2!processClient, P2!pollCall
  <1>3. \A q : P2!ServerSends(c, q) => ServerSends(c, q)
    BY DEF P2!ServerSends, ServerSends
  <1>4. CASE P2!ProcessMessage(c)
    <2>1. up[c] # <<>> /\ Head(up[c]).len \in Nat
      BY <1>4, HeadPDU DEF P2!ProcessMessage
    <2> DEFINE pdu == Head(up[c])
    <2>2. /\ P2!recvPDU(pdu.len) = P2!Failed => Bad(pdu.len)
          /\ P2!recvPDU(pdu.len) # P2!Failed => P2!recvPDU(pdu.len) = pdu.len
      BY <2>1 DEF P2!recvPDU, P2!Failed, P2!MAXBUF, MAXBUF, Bad
    <2> HIDE DEF pdu
    <2>3. /\ up' = [up EXCEPT ![c] = Tail(@)]
          /\ \/ /\ P2!recvPDU(pdu.len) = P2!Failed
                /\ server' = "exited"
                /\ UNCHANGED <<serving, down, broken>>
             \/ /\ pdu = Exit /\ P2!removeFromPollSet(c) /\ UNCHANGED <<server, down, broken>>
             \/ /\ P2!recvPDU(pdu.len) # P2!Failed /\ pdu # Exit
                /\ P2!ServerSends(c, [len |-> P2!recvPDU(pdu.len), text |-> "junk"])
                /\ UNCHANGED serving
      BY <1>4 DEF P2!ProcessMessage, pdu, P2!Exit, Exit
    <2>4. AnyReceive(c)
      BY <1>1, <1>2, <1>3, <2>1, <2>2, <2>3 DEF AnyReceive, pdu
    <2> QED
      BY <2>4 DEF AnyServer
  <1>5. CASE P2!ProcessEnd(c)
    <2>1. /\ up[c] = <<>> /\ ended[c] = "fin" /\ UNCHANGED up
          /\ IF server' = "running" THEN P2!removeFromPollSet(c) ELSE UNCHANGED serving
          /\ \/ UNCHANGED <<server, down, broken>>
             \/ /\ broken' = [broken EXCEPT ![c] = TRUE] /\ UNCHANGED <<server, down>>
             \/ broken[c] /\ server' = "exited" /\ UNCHANGED <<down, broken>>
      BY <1>5 DEF P2!ProcessEnd, P2!ServerSends
    <2>2. AnyGone(c)
      BY <1>1, <1>2, <2>1 DEF AnyGone
    <2> QED
      BY <2>2 DEF AnyServer
  <1>6. CASE P2!ProcessError(c)
    BY <1>2, <1>6 DEF P2!ProcessError, AnyServer, AnyReset, netvars
  <1> QED
    BY <1>4, <1>5, <1>6 DEF P2!processClient

LEMMA P2Client ==
    ASSUME TypeInv, part = "Lab3_Part2", NEW c \in Clients, P2!ClientStep(c)
    PROVE  AnyClient(c)
  <1> USE DEF P2!servervars, servervars
  <1>1. CASE P2!StartClient(c)
    BY <1>1 DEF P2!StartClient, P2!Connect, P2!tcpClientSetup, P2!NotStarted, AnyStartClient,
                tcpClientSetup, NotStarted, AnyClient
  <1>2. CASE P2!SendLine(c)
    <2>1. P2!LineRead = readFromStdin
      BY DEF P2!LineRead, P2!readFromStdin, readFromStdin, P2!Exit, Exit, P2!MAXBUF, MAXBUF
    <2>2. PICK line \in readFromStdin :
             LET leaves == line = Exit \/ P2!sendPDU(line.len) = 0 IN
             /\ P2!ClientSends(c, line, IF leaves THEN "ended" ELSE "waiting")
             /\ ended' = [ended EXCEPT ![c] = IF client'[c] = "ended" THEN P2!Closed(c) ELSE @]
             /\ guilty' = (guilty \/ P2!Harmful(line))
      BY <1>2, <2>1 DEF P2!SendLine, P2!Exit, Exit
    <2>3. line.len \in Nat \ {0}
      BY Lines
    <2>4. P2!Harmful(line) <=> Bad(line.len) \/ P2!sendPDU(line.len) = 0
      BY <2>3 DEF P2!Harmful, P2!recvPDU, P2!Failed, P2!MAXBUF, MAXBUF, Bad
    <2> DEFINE next == IF line = Exit \/ P2!sendPDU(line.len) = 0 THEN "ended" ELSE "waiting"
    <2>5. ClientSends(c, line, next)
      BY <2>2, <2>4 DEF P2!ClientSends, ClientSends
    <2>6. /\ guilty' = (guilty \/ Bad(line.len) \/ P2!sendPDU(line.len) = 0)
          /\ guilty' \in BOOLEAN
      BY <2>2, <2>4 DEF TypeInv
    <2>7. ended' = [ended EXCEPT ![c] = IF client'[c] = "ended" THEN Closed(c) ELSE @]
      BY <2>2 DEF P2!Closed, Closed
    <2>8. client[c] = "reading" /\ UNCHANGED <<servervars, queue, down, broken>>
      BY <1>2 DEF P2!SendLine
    <2>9. /\ next \in {"ended", IF part = "partb" THEN "reading" ELSE "waiting"}
          /\ line = Exit => next = "ended"
          /\ next = "ended" => line = Exit \/ guilty'
      BY <2>6
    <2> HIDE DEF next
    <2>10. AnySendLine(c)
      BY <2>5, <2>6, <2>7, <2>8, <2>9 DEF AnySendLine
    <2> QED
      BY <2>10 DEF AnyClient
  <1>3. CASE P2!GetEcho(c)
    BY <1>3 DEF P2!GetEcho, AnyGetEcho, AnyClient
  <1>4. CASE P2!Kill(c)
    BY <1>4 DEF P2!Kill, P2!Closed, Kill, Closed, AnyClient
  <1>5. CASE P2!Restart(c)
    BY <1>5 DEF P2!Restart, P2!InSeq, InSeq, Restart, AnyClient
  <1> QED
    BY <1>1, <1>2, <1>3, <1>4, <1>5 DEF P2!ClientStep

LEMMA PBServer ==
    ASSUME TypeInv, part = "partb", NEW c \in Clients, PB!Receive(c) \/ PB!ClientGone(c)
    PROVE  AnyServer(c)
  <1> USE DEF PB!InSeq, InSeq
  <1>1. PB!HangUp(c) => AnyHangUp(c)
    BY DEF PB!HangUp, AnyHangUp, PB!Without, Without, PB!RemoveAt, RemoveAt
  <1>2. CASE PB!Receive(c)
    <2>1. up[c] # <<>> /\ Head(up[c]).len \in Nat
      BY <1>2, HeadPDU DEF PB!Receive
    <2> DEFINE pdu == Head(up[c])
    <2>2. PB!recvPDU(pdu.len) = PB!Failed => Bad(pdu.len)
      BY <2>1, Framing DEF PB!recvPDU, PB!Failed, PB!htons, PB!Byte, Bad, Byte
    <2> HIDE DEF pdu
    <2>3. /\ server = "running" /\ InSeq(c, serving)
          /\ up' = [up EXCEPT ![c] = Tail(@)]
          /\ UNCHANGED <<queue, down, ended, broken, client, guilty>>
          /\ \/ /\ PB!recvPDU(pdu.len) = PB!Failed
                /\ server' = "exited" /\ UNCHANGED <<serving, fds, buf>>
             \/ buf' = pdu.text /\ pdu = Exit /\ PB!HangUp(c) /\ UNCHANGED server
             \/ buf' = pdu.text /\ pdu # Exit /\ UNCHANGED <<server, serving, fds>>
      BY <1>2 DEF PB!Receive, pdu, PB!Exit, Exit
    <2>4. AnyReceive(c)
      BY <1>1, <2>1, <2>2, <2>3 DEF AnyReceive, pdu
    <2> QED
      BY <2>4 DEF AnyServer
  <1>3. CASE PB!ClientGone(c)
    BY <1>1, <1>3 DEF PB!ClientGone, AnyServer, AnyGone, netvars, PB!netvars
  <1> QED
    BY <1>2, <1>3

LEMMA PBClient ==
    ASSUME TypeInv, part = "partb", NEW c \in Clients, PB!ClientStep(c)
    PROVE  AnyClient(c)
  <1> USE DEF PB!servervars, servervars
  <1>1. CASE PB!StartClient(c)
    BY <1>1 DEF PB!StartClient, PB!Connect, PB!tcpClientSetup, PB!NotStarted, AnyStartClient,
                tcpClientSetup, NotStarted, AnyClient
  <1>2. CASE PB!SendLine(c)
    <2>1. PB!LineRead = readFromStdin
      BY DEF PB!LineRead, PB!readFromStdin, readFromStdin, PB!Exit, Exit, PB!MAXBUF, MAXBUF
    <2>2. PICK line \in readFromStdin :
             LET leaves == line = Exit \/ PB!sendPDU(line.len) = 0 IN
             /\ PB!ClientSends(c, line, IF leaves THEN "ended" ELSE "reading")
             /\ ended' = [ended EXCEPT ![c] = IF client'[c] = "ended" THEN PB!Closed(c) ELSE @]
             /\ guilty' = (guilty \/ PB!Harmful(line))
      BY <1>2, <2>1 DEF PB!SendLine, PB!Exit, Exit
    <2>3. line.len \in Nat \ {0}
      BY Lines
    <2>4. /\ PB!sendPDU(line.len) = 0 <=> Bad(line.len)
          /\ PB!Harmful(line) <=> Bad(line.len)
      BY <2>3 DEF PB!sendPDU, PB!Harmful, PB!Byte, Byte, Bad
    <2> DEFINE next == IF line = Exit \/ Bad(line.len) THEN "ended" ELSE "reading"
    <2>5. ClientSends(c, line, next)
      BY <2>2, <2>4 DEF PB!ClientSends, ClientSends
    <2>6. guilty' = (guilty \/ Bad(line.len)) /\ guilty' \in BOOLEAN
      BY <2>2, <2>4 DEF TypeInv
    <2>7. ended' = [ended EXCEPT ![c] = IF client'[c] = "ended" THEN Closed(c) ELSE @]
      BY <2>2 DEF PB!Closed, Closed
    <2>8. client[c] = "reading" /\ UNCHANGED <<servervars, queue, down, broken>>
      BY <1>2 DEF PB!SendLine
    <2>9. /\ next \in {"ended", IF part = "partb" THEN "reading" ELSE "waiting"}
          /\ line = Exit => next = "ended"
          /\ next = "ended" => line = Exit \/ guilty'
      BY <2>6
    <2> HIDE DEF next
    <2>10. AnySendLine(c)
      BY <2>5, <2>6, <2>7, <2>8, <2>9 DEF AnySendLine
    <2> QED
      BY <2>10 DEF AnyClient
  <1>3. CASE PB!Kill(c)
    BY <1>3 DEF PB!Kill, PB!Closed, Kill, Closed, AnyClient
  <1>4. CASE PB!Restart(c)
    BY <1>4 DEF PB!Restart, PB!InSeq, InSeq, Restart, AnyClient
  <1> QED
    BY <1>1, <1>2, <1>3, <1>4 DEF PB!ClientStep

\* A step of any of the three is one of the common steps.
LEMMA EachPart ==
    ASSUME TypeInv, NextPart
    PROVE  AnyNext
  <1> USE DEF netvars, P1!netvars, P2!netvars, PB!netvars
  <1>1. UNCHANGED part
    BY DEF NextPart
  <1>2. CASE part = "Lab3_Part1" /\ P1!Next
    <2>1. CASE P1!StartServer
      BY <1>1, <2>1 DEF P1!StartServer, P1!tcpServerSetup, AnyStartServer, AnyNext
    <2>2. CASE P1!Accept
      BY <1>1, <1>2, <2>2 DEF P1!Accept, P1!tcpAccept, tcpAccept, AnyAccept, AnyNext
    <2>3. ASSUME NEW c \in Clients, P1!Echo(c) \/ P1!ClientGone(c) \/ P1!ClientReset(c)
          PROVE  AnyNext
      BY <1>1, <1>2, <2>3, P1Server DEF AnyNext
    <2>4. ASSUME NEW c \in Clients, P1!ClientStep(c)
          PROVE  AnyNext
      BY <1>1, <1>2, <2>4, P1Client DEF AnyNext
    <2> QED
      BY <1>2, <2>1, <2>2, <2>3, <2>4 DEF P1!Next, P1!ServerTurn
  <1>3. CASE part = "Lab3_Part2" /\ P2!Next
    <2>1. CASE P2!StartServer
      BY <1>1, <2>1 DEF P2!StartServer, P2!Listen, P2!tcpServerSetup, AnyStartServer, AnyNext
    <2>2. CASE P2!addNewClient
      BY <1>1, <1>3, <2>2 DEF P2!addNewClient, P2!TakeConnection, P2!tcpAccept, tcpAccept,
                              AnyAccept, AnyNext
    <2>3. ASSUME NEW c \in Clients, P2!processClient(c)
          PROVE  AnyNext
      BY <1>1, <1>3, <2>3, P2Server DEF AnyNext
    <2>4. CASE P2!StdinHangup
      BY <1>1, <2>4 DEF P2!StdinHangup, AnyHup, AnyNext
    <2>5. ASSUME NEW c \in Clients, P2!ClientStep(c)
          PROVE  AnyNext
      BY <1>1, <1>3, <2>5, P2Client DEF AnyNext
    <2> QED
      BY <1>3, <2>1, <2>2, <2>3, <2>4, <2>5 DEF P2!Next, P2!serverControl
  <1>4. CASE part = "partb" /\ PB!Next
    <2>1. CASE PB!StartServer
      BY <1>1, <2>1 DEF PB!StartServer, PB!Listen, PB!tcpServerSetup, AnyStartServer, AnyNext
    <2>2. CASE PB!Accept
      BY <1>1, <1>4, <2>2 DEF PB!Accept, PB!TakeConnection, PB!tcpAccept, tcpAccept,
                              AnyAccept, AnyNext
    <2>3. ASSUME NEW c \in Clients, PB!Receive(c) \/ PB!ClientGone(c)
          PROVE  AnyNext
      BY <1>1, <1>4, <2>3, PBServer DEF AnyNext
    <2>4. ASSUME NEW c \in Clients, PB!ClientStep(c)
          PROVE  AnyNext
      BY <1>1, <1>4, <2>4, PBClient DEF AnyNext
    <2> QED
      BY <1>4, <2>1, <2>2, <2>3, <2>4 DEF PB!Next, PB!ServerTurn
  <1> QED
    BY <1>2, <1>3, <1>4 DEF NextPart
-----------------------------------------------------------------------------
\* Taking a connection that is there once out of a sequence of connections.
LEMMA WithoutIt ==
    ASSUME NEW s \in Seq(Clients), Injective(s), NEW c, InSeq(c, s)
    PROVE  /\ Without(s, c) \in Seq(Clients)
           /\ Len(Without(s, c)) = Len(s) - 1
           /\ Injective(Without(s, c))
           /\ \A d : InSeq(d, Without(s, c)) <=> InSeq(d, s) /\ d # c
  <1>1. PICK i \in 1 .. Len(s) : i = (CHOOSE j \in DOMAIN s : s[j] = c) /\ s[i] = c
    BY DEF InSeq
  <1> DEFINE a == SubSeq(s, 1, i - 1)
             b == SubSeq(s, i + 1, Len(s))
             t == Without(s, c)
  <1>2. t = a \o b
    BY <1>1 DEF Without, RemoveAt
  <1>3. /\ a \in Seq(Clients) /\ Len(a) = i - 1
        /\ \A k \in 1 .. i - 1 : a[k] = s[k]
    BY <1>1, SubSeqProperties
  <1>4. /\ b \in Seq(Clients) /\ Len(b) = Len(s) - i
        /\ \A k \in 1 .. Len(s) - i : b[k] = s[i + k]
    <2>1. i + 1 \in Int /\ Len(s) \in Int /\ \A k \in i + 1 .. Len(s) : s[k] \in Clients
      BY <1>1
    <2>2. /\ b \in Seq(Clients)
          /\ Len(b) = IF i + 1 <= Len(s) THEN Len(s) - (i + 1) + 1 ELSE 0
          /\ \A k \in 1 .. Len(s) - (i + 1) + 1 : b[k] = s[(i + 1) + k - 1]
      BY <2>1, SubSeqProperties
    <2> HIDE DEF b
    <2>3. \A k \in 1 .. Len(s) - i : (i + 1) + k - 1 = i + k /\ k \in 1 .. Len(s) - (i + 1) + 1
      BY <1>1
    <2>4. Len(b) = Len(s) - i
      BY <1>1, <2>2
    <2> QED
      BY <2>2, <2>3, <2>4
  <1> HIDE DEF a, b, t
  <1>5. /\ t \in Seq(Clients) /\ Len(t) = Len(s) - 1
        /\ \A k \in 1 .. Len(t) : t[k] = IF k < i THEN s[k] ELSE s[k + 1]
    <2>1. /\ a \o b \in Seq(Clients) /\ Len(a \o b) = Len(a) + Len(b)
          /\ \A k \in 1 .. Len(a) + Len(b) :
                (a \o b)[k] = IF k <= Len(a) THEN a[k] ELSE b[k - Len(a)]
      BY <1>3, <1>4, ConcatProperties
    <2>2. Len(s) \in Nat /\ i \in Nat /\ i <= Len(s) /\ i >= 1
      BY <1>1
    <2>3. Len(a) + Len(b) = Len(s) - 1
      BY <1>3, <1>4, <2>2
    <2>4. ASSUME NEW k \in 1 .. Len(s) - 1
          PROVE  t[k] = IF k < i THEN s[k] ELSE s[k + 1]
      <3>1. t[k] = IF k <= i - 1 THEN a[k] ELSE b[k - (i - 1)]
        BY <1>2, <1>3, <2>1, <2>3
      <3>2. CASE k < i
        <4>1. k \in 1 .. i - 1 /\ k <= i - 1
          BY <2>2, <3>2
        <4> QED
          BY <1>3, <3>1, <3>2, <4>1
      <3>3. CASE ~(k < i)
        <4>1. ~(k <= i - 1) /\ k - (i - 1) \in 1 .. Len(s) - i /\ i + (k - (i - 1)) = k + 1
          BY <2>2, <3>3
        <4>2. b[k - (i - 1)] = s[i + (k - (i - 1))]
          BY <1>4, <4>1
        <4> QED
          BY <3>1, <3>3, <4>1, <4>2
      <3> QED
        BY <3>2, <3>3
    <2> QED
      <3>1. t \in Seq(Clients) /\ Len(t) = Len(s) - 1
        BY <1>2, <2>1, <2>3
      <3> QED
        BY <2>4, <3>1
  <1>6. Len(s) \in Nat /\ i \in Nat /\ i <= Len(s) /\ i >= 1 /\ s[i] = c
    BY <1>1
  <1>7. \A k \in 1 .. Len(s) : s[k] = c => k = i
    BY <1>1 DEF Injective
  <1>8. Injective(t)
    <2> SUFFICES ASSUME NEW j \in 1 .. Len(s) - 1, NEW k \in 1 .. Len(s) - 1, t[j] = t[k]
                 PROVE  j = k
      BY <1>5 DEF Injective
    <2> DEFINE x == IF j < i THEN j ELSE j + 1
               y == IF k < i THEN k ELSE k + 1
    <2>1. x \in 1 .. Len(s) /\ y \in 1 .. Len(s) /\ (x = y => j = k)
      BY <1>6
    <2>2. t[j] = s[x] /\ t[k] = s[y]
      BY <1>5
    <2>3. \A p, q \in 1 .. Len(s) : s[p] = s[q] => p = q
      BY DEF Injective
    <2> HIDE DEF x, y
    <2>4. s[x] = s[y]
      BY <2>2
    <2> QED
      BY <2>1, <2>3, <2>4
  <1>9. ASSUME NEW d
        PROVE  InSeq(d, t) <=> InSeq(d, s) /\ d # c
    <2>1. ASSUME NEW k \in 1 .. Len(s) - 1, t[k] = d
          PROVE  InSeq(d, s) /\ d # c
      <3> DEFINE x == IF k < i THEN k ELSE k + 1
      <3>1. x \in 1 .. Len(s) /\ x # i
        BY <1>6
      <3>2. s[x] = d
        BY <1>5, <2>1
      <3> HIDE DEF x
      <3> QED
        BY <1>7, <3>1, <3>2 DEF InSeq
    <2>2. ASSUME NEW k \in 1 .. Len(s), s[k] = d, d # c
          PROVE  InSeq(d, t)
      <3> DEFINE x == IF k < i THEN k ELSE k - 1
      <3>1. k # i
        BY <1>6, <2>2
      <3>2. x \in 1 .. Len(s) - 1 /\ k = IF x < i THEN x ELSE x + 1
        BY <1>6, <3>1
      <3> HIDE DEF x
      <3>3. t[x] = d
        BY <1>5, <2>2, <3>2
      <3> QED
        BY <1>5, <3>2, <3>3 DEF InSeq
    <2> QED
      BY <1>5, <2>1, <2>2 DEF InSeq
  <1> QED
    BY <1>5, <1>8, <1>9 DEF t

\* A connection that comes last.
Joined(s, c) == Append(s, c)

LEMMA WithIt ==
    ASSUME NEW s \in Seq(Clients), Injective(s), NEW c \in Clients, ~InSeq(c, s)
    PROVE  /\ Joined(s, c) \in Seq(Clients)
           /\ Len(Joined(s, c)) = Len(s) + 1
           /\ Injective(Joined(s, c))
           /\ \A d : InSeq(d, Joined(s, c)) <=> InSeq(d, s) \/ d = c
  <1> DEFINE t == Joined(s, c)
  <1>1. /\ t \in Seq(Clients) /\ Len(t) = Len(s) + 1
        /\ t[Len(t)] = c
        /\ \A k \in 1 .. Len(s) : t[k] = s[k]
    BY AppendProperties DEF Joined
  <1> HIDE DEF t
  <1>2. Injective(t)
    BY <1>1 DEF Injective, InSeq
  <1>3. ASSUME NEW d
        PROVE  InSeq(d, t) <=> InSeq(d, s) \/ d = c
    <2>1. InSeq(d, t) => InSeq(d, s) \/ d = c
      BY <1>1 DEF InSeq
    <2>2. InSeq(d, s) => InSeq(d, t)
      BY <1>1 DEF InSeq
    <2>3. InSeq(c, t)
      BY <1>1 DEF InSeq
    <2> QED
      BY <2>1, <2>2, <2>3
  <1>4. \A d : InSeq(d, t) <=> InSeq(d, s) \/ d = c
    BY <1>3
  <1>5. t \in Seq(Clients) /\ Len(t) = Len(s) + 1
    BY <1>1
  <1> QED
    BY <1>2, <1>4, <1>5 DEF t

\* The first connection leaves.
LEMMA WithoutFirst ==
    ASSUME NEW s \in Seq(Clients), Injective(s), s # <<>>
    PROVE  /\ Head(s) \in Clients /\ InSeq(Head(s), s)
           /\ Tail(s) \in Seq(Clients)
           /\ Injective(Tail(s))
           /\ \A d : InSeq(d, Tail(s)) <=> InSeq(d, s) /\ d # Head(s)
  <1> DEFINE t == Tail(s)
  <1>1. /\ t \in Seq(Clients) /\ Len(t) = Len(s) - 1 /\ Len(s) \in Nat /\ Len(s) >= 1
        /\ \A k \in 1 .. Len(t) : t[k] = s[k + 1]
        /\ Head(s) = s[1] /\ Head(s) \in Clients
    BY HeadTailProperties
  <1> HIDE DEF t
  <1>2. Injective(t)
    <2> SUFFICES ASSUME NEW i \in 1 .. Len(t), NEW j \in 1 .. Len(t), t[i] = t[j]
                 PROVE  i = j
      BY <1>1 DEF Injective
    <2>1. /\ i + 1 \in 1 .. Len(s) /\ t[i] = s[i + 1]
          /\ j + 1 \in 1 .. Len(s) /\ t[j] = s[j + 1]
      BY <1>1
    <2>2. i + 1 = j + 1
      <3>1. \A k, m \in 1 .. Len(s) : s[k] = s[m] => k = m
        BY DEF Injective
      <3> QED
        BY <2>1, <3>1
    <2> QED
      BY <2>2
  <1>3. ASSUME NEW d
        PROVE  InSeq(d, t) <=> InSeq(d, s) /\ d # Head(s)
    <2>1. ASSUME NEW k \in 1 .. Len(t), t[k] = d
          PROVE  InSeq(d, s) /\ d # Head(s)
      BY <1>1, <2>1 DEF InSeq, Injective
    <2>2. ASSUME NEW k \in 1 .. Len(s), s[k] = d, d # Head(s)
          PROVE  InSeq(d, t)
      <3>1. k # 1
        BY <1>1, <2>2
      <3>2. k - 1 \in 1 .. Len(t) /\ t[k - 1] = d
        BY <1>1, <2>2, <3>1
      <3> QED
        BY <1>1, <3>2 DEF InSeq
    <2> QED
      BY <1>1, <2>1, <2>2 DEF InSeq
  <1>4. InSeq(Head(s), s)
    BY <1>1 DEF InSeq
  <1> QED
    BY <1>1, <1>2, <1>3, <1>4 DEF t

\* What a client's own conditions depend on.
LEMMA Bystander ==
    ASSUME NEW d \in Clients, Fresh(d), Blamed(d), guilty => guilty', UNCHANGED part,
           up'[d] = up[d], down'[d] = down[d], ended'[d] = ended[d],
           broken'[d] = broken[d], client'[d] = client[d],
           server' = "starting" => server = "starting",
           InSeq(d, serving') \/ InSeq(d, queue') => InSeq(d, serving) \/ InSeq(d, queue)
    PROVE  Fresh(d)' /\ Blamed(d)' /\ (EchoClient(d) => EchoClient(d)')
  <1>1. Fresh(d)'
    BY DEF Fresh
  <1>2. Blamed(d)'
    BY DEF Blamed, Bad
  <1>3. EchoClient(d) => EchoClient(d)'
    BY DEF EchoClient, InSeq
  <1> QED
    BY <1>1, <1>2, <1>3
-----------------------------------------------------------------------------
LEMMA InitIInv == InitPart => IInv
  <1> SUFFICES ASSUME InitPart
               PROVE  IInv
    OBVIOUS
  <1> USE TcpNetAssumption DEF InitPart, Init
  <1>1. <<>> \in Seq(Clients) /\ <<>> \in Seq(UpPDU) /\ <<>> \in Seq(PDU) /\ Len(<<>>) = 0
    BY EmptySeq
  <1>2. TypeInv
    <2>1. up \in [Clients -> Seq(UpPDU)] /\ down \in [Clients -> Seq(PDU)]
      <3> HIDE DEF UpPDU, PDU
      <3> QED
        BY <1>1
    <2>2. 0 \in 0 .. FdLimit /\ \A c \in Clients : Len(up[c]) <= QueueLen
      BY <1>1
    <2> QED
      BY <1>1, <2>1, <2>2 DEF TypeInv
  <1>3. OneConnection /\ OneAtATime
    BY <1>1 DEF OneConnection, OneAtATime, Injective, InSeq
  <1>4. \A c \in Clients : Fresh(c) /\ Blamed(c) /\ EchoClient(c)
    BY <1>1 DEF Fresh, Blamed, EchoClient, Bad
  <1> QED
    BY <1>2, <1>3, <1>4 DEF IInv, EchoClients

\* When the server leaves a connection it has no other, or it keeps its descriptor.
LEMMA HangUpKeeps ==
    ASSUME IInv, UNCHANGED <<part, queue, client>>, NEW c \in Clients, InSeq(c, serving),
           AnyHangUp(c) \/ UNCHANGED <<serving, fds>>
    PROVE  /\ serving' \in Seq(Clients) /\ fds' \in 0 .. FdLimit
           /\ OneConnection' /\ OneAtATime'
           /\ \A d : InSeq(d, serving') => InSeq(d, serving)
           /\ AnyHangUp(c) => ~InSeq(c, serving')
  <1> USE DEF IInv, OneConnection
  <1>1. serving \in Seq(Clients) /\ fds \in 0 .. FdLimit /\ Injective(serving)
        /\ FdLimit \in Nat
    BY TcpNetAssumption DEF TypeInv
  <1>2. CASE AnyHangUp(c)
    <2>1. /\ serving' \in Seq(Clients) /\ Len(serving') = Len(serving) - 1
          /\ Injective(serving')
          /\ \A d : InSeq(d, serving') <=> InSeq(d, serving) /\ d # c
      BY <1>1, <1>2, WithoutIt DEF AnyHangUp
    <2>2. Len(serving) \in Nat /\ Len(serving) >= 1
      BY <1>1 DEF InSeq
    <2>3. fds' \in 0 .. FdLimit /\ OneAtATime'
      BY <1>1, <1>2, <2>1, <2>2 DEF AnyHangUp, OneAtATime
    <2>4. OneConnection'
      BY <2>1 DEF Injective, InSeq
    <2> QED
      BY <2>1, <2>3, <2>4
  <1>3. CASE UNCHANGED <<serving, fds>> /\ ~AnyHangUp(c)
    BY <1>1, <1>3 DEF OneAtATime, InSeq, Injective
  <1> QED
    BY <1>2, <1>3

LEMMA StartServerKeeps ==
    ASSUME IInv, UNCHANGED part, AnyStartServer
    PROVE  IInv'
  <1> USE DEF AnyStartServer, netvars
  <1>1. TypeInv' /\ OneConnection' /\ OneAtATime'
    BY DEF IInv, TypeInv, OneConnection, OneAtATime, Injective, InSeq
  <1>2. \A d \in Clients : Fresh(d)' /\ Blamed(d)' /\ (EchoClient(d) => EchoClient(d)')
    BY Bystander DEF IInv
  <1>3. EchoClients'
    BY <1>2 DEF IInv, EchoClients
  <1> QED
    BY <1>1, <1>2, <1>3 DEF IInv

LEMMA HupKeeps ==
    ASSUME IInv, UNCHANGED part, AnyHup
    PROVE  IInv'
  <1> USE DEF AnyHup, netvars
  <1>1. TypeInv' /\ OneConnection' /\ OneAtATime'
    BY DEF IInv, TypeInv, OneConnection, OneAtATime, Injective, InSeq
  <1>2. \A d \in Clients : Fresh(d)' /\ Blamed(d)'
    BY Bystander DEF IInv
  <1> QED
    BY <1>1, <1>2 DEF IInv, EchoClients

\* A connection goes from the queue to those that are served, or is dropped.
LEMMA AcceptKeeps ==
    ASSUME IInv, UNCHANGED part, AnyAccept
    PROVE  IInv'
  <1> USE DEF AnyAccept, tcpAccept
  <1>1. /\ queue \in Seq(Clients) /\ serving \in Seq(Clients) /\ queue # <<>>
        /\ Injective(queue) /\ Injective(serving)
        /\ fds \in 0 .. FdLimit /\ FdLimit \in Nat \ {0}
    BY TcpNetAssumption DEF IInv, TypeInv, OneConnection
  <1>2. /\ Head(queue) \in Clients /\ InSeq(Head(queue), queue)
        /\ queue' \in Seq(Clients)
        /\ Injective(queue')
        /\ \A d : InSeq(d, queue') <=> InSeq(d, queue) /\ d # Head(queue)
    BY <1>1, WithoutFirst
  <1>3. ~InSeq(Head(queue), serving)
    BY <1>2 DEF IInv, OneConnection
  <1>4. CASE /\ fds < FdLimit
             /\ serving' = Append(serving, Head(queue))
             /\ fds' = fds + 1
             /\ UNCHANGED server
    <2>1. /\ serving' \in Seq(Clients)
          /\ Len(serving') = Len(serving) + 1
          /\ Injective(serving')
          /\ \A d : InSeq(d, serving') <=> InSeq(d, serving) \/ d = Head(queue)
      <3>1. serving' = Joined(serving, Head(queue))
        BY <1>4 DEF Joined
      <3> QED
        BY <1>1, <1>2, <1>3, <3>1, WithIt
    <2>2. OneConnection'
      <3>1. Injective(queue)' /\ Injective(serving)'
        BY <1>2, <2>1 DEF Injective
      <3>2. \A d : InSeq(d, queue)' <=> InSeq(d, queue) /\ d # Head(queue)
        BY <1>2 DEF InSeq
      <3>3. \A d : InSeq(d, serving)' <=> InSeq(d, serving) \/ d = Head(queue)
        BY <2>1 DEF InSeq
      <3>4. UNCHANGED client
        OBVIOUS
      <3>5. \A d \in Clients : /\ ~(InSeq(d, queue) /\ InSeq(d, serving))
                               /\ client[d] = "start" => ~InSeq(d, queue) /\ ~InSeq(d, serving)
        BY DEF IInv, OneConnection
      <3> QED
        BY <1>2, <3>1, <3>2, <3>3, <3>4, <3>5 DEF OneConnection
    <2>3. OneAtATime'
      BY <1>1, <1>4, <2>1 DEF IInv, OneAtATime
    <2>4. TypeInv'
      BY <1>1, <1>2, <1>4, <2>1 DEF IInv, TypeInv
    <2>5. \A d \in Clients : Fresh(d)' /\ Blamed(d)' /\ (EchoClient(d) => EchoClient(d)')
      <3> SUFFICES ASSUME NEW d \in Clients
                   PROVE  Fresh(d)' /\ Blamed(d)' /\ (EchoClient(d) => EchoClient(d)')
        OBVIOUS
      <3>1. InSeq(d, serving') \/ InSeq(d, queue') => InSeq(d, serving) \/ InSeq(d, queue)
        BY <1>2, <2>1
      <3> QED
        BY <1>4, <3>1, Bystander DEF IInv
    <2>6. EchoClients'
      BY <1>4, <2>5 DEF IInv, EchoClients
    <2> QED
      BY <2>2, <2>3, <2>4, <2>5, <2>6 DEF IInv
  <1>5. CASE /\ fds = FdLimit /\ server' = "exited" /\ UNCHANGED <<serving, fds>>
    <2>1. OneConnection'
      BY <1>2, <1>5 DEF IInv, OneConnection, Injective, InSeq
    <2>2. OneAtATime' /\ TypeInv'
      BY <1>2, <1>5 DEF IInv, OneAtATime, TypeInv
    <2>3. \A d \in Clients : Fresh(d)' /\ Blamed(d)'
      <3> SUFFICES ASSUME NEW d \in Clients
                   PROVE  Fresh(d)' /\ Blamed(d)'
        OBVIOUS
      <3>1. InSeq(d, serving') \/ InSeq(d, queue') => InSeq(d, serving) \/ InSeq(d, queue)
        BY <1>2, <1>5
      <3> QED
        BY <1>5, <3>1, Bystander DEF IInv
    <2> QED
      BY <1>5, <2>1, <2>2, <2>3 DEF IInv, EchoClients
  <1> QED
    BY <1>4, <1>5

\* What is left of what a client has sent when the server has received its head.
LEMMA TailOfUp ==
    ASSUME TypeInv, NEW c \in Clients, up[c] # <<>>
    PROVE  /\ Tail(up[c]) \in Seq(UpPDU) /\ Len(Tail(up[c])) = Len(up[c]) - 1
           /\ Len(up[c]) \in Nat /\ Len(up[c]) >= 1 /\ Head(up[c]) = up[c][1]
           /\ \A k \in DOMAIN Tail(up[c]) :
                 k + 1 \in DOMAIN up[c] /\ Tail(up[c])[k] = up[c][k + 1]
  <1> DEFINE s == up[c]
             t == Tail(s)
  <1>1. s \in Seq(UpPDU) /\ s # <<>>
    BY DEF TypeInv
  <1> HIDE DEF s, t, UpPDU
  <1>2. /\ t \in Seq(UpPDU) /\ Len(t) = Len(s) - 1
        /\ \A k \in 1 .. Len(t) : t[k] = s[k + 1]
    BY <1>1, HeadTailProperties DEF t
  <1>3. Len(s) \in Nat /\ Len(s) >= 1 /\ Head(s) = s[1]
    BY <1>1
  <1>4. \A k \in DOMAIN t : k + 1 \in DOMAIN s /\ t[k] = s[k + 1]
    BY <1>1, <1>2, <1>3
  <1> QED
    BY <1>2, <1>3, <1>4 DEF s, t

\* The server receives a PDU of a client's and answers it, hangs up or exits.
LEMMA ReceiveKeeps ==
    ASSUME IInv, UNCHANGED part, NEW c \in Clients, AnyReceive(c)
    PROVE  IInv'
  <1> DEFINE pdu == Head(up[c])
             rest == Tail(up[c])
  <1>1. /\ server = "running" /\ InSeq(c, serving) /\ up[c] # <<>>
        /\ up' = [up EXCEPT ![c] = rest]
        /\ buf' \in {buf, pdu.text}
        /\ UNCHANGED <<queue, ended, client, guilty>>
    BY DEF AnyReceive
  <1>2. /\ rest \in Seq(UpPDU) /\ Len(rest) = Len(up[c]) - 1
        /\ Len(up[c]) \in Nat /\ Len(up[c]) >= 1 /\ pdu = up[c][1]
        /\ \A k \in DOMAIN rest : k + 1 \in DOMAIN up[c] /\ rest[k] = up[c][k + 1]
        /\ pdu \in UpPDU /\ pdu.len \in Nat
    BY <1>1, HeadPDU, TailOfUp DEF IInv
  <1> HIDE DEF pdu, rest
  <1>3. AnyHangUp(c) \/ UNCHANGED <<serving, fds>>
    BY DEF AnyReceive
  <1>4. /\ serving' \in Seq(Clients) /\ fds' \in 0 .. FdLimit
        /\ OneConnection' /\ OneAtATime'
        /\ \A d : InSeq(d, serving') => InSeq(d, serving)
        /\ AnyHangUp(c) => ~InSeq(c, serving')
    BY <1>1, <1>3, HangUpKeeps
  <1>5. up[c] \in Seq(UpPDU) /\ down[c] \in Seq(PDU) /\ up \in [Clients -> Seq(UpPDU)]
        /\ down \in [Clients -> Seq(PDU)] /\ broken \in [Clients -> BOOLEAN]
    BY DEF IInv, TypeInv
  <1>6. \/ server' = "exited" /\ UNCHANGED <<down, broken>>
        \/ AnyHangUp(c) /\ pdu = Exit /\ UNCHANGED <<server, down, broken>>
        \/ part = "partb" /\ UNCHANGED <<server, down, broken>>
        \/ /\ part # "partb" /\ pdu # Exit /\ ended[c] = "open" /\ UNCHANGED <<server, broken>>
           /\ down' = [down EXCEPT ![c] = Append(@, [len |-> pdu.len, text |-> "junk"])]
        \/ /\ part # "partb" /\ pdu # Exit /\ ended[c] = "fin" /\ UNCHANGED <<server, down>>
           /\ broken' = [broken EXCEPT ![c] = TRUE]
    BY DEF AnyReceive, ServerSends, pdu
  <1>7. /\ [len |-> pdu.len, text |-> "junk"] \in PDU
        /\ Append(down[c], [len |-> pdu.len, text |-> "junk"]) \in Seq(PDU)
        /\ Len(Append(down[c], [len |-> pdu.len, text |-> "junk"])) = Len(down[c]) + 1
    <2>1. [len |-> pdu.len, text |-> "junk"] \in PDU
      BY <1>2 DEF PDU
    <2> HIDE DEF PDU
    <2> QED
      BY <1>5, <2>1, AppendProperties
  <1>8. TypeInv'
    <2>1. down' \in [Clients -> Seq(PDU)] /\ broken' \in [Clients -> BOOLEAN]
          /\ server' \in {"starting", "running", "exited"}
      <3> HIDE DEF PDU
      <3> QED
        BY <1>5, <1>6, <1>7 DEF IInv, TypeInv
    <2>2. up' \in [Clients -> Seq(UpPDU)]
      <3> HIDE DEF UpPDU
      <3> QED
        BY <1>1, <1>2, <1>5
    <2>3. \A d \in Clients : Len(up'[d]) <= QueueLen
      BY <1>1, <1>2, <1>5, TcpNetAssumption DEF IInv, TypeInv
    <2>4. buf' \in {"unknown", "exit", "line"}
      BY <1>1, <1>2 DEF IInv, TypeInv, UpPDU
    <2> QED
      BY <1>1, <1>4, <2>1, <2>2, <2>3, <2>4 DEF IInv, TypeInv
  <1>9. ASSUME NEW d \in Clients, d # c
        PROVE  Fresh(d)' /\ Blamed(d)' /\ (EchoClient(d) => EchoClient(d)')
    <2>1. /\ up'[d] = up[d] /\ down'[d] = down[d] /\ ended'[d] = ended[d]
          /\ broken'[d] = broken[d] /\ client'[d] = client[d]
      BY <1>1, <1>5, <1>6, <1>9
    <2>2. InSeq(d, serving') \/ InSeq(d, queue') => InSeq(d, serving) \/ InSeq(d, queue)
      BY <1>1, <1>4
    <2>3. server' = "starting" => server = "starting"
      BY <1>1, <1>6
    <2> QED
      BY <1>1, <2>1, <2>2, <2>3, Bystander DEF IInv
  <1>10. up'[c] = rest
    BY <1>1, <1>5
  <1>11. Fresh(c)' /\ Blamed(c)'
    <2>1. Fresh(c)'
      BY <1>1, <1>6 DEF IInv, Fresh
    <2>2. Blamed(c)'
      BY <1>1, <1>2, <1>10 DEF IInv, Blamed, Bad
    <2> QED
      BY <2>1, <2>2
  <1>12. ASSUME part # "partb", server' # "exited"
         PROVE  EchoClient(c)'
    <2>1. EchoClient(c) /\ Fresh(c)
      BY <1>1, <1>12 DEF IInv, EchoClients
    <2>2. Len(down[c]) \in Nat /\ Len(rest) \in Nat
      BY <1>2, <1>5
    <2>3. ended[c] = "fin" /\ ~guilty => pdu = Exit /\ rest = <<>>
      <3> SUFFICES ASSUME ended[c] = "fin", ~guilty
                   PROVE  pdu = Exit /\ rest = <<>>
        OBVIOUS
      <3>1. up[c] = <<Exit>>
        BY <1>1, <2>1 DEF EchoClient
      <3> QED
        BY <3>1 DEF pdu, rest
    <2>4. client[c] # "reading" /\ (client[c] = "waiting" => pdu # Exit /\ Len(rest) + Len(down[c]) = 0)
      BY <1>2, <1>5, <2>1, <2>2 DEF EchoClient
    <2>5. client'[c] = client[c] /\ ended'[c] = ended[c] /\ guilty' = guilty
          /\ InSeq(c, queue') = InSeq(c, queue)
      BY <1>1
    <2>6. CASE AnyHangUp(c) /\ pdu = Exit /\ UNCHANGED <<server, down, broken>>
      <3>1. ~InSeq(c, serving') /\ ~InSeq(c, queue')
        BY <1>1, <1>4, <2>6 DEF IInv, OneConnection
      <3> QED
        BY <1>10, <2>1, <2>3, <2>4, <2>5, <2>6, <3>1 DEF EchoClient
    <2>7. CASE /\ pdu # Exit /\ ended[c] = "open" /\ UNCHANGED <<server, broken>>
               /\ down' = [down EXCEPT ![c] = Append(@, [len |-> pdu.len, text |-> "junk"])]
      <3>1. Len(down'[c]) = Len(down[c]) + 1
        BY <1>5, <1>7, <2>7
      <3>2. \A i \in DOMAIN rest : rest[i] # Exit \/ client[c] # "waiting"
        BY <1>2, <2>1 DEF EchoClient
      <3>3. broken'[c] /\ ~guilty' => ~InSeq(c, serving') /\ ~InSeq(c, queue')
        BY <1>1, <1>4, <2>1, <2>5, <2>7 DEF EchoClient
      <3> QED
        BY <1>10, <2>2, <2>4, <2>5, <2>7, <3>1, <3>2, <3>3 DEF EchoClient
    <2>8. CASE /\ pdu # Exit /\ ended[c] = "fin" /\ UNCHANGED <<server, down>>
               /\ broken' = [broken EXCEPT ![c] = TRUE]
      <3>1. guilty
        BY <2>3, <2>8 DEF IInv, TypeInv
      <3>2. client[c] # "waiting"
        BY <2>1, <2>8 DEF Fresh
      <3> QED
        BY <2>4, <2>5, <2>8, <3>1, <3>2 DEF EchoClient
    <2> QED
      BY <1>6, <1>12, <2>6, <2>7, <2>8
  <1>13. EchoClients'
    <2> SUFFICES ASSUME part # "partb", server' # "exited", NEW d \in Clients
                 PROVE  EchoClient(d)'
      BY DEF EchoClients
    <2>1. EchoClient(d)
      BY <1>1 DEF IInv, EchoClients
    <2> QED
      BY <1>9, <1>12, <2>1
  <1> QED
    BY <1>4, <1>8, <1>9, <1>11, <1>13 DEF IInv

\* The server finds the end of a connection.
LEMMA GoneKeeps ==
    ASSUME IInv, UNCHANGED part, NEW c \in Clients, AnyGone(c) \/ AnyReset(c)
    PROVE  IInv'
  <1>1. /\ server = "running" /\ InSeq(c, serving) /\ up[c] = <<>> /\ ended[c] # "open"
        /\ UNCHANGED <<buf, queue, up, down, ended, client, guilty>>
        /\ AnyHangUp(c) \/ UNCHANGED <<serving, fds>>
        /\ \/ AnyHangUp(c) /\ UNCHANGED <<server, broken>>
           \/ AnyHangUp(c) /\ broken' = [broken EXCEPT ![c] = TRUE] /\ UNCHANGED server
           \/ server' = "exited" /\ UNCHANGED broken
    BY DEF AnyGone, AnyReset, netvars
  <1>2. /\ serving' \in Seq(Clients) /\ fds' \in 0 .. FdLimit
        /\ OneConnection' /\ OneAtATime'
        /\ \A d : InSeq(d, serving') => InSeq(d, serving)
        /\ AnyHangUp(c) => ~InSeq(c, serving')
    BY <1>1, HangUpKeeps
  <1>3. broken \in [Clients -> BOOLEAN]
    BY DEF IInv, TypeInv
  <1>4. TypeInv'
    BY <1>1, <1>2, <1>3 DEF IInv, TypeInv
  <1>5. ASSUME NEW d \in Clients, d # c
        PROVE  Fresh(d)' /\ Blamed(d)' /\ (EchoClient(d) => EchoClient(d)')
    <2>1. broken'[d] = broken[d]
      BY <1>1, <1>3, <1>5
    <2>2. InSeq(d, serving') \/ InSeq(d, queue') => InSeq(d, serving) \/ InSeq(d, queue)
      BY <1>1, <1>2
    <2>3. server' = "starting" => server = "starting"
      BY <1>1
    <2> QED
      BY <1>1, <2>1, <2>2, <2>3, Bystander DEF IInv
  <1>6. client[c] \in {"ended"}
    BY <1>1 DEF IInv, Fresh, TypeInv
  <1>7. Fresh(c)' /\ Blamed(c)'
    BY <1>1, <1>6 DEF IInv, Fresh, Blamed, Bad
  <1>8. ASSUME server' # "exited", EchoClient(c)
        PROVE  EchoClient(c)'
    <2>1. ~InSeq(c, serving') /\ ~InSeq(c, queue')
      BY <1>1, <1>2, <1>8 DEF IInv, OneConnection
    <2> QED
      BY <1>1, <1>6, <1>8, <2>1 DEF EchoClient
  <1>9. EchoClients'
    <2> SUFFICES ASSUME part # "partb", server' # "exited", NEW d \in Clients
                 PROVE  EchoClient(d)'
      BY DEF EchoClients
    <2>1. EchoClient(d)
      BY <1>1 DEF IInv, EchoClients
    <2> QED
      BY <1>5, <1>8, <2>1
  <1> QED
    BY <1>2, <1>4, <1>5, <1>7, <1>9 DEF IInv

LEMMA StartClientKeeps ==
    ASSUME IInv, UNCHANGED part, NEW c \in Clients, AnyStartClient(c)
    PROVE  IInv'
  <1> USE DEF AnyStartClient, servervars
  <1>1. /\ client[c] = "start"
        /\ UNCHANGED <<server, serving, fds, buf, up, down, ended, broken, guilty>>
        /\ \/ /\ server = "running" /\ queue' = Append(queue, c)
              /\ client' = [client EXCEPT ![c] = "reading"]
           \/ client' = [client EXCEPT ![c] = "ended"] /\ UNCHANGED queue
    BY DEF tcpClientSetup, NotStarted
  <1>2. client \in [Clients -> {"start", "reading", "waiting", "ended"}]
        /\ queue \in Seq(Clients) /\ Injective(queue)
    BY DEF IInv, TypeInv, OneConnection
  <1>3. ~InSeq(c, queue) /\ ~InSeq(c, serving) /\ Fresh(c)
    BY <1>1 DEF IInv, OneConnection
  <1>4. /\ queue' \in Seq(Clients) /\ Injective(queue')
        /\ \A d : InSeq(d, queue') => InSeq(d, queue) \/ d = c
    <2>1. CASE UNCHANGED queue
      BY <1>2, <2>1 DEF Injective, InSeq
    <2>2. CASE queue' = Append(queue, c)
      <3>1. queue' = Joined(queue, c)
        BY <2>2 DEF Joined
      <3> QED
        BY <1>2, <1>3, <3>1, WithIt
    <2> QED
      BY <1>1, <2>1, <2>2
  <1>5. OneConnection'
    <2>1. Injective(queue)' /\ Injective(serving)'
      <3>1. Injective(serving)
        BY DEF IInv, OneConnection
      <3> QED
        BY <1>1, <1>4, <3>1 DEF Injective
    <2>2. \A d : InSeq(d, queue)' => InSeq(d, queue) \/ d = c
      BY <1>4 DEF InSeq
    <2>3. \A d : InSeq(d, serving)' <=> InSeq(d, serving)
      BY <1>1 DEF InSeq
    <2>4. client'[c] # "start" /\ \A d \in Clients : d # c => client'[d] = client[d]
      BY <1>1, <1>2
    <2>5. \A d \in Clients : /\ ~(InSeq(d, queue) /\ InSeq(d, serving))
                             /\ client[d] = "start" => ~InSeq(d, queue) /\ ~InSeq(d, serving)
      BY DEF IInv, OneConnection
    <2> QED
      BY <1>3, <2>1, <2>2, <2>3, <2>4, <2>5 DEF OneConnection
  <1>6. TypeInv' /\ OneAtATime'
    BY <1>1, <1>2, <1>4 DEF IInv, TypeInv, OneAtATime
  <1>7. ASSUME NEW d \in Clients, d # c
        PROVE  Fresh(d)' /\ Blamed(d)' /\ (EchoClient(d) => EchoClient(d)')
    <2>1. client'[d] = client[d]
      BY <1>1, <1>2, <1>7
    <2>2. InSeq(d, serving') \/ InSeq(d, queue') => InSeq(d, serving) \/ InSeq(d, queue)
      BY <1>1, <1>4, <1>7
    <2> QED
      BY <1>1, <2>1, <2>2, Bystander DEF IInv
  <1>8. /\ up[c] = <<>> /\ down[c] = <<>> /\ ended[c] = "open" /\ ~broken[c]
        /\ client'[c] \in {"reading", "ended"} /\ (client'[c] = "reading" => server = "running")
    BY <1>1, <1>2, <1>3 DEF Fresh
  <1>9. Fresh(c)' /\ Blamed(c)' /\ EchoClient(c)'
    BY <1>1, <1>8 DEF Fresh, Blamed, EchoClient
  <1>10. EchoClients'
    BY <1>1, <1>7, <1>9 DEF IInv, EchoClients
  <1> QED
    BY <1>5, <1>6, <1>7, <1>9, <1>10 DEF IInv

\* A client sends a line.
LEMMA SendLineKeeps ==
    ASSUME IInv, UNCHANGED part, NEW c \in Clients, AnySendLine(c)
    PROVE  IInv'
  <1>1. PICK line \in readFromStdin :
          \E next \in {"ended", IF part = "partb" THEN "reading" ELSE "waiting"} :
             /\ ClientSends(c, line, next)
             /\ line = Exit => next = "ended"
             /\ next = "ended" => line = Exit \/ guilty'
             /\ ended' = [ended EXCEPT ![c] = IF client'[c] = "ended" THEN Closed(c) ELSE @]
             /\ Bad(line.len) => guilty'
    BY DEF AnySendLine
  <1>2. PICK next \in {"ended", IF part = "partb" THEN "reading" ELSE "waiting"} :
             /\ ClientSends(c, line, next)
             /\ line = Exit => next = "ended"
             /\ next = "ended" => line = Exit \/ guilty'
             /\ ended' = [ended EXCEPT ![c] = IF client'[c] = "ended" THEN Closed(c) ELSE @]
             /\ Bad(line.len) => guilty'
    BY <1>1
  <1>3. /\ client[c] = "reading" /\ (guilty => guilty') /\ guilty' \in BOOLEAN
        /\ UNCHANGED <<server, serving, fds, buf, queue, down, broken>>
    BY DEF AnySendLine, servervars
  <1>4. /\ client \in [Clients -> {"start", "reading", "waiting", "ended"}]
        /\ up \in [Clients -> Seq(UpPDU)] /\ up[c] \in Seq(UpPDU) /\ down[c] \in Seq(PDU)
        /\ ended \in [Clients -> {"open", "fin", "reset"}]
    BY DEF IInv, TypeInv
  <1>5. line \in UpPDU
    BY Lines
  <1> DEFINE sent == Append(up[c], line)
  <1>6. /\ sent \in Seq(UpPDU) /\ Len(sent) = Len(up[c]) + 1
        /\ \A k \in 1 .. Len(up[c]) : sent[k] = up[c][k]
        /\ sent[Len(up[c]) + 1] = line
    <2> HIDE DEF UpPDU
    <2> QED
      BY <1>4, <1>5, AppendProperties
  <1> HIDE DEF sent
  <1>7. \/ /\ server = "running" /\ Len(up[c]) < QueueLen
           /\ up' = [up EXCEPT ![c] = sent]
           /\ client' = [client EXCEPT ![c] = next]
        \/ /\ server = "exited" /\ UNCHANGED up
           /\ client' \in {[client EXCEPT ![c] = next], [client EXCEPT ![c] = "ended"]}
    BY <1>2 DEF ClientSends, sent
  <1>8. /\ client'[c] \in {next, "ended"} /\ next \in {"ended", "reading", "waiting"}
        /\ \A d \in Clients : d # c => client'[d] = client[d]
        /\ client' \in [Clients -> {"start", "reading", "waiting", "ended"}]
    BY <1>4, <1>7
  <1>9. /\ ended' \in [Clients -> {"open", "fin", "reset"}]
        /\ \A d \in Clients : d # c => ended'[d] = ended[d]
        /\ ended'[c] = IF client'[c] = "ended" THEN Closed(c) ELSE ended[c]
        /\ Closed(c) = IF down[c] = <<>> THEN "fin" ELSE "reset"
    BY <1>2, <1>4 DEF Closed
  <1>10. TypeInv'
    <2>1. up' \in [Clients -> Seq(UpPDU)]
      <3> HIDE DEF UpPDU
      <3> QED
        BY <1>4, <1>6, <1>7
    <2>2. \A d \in Clients : Len(up'[d]) <= QueueLen
      <3>1. Len(up[c]) \in Nat /\ QueueLen \in Nat
        BY <1>4, TcpNetAssumption
      <3>2. \A d \in Clients : Len(up[d]) <= QueueLen
        BY DEF IInv, TypeInv
      <3>3. CASE UNCHANGED up
        BY <3>2, <3>3
      <3>4. CASE Len(up[c]) < QueueLen /\ up' = [up EXCEPT ![c] = sent]
        <4>1. Len(sent) <= QueueLen
          BY <1>6, <3>1, <3>4
        <4>2. \A d \in Clients : up'[d] = IF d = c THEN sent ELSE up[d]
          BY <1>4, <3>4
        <4> QED
          BY <3>2, <4>1, <4>2
      <3> QED
        BY <1>7, <3>3, <3>4
    <2> QED
      BY <1>3, <1>8, <1>9, <2>1, <2>2 DEF IInv, TypeInv
  <1>11. OneConnection' /\ OneAtATime'
    BY <1>3, <1>8 DEF IInv, OneConnection, OneAtATime, Injective, InSeq
  <1>12. ASSUME NEW d \in Clients, d # c
         PROVE  Fresh(d)' /\ Blamed(d)' /\ (EchoClient(d) => EchoClient(d)')
    <2>1. up'[d] = up[d]
      BY <1>4, <1>7, <1>12
    <2>2. InSeq(d, serving') \/ InSeq(d, queue') => InSeq(d, serving) \/ InSeq(d, queue)
      BY <1>3
    <2> QED
      BY <1>3, <1>8, <1>9, <1>12, <2>1, <2>2, Bystander DEF IInv
  <1>13. Fresh(c)'
    BY <1>3, <1>8, <1>9 DEF IInv, Fresh
  <1>14. Blamed(c)'
    <2>1. CASE UNCHANGED up
      BY <1>3, <2>1 DEF IInv, Blamed, Bad
    <2>2. CASE up' = [up EXCEPT ![c] = sent]
      <3>1. up'[c] = sent
        BY <1>4, <2>2
      <3> SUFFICES ASSUME NEW k \in 1 .. Len(sent), Bad(sent[k].len)
                   PROVE  guilty'
        BY <1>6, <3>1 DEF Blamed, Bad
      <3>2. Len(up[c]) \in Nat
        BY <1>4
      <3>3. CASE k = Len(up[c]) + 1
        BY <1>2, <1>6, <3>3
      <3>4. CASE k # Len(up[c]) + 1
        <4>1. k \in 1 .. Len(up[c]) /\ k \in DOMAIN up[c]
          BY <1>4, <1>6, <3>2, <3>4
        <4> QED
          BY <1>3, <1>6, <4>1 DEF IInv, Blamed
      <3> QED
        BY <3>3, <3>4
    <2> QED
      BY <1>7, <2>1, <2>2
  <1>15. ASSUME part # "partb", server' # "exited"
         PROVE  EchoClient(c)'
    <2>1. EchoClient(c) /\ Fresh(c)
      BY <1>3, <1>15 DEF IInv, EchoClients
    <2>2. Len(up[c]) \in Nat /\ Len(down[c]) \in Nat /\ Len(up[c]) + Len(down[c]) = 0
      BY <1>3, <1>4, <2>1 DEF EchoClient
    <2>3. Len(up[c]) = 0 /\ Len(down[c]) = 0 /\ down[c] = <<>>
      BY <1>4, <2>2
    <2>4. /\ up'[c] = sent /\ client'[c] = next /\ next \in {"ended", "waiting"}
      BY <1>2, <1>3, <1>4, <1>7, <1>15
    <2>5. Len(sent) = 1 /\ DOMAIN sent = 1 .. 1 /\ sent[1] = line /\ sent \in Seq(UpPDU)
      BY <1>6, <2>3
    <2>6. sent = <<line>>
      BY <2>5
    <2>7. ended'[c] = IF next = "ended" THEN "fin" ELSE "open"
      BY <1>3, <1>9, <2>1, <2>3, <2>4 DEF Fresh
    <2>8. CASE next = "ended"
      BY <1>2, <1>3, <2>1, <2>4, <2>6, <2>7, <2>8 DEF EchoClient, InSeq
    <2>9. CASE next = "waiting"
      <3>1. line # Exit
        BY <1>2, <2>9
      <3>2. \A i \in DOMAIN sent : sent[i] # Exit
        BY <2>5, <3>1
      <3> QED
        BY <1>3, <2>1, <2>3, <2>4, <2>5, <2>7, <2>9, <3>2 DEF EchoClient, InSeq
    <2> QED
      BY <2>4, <2>8, <2>9
  <1>16. EchoClients'
    <2> SUFFICES ASSUME part # "partb", server' # "exited", NEW d \in Clients
                 PROVE  EchoClient(d)'
      BY DEF EchoClients
    <2>1. EchoClient(d)
      BY <1>3 DEF IInv, EchoClients
    <2> QED
      BY <1>12, <1>15, <2>1
  <1> QED
    BY <1>10, <1>11, <1>12, <1>13, <1>14, <1>16 DEF IInv

\* A client takes the answer, or what it takes for one.
LEMMA GetEchoKeeps ==
    ASSUME IInv, UNCHANGED part, NEW c \in Clients, AnyGetEcho(c)
    PROVE  IInv'
  <1>1. /\ part # "partb" /\ client[c] = "waiting"
        /\ client' \in {[client EXCEPT ![c] = next] : next \in {"reading", "ended"}}
        /\ \/ down[c] # <<>> /\ down' = [down EXCEPT ![c] = Tail(@)]
           \/ server = "exited" /\ UNCHANGED down
        /\ ended' = [ended EXCEPT ![c] = IF client'[c] = "ended" THEN "fin" ELSE @]
        /\ UNCHANGED <<server, serving, fds, buf, queue, up, broken, guilty>>
    BY DEF AnyGetEcho, servervars
  <1>2. /\ client \in [Clients -> {"start", "reading", "waiting", "ended"}]
        /\ down \in [Clients -> Seq(PDU)] /\ down[c] \in Seq(PDU)
        /\ ended \in [Clients -> {"open", "fin", "reset"}]
        /\ up[c] \in Seq(UpPDU) /\ Fresh(c)
    BY DEF IInv, TypeInv
  <1>3. /\ client' \in [Clients -> {"start", "reading", "waiting", "ended"}]
        /\ client'[c] \in {"reading", "ended"}
        /\ \A d \in Clients : d # c => client'[d] = client[d]
    BY <1>1, <1>2
  <1>4. /\ ended' \in [Clients -> {"open", "fin", "reset"}]
        /\ ended'[c] = IF client'[c] = "ended" THEN "fin" ELSE "open"
        /\ \A d \in Clients : d # c => ended'[d] = ended[d]
    BY <1>1, <1>2, <1>3 DEF Fresh
  <1>5. down[c] # <<>> => Tail(down[c]) \in Seq(PDU) /\ Len(Tail(down[c])) = Len(down[c]) - 1
    <2> HIDE DEF PDU
    <2> QED
      BY <1>2, HeadTailProperties
  <1>6. TypeInv'
    <2>1. down' \in [Clients -> Seq(PDU)]
      <3> HIDE DEF PDU
      <3> QED
        BY <1>1, <1>2, <1>5
    <2> QED
      BY <1>1, <1>3, <1>4, <2>1 DEF IInv, TypeInv
  <1>7. OneConnection' /\ OneAtATime'
    BY <1>1, <1>3 DEF IInv, OneConnection, OneAtATime, Injective, InSeq
  <1>8. ASSUME NEW d \in Clients, d # c
        PROVE  Fresh(d)' /\ Blamed(d)' /\ (EchoClient(d) => EchoClient(d)')
    <2>1. down'[d] = down[d]
      BY <1>1, <1>2, <1>8
    <2>2. InSeq(d, serving') \/ InSeq(d, queue') => InSeq(d, serving) \/ InSeq(d, queue)
      BY <1>1
    <2> QED
      BY <1>1, <1>3, <1>4, <1>8, <2>1, <2>2, Bystander DEF IInv
  <1>9. Fresh(c)' /\ Blamed(c)'
    BY <1>1, <1>2, <1>3, <1>4 DEF IInv, Fresh, Blamed, Bad
  <1>10. ASSUME server' # "exited", EchoClient(c)
         PROVE  EchoClient(c)'
    <2>1. /\ down[c] # <<>> /\ down' = [down EXCEPT ![c] = Tail(@)]
          /\ Len(up[c]) + Len(down[c]) = 1
      BY <1>1, <1>10 DEF EchoClient
    <2>2. Len(down[c]) \in Nat /\ Len(up[c]) \in Nat /\ Len(down[c]) # 0
      BY <1>2, <2>1
    <2>3. Len(up[c]) = 0 /\ up[c] = <<>> /\ Len(down[c]) = 1
      <3>1. \A a, b \in Nat : b # 0 /\ a + b = 1 => a = 0 /\ b = 1
        OBVIOUS
      <3>2. Len(up[c]) = 0 /\ Len(down[c]) = 1
        BY <2>1, <2>2, <3>1
      <3> QED
        BY <1>2, <3>2
    <2>4. Len(down'[c]) = 0
      BY <1>2, <1>5, <2>1, <2>3
    <2>5. up'[c] = <<>> /\ Len(up'[c]) = 0 /\ broken'[c] = broken[c] /\ guilty' = guilty
          /\ InSeq(c, serving') = InSeq(c, serving) /\ InSeq(c, queue') = InSeq(c, queue)
      BY <1>1, <2>3
    <2> QED
      BY <1>3, <1>4, <1>10, <2>4, <2>5 DEF EchoClient
  <1>11. EchoClients'
    <2> SUFFICES ASSUME part # "partb", server' # "exited", NEW d \in Clients
                 PROVE  EchoClient(d)'
      BY DEF EchoClients
    <2>1. EchoClient(d)
      BY <1>1 DEF IInv, EchoClients
    <2> QED
      BY <1>8, <1>10, <2>1
  <1> QED
    BY <1>6, <1>7, <1>8, <1>9, <1>11 DEF IInv

LEMMA KillKeeps ==
    ASSUME IInv, UNCHANGED part, NEW c \in Clients, Kill(c)
    PROVE  IInv'
  <1>1. /\ client[c] \in {"reading", "waiting"}
        /\ client' = [client EXCEPT ![c] = "ended"]
        /\ ended' = [ended EXCEPT ![c] = Closed(c)]
        /\ guilty' = (guilty \/ client[c] = "waiting")
        /\ UNCHANGED <<server, serving, fds, buf, queue, up, down, broken>>
    BY DEF Kill, servervars
  <1>2. /\ client \in [Clients -> {"start", "reading", "waiting", "ended"}]
        /\ ended \in [Clients -> {"open", "fin", "reset"}]
        /\ up[c] \in Seq(UpPDU) /\ down[c] \in Seq(PDU) /\ guilty \in BOOLEAN
    BY DEF IInv, TypeInv
  <1>3. /\ client'[c] = "ended" /\ guilty' \in BOOLEAN /\ (guilty => guilty')
        /\ Closed(c) \in {"fin", "reset"} /\ ended'[c] = Closed(c)
        /\ \A d \in Clients : d # c => client'[d] = client[d] /\ ended'[d] = ended[d]
    BY <1>1, <1>2 DEF Closed
  <1>4. TypeInv'
    BY <1>1, <1>2, <1>3 DEF IInv, TypeInv
  <1>5. OneConnection' /\ OneAtATime'
    BY <1>1, <1>3 DEF IInv, OneConnection, OneAtATime, Injective, InSeq
  <1>6. ASSUME NEW d \in Clients, d # c
        PROVE  Fresh(d)' /\ Blamed(d)' /\ (EchoClient(d) => EchoClient(d)')
    <2>1. InSeq(d, serving') \/ InSeq(d, queue') => InSeq(d, serving) \/ InSeq(d, queue)
      BY <1>1
    <2> QED
      BY <1>1, <1>3, <1>6, <2>1, Bystander DEF IInv
  <1>7. Fresh(c)' /\ Blamed(c)'
    BY <1>1, <1>3 DEF IInv, Fresh, Blamed, Bad
  <1>8. ASSUME EchoClient(c)
        PROVE  EchoClient(c)'
    <2>1. client[c] = "reading" => Len(up[c]) = 0 /\ Len(down[c]) = 0
      <3>1. Len(up[c]) \in Nat /\ Len(down[c]) \in Nat
        BY <1>2
      <3>2. client[c] = "reading" => Len(up[c]) + Len(down[c]) = 0
        BY <1>8 DEF EchoClient
      <3>3. \A a, b \in Nat : a + b = 0 => a = 0 /\ b = 0
        OBVIOUS
      <3> QED
        BY <3>1, <3>2, <3>3
    <2>2. client[c] = "reading" => up[c] = <<>> /\ down[c] = <<>>
      BY <1>2, <2>1
    <2>3. ~guilty' => up'[c] = <<>> /\ ended'[c] = "fin"
      BY <1>1, <1>3, <2>2 DEF Closed
    <2>4. broken'[c] = broken[c]
          /\ InSeq(c, serving') = InSeq(c, serving) /\ InSeq(c, queue') = InSeq(c, queue)
      BY <1>1
    <2> QED
      BY <1>3, <1>8, <2>3, <2>4 DEF EchoClient
  <1>9. EchoClients'
    BY <1>1, <1>6, <1>8 DEF IInv, EchoClients
  <1> QED
    BY <1>4, <1>5, <1>6, <1>7, <1>9 DEF IInv

LEMMA RestartKeeps ==
    ASSUME IInv, UNCHANGED part, NEW c \in Clients, Restart(c)
    PROVE  IInv'
  <1>1. /\ ~InSeq(c, queue) /\ ~InSeq(c, serving)
        /\ client' = [client EXCEPT ![c] = "start"]
        /\ up' = [up EXCEPT ![c] = <<>>] /\ down' = [down EXCEPT ![c] = <<>>]
        /\ ended' = [ended EXCEPT ![c] = "open"]
        /\ broken' = [broken EXCEPT ![c] = FALSE]
        /\ UNCHANGED <<server, serving, fds, buf, queue, guilty>>
    BY DEF Restart, servervars
  <1>2. /\ client \in [Clients -> {"start", "reading", "waiting", "ended"}]
        /\ ended \in [Clients -> {"open", "fin", "reset"}]
        /\ up \in [Clients -> Seq(UpPDU)] /\ down \in [Clients -> Seq(PDU)]
        /\ broken \in [Clients -> BOOLEAN]
    BY DEF IInv, TypeInv
  <1>3. /\ <<>> \in Seq(UpPDU) /\ <<>> \in Seq(PDU) /\ Len(<<>>) = 0 /\ 0 <= QueueLen
    BY EmptySeq, TcpNetAssumption
  <1>4. /\ client'[c] = "start" /\ up'[c] = <<>> /\ down'[c] = <<>>
        /\ ended'[c] = "open" /\ ~broken'[c]
        /\ \A d \in Clients : d # c =>
              /\ client'[d] = client[d] /\ up'[d] = up[d] /\ down'[d] = down[d]
              /\ ended'[d] = ended[d] /\ broken'[d] = broken[d]
    BY <1>1, <1>2
  <1>5. TypeInv'
    <2>1. up' \in [Clients -> Seq(UpPDU)] /\ down' \in [Clients -> Seq(PDU)]
      <3> HIDE DEF UpPDU, PDU
      <3> QED
        BY <1>1, <1>2, <1>3
    <2>2. \A d \in Clients : Len(up'[d]) <= QueueLen
      BY <1>3, <1>4 DEF IInv, TypeInv
    <2> QED
      BY <1>1, <1>2, <2>1, <2>2 DEF IInv, TypeInv
  <1>6. OneConnection' /\ OneAtATime'
    BY <1>1, <1>4 DEF IInv, OneConnection, OneAtATime, Injective, InSeq
  <1>7. ASSUME NEW d \in Clients, d # c
        PROVE  Fresh(d)' /\ Blamed(d)' /\ (EchoClient(d) => EchoClient(d)')
    <2>1. InSeq(d, serving') \/ InSeq(d, queue') => InSeq(d, serving) \/ InSeq(d, queue)
      BY <1>1
    <2> QED
      BY <1>1, <1>4, <1>7, <2>1, Bystander DEF IInv
  <1>8. Fresh(c)' /\ Blamed(c)' /\ EchoClient(c)'
    BY <1>3, <1>4 DEF Fresh, Blamed, EchoClient
  <1>9. EchoClients'
    BY <1>1, <1>7, <1>8 DEF IInv, EchoClients
  <1> QED
    BY <1>5, <1>6, <1>7, <1>8, <1>9 DEF IInv

LEMMA NextKeeps == IInv /\ [NextPart]_lab3vars => IInv'
  <1> SUFFICES ASSUME IInv, [NextPart]_lab3vars
               PROVE  IInv'
    OBVIOUS
  <1>1. CASE NextPart
    <2>1. AnyNext
      BY <1>1, EachPart DEF IInv
    <2>2. UNCHANGED part
      BY <2>1 DEF AnyNext
    <2>3. ASSUME NEW c \in Clients, AnyServer(c)
          PROVE  IInv'
      BY <2>2, <2>3, ReceiveKeeps, GoneKeeps DEF AnyServer
    <2>4. ASSUME NEW c \in Clients, AnyClient(c)
          PROVE  IInv'
      BY <2>2, <2>4, StartClientKeeps, SendLineKeeps, GetEchoKeeps, KillKeeps, RestartKeeps
         DEF AnyClient
    <2> QED
      BY <2>1, <2>2, <2>3, <2>4, StartServerKeeps, AcceptKeeps, HupKeeps DEF AnyNext
  <1>2. CASE UNCHANGED lab3vars
    BY <1>2 DEF lab3vars, vars, servervars, netvars, IInv, TypeInv, OneConnection, OneAtATime,
                Injective, InSeq, Fresh, Blamed, Bad, EchoClients, EchoClient
  <1> QED
    BY <1>1, <1>2

LEMMA Invariance == SpecPart => []IInv
  <1> QED
    BY InitIInv, NextKeeps, PTL DEF SpecPart
-----------------------------------------------------------------------------
\* Whichever of the three pairs runs, with any number of clients that come, go, are
\* killed and started again, every variable keeps its type: no server uses more
\* descriptors than it has, and no client sends more than the socket buffers take.
THEOREM Types == SpecPart => []TypeOK
  <1>1. IInv => TypeOK
    <2> SUFFICES ASSUME IInv
                 PROVE  TypeOK
      OBVIOUS
    <2>1. \A c \in Clients : up[c] \in Seq(UpPDU) /\ down[c] \in Seq(PDU)
      BY DEF IInv, TypeInv
    <2>2. UpPDU \subseteq PDU
      BY DEF UpPDU, PDU
    <2>3. \A c \in Clients : \A s \in {up[c], down[c]} : \A i \in DOMAIN s : s[i] \in PDU
      <3> HIDE DEF PDU, UpPDU
      <3> QED
        BY <2>1, <2>2
    <2> QED
      BY <2>3 DEF IInv, TypeInv, TypeOK
  <1> QED
    BY <1>1, Invariance, PTL

\* The servers of Lab3_Part1 and partb close every socket they take: however many clients
\* have come and gone, they use no descriptor but that of the one client they serve.
THEOREM SocketsClosed == SpecPart => []OneAtATime
  <1>1. IInv => OneAtATime
    BY DEF IInv
  <1> QED
    BY <1>1, Invariance, PTL

\* sendToServer's loop and the server's keep in step for any number of clients: an echo
\* client that waits has one PDU under way and one that reads has none
\* (Lab3_Part1/myClient.c, Lab3_Part2/myClient.c).
THEOREM InStep == SpecPart => []Lockstep
  <1>1. IInv => Lockstep
    BY DEF IInv, EchoClients, EchoClient, Lockstep
  <1> QED
    BY <1>1, Invariance, PTL

\* A server that runs exits only because a client sent a line whose length its framing
\* cannot take or was killed while it waited, or its standard input was hung up, or,
\* Lab3_Part2 only, because it has used all its descriptors: no order of connections,
\* lines, ends and resets does it otherwise.
THEOREM Outlives == SpecPart => ServerOutlives
  <1>1. ASSUME IInv, [NextPart]_lab3vars, server = "running", server' = "exited"
        PROVE  guilty' \/ (part = "Lab3_Part2" /\ fds = FdLimit)
    <2>1. AnyNext
      BY <1>1, EachPart DEF IInv, lab3vars, vars, servervars
    <2>2. CASE AnyAccept
      <3>1. fds = FdLimit /\ FdLimit # 0 /\ (part # "Lab3_Part2" => serving = <<>>)
        BY <1>1, <2>2, TcpNetAssumption DEF AnyAccept, tcpAccept
      <3>2. part # "Lab3_Part2" => fds = 0
        BY <1>1, <3>1 DEF IInv, OneAtATime
      <3>3. part = "Lab3_Part2"
        BY <3>1, <3>2
      <3> QED
        BY <3>1, <3>3
    <2>3. ASSUME NEW c \in Clients, AnyServer(c), ~guilty, guilty' = guilty
          PROVE  FALSE
      <3>1. InSeq(c, serving) /\ Blamed(c) /\ (part # "partb" => EchoClient(c))
        BY <1>1, <2>3 DEF AnyServer, AnyReceive, AnyGone, AnyReset, IInv, EchoClients
      <3>2. CASE AnyReceive(c)
        <4>1. up[c] # <<>> /\ Head(up[c]) = up[c][1] /\ 1 \in DOMAIN up[c]
          <5>1. up[c] # <<>> /\ up[c] \in Seq(UpPDU)
            BY <1>1, <3>2 DEF AnyReceive, IInv, TypeInv
          <5> HIDE DEF UpPDU
          <5> QED
            BY <5>1
        <4>2. ~Bad(Head(up[c]).len)
          BY <2>3, <3>1, <4>1 DEF Blamed
        <4>3. part # "partb" /\ (ended[c] = "reset" \/ broken[c])
          BY <1>1, <3>2, <4>2 DEF AnyReceive, ServerSends
        <4> QED
          BY <2>3, <3>1, <4>3 DEF EchoClient
      <3>3. CASE AnyGone(c)
        BY <1>1, <2>3, <3>1, <3>3 DEF AnyGone, EchoClient
      <3>4. CASE AnyReset(c)
        BY <1>1, <2>3, <3>1, <3>4 DEF AnyReset, EchoClient
      <3> QED
        BY <2>3, <3>2, <3>3, <3>4 DEF AnyServer
    <2>4. ASSUME NEW c \in Clients, AnyServer(c)
          PROVE  guilty'
      <3>1. guilty' = guilty /\ guilty \in BOOLEAN
        BY <1>1, <2>4 DEF AnyServer, AnyReceive, AnyGone, AnyReset, IInv, TypeInv
      <3> QED
        BY <2>3, <2>4, <3>1
    <2>5. ASSUME NEW c \in Clients, AnyClient(c)
          PROVE  FALSE
      BY <1>1, <2>5 DEF AnyClient, AnyStartClient, AnySendLine, AnyGetEcho, Kill, Restart,
                        servervars
    <2> QED
      BY <1>1, <2>1, <2>2, <2>4, <2>5 DEF AnyNext, AnyStartServer, AnyHup
  <1>2. IInv /\ [NextPart]_lab3vars
           => [server = "running" /\ server' = "exited" =>
                  guilty' \/ (part = "Lab3_Part2" /\ fds = FdLimit)]_lab3vars
    BY <1>1
  <1> QED
    BY <1>2, Invariance, PTL DEF SpecPart, ServerOutlives
===============================================================================
