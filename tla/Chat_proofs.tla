------------------------------ MODULE Chat_proofs ------------------------------
(***************************************************************************)
(* Proofs about Chat for any number of clients, handles and descriptors.   *)
(***************************************************************************)
EXTENDS Chat, SequenceTheorems, TLAPS

Nodes == [handle : {Sent(h) : h \in Handles}, socketNum : Nat]

Places == {"start", "connected", "waiting", "chatting", "spinning", "ended", "killed"}

\* PDUs in flight to the server: a message fits the server's buffer, since the handle of
\* its sender and what follows it are counted in one byte each: 3 + 255 + 255.
MaxMessage == 513
Pdus == [flag : {INITIAL_PACKET}, handle : Handles, size : Nat]
           \cup [flag : {MESSAGE_PACKET}, line : Lines, text : Nat, size : 0 .. MaxMessage]
Flags == {CONFIRM_GOOD_HANDLE, ERROR_INITIAL_PACKET}

\* Every accepted client has a descriptor of its own, which stays open.
SocketsInv ==
    /\ sock \in [Clients -> Nat]
    /\ 0 .. serverSocket \subseteq fds
    /\ \A c \in Clients : sock[c] # 0 => sock[c] \in fds /\ sock[c] > serverSocket
    /\ \A c, d \in Clients : sock[c] = sock[d] /\ sock[c] # 0 => c = d

\* A client waits to be accepted once, after it has started.
PendingInv ==
    /\ client \in [Clients -> Places]
    /\ pending \in Seq(Clients)
    /\ \A i, j \in DOMAIN pending : i # j => pending[i] # pending[j]
    /\ \A i \in DOMAIN pending : sock[pending[i]] = 0
    /\ \A i \in DOMAIN pending : client[pending[i]] # "start"
    /\ \A c \in Clients : client[c] = "start" => sock[c] = 0

\* A node has the socket of some client, and no other node's place.
ListInv ==
    /\ handle \in [Clients -> Handles]
    /\ toServer \in [Clients -> Seq(Pdus)]
    /\ list \in Seq(Nodes)
    /\ \A i \in DOMAIN list :
          list[i].socketNum # 0 /\ \E c \in Clients : sock[c] = list[i].socketNum
    /\ \A i, j \in DOMAIN list :
          i # j => Slot(list[i].handle.len) # Slot(list[j].handle.len)

PollInv ==
    /\ serverSocket \in pollSet /\ pollSet \subseteq Nat \ {0}
    /\ maxFileDescriptor \in Nat /\ currentPollSetSize \in Nat
    /\ PollSetInBounds

IInv == SocketsInv /\ PendingInv /\ ListInv /\ PollInv
-----------------------------------------------------------------------------
\* A client moves on, and was not at the start.
LEMMA ClientMoves ==
    ASSUME PendingInv, UNCHANGED <<pending, sock>>, NEW c \in Clients,
           NEW w \in Places, Goto(c, w), client[c] # "start", w # "start"
    PROVE  PendingInv'
  <1>1. client' = [client EXCEPT ![c] = w] /\ client \in [Clients -> Places]
    BY DEF Goto, PendingInv, Places
  <1>2. client' \in [Clients -> Places]
    BY <1>1
  <1>3. \A d \in Clients : client'[d] = "start" => client[d] = "start"
    BY <1>1
  <1>4. \A d \in Clients : client[d] # "start" => client'[d] # "start"
    BY <1>1
  <1>5. \A i \in DOMAIN pending : pending[i] \in Clients
    BY DEF PendingInv
  <1> QED
    BY <1>2, <1>3, <1>4, <1>5 DEF PendingInv

\* A PDU is put in flight, or none.
LEMMA ClientSends ==
    ASSUME ListInv, UNCHANGED <<sock, list, handle>>, NEW c \in Clients,
           NEW p \in Pdus, NEW next, sendPDU(c, p, next)
    PROVE  ListInv'
  <1>1. toServer \in [Clients -> Seq(Pdus)]
    BY DEF ListInv
  <1>2. toServer' \in [Clients -> Seq(Pdus)]
    <2>1. CASE toServer' = [toServer EXCEPT ![c] = Append(@, p)]
      <3>1. Append(toServer[c], p) \in Seq(Pdus)
        BY <1>1
      <3> HIDE DEF Pdus
      <3> QED
        BY <1>1, <2>1, <3>1
    <2>2. CASE toServer' = toServer
      BY <1>1, <2>2
    <2> QED
      BY <2>1, <2>2 DEF sendPDU
  <1> QED
    BY <1>2 DEF ListInv

LEMMA MessageSize ==
    ASSUME NEW i \in Nat, NEW j \in Nat, NEW k \in Nat, i <= 255, j + k <= 255
    PROVE  3 + i + j + k \in 0 .. MaxMessage
  BY DEF MaxMessage

\* What message_packets sends is no larger than that, however long the line.
LEMMA MessageIsPdu ==
    ASSUME handle \in [Clients -> Handles], NEW c \in Clients, NEW line \in Lines,
           NEW text, text = handleBufLen(line) - line.names, text >= 0
    PROVE  [flag |-> MESSAGE_PACKET, line |-> line, text |-> text,
            size |-> 3 + (handle[c].len % Byte) + line.names + text] \in Pdus
  <1> DEFINE size == 3 + (handle[c].len % Byte) + line.names + text
             p == [flag |-> MESSAGE_PACKET, line |-> line, text |-> text, size |-> size]
  <1>1. handle[c].len \in Nat /\ line.names \in Nat /\ line.text \in Nat
    BY ChatAssumption
  <1>2. text \in Nat /\ line.names + text <= 255
    BY <1>1 DEF handleBufLen, Byte
  <1>3. PICK n \in 0 .. 255 : n = handle[c].len % Byte
    BY <1>1 DEF Byte
  <1>4. size \in 0 .. MaxMessage
    <2>1. PICK j \in Nat, k \in Nat : j = line.names /\ k = text
      BY <1>1, <1>2
    <2>2. j + k <= 255
      BY <1>2, <2>1
    <2>3. size = 3 + n + j + k
      BY <1>3, <2>1
    <2> HIDE DEF size
    <2>4. n \in Nat /\ n <= 255
      BY <1>3
    <2> QED
      BY <2>2, <2>3, <2>4, MessageSize
  <1> HIDE DEF size
  <1>5. p \in [flag : {MESSAGE_PACKET}, line : Lines, text : Nat, size : 0 .. MaxMessage]
    BY <1>2, <1>4
  <1> HIDE DEF p
  <1>6. p \in Pdus
    BY <1>5 DEF Pdus
  <1> QED
    BY <1>6 DEF p, size

LEMMA PollUnchanged ==
    ASSUME PollInv, UNCHANGED pollvars
    PROVE  PollInv'
  BY DEF PollInv, pollvars, PollSetInBounds

LEMMA SocketsUnchanged ==
    ASSUME SocketsInv, UNCHANGED <<sock, fds>>
    PROVE  SocketsInv'
  BY DEF SocketsInv

\* A client's step leaves the server alone and keeps the rest.
LEMMA ClientKeeps ==
    ASSUME IInv, NEW c \in Clients, ClientStep(c)
    PROVE  IInv'
  <1> USE DEF IInv
  <1>1. UNCHANGED <<sock, fds, list, handle, pollvars>>
    BY DEF ClientStep, Connect, create_packet_one, GetFlag, message_packets,
           LeaveChat, StdinEnds, Kill, sendPDU, Goto, servervars, tcpvars
  <1>2. SocketsInv' /\ PollInv'
    BY <1>1, PollUnchanged, SocketsUnchanged
  <1>3. UNCHANGED toServer => ListInv'
    BY <1>1 DEF ListInv
  <1>4. CASE Connect(c)
    <2>1. client[c] = "start" /\ UNCHANGED toServer
      BY <1>4 DEF Connect
    <2>2. CASE pending' = Append(pending, c) /\ Goto(c, "connected")
      <3>1. client' = [client EXCEPT ![c] = "connected"]
            /\ client \in [Clients -> Places] /\ pending \in Seq(Clients)
        BY <2>2 DEF Goto, PendingInv, Places
      <3>2. client' \in [Clients -> Places] /\ pending' \in Seq(Clients)
        BY <2>2, <3>1 DEF Places
      <3>3. Len(pending') = Len(pending) + 1 /\ Len(pending) \in Nat
            /\ DOMAIN pending = 1 .. Len(pending)
            /\ DOMAIN pending' = 1 .. Len(pending')
        BY <2>2, <3>1
      <3>4. pending'[Len(pending) + 1] = c
            /\ \A i \in DOMAIN pending : pending'[i] = pending[i] /\ pending[i] \in Clients
        BY <2>2, <3>1
      <3>5. \A i \in DOMAIN pending : pending[i] # c
        BY <2>1 DEF PendingInv
      <3>6. \A i, j \in DOMAIN pending' : i # j => pending'[i] # pending'[j]
        BY <3>3, <3>4, <3>5 DEF PendingInv
      <3>7. \A i \in DOMAIN pending' : sock'[pending'[i]] = 0
        BY <1>1, <2>1, <3>3, <3>4 DEF PendingInv
      <3>8. \A i \in DOMAIN pending' : client'[pending'[i]] # "start"
        BY <3>1, <3>3, <3>4 DEF PendingInv
      <3>9. \A d \in Clients : client'[d] = "start" => sock'[d] = 0
        BY <1>1, <3>1 DEF PendingInv
      <3> QED
        BY <1>2, <1>3, <2>1, <3>2, <3>6, <3>7, <3>8, <3>9 DEF PendingInv
    <2>3. CASE Goto(c, "ended") /\ UNCHANGED pending
      <3>1. client' = [client EXCEPT ![c] = "ended"]
            /\ client \in [Clients -> Places]
        BY <2>3 DEF Goto, PendingInv, Places
      <3>2. client' \in [Clients -> Places]
            /\ \A d \in Clients : client'[d] = "start" => client[d] = "start"
        BY <3>1 DEF Places
      <3>3. \A i \in DOMAIN pending : pending[i] \in Clients
        BY DEF PendingInv
      <3>4. \A i \in DOMAIN pending : client'[pending[i]] # "start"
        BY <3>1, <3>3 DEF PendingInv
      <3> QED
        BY <1>1, <1>2, <1>3, <2>1, <2>3, <3>2, <3>4 DEF PendingInv
    <2> QED
      BY <1>4, <2>2, <2>3 DEF Connect
  <1>5. CASE create_packet_one(c)
    <2> DEFINE p == [flag |-> INITIAL_PACKET, handle |-> handle[c],
                     size |-> handle[c].len + 2]
    <2>1. p \in Pdus
      <3>1. handle[c] \in Handles
        BY DEF ListInv
      <3>2. handle[c].len \in Nat
        BY <3>1, ChatAssumption
      <3> QED
        BY <3>1, <3>2 DEF Pdus
    <2>2. sendPDU(c, p, "waiting") /\ UNCHANGED pending /\ client[c] = "connected"
      BY <1>5 DEF create_packet_one
    <2>3. ListInv'
      <3> HIDE DEF p
      <3> QED
        BY <1>1, <2>1, <2>2, ClientSends
    <2>4. Goto(c, "waiting") \/ Goto(c, "killed")
      BY <2>2 DEF sendPDU
    <2>5. PendingInv'
      BY <1>1, <2>2, <2>4, ClientMoves DEF Places
    <2> QED
      BY <1>2, <2>3, <2>5
  <1>6. CASE GetFlag(c)
    <2>1. Goto(c, "chatting") \/ Goto(c, "ended")
      BY <1>6 DEF GetFlag
    <2>2. client[c] = "waiting" /\ UNCHANGED <<pending, toServer>>
      BY <1>6 DEF GetFlag
    <2>3. PendingInv'
      BY <1>1, <2>1, <2>2, ClientMoves DEF Places
    <2> QED
      BY <1>2, <1>3, <2>2, <2>3
  <1>7. CASE message_packets(c)
    <2>1. client[c] = "chatting" /\ UNCHANGED pending
      BY <1>7 DEF message_packets
    <2>2. PICK line \in Lines :
             LET text == handleBufLen(line) - line.names IN
             \/ /\ text >= 0
                /\ sendPDU(c, [flag |-> MESSAGE_PACKET, line |-> line, text |-> text,
                               size |-> 3 + (handle[c].len % Byte) + line.names + text],
                           "chatting")
             \/ text < 0 /\ Goto(c, "killed") /\ UNCHANGED toServer
      BY <1>7 DEF message_packets
    <2> DEFINE text == handleBufLen(line) - line.names
               p == [flag |-> MESSAGE_PACKET, line |-> line, text |-> text,
                     size |-> 3 + (handle[c].len % Byte) + line.names + text]
    <2>3. CASE text >= 0 /\ sendPDU(c, p, "chatting")
      <3>1. p \in Pdus
        BY <2>3, MessageIsPdu DEF ListInv
      <3>2. ListInv'
        <4> HIDE DEF p
        <4> QED
          BY <1>1, <2>3, <3>1, ClientSends
      <3>3. Goto(c, "chatting") \/ Goto(c, "killed")
        BY <2>3 DEF sendPDU
      <3> QED
        BY <1>1, <1>2, <2>1, <3>2, <3>3, ClientMoves DEF Places
    <2>4. CASE Goto(c, "killed") /\ UNCHANGED toServer
      BY <1>1, <1>2, <1>3, <2>1, <2>4, ClientMoves DEF Places
    <2> QED
      BY <2>2, <2>3, <2>4
  <1>8. CASE LeaveChat(c) \/ StdinEnds(c) \/ Kill(c)
    <2>1. /\ client[c] # "start" /\ UNCHANGED <<pending, toServer>>
          /\ Goto(c, "ended") \/ Goto(c, "spinning") \/ Goto(c, "killed")
      BY <1>8 DEF LeaveChat, StdinEnds, Kill, tcpvars
    <2>2. PendingInv'
      BY <1>1, <2>1, ClientMoves DEF Places
    <2> QED
      BY <1>2, <1>3, <2>1, <2>2
  <1> QED
    BY <1>4, <1>5, <1>6, <1>7, <1>8 DEF ClientStep

\* accept serves the client at the head of the queue.
LEMMA TailKeeps ==
    ASSUME PendingInv, pending # <<>>, pending' = Tail(pending), UNCHANGED client,
           \A d \in Clients : sock'[d] # sock[d] => d = Head(pending)
    PROVE  PendingInv' /\ Head(pending) \in Clients /\ sock[Head(pending)] = 0
  <1>1. pending \in Seq(Clients) /\ Len(pending) \in Nat /\ Len(pending) > 0
        /\ DOMAIN pending = 1 .. Len(pending) /\ Head(pending) = pending[1]
    BY DEF PendingInv
  <1>2. pending' \in Seq(Clients) /\ DOMAIN pending' = 1 .. Len(pending) - 1
    BY <1>1
  <1>3. \A i \in DOMAIN pending' : pending'[i] = pending[i + 1] /\ i + 1 \in DOMAIN pending
    BY <1>1, <1>2
  <1>4. \A i, j \in DOMAIN pending' : i # j => pending'[i] # pending'[j]
    <2> SUFFICES ASSUME NEW i \in DOMAIN pending', NEW j \in DOMAIN pending', i # j
                 PROVE  pending'[i] # pending'[j]
      OBVIOUS
    <2>1. i + 1 \in DOMAIN pending /\ j + 1 \in DOMAIN pending /\ i + 1 # j + 1
      BY <1>2, <1>3
    <2>2. pending[i + 1] # pending[j + 1]
      BY <2>1 DEF PendingInv
    <2> QED
      BY <1>3, <2>2
  <1>5. ASSUME NEW i \in DOMAIN pending'
        PROVE  /\ sock'[pending'[i]] = 0
               /\ client'[pending'[i]] # "start"
    <2>1. 1 \in DOMAIN pending /\ i + 1 \in DOMAIN pending /\ i + 1 # 1
      BY <1>1, <1>2, <1>3
    <2>2. pending[i + 1] # pending[1] /\ pending[i + 1] \in Clients
      BY <1>1, <2>1 DEF PendingInv
    <2>3. sock[pending[i + 1]] = 0 /\ client[pending[i + 1]] # "start"
      BY <2>1 DEF PendingInv
    <2> QED
      BY <1>1, <1>3, <2>2, <2>3
  <1>6. Head(pending) \in Clients /\ sock[Head(pending)] = 0
        /\ client[Head(pending)] # "start"
    <2>1. 1 \in DOMAIN pending
      BY <1>1
    <2> QED
      BY <1>1, <2>1 DEF PendingInv
  <1>7. \A d \in Clients : client'[d] = "start" => sock'[d] = 0
    BY <1>6 DEF PendingInv
  <1> QED
    BY <1>2, <1>4, <1>5, <1>6, <1>7 DEF PendingInv

\* pollCall returns the listening socket only when a client waits.
LEMMA SomebodyWaits ==
    ASSUME IInv, revents(serverSocket)
    PROVE  pending # <<>>
  BY DEF IInv, revents, SocketsInv, PollInv, serverSocket

LEMMA AcceptKeeps ==
    ASSUME IInv, addNewClient
    PROVE  IInv'
  <1> USE DEF IInv
  <1>1. /\ pending # <<>> /\ pending' = Tail(pending)
        /\ UNCHANGED <<list, toServer, clientvars>>
    BY SomebodyWaits DEF addNewClient, Turn, pollCall
  <1>2. UNCHANGED <<client, handle>>
    BY <1>1 DEF clientvars
  <1>3. CASE UNCHANGED <<fds, sock, pollvars>>
    <2>1. PendingInv'
      BY <1>1, <1>2, <1>3, TailKeeps
    <2>2. ListInv'
      BY <1>1, <1>2, <1>3 DEF ListInv
    <2> QED
      BY <1>3, <2>1, <2>2, PollUnchanged, SocketsUnchanged
  <1>4. ASSUME NEW fd \in 0 .. rlimit - 1, fd \notin fds, fds' = fds \cup {fd},
               sock' = [sock EXCEPT ![Head(pending)] = fd], addToPollSet(fd)
        PROVE  IInv'
    <2> DEFINE c == Head(pending)
    <2>1. sock \in [Clients -> Nat] /\ fd \in Nat /\ fd > serverSocket
      BY <1>4, ChatAssumption DEF SocketsInv, serverSocket
    <2>2. \A d \in Clients : sock'[d] # sock[d] => d = c
      BY <1>4, <2>1
    <2>3. PendingInv' /\ c \in Clients /\ sock[c] = 0
      BY <1>1, <1>2, <2>2, TailKeeps
    <2> HIDE DEF c
    <2>4. /\ sock' \in [Clients -> Nat] /\ sock'[c] = fd
          /\ \A d \in Clients : d # c => sock'[d] = sock[d]
      BY <1>4, <2>1, <2>3 DEF c
    <2>5. SocketsInv'
      <3>1. 0 .. serverSocket \subseteq fds'
        BY <1>4 DEF SocketsInv
      <3>2. \A d \in Clients : sock'[d] # 0 => sock'[d] \in fds' /\ sock'[d] > serverSocket
        BY <1>4, <2>1, <2>4 DEF SocketsInv
      <3>3. \A d \in Clients \ {c} : sock[d] # fd
        BY <1>4, <2>1 DEF SocketsInv, serverSocket
      <3>4. \A d, e \in Clients : sock'[d] = sock'[e] /\ sock'[d] # 0 => d = e
        BY <2>3, <2>4, <3>3 DEF SocketsInv
      <3> QED
        BY <2>4, <3>1, <3>2, <3>4 DEF SocketsInv
    <2>6. ListInv'
      <3>1. ASSUME NEW i \in DOMAIN list
            PROVE  list[i].socketNum # 0 /\ \E d \in Clients : sock'[d] = list[i].socketNum
        <4>1. list[i].socketNum # 0
          BY DEF ListInv
        <4>2. PICK d \in Clients : sock[d] = list[i].socketNum
          BY DEF ListInv
        <4>3. d # c
          BY <2>3, <4>1, <4>2
        <4> QED
          BY <2>4, <4>1, <4>2, <4>3
      <3> QED
        BY <1>1, <1>2, <3>1 DEF ListInv
    <2>7. PollInv'
      BY <1>4, <2>1, ChatAssumption DEF PollInv, PollSetInBounds, addToPollSet, growPollSet,
                                     serverSocket
    <2> QED
      BY <2>3, <2>5, <2>6, <2>7
  <1> QED
    BY <1>3, <1>4 DEF addNewClient, tcpAccept

\* A handle is added only if no node has its place in the stack frame.
LEMMA ServeKeeps ==
    ASSUME IInv, NEW c \in Clients, ServePDU(c)
    PROVE  IInv'
  <1> USE DEF IInv
  <1> DEFINE p == Head(toServer[c])
  <1>1. /\ UNCHANGED <<sock, fds, handle, pollvars, pending, client>>
        /\ sock[c] \in pollSet /\ toServer[c] # <<>>
        /\ toServer' = [toServer EXCEPT ![c] = Tail(@)]
        /\ check_packet_type(c, p)
    BY DEF ServePDU, clientvars
  <1>2. SocketsInv' /\ PollInv' /\ PendingInv'
    BY <1>1, PollUnchanged, SocketsUnchanged DEF PendingInv
  <1>3. toServer[c] \in Seq(Pdus) /\ toServer \in [Clients -> Seq(Pdus)]
    BY DEF ListInv
  <1>4. p \in Pdus /\ Tail(toServer[c]) \in Seq(Pdus)
    <2> HIDE DEF Pdus
    <2> QED
      BY <1>1, <1>3
  <1>5. toServer' \in [Clients -> Seq(Pdus)]
    <2> HIDE DEF Pdus
    <2> QED
      BY <1>1, <1>3, <1>4
  <1> HIDE DEF p
  <1>6. CASE UNCHANGED list
    BY <1>1, <1>2, <1>5, <1>6 DEF ListInv
  <1>7. CASE ~UNCHANGED list
    <2>1. p.flag = INITIAL_PACKET /\ recieve_packet_one(c, Sent(p.handle), p.handle.digit)
      BY <1>1, <1>7 DEF check_packet_type
    <2> DEFINE h == Sent(p.handle)
               node == [handle |-> h, socketNum |-> sock[c]]
    <2>2. p.handle \in Handles
      BY <1>4, <2>1 DEF Pdus, INITIAL_PACKET, MESSAGE_PACKET
    <2>3. h \in {Sent(x) : x \in Handles}
      BY <2>2
    <2> HIDE DEF h
    <2>4. list' = Append(list, node) /\ LookupMayReturn(h)
      BY <1>7, <2>1 DEF recieve_packet_one, proper_handle, addToHandleNodeList,
                         createHandleNode, h
    <2>5. sock[c] \in Nat /\ sock[c] # 0
      BY <1>1 DEF PollInv
    <2>6. node \in Nodes
      BY <2>3, <2>5 DEF Nodes
    <2> HIDE DEF node
    <2>7. /\ list \in Seq(Nodes) /\ list' \in Seq(Nodes)
          /\ Len(list) \in Nat /\ DOMAIN list = 1 .. Len(list)
          /\ DOMAIN list' = 1 .. Len(list) + 1
          /\ list'[Len(list) + 1] = node
          /\ \A i \in DOMAIN list : list'[i] = list[i]
      BY <2>4, <2>6 DEF ListInv
    <2>8. node.socketNum = sock[c] /\ node.handle.len = h.len
      BY DEF node
    <2>9. ASSUME NEW i \in DOMAIN list'
          PROVE  list'[i].socketNum # 0 /\ \E d \in Clients : sock[d] = list'[i].socketNum
      <3>1. CASE i \in DOMAIN list
        BY <2>7, <3>1 DEF ListInv
      <3>2. CASE i = Len(list) + 1
        BY <2>5, <2>7, <2>8, <3>2
      <3> QED
        BY <2>7, <3>1, <3>2
    <2>10. ASSUME NEW i \in DOMAIN list', NEW j \in DOMAIN list', i # j
           PROVE  Slot(list'[i].handle.len) # Slot(list'[j].handle.len)
      <3>1. \A k \in DOMAIN list : Slot(list[k].handle.len) # Slot(h.len)
        BY <2>4 DEF LookupMayReturn
      <3>2. CASE i \in DOMAIN list /\ j \in DOMAIN list
        <4>1. Slot(list[i].handle.len) # Slot(list[j].handle.len)
          BY <2>10, <3>2 DEF ListInv
        <4> QED
          BY <2>7, <3>2, <4>1
      <3>3. CASE i = Len(list) + 1 /\ j \in DOMAIN list
        BY <2>7, <2>8, <3>1, <3>3
      <3>4. CASE j = Len(list) + 1 /\ i \in DOMAIN list
        BY <2>7, <2>8, <3>1, <3>4
      <3> QED
        BY <2>7, <2>10, <3>2, <3>3, <3>4
    <2>11. ListInv'
      BY <1>1, <1>5, <2>7, <2>9, <2>10 DEF ListInv
    <2> QED
      BY <1>2, <2>11
  <1> QED
    BY <1>6, <1>7

LEMMA NextKeeps ==
    ASSUME IInv, [Next]_vars
    PROVE  IInv'
  <1>1. CASE addNewClient
    BY <1>1, AcceptKeeps
  <1>2. ASSUME NEW c \in Clients, ServePDU(c)
        PROVE  IInv'
    BY <1>2, ServeKeeps
  <1>3. ASSUME NEW c \in Clients, ServeEof(c)
        PROVE  IInv'
    <2>1. /\ UNCHANGED <<sock, fds, handle, list, toServer, pending, client,
                        maxFileDescriptor, currentPollSetSize>>
          /\ pollSet' = pollSet \ {sock[c]} /\ sock[c] \in pollSet
      BY <1>3 DEF ServeEof, removeFromPollSet, tcpvars, clientvars
    <2>2. sock[c] # serverSocket
      BY <2>1 DEF IInv, SocketsInv, PollInv, serverSocket
    <2>3. PollInv'
      BY <2>1, <2>2 DEF IInv, PollInv, PollSetInBounds
    <2> QED
      BY <2>1, <2>3, SocketsUnchanged DEF IInv, PendingInv, ListInv
  <1>4. CASE ServeError \/ Hangup \/ UNCHANGED vars
    <2>1. UNCHANGED <<sock, fds, handle, list, toServer, pending, client, pollvars>>
      BY <1>4 DEF ServeError, Hangup, vars, servervars, tcpvars, clientvars
    <2> QED
      BY <2>1, SocketsUnchanged, PollUnchanged DEF IInv, PendingInv, ListInv
  <1>5. ASSUME NEW c \in Clients, ClientStep(c)
        PROVE  IInv'
    BY <1>5, ClientKeeps
  <1> QED
    BY <1>1, <1>2, <1>3, <1>4, <1>5 DEF Next, ServerTurn

LEMMA InitHolds == Init => IInv
  <1> SUFFICES ASSUME Init
               PROVE  IInv
    OBVIOUS
  <1>1. SocketsInv
    BY DEF Init, SocketsInv, serverSocket
  <1>2. PendingInv
    BY DEF Init, PendingInv, Places
  <1>3. ListInv
    BY DEF Init, ListInv
  <1>4. PollInv
    BY ChatAssumption DEF Init, PollInv, PollSetInBounds, serverSocket
  <1> QED
    BY <1>1, <1>2, <1>3, <1>4 DEF IInv

LEMMA Invariance == Spec => []IInv
  BY InitHolds, NextKeeps, PTL DEF Spec
-----------------------------------------------------------------------------
\* The poll set never indexes past its array, whatever descriptors clients get
\* and give up (pollLib.c).
THEOREM InBounds == Spec => []PollSetInBounds
  <1>1. IInv => PollSetInBounds
    BY DEF IInv, PollInv
  <1> QED
    BY <1>1, Invariance, PTL

\* For any number of clients, no handle is in the list twice: a second client
\* with the same handle makes the lookup loop instead (HandleNode.c:28-39).
THEOREM Unique == Spec => []UniqueHandles
  <1>1. IInv => UniqueHandles
    BY DEF IInv, ListInv, UniqueHandles
  <1> QED
    BY <1>1, Invariance, PTL

\* A node's socket is and stays that of one client, also after it has left.
THEOREM Owner == Spec => []SocketKeepsOwner
  <1>1. ASSUME IInv, NEW i \in DOMAIN list
        PROVE  \E c \in Clients : \A d \in Clients :
                   sock[d] = list[i].socketNum <=> d = c
    <2>1. list[i].socketNum # 0
      BY <1>1 DEF IInv, ListInv
    <2>2. PICK c \in Clients : sock[c] = list[i].socketNum
      BY <1>1 DEF IInv, ListInv
    <2>3. \A d \in Clients : sock[d] = list[i].socketNum <=> d = c
      BY <1>1, <2>1, <2>2 DEF IInv, SocketsInv
    <2> QED
      BY <2>3
  <1>2. IInv => SocketKeepsOwner
    BY <1>1 DEF SocketKeepsOwner
  <1> QED
    BY <1>2, Invariance, PTL
-----------------------------------------------------------------------------
(* What goes on between the server and one client. *)

\* A client sends its handle once, first of all, and until that is answered it waits.
\* Only a process that was killed leaves an answer unread.
Talk(c) ==
    /\ Len(toClient[c]) <= 1 /\ Len(toServer[c]) <= QueueLen
    /\ client[c] \in {"start", "connected"} => toServer[c] = <<>> /\ toClient[c] = <<>>
    /\ \A k \in DOMAIN toServer[c] :
          toServer[c][k].flag = INITIAL_PACKET =>
              /\ k = 1 /\ toClient[c] = <<>>
              /\ toServer[c][k].handle = handle[c]
              /\ client[c] = "chatting" => server = "exited"
    /\ client[c] = "chatting" => toClient[c] = <<>>
    /\ closed[c] = "reset" => client[c] = "killed" /\ toClient[c] # <<>>

\* A client that was told its handle is good is in the list.
Confirmed(c) ==
    server # "exited" /\ (client[c] = "chatting" \/ toClient[c] = <<CONFIRM_GOOD_HANDLE>>) =>
        \E i \in DOMAIN list : list[i] = [handle |-> Sent(handle[c]), socketNum |-> sock[c]]

TalkInv ==
    /\ toClient \in [Clients -> Seq(Flags)]
    /\ closed \in [Clients -> {"open", "fin", "reset"}]
    /\ \A c \in Clients : Talk(c) /\ Confirmed(c)

\* Descriptors are below the limit of the process.
LimitInv ==
    /\ server \in {"running", "looping", "exited"} /\ hungup \in BOOLEAN
    /\ rlimit \in FdLimits
    /\ fds \subseteq 0 .. rlimit - 1
    /\ pollSet \subseteq 0 .. rlimit - 1
    /\ sock \in [Clients -> 0 .. rlimit - 1]

LEMMA OneElement ==
    ASSUME NEW S, NEW s \in Seq(S), s # <<>>, Len(s) <= 1
    PROVE  Tail(s) = <<>> /\ s = <<Head(s)>>
  <1>1. Len(s) \in Nat /\ Len(s) # 0
    BY EmptySeq
  <1>2. Len(s) = 1
    <2>1. \A n \in Nat : n # 0 /\ n <= 1 => n = 1
      OBVIOUS
    <2> QED
      BY <1>1, <2>1
  <1>3. Tail(s) \in Seq(S) /\ Len(Tail(s)) = 0
    BY <1>2
  <1>4. Tail(s) = <<>>
    BY <1>3, EmptySeq
  <1>5. <<Head(s)>> \in Seq(S) /\ Len(<<Head(s)>>) = 1 /\ <<Head(s)>>[1] = s[1]
    BY <1>2
  <1>6. s = <<Head(s)>>
    BY <1>2, <1>5, SeqEqual
  <1> QED
    BY <1>4, <1>6

\* A client that takes no part in a step.
LEMMA TalkKept ==
    ASSUME NEW d \in Clients, Talk(d), Confirmed(d),
           client'[d] = client[d], toServer'[d] = toServer[d],
           toClient'[d] = toClient[d], closed'[d] = closed[d],
           handle' = handle,
           server = "exited" => server' = "exited",
           \A i \in DOMAIN list : i \in DOMAIN list' /\ list'[i] = list[i],
           sock'[d] = sock[d] \/ \A i \in DOMAIN list : list[i].socketNum # sock[d]
    PROVE  Talk(d)' /\ Confirmed(d)'
  <1>1. Talk(d)'
    BY DEF Talk
  <1>2. Confirmed(d)'
    <2> SUFFICES ASSUME server' # "exited",
                        client'[d] = "chatting" \/ toClient'[d] = <<CONFIRM_GOOD_HANDLE>>
                 PROVE  \E i \in DOMAIN list' :
                           list'[i] = [handle |-> Sent(handle'[d]), socketNum |-> sock'[d]]
      BY DEF Confirmed, Sent, Byte
    <2>1. PICK i \in DOMAIN list :
             list[i] = [handle |-> Sent(handle[d]), socketNum |-> sock[d]]
      BY DEF Confirmed
    <2>2. sock'[d] = sock[d]
      BY <2>1
    <2> QED
      BY <2>1, <2>2
  <1> QED
    BY <1>1, <1>2

\* What a client sends is at the end of what it has sent.
LEMMA SentLast ==
    ASSUME ListInv, NEW c \in Clients, NEW p \in Pdus, NEW next, sendPDU(c, p, next)
    PROVE  /\ \A d \in Clients : d # c => toServer'[d] = toServer[d]
           /\ toServer'[c] \in {toServer[c], Append(toServer[c], p)}
           /\ toServer'[c] = toServer[c] \/ Len(toServer[c]) < QueueLen
           /\ toServer'[c] = toServer[c] => server = "exited"
           /\ Len(toServer[c]) \in Nat /\ Len(Append(toServer[c], p)) = Len(toServer[c]) + 1
           /\ DOMAIN toServer[c] = 1 .. Len(toServer[c])
           /\ DOMAIN Append(toServer[c], p) = 1 .. Len(toServer[c]) + 1
           /\ Append(toServer[c], p)[Len(toServer[c]) + 1] = p
           /\ \A k \in DOMAIN toServer[c] : Append(toServer[c], p)[k] = toServer[c][k]
  <1> HIDE DEF Pdus
  <1>1. toServer \in [Clients -> Seq(Pdus)] /\ toServer[c] \in Seq(Pdus)
    BY DEF ListInv
  <1>2. /\ Len(toServer[c]) \in Nat /\ Len(Append(toServer[c], p)) = Len(toServer[c]) + 1
        /\ DOMAIN toServer[c] = 1 .. Len(toServer[c])
        /\ DOMAIN Append(toServer[c], p) = 1 .. Len(toServer[c]) + 1
        /\ Append(toServer[c], p)[Len(toServer[c]) + 1] = p
        /\ \A k \in DOMAIN toServer[c] : Append(toServer[c], p)[k] = toServer[c][k]
    BY <1>1
  <1>3. toServer[c] # Append(toServer[c], p)
    BY <1>2
  <1>4. \/ toServer' = toServer /\ server = "exited"
        \/ /\ toServer' = [toServer EXCEPT ![c] = Append(toServer[c], p)]
           /\ Len(toServer[c]) < QueueLen
    BY DEF sendPDU
  <1>5. CASE toServer' = toServer /\ server = "exited"
    BY <1>2, <1>5
  <1>6. CASE /\ toServer' = [toServer EXCEPT ![c] = Append(toServer[c], p)]
             /\ Len(toServer[c]) < QueueLen
    <2>1. /\ toServer'[c] = Append(toServer[c], p)
          /\ \A d \in Clients : d # c => toServer'[d] = toServer[d]
      BY <1>1, <1>6
    <2> QED
      BY <1>2, <1>3, <1>6, <2>1
  <1> QED
    BY <1>4, <1>5, <1>6

\* The client that makes a step.
LEMMA ClientTalks ==
    ASSUME IInv, TalkInv, NEW c \in Clients, ClientStep(c)
    PROVE  TalkInv'
  <1>1. UNCHANGED <<server, sock, list, handle>>
    BY DEF ClientStep, Connect, create_packet_one, GetFlag, message_packets,
           LeaveChat, StdinEnds, Kill, sendPDU, Goto, servervars, tcpvars
  <1>2. /\ toClient \in [Clients -> Seq(Flags)]
        /\ closed \in [Clients -> {"open", "fin", "reset"}]
        /\ client \in [Clients -> Places]
        /\ ListInv /\ handle[c] \in Handles
        /\ \A d \in Clients : Talk(d) /\ Confirmed(d)
    BY DEF IInv, TalkInv, PendingInv, ListInv
  \* It is enough to look at that client.
  <1>3. ASSUME \A d \in Clients : d # c =>
                  /\ client'[d] = client[d] /\ toServer'[d] = toServer[d]
                  /\ toClient'[d] = toClient[d] /\ closed'[d] = closed[d],
               toClient' \in [Clients -> Seq(Flags)],
               closed' \in [Clients -> {"open", "fin", "reset"}],
               Talk(c)',
               \/ server = "exited"
               \/ /\ client'[c] = "chatting" \/ toClient'[c] = <<CONFIRM_GOOD_HANDLE>>
                  => client[c] = "chatting" \/ toClient[c] = <<CONFIRM_GOOD_HANDLE>>
        PROVE  TalkInv'
    <2>1. \A d \in Clients : d # c => Talk(d)' /\ Confirmed(d)'
      BY <1>1, <1>2, <1>3, TalkKept
    <2>2. Confirmed(c)'
      BY <1>1, <1>2, <1>3 DEF Confirmed, Sent
    <2> QED
      BY <1>3, <2>1, <2>2 DEF TalkInv
  <1>4. ASSUME NEW w, Goto(c, w)
        PROVE  client'[c] = w /\ \A d \in Clients : d # c => client'[d] = client[d]
    BY <1>2, <1>4 DEF Goto
  <1>5. ASSUME CloseSocket(c)
        PROVE  /\ closed' \in [Clients -> {"open", "fin", "reset"}]
               /\ \A d \in Clients : d # c => closed'[d] = closed[d]
               /\ closed'[c] = IF toClient[c] = <<>> THEN "fin" ELSE "reset"
    BY <1>2, <1>5 DEF CloseSocket
  <1>6. Talk(c) /\ toClient[c] \in Seq(Flags)
    BY <1>2
  <1>7. CASE Connect(c)
    <2>1. /\ client[c] = "start" /\ UNCHANGED <<toServer, toClient, closed>>
          /\ Goto(c, "connected") \/ Goto(c, "ended")
      BY <1>7 DEF Connect
    <2>2. /\ client'[c] \in {"connected", "ended"}
          /\ \A d \in Clients : d # c => client'[d] = client[d]
      BY <1>4, <2>1
    <2>3. Talk(c)'
      BY <1>1, <1>6, <2>1, <2>2 DEF Talk
    <2> QED
      BY <1>2, <1>3, <1>6, <2>1, <2>2, <2>3 DEF Talk
  <1>8. CASE create_packet_one(c)
    <2> DEFINE p == [flag |-> INITIAL_PACKET, handle |-> handle[c],
                     size |-> handle[c].len + 2]
    <2>1. /\ client[c] = "connected" /\ UNCHANGED <<toClient, closed>>
          /\ sendPDU(c, p, "waiting")
      BY <1>8 DEF create_packet_one
    <2>2. p \in Pdus /\ p.flag = INITIAL_PACKET /\ p.handle = handle[c]
      <3>1. handle[c].len \in Nat
        BY <1>2, ChatAssumption
      <3> QED
        BY <1>2, <3>1 DEF Pdus
    <2> HIDE DEF p
    <2>3. Goto(c, "waiting") \/ Goto(c, "killed")
      BY <2>1 DEF sendPDU
    <2>4. /\ client'[c] \in {"waiting", "killed"}
          /\ \A d \in Clients : d # c => client'[d] = client[d]
      BY <1>4, <2>3
    <2>5. /\ \A d \in Clients : d # c => toServer'[d] = toServer[d]
          /\ toServer'[c] = toServer[c] \/
                /\ Len(toServer'[c]) <= QueueLen
                /\ DOMAIN toServer'[c] = 1 .. Len(toServer[c]) + 1
                /\ toServer'[c][Len(toServer[c]) + 1] = p
          /\ toServer[c] = <<>> /\ toClient[c] = <<>>
      <3>1. toServer[c] = <<>> /\ toClient[c] = <<>>
        BY <1>6, <2>1 DEF Talk
      <3>2. QueueLen \in Nat
        BY ChatAssumption
      <3> QED
        BY <1>2, <2>1, <2>2, <3>1, <3>2, SentLast
    <2>6. Talk(c)'
      BY <1>1, <1>6, <2>1, <2>2, <2>4, <2>5 DEF Talk
    <2> QED
      BY <1>2, <1>3, <2>1, <2>4, <2>5, <2>6
  <1>9. CASE GetFlag(c)
    <2>1. /\ client[c] = "waiting" /\ UNCHANGED toServer
          /\ closed' = [closed EXCEPT ![c] = IF client'[c] = "ended" THEN "fin" ELSE @]
          /\ Goto(c, "chatting") \/ Goto(c, "ended")
      BY <1>9 DEF GetFlag
    <2>2. /\ client'[c] \in {"chatting", "ended"}
          /\ \A d \in Clients : d # c => client'[d] = client[d]
      BY <1>4, <2>1
    <2>3. /\ closed' \in [Clients -> {"open", "fin", "reset"}]
          /\ \A d \in Clients : d # c => closed'[d] = closed[d]
          /\ closed'[c] \in {"fin", closed[c]}
      BY <1>2, <2>1
    <2>4. CASE /\ toClient[c] # <<>>
               /\ toClient' = [toClient EXCEPT ![c] = Tail(@)]
               /\ \/ Head(toClient[c]) = CONFIRM_GOOD_HANDLE /\ Goto(c, "chatting")
                  \/ Head(toClient[c]) # CONFIRM_GOOD_HANDLE /\ Goto(c, "ended")
      <3>1. Len(toClient[c]) <= 1
        BY <1>6 DEF Talk
      <3>2. Tail(toClient[c]) = <<>> /\ toClient[c] = <<Head(toClient[c])>>
        BY <1>6, <2>4, <3>1, OneElement
      <3>3. /\ toClient' \in [Clients -> Seq(Flags)]
            /\ toClient'[c] = <<>> /\ \A d \in Clients : d # c => toClient'[d] = toClient[d]
        <4>1. toClient' = [toClient EXCEPT ![c] = <<>>]
          BY <2>4, <3>2
        <4> QED
          BY <1>2, <4>1
      <3>4. \A k \in DOMAIN toServer[c] : toServer[c][k].flag # INITIAL_PACKET
        BY <1>6, <2>4 DEF Talk
      <3>5. Talk(c)'
        BY <1>1, <1>6, <2>1, <2>2, <2>3, <3>3, <3>4 DEF Talk
      <3>6. client'[c] = "chatting" => toClient[c] = <<CONFIRM_GOOD_HANDLE>>
        <4>1. CASE Head(toClient[c]) = CONFIRM_GOOD_HANDLE
          BY <3>2, <4>1
        <4>2. CASE Goto(c, "ended")
          BY <1>4, <4>2
        <4> QED
          BY <2>4, <4>1, <4>2
      <3>7. toClient'[c] # <<CONFIRM_GOOD_HANDLE>>
        BY <3>3
      <3> QED
        BY <1>2, <1>3, <2>1, <2>2, <2>3, <3>3, <3>5, <3>6, <3>7
    <2>5. CASE toClient[c] = <<>> /\ server = "exited" /\ UNCHANGED toClient
      <3>1. Talk(c)'
        BY <1>1, <1>6, <2>1, <2>2, <2>3, <2>5 DEF Talk
      <3> QED
        BY <1>2, <1>3, <2>1, <2>2, <2>3, <2>5, <3>1
    <2> QED
      BY <1>9, <2>4, <2>5 DEF GetFlag
  <1>10. CASE message_packets(c)
    <2>1. client[c] = "chatting" /\ UNCHANGED toClient
      BY <1>10 DEF message_packets
    <2>2. PICK line \in Lines :
             LET text == handleBufLen(line) - line.names IN
             \/ /\ text >= 0
                /\ sendPDU(c, [flag |-> MESSAGE_PACKET, line |-> line, text |-> text,
                               size |-> 3 + (handle[c].len % Byte) + line.names + text],
                           "chatting")
                /\ UNCHANGED closed
             \/ text < 0 /\ Goto(c, "killed") /\ CloseSocket(c) /\ UNCHANGED toServer
      BY <1>10 DEF message_packets
    <2> DEFINE text == handleBufLen(line) - line.names
               p == [flag |-> MESSAGE_PACKET, line |-> line, text |-> text,
                     size |-> 3 + (handle[c].len % Byte) + line.names + text]
    <2>3. CASE text >= 0 /\ sendPDU(c, p, "chatting") /\ UNCHANGED closed
      <3>1. p \in Pdus /\ p.flag # INITIAL_PACKET
        <4>1. p \in Pdus
          BY <1>2, <2>3, MessageIsPdu DEF ListInv
        <4>2. p.flag # INITIAL_PACKET
          BY DEF INITIAL_PACKET, MESSAGE_PACKET
        <4> QED
          BY <4>1, <4>2
      <3> HIDE DEF p
      <3>2. Goto(c, "chatting") \/ Goto(c, "killed")
        BY <2>3 DEF sendPDU
      <3>3. /\ client'[c] \in {"chatting", "killed"}
            /\ \A d \in Clients : d # c => client'[d] = client[d]
        BY <1>4, <3>2
      <3>4. /\ \A d \in Clients : d # c => toServer'[d] = toServer[d]
            /\ toServer'[c] = toServer[c] \/
                  /\ Len(toServer'[c]) <= QueueLen
                  /\ DOMAIN toServer'[c] = 1 .. Len(toServer[c]) + 1
                  /\ toServer'[c][Len(toServer[c]) + 1] = p
                  /\ \A k \in 1 .. Len(toServer[c]) : toServer'[c][k] = toServer[c][k]
            /\ DOMAIN toServer[c] = 1 .. Len(toServer[c]) /\ Len(toServer[c]) \in Nat
        <4>1. QueueLen \in Nat
          BY ChatAssumption
        <4>2. /\ \A d \in Clients : d # c => toServer'[d] = toServer[d]
              /\ toServer'[c] \in {toServer[c], Append(toServer[c], p)}
              /\ toServer'[c] = toServer[c] \/ Len(toServer[c]) < QueueLen
              /\ Len(toServer[c]) \in Nat
              /\ Len(Append(toServer[c], p)) = Len(toServer[c]) + 1
              /\ DOMAIN toServer[c] = 1 .. Len(toServer[c])
              /\ DOMAIN Append(toServer[c], p) = 1 .. Len(toServer[c]) + 1
              /\ Append(toServer[c], p)[Len(toServer[c]) + 1] = p
              /\ \A k \in DOMAIN toServer[c] : Append(toServer[c], p)[k] = toServer[c][k]
          BY <1>2, <2>3, <3>1, SentLast
        <4> QED
          BY <4>1, <4>2
      <3>5. \A k \in DOMAIN toServer'[c] : toServer'[c][k].flag = INITIAL_PACKET =>
                k \in DOMAIN toServer[c] /\ toServer'[c][k] = toServer[c][k]
        BY <3>1, <3>4
      <3>6. Talk(c)'
        BY <1>1, <1>6, <2>1, <2>3, <3>3, <3>4, <3>5 DEF Talk
      <3> QED
        BY <1>2, <1>3, <2>1, <2>3, <3>3, <3>4, <3>6
    <2>4. CASE Goto(c, "killed") /\ CloseSocket(c) /\ UNCHANGED toServer
      <3>1. client'[c] = "killed" /\ \A d \in Clients : d # c => client'[d] = client[d]
        BY <1>4, <2>4
      <3>2. Talk(c)'
        BY <1>1, <1>5, <1>6, <2>1, <2>4, <3>1 DEF Talk
      <3> QED
        BY <1>2, <1>3, <1>5, <2>1, <2>4, <3>1, <3>2
    <2> QED
      BY <2>2, <2>3, <2>4
  <1>11. CASE LeaveChat(c)
    <2>1. /\ client[c] = "chatting" /\ UNCHANGED <<toServer, toClient>>
          /\ Goto(c, "ended") /\ CloseSocket(c)
      BY <1>11 DEF LeaveChat
    <2>2. client'[c] = "ended" /\ \A d \in Clients : d # c => client'[d] = client[d]
      BY <1>4, <2>1
    <2>3. closed'[c] = "fin"
      BY <1>5, <1>6, <2>1 DEF Talk
    <2>4. Talk(c)'
      BY <1>1, <1>6, <2>1, <2>2, <2>3 DEF Talk
    <2> QED
      BY <1>2, <1>3, <1>5, <2>1, <2>2, <2>4
  <1>12. CASE StdinEnds(c)
    <2>1. /\ client[c] = "chatting" /\ UNCHANGED <<toServer, toClient, closed>>
          /\ Goto(c, "spinning")
      BY <1>12 DEF StdinEnds, tcpvars
    <2>2. client'[c] = "spinning" /\ \A d \in Clients : d # c => client'[d] = client[d]
      BY <1>4, <2>1
    <2>3. Talk(c)'
      BY <1>1, <1>6, <2>1, <2>2 DEF Talk
    <2> QED
      BY <1>2, <1>3, <2>1, <2>2, <2>3
  <1>13. CASE Kill(c)
    <2>1. /\ UNCHANGED <<toServer, toClient>>
          /\ Goto(c, "killed") /\ CloseSocket(c)
      BY <1>13 DEF Kill
    <2>2. client'[c] = "killed" /\ \A d \in Clients : d # c => client'[d] = client[d]
      BY <1>4, <2>1
    <2>3. Talk(c)'
      BY <1>1, <1>5, <1>6, <2>1, <2>2 DEF Talk
    <2> QED
      BY <1>2, <1>3, <1>5, <2>1, <2>2, <2>3
  <1> QED
    BY <1>7, <1>8, <1>9, <1>10, <1>11, <1>12, <1>13 DEF ClientStep

\* accept gives a descriptor to a client that no node is about.
LEMMA AcceptTalks ==
    ASSUME IInv, TalkInv, addNewClient
    PROVE  TalkInv'
  <1>1. /\ server = "running" /\ pending # <<>> /\ UNCHANGED <<list, toServer, toClient, closed, client, handle>>
    BY SomebodyWaits DEF addNewClient, Turn, pollCall, clientvars
  <1>2. Head(pending) \in Clients /\ sock[Head(pending)] = 0 /\ sock \in [Clients -> Nat]
    <2>1. pending \in Seq(Clients) /\ 1 \in DOMAIN pending /\ Head(pending) = pending[1]
      BY <1>1, EmptySeq DEF IInv, PendingInv
    <2> QED
      BY <2>1 DEF IInv, PendingInv, SocketsInv
  <1>3. \A d \in Clients : sock'[d] = sock[d] \/ d = Head(pending)
    BY <1>2 DEF addNewClient, tcpAccept
  <1>4. \A i \in DOMAIN list : list[i].socketNum # 0
    BY DEF IInv, ListInv
  <1>5. \A d \in Clients :
           sock'[d] = sock[d] \/ \A i \in DOMAIN list : list[i].socketNum # sock[d]
    BY <1>2, <1>3, <1>4
  <1>6. \A d \in Clients : Talk(d)' /\ Confirmed(d)'
    BY <1>1, <1>5, TalkKept DEF TalkInv
  <1> QED
    BY <1>1, <1>6 DEF TalkInv

\* The server takes a PDU, and answers the first one of a client.
LEMMA ServeTalks ==
    ASSUME IInv, TalkInv, NEW c \in Clients, ServePDU(c)
    PROVE  TalkInv'
  <1> DEFINE p == Head(toServer[c])
             rest == Tail(toServer[c])
  <1>1. /\ server = "running" /\ UNCHANGED <<sock, handle, closed, client>>
        /\ toServer[c] # <<>>
        /\ toServer' = [toServer EXCEPT ![c] = rest]
        /\ check_packet_type(c, p)
    BY DEF ServePDU, Turn, clientvars
  <1>2. /\ toServer \in [Clients -> Seq(Pdus)] /\ list \in Seq(Nodes)
        /\ toClient \in [Clients -> Seq(Flags)]
        /\ closed \in [Clients -> {"open", "fin", "reset"}]
        /\ \A d \in Clients : Talk(d) /\ Confirmed(d)
        /\ sock[c] \in Nat
    BY DEF IInv, ListInv, TalkInv, SocketsInv
  <1>3. /\ Len(rest) = Len(toServer[c]) - 1 /\ DOMAIN rest = 1 .. Len(rest)
        /\ \A k \in DOMAIN rest : rest[k] = toServer[c][k + 1] /\ k + 1 \in DOMAIN toServer[c]
        /\ 1 \in DOMAIN toServer[c] /\ p = toServer[c][1]
        /\ p \in Pdus
    <2> HIDE DEF Pdus
    <2> QED
      BY <1>1, <1>2, HeadTailProperties
  <1> HIDE DEF p, rest
  <1>4. toServer'[c] = rest /\ \A d \in Clients : d # c => toServer'[d] = toServer[d]
    <2> HIDE DEF Pdus
    <2> QED
      BY <1>1, <1>2
  <1>5. Len(toServer'[c]) <= QueueLen
    <2>1. Len(toServer[c]) \in Nat /\ Len(toServer[c]) <= QueueLen /\ QueueLen \in Nat
      <3> HIDE DEF Pdus
      <3> QED
        BY <1>2, ChatAssumption DEF Talk
    <2> QED
      BY <1>3, <1>4, <2>1
  \* No second handle is on its way.
  <1>6. \A k \in DOMAIN toServer'[c] : toServer'[c][k].flag # INITIAL_PACKET
    <2> SUFFICES ASSUME NEW k \in DOMAIN rest, rest[k].flag = INITIAL_PACKET PROVE FALSE
      BY <1>4
    <2>1. k + 1 \in DOMAIN toServer[c] /\ toServer[c][k + 1].flag = INITIAL_PACKET
      BY <1>3
    <2>2. k + 1 = 1
      BY <1>2, <2>1 DEF Talk
    <2>3. k \in 1 .. Len(rest)
      BY <1>3
    <2> QED
      BY <2>2, <2>3
  <1>7. client[c] \notin {"start", "connected"}
    BY <1>1, <1>2 DEF Talk
  <1>8. CASE UNCHANGED <<list, toClient>>
    <2>1. Talk(c)'
      BY <1>1, <1>2, <1>5, <1>6, <1>7, <1>8 DEF Talk
    <2>2. Confirmed(c)'
      BY <1>1, <1>2, <1>8 DEF Confirmed, Sent
    <2>3. \A d \in Clients : d # c => Talk(d)' /\ Confirmed(d)'
      BY <1>1, <1>2, <1>4, <1>8, TalkKept
    <2> QED
      BY <1>1, <1>2, <1>8, <2>1, <2>2, <2>3 DEF TalkInv
  <1>9. ASSUME p.flag = INITIAL_PACKET, NEW flag \in Flags,
               list' = IF flag = CONFIRM_GOOD_HANDLE
                       THEN Append(list, [handle |-> Sent(p.handle), socketNum |-> sock[c]])
                       ELSE list,
               toClient' = [toClient EXCEPT ![c] = Append(@, flag)],
               UNCHANGED server
        PROVE  TalkInv'
    <2>1. toClient[c] = <<>> /\ p.handle = handle[c] /\ client[c] # "chatting"
      BY <1>1, <1>2, <1>3, <1>9 DEF Talk
    <2>2. /\ toClient' \in [Clients -> Seq(Flags)] /\ toClient'[c] = <<flag>>
          /\ \A d \in Clients : d # c => toClient'[d] = toClient[d]
      <3>1. toClient' = [toClient EXCEPT ![c] = <<flag>>]
        BY <1>9, <2>1
      <3> QED
        BY <1>2, <3>1
    <2>3. Talk(c)'
      BY <1>1, <1>2, <1>5, <1>6, <1>7, <2>1, <2>2 DEF Talk
    <2> DEFINE node == [handle |-> Sent(handle[c]), socketNum |-> sock[c]]
    <2>4. /\ \A i \in DOMAIN list : i \in DOMAIN list' /\ list'[i] = list[i]
          /\ flag = CONFIRM_GOOD_HANDLE => \E i \in DOMAIN list' : list'[i] = node
      <3>1. list' = IF flag = CONFIRM_GOOD_HANDLE THEN Append(list, node) ELSE list
        BY <1>9, <2>1
      <3>2. DOMAIN list = 1 .. Len(list) /\ Len(list) \in Nat
        BY <1>2
      <3> HIDE DEF node
      <3>3. /\ DOMAIN Append(list, node) = 1 .. Len(list) + 1
            /\ Append(list, node)[Len(list) + 1] = node
            /\ \A i \in DOMAIN list : Append(list, node)[i] = list[i]
        BY <1>2, <3>2
      <3> QED
        BY <3>1, <3>2, <3>3
    <2>5. Confirmed(c)'
      <3>1. toClient'[c] = <<CONFIRM_GOOD_HANDLE>> => flag = CONFIRM_GOOD_HANDLE
        BY <2>2
      <3> QED
        BY <1>1, <2>1, <2>4, <3>1 DEF Confirmed, Sent
    <2>6. \A d \in Clients : d # c => Talk(d)' /\ Confirmed(d)'
      BY <1>1, <1>2, <1>4, <1>9, <2>2, <2>4, TalkKept
    <2> QED
      BY <1>1, <1>2, <2>2, <2>3, <2>5, <2>6 DEF TalkInv
  <1>10. CASE ~UNCHANGED <<list, toClient>>
    <2>1. p.flag = INITIAL_PACKET /\ recieve_packet_one(c, Sent(p.handle), p.handle.digit)
      BY <1>1, <1>10 DEF check_packet_type
    <2>2. PICK flag \in Flags :
             /\ list' = IF flag = CONFIRM_GOOD_HANDLE
                        THEN addToHandleNodeList(createHandleNode(sock[c], Sent(p.handle)))
                        ELSE list
             /\ toClient' = [toClient EXCEPT ![c] = Append(@, flag)]
             /\ UNCHANGED server
      <3>1. \A digit : proper_handle(Sent(p.handle), digit) \subseteq Flags
        BY DEF proper_handle, Flags
      <3> QED
        BY <1>10, <2>1, <3>1, Zenon DEF recieve_packet_one
    <2> QED
      BY <1>9, <2>1, <2>2 DEF addToHandleNodeList, createHandleNode
  <1> QED
    BY <1>8, <1>10

LEMMA NextTalks ==
    ASSUME IInv, TalkInv, [Next]_vars
    PROVE  TalkInv'
  <1>1. CASE addNewClient
    BY <1>1, AcceptTalks
  <1>2. ASSUME NEW c \in Clients, ServePDU(c)
        PROVE  TalkInv'
    BY <1>2, ServeTalks
  <1>3. CASE ServeError \/ Hangup \/ UNCHANGED vars \/ \E c \in Clients : ServeEof(c)
    <2>1. /\ UNCHANGED <<sock, handle, list, toServer, toClient, closed, client>>
          /\ server = "exited" => server' = "exited"
      BY <1>3 DEF ServeError, ServeEof, Hangup, vars, servervars, tcpvars, clientvars
    <2> QED
      BY <2>1, TalkKept DEF TalkInv
  <1>4. ASSUME NEW c \in Clients, ClientStep(c)
        PROVE  TalkInv'
    BY <1>4, ClientTalks
  <1> QED
    BY <1>1, <1>2, <1>3, <1>4 DEF Next, ServerTurn

LEMMA NextLimits ==
    ASSUME IInv, LimitInv, [Next]_vars
    PROVE  LimitInv'
  <1>0. /\ rlimit \in FdLimits
        /\ pollSet \subseteq 0 .. rlimit - 1 /\ sock \in [Clients -> 0 .. rlimit - 1]
        /\ fds \subseteq 0 .. rlimit - 1
        /\ server \in {"running", "looping", "exited"} /\ hungup \in BOOLEAN
    BY DEF LimitInv
  <1>1. CASE addNewClient
    <2>1. CASE UNCHANGED <<fds, sock, pollvars>> /\ server' = "exited"
      BY <1>1, <2>1 DEF addNewClient, LimitInv, pollvars
    <2>2. CASE \E fd \in 0 .. rlimit - 1 :
                  tcpAccept(fd) /\ addToPollSet(fd) /\ UNCHANGED server
      <3>1. PICK fd \in 0 .. rlimit - 1 :
               /\ fds' = fds \cup {fd} /\ sock' = [sock EXCEPT ![Head(pending)] = fd]
               /\ pollSet' = pollSet \cup {fd} /\ UNCHANGED server
        BY <2>2 DEF tcpAccept, addToPollSet
      <3>2. sock' \in [Clients -> 0 .. rlimit - 1]
        BY <1>0, <3>1
      <3>3. UNCHANGED <<hungup, rlimit>>
        BY <1>1 DEF addNewClient
      <3> QED
        BY <1>0, <3>1, <3>2, <3>3 DEF LimitInv
    <2> QED
      BY <1>1, <2>1, <2>2 DEF addNewClient
  <1>2. ASSUME NEW c \in Clients, ServePDU(c)
        PROVE  LimitInv'
    <2>1. UNCHANGED <<hungup, rlimit, fds, pollSet, sock>>
      BY <1>2 DEF ServePDU, pollvars
    <2>2. server' \in {server, "looping", "exited"}
      BY <1>2 DEF ServePDU, check_packet_type, recieve_packet_one
    <2> QED
      BY <2>1, <2>2 DEF LimitInv
  <1>3. ASSUME NEW c \in Clients, ServeEof(c)
        PROVE  LimitInv'
    BY <1>3 DEF ServeEof, removeFromPollSet, tcpvars, LimitInv
  <1>4. CASE ServeError \/ Hangup \/ UNCHANGED vars
    <2>1. /\ UNCHANGED <<rlimit, fds, pollSet, sock>>
          /\ server' \in {server, "exited"} /\ hungup' \in {hungup, TRUE}
      BY <1>4 DEF ServeError, Hangup, vars, servervars, tcpvars, pollvars
    <2> QED
      BY <2>1 DEF LimitInv
  <1>5. ASSUME NEW c \in Clients, ClientStep(c)
        PROVE  LimitInv'
    <2>1. UNCHANGED <<server, hungup, rlimit, fds, pollSet, sock>>
      BY <1>5 DEF ClientStep, Connect, create_packet_one, GetFlag, message_packets,
           LeaveChat, StdinEnds, Kill, sendPDU, Goto, servervars, tcpvars, pollvars
    <2> QED
      BY <2>1 DEF LimitInv
  <1> QED
    BY <1>1, <1>2, <1>3, <1>4, <1>5 DEF Next, ServerTurn

LEMMA InitTalks == Init => TalkInv /\ LimitInv
  <1> SUFFICES ASSUME Init PROVE TalkInv /\ LimitInv
    OBVIOUS
  <1>1. LimitInv
    <2>1. rlimit \in FdLimits /\ rlimit \in Nat /\ rlimit > 3
      BY ChatAssumption DEF Init, serverSocket
    <2>2. 0 .. 3 \subseteq 0 .. rlimit - 1 /\ {0, 3} \subseteq 0 .. rlimit - 1
      BY <2>1
    <2>3. sock \in [Clients -> 0 .. rlimit - 1]
      BY <2>2 DEF Init
    <2> QED
      BY <2>2, <2>3 DEF Init, LimitInv, serverSocket
  <1>2. ASSUME NEW c \in Clients PROVE Talk(c) /\ Confirmed(c)
    <2>1. toClient[c] = <<>> /\ toServer[c] = <<>> /\ client[c] = "start" /\ closed[c] = "open"
      BY DEF Init
    <2>2. Len(<<>>) = 0 /\ DOMAIN <<>> = {} /\ QueueLen \in Nat
      BY ChatAssumption
    <2> QED
      BY <2>1, <2>2 DEF Talk, Confirmed
  <1>3. toClient \in [Clients -> Seq(Flags)] /\ closed \in [Clients -> {"open", "fin", "reset"}]
    BY DEF Init
  <1> QED
    BY <1>1, <1>2, <1>3 DEF TalkInv

LEMMA TalkInvariance == Spec => [](TalkInv /\ LimitInv)
  BY InitTalks, Invariance, NextTalks, NextLimits, PTL DEF Spec
-----------------------------------------------------------------------------
\* Whatever clients come and go, what is in flight stays within its bounds: no client
\* ever has two answers waiting, since it sends its handle only once (myClient.c:48-54).
THEOREM Types == Spec => []TypeOK
  <1>1. IInv /\ TalkInv /\ LimitInv => TypeOK
    BY DEF IInv, PendingInv, ListInv, TalkInv, LimitInv, Talk, TypeOK, Places
  <1> QED
    BY <1>1, Invariance, TalkInvariance, PTL

\* check_packet_type answers a handle and addToHandleNodeList lists it in one turn, for
\* the socket it came from: a confirmed client stays in the list.
THEOREM ConfirmedListed == Spec => []ConfirmedIsListed
  <1>1. TalkInv => ConfirmedIsListed
    BY DEF TalkInv, Confirmed, ConfirmedIsListed
  <1> QED
    BY <1>1, TalkInvariance, PTL

\* serverControl ends only on a hangup, when accept finds every descriptor in use, and on
\* the very connection poll reports: its client was killed with the answer unread, or its
\* first packet does not fit.  One that leaves by itself has always read its answer, and
\* no line its user types is too long, since message_packets counts it in a uint8_t.
THEOREM Outlives == Spec => ServerOutlives
  <1> DEFINE Cause ==
          \/ hungup
          \/ pending # <<>> /\ 0 .. rlimit - 1 \subseteq fds
          \/ \E c \in Clients :
                /\ sock[c] \in pollSet /\ pollCall(sock[c])
                /\ \/ /\ toServer[c] = <<>> /\ closed[c] = "reset"
                      /\ client[c] = "killed" /\ toClient[c] # <<>>
                   \/ /\ toServer[c] # <<>>
                      /\ Head(toServer[c]).flag = INITIAL_PACKET
                      /\ Head(toServer[c]).size + 2 > MAXBUF
  <1>1. ASSUME IInv, TalkInv, Next, server = "running", server' = "exited"
        PROVE  Cause
    <2>1. CASE addNewClient
      BY <1>1, <2>1, SomebodyWaits DEF addNewClient, Turn, pollCall
    <2>2. ASSUME NEW c \in Clients, ServePDU(c)
          PROVE  Cause
      <3>1. /\ toServer[c] # <<>> /\ check_packet_type(c, Head(toServer[c]))
            /\ sock[c] \in pollSet /\ pollCall(sock[c])
        BY <2>2 DEF ServePDU, Turn
      <3>2. ~recvPDU(Head(toServer[c]))
        BY <1>1, <3>1 DEF check_packet_type, recieve_packet_one
      <3>3. Head(toServer[c]) \in Pdus
        <4> HIDE DEF Pdus
        <4> QED
          BY <1>1, <3>1 DEF IInv, ListInv
      <3>4. Head(toServer[c]).size \in Nat /\ Head(toServer[c]).size + 2 > MAXBUF
        BY <3>2, <3>3 DEF Pdus, recvPDU, MAXBUF
      <3>5. Head(toServer[c]).flag = INITIAL_PACKET
        <4>1. \A m \in 0 .. MaxMessage : ~(m + 2 > MAXBUF)
          BY DEF MaxMessage, MAXBUF
        <4>2. Head(toServer[c]).size \notin 0 .. MaxMessage
          BY <3>4, <4>1
        <4> QED
          BY <3>3, <4>2 DEF Pdus
      <3> QED
        BY <3>1, <3>4, <3>5
    <2>3. ASSUME NEW c \in Clients, sock[c] \in pollSet, Turn(sock[c]),
                 toServer[c] = <<>>, closed[c] = "reset"
          PROVE  Cause
      <3>1. client[c] = "killed" /\ toClient[c] # <<>>
        BY <1>1, <2>3 DEF TalkInv, Talk
      <3> QED
        BY <2>3, <3>1 DEF Turn
    <2>4. ASSUME NEW i, i \notin pollSet, Turn(i)
          PROVE  Cause
      BY <1>1, <2>4 DEF Turn, pollCall, revents, IInv, PollInv
    <2>5. CASE Hangup \/ \E c \in Clients : ClientStep(c) \/ ServeEof(c)
      <3>1. UNCHANGED server
        BY <2>5 DEF Hangup, ServeEof, ClientStep, Connect, create_packet_one, GetFlag,
             message_packets, LeaveChat, StdinEnds, Kill, sendPDU, Goto, servervars
      <3> QED
        BY <1>1, <3>1
    <2> QED
      BY <1>1, <2>1, <2>2, <2>3, <2>4, <2>5 DEF Next, ServerTurn, ServeError
  <1>2. IInv /\ TalkInv /\ [Next]_vars => [server = "running" /\ server' = "exited" => Cause]_vars
    BY <1>1 DEF vars, servervars
  <1> QED
    BY <1>2, Invariance, TalkInvariance, PTL DEF Spec, ServerOutlives
=============================================================================
