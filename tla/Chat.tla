--------------------------------- MODULE Chat ---------------------------------
(***************************************************************************)
(* Program2_new: the TCP chat server (myServer.c) with its poll set        *)
(* (pollLib.c) and its list of handles (HandleNode.c), the clients         *)
(* (myClient.c), and the packets between them (packets.c, appPDU.c).  The  *)
(* server is one thread: an action of the server is one turn of            *)
(* serverControl's loop.                                                   *)
(*                                                                         *)
(* Names are abstracted to [name, len, digit]: argv's text, its strlen and *)
(* whether it starts with a digit.  A typed line "%M n handles text" is    *)
(* [names, text]: the bytes of the handles with the blank after each, and  *)
(* the bytes of the text.                                                  *)
(***************************************************************************)
EXTENDS Integers, Sequences

CONSTANTS
    Clients,        \* the client processes
    Handles,        \* the handles they may be started with
    Lines,          \* the %M lines their users may type
    FdLimits,       \* the values of RLIMIT_NOFILE the server may be started with
    POLL_SET_SIZE,  \* pollLib.h
    VlaAlign,       \* gcc rounds the size of a local array up to this
    QueueLen        \* bound of the model: PDUs in flight from one client

MAXBUF == 1024
HEADER_LEN_MAX == 100
Byte == 256               \* values of a uint8_t
STDIN_FILENO == 0
serverSocket == 3         \* the first descriptor after the standard ones

INITIAL_PACKET == 1
CONFIRM_GOOD_HANDLE == 2
ERROR_INITIAL_PACKET == 3
MESSAGE_PACKET == 5

ASSUME ChatAssumption ==
    /\ \A h \in Handles : h.len \in Nat /\ h.digit \in BOOLEAN
    /\ \A l \in Lines : l.names \in Nat /\ l.text \in Nat /\ l.names < 150
    /\ \A n \in FdLimits : n \in Nat /\ n > serverSocket
    /\ QueueLen \in Nat
    /\ POLL_SET_SIZE \in Nat \ {0} /\ VlaAlign \in Nat \ {0}

VARIABLES
    \* the server
    server,              \* "running", "looping" or "exited"
    hungup,              \* the server's standard input has been hung up
    rlimit,              \* its descriptors are below it
    fds,                 \* descriptors open in the server
    pollSet,             \* those i with pollFileDescriptors[i].fd = i; others 0
    maxFileDescriptor,
    currentPollSetSize,
    list,                \* the HandleNodes: handle and socket
    \* TCP
    pending,             \* connections not yet accepted
    sock,                \* sock[c]: the server's descriptor for c; 0 before
    toServer, toClient,  \* PDUs in flight
    closed,              \* "open", or how c's end was closed: "fin", "reset"
    \* the clients
    client,              \* where main or clientControl is
    handle               \* argv[HANDLE_ARG]

pollvars == <<pollSet, maxFileDescriptor, currentPollSetSize>>
servervars == <<server, hungup, rlimit, fds, pollvars, list>>
tcpvars == <<pending, sock, toServer, toClient, closed>>
clientvars == <<client, handle>>
vars == <<servervars, tcpvars, clientvars>>

Init ==
    /\ server = "running"
    /\ hungup = FALSE
    /\ rlimit \in FdLimits
    /\ fds = 0 .. serverSocket
    /\ pollSet = {serverSocket}
    /\ maxFileDescriptor = serverSocket + 1
    /\ currentPollSetSize = IF serverSocket < POLL_SET_SIZE
                            THEN POLL_SET_SIZE ELSE serverSocket + POLL_SET_SIZE
    /\ list = <<>>
    /\ pending = <<>>
    /\ sock = [c \in Clients |-> 0]
    /\ toServer = [c \in Clients |-> <<>>]
    /\ toClient = [c \in Clients |-> <<>>]
    /\ closed = [c \in Clients |-> "open"]
    /\ client = [c \in Clients |-> "start"]
    /\ handle \in [Clients -> Handles]
-----------------------------------------------------------------------------
(* pollLib.c *)

\* Mutant: the array is grown one descriptor too late.
addToPollSet_LateGrow(fd) ==
    /\ pollSet' = pollSet \cup {fd}
    /\ currentPollSetSize' = IF fd > currentPollSetSize
                             THEN fd + POLL_SET_SIZE ELSE currentPollSetSize
    /\ maxFileDescriptor' = IF fd + 1 >= maxFileDescriptor
                            THEN fd + 1 ELSE maxFileDescriptor

\* The new entries are zero; a size that is not larger would exit the server.
growPollSet(newSetSize) ==
    newSetSize > currentPollSetSize /\ currentPollSetSize' = newSetSize

addToPollSet(fd) ==
    /\ pollSet' = pollSet \cup {fd}
    /\ IF fd >= currentPollSetSize THEN growPollSet(fd + POLL_SET_SIZE)
                                   ELSE UNCHANGED currentPollSetSize
    /\ maxFileDescriptor' = IF fd + 1 >= maxFileDescriptor
                            THEN fd + 1 ELSE maxFileDescriptor

\* Mutant: the socket is closed, but the list is not told.
removeFromPollSet_Closes(fd) ==
    /\ pollSet' = pollSet \ {fd}
    /\ fds' = fds \ {fd}
    /\ UNCHANGED <<maxFileDescriptor, currentPollSetSize>>

\* The entry becomes one for descriptor 0; nobody closes the socket.
removeFromPollSet(fd) ==
    /\ pollSet' = pollSet \ {fd}
    /\ UNCHANGED <<maxFileDescriptor, currentPollSetSize, fds>>

\* revents of entry i: input, or the end of it.  An entry for descriptor 0 asks
\* for no event but is told of a hangup.
revents(i) ==
    \/ i \notin pollSet /\ hungup
    \/ i = serverSocket /\ pending # <<>>
    \/ \E c \in Clients :
          i \in pollSet /\ sock[c] = i /\ (toServer[c] # <<>> \/ closed[c] # "open")

\* Mutant: the scan runs from the other end.
pollCall_Highest(i) ==
    /\ i \in 0 .. maxFileDescriptor - 1
    /\ revents(i)
    /\ \A j \in i + 1 .. maxFileDescriptor - 1 : ~revents(j)

\* pollCall returns the lowest descriptor that is ready.
pollCall(i) ==
    /\ i \in 0 .. maxFileDescriptor - 1
    /\ revents(i)
    /\ \A j \in 0 .. i - 1 : ~revents(j)
-----------------------------------------------------------------------------
(* packets.c and HandleNode.c, the server's part *)

\* The handle as the server reads it: its length is a uint8_t.
Sent(h) == [name |-> h.name, len |-> h.len % Byte]

\* The place of an array of len bytes in recieve_packet_one's stack frame.
Slot(len) == (len + VlaAlign - 1) \div VlaAlign

\* getHandleNodeByHandle never advances past a match: it loops, or it returns
\* NULL.  The nodes point to the handle arrays of earlier calls: to this very
\* handle if it is in the same place, else to bytes of unknown value.
LookupMayLoop == list # <<>>
LookupMayReturn(h) == \A i \in DOMAIN list : Slot(list[i].handle.len) # Slot(h.len)

\* Mutant: the list is not searched.
proper_handle_NoLookup(h, digit) ==
    IF h.len > HEADER_LEN_MAX \/ digit THEN {ERROR_INITIAL_PACKET}
                                       ELSE {CONFIRM_GOOD_HANDLE}

\* The flags it may return.
proper_handle(h, digit) ==
    IF ~LookupMayReturn(h) THEN {}
    ELSE IF h.len > HEADER_LEN_MAX \/ digit THEN {ERROR_INITIAL_PACKET}
                                            ELSE {CONFIRM_GOOD_HANDLE}

\* Mutant: the new node replaces the list.
addToHandleNodeList_Only(node) == <<node>>

createHandleNode(socketNumber, h) == [handle |-> h, socketNum |-> socketNumber]

addToHandleNodeList(node) == Append(list, node)

\* The first byte of an empty handle is unknown.
recieve_packet_one(c, h, firstIsDigit) ==
    \/ LookupMayLoop /\ server' = "looping" /\ UNCHANGED <<list, toClient>>
    \/ \E digit \in IF h.len = 0 THEN BOOLEAN ELSE {firstIsDigit} :
       \E flag \in proper_handle(h, digit) :
          /\ list' = IF flag = CONFIRM_GOOD_HANDLE
                     THEN addToHandleNodeList(createHandleNode(sock[c], h))
                     ELSE list
          /\ toClient' = [toClient EXCEPT ![c] = Append(@, flag)]
          /\ UNCHANGED server

\* Whether a PDU, with its two bytes of length, fits the buffer.
recvPDU(p) == p.size + 2 <= MAXBUF

\* A PDU that does not fit exits the server; a message is only printed.
check_packet_type(c, p) ==
    \/ ~recvPDU(p) /\ server' = "exited" /\ UNCHANGED <<list, toClient>>
    \/ /\ recvPDU(p) /\ p.flag = INITIAL_PACKET
       /\ recieve_packet_one(c, Sent(p.handle), p.handle.digit)
    \/ /\ recvPDU(p) /\ p.flag = MESSAGE_PACKET
       /\ UNCHANGED <<server, list, toClient>>
-----------------------------------------------------------------------------
(* myServer.c: the turns of serverControl's loop *)

Turn(i) == server = "running" /\ pollCall(i)

\* accept takes the lowest free descriptor.
tcpAccept(fd) ==
    /\ fd \notin fds /\ 0 .. fd - 1 \subseteq fds
    /\ fds' = fds \cup {fd}
    /\ sock' = [sock EXCEPT ![Head(pending)] = fd]

\* accept fails when no descriptor is free: the server exits.
addNewClient ==
    /\ Turn(serverSocket)
    /\ \/ \E fd \in 0 .. rlimit - 1 :
             tcpAccept(fd) /\ addToPollSet(fd) /\ UNCHANGED server
       \/ /\ 0 .. rlimit - 1 \subseteq fds
          /\ server' = "exited"
          /\ UNCHANGED <<fds, sock, pollvars>>
    /\ pending' = Tail(pending)
    /\ UNCHANGED <<hungup, rlimit, list, toServer, toClient, closed, clientvars>>

\* processClient, a PDU has arrived.
ServePDU(c) ==
    /\ sock[c] \in pollSet /\ Turn(sock[c])
    /\ toServer[c] # <<>>
    /\ check_packet_type(c, Head(toServer[c]))
    /\ toServer' = [toServer EXCEPT ![c] = Tail(@)]
    /\ UNCHANGED <<hungup, rlimit, fds, pollvars, pending, sock, closed, clientvars>>

\* processClient, recv returns 0: the client has closed.
ServeEof(c) ==
    /\ sock[c] \in pollSet /\ Turn(sock[c])
    /\ toServer[c] = <<>> /\ closed[c] = "fin"
    /\ removeFromPollSet(sock[c])
    /\ UNCHANGED <<server, hungup, rlimit, list, tcpvars, clientvars>>

\* processClient, recv fails: a client died with an answer unread, or poll
\* returned an entry for descriptor 0, which is not a socket.
ServeError ==
    /\ \/ \E c \in Clients :
             /\ sock[c] \in pollSet /\ Turn(sock[c])
             /\ toServer[c] = <<>> /\ closed[c] = "reset"
       \/ \E i \in 0 .. maxFileDescriptor - 1 : i \notin pollSet /\ Turn(i)
    /\ server' = "exited"
    /\ UNCHANGED <<hungup, rlimit, fds, pollvars, list, tcpvars, clientvars>>

\* The terminal of the server goes away.
Hangup ==
    /\ ~hungup
    /\ hungup' = TRUE
    /\ UNCHANGED <<server, rlimit, fds, pollvars, list, tcpvars, clientvars>>

ServerTurn ==
    addNewClient \/ ServeError \/ \E c \in Clients : ServePDU(c) \/ ServeEof(c)
-----------------------------------------------------------------------------
(* myClient.c, and the client's part of packets.c *)

Goto(c, where) == client' = [client EXCEPT ![c] = where] /\ UNCHANGED handle

\* What the server's kernel knows of a process that is gone: a reset if it
\* left an answer unread.
CloseSocket(c) ==
    closed' = [closed EXCEPT ![c] = IF toClient[c] = <<>> THEN "fin" ELSE "reset"]

\* tcpClientSetup: an unknown host ends the client, and so does being refused when
\* the server has exited.
Connect(c) ==
    /\ client[c] = "start"
    /\ \/ /\ server # "exited"
          /\ pending' = Append(pending, c)
          /\ Goto(c, "connected")
       \/ Goto(c, "ended") /\ UNCHANGED pending
    /\ UNCHANGED <<servervars, sock, toServer, toClient, closed>>

\* sendPDU: nothing tells it that the server is gone, unless SIGPIPE kills it.
sendPDU(c, p, next) ==
    \/ /\ server # "exited" /\ Len(toServer[c]) < QueueLen
       /\ toServer' = [toServer EXCEPT ![c] = Append(@, p)]
       /\ Goto(c, next)
    \/ /\ server = "exited"
       /\ Goto(c, next) \/ Goto(c, "killed")
       /\ UNCHANGED toServer

\* Mutant: the client does not wait for the answer.
create_packet_one_Again(c) ==
    /\ client[c] = "connected"
    /\ sendPDU(c, [flag |-> INITIAL_PACKET, handle |-> handle[c],
                   size |-> handle[c].len + 2], "connected")
    /\ UNCHANGED <<servervars, pending, sock, toClient, closed>>

create_packet_one(c) ==
    /\ client[c] = "connected"
    /\ sendPDU(c, [flag |-> INITIAL_PACKET, handle |-> handle[c],
                   size |-> handle[c].len + 2], "waiting")
    /\ UNCHANGED <<servervars, pending, sock, toClient, closed>>

\* Mutant: the client leaves without reading its answer.
GetFlag_Impatient(c) ==
    /\ client[c] = "waiting"
    /\ Goto(c, "ended")
    /\ CloseSocket(c)
    /\ UNCHANGED <<servervars, pending, sock, toServer, toClient>>

\* main gets the answer.  If recv returns 0 the flag is a byte of an
\* uninitialised buffer; if it fails the client exits.
GetFlag(c) ==
    /\ client[c] = "waiting"
    /\ \/ /\ toClient[c] # <<>>
          /\ toClient' = [toClient EXCEPT ![c] = Tail(@)]
          /\ \/ Head(toClient[c]) = CONFIRM_GOOD_HANDLE /\ Goto(c, "chatting")
             \/ Head(toClient[c]) # CONFIRM_GOOD_HANDLE /\ Goto(c, "ended")
       \/ /\ toClient[c] = <<>> /\ server = "exited"
          /\ Goto(c, "chatting") \/ Goto(c, "ended")
          /\ UNCHANGED toClient
    /\ closed' = [closed EXCEPT ![c] = IF client'[c] = "ended" THEN "fin" ELSE @]
    /\ UNCHANGED <<servervars, pending, sock, toServer>>

\* message_packets: what follows "%M n ", counted in a uint8_t.
handleBufLen(line) == (line.names + line.text + 1) % Byte

\* message_packets: the handles are copied, then the rest as the text; memcpy
\* is given a negative length if the handles themselves were cut.
message_packets(c) ==
    /\ client[c] = "chatting"
    /\ \E line \in Lines :
          LET text == handleBufLen(line) - line.names IN
          \/ /\ text >= 0
             /\ sendPDU(c, [flag |-> MESSAGE_PACKET, line |-> line, text |-> text,
                            size |-> 3 + (handle[c].len % Byte) + line.names + text],
                        "chatting")
             /\ UNCHANGED closed
          \/ text < 0 /\ Goto(c, "killed") /\ CloseSocket(c) /\ UNCHANGED toServer
    /\ UNCHANGED <<servervars, pending, sock, toClient>>

\* The user types exit, or the server has gone and no line is waiting.
LeaveChat(c) ==
    /\ client[c] = "chatting"
    /\ Goto(c, "ended")
    /\ CloseSocket(c)
    /\ UNCHANGED <<servervars, pending, sock, toServer, toClient>>

\* Standard input ends: it is always ready, it is the lowest descriptor, and
\* readFromStdin takes EOF for a character.  The client never looks up again.
StdinEnds(c) ==
    /\ client[c] = "chatting"
    /\ Goto(c, "spinning")
    /\ UNCHANGED <<servervars, tcpvars>>

\* The client is killed, at any point.
Kill(c) ==
    /\ client[c] \in {"connected", "waiting", "chatting", "spinning"}
    /\ Goto(c, "killed")
    /\ CloseSocket(c)
    /\ UNCHANGED <<servervars, pending, sock, toServer, toClient>>

ClientStep(c) ==
    \/ Connect(c) \/ create_packet_one(c) \/ GetFlag(c) \/ message_packets(c)
    \/ LeaveChat(c) \/ StdinEnds(c) \/ Kill(c)

Next == ServerTurn \/ Hangup \/ \E c \in Clients : ClientStep(c)

Spec == Init /\ [][Next]_vars

\* The server is scheduled; nothing is assumed of clients and users.
FairSpec == Spec /\ WF_vars(ServerTurn)
-----------------------------------------------------------------------------
\* Typing.
TypeOK ==
    /\ server \in {"running", "looping", "exited"} /\ hungup \in BOOLEAN
    /\ rlimit \in FdLimits
    /\ fds \subseteq 0 .. rlimit - 1
    /\ pollSet \subseteq 0 .. rlimit - 1
    /\ sock \in [Clients -> 0 .. rlimit - 1]
    /\ closed \in [Clients -> {"open", "fin", "reset"}]
    /\ client \in [Clients -> {"start", "connected", "waiting", "chatting",
                               "spinning", "ended", "killed"}]
    /\ handle \in [Clients -> Handles]
    /\ \A c \in Clients : Len(toClient[c]) <= 1 /\ Len(toServer[c]) <= QueueLen

\* poll and pollCall scan the entries below maxFileDescriptor: they are all
\* allocated and no watched socket lies beyond them (pollLib.c:37-55,77,87).
PollSetInBounds ==
    /\ maxFileDescriptor <= currentPollSetSize
    /\ \A fd \in pollSet : fd < maxFileDescriptor

\* No two nodes of the list have the same handle (packets.c:173-182).
UniqueHandles ==
    \A i, j \in DOMAIN list : i # j => list[i].handle # list[j].handle

\* The list outlives its clients, so a node's socket must stay that of the
\* client it was registered for: accept never gives it to another one.
SocketKeepsOwner ==
    \A i \in DOMAIN list : \E c \in Clients : \A d \in Clients :
        sock[d] = list[i].socketNum <=> d = c

\* A client the server has told its handle is good is in the list under it
\* with its own socket (packets.c:200-204, myClient.c:59).
ConfirmedIsListed ==
    server # "exited" =>
        \A c \in Clients :
            client[c] = "chatting" \/ toClient[c] = <<CONFIRM_GOOD_HANDLE>> =>
                \E i \in DOMAIN list : list[i] = [handle |-> Sent(handle[c]),
                                                  socketNum |-> sock[c]]

\* The server goes down only in three ways: its terminal has been hung up; accept
\* finds every descriptor in use; or the connection that poll reports is that of a
\* client killed with its answer unread, or brings a first packet whose handle makes
\* it larger than the buffer.  So a client that leaves by itself never brings it
\* down, one that is killed at another time does not, and neither does a line,
\* however long: what message_packets makes of it always fits (myServer.c:67-111,
\* appPDU.c:14-30, pollLib.c:57-79, packets.c:56).
ServerOutlives ==
    [][server = "running" /\ server' = "exited" =>
          \/ hungup
          \/ pending # <<>> /\ 0 .. rlimit - 1 \subseteq fds
          \/ \E c \in Clients :
                /\ sock[c] \in pollSet /\ pollCall(sock[c])
                /\ \/ /\ toServer[c] = <<>> /\ closed[c] = "reset"
                      /\ client[c] = "killed" /\ toClient[c] # <<>>
                   \/ /\ toServer[c] # <<>>
                      /\ Head(toServer[c]).flag = INITIAL_PACKET
                      /\ Head(toServer[c]).size + 2 > MAXBUF]_vars

\* However busy the clients are, a waiting connection is accepted: pollCall
\* favours the lowest descriptor (pollLib.c:8), which is the listening socket.
ConnectionsAccepted ==
    \A c \in Clients :
        c \in {pending[i] : i \in DOMAIN pending}
            ~> sock[c] # 0 \/ server # "running"
-----------------------------------------------------------------------------
\* HandleNode.c:27: "Function sees if the handle exists if so, return the Node
\* that has the handle, otherwise return NULL": it returns.
LookupReturns == server # "looping"
=============================================================================
