-------------------------------- MODULE TcpNet --------------------------------
(***************************************************************************)
(* What the three pairs of programs in lab3 share: the connections between *)
(* a server and its clients as TCP gives them to networks.c, the state of  *)
(* the processes, and what a client may read from its user.  Each server   *)
(* is a module of its own: Lab3Part1, Lab3Part2, Lab3PartB.                *)
(*                                                                         *)
(* A PDU in flight is [len, text]: the bytes after its two length bytes,   *)
(* and whether they are "exit", another "line" or the server's "junk".     *)
(* recv is called with MSG_WAITALL, so a PDU is received as a whole.       *)
(***************************************************************************)
EXTENDS Integers, SequencesExt

CONSTANTS
    Clients,
    ArgCounts,  \* how many arguments a program may be started with
    Typed,      \* how many characters a line may have; all those of a file at its end
    FdLimit,    \* descriptors the server may have for connections
    QueueLen    \* PDUs that fit the socket buffers

MAXBUF == 1024
Byte == 256                 \* values of a uint8_t
Exit == [len |-> 5, text |-> "exit"]
Failed == -1                \* the process exits

ASSUME TcpNetAssumption ==
    Typed \subseteq Nat /\ ArgCounts \subseteq Nat \ {0} /\ FdLimit \in Nat \ {0} /\ QueueLen \in Nat \ {0}

\* A 16-bit number in network order, read by a little-endian machine.
htons(v) == (v % Byte) * Byte + v \div Byte

VARIABLES
    server,     \* "starting", "running" or "exited"
    queue,      \* connections that wait for accept
    serving,    \* connections the server attends to, in descriptor order
    fds,        \* the server's descriptors of connections, in use or not
    buf,        \* what the server's buffer on the stack holds
    up, down,   \* PDUs in flight to the server and to the clients
    ended,      \* "open", or how the client's end was closed: "fin", "reset"
    broken,     \* something was sent to a closed end: a reset is on its way
    client,     \* where each client is
    guilty      \* history: a client did what may bring the server down

servervars == <<server, serving, fds, buf>>
netvars == <<queue, up, down, ended, broken>>
vars == <<servervars, netvars, client, guilty>>

Init ==
    /\ server = "starting"
    /\ queue = <<>> /\ serving = <<>> /\ fds = 0
    /\ buf = "unknown"
    /\ up = [c \in Clients |-> <<>>] /\ down = [c \in Clients |-> <<>>]
    /\ ended = [c \in Clients |-> "open"]
    /\ broken = [c \in Clients |-> FALSE]
    /\ client = [c \in Clients |-> "start"]
    /\ guilty = FALSE

InSeq(c, s) == \E i \in DOMAIN s : s[i] = c
\* A client has one connection at most.
Without(s, c) == RemoveAt(s, CHOOSE i \in DOMAIN s : s[i] = c)
-----------------------------------------------------------------------------
\* The server listens, unless its port is taken.
tcpServerSetup == server' \in {"running", "exited"}

\* Mutant: the result of accept is not looked at.
tcpAccept_Unchecked ==
    /\ server = "running" /\ queue # <<>>
    /\ serving' = Append(serving, Head(queue))
    /\ fds' = fds + 1
    /\ queue' = Tail(queue)
    /\ buf' = "unknown"
    /\ UNCHANGED <<server, up, down, ended, broken, client, guilty>>

\* The first connection gets a descriptor; without one the server exits.  What
\* the calls it makes leave on the stack is unknown.
tcpAccept ==
    /\ server = "running" /\ queue # <<>>
    /\ \/ /\ fds < FdLimit
          /\ serving' = Append(serving, Head(queue))
          /\ fds' = fds + 1
          /\ UNCHANGED server
       \/ /\ fds = FdLimit
          /\ server' = "exited"
          /\ UNCHANGED <<serving, fds>>
    /\ queue' = Tail(queue)
    /\ buf' = "unknown"
    /\ UNCHANGED <<up, down, ended, broken, client, guilty>>

\* The server sends on a connection.  Once the reset has come that kills it.
ServerSends(c, pdu) ==
    \/ /\ ended[c] = "open"
       /\ down' = [down EXCEPT ![c] = Append(@, pdu)]
       /\ UNCHANGED <<server, broken>>
    \/ /\ ended[c] = "fin"
       /\ broken' = [broken EXCEPT ![c] = TRUE]
       /\ UNCHANGED <<server, down>>
    \/ /\ ended[c] = "reset" \/ broken[c]
       /\ server' = "exited"
       /\ UNCHANGED <<down, broken>>
-----------------------------------------------------------------------------
\* A client that does not get as far as its loop.
NotStarted(c) == client' = [client EXCEPT ![c] = "ended"] /\ UNCHANGED queue

\* An unknown host or a server that does not listen ends the client.
tcpClientSetup(c) ==
    \/ /\ server = "running"
       /\ queue' = Append(queue, c)
       /\ client' = [client EXCEPT ![c] = "reading"]
    \/ NotStarted(c)

\* What main may be given: a line, cut at the buffer, with its NUL.  At the end of
\* the input getchar's EOF is taken for characters until the buffer is full.
readFromStdin ==
    {Exit} \cup {[len |-> (IF n < MAXBUF - 1 THEN n ELSE MAXBUF - 1) + 1,
                  text |-> "line"] : n \in Typed}

\* A client's PDU is on its way; if the server is gone that is not noticed, or
\* kills the client.
ClientSends(c, pdu, next) ==
    \/ /\ server = "running" /\ Len(up[c]) < QueueLen
       /\ up' = [up EXCEPT ![c] = Append(@, pdu)]
       /\ client' = [client EXCEPT ![c] = next]
    \/ /\ server = "exited"
       /\ client' \in {[client EXCEPT ![c] = next], [client EXCEPT ![c] = "ended"]}
       /\ UNCHANGED up

\* How the server's host sees a client that has gone.
Closed(c) == IF down[c] = <<>> THEN "fin" ELSE "reset"

\* A client is killed.  One that waits for an answer may harm the server.
Kill(c) ==
    /\ client[c] \in {"reading", "waiting"}
    /\ client' = [client EXCEPT ![c] = "ended"]
    /\ ended' = [ended EXCEPT ![c] = Closed(c)]
    /\ guilty' = (guilty \/ client[c] = "waiting")
    /\ UNCHANGED <<servervars, queue, up, down, broken>>

\* The user starts the client again, with a new connection.
Restart(c) ==
    /\ client[c] = "ended"
    /\ server # "exited"
    /\ ~InSeq(c, queue) /\ ~InSeq(c, serving)
    /\ client' = [client EXCEPT ![c] = "start"]
    /\ up' = [up EXCEPT ![c] = <<>>] /\ down' = [down EXCEPT ![c] = <<>>]
    /\ ended' = [ended EXCEPT ![c] = "open"]
    /\ broken' = [broken EXCEPT ![c] = FALSE]
    /\ UNCHANGED <<servervars, queue, guilty>>
=============================================================================
