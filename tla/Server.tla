-------------------------------- MODULE Server --------------------------------
(***************************************************************************)
(* Program3/server.c: the process that owns the main port (process_server) *)
(* and the child it forks for each datagram it receives (process_client).  *)
(* Child c sends and receives on a socket of its own, <<"child", c>>.  Like*)
(* Rcopy, the module leaves the network open: served holds the datagrams   *)
(* the last step sent, a receiving action takes its datagram p.            *)
(*                                                                         *)
(* WAIT_ON_ACK and TIMEOUT_ON_ACK are not here: no child reaches them      *)
(* (SendBlock).                                                            *)
(***************************************************************************)
EXTENDS Integers, Sequences

CONSTANTS
    MaxTries,     \* MAX_TRIES
    MaxChildren,  \* bound of the model: children forked
    Files,        \* the contents of the file asked for: sequences, Absent
    Absent        \* the file does not exist

VARIABLES
    file,    \* what the server's file system holds under the name asked for
    parent,  \* "serving" or "exited"
    forked,  \* number of children so far
    child,   \* their states
    served   \* the datagrams sent by the last step

vars == <<file, parent, forked, child, served>>

Children == 1 .. MaxChildren

\* A child: its state, the address in client->remote, the static counter of
\* wait_on_eof_ack, and what it printed when it ended.
NotForked == [state |-> "none", client |-> <<"none", 0>>, retryCount |-> 0,
              message |-> "none"]

Init ==
    /\ file \in Files
    /\ parent = "serving"
    /\ forked = 0
    /\ child = [c \in Children |-> NotForked]
    /\ served = <<>>

send_buf(c, flag, seq, arg) ==
    served' = <<[src |-> <<"child", c>>, dst |-> child[c].client, flag |-> flag,
                 seq |-> seq, arg |-> arg, ok |-> TRUE]>>
-----------------------------------------------------------------------------
\* A child is forked for every intact datagram, whatever its flag; if fork
\* fails the server exits.
process_server(p) ==
    /\ parent = "serving"
    /\ \/ ~p.ok /\ UNCHANGED <<parent, forked, child>>
       \/ /\ p.ok
          /\ forked < MaxChildren
          /\ forked' = forked + 1
          /\ child' = [child EXCEPT ![forked + 1] =
                          [NotForked EXCEPT !.state = "FILENAME", !.client = p.src]]
          /\ UNCHANGED parent
       \/ p.ok /\ parent' = "exited" /\ UNCHANGED <<forked, child>>
    /\ served' = <<>>
    /\ UNCHANGED file

\* Opens the file and answers from the child's new socket.
filename(c) ==
    /\ child[c].state = "FILENAME"
    /\ \/ /\ file = Absent
          /\ send_buf(c, "FNAME_BAD", 0, 0)
          /\ child' = [child EXCEPT ![c].state = "DONE"]
       \/ /\ file # Absent
          /\ send_buf(c, "FNAME_OK", 0, 0)
          /\ child' = [child EXCEPT ![c].state = "SEND_DATA"]
    /\ UNCHANGED <<file, parent, forked>>

\* send_data, read fails.
ReadError(c) ==
    /\ child[c].state = "SEND_DATA"
    /\ child' = [child EXCEPT ![c].state = "DONE"]
    /\ served' = <<>>
    /\ UNCHANGED <<file, parent, forked>>

\* Mutant: the window is not NULL; nothing more is read after the first block.
SendBlock_HasWindow(c) ==
    /\ child[c].state = "SEND_DATA"
    /\ file # <<>>
    /\ send_buf(c, "DATA", 1, file[1])
    /\ child' = [child EXCEPT ![c].state = "TIMEOUT_ON_EOF_ACK"]
    /\ UNCHANGED <<file, parent, forked>>

\* send_data, read returns a block: the child sends it as number 1 and is
\* killed in addPDUtoWindow, because process_client's window is still NULL
\* (filename assigns the new Window to its own parameter).
SendBlock(c) ==
    /\ child[c].state = "SEND_DATA"
    /\ file # <<>>
    /\ send_buf(c, "DATA", 1, file[1])
    /\ child' = [child EXCEPT ![c].state = "crashed"]
    /\ UNCHANGED <<file, parent, forked>>

\* send_data, nothing to read; timeout_on_eof_ack sends the same packet again.
SendEof(c) ==
    /\ \/ child[c].state = "SEND_DATA" /\ file = <<>>
       \/ child[c].state = "TIMEOUT_ON_EOF_ACK"
    /\ send_buf(c, "END_OF_FILE", 1, 0)
    /\ child' = [child EXCEPT ![c].state = "WAIT_ON_EOF_ACK"]
    /\ UNCHANGED <<file, parent, forked>>

\* wait_on_eof_ack, nothing arrives within a second.
WaitTimeout(c) ==
    /\ child[c].state = "WAIT_ON_EOF_ACK"
    /\ child[c].retryCount < MaxTries
    /\ child' = [child EXCEPT ![c].state = "TIMEOUT_ON_EOF_ACK",
                              ![c].retryCount = @ + 1]
    /\ served' = <<>>
    /\ UNCHANGED <<file, parent, forked>>

\* After MAX_TRIES processSelect returns DONE, which is also the state for data
\* being ready: the child calls recv_buf and blocks in it.
WaitGiveUp(c) ==
    /\ child[c].state = "WAIT_ON_EOF_ACK"
    /\ child[c].retryCount >= MaxTries
    /\ child' = [child EXCEPT ![c].state = "recvfrom",
                              ![c].retryCount = @ + 1]
    /\ served' = <<>>
    /\ UNCHANGED <<file, parent, forked>>

\* Mutant: any intact datagram is taken for the EOF_ACK.
wait_on_eof_ack_AnyFlag(c, p) ==
    /\ child[c].state = "WAIT_ON_EOF_ACK" /\ child[c].retryCount < MaxTries
    /\ p.ok
    /\ child' = [child EXCEPT
          ![c] = [state |-> "DONE", client |-> p.src, message |-> "success",
                  retryCount |-> 0]]
    /\ served' = <<>>
    /\ UNCHANGED <<file, parent, forked>>

\* wait_on_eof_ack receives: only a select that finds data resets the counter.
wait_on_eof_ack(c, p) ==
    /\ \/ child[c].state = "WAIT_ON_EOF_ACK" /\ child[c].retryCount < MaxTries
       \/ child[c].state = "recvfrom"
    /\ \E s \in {"WAIT_ON_EOF_ACK", "DONE"}, m \in {"none", "success", "unexpected"} :
          /\ child' = [child EXCEPT
                ![c] = [state |-> s, client |-> p.src, message |-> m,
                        retryCount |-> IF @.state = "recvfrom"
                                       THEN @.retryCount ELSE 0]]
          /\ \/ ~p.ok /\ s = "WAIT_ON_EOF_ACK" /\ m = "none"
             \/ p.ok /\ p.flag # "EOF_ACK" /\ s = "DONE" /\ m = "unexpected"
             \/ p.ok /\ p.flag = "EOF_ACK" /\ s = "DONE" /\ m = "success"
    /\ served' = <<>>
    /\ UNCHANGED <<file, parent, forked>>

\* The steps of a child that receive nothing.
Internal(c) ==
    \/ filename(c) \/ ReadError(c) \/ SendBlock(c) \/ SendEof(c)
    \/ WaitTimeout(c) \/ WaitGiveUp(c)

\* Delivery of p to whoever owns the socket it is sent to.
Receive(p) ==
    \/ p.dst[1] = "server" /\ process_server(p)
    \/ p.dst[1] = "child" /\ wait_on_eof_ack(p.dst[2], p)
=============================================================================
