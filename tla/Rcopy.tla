-------------------------------- MODULE Rcopy --------------------------------
(***************************************************************************)
(* Program3/rcopy.c, the client of the file transfer, with its window of   *)
(* out-of-order PDUs (Program3/windowing.c).  Each action is one pass      *)
(* through the state loop of processFile.  The module leaves the network   *)
(* open: an action that receives takes the datagram as a parameter, and    *)
(* sent holds the datagrams the last pass sent.  Next receives any member  *)
(* of Packets at any time; FileTransfer connects the client to a server.   *)
(*                                                                         *)
(* A datagram is [src, dst, flag, seq, arg, ok]: arg is the payload (the   *)
(* block of a DATA, the number in an RR or SREJ), ok its checksum.  An     *)
(* address is a pair: each socket has its own.                             *)
(***************************************************************************)
EXTENDS Integers, Sequences

CONSTANTS
    WindowSize,    \* argv: the size of the window, positive (check_args)
    MaxTries,      \* MAX_TRIES
    ServerAddr,    \* the address of the server's main port
    Packets,       \* the datagrams an open network may deliver
    MaxSockets,    \* bound of the model: passes through start_state
    Null,          \* a NULL slot of pduArray
    Garbage,       \* a slot holding what malloc left there, not NULL
    HeapWords,     \* what malloc may leave in a slot: Null or Garbage
    Junk           \* the bytes a garbage PDU_Data points to

ASSUME RcopyAssumption ==
    /\ WindowSize \in Nat \ {0}
    /\ MaxTries \in Nat
    /\ MaxSockets \in Nat
    /\ Null \notin Nat /\ Garbage \notin Nat /\ Null # Garbage
    /\ HeapWords \subseteq {Null, Garbage}

START_SEQ_NUM == 1

VARIABLES
    state,             \* the STATE of processFile, or "crashed"
    retryCount,        \* filename's static counter
    clientSeqNum,      \* number of the next FNAME or EOF_ACK
    sk,                \* the socket: how many start_state has opened
    remote,            \* server->remote: where send_buf sends to
    expected_seq_num,  \* recv_data's static counter
    pduArray,          \* window->pduArray: slot index -> PDU_Data
    opened,            \* the output file exists (file_ok)
    output,            \* the blocks written to it
    message,           \* why the client stopped
    sent,              \* the datagrams sent by the last pass
    \* two history variables, for the properties
    clean,             \* malloc returned an array of NULLs
    unwritten          \* the numbers of the blocks whose write failed

vars == <<state, retryCount, clientSeqNum, sk, remote, expected_seq_num,
          pduArray, opened, output, message, sent, clean, unwritten>>

history == <<clean, unwritten>>

Slots == 0 .. WindowSize - 1
Holds(i) == pduArray[i] \in Nat

Init ==
    /\ state = "START_STATE"
    /\ retryCount = 0
    /\ clientSeqNum = 0
    /\ sk = 0
    /\ remote = ServerAddr
    /\ expected_seq_num = START_SEQ_NUM
    /\ pduArray \in [Slots -> HeapWords]
    /\ opened = FALSE
    /\ output = <<>>
    /\ message = "none"
    /\ sent = <<>>
    /\ clean = (\A i \in Slots : pduArray[i] = Null)
    /\ unwritten = {}

\* Mutant: every datagram goes to the main port.
send_buf_ToServer(flag, arg) ==
    sent' = <<[src |-> <<"rcopy", sk'>>, dst |-> ServerAddr, flag |-> flag,
               seq |-> clientSeqNum, arg |-> arg, ok |-> TRUE]>>

\* send_buf: to the address in server->remote, from the current socket.
send_buf(flag, arg) ==
    sent' = <<[src |-> <<"rcopy", sk'>>, dst |-> remote', flag |-> flag,
               seq |-> clientSeqNum, arg |-> arg, ok |-> TRUE]>>

Stop(why) == state' = "DONE" /\ message' = why

isWindowEmpty == \A i \in Slots : pduArray[i] = Null

addPDUtoWindow(seq) == pduArray' = [pduArray EXCEPT ![seq % WindowSize] = seq]
-----------------------------------------------------------------------------
\* A new socket; the address is again that of the user's host and port.
udpClientSetup == sk' = sk + 1 /\ remote' = ServerAddr

\* A new socket and a new FNAME; DONE if the host name does not resolve.
start_state ==
    /\ state = "START_STATE"
    /\ sk < MaxSockets
    /\ udpClientSetup
    /\ \/ /\ send_buf("FNAME", 0)
          /\ clientSeqNum' = clientSeqNum + 1
          /\ state' = "FILENAME"
          /\ UNCHANGED message
       \/ /\ Stop("host_not_found")
          /\ sent' = <<>>
          /\ UNCHANGED clientSeqNum
    /\ UNCHANGED <<retryCount, expected_seq_num, pduArray, opened, output, history>>

\* Mutant: processSelect allows one try too many.
FilenameTimeout_OneMore ==
    /\ state = "FILENAME"
    /\ retryCount <= MaxTries
    /\ retryCount' = retryCount + 1
    /\ state' = "START_STATE"
    /\ sent' = <<>>
    /\ UNCHANGED <<clientSeqNum, sk, remote, expected_seq_num, pduArray,
                   opened, output, message, history>>

\* No reply within a second: try again on a new socket.
FilenameTimeout ==
    /\ state = "FILENAME"
    /\ retryCount < MaxTries
    /\ retryCount' = retryCount + 1
    /\ state' = "START_STATE"
    /\ sent' = <<>>
    /\ UNCHANGED <<clientSeqNum, sk, remote, expected_seq_num, pduArray,
                   opened, output, message, history>>

\* processSelect was called more than MAX_TRIES times without a reply.
FilenameGiveUp ==
    /\ state = "FILENAME"
    /\ retryCount >= MaxTries
    /\ retryCount' = retryCount + 1
    /\ Stop("no_response")
    /\ sent' = <<>>
    /\ UNCHANGED <<clientSeqNum, sk, remote, expected_seq_num, pduArray,
                   opened, output, history>>

\* Mutant: the checksum is not looked at; a flipped reply has no known flag.
FilenameReply_NoChecksum(p) ==
    /\ state = "FILENAME"
    /\ retryCount < MaxTries
    /\ retryCount' = 0
    /\ remote' = p.src
    /\ \/ p.ok /\ p.flag = "FNAME_BAD" /\ Stop("file_not_found")
       \/ ~(p.ok /\ p.flag = "FNAME_BAD") /\ state' = "FILE_OK" /\ UNCHANGED message
    /\ sent' = <<>>
    /\ UNCHANGED <<clientSeqNum, sk, expected_seq_num, pduArray, opened, output, history>>

\* Any intact datagram but FNAME_BAD counts as FNAME_OK, and is dropped.
FilenameReply(p) ==
    /\ state = "FILENAME"
    /\ retryCount < MaxTries
    /\ retryCount' = 0
    /\ remote' = p.src
    /\ \/ ~p.ok /\ state' = "START_STATE" /\ UNCHANGED message
       \/ p.ok /\ p.flag = "FNAME_BAD" /\ Stop("file_not_found")
       \/ p.ok /\ p.flag # "FNAME_BAD" /\ state' = "FILE_OK" /\ UNCHANGED message
    /\ sent' = <<>>
    /\ UNCHANGED <<clientSeqNum, sk, expected_seq_num, pduArray, opened, output, history>>

\* Creates or truncates the output file; DONE if that fails.
file_ok ==
    /\ state = "FILE_OK"
    /\ \/ state' = "RECV_DATA" /\ opened' = TRUE /\ UNCHANGED message
       \/ Stop("open_failed") /\ UNCHANGED opened
    /\ sent' = <<>>
    /\ UNCHANGED <<retryCount, clientSeqNum, sk, remote, expected_seq_num,
                   pduArray, output, history>>
-----------------------------------------------------------------------------
\* Mutant: the wait of ten seconds starts again.
RecvTimeout_TryAgain ==
    /\ state = "RECV_DATA"
    /\ sent' = <<>>
    /\ UNCHANGED <<state, retryCount, clientSeqNum, sk, remote, expected_seq_num,
                   pduArray, opened, output, message, history>>

\* recv_data: nothing arrived for ten seconds.
RecvTimeout ==
    /\ state = "RECV_DATA"
    /\ Stop("timeout")
    /\ sent' = <<>>
    /\ UNCHANGED <<retryCount, clientSeqNum, sk, remote, expected_seq_num,
                   pduArray, opened, output, history>>

\* recv_buf records the sender even of a datagram with a bad checksum.
RecvFrom(p) ==
    /\ state = "RECV_DATA"
    /\ remote' = p.src
    /\ UNCHANGED <<retryCount, sk, opened>>

RecvCorrupt(p) ==
    /\ RecvFrom(p)
    /\ ~p.ok
    /\ sent' = <<>>
    /\ UNCHANGED <<state, clientSeqNum, expected_seq_num, pduArray, output,
                   message, history>>

\* END_OF_FILE ends the transfer whatever its number and the window hold.
RecvEof(p) ==
    /\ RecvFrom(p)
    /\ p.ok /\ p.flag = "END_OF_FILE"
    /\ send_buf("EOF_ACK", 0)
    /\ clientSeqNum' = clientSeqNum + 1
    /\ Stop("file_done")
    /\ UNCHANGED <<expected_seq_num, pduArray, output, history>>

\* Every other flag is taken for DATA.
RecvPdu(p) ==
    /\ RecvFrom(p)
    /\ p.ok /\ p.flag # "END_OF_FILE"
    /\ UNCHANGED <<clientSeqNum, message>>

\* Mutant: any block not yet received is taken for the next one.
RecvInOrder_AnyLater(p) ==
    /\ RecvPdu(p)
    /\ p.seq >= expected_seq_num /\ isWindowEmpty
    /\ expected_seq_num' = expected_seq_num + 1
    /\ send_buf("RR", 0)
    /\ output' = Append(output, p.arg)
    /\ UNCHANGED <<state, pduArray, history>>

\* Mutant: the window is not looked at.
RecvInOrder_IgnoresWindow(p) ==
    /\ RecvPdu(p)
    /\ p.seq = expected_seq_num
    /\ expected_seq_num' = expected_seq_num + 1
    /\ send_buf("RR", 0)
    /\ output' = Append(output, p.arg)
    /\ UNCHANGED <<state, pduArray, history>>

\* Mutant: expected_seq_num is not incremented.
RecvInOrder_NotCounted(p) ==
    /\ RecvPdu(p)
    /\ p.seq = expected_seq_num /\ isWindowEmpty
    /\ send_buf("RR", 0)
    /\ output' = Append(output, p.arg)
    /\ UNCHANGED <<state, pduArray, expected_seq_num, history>>

\* The next block, nothing buffered: send an RR, then write.  The result of
\* write is not looked at.
RecvInOrder(p) ==
    /\ RecvPdu(p)
    /\ p.seq = expected_seq_num /\ isWindowEmpty
    /\ expected_seq_num' = expected_seq_num + 1
    /\ send_buf("RR", 0)
    /\ \/ output' = Append(output, p.arg) /\ UNCHANGED unwritten
       \/ unwritten' = unwritten \cup {p.seq} /\ UNCHANGED output
    /\ UNCHANGED <<state, pduArray, clean>>

\* The loop of recv_data reads slot after slot and crashes at the first Null one
\* (it reads seqNum before it tests for NULL); a garbage slot crashes it or reads
\* as any number.  stop is the slot it crashes at, below the n slots it finds to
\* be below p.seq and counts.
Slide(p, stop, n, below) ==
    /\ stop < WindowSize => ~Holds(stop)
    /\ \A k \in 1 .. n - 1 : below[k] < below[k + 1]
    /\ \A i \in 0 .. stop - 1 :
          /\ pduArray[i] # Null
          /\ Holds(i) => (pduArray[i] < p.seq <=> \E k \in 1 .. n : below[k] = i)
    /\ expected_seq_num' = expected_seq_num + n

\* Those of below it manages to write: a stored PDU points to data_buf, now the
\* datagram p, a garbage one anywhere.
SlideWrites(p, n, below) ==
    \E w \in 0 .. n : \E put \in [1 .. w -> 1 .. n] :
        /\ \A k \in 1 .. w - 1 : put[k] < put[k + 1]
        /\ output' = output \o [k \in 1 .. w |->
                                   IF Holds(below[put[k]]) THEN p.arg ELSE Junk]

\* The next block, but the window is not empty: the loop, and process_RR(window,
\* 0), which reads all the slots again and frees none.
RecvSlide(p) ==
    /\ RecvPdu(p)
    /\ p.seq = expected_seq_num /\ ~isWindowEmpty
    /\ \E stop \in 0 .. WindowSize : \E n \in 0 .. stop :
       \E below \in [1 .. n -> 0 .. stop - 1] :
          /\ Slide(p, stop, n, below)
          /\ SlideWrites(p, n, below)
          /\ \/ stop = WindowSize /\ UNCHANGED state
             \/ /\ stop < WindowSize \/ \E i \in Slots : pduArray[i] = Garbage
                /\ state' = "crashed"
    /\ sent' = <<>>
    /\ UNCHANGED <<pduArray, history>>

\* Mutant: what has been received is written, too.
RecvOld_Written(p) ==
    /\ RecvPdu(p)
    /\ p.seq < expected_seq_num
    /\ send_buf("RR", 0)
    /\ output' = Append(output, p.arg)
    /\ UNCHANGED <<state, expected_seq_num, pduArray, history>>

\* A block already received: send an RR.
RecvOld(p) ==
    /\ RecvPdu(p)
    /\ p.seq < expected_seq_num
    /\ send_buf("RR", 0)
    /\ UNCHANGED <<state, expected_seq_num, pduArray, output, history>>

\* Mutant: the expected block itself is buffered.
RecvAhead_OrEqual(p) ==
    /\ RecvPdu(p)
    /\ p.seq >= expected_seq_num
    /\ send_buf("SREJ", p.seq)
    /\ addPDUtoWindow(p.seq)
    /\ UNCHANGED <<state, expected_seq_num, output, history>>

\* A block too far: send a SREJ with its number and buffer it.
RecvAhead(p) ==
    /\ RecvPdu(p)
    /\ p.seq > expected_seq_num
    /\ send_buf("SREJ", p.seq)
    /\ addPDUtoWindow(p.seq)
    /\ UNCHANGED <<state, expected_seq_num, output, history>>

Receive(p) ==
    \/ FilenameReply(p)
    \/ RecvCorrupt(p) \/ RecvEof(p)
    \/ RecvInOrder(p) \/ RecvSlide(p) \/ RecvOld(p) \/ RecvAhead(p)

\* The passes that receive nothing.
Internal ==
    \/ start_state \/ FilenameTimeout \/ FilenameGiveUp \/ file_ok \/ RecvTimeout

Next == Internal \/ \E p \in Packets : Receive(p)

Spec == Init /\ [][Next]_vars
-----------------------------------------------------------------------------
\* Typing: a slot is what malloc left, or the number of a stored PDU; the
\* counters are naturals and filename counts at most one call past MAX_TRIES.
TypeOK ==
    /\ state \in {"START_STATE", "FILENAME", "FILE_OK", "RECV_DATA", "DONE", "crashed"}
    /\ retryCount \in 0 .. MaxTries + 1
    /\ clientSeqNum \in Nat /\ sk \in 0 .. MaxSockets
    /\ expected_seq_num \in Nat \ {0}
    /\ pduArray \in [Slots -> HeapWords \cup Nat]
    /\ output \in Seq(Nat \cup {Junk})
    /\ opened \in BOOLEAN /\ clean \in BOOLEAN
    /\ unwritten \subseteq 1 .. expected_seq_num - 1

\* Whatever order, loss and duplication the network produces, the output file
\* is the blocks 1, 2, ... up to the one recv_data expects next, in order and
\* each once; only those whose write failed are missing (rcopy.c:220-226).
OutputInOrder ==
    clean =>
        /\ \A j \in 1 .. Len(output) : \A i \in 1 .. j - 1 : output[i] < output[j]
        /\ {output[i] : i \in 1 .. Len(output)}
              = (1 .. expected_seq_num - 1) \ unwritten

\* The window holds only PDUs that are still to be written (rcopy.c:248-251).
BufferedAhead ==
    clean => \A i \in Slots : Holds(i) => pduArray[i] > expected_seq_num

\* recv_data never gets past the first gap: once a PDU is buffered the file
\* grows no more, since nothing empties the window (rcopy.c:227-240).
StuckOnceBuffered ==
    [][clean /\ ~isWindowEmpty => UNCHANGED <<expected_seq_num, output>>]_vars

\* Whatever malloc left in the window, the file never goes back: among the junk a
\* block is never followed by an earlier one, and it is repeated only by the pass of
\* the loop that writes it for several slots, whose pdu all point to data_buf
\* (rcopy.c:220-246, windowing.c:51).
NeverGoesBack ==
    \A i, j \in 1 .. Len(output) :
        i < j /\ Junk \notin {output[i], output[j]} =>
            \/ output[i] < output[j]
            \/ output[i] = output[j] /\ j - i < WindowSize
-----------------------------------------------------------------------------
\* rcopy.c:231 tests "window->pduArray[i] != NULL": a window with an unused
\* slot is to be survived.
SurvivesUnusedSlots == state # "crashed"
=============================================================================
