-------------------------- MODULE FileTransfer_proofs --------------------------
(***************************************************************************)
(* Proofs about FileTransfer for every window size, every number of tries, *)
(* children and faults, and all contents of the file.                      *)
(***************************************************************************)
EXTENDS FileTransfer, TLAPS

Addresses == {"rcopy", "server", "child"} \X Nat
Flags == {"FNAME", "RR", "SREJ", "EOF_ACK", "FNAME_OK", "FNAME_BAD", "DATA", "END_OF_FILE"}
Datagrams == [src : Addresses, dst : Addresses, flag : Flags, seq : Nat, arg : Nat,
              ok : BOOLEAN]
ChildStates == {"none", "FILENAME", "SEND_DATA", "WAIT_ON_EOF_ACK", "TIMEOUT_ON_EOF_ACK",
                "recvfrom", "DONE", "crashed"}
ChildRecords == [state : ChildStates, client : {"none", "rcopy"} \X Nat, retryCount : Nat,
                 message : {"none", "success", "unexpected"}]
ChildSockets == {<<"child", c>> : c \in S!Children}

\* What a datagram of rcopy says: it goes to the main port if it is a FNAME, else to
\* the child that was heard last; an EOF_ACK means that rcopy has said "File done".
FromClient(p) ==
    /\ p.src[1] = "rcopy"
    /\ \/ p.flag = "FNAME" /\ p.dst = <<"server", 0>>
       \/ p.flag \in {"RR", "SREJ"} /\ p.dst \in ChildSockets
       \/ p.flag = "EOF_ACK" /\ p.dst = remote /\ remote \in ChildSockets
              /\ message = "file_done"

\* What a datagram of a child says of the file: only block 1 is ever sent.
FromChild(p) ==
    /\ p.src \in ChildSockets /\ p.dst[1] = "rcopy" /\ p.seq \in {0, 1}
    /\ \/ p.flag = "FNAME_BAD" /\ file = Absent
       \/ p.flag = "FNAME_OK" /\ p.seq = 0 /\ file # Absent
       \/ p.flag = "DATA" /\ p.seq = 1 /\ file \notin {Absent, <<>>} /\ p.arg = file[1]
       \/ p.flag = "END_OF_FILE" /\ file = <<>>

Fits(p) == p \in Datagrams /\ (FromClient(p) \/ FromChild(p))

NetInv == \A p \in InFlight : Fits(p)

\* Nothing is ever put in the window: it is what malloc left.
WindowAsFound ==
    /\ clean \in BOOLEAN
    /\ clean <=> C!isWindowEmpty
    /\ \A i \in C!Slots : ~C!Holds(i)

\* What rcopy has counted and written.  From a clean window that is block 1 at most,
\* from a dirty one junk.
ClientInv ==
    /\ state \in {"START_STATE", "FILENAME", "FILE_OK", "RECV_DATA", "DONE", "crashed"}
    /\ clientSeqNum \in Nat /\ sk \in Nat /\ remote \in Addresses
    /\ WindowAsFound
    /\ opened \/ state \in {"FILE_OK", "RECV_DATA"} => file # Absent
    /\ expected_seq_num \in Nat \ {0}
    /\ expected_seq_num # 1 \/ output # <<>> => file \notin {Absent, <<>>}
    /\ clean => \/ expected_seq_num = 1 /\ output = <<>>
                \/ expected_seq_num = 2 /\ output \in {<<>>, <<file[1]>>}
    /\ ~clean => output \in Seq({Junk})
    /\ message = "file_done" => state = "DONE" /\ file = <<>>

ServerInv ==
    /\ file \in Files /\ forked \in 0 .. MaxChildren
    /\ child \in [S!Children -> ChildRecords]
    /\ \A c \in S!Children :
          /\ child[c].state # "none" => child[c].client[1] = "rcopy"
          /\ child[c].state = "SEND_DATA" => file # Absent
          /\ child[c].state \in {"WAIT_ON_EOF_ACK", "TIMEOUT_ON_EOF_ACK", "recvfrom"}
                => file = <<>>
          /\ child[c].message = "success" =>
                message = "file_done" /\ remote = <<"child", c>>

IInv == NetInv /\ ClientInv /\ ServerInv
-----------------------------------------------------------------------------
\* What is in a sum or a difference of bags.
LEMMA BagSum ==
    ASSUME NEW A, NEW B
    PROVE  BagToSet(A (+) B) = BagToSet(A) \cup BagToSet(B)
  BY DEF BagToSet, (+)

LEMMA BagDifference ==
    ASSUME NEW A, NEW B
    PROVE  BagToSet(A (-) B) \subseteq BagToSet(A)
  BY DEF BagToSet, (-)

LEMMA BagOfSet ==
    ASSUME NEW A
    PROVE  BagToSet(SetToBag(A)) = A
  BY DEF BagToSet, SetToBag

\* A step adds to the datagrams in flight those it sends, and no others.
LEMMA OnlySent ==
    ASSUME NEW A, NEW s
    PROVE  \A d \in BagToSet(A (+) Sending(s)) :
              d \in BagToSet(A) \/ \E i \in DOMAIN s : d = s[i]
  BY BagSum, BagOfSet DEF Sending

\* What send_buf of rcopy sends.
LEMMA SendBuf ==
    ASSUME NEW flag \in Flags, NEW arg \in Nat, C!send_buf(flag, arg),
           sk' \in Nat, clientSeqNum \in Nat, remote' \in Addresses
    PROVE  \E d \in Datagrams :
              sent' = <<d>> /\ d.src[1] = "rcopy" /\ d.flag = flag /\ d.dst = remote'
  <1>1. <<"rcopy", sk'>> \in Addresses
    BY DEF Addresses
  <1>2. PICK src \in Addresses : src = <<"rcopy", sk'>>
    BY <1>1
  <1>3. PICK dst \in Addresses : dst = remote'
    OBVIOUS
  <1> DEFINE d == [src |-> src, dst |-> dst, flag |-> flag, seq |-> clientSeqNum,
                   arg |-> arg, ok |-> TRUE]
  <1>4. d \in Datagrams
    BY DEF Datagrams
  <1>5. sent' = <<d>>
    BY <1>2, <1>3 DEF C!send_buf
  <1>6. d.src[1] = "rcopy" /\ d.flag = flag /\ d.dst = remote'
    BY <1>2, <1>3
  <1> QED
    BY <1>4, <1>5, <1>6
-----------------------------------------------------------------------------
LEMMA WindowKept ==
    ASSUME WindowAsFound, UNCHANGED <<pduArray, clean>>
    PROVE  WindowAsFound'
  BY DEF WindowAsFound, C!isWindowEmpty, C!Slots, C!Holds

\* The loop over a window in which no PDU has been put writes only what lay in memory,
\* and counts what it writes.
LEMMA SlideWritesJunk ==
    ASSUME WindowAsFound, NEW p, C!RecvSlide(p)
    PROVE  \E n \in Nat, written \in Seq({Junk}) :
              expected_seq_num' = expected_seq_num + n /\ output' = output \o written
  <1> USE FileTransferAssumption
  <1>1. PICK stop \in 0 .. WindowSize : \E n \in 0 .. stop :
             \E below \in [1 .. n -> 0 .. stop - 1] :
                C!Slide(p, stop, n, below) /\ C!SlideWrites(p, n, below)
    BY DEF C!RecvSlide
  <1>2. PICK n \in 0 .. stop : \E below \in [1 .. n -> 0 .. stop - 1] :
                C!Slide(p, stop, n, below) /\ C!SlideWrites(p, n, below)
    BY <1>1
  <1>3. PICK below \in [1 .. n -> 0 .. stop - 1] :
                C!Slide(p, stop, n, below) /\ C!SlideWrites(p, n, below)
    BY <1>2
  <1>4. PICK w \in 0 .. n : \E put \in [1 .. w -> 1 .. n] :
                output' = output \o [k \in 1 .. w |->
                                       IF C!Holds(below[put[k]]) THEN p.arg ELSE Junk]
    BY <1>3 DEF C!SlideWrites
  <1>5. PICK put \in [1 .. w -> 1 .. n] :
                output' = output \o [k \in 1 .. w |->
                                       IF C!Holds(below[put[k]]) THEN p.arg ELSE Junk]
    BY <1>4
  <1>6. PICK written : written = [k \in 1 .. w |->
                                    IF C!Holds(below[put[k]]) THEN p.arg ELSE Junk]
    OBVIOUS
  <1>7. \A k \in 1 .. w : ~C!Holds(below[put[k]])
    <2> SUFFICES ASSUME NEW k \in 1 .. w
                 PROVE  ~C!Holds(below[put[k]])
      OBVIOUS
    <2>1. below[put[k]] \in 0 .. stop - 1 /\ stop - 1 < WindowSize
      BY <1>1, <1>3, <1>5
    <2>2. below[put[k]] \in C!Slots
      BY <1>1, <2>1 DEF C!Slots
    <2> QED
      BY <2>2 DEF WindowAsFound
  <1>8. written \in [1 .. w -> {Junk}]
    BY <1>6, <1>7
  <1>9. written \in Seq({Junk})
    <2>1. w \in Nat
      BY <1>1, <1>2, <1>4
    <2> QED
      BY <1>8, <2>1
  <1>10. n \in Nat /\ expected_seq_num' = expected_seq_num + n
         /\ output' = output \o written
    BY <1>2, <1>3, <1>5, <1>6 DEF C!Slide
  <1> QED
    BY <1>2, <1>10, <1>9

\* Once rcopy has said "File done" it does nothing more.
LEMMA DoneIsDone ==
    ASSUME ClientInv, C!Internal \/ \E p : C!Receive(p)
    PROVE  message # "file_done" /\ state # "DONE"
  BY DEF ClientInv, C!Internal, C!start_state, C!FilenameTimeout, C!FilenameGiveUp,
     C!file_ok, C!RecvTimeout, C!Receive, C!FilenameReply, C!RecvCorrupt, C!RecvEof,
     C!RecvInOrder, C!RecvSlide, C!RecvOld, C!RecvAhead, C!RecvPdu, C!RecvFrom

\* What rcopy does without a datagram: its state, and what it sends.
LEMMA ClientInternal ==
    ASSUME IInv, C!Internal, UNCHANGED svars
    PROVE  ClientInv' /\ (\A i \in DOMAIN sent : Fits(sent[i]))'
  <1>1. CASE C!start_state
    <2>1. ClientInv'
      BY <1>1, WindowKept DEF IInv, ClientInv, C!start_state, C!udpClientSetup, C!send_buf, C!Stop,
         C!history, svars, Addresses
    <2>2. CASE sent' = <<>>
      BY <2>1, <2>2
    <2>3. CASE C!send_buf("FNAME", 0)
      <3>1. remote' = <<"server", 0>> /\ <<"server", 0>> \in Addresses /\ clientSeqNum \in Nat
        BY <1>1 DEF C!start_state, C!udpClientSetup, IInv, ClientInv, Addresses
      <3>2. PICK d \in Datagrams : sent' = <<d>> /\ d.src[1] = "rcopy" /\ d.flag = "FNAME"
                                    /\ d.dst = <<"server", 0>>
        BY <2>1, <2>3, <3>1, SendBuf DEF ClientInv, Flags
      <3>3. Fits(d)'
        BY <3>2 DEF Fits, FromClient
      <3> QED
        BY <2>1, <3>2, <3>3
    <2> QED
      BY <1>1, <2>1, <2>2, <2>3 DEF C!start_state
  <1>2. CASE C!FilenameTimeout
    BY <1>2, WindowKept DEF IInv, ClientInv, C!FilenameTimeout, svars, C!history
  <1>3. CASE C!FilenameGiveUp
    BY <1>3, WindowKept DEF IInv, ClientInv, C!FilenameGiveUp, svars, C!history, C!Stop
  <1>4. CASE C!file_ok
    BY <1>4, WindowKept DEF IInv, ClientInv, C!file_ok, svars, C!history, C!Stop
  <1>5. CASE C!RecvTimeout
    BY <1>5, WindowKept DEF IInv, ClientInv, C!RecvTimeout, svars, C!history, C!Stop
  <1> QED
    BY <1>1, <1>2, <1>3, <1>4, <1>5 DEF C!Internal

\* A datagram that reaches rcopy comes from a child and tells the truth about the
\* file.
LEMMA ChildSpeaks ==
    ASSUME IInv, NEW p \in InFlight, p.dst = <<"rcopy", sk>>
    PROVE  p \in Datagrams /\ FromChild(p)
  <1>1. Fits(p) /\ p.dst[1] = "rcopy"
    BY DEF IInv, NetInv
  <1>2. ~FromClient(p)
    BY <1>1 DEF FromClient, ChildSockets
  <1> QED
    BY <1>1, <1>2 DEF Fits

\* What rcopy does with a datagram.  None is ahead of the one expected.
LEMMA ClientReceive ==
    ASSUME IInv, NEW p \in InFlight, p.dst = <<"rcopy", sk>>, C!Receive(p),
           UNCHANGED svars
    PROVE  ClientInv' /\ (\A i \in DOMAIN sent : Fits(sent[i]))'
  <1>0. p \in Datagrams /\ FromChild(p)
    BY ChildSpeaks
  <1>1. /\ p.src \in ChildSockets /\ p.src \in Addresses
        /\ p.seq \in Nat /\ p.seq < 2 /\ p.arg \in Nat
    BY <1>0 DEF Datagrams, FromChild
  <1>2. CASE C!FilenameReply(p)
    BY <1>0, <1>1, <1>2, WindowKept, FileTransferAssumption DEF FromChild, IInv, ClientInv,
       C!FilenameReply, C!Stop, C!history, svars
  <1>3. CASE C!RecvCorrupt(p)
    BY <1>1, <1>3, WindowKept DEF IInv, ClientInv, C!RecvCorrupt, C!RecvFrom, C!history, svars
  <1>4. CASE C!RecvEof(p)
    <2>1. ClientInv'
      BY <1>0, <1>1, <1>4, WindowKept DEF FromChild, IInv, ClientInv, C!RecvEof, C!RecvFrom, C!Stop,
         C!history, svars
    <2>2. PICK d \in Datagrams : sent' = <<d>> /\ d.flag = "EOF_ACK" /\ d.dst = remote'
                                  /\ d.src[1] = "rcopy"
      BY <1>4, <2>1, SendBuf DEF C!RecvEof, IInv, ClientInv, Flags
    <2>3. Fits(d)'
      BY <1>1, <1>4, <2>2 DEF Fits, FromClient, C!RecvEof, C!RecvFrom, C!Stop, ChildSockets
    <2> QED
      BY <2>1, <2>2, <2>3
  <1>5. CASE C!RecvInOrder(p) \/ C!RecvOld(p)
    <2>1. ClientInv'
      <3>1. CASE C!RecvOld(p)
        BY <1>1, <3>1, WindowKept DEF IInv, ClientInv, C!RecvOld, C!RecvPdu, C!RecvFrom, C!history,
           svars
      <3>2. CASE C!RecvInOrder(p)
        <4>1. p.seq = 1 /\ p.arg = file[1] /\ file \notin {Absent, <<>>}
          BY <1>0, <3>2 DEF FromChild, IInv, ClientInv, C!RecvInOrder, C!RecvPdu, C!RecvFrom
        <4>2. /\ clean /\ UNCHANGED <<pduArray, clean>>
              /\ expected_seq_num = 1 /\ output = <<>> /\ expected_seq_num' = 2
          BY <3>2, <4>1 DEF IInv, ClientInv, WindowAsFound, C!RecvInOrder
        <4>3. output' \in {<<>>, <<p.arg>>}
          BY <3>2, <4>2 DEF C!RecvInOrder
        <4> QED
          BY <1>1, <3>2, <4>1, <4>2, <4>3, WindowKept DEF IInv, ClientInv, C!RecvInOrder, C!RecvPdu,
             C!RecvFrom, svars
      <3> QED
        BY <1>5, <3>1, <3>2
    <2>2. PICK d \in Datagrams : sent' = <<d>> /\ d.flag = "RR" /\ d.dst = remote'
                                  /\ d.src[1] = "rcopy"
      BY <1>5, <2>1, SendBuf DEF C!RecvInOrder, C!RecvOld, IInv, ClientInv, Flags
    <2>3. Fits(d)'
      BY <1>1, <1>5, <2>2 DEF Fits, FromClient, C!RecvInOrder, C!RecvOld, C!RecvPdu,
         C!RecvFrom, ChildSockets
    <2> QED
      BY <2>1, <2>2, <2>3
  <1>7. CASE C!RecvSlide(p)
    <2>1. PICK n \in Nat, written \in Seq({Junk}) :
             expected_seq_num' = expected_seq_num + n /\ output' = output \o written
      BY <1>7, SlideWritesJunk DEF IInv, ClientInv
    <2>2. p.seq = 1 /\ file \notin {Absent, <<>>}
      BY <1>0, <1>1, <1>7 DEF FromChild, IInv, ClientInv, C!RecvSlide, C!RecvPdu, C!RecvFrom
    <2>3. ~clean /\ UNCHANGED <<clean, pduArray>>
      BY <1>7 DEF IInv, ClientInv, WindowAsFound, C!RecvSlide, C!history
    <2>4. expected_seq_num' \in Nat \ {0} /\ output' \in Seq({Junk})
      BY <2>1, <2>3 DEF IInv, ClientInv
    <2>5. /\ state \in {"RECV_DATA"} /\ state' \in {"RECV_DATA", "crashed"}
          /\ UNCHANGED <<clientSeqNum, sk, opened, message, file>>
          /\ remote' = p.src /\ sent' = <<>>
      BY <1>7 DEF C!RecvSlide, C!RecvPdu, C!RecvFrom, svars
    <2>6. ClientInv'
      BY <1>1, <2>2, <2>3, <2>4, <2>5, WindowKept DEF IInv, ClientInv
    <2> QED
      BY <2>5, <2>6
  <1>8. CASE C!RecvAhead(p)
    BY <1>1, <1>8 DEF IInv, ClientInv, C!RecvAhead
  <1> QED
    BY <1>2, <1>3, <1>4, <1>5, <1>7, <1>8 DEF C!Receive

\* A step of rcopy keeps the invariant: what is in flight stays true, since an
\* EOF_ACK is in flight only once rcopy is done.
LEMMA ClientKeeps ==
    ASSUME IInv, ClientStep
    PROVE  IInv'
  <1>1. UNCHANGED svars /\ message # "file_done"
    BY DoneIsDone DEF ClientStep, ClientRuns, ClientReceives, IInv
  <1>2. ClientInv' /\ (\A i \in DOMAIN sent : Fits(sent[i]))'
    <2>1. CASE ClientRuns
      BY <1>1, <2>1, ClientInternal DEF ClientRuns
    <2>2. CASE ClientReceives
      BY <1>1, <2>2, ClientReceive DEF ClientReceives
    <2> QED
      BY <2>1, <2>2 DEF ClientStep
  <1>3. \A p \in InFlight : Fits(p)'
    BY <1>1 DEF IInv, NetInv, Fits, FromClient, FromChild, svars
  <1>4. \A d \in InFlight' : d \in InFlight \/ \E i \in DOMAIN sent' : d = sent'[i]
    <2>1. CASE ClientRuns
      BY <2>1, OnlySent DEF ClientRuns, InFlight
    <2>2. CASE ClientReceives
      BY <2>2, OnlySent, BagDifference DEF ClientReceives, InFlight
    <2> QED
      BY <2>1, <2>2 DEF ClientStep
  <1>5. NetInv'
    BY <1>2, <1>3, <1>4 DEF NetInv
  <1>6. ServerInv'
    BY <1>1 DEF IInv, ServerInv, svars
  <1> QED
    BY <1>2, <1>5, <1>6 DEF IInv
-----------------------------------------------------------------------------
\* A fault invents no datagram, but for a copy with a wrong checksum.
LEMMA FaultKeeps ==
    ASSUME IInv, Fault
    PROVE  IInv'
  <1>1. UNCHANGED <<cvars, svars>>
    BY DEF Fault
  <1>2. PICK p \in InFlight :
          \/ net' = net (-) SetToBag({p})
          \/ p.ok /\ net' = (net (-) SetToBag({p})) (+) SetToBag({[p EXCEPT !.ok = FALSE]})
          \/ net' = net (+) SetToBag({p})
    BY DEF Fault
  <1> DEFINE q == [p EXCEPT !.ok = FALSE]
  <1>3. InFlight' \subseteq InFlight \cup {q}
    BY <1>2, BagSum, BagDifference, BagOfSet DEF InFlight
  <1>4. \A d \in InFlight : Fits(d)'
    BY <1>1 DEF IInv, NetInv, Fits, FromClient, FromChild, svars, cvars
  <1>5. Fits(q)'
    <2>1. p \in Datagrams /\ Fits(p)'
      BY <1>4 DEF IInv, NetInv, Fits
    <2>2. /\ q \in Datagrams
          /\ q.src = p.src /\ q.dst = p.dst /\ q.flag = p.flag /\ q.seq = p.seq /\ q.arg = p.arg
      BY <2>1 DEF Datagrams
    <2> QED
      BY <2>1, <2>2 DEF Fits, FromClient, FromChild
  <1>6. NetInv'
    BY <1>3, <1>4, <1>5 DEF NetInv
  <1>7. ClientInv' /\ ServerInv'
    BY <1>1, WindowKept DEF IInv, ClientInv, ServerInv, svars, cvars
  <1> QED
    BY <1>6, <1>7 DEF IInv
-----------------------------------------------------------------------------
\* What send_buf of child c sends.
LEMMA ChildSendBuf ==
    ASSUME ServerInv, NEW c \in S!Children, child[c].state # "none",
           NEW flag \in Flags, NEW seq \in Nat, NEW arg \in Nat,
           S!send_buf(c, flag, seq, arg)
    PROVE  \E d \in Datagrams :
              /\ served' = <<d>>
              /\ d.src = <<"child", c>> /\ d.dst[1] = "rcopy"
              /\ d.flag = flag /\ d.seq = seq /\ d.arg = arg
  <1>0. c \in Nat
    BY FileTransferAssumption DEF S!Children
  <1>1. PICK src \in Addresses : src = <<"child", c>>
    BY <1>0 DEF Addresses
  <1>2. PICK dst \in Addresses : dst = child[c].client /\ dst[1] = "rcopy"
    BY DEF ServerInv, Addresses, ChildRecords
  <1> DEFINE d == [src |-> src, dst |-> dst, flag |-> flag, seq |-> seq, arg |-> arg,
                   ok |-> TRUE]
  <1>3. d \in Datagrams
    BY DEF Datagrams
  <1>4. served' = <<d>>
    BY <1>1, <1>2 DEF S!send_buf
  <1> QED
    BY <1>1, <1>2, <1>3, <1>4

\* A child may take the state r if r is in keeping with the file and with rcopy.
LEMMA ChildChanges ==
    ASSUME ServerInv, NEW c \in S!Children, NEW r \in ChildRecords,
           child' = [child EXCEPT ![c] = r], UNCHANGED <<cvars, file>>,
           forked' \in 0 .. MaxChildren,
           r.client[1] = "rcopy",
           r.state = "SEND_DATA" => file # Absent,
           r.state \in {"WAIT_ON_EOF_ACK", "TIMEOUT_ON_EOF_ACK", "recvfrom"} => file = <<>>,
           r.message = "success" => message = "file_done" /\ remote = <<"child", c>>
    PROVE  ServerInv'
  <1>1. child' \in [S!Children -> ChildRecords]
    BY DEF ServerInv
  <1>2. \A k \in S!Children : child'[k] = IF k = c THEN r ELSE child[k]
    BY DEF ServerInv
  <1> QED
    BY <1>1, <1>2 DEF ServerInv, cvars, S!Children

\* What a child does without a datagram.
LEMMA ChildInternal ==
    ASSUME IInv, NEW c \in S!Children, S!Internal(c), UNCHANGED cvars
    PROVE  ServerInv' /\ (\A i \in DOMAIN served : Fits(served[i]))'
  <1>0. child[c] \in ChildRecords /\ ServerInv
    BY DEF IInv, ServerInv
  <1>1. CASE S!filename(c)
    <2>1. ServerInv'
      <3>1. CASE child' = [child EXCEPT ![c].state = "DONE"]
        BY <1>0, <1>1, <3>1 DEF ServerInv, ChildRecords, ChildStates, S!filename,
           S!Children, cvars
      <3>2. CASE child' = [child EXCEPT ![c].state = "SEND_DATA"] /\ file # Absent
        BY <1>0, <1>1, <3>2 DEF ServerInv, ChildRecords, ChildStates, S!filename,
           S!Children, cvars
      <3> QED
        BY <1>1, <3>1, <3>2 DEF S!filename
    <2>2. CASE file = Absent
      <3>1. S!send_buf(c, "FNAME_BAD", 0, 0) /\ UNCHANGED file /\ child[c].state # "none"
        BY <1>1, <2>2 DEF S!filename
      <3>2. PICK d \in Datagrams : served' = <<d>> /\ d.src = <<"child", c>>
                /\ d.dst[1] = "rcopy" /\ d.flag = "FNAME_BAD" /\ d.seq = 0
        BY <1>0, <3>1, ChildSendBuf DEF Flags
      <3>3. Fits(d)'
        BY <2>2, <3>1, <3>2 DEF Fits, FromChild, ChildSockets, S!Children
      <3> QED
        BY <2>1, <3>2, <3>3
    <2>3. CASE file # Absent
      <3>1. S!send_buf(c, "FNAME_OK", 0, 0) /\ UNCHANGED file /\ child[c].state # "none"
        BY <1>1, <2>3 DEF S!filename
      <3>2. PICK d \in Datagrams : served' = <<d>> /\ d.src = <<"child", c>>
                /\ d.dst[1] = "rcopy" /\ d.flag = "FNAME_OK" /\ d.seq = 0
        BY <1>0, <3>1, ChildSendBuf DEF Flags
      <3>3. Fits(d)'
        BY <2>3, <3>1, <3>2 DEF Fits, FromChild, ChildSockets, S!Children
      <3> QED
        BY <2>1, <3>2, <3>3
    <2> QED
      BY <2>2, <2>3
  <1>2. CASE S!ReadError(c)
    BY <1>2 DEF IInv, ServerInv, ChildRecords, ChildStates, S!ReadError, S!Children, cvars
  <1>3. CASE S!SendBlock(c)
    <2>1. child' = [child EXCEPT ![c].state = "crashed"] /\ UNCHANGED <<file, forked>>
          /\ child[c].state # "none"
      BY <1>3 DEF S!SendBlock
    <2>2. ServerInv'
      BY <1>0, <2>1 DEF ServerInv, ChildRecords, ChildStates, S!Children, cvars
    <2>3. file \in Seq(Nat) /\ file \notin {Absent, <<>>} /\ file[1] \in Nat
      BY <1>0, <1>3, FileTransferAssumption DEF ServerInv, S!SendBlock
    <2>4. S!send_buf(c, "DATA", 1, file[1]) /\ child[c].state # "none"
      BY <1>3 DEF S!SendBlock
    <2>5. PICK d \in Datagrams : served' = <<d>> /\ d.src = <<"child", c>>
              /\ d.dst[1] = "rcopy" /\ d.flag = "DATA" /\ d.seq = 1 /\ d.arg = file[1]
      BY <1>0, <2>3, <2>4, ChildSendBuf DEF Flags
    <2>6. Fits(d)'
      BY <2>1, <2>3, <2>5 DEF Fits, FromChild, ChildSockets, S!Children
    <2> QED
      BY <2>2, <2>5, <2>6
  <1>4. CASE S!SendEof(c)
    <2>1. ServerInv'
      BY <1>4 DEF IInv, ServerInv, ChildRecords, ChildStates, S!SendEof, S!Children, cvars
    <2>2. S!send_buf(c, "END_OF_FILE", 1, 0) /\ UNCHANGED file /\ child[c].state # "none"
          /\ file = <<>>
      BY <1>0, <1>4 DEF S!SendEof, ServerInv
    <2>3. PICK d \in Datagrams : served' = <<d>> /\ d.src = <<"child", c>>
              /\ d.dst[1] = "rcopy" /\ d.flag = "END_OF_FILE" /\ d.seq = 1
      BY <1>0, <2>2, ChildSendBuf DEF Flags
    <2>4. Fits(d)'
      BY <2>2, <2>3 DEF Fits, FromChild, ChildSockets, S!Children
    <2> QED
      BY <2>1, <2>3, <2>4
  <1>5. CASE S!WaitTimeout(c)
    BY <1>5 DEF IInv, ServerInv, ChildRecords, ChildStates, S!WaitTimeout, S!Children, cvars
  <1>6. CASE S!WaitGiveUp(c)
    BY <1>6 DEF IInv, ServerInv, ChildRecords, ChildStates, S!WaitGiveUp, S!Children, cvars
  <1> QED
    BY <1>1, <1>2, <1>3, <1>4, <1>5, <1>6 DEF S!Internal

\* What the server and its children do with a datagram: a child is forked for a FNAME
\* only, and takes only rcopy's own EOF_ACK for one.
LEMMA ServerReceive ==
    ASSUME IInv, NEW p \in InFlight, S!Receive(p), UNCHANGED cvars
    PROVE  ServerInv' /\ served' = <<>> /\ UNCHANGED file
  <1>0. Fits(p) /\ p \in Datagrams /\ ServerInv
    BY DEF IInv, NetInv, Fits
  <1>1. CASE S!process_server(p) /\ p.dst[1] = "server"
    <2>1. p.src[1] = "rcopy" /\ p.src \in {"none", "rcopy"} \X Nat
      BY <1>0, <1>1 DEF Fits, FromClient, FromChild, Datagrams, Addresses, ChildSockets
    <2>2. CASE p.ok /\ forked < MaxChildren /\ forked' = forked + 1
               /\ child' = [child EXCEPT ![forked + 1] =
                          [S!NotForked EXCEPT !.state = "FILENAME", !.client = p.src]]
      <3> DEFINE r == [S!NotForked EXCEPT !.state = "FILENAME", !.client = p.src]
      <3>1. r \in ChildRecords /\ r.client = p.src /\ r.state = "FILENAME"
            /\ r.message = "none"
        BY <2>1 DEF S!NotForked, ChildRecords, ChildStates
      <3>2. child' = [child EXCEPT ![forked + 1] = r]
        BY <2>2
      <3>3. forked + 1 \in S!Children /\ forked' \in 0 .. MaxChildren
        BY <1>0, <2>2, FileTransferAssumption DEF ServerInv, S!Children
      <3> HIDE DEF r
      <3>4. ServerInv'
        BY <1>0, <1>1, <2>1, <3>1, <3>2, <3>3, ChildChanges DEF S!process_server
      <3> QED
        BY <1>1, <3>4 DEF S!process_server
    <2>3. CASE UNCHANGED <<forked, child>>
      BY <1>0, <1>1, <2>3 DEF ServerInv, S!process_server, S!Children, cvars
    <2> QED
      BY <1>1, <2>2, <2>3 DEF S!process_server
  <1>2. CASE S!wait_on_eof_ack(p.dst[2], p) /\ p.dst[1] = "child"
    <2>1. PICK c \in S!Children : p.dst = <<"child", c>>
      BY <1>0, <1>2 DEF Fits, FromClient, FromChild, ChildSockets
    <2>2. p.src[1] = "rcopy" /\ p.src \in {"none", "rcopy"} \X Nat
      BY <1>0, <1>2 DEF Fits, FromClient, FromChild, Datagrams, Addresses
    <2>3. p.flag = "EOF_ACK" => message = "file_done" /\ remote = <<"child", c>>
      BY <1>0, <2>1, <2>2 DEF Fits, FromClient, FromChild, ChildSockets
    <2>4. child[c] \in ChildRecords /\ child[c].state \in {"WAIT_ON_EOF_ACK", "recvfrom"}
          /\ file = <<>>
      BY <1>0, <1>2, <2>1 DEF S!wait_on_eof_ack, ServerInv
    <2>5. PICK s \in {"WAIT_ON_EOF_ACK", "DONE"}, m \in {"none", "success", "unexpected"} :
             /\ child' = [child EXCEPT
                   ![c] = [state |-> s, client |-> p.src, message |-> m,
                           retryCount |-> IF @.state = "recvfrom" THEN @.retryCount ELSE 0]]
             /\ \/ ~p.ok /\ s = "WAIT_ON_EOF_ACK" /\ m = "none"
                \/ p.ok /\ p.flag # "EOF_ACK" /\ s = "DONE" /\ m = "unexpected"
                \/ p.ok /\ p.flag = "EOF_ACK" /\ s = "DONE" /\ m = "success"
      <3>1. S!wait_on_eof_ack(c, p)
        BY <1>2, <2>1
      <3> QED
        BY <3>1 DEF S!wait_on_eof_ack
    <2> DEFINE r == [state |-> s, client |-> p.src, message |-> m,
                     retryCount |-> IF child[c].state = "recvfrom"
                                    THEN child[c].retryCount ELSE 0]
    <2>6. r \in ChildRecords /\ r.state = s /\ r.client = p.src /\ r.message = m
      BY <2>2, <2>4 DEF ChildRecords, ChildStates
    <2>7. child' = [child EXCEPT ![c] = r]
      BY <2>5
    <2>8. UNCHANGED <<file, forked>> /\ served' = <<>>
      BY <1>2 DEF S!wait_on_eof_ack
    <2> HIDE DEF r
    <2>9. ServerInv'
      <3>1. r.message = "success" => message = "file_done" /\ remote = <<"child", c>>
        BY <2>3, <2>5, <2>6
      <3>2. r.client[1] = "rcopy" /\ r.state # "SEND_DATA"
        BY <2>2, <2>5, <2>6
      <3>3. forked' \in 0 .. MaxChildren
        BY <1>0, <2>8 DEF ServerInv
      <3> QED
        BY <1>0, <2>4, <2>6, <2>7, <2>8, <3>1, <3>2, <3>3, ChildChanges
    <2> QED
      BY <2>8, <2>9
  <1> QED
    BY <1>1, <1>2 DEF S!Receive

\* The server does not touch rcopy, nor the file.
LEMMA ServerFrame ==
    ASSUME ServerStep
    PROVE  UNCHANGED <<cvars, file>>
  <1>1. CASE ChildRuns
    BY <1>1 DEF ChildRuns, S!Internal, S!filename, S!ReadError, S!SendBlock, S!SendEof,
       S!WaitTimeout, S!WaitGiveUp
  <1>2. CASE ServerReceives
    BY <1>2 DEF ServerReceives, S!Receive, S!process_server, S!wait_on_eof_ack
  <1> QED
    BY <1>1, <1>2 DEF ServerStep

\* A step of the server or of a child keeps the invariant.
LEMMA ServerKeeps ==
    ASSUME IInv, ServerStep
    PROVE  IInv'
  <1>1. UNCHANGED <<cvars, file>>
    BY ServerFrame
  <1>2. ServerInv' /\ (\A i \in DOMAIN served : Fits(served[i]))'
    <2>1. CASE ChildRuns
      BY <2>1, ChildInternal DEF ChildRuns
    <2>2. CASE ServerReceives
      BY <2>2, ServerReceive DEF ServerReceives
    <2> QED
      BY <2>1, <2>2 DEF ServerStep
  <1>3. \A p \in InFlight : Fits(p)'
    BY <1>1 DEF IInv, NetInv, Fits, FromClient, FromChild, cvars
  <1>4. \A d \in InFlight' : d \in InFlight \/ \E i \in DOMAIN served' : d = served'[i]
    <2>1. CASE ChildRuns
      BY <2>1, OnlySent DEF ChildRuns, InFlight
    <2>2. CASE ServerReceives
      BY <2>2, OnlySent, BagDifference DEF ServerReceives, InFlight
    <2> QED
      BY <2>1, <2>2 DEF ServerStep
  <1>5. NetInv'
    BY <1>2, <1>3, <1>4 DEF NetInv
  <1>6. ClientInv'
    BY <1>1, WindowKept DEF IInv, ClientInv, cvars
  <1> QED
    BY <1>2, <1>5, <1>6 DEF IInv
-----------------------------------------------------------------------------
LEMMA InitHolds == Init => IInv
  <1> SUFFICES ASSUME Init
               PROVE  IInv
    OBVIOUS
  <1>1. NetInv
    BY BagOfSet DEF Init, NetInv, InFlight, EmptyBag
  <1>2. ClientInv
    <2>1. WindowAsFound
      BY FileTransferAssumption DEF Init, C!Init, WindowAsFound, C!isWindowEmpty, C!Holds
    <2> QED
      BY <2>1 DEF Init, C!Init, ClientInv, Addresses, C!START_SEQ_NUM
  <1>3. ServerInv
    BY FileTransferAssumption
    DEF Init, S!Init, ServerInv, S!NotForked, ChildRecords, ChildStates, S!Children
  <1> QED
    BY <1>1, <1>2, <1>3 DEF IInv

LEMMA StepHolds == IInv /\ [Next]_vars => IInv'
  <1> SUFFICES ASSUME IInv, [Next]_vars
               PROVE  IInv'
    OBVIOUS
  <1>1. CASE UNCHANGED vars
    BY <1>1, WindowKept DEF vars, svars, cvars, IInv, NetInv, ClientInv, ServerInv, InFlight, Fits,
       FromClient, FromChild
  <1> QED
    BY <1>1, ClientKeeps, ServerKeeps, FaultKeeps DEF Next

LEMMA Invariance == Spec => []IInv
  BY InitHolds, StepHolds, PTL DEF Spec
-----------------------------------------------------------------------------
\* The main port hears nothing but FNAMEs, so that process_server may fork without
\* looking at the flag (server.c:76), for any number of tries, sockets and faults.
THEOREM OnlyFname == Spec => []OnlyFnameReachesServer
  <1>1. IInv => OnlyFnameReachesServer
    BY DEF IInv, NetInv, Fits, FromClient, FromChild, ChildSockets, OnlyFnameReachesServer
  <1> QED
    BY <1>1, Invariance, PTL

\* rcopy creates its output file only if the file asked for exists (rcopy.c,
\* file_ok), whatever is lost, flipped, duplicated or late.
THEOREM OpenedExists == Spec => []OpenedOnlyIfExists
  <1>1. IInv => OpenedOnlyIfExists
    BY DEF IInv, ClientInv, OpenedOnlyIfExists
  <1> QED
    BY <1>1, Invariance, PTL

\* No file with a block in it is ever transferred (server.c:166,195), whatever the
\* window's size and however often rcopy may try.
THEOREM OnlyEmptyCompletes == Spec => []CompleteOnlyIfEmpty
  <1>1. IInv => CompleteOnlyIfEmpty
    BY DEF IInv, ClientInv, CompleteOnlyIfEmpty
  <1> QED
    BY <1>1, Invariance, PTL

\* A child that reports success (server.c:270) is the one that rcopy has
\* acknowledged, and rcopy has the whole file.
THEOREM Mutual == Spec => []SuccessIsMutual
  <1>1. IInv => SuccessIsMutual
    BY DEF IInv, ClientInv, ServerInv, SuccessIsMutual
  <1> QED
    BY <1>1, Invariance, PTL
-----------------------------------------------------------------------------
\* What the user has of a step: a clean window shows the file itself, a dirty one nothing.
LEMMA Shown ==
    ASSUME ClientInv
    PROVE  /\ clean => ~damaged /\ received = output
           /\ ~clean => (damaged <=> output # <<>>) /\ received = <<>>
  BY DEF ClientInv, damaged, received

\* A step of rcopy neither cleans the window nor takes back what is written.
LEMMA ClientFrame ==
    ASSUME IInv, ClientStep
    PROVE  /\ UNCHANGED <<file, clean>> /\ message # "file_done"
           /\ state \notin {"DONE", "crashed"}
           /\ output # <<>> /\ ~clean => output' # <<>>
  <1>1. message # "file_done" /\ UNCHANGED file
    BY DoneIsDone DEF ClientStep, ClientRuns, ClientReceives, IInv, svars
  <1>2. CASE C!Internal
    BY <1>1, <1>2
    DEF C!Internal, C!start_state, C!FilenameTimeout, C!FilenameGiveUp, C!file_ok,
        C!RecvTimeout, C!history
  <1>3. ASSUME NEW p, C!Receive(p)
        PROVE  /\ UNCHANGED clean /\ state \notin {"DONE", "crashed"}
               /\ output # <<>> /\ ~clean => output' # <<>>
    <2>1. CASE C!RecvSlide(p)
      <3>1. PICK n \in Nat, written \in Seq({Junk}) :
               expected_seq_num' = expected_seq_num + n /\ output' = output \o written
        BY <2>1, SlideWritesJunk DEF IInv, ClientInv
      <3>2. UNCHANGED clean /\ state = "RECV_DATA"
        BY <2>1 DEF C!RecvSlide, C!RecvPdu, C!RecvFrom, C!history
      <3>3. ~clean => output \in Seq({Junk})
        BY DEF IInv, ClientInv
      <3> QED
        BY <3>1, <3>2, <3>3
    <2>2. CASE C!RecvInOrder(p)
      BY <2>2 DEF C!RecvInOrder, C!RecvPdu, C!RecvFrom, IInv, ClientInv, WindowAsFound
    <2> QED
      BY <1>3, <2>1, <2>2 DEF C!Receive, C!FilenameReply, C!RecvCorrupt, C!RecvEof,
         C!RecvOld, C!RecvAhead, C!RecvPdu, C!RecvFrom, C!history
  <1> QED
    BY <1>1, <1>2, <1>3 DEF ClientStep, ClientRuns, ClientReceives

\* END_OF_FILE comes only for an empty file, of which nothing has been written.
LEMMA EofRefines ==
    ASSUME IInv, ClientStep, message' = "file_done"
    PROVE  T!Complete
  <1>1. UNCHANGED <<file, clean>> /\ message # "file_done"
        /\ state \notin {"DONE", "crashed"}
    BY ClientFrame
  <1>2. PICK p \in InFlight : p.dst = <<"rcopy", sk>> /\ C!RecvEof(p)
    BY <1>1 DEF ClientStep, ClientRuns, ClientReceives, C!Internal, C!start_state,
       C!FilenameTimeout, C!FilenameGiveUp, C!file_ok, C!RecvTimeout, C!Stop, C!Receive,
       C!FilenameReply, C!RecvCorrupt, C!RecvInOrder, C!RecvSlide, C!RecvOld,
       C!RecvAhead, C!RecvPdu
  <1>3. FromChild(p)
    BY <1>2, ChildSpeaks
  <1>4. file = <<>> /\ output = <<>> /\ UNCHANGED output
    BY <1>2, <1>3 DEF C!RecvEof, FromChild, IInv, ClientInv
  <1>5. ~damaged /\ received = <<>> /\ received' = <<>>
    BY <1>4 DEF damaged, received
  <1>6. result = "running" /\ result' = "complete"
    BY <1>1, <1>5 DEF result
  <1> QED
    BY <1>1, <1>4, <1>5, <1>6 DEF T!Complete

\* From a dirty window the transfer fails, if it does not go on.
LEMMA DirtyRefines ==
    ASSUME IInv, ClientInv', ClientStep, ~clean, message' # "file_done"
    PROVE  [T!Next]_T!vars
  <1>1. /\ UNCHANGED <<file, clean>> /\ message # "file_done"
        /\ output # <<>> => output' # <<>>
        /\ state \notin {"DONE", "crashed"}
    BY ClientFrame
  <1>2. (damaged <=> output # <<>>) /\ received = <<>>
    BY Shown DEF IInv
  <1>3. ClientInv' /\ ~clean'
    BY <1>1
  <1>4. (damaged <=> output # <<>>)' /\ received' = <<>>
    BY <1>3 DEF ClientInv, damaged, received
  <1>5. damaged => damaged'
    BY <1>1, <1>2, <1>4
  <1>6. result \in {"running", "failed"} /\ result' \in {"running", "failed"}
        /\ (result = "failed" => result' = "failed")
    BY <1>1, <1>5 DEF result
  <1> QED
    BY <1>1, <1>2, <1>4, <1>6 DEF T!Next, T!Fail, T!vars

\* From a clean window a block is delivered, the transfer fails, or nothing is to be
\* seen.
LEMMA CleanRefines ==
    ASSUME IInv, ClientInv', ClientStep, clean, message' # "file_done"
    PROVE  [T!Next]_T!vars
  <1>1. UNCHANGED <<file, clean>> /\ message # "file_done"
        /\ state \notin {"DONE", "crashed"}
    BY ClientFrame
  <1>2. ~damaged /\ received = output /\ result = "running"
    BY <1>1, Shown DEF IInv, result
  <1>3. clean'
    BY <1>1
  <1>4. ~damaged' /\ received' = output'
    BY <1>3 DEF damaged, received
  <1>5. result' \in {"running", "failed"}
    BY DEF result
  <1>6. CASE UNCHANGED output
    BY <1>1, <1>2, <1>4, <1>5, <1>6 DEF T!Next, T!Fail, T!vars
  <1>7. CASE output' # output
    <2>1. PICK p \in InFlight : p.dst = <<"rcopy", sk>> /\ C!RecvInOrder(p)
      BY <1>7 DEF ClientStep, ClientRuns, ClientReceives, C!Internal, C!start_state,
         C!FilenameTimeout, C!FilenameGiveUp, C!file_ok, C!RecvTimeout, C!Receive,
         C!FilenameReply, C!RecvCorrupt, C!RecvEof, C!RecvSlide, C!RecvOld, C!RecvAhead,
         IInv, ClientInv, WindowAsFound
    <2>2. FromChild(p)
      BY <2>1, ChildSpeaks
    <2>3. p.arg = file[1] /\ file \notin {Absent, <<>>} /\ output = <<>>
      BY <2>1, <2>2 DEF FromChild, IInv, ClientInv, C!RecvInOrder, C!RecvPdu, C!RecvFrom
    <2>4. output' = Append(output, p.arg) /\ UNCHANGED <<state, message>>
      BY <1>7, <2>1 DEF C!RecvInOrder, C!RecvPdu
    <2>5. file \in Seq(Nat) /\ Len(file) > 0
      BY <2>3, FileTransferAssumption DEF IInv, ServerInv
    <2>6. Len(output) = 0
      BY <2>3
    <2>7. result' = "running"
      BY <1>1, <1>4, <2>4 DEF result
    <2>8. T!Deliver
      BY <1>1, <1>2, <1>4, <2>3, <2>4, <2>5, <2>6, <2>7 DEF T!Deliver
    <2> QED
      BY <2>8 DEF T!Next
  <1> QED
    BY <1>6, <1>7

\* A step of rcopy, as its user sees it.
LEMMA ClientRefines ==
    ASSUME IInv, ClientStep
    PROVE  [T!Next]_T!vars
  <1>1. ClientInv'
    BY ClientKeeps DEF IInv
  <1>2. clean \in BOOLEAN
    BY DEF IInv, ClientInv, WindowAsFound
  <1>3. CASE message' = "file_done"
    BY <1>3, EofRefines DEF T!Next
  <1> QED
    BY <1>1, <1>2, <1>3, CleanRefines, DirtyRefines

\* Program3, with all that the network and sendtoErr may do to its datagrams, is a file
\* transfer: blocks arrive in the order of the file, and "File done" (rcopy.c:213) is
\* printed only when the whole of an existing file has arrived.  That holds whatever
\* malloc left in the window (windowing.c:7): from a dirty one rcopy writes no block of
\* the file, and with the first junk it writes the transfer has failed for good.
THEOREM Refinement == Spec => ImplementsTransfer
  <1>1. Init => T!Init
    BY DEF Init, C!Init, S!Init, T!Init, result, received, damaged
  <1>2. IInv /\ [Next]_vars => [T!Next]_T!vars
    <2> SUFFICES ASSUME IInv, [Next]_vars
                 PROVE  [T!Next]_T!vars
      OBVIOUS
    <2>1. CASE ClientStep
      BY <2>1, ClientRefines
    <2>2. CASE UNCHANGED <<cvars, file>>
      BY <2>2 DEF cvars, T!vars, result, received, damaged
    <2>3. ServerStep \/ Fault \/ UNCHANGED vars => UNCHANGED <<cvars, file>>
      BY ServerFrame DEF Fault, vars, svars
    <2> QED
      BY <2>1, <2>2, <2>3 DEF Next
  <1> QED
    BY <1>1, <1>2, Invariance, PTL DEF Spec, ImplementsTransfer, T!Spec
-----------------------------------------------------------------------------
\* A child has given up when it has waited in vain as often as MaxTries allows, and
\* once more.
GivenUp(c) == child[c].retryCount > MaxTries

\* The counter in the states of a child.
Counted(st, count) ==
    /\ count \in Nat
    /\ st \in {"none", "FILENAME", "SEND_DATA", "crashed"} => count = 0
    /\ st = "TIMEOUT_ON_EOF_ACK" => count <= MaxTries
    /\ st = "recvfrom" => count > MaxTries

Counting(c) ==
    /\ c > forked => child[c].state = "none"
    /\ Counted(child[c].state, child[c].retryCount)

\* It sends nothing any more.
Quiet(c) == GivenUp(c) => \A i \in DOMAIN served : served[i].src # <<"child", c>>

TryInv == \A c \in S!Children : Counting(c) /\ Quiet(c)

LEMMA InitTryInv == Init => TryInv
  BY FileTransferAssumption
  DEF Init, S!Init, S!NotForked, S!Children, TryInv, Counting, Counted, Quiet, GivenUp

\* A child takes the state r: its counter goes back only if it has not given up.
Takes(c, r) ==
    /\ child' = [child EXCEPT ![c] = r]
    /\ forked' \in Nat /\ forked' >= forked /\ c <= forked'
    /\ Counted(r.state, r.retryCount)
    /\ child[c].retryCount > MaxTries => r.retryCount > MaxTries
    /\ \/ served' = <<>>
       \/ r.retryCount <= MaxTries /\ \E d : served' = <<d>> /\ d.src = <<"child", c>>

LEMMA ChildCounts ==
    ASSUME ServerInv, TryInv, NEW c \in S!Children, NEW r, Takes(c, r)
    PROVE  TryInv' /\ \A k \in S!Children : GivenUp(k) => GivenUp(k)'
  <1>1. \A k \in S!Children : child'[k] = IF k = c THEN r ELSE child[k]
    BY DEF ServerInv, Takes
  <1>2. forked \in Nat /\ S!Children \subseteq Nat /\ MaxTries \in Nat
    BY FileTransferAssumption DEF ServerInv, S!Children
  <1>3. \A k \in S!Children : GivenUp(k) => GivenUp(k)'
    BY <1>1 DEF GivenUp, Takes
  <1>4. ASSUME NEW k \in S!Children
        PROVE  Counting(k)'
    <2>1. CASE k = c
      BY <1>1, <1>2, <2>1 DEF Counting, GivenUp, Takes, Counted
    <2>2. CASE k # c
      BY <1>1, <1>2, <2>2 DEF TryInv, Counting, GivenUp, Takes, Counted
    <2> QED
      BY <2>1, <2>2
  <1>5. ASSUME NEW k \in S!Children
        PROVE  Quiet(k)'
    <2>1. CASE served' = <<>>
      BY <2>1 DEF Quiet
    <2>2. CASE r.retryCount <= MaxTries /\ \E d : served' = <<d>> /\ d.src = <<"child", c>>
      <3>1. CASE k = c
        <4>1. child'[c] = r /\ r.retryCount \in Nat
          BY <1>1 DEF Takes, Counted
        <4>2. ~(child'[c].retryCount > MaxTries)
          BY <1>2, <2>2, <4>1
        <4> QED
          BY <3>1, <4>2 DEF Quiet, GivenUp
      <3>2. CASE k # c
        BY <2>2, <3>2 DEF Quiet
      <3> QED
        BY <3>1, <3>2
    <2> QED
      BY <2>1, <2>2 DEF Takes
  <1> QED
    BY <1>3, <1>4, <1>5 DEF TryInv

\* What a child does without a datagram, and the server's process with one.
LEMMA InternalCounts ==
    ASSUME ServerInv, TryInv, NEW c \in S!Children, S!Internal(c)
    PROVE  TryInv' /\ \A k \in S!Children : GivenUp(k) => GivenUp(k)'
  <1>1. /\ child[c] \in ChildRecords /\ child[c].retryCount \in Nat
        /\ Counting(c) /\ MaxTries \in Nat /\ forked \in Nat /\ c \in Nat
    BY FileTransferAssumption DEF ServerInv, ChildRecords, TryInv, S!Children
  <1>2. forked' = forked /\ child[c].state # "none"
    BY DEF S!Internal, S!filename, S!ReadError, S!SendBlock, S!SendEof, S!WaitTimeout,
       S!WaitGiveUp
  <1>3. c <= forked
    BY <1>1, <1>2 DEF Counting, Counted
  <1>4. CASE S!filename(c) \/ S!ReadError(c) \/ S!SendBlock(c) \/ S!SendEof(c)
    <2>1. PICK s \in {"DONE", "SEND_DATA", "crashed", "WAIT_ON_EOF_ACK"} :
            /\ child' = [child EXCEPT ![c].state = s]
            /\ s = "WAIT_ON_EOF_ACK" \/ child[c].retryCount = 0
      BY <1>1, <1>4 DEF Counting, Counted, S!filename, S!ReadError, S!SendBlock, S!SendEof
    <2>2. child[c].retryCount <= MaxTries
      BY <1>1, <1>4 DEF Counting, Counted, S!filename, S!ReadError, S!SendBlock, S!SendEof
    <2>3. PICK r : r = [child[c] EXCEPT !.state = s]
      OBVIOUS
    <2>4. r.state = s /\ r.retryCount = child[c].retryCount
      BY <1>1, <2>3 DEF ChildRecords
    <2>5. child' = [child EXCEPT ![c] = r]
      BY <2>1, <2>3
    <2>6. served' = <<>> \/ \E d : served' = <<d>> /\ d.src = <<"child", c>>
      BY <1>4 DEF S!filename, S!ReadError, S!SendBlock, S!SendEof, S!send_buf
    <2>7. Counted(s, child[c].retryCount)
      BY <1>1, <2>1, <2>2 DEF Counted
    <2>8. forked' \in Nat /\ forked' >= forked /\ c <= forked'
      BY <1>1, <1>2, <1>3
    <2>9. ~(child[c].retryCount > MaxTries)
      BY <1>1, <2>2
    <2>10. Takes(c, r)
      BY <2>2, <2>4, <2>5, <2>6, <2>7, <2>8, <2>9 DEF Takes
    <2> QED
      BY <2>10, ChildCounts
  <1>5. CASE S!WaitTimeout(c) \/ S!WaitGiveUp(c)
    <2>1. PICK s \in {"TIMEOUT_ON_EOF_ACK", "recvfrom"} :
            /\ child' = [child EXCEPT ![c].state = s, ![c].retryCount = @ + 1]
            /\ s = "TIMEOUT_ON_EOF_ACK" => child[c].retryCount < MaxTries
            /\ s = "recvfrom" => child[c].retryCount >= MaxTries
            /\ served' = <<>>
      BY <1>5 DEF S!WaitTimeout, S!WaitGiveUp
    <2>2. PICK r : r = [child[c] EXCEPT !.state = s, !.retryCount = @ + 1]
      OBVIOUS
    <2>3. r.state = s /\ r.retryCount = child[c].retryCount + 1
      BY <1>1, <2>2 DEF ChildRecords
    <2>4. child' = [child EXCEPT ![c] = r]
      BY <2>1, <2>2 DEF ServerInv
    <2>5. PICK n \in Nat : n = child[c].retryCount
      BY <1>1
    <2>6. Counted(s, n + 1)
      BY <1>1, <2>1, <2>5 DEF Counted
    <2>7. forked' \in Nat /\ forked' >= forked /\ c <= forked'
      BY <1>1, <1>2, <1>3
    <2>8. n > MaxTries => n + 1 > MaxTries
      BY <1>1
    <2>9. Takes(c, r)
      BY <2>1, <2>3, <2>4, <2>5, <2>6, <2>7, <2>8 DEF Takes
    <2> QED
      BY <2>9, ChildCounts
  <1> QED
    BY <1>4, <1>5 DEF S!Internal

LEMMA ReceiveCounts ==
    ASSUME IInv, TryInv, NEW p \in InFlight, S!Receive(p)
    PROVE  TryInv' /\ \A k \in S!Children : GivenUp(k) => GivenUp(k)'
  <1>0. ServerInv /\ Fits(p) /\ MaxTries \in Nat /\ forked \in Nat /\ served' = <<>>
        /\ S!Children \subseteq Nat
    BY FileTransferAssumption DEF IInv, NetInv, ServerInv, S!Receive, S!process_server,
       S!wait_on_eof_ack, S!Children
  <1>1. CASE S!process_server(p)
    <2>1. CASE /\ forked < MaxChildren /\ forked' = forked + 1
               /\ child' = [child EXCEPT ![forked + 1] =
                               [S!NotForked EXCEPT !.state = "FILENAME", !.client = p.src]]
      <3>1. PICK c, r : c = forked + 1
                        /\ r = [S!NotForked EXCEPT !.state = "FILENAME", !.client = p.src]
        OBVIOUS
      <3>2. r.state = "FILENAME" /\ r.retryCount = 0
        BY <3>1 DEF S!NotForked
      <3>3. c \in S!Children
        BY <1>0, <2>1, <3>1, FileTransferAssumption DEF S!Children
      <3>4. ~GivenUp(c)
        <4>1. child[c].state = "none" /\ child[c].retryCount = 0
          BY <1>0, <3>1, <3>3 DEF TryInv, Counting, Counted
        <4> QED
          BY <1>0, <4>1 DEF GivenUp
      <3>5. child' = [child EXCEPT ![c] = r] /\ forked' \in Nat /\ forked' >= forked
            /\ c <= forked'
        BY <1>0, <2>1, <3>1
      <3>6. Takes(c, r)
        BY <1>0, <3>1, <3>2, <3>4, <3>5 DEF Takes, Counted, GivenUp
      <3> QED
        BY <1>0, <3>3, <3>6, ChildCounts
    <2>2. CASE UNCHANGED <<forked, child>>
      BY <1>0, <2>2 DEF TryInv, Counting, Counted, Quiet, GivenUp
    <2> QED
      BY <1>1, <2>1, <2>2 DEF S!process_server
  <1>2. CASE p.dst[1] = "child" /\ S!wait_on_eof_ack(p.dst[2], p)
    <2>1. PICK c \in S!Children : p.dst = <<"child", c>>
      BY <1>0, <1>2 DEF Fits, FromClient, FromChild, ChildSockets
    <2>2. S!wait_on_eof_ack(c, p)
      BY <1>2, <2>1
    <2>3. PICK s \in {"WAIT_ON_EOF_ACK", "DONE"}, m \in {"none", "success", "unexpected"} :
             child' = [child EXCEPT
                   ![c] = [state |-> s, client |-> p.src, message |-> m,
                           retryCount |-> IF @.state = "recvfrom" THEN @.retryCount ELSE 0]]
      BY <2>2 DEF S!wait_on_eof_ack
    <2>4. PICK n : n = IF child[c].state = "recvfrom" THEN child[c].retryCount ELSE 0
      OBVIOUS
    <2>5. PICK r : r = [state |-> s, client |-> p.src, message |-> m, retryCount |-> n]
      OBVIOUS
    <2>6. child' = [child EXCEPT ![c] = r] /\ r.state = s /\ r.retryCount = n
      BY <2>3, <2>4, <2>5
    <2>7. child[c].retryCount \in Nat /\ n \in Nat /\ forked' = forked
      BY <1>0, <2>2, <2>4 DEF ServerInv, ChildRecords, S!wait_on_eof_ack
    <2>8. GivenUp(c) => n > MaxTries
      BY <1>0, <2>2, <2>4, <2>7 DEF GivenUp, S!wait_on_eof_ack
    <2>9. c <= forked
      BY <1>0, <2>2 DEF TryInv, Counting, Counted, S!wait_on_eof_ack
    <2>10. Counted(s, n)
      BY <2>7 DEF Counted
    <2>11. forked' \in Nat /\ forked' >= forked /\ c <= forked'
      BY <1>0, <2>7, <2>9
    <2>12. Takes(c, r)
      BY <1>0, <2>6, <2>8, <2>10, <2>11 DEF Takes, GivenUp
    <2> QED
      BY <1>0, <2>12, ChildCounts
  <1> QED
    BY <1>1, <1>2 DEF S!Receive

LEMMA StepCounts ==
    ASSUME IInv, TryInv, [Next]_vars
    PROVE  TryInv' /\ \A k \in S!Children : GivenUp(k) => GivenUp(k)'
  <1>1. CASE UNCHANGED svars
    BY <1>1 DEF svars, TryInv, Counting, Counted, Quiet, GivenUp
  <1>2. CASE ServerStep
    BY <1>2, InternalCounts, ReceiveCounts DEF IInv, ServerStep, ChildRuns, ServerReceives
  <1>3. CASE ClientStep \/ Fault \/ UNCHANGED vars
    BY <1>1, <1>3 DEF ClientStep, ClientRuns, ClientReceives, Fault, vars
  <1> QED
    BY <1>2, <1>3 DEF Next

\* MAX_TRIES end what a child sends: when wait_on_eof_ack has found nothing once more
\* than that, no datagram of that child leaves the server again and its counter never
\* goes back, even if a late or a flipped one takes it out of recvfrom (server.c:244-274,
\* srej.c:98-120).
THEOREM SilentForGood ==
    Spec => /\ [](\A c \in S!Children : Quiet(c))
            /\ [][\A c \in S!Children : GivenUp(c) => GivenUp(c)']_vars
  <1>1. TryInv => \A c \in S!Children : Quiet(c)
    BY DEF TryInv
  <1>2. IInv /\ TryInv /\ [Next]_vars
           => TryInv' /\ [\A c \in S!Children : GivenUp(c) => GivenUp(c)']_vars
    BY StepCounts
  <1> QED
    BY <1>1, <1>2, InitTryInv, Invariance, PTL DEF Spec
=============================================================================
