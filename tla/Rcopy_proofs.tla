----------------------------- MODULE Rcopy_proofs -----------------------------
(***************************************************************************)
(* Proofs about Rcopy for every window size and every network: Packets is  *)
(* any set of datagrams in which the PDU numbered n carries block n.       *)
(***************************************************************************)
EXTENDS Rcopy, TLAPS

\* A PDU that is not END_OF_FILE and has number n > 0 carries block n.
NumberedBlocks ==
    \A p \in Packets :
        /\ p.seq \in Nat /\ p.arg \in Nat
        /\ p.flag # "END_OF_FILE" /\ p.seq > 0 => p.arg = p.seq

\* What the invariant says of a window that malloc returned clean.
CleanPart ==
    /\ Garbage \notin {pduArray[i] : i \in Slots}
    /\ \A i \in Slots : Holds(i) => pduArray[i] > expected_seq_num
    /\ output \in Seq(Nat)
    /\ \A j \in 1 .. Len(output) : \A i \in 1 .. j - 1 : output[i] < output[j]
    /\ {output[i] : i \in 1 .. Len(output)}
          = (1 .. expected_seq_num - 1) \ unwritten

\* The inductive invariant.  In a clean window a PDU is buffered only while it
\* is ahead of expected_seq_num, and that stops moving as soon as one is.
IInv ==
    /\ TypeOK
    /\ state \in {"START_STATE", "FILENAME"} => retryCount <= MaxTries
    /\ clean => CleanPart

\* The part of it that is not about the file.
Scalars ==
    /\ state \in {"START_STATE", "FILENAME", "FILE_OK", "RECV_DATA", "DONE", "crashed"}
    /\ retryCount \in 0 .. MaxTries + 1
    /\ state \in {"START_STATE", "FILENAME"} => retryCount <= MaxTries
    /\ clientSeqNum \in Nat /\ sk \in 0 .. MaxSockets
    /\ opened \in BOOLEAN /\ clean \in BOOLEAN
-----------------------------------------------------------------------------
\* Counters only grow: what was below the old one is below the new one.
LEMMA RangeGrows ==
    ASSUME NEW a \in Nat, NEW b \in Nat, a <= b, NEW S \in SUBSET (1 .. a - 1)
    PROVE  S \subseteq 1 .. b - 1
  <1>1. \A x \in 1 .. a - 1 : x \in 1 .. b - 1
    OBVIOUS
  <1> QED
    BY <1>1

\* What the loop of RecvSlide does whatever the slots hold: it counts n of them and
\* writes at most that often, each time p's block or junk.
Slides(p, n, written) ==
    /\ n \in 0 .. WindowSize
    /\ written \in Seq({p.arg, Junk}) /\ Len(written) <= n
    /\ expected_seq_num' = expected_seq_num + n
    /\ output' = output \o written

LEMMA SlideLoop ==
    ASSUME NEW p, RecvSlide(p)
    PROVE  \E n, written : Slides(p, n, written)
  <1> USE RcopyAssumption
  <1>1. PICK stop \in 0 .. WindowSize : \E n \in 0 .. stop :
             \E below \in [1 .. n -> 0 .. stop - 1] :
                Slide(p, stop, n, below) /\ SlideWrites(p, n, below)
    BY DEF RecvSlide
  <1>2. PICK n \in 0 .. stop : \E below \in [1 .. n -> 0 .. stop - 1] :
                Slide(p, stop, n, below) /\ SlideWrites(p, n, below)
    BY <1>1
  <1>3. PICK below \in [1 .. n -> 0 .. stop - 1] :
                Slide(p, stop, n, below) /\ SlideWrites(p, n, below)
    BY <1>2
  <1>4. PICK w \in 0 .. n : \E put \in [1 .. w -> 1 .. n] :
                output' = output \o [k \in 1 .. w |->
                                        IF Holds(below[put[k]]) THEN p.arg ELSE Junk]
    BY <1>3 DEF SlideWrites
  <1>5. PICK put \in [1 .. w -> 1 .. n] :
                output' = output \o [k \in 1 .. w |->
                                        IF Holds(below[put[k]]) THEN p.arg ELSE Junk]
    BY <1>4
  <1>6. PICK written : written = [k \in 1 .. w |->
                                     IF Holds(below[put[k]]) THEN p.arg ELSE Junk]
    OBVIOUS
  <1>7. n \in 0 .. WindowSize /\ w \in Nat /\ w <= n
    BY <1>1, <1>2, <1>4
  <1>8. written \in [1 .. w -> {p.arg, Junk}]
    BY <1>6
  <1>9. written \in Seq({p.arg, Junk}) /\ Len(written) = w
    BY <1>7, <1>8
  <1>10. expected_seq_num' = expected_seq_num + n /\ output' = output \o written
    BY <1>3, <1>5, <1>6 DEF Slide
  <1>11. Slides(p, n, written)
    BY <1>7, <1>9, <1>10 DEF Slides
  <1> QED
    BY <1>11

\* The loop of RecvSlide keeps the types, even of a window full of garbage.
LEMMA SlideTypes ==
    ASSUME IInv, NumberedBlocks, NEW p \in Packets, RecvSlide(p)
    PROVE  /\ expected_seq_num' \in Nat /\ expected_seq_num' >= expected_seq_num
           /\ output' \in Seq(Nat \cup {Junk})
  <1>1. PICK n, written : Slides(p, n, written)
    BY SlideLoop
  <1>2. p.arg \in Nat /\ n \in Nat /\ expected_seq_num \in Nat
    BY <1>1, RcopyAssumption DEF Slides, NumberedBlocks, IInv, TypeOK
  <1>3. written \in Seq(Nat \cup {Junk}) /\ output \in Seq(Nat \cup {Junk})
    BY <1>1, <1>2 DEF Slides, IInv, TypeOK
  <1> QED
    BY <1>1, <1>2, <1>3 DEF Slides

\* The loop of RecvSlide finds nothing below the expected number.
LEMMA SlideWritesNothing ==
    ASSUME IInv, clean, NEW p, RecvSlide(p)
    PROVE  UNCHANGED <<expected_seq_num, output>>
  <1> USE RcopyAssumption
  <1>1. PICK stop \in 0 .. WindowSize : \E n \in 0 .. stop :
             \E below \in [1 .. n -> 0 .. stop - 1] :
                Slide(p, stop, n, below) /\ SlideWrites(p, n, below)
    BY DEF RecvSlide
  <1>2. PICK n \in 0 .. stop : \E below \in [1 .. n -> 0 .. stop - 1] :
                Slide(p, stop, n, below) /\ SlideWrites(p, n, below)
    BY <1>1
  <1>3. PICK below \in [1 .. n -> 0 .. stop - 1] :
                Slide(p, stop, n, below) /\ SlideWrites(p, n, below)
    BY <1>2
  <1>4. p.seq = expected_seq_num /\ expected_seq_num \in Nat
    BY DEF RecvSlide, IInv, TypeOK
  <1>5. n = 0
    <2> SUFFICES ASSUME n # 0
                 PROVE  FALSE
      OBVIOUS
    <2> DEFINE i == below[1]
    <2>1. 1 \in 1 .. n /\ i \in 0 .. stop - 1 /\ i \in Slots
      BY <1>3 DEF Slots
    <2>2. pduArray[i] # Null /\ pduArray[i] # Garbage
      BY <1>3, <2>1 DEF Slide, IInv, CleanPart
    <2>3. Holds(i)
      BY <2>1, <2>2 DEF IInv, TypeOK, Holds
    <2>4. pduArray[i] < p.seq
      BY <1>3, <2>1, <2>3 DEF Slide
    <2>5. pduArray[i] > expected_seq_num
      BY <2>1, <2>3 DEF IInv, CleanPart
    <2> QED
      BY <1>4, <2>3, <2>4, <2>5 DEF Holds
  <1>6. output' = output
    <2>1. PICK w \in 0 .. n : \E put \in [1 .. w -> 1 .. n] :
              output' = output \o [k \in 1 .. w |->
                                      IF Holds(below[put[k]]) THEN p.arg ELSE Junk]
      BY <1>3 DEF SlideWrites
    <2>2. w = 0
      BY <1>5, <2>1
    <2>3. output' = output \o <<>>
      BY <2>1, <2>2
    <2> QED
      BY <2>3 DEF IInv, TypeOK
  <1> QED
    BY <1>3, <1>4, <1>5, <1>6 DEF Slide

\* Writing the expected block keeps the file in order and complete but for the
\* blocks whose write failed.
LEMMA WriteKeepsOrder ==
    ASSUME IInv, clean, NumberedBlocks, NEW p \in Packets, RecvInOrder(p)
    PROVE  CleanPart'
  <1> DEFINE e == expected_seq_num
  <1>1. /\ p.arg = e /\ p.seq = e /\ e \in Nat \ {0} /\ e' = e + 1
        /\ unwritten \subseteq 1 .. e - 1
    BY DEF RecvInOrder, RecvPdu, NumberedBlocks, IInv, TypeOK
  <1>2. output \in Seq(Nat) /\ Len(output) \in Nat
    BY DEF IInv, CleanPart
  <1>3. {output[i] : i \in 1 .. Len(output)} = (1 .. e - 1) \ unwritten
    BY DEF IInv, CleanPart
  <1>4. \A j \in 1 .. Len(output) : \A i \in 1 .. j - 1 : output[i] < output[j]
    BY DEF IInv, CleanPart
  <1>5. /\ Garbage \notin {pduArray'[i] : i \in Slots'}
        /\ (\A i \in Slots : Holds(i) => pduArray[i] > e)'
    <2>1. \A i \in Slots : pduArray'[i] = Null
      BY DEF RecvInOrder, isWindowEmpty
    <2> QED
      BY <2>1, RcopyAssumption DEF Holds, Slots
  <1>6. CASE output' = output /\ unwritten' = unwritten \cup {p.seq}
    <2>1. (1 .. e' - 1) \ unwritten' = (1 .. e - 1) \ unwritten
      BY <1>1, <1>6
    <2> QED
      BY <1>2, <1>3, <1>4, <1>5, <1>6, <2>1 DEF CleanPart
  <1>7. CASE output' = Append(output, p.arg) /\ unwritten' = unwritten
    <2> DEFINE L == Len(output)
    <2>1. output' \in Seq(Nat) /\ Len(output') = L + 1
      BY <1>1, <1>2, <1>7
    <2>2. \A i \in 1 .. L : output'[i] = output[i] /\ output[i] \in Nat
      BY <1>1, <1>2, <1>7
    <2>3. output'[L + 1] = e
      BY <1>1, <1>2, <1>7
    <2>4. \A i \in 1 .. L : output[i] < e
      <3>1. \A i \in 1 .. L : output[i] \in (1 .. e - 1) \ unwritten
        BY <1>3
      <3> QED
        BY <1>1, <3>1
    <2>5. ASSUME NEW j \in 1 .. Len(output'), NEW i \in 1 .. j - 1
          PROVE  output'[i] < output'[j]
      <3>1. CASE j \in 1 .. L
        BY <1>2, <1>4, <2>2, <3>1
      <3>2. CASE j = L + 1
        BY <1>2, <2>2, <2>3, <2>4, <3>2
      <3> QED
        BY <1>2, <2>1, <3>1, <3>2
    <2>6. {output'[i] : i \in 1 .. Len(output')} = (1 .. e' - 1) \ unwritten'
      <3>1. {output'[i] : i \in 1 .. L + 1} = {output[i] : i \in 1 .. L} \cup {e}
        BY <1>2, <2>2, <2>3
      <3>2. (1 .. e' - 1) \ unwritten' = ((1 .. e - 1) \ unwritten) \cup {e}
        BY <1>1, <1>7
      <3> QED
        BY <1>3, <2>1, <3>1, <3>2
    <2> QED
      BY <1>5, <2>1, <2>5, <2>6 DEF CleanPart
  <1> QED
    BY <1>6, <1>7 DEF RecvInOrder

\* A step that changes neither the file nor what recv_data expects and
\* buffers keeps the parts of the invariant that are about them.
LEMMA FileUntouched ==
    ASSUME IInv, UNCHANGED <<expected_seq_num, pduArray, output, clean, unwritten>>,
           Scalars'
    PROVE  IInv'
  <1>1. TypeOK'
    BY DEF Scalars, IInv, TypeOK, Slots
  <1>2. (clean => CleanPart)'
    BY DEF IInv, CleanPart, Holds, Slots
  <1> QED
    BY <1>1, <1>2 DEF Scalars, IInv

\* Every pass through processFile preserves the inductive invariant.
LEMMA NextKeeps ==
    ASSUME IInv, NumberedBlocks, [Next]_vars
    PROVE  IInv'
  <1> USE RcopyAssumption
  <1>0. Scalars /\ MaxTries \in Nat /\ MaxSockets \in Nat
    BY RcopyAssumption DEF IInv, Scalars, TypeOK
  <1>1. CASE start_state
    <2>1. Scalars'
      BY <1>0, <1>1 DEF history, start_state, udpClientSetup, Stop, Scalars
    <2>2. UNCHANGED <<expected_seq_num, pduArray, output, clean, unwritten>>
      BY <1>1 DEF history, start_state, udpClientSetup, Stop
    <2> QED
      BY <2>1, <2>2, FileUntouched
  <1>2. CASE FilenameTimeout
    <2>1. Scalars'
      BY <1>0, <1>2 DEF history, FilenameTimeout, Scalars
    <2>2. UNCHANGED <<expected_seq_num, pduArray, output, clean, unwritten>>
      BY <1>2 DEF history, FilenameTimeout
    <2> QED
      BY <2>1, <2>2, FileUntouched
  <1>3. CASE FilenameGiveUp
    <2>1. Scalars'
      BY <1>0, <1>3 DEF history, FilenameGiveUp, Stop, Scalars
    <2>2. UNCHANGED <<expected_seq_num, pduArray, output, clean, unwritten>>
      BY <1>3 DEF history, FilenameGiveUp, Stop
    <2> QED
      BY <2>1, <2>2, FileUntouched
  <1>4. CASE file_ok
    <2>1. Scalars'
      BY <1>0, <1>4 DEF history, file_ok, Stop, Scalars
    <2>2. UNCHANGED <<expected_seq_num, pduArray, output, clean, unwritten>>
      BY <1>4 DEF history, file_ok, Stop
    <2> QED
      BY <2>1, <2>2, FileUntouched
  <1>5. CASE RecvTimeout
    <2>1. Scalars'
      BY <1>0, <1>5 DEF history, RecvTimeout, Stop, Scalars
    <2>2. UNCHANGED <<expected_seq_num, pduArray, output, clean, unwritten>>
      BY <1>5 DEF history, RecvTimeout, Stop
    <2> QED
      BY <2>1, <2>2, FileUntouched
  <1>6. ASSUME NEW p \in Packets, Receive(p)
        PROVE  IInv'
    <2>1. CASE FilenameReply(p)
      <3>1. Scalars'
        BY <1>0, <2>1 DEF history, FilenameReply, Stop, Scalars
      <3>2. UNCHANGED <<expected_seq_num, pduArray, output, clean, unwritten>>
        BY <2>1 DEF history, FilenameReply, Stop
      <3> QED
        BY <3>1, <3>2, FileUntouched
    <2>2. CASE RecvCorrupt(p) \/ RecvOld(p)
      <3>1. Scalars'
        BY <1>0, <2>2 DEF history, RecvCorrupt, RecvOld, RecvPdu, RecvFrom, Scalars
      <3>2. UNCHANGED <<expected_seq_num, pduArray, output, clean, unwritten>>
        BY <2>2 DEF history, RecvCorrupt, RecvOld, RecvPdu, RecvFrom
      <3> QED
        BY <3>1, <3>2, FileUntouched
    <2>3. CASE RecvEof(p)
      <3>1. Scalars'
        BY <1>0, <2>3 DEF history, RecvEof, RecvFrom, Stop, Scalars
      <3>2. UNCHANGED <<expected_seq_num, pduArray, output, clean, unwritten>>
        BY <2>3 DEF history, RecvEof, RecvFrom, Stop
      <3> QED
        BY <3>1, <3>2, FileUntouched
    <2>4. CASE RecvInOrder(p)
      <3>1. clean => CleanPart'
        BY <2>4, WriteKeepsOrder
      <3>2. Scalars'
        BY <1>0, <2>4 DEF RecvInOrder, RecvPdu, RecvFrom, Scalars
      <3>3. UNCHANGED <<clean, pduArray>>
        BY <2>4 DEF RecvInOrder
      <3>4. p.arg \in Nat /\ p.seq = expected_seq_num
        BY <2>4 DEF RecvInOrder, NumberedBlocks
      <3>5. expected_seq_num' = expected_seq_num + 1 /\ expected_seq_num \in Nat \ {0}
        BY <2>4 DEF RecvInOrder, IInv, TypeOK
      <3>6. unwritten' \subseteq 1 .. expected_seq_num' - 1
        <4>1. unwritten \subseteq 1 .. expected_seq_num - 1
          BY DEF IInv, TypeOK
        <4>2. unwritten \subseteq 1 .. expected_seq_num' - 1
          BY <3>5, <4>1, RangeGrows
        <4>3. p.seq \in 1 .. expected_seq_num' - 1
          BY <3>4, <3>5
        <4>4. unwritten' \subseteq unwritten \cup {p.seq}
          BY <2>4 DEF RecvInOrder
        <4> QED
          BY <4>2, <4>3, <4>4
      <3>7. output' \in Seq(Nat \cup {Junk})
        BY <2>4, <3>4 DEF RecvInOrder, IInv, TypeOK
      <3>8. pduArray' \in [Slots' -> HeapWords \cup Nat]
        BY <3>3 DEF IInv, TypeOK, Slots
      <3>9. TypeOK'
        BY <3>2, <3>5, <3>6, <3>7, <3>8 DEF Scalars, TypeOK
      <3> QED
        BY <3>1, <3>2, <3>3, <3>9 DEF IInv, Scalars
    <2>5. CASE RecvSlide(p)
      <3>1. Scalars'
        BY <1>0, <2>5 DEF RecvSlide, RecvPdu, RecvFrom, history, Scalars
      <3>2. UNCHANGED <<clean, unwritten, pduArray>>
        BY <2>5 DEF RecvSlide, history
      <3>3. CASE clean
        <4>1. UNCHANGED <<expected_seq_num, output>>
          BY <2>5, <3>3, SlideWritesNothing
        <4> QED
          BY <3>1, <3>2, <4>1, FileUntouched
      <3>4. CASE ~clean
        <4>1. /\ expected_seq_num' \in Nat /\ expected_seq_num' >= expected_seq_num
              /\ output' \in Seq(Nat \cup {Junk})
          BY <2>5, SlideTypes
        <4>2. expected_seq_num \in Nat \ {0} /\ unwritten \subseteq 1 .. expected_seq_num - 1
          BY DEF IInv, TypeOK
        <4>3. expected_seq_num' \in Nat \ {0}
          BY <4>1, <4>2
        <4>4. unwritten' \subseteq 1 .. expected_seq_num' - 1
          <5>1. unwritten \subseteq 1 .. expected_seq_num' - 1
            BY <4>1, <4>2, RangeGrows
          <5> QED
            BY <3>2, <5>1
        <4>5. pduArray' \in [Slots' -> HeapWords \cup Nat]
          BY <3>2 DEF IInv, TypeOK, Slots
        <4>6. TypeOK'
          BY <3>1, <4>1, <4>3, <4>4, <4>5 DEF Scalars, TypeOK
        <4> QED
          BY <3>1, <3>2, <3>4, <4>6 DEF IInv, Scalars
      <3> QED
        BY <3>3, <3>4
    <2>6. CASE RecvAhead(p)
      <3>1. /\ pduArray' = [pduArray EXCEPT ![p.seq % WindowSize] = p.seq]
            /\ p.seq \in Nat /\ p.seq > expected_seq_num
            /\ UNCHANGED <<expected_seq_num, output, state, clean, unwritten>>
        BY <2>6 DEF RecvAhead, addPDUtoWindow, NumberedBlocks, history
      <3>2. pduArray \in [Slots -> HeapWords \cup Nat]
        BY DEF IInv, TypeOK
      <3>3. p.seq % WindowSize \in Slots
        <4>1. \A W \in Nat \ {0}, s \in Nat : s % W \in 0 .. W - 1
          OBVIOUS
        <4> QED
          BY <3>1, <4>1, RcopyAssumption DEF Slots
      <3>4. pduArray' \in [Slots -> HeapWords \cup Nat]
        BY <3>1, <3>2
      <3>5. Scalars'
        BY <1>0, <2>6 DEF RecvAhead, RecvPdu, RecvFrom, history, Scalars
      <3>6. TypeOK'
        BY <3>1, <3>4, <3>5 DEF IInv, Scalars, TypeOK, Slots
      <3>7. ASSUME clean
            PROVE  CleanPart'
        <4>1. \A i \in Slots : pduArray'[i] \in {pduArray[i], p.seq}
          BY <3>1, <3>2
        <4>2. \A i \in Slots : pduArray'[i] \in Nat => pduArray'[i] > expected_seq_num
          BY <3>1, <3>7, <4>1 DEF Holds, IInv, CleanPart
        <4>3. Garbage \notin {pduArray'[i] : i \in Slots}
          BY <3>1, <3>7, <4>1, RcopyAssumption DEF IInv, CleanPart
        <4> QED
          BY <3>1, <3>7, <4>2, <4>3 DEF IInv, CleanPart, Holds, Slots
      <3> QED
        BY <3>1, <3>5, <3>6, <3>7 DEF IInv, Scalars
    <2> QED
      BY <1>6, <2>1, <2>2, <2>3, <2>4, <2>5, <2>6 DEF Receive
  <1>7. CASE UNCHANGED vars
    <2>1. Scalars'
      BY <1>0, <1>7 DEF vars, Scalars
    <2>2. UNCHANGED <<expected_seq_num, pduArray, output, clean, unwritten>>
      BY <1>7 DEF vars
    <2> QED
      BY <2>1, <2>2, FileUntouched
  <1> QED
    BY <1>1, <1>2, <1>3, <1>4, <1>5, <1>6, <1>7 DEF Next, Internal

LEMMA InitHolds == Init => IInv
  <1> USE RcopyAssumption
  <1> SUFFICES ASSUME Init
               PROVE  IInv
    OBVIOUS
  <1>1. opened \in BOOLEAN
    BY DEF Init
  <1>2. clean \in BOOLEAN
    BY DEF Init
  <1>3. Scalars /\ expected_seq_num = 1
    BY <1>1, <1>2 DEF Init, Scalars, START_SEQ_NUM
  <1>4. pduArray \in [Slots -> HeapWords \cup Nat]
    BY DEF Init
  <1>5. output = <<>> /\ unwritten = {}
    BY DEF Init
  <1>6. clean => \A i \in Slots : pduArray[i] = Null
    BY DEF Init
  <1>7. clean => CleanPart
    BY <1>3, <1>5, <1>6 DEF CleanPart, Holds
  <1> QED
    BY <1>3, <1>4, <1>5, <1>7 DEF IInv, Scalars, TypeOK

LEMMA Invariance ==
    ASSUME NumberedBlocks
    PROVE  Spec => []IInv
  BY InitHolds, NextKeeps, PTL DEF Spec
-----------------------------------------------------------------------------
\* The client's state keeps its types, whatever malloc left in the window and
\* whatever the network delivers (rcopy.c, windowing.h).
THEOREM TypeCorrect ==
    ASSUME NumberedBlocks
    PROVE  Spec => []TypeOK
  <1>1. IInv => TypeOK
    BY DEF IInv
  <1> QED
    BY <1>1, Invariance, PTL

\* Only PDUs still to be written are buffered, for any window size.
THEOREM Ahead ==
    ASSUME NumberedBlocks
    PROVE  Spec => []BufferedAhead
  <1>1. IInv => BufferedAhead
    BY DEF IInv, CleanPart, BufferedAhead
  <1> QED
    BY <1>1, Invariance, PTL

\* The file is the blocks up to the expected one, in order, each once, but for
\* those whose write failed, whatever the network delivers and for any window
\* size (rcopy.c:220-253).
THEOREM InOrder ==
    ASSUME NumberedBlocks
    PROVE  Spec => []OutputInOrder
  <1>1. IInv => OutputInOrder
    BY DEF IInv, CleanPart, OutputInOrder
  <1> QED
    BY <1>1, Invariance, PTL

\* Nothing ever gets recv_data past the first gap, for any window size.
THEOREM Stuck ==
    ASSUME NumberedBlocks
    PROVE  Spec => StuckOnceBuffered
  <1>1. IInv /\ [Next]_vars /\ clean /\ ~isWindowEmpty
           => UNCHANGED <<expected_seq_num, output>>
    <2> SUFFICES ASSUME IInv, [Next]_vars, clean, ~isWindowEmpty
                 PROVE  UNCHANGED <<expected_seq_num, output>>
      OBVIOUS
    <2>1. CASE Internal \/ UNCHANGED vars
      BY <2>1 DEF Internal, start_state, udpClientSetup, FilenameTimeout, FilenameGiveUp,
                  file_ok, RecvTimeout, vars
    <2>2. ASSUME NEW p \in Packets, Receive(p)
          PROVE  UNCHANGED <<expected_seq_num, output>>
      BY <2>2, SlideWritesNothing
      DEF Receive, FilenameReply, RecvCorrupt, RecvEof, RecvInOrder, RecvOld,
          RecvAhead
    <2> QED
      BY <2>1, <2>2 DEF Next
  <1> QED
    BY <1>1, Invariance, PTL DEF Spec, StuckOnceBuffered
-----------------------------------------------------------------------------
\* The file and its blocks, of whatever window: each is below the expected number, and
\* NeverGoesBack.
Blocks ==
    /\ NeverGoesBack
    /\ \A i \in 1 .. Len(output) : output[i] # Junk => output[i] < expected_seq_num

\* Writes that are all of the expected block, or junk, and after which another one is
\* expected keep that, if there are no more than WindowSize of them.
LEMMA WritesAtEnd ==
    ASSUME IInv, Blocks, NEW n \in 0 .. WindowSize, NEW written,
           written \in Seq({expected_seq_num, Junk}), Len(written) <= n,
           expected_seq_num' = expected_seq_num + n, output' = output \o written
    PROVE  Blocks'
  <1> USE RcopyAssumption
  <1> DEFINE e == expected_seq_num
             L == Len(output)
  <1>1. e \in Nat /\ output \in Seq(Nat \cup {Junk}) /\ L \in Nat /\ n \in Nat
    BY DEF IInv, TypeOK
  <1>2. Len(written) \in Nat /\ \A k \in 1 .. Len(written) : written[k] \in {e, Junk}
    BY <1>1
  <1>3. Len(output') = L + Len(written)
    BY <1>1
  <1>4. \A i \in 1 .. L : output'[i] = output[i] /\ output[i] \in Nat \cup {Junk}
    BY <1>1
  <1>5. \A i \in L + 1 .. Len(output') : output'[i] \in {e, Junk}
    <2> TAKE i \in L + 1 .. Len(output')
    <2>1. i - L \in 1 .. Len(written) /\ output'[i] = written[i - L]
      BY <1>1, <1>2, <1>3
    <2> QED
      BY <1>2, <2>1
  <1>6. \A i \in 1 .. L : output[i] # Junk => output[i] \in Nat /\ output[i] < e
    BY <1>4 DEF Blocks
  <1>7. e' \in Nat /\ e' >= e /\ (L < Len(output') => e' > e)
    BY <1>1, <1>2, <1>3
  <1>8. ASSUME NEW i \in 1 .. Len(output'), output'[i] # Junk
        PROVE  output'[i] < e'
    <2>1. CASE i \in 1 .. L
      BY <1>1, <1>4, <1>6, <1>7, <1>8, <2>1
    <2>2. CASE i \in L + 1 .. Len(output')
      BY <1>1, <1>2, <1>3, <1>5, <1>7, <1>8, <2>2
    <2> QED
      BY <1>1, <1>2, <1>3, <2>1, <2>2
  <1>9. ASSUME NEW i \in 1 .. Len(output'), NEW j \in 1 .. Len(output'), i < j,
               output'[i] # Junk, output'[j] # Junk
        PROVE  \/ output'[i] < output'[j]
               \/ output'[i] = output'[j] /\ j - i < WindowSize
    <2>1. CASE j \in 1 .. L
      <3>1. i \in 1 .. L
        BY <1>1, <1>9, <2>1
      <3>2. output'[i] = output[i] /\ output'[j] = output[j]
        BY <1>4, <2>1, <3>1
      <3> QED
        BY <1>9, <2>1, <3>1, <3>2 DEF Blocks, NeverGoesBack
    <2>2. CASE i \in 1 .. L /\ j \in L + 1 .. Len(output')
      <3>1. output'[j] = e
        BY <1>5, <1>9, <2>2
      <3>2. output'[i] < e
        BY <1>4, <1>6, <1>9, <2>2
      <3> QED
        BY <3>1, <3>2
    <2>3. CASE i \in L + 1 .. Len(output') /\ j \in L + 1 .. Len(output')
      <3>1. output'[j] = e /\ output'[i] = e
        BY <1>5, <1>9, <2>3
      <3>2. j - i < WindowSize
        BY <1>1, <1>2, <1>3, <1>9, <2>3
      <3> QED
        BY <3>1, <3>2
    <2> QED
      BY <1>1, <1>2, <1>3, <1>9, <2>1, <2>2, <2>3
  <1>10. WindowSize' = WindowSize
    OBVIOUS
  <1> QED
    BY <1>8, <1>9 DEF Blocks, NeverGoesBack

LEMMA BlocksKept ==
    ASSUME IInv, NumberedBlocks, Blocks, [Next]_vars
    PROVE  Blocks'
  <1>1. CASE UNCHANGED <<expected_seq_num, output>>
    BY <1>1 DEF Blocks, NeverGoesBack
  <1>2. expected_seq_num \in Nat \ {0} /\ output \in Seq(Nat \cup {Junk})
    BY DEF IInv, TypeOK
  <1>3. ASSUME NEW p \in Packets, RecvInOrder(p)
        PROVE  Blocks'
    <2>1. /\ expected_seq_num' = expected_seq_num + 1
          /\ p.arg = expected_seq_num
          /\ output' \in {output, Append(output, p.arg)}
      BY <1>2, <1>3 DEF RecvInOrder, RecvPdu, NumberedBlocks
    <2>2. PICK written \in {<<>>, <<expected_seq_num>>} : output' = output \o written
      BY <1>2, <2>1
    <2>3. written \in Seq({expected_seq_num, Junk}) /\ Len(written) <= 1
      <3>1. CASE written = <<>>
        BY <3>1
      <3>2. CASE written = <<expected_seq_num>>
        BY <3>2
      <3> QED
        BY <2>2, <3>1, <3>2
    <2>4. 1 \in 0 .. WindowSize
      BY RcopyAssumption
    <2> QED
      BY <2>1, <2>2, <2>3, <2>4, WritesAtEnd
  <1>4. ASSUME NEW p \in Packets, RecvSlide(p)
        PROVE  Blocks'
    <2>1. p.arg = expected_seq_num
      BY <1>2, <1>4 DEF RecvSlide, RecvPdu, NumberedBlocks
    <2>2. PICK n, written : Slides(p, n, written)
      BY <1>4, SlideLoop
    <2> QED
      BY <2>1, <2>2, WritesAtEnd DEF Slides
  <1>5. CASE Internal \/ UNCHANGED vars
    BY <1>1, <1>5 DEF Internal, start_state, udpClientSetup, FilenameTimeout,
                      FilenameGiveUp, file_ok, RecvTimeout, Stop, history, vars
  <1>6. ASSUME NEW p \in Packets,
               FilenameReply(p) \/ RecvCorrupt(p) \/ RecvEof(p) \/ RecvOld(p) \/ RecvAhead(p)
        PROVE  Blocks'
    BY <1>1, <1>6 DEF FilenameReply, RecvCorrupt, RecvEof, RecvOld, RecvAhead, history
  <1> QED
    BY <1>3, <1>4, <1>5, <1>6 DEF Next, Receive

\* Also with a window that malloc left full of garbage, and if writes fail, no block is
\* ever written after a later one, nor again after WindowSize writes: what the loop that
\* slides the window writes is junk or the block just received, and it then expects a
\* later one if it has written anything (rcopy.c:227-240).
THEOREM Forward ==
    ASSUME NumberedBlocks
    PROVE  Spec => []NeverGoesBack
  <1>1. Init => Blocks
    BY DEF Init, Blocks, NeverGoesBack
  <1>2. Blocks => NeverGoesBack
    BY DEF Blocks
  <1> QED
    BY <1>1, <1>2, BlocksKept, Invariance, PTL DEF Spec
=============================================================================
