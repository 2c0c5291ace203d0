------------------------- MODULE WindowDriver_proofs -------------------------
(***************************************************************************)
(* Proofs about WindowDriver for every window size.  An RR typed as a      *)
(* negative number is larger than every sequence number: it empties the    *)
(* buffer without moving the window, so the theorems that need it assume   *)
(* NoNegativeRR.                                                           *)
(***************************************************************************)
EXTENDS WindowDriver, TLAPS

NoNegativeRR == RRInputs \subseteq Nat

\* The part of the inductive invariant that holds whatever RR is typed.
RecentIInv ==
    /\ current \in Nat
    /\ current = seqNum
    /\ pduArray \in [Slots -> Nat \cup {Null, Uninit}]
    /\ SlotsRecent

\* The inductive invariant: besides the properties themselves, the fields of
\* Window move together and current stays inside the window.
IInv ==
    /\ TypeOK
    /\ current = seqNum
    /\ upper = lower + WindowSize
    /\ current <= upper
    /\ SlotsRecent
    /\ UnackedRetained
    /\ NeverCrashes
-----------------------------------------------------------------------------
(***************************************************************************)
(* Arithmetic of the buffer's index, seqNum % windowsize: which sequence   *)
(* numbers share a slot, and that a window's worth of consecutive numbers  *)
(* uses every slot.                                                        *)
(***************************************************************************)

\* The index of a PDU is an index of the array.
LEMMA IndexRange ==
    ASSUME NEW W \in Nat \ {0}, NEW s \in Nat
    PROVE  s % W \in 0 .. W - 1
  BY SMT

\* A sequence number is its lap times the window size plus its index.
LEMMA LapAndIndex ==
    ASSUME NEW W \in Nat \ {0}, NEW s \in Nat
    PROVE  s = W * (s \div W) + (s % W) /\ s \div W \in Nat
  BY SMT

\* Different laps are at least a window apart.
LEMMA LapsApart ==
    ASSUME NEW W \in Nat \ {0}, NEW p \in Int, NEW q \in Int, p < q
    PROVE  W * q - W * p >= W
  BY SMT

\* Two sequence numbers share a slot only if they are a window apart.
LEMMA SameSlotFarApart ==
    ASSUME NEW W \in Nat \ {0}, NEW s \in Nat, NEW t \in Nat, s < t,
           s % W = t % W
    PROVE  t - s >= W
  <1>1. s \div W < t \div W
    BY LapAndIndex, SMT
  <1>2. W * (t \div W) - W * (s \div W) >= W
    BY <1>1, LapsApart, LapAndIndex
  <1> QED
    BY <1>2, LapAndIndex

\* The index of the i-th number of a lap is i.
LEMMA IndexOfLap ==
    ASSUME NEW W \in Nat \ {0}, NEW q \in Nat, NEW i \in 0 .. W - 1
    PROVE  (W * q + i) % W = i
  <1> DEFINE s == W * q + i
  <1>1. s \in Nat
    BY SMT
  <1>2. s = W * (s \div W) + (s % W) /\ s \div W \in Nat
    BY <1>1, LapAndIndex
  <1>3. s % W \in 0 .. W - 1
    BY <1>1, IndexRange
  <1>4. CASE s \div W < q
    BY <1>2, <1>3, <1>4, LapsApart
  <1>5. CASE q < s \div W
    BY <1>2, <1>3, <1>5, LapsApart
  <1>6. CASE q = s \div W
    BY <1>2, <1>3, <1>6
  <1> QED
    BY <1>2, <1>4, <1>5, <1>6

\* A window's worth of consecutive numbers uses every slot.
LEMMA EverySlotUsed ==
    ASSUME NEW W \in Nat \ {0}, NEW l \in Nat, NEW i \in 0 .. W - 1
    PROVE  \E s \in l .. l + W - 1 : s % W = i
  <1> DEFINE r == l % W
             q == l \div W
  <1>1. r \in 0 .. W - 1
    BY IndexRange
  <1>2. l = W * q + r /\ q \in Nat
    BY LapAndIndex
  <1>3. W * (q + 1) = W * q + W /\ W * q \in Nat
    BY <1>2
  <1>4. CASE r <= i
    <2>1. W * q + i \in l .. l + W - 1
      BY <1>1, <1>2, <1>3, <1>4
    <2>2. (W * q + i) % W = i
      BY <1>2, IndexOfLap
    <2> QED
      BY <2>1, <2>2
  <1>5. CASE i < r
    <2>1. W * (q + 1) + i \in l .. l + W - 1
      BY <1>1, <1>2, <1>3, <1>5
    <2>2. (W * (q + 1) + i) % W = i
      <3>1. q + 1 \in Nat
        BY <1>2
      <3> QED
        BY <3>1, IndexOfLap
    <2> QED
      BY <2>1, <2>2
  <1> QED
    BY <1>1, <1>4, <1>5

\* A PDU and the one a window later share a slot.
LEMMA NextLapSameSlot ==
    ASSUME NEW W \in Nat \ {0}, NEW s \in Nat
    PROVE  (s + W) % W = s % W
  <1> DEFINE q == s \div W
  <1>1. s = W * q + (s % W) /\ q \in Nat /\ q + 1 \in Nat
    BY LapAndIndex
  <1>2. W * (q + 1) = W * q + W
    BY <1>1
  <1>3. s % W \in 0 .. W - 1
    BY IndexRange
  <1>4. s + W = W * (q + 1) + (s % W)
    BY <1>1, <1>2, <1>3
  <1> HIDE DEF q
  <1> QED
    BY <1>1, <1>3, <1>4, IndexOfLap
-----------------------------------------------------------------------------
\* In a closed window every slot holds a PDU: no dereference meets Null.
LEMMA ClosedIsFull ==
    ASSUME IInv, ~window_status
    PROVE  \A i \in Slots : Holds(i)
  <1> USE WindowAssumption
  <1> SUFFICES ASSUME NEW i \in Slots
               PROVE  Holds(i)
    OBVIOUS
  <1>1. current = lower + WindowSize
    BY DEF IInv, TypeOK, window_status
  <1>2. PICK s \in lower .. lower + WindowSize - 1 : s % WindowSize = i
    BY EverySlotUsed DEF IInv, TypeOK, Slots
  <1>3. pduArray[s % WindowSize] = s
    BY <1>1, <1>2 DEF IInv, UnackedRetained, TypeOK
  <1> QED
    BY <1>2, <1>3 DEF Holds, IInv, TypeOK

\* Storing the next PDU replaces the one a window older, and keeps the others.
LEMMA SendKeepsRecent ==
    ASSUME RecentIInv, SendPDU
    PROVE  RecentIInv'
  <1> USE WindowAssumption
  <1> DEFINE c == current % WindowSize
  <1>1. c \in Slots
    BY IndexRange DEF Slots, RecentIInv
  <1>2. pduArray' = [pduArray EXCEPT ![c] = current] /\ current' = current + 1
        /\ current' = seqNum'
    BY DEF SendPDU, add_PDU_to_Win_Buff, RecentIInv
  <1>3. ASSUME NEW i \in Slots, pduArray'[i] \in Nat
        PROVE  /\ pduArray'[i] % WindowSize = i
               /\ current' - WindowSize <= pduArray'[i]
               /\ pduArray'[i] < current'
    <2>1. CASE i = c
      BY <1>1, <1>2, <2>1 DEF RecentIInv
    <2>2. CASE i # c
      <3>1. pduArray'[i] = pduArray[i]
        BY <1>1, <1>2, <2>2 DEF RecentIInv
      <3>2. /\ pduArray[i] % WindowSize = i
            /\ current - WindowSize <= pduArray[i]
            /\ pduArray[i] < current
        BY <1>3, <3>1 DEF RecentIInv, SlotsRecent, Holds
      <3>3. pduArray[i] # current - WindowSize
        <4>1. (pduArray[i] + WindowSize) % WindowSize = i
          BY <1>3, <3>1, <3>2, NextLapSameSlot
        <4>2. pduArray[i] \in Nat
          BY <1>3, <3>1
        <4> QED
          BY <2>2, <4>1, <4>2 DEF RecentIInv
      <3>4. pduArray'[i] \in Nat /\ current \in Nat /\ WindowSize \in Nat
        BY <1>3 DEF RecentIInv
      <3> QED
        BY <1>2, <3>1, <3>2, <3>3, <3>4
    <2> QED
      BY <2>1, <2>2
  <1> QED
    BY <1>1, <1>2, <1>3 DEF RecentIInv, SlotsRecent, Holds, Slots

\* Storing the next PDU inside the window overwrites no outstanding PDU.
LEMMA SendKeepsUnacked ==
    ASSUME IInv, SendPDU
    PROVE  UnackedRetained'
  <1> USE WindowAssumption
  <1> DEFINE c == current % WindowSize
  <1>1. /\ lower \in Nat /\ current \in Nat
        /\ current < lower + WindowSize
        /\ pduArray \in [Slots -> Nat \cup {Null, Uninit}]
    BY DEF IInv, TypeOK, SendPDU, window_status
  <1>2. /\ pduArray' = [pduArray EXCEPT ![c] = current]
        /\ current' = current + 1 /\ lower' = lower
    BY DEF SendPDU, add_PDU_to_Win_Buff, IInv
  <1>3. c \in Slots
    BY <1>1, IndexRange DEF Slots
  <1> SUFFICES ASSUME NEW s \in lower .. current
               PROVE  pduArray'[s % WindowSize] = s
    BY <1>1, <1>2 DEF UnackedRetained
  <1>4. s \in Nat /\ s % WindowSize \in Slots
    BY <1>1, IndexRange DEF Slots
  <1>5. CASE s = current
    BY <1>1, <1>2, <1>3, <1>5
  <1>6. CASE s < current
    <2>1. s % WindowSize # c
      <3>1. SUFFICES ASSUME s % WindowSize = current % WindowSize
                     PROVE  FALSE
        OBVIOUS
      <3>2. current - s >= WindowSize
        BY <1>1, <1>4, <1>6, <3>1, SameSlotFarApart
      <3> QED
        BY <1>1, <1>4, <3>2
    <2>2. pduArray[s % WindowSize] = s
      BY <1>1, <1>6 DEF IInv, UnackedRetained
    <2> QED
      BY <1>1, <1>2, <1>3, <1>4, <2>1, <2>2
  <1> QED
    BY <1>1, <1>5, <1>6

\* A cumulative RR frees only PDUs below it and moves the window to it.
LEMMA RRKeeps ==
    ASSUME NoNegativeRR, IInv, EnterRR
    PROVE  IInv'
  <1> USE WindowAssumption
  <1>1. PICK r \in RRInputs \cup {RR} : RR' = r /\ process_RR(r)
    BY DEF EnterRR
  <1>2. r \in Nat /\ r \in RRInputs \cup {0}
    BY <1>1 DEF NoNegativeRR, IInv, TypeOK
  <1>3. \A i \in Slots : Holds(i)
    BY ClosedIsFull DEF EnterRR
  <1>4. /\ pduArray' = [i \in Slots |->
                          IF pduArray[i] < r THEN Null ELSE pduArray[i]]
        /\ IF lower < r
           THEN lower' = r /\ upper' = r + WindowSize
           ELSE UNCHANGED <<lower, upper>>
        /\ UNCHANGED <<status, current, seqNum>>
    BY <1>1, <1>2, <1>3 DEF process_RR, Freed, Unsigned, EnterRR
  <1>5. TypeOK'
    BY <1>1, <1>2, <1>3, <1>4 DEF IInv, TypeOK, Holds
  <1>6. upper' = lower' + WindowSize /\ current' <= upper'
    BY <1>2, <1>4 DEF IInv, TypeOK
  <1>7. SlotsRecent'
    BY <1>3, <1>4 DEF IInv, SlotsRecent, Holds, TypeOK, Slots
  <1>8. UnackedRetained'
    <2> SUFFICES ASSUME NEW s \in lower' .. current - 1
                 PROVE  pduArray'[s % WindowSize] = s
      BY <1>4 DEF UnackedRetained
    <2>1. s \in lower .. current - 1 /\ r <= s
      BY <1>2, <1>4, <1>5 DEF IInv, TypeOK
    <2>2. pduArray[s % WindowSize] = s
      BY <2>1 DEF IInv, UnackedRetained
    <2>3. s % WindowSize \in Slots
      BY <2>1, IndexRange DEF IInv, TypeOK, Slots
    <2> QED
      BY <1>2, <1>4, <2>1, <2>2, <2>3 DEF IInv, TypeOK
  <1> QED
    BY <1>4, <1>5, <1>6, <1>7, <1>8 DEF IInv, NeverCrashes, UnackedRetained

\* Every step of the driver preserves the inductive invariant.
LEMMA NextKeeps ==
    ASSUME NoNegativeRR, IInv, [Next]_vars
    PROVE  IInv'
  <1> USE WindowAssumption
  <1>1. CASE SendPDU
    <2>1. TypeOK'
      BY <1>1, IndexRange
      DEF IInv, TypeOK, SendPDU, add_PDU_to_Win_Buff, Slots
    <2>2. UnackedRetained' /\ SlotsRecent'
      BY <1>1, SendKeepsUnacked, SendKeepsRecent DEF RecentIInv, IInv, TypeOK
    <2> QED
      BY <1>1, <2>1, <2>2
      DEF IInv, SendPDU, window_status, NeverCrashes, TypeOK
  <1>2. CASE EnterRR
    BY <1>2, RRKeeps
  <1>3. CASE InputEnds
    BY <1>3 DEF InputEnds, IInv, TypeOK, SlotsRecent, UnackedRetained,
                NeverCrashes, Holds, Slots
  <1>4. CASE UNCHANGED vars
    BY <1>4 DEF vars, IInv, TypeOK, SlotsRecent, UnackedRetained,
                NeverCrashes, Holds, Slots
  <1> QED
    BY <1>1, <1>2, <1>3, <1>4 DEF Next

LEMMA InitHolds == Init => IInv
  BY WindowAssumption, IndexRange
  DEF Init, IInv, TypeOK, SlotsRecent, UnackedRetained, NeverCrashes, Holds,
      Slots

LEMMA Invariance == ASSUME NoNegativeRR PROVE Spec => []IInv
  BY InitHolds, NextKeeps, PTL DEF Spec
-----------------------------------------------------------------------------
\* The fields keep their types (windowing.h).
THEOREM TypeCorrect == ASSUME NoNegativeRR PROVE Spec => []TypeOK
  <1>1. IInv => TypeOK
    BY DEF IInv
  <1> QED
    BY <1>1, Invariance, PTL

\* process_RR never dereferences an empty slot, for any window size.
THEOREM NoCrash == ASSUME NoNegativeRR PROVE Spec => []NeverCrashes
  <1>1. IInv => NeverCrashes
    BY DEF IInv
  <1> QED
    BY <1>1, Invariance, PTL

\* A PDU stays where findPDU looks for it until an RR passes it.
THEOREM Retained == ASSUME NoNegativeRR PROVE Spec => []UnackedRetained
  <1>1. IInv => UnackedRetained
    BY DEF IInv
  <1> QED
    BY <1>1, Invariance, PTL

\* findPDU never returns a PDU of an earlier lap, negative RRs included.
THEOREM Recent == Spec => []SlotsRecent
  <1> USE WindowAssumption
  <1>1. Init => RecentIInv
    BY DEF Init, RecentIInv, SlotsRecent, Holds
  <1>2. RecentIInv /\ [Next]_vars => RecentIInv'
    <2> SUFFICES ASSUME RecentIInv, [Next]_vars
                 PROVE  RecentIInv'
      OBVIOUS
    <2>1. CASE SendPDU
      BY <2>1, SendKeepsRecent
    <2>2. CASE EnterRR
      <3>1. PICK r \in RRInputs \cup {RR} : process_RR(r)
        BY <2>2 DEF EnterRR
      <3>2. CASE UNCHANGED pduArray
        BY <2>2, <3>2 DEF EnterRR, RecentIInv, SlotsRecent, Holds
      <3>3. CASE pduArray' = Freed(Unsigned(r))
        BY <2>2, <3>3 DEF Freed, EnterRR, RecentIInv, SlotsRecent, Holds
      <3> QED
        BY <3>1, <3>2, <3>3 DEF process_RR
    <2>3. CASE InputEnds \/ UNCHANGED vars
      BY <2>3 DEF InputEnds, vars, RecentIInv, SlotsRecent, Holds
    <2> QED
      BY <2>1, <2>2, <2>3 DEF Next
  <1>3. RecentIInv => SlotsRecent
    BY DEF RecentIInv
  <1> QED
    BY <1>1, <1>2, <1>3, PTL DEF Spec
-----------------------------------------------------------------------------
\* Under the invariant the buffer holds exactly the unacknowledged PDUs.
LEMMA BufferedIsOutstanding ==
    IInv => Buffered = lower .. current - 1
  <1> USE WindowAssumption
  <1> SUFFICES ASSUME IInv
               PROVE  Buffered = lower .. current - 1
    OBVIOUS
  <1>1. ASSUME NEW s \in lower .. current - 1
        PROVE  s \in Buffered
    <2>1. s \in Nat /\ s >= lower /\ pduArray[s % WindowSize] = s
      BY <1>1 DEF IInv, TypeOK, UnackedRetained
    <2>2. s % WindowSize \in Slots
      BY <2>1, IndexRange DEF Slots
    <2> QED
      BY <2>1, <2>2 DEF Buffered
  <1>2. ASSUME NEW s \in Buffered
        PROVE  s \in lower .. current - 1
    BY <1>2 DEF Buffered, IInv, TypeOK, SlotsRecent, Holds
  <1> QED
    BY <1>1, <1>2

\* windowing.c and its driver implement SlidingWindow for every window size.
THEOREM Refinement == ASSUME NoNegativeRR PROVE Spec => ImplementsSlidingWindow
  <1> USE WindowAssumption
  <1>1. Init => Abs!Init
    <2> SUFFICES ASSUME Init
                 PROVE  Abs!Init
      OBVIOUS
    <2>1. Buffered = {}
      BY DEF Init, Buffered
    <2> QED
      BY <2>1 DEF Init, Abs!Init
  <1>2. (IInv => Buffered = lower .. current - 1)'
    BY BufferedIsOutstanding, PTL
  <1>3. IInv /\ IInv' /\ [Next]_vars => [Abs!Next]_(Abs!vars)
    <2> SUFFICES ASSUME IInv, IInv', [Next]_vars
                 PROVE  [Abs!Next]_(Abs!vars)
      OBVIOUS
    <2>1. Buffered = lower .. current - 1 /\ Buffered' = lower' .. current' - 1
      BY <1>2, BufferedIsOutstanding
    <2>2. /\ lower \in Nat /\ upper \in Nat /\ current \in Nat
          /\ upper = lower + WindowSize
      BY DEF IInv, TypeOK
    <2>3. CASE SendPDU
      <3>1. Abs!Transmit
        BY <2>1, <2>2, <2>3 DEF SendPDU, window_status, Abs!Transmit
      <3> QED
        BY <3>1 DEF Abs!Next
    <2>4. CASE EnterRR
      <3>1. PICK r \in RRInputs \cup {0} : process_RR(r)
        BY <2>4 DEF EnterRR, IInv, TypeOK
      <3>2. \A i \in Slots : Holds(i)
        BY <2>4, ClosedIsFull DEF EnterRR
      <3>3. /\ current' = current /\ r \in Nat
            /\ lower' = IF lower < r THEN r ELSE lower
        BY <2>4, <3>1, <3>2 DEF EnterRR, process_RR, NoNegativeRR
      <3>4. Abs!Acknowledge(r)
        BY <2>1, <2>2, <3>3 DEF Abs!Acknowledge
      <3> QED
        BY <3>1, <3>4 DEF Abs!Next
    <2>5. CASE InputEnds \/ UNCHANGED vars
      BY <2>1, <2>5 DEF InputEnds, vars, Abs!vars
    <2> QED
      BY <2>3, <2>4, <2>5 DEF Next
  <1> QED
    BY <1>1, <1>3, Invariance, PTL DEF Spec, ImplementsSlidingWindow
=============================================================================
