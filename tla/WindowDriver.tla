----------------------------- MODULE WindowDriver -----------------------------
(***************************************************************************)
(* Lab7_Windowing: the window buffer (windowing.c) and the interactive     *)
(* program that drives it (windowing_test.c).  While the window is open    *)
(* the program reads a line and stores it as the next PDU; when it is      *)
(* closed it asks for an RR number and processes it.                       *)
(*                                                                         *)
(* A slot of pduArray holds the sequence number of the PDU_Data it points  *)
(* to, Null, or Uninit (create_Window does not clear the malloc'ed array). *)
(* Payloads are left out: a PDU is its sequence number.  (All PDU_Data     *)
(* point to main's one pduBuffer: the bytes are those of the last PDU.)    *)
(***************************************************************************)
EXTENDS Integers

CONSTANTS
    WindowSize,  \* the argument of create_Window
    IntMax,      \* INT_MAX: a C int is in -(IntMax+1)..IntMax
    MaxSeq,      \* bound of the model: number of PDUs a run sends
    RRInputs,    \* the numbers the user types at the "Enter RR" prompt
    Null,        \* a NULL slot
    Uninit       \* a slot never written since malloc

ASSUME WindowAssumption ==
    /\ WindowSize \in Nat \ {0}
    /\ IntMax \in Nat
    /\ MaxSeq \in Nat
    /\ MaxSeq <= IntMax
    /\ RRInputs \subseteq Int
    /\ \A r \in RRInputs : -(IntMax + 1) <= r /\ r <= IntMax - WindowSize
    /\ Null \notin Nat
    /\ Uninit \notin Nat

VARIABLES
    lower, upper, current,  \* the fields of Window
    pduArray,               \* slot index -> PDU_Data
    seqNum,                 \* main's counter: number of the next PDU
    RR,                     \* main's variable: keeps its value if scanf fails
    status                  \* "running", "exited" or "crashed"

vars == <<lower, upper, current, pduArray, seqNum, RR, status>>

Slots == 0 .. WindowSize - 1
Holds(i) == pduArray[i] \in Nat

\* Conversion of an int operand to uint32_t in a mixed comparison.
Unsigned(x) == IF x < 0 THEN x + 2 * (IntMax + 1) ELSE x

Init ==
    /\ lower = 0
    /\ upper = WindowSize
    /\ current = 0
    /\ pduArray = [i \in Slots |-> Uninit]
    /\ seqNum = 0
    /\ RR = 0
    /\ status = "running"

\* Mutant: the window admits one PDU too many.
window_status_OneMore == upper >= current

window_status == upper > current

\* Mutant: the index is taken modulo the last slot.
add_PDU_LastSlotModulus(s) ==
    pduArray' = [pduArray EXCEPT ![s % (WindowSize - 1)] = s]

add_PDU_to_Win_Buff(s) == pduArray' = [pduArray EXCEPT ![s % WindowSize] = s]

\* main, window open: read a line, build the PDU, store it.
SendPDU ==
    /\ status = "running"
    /\ window_status
    /\ seqNum < MaxSeq
    /\ add_PDU_to_Win_Buff(seqNum)
    /\ seqNum' = seqNum + 1
    /\ current' = current + 1
    /\ UNCHANGED <<lower, upper, RR, status>>

Freed(below) == [i \in Slots |-> IF pduArray[i] < below THEN Null ELSE pduArray[i]]

\* Mutant: the PDU the RR asks for is freed too.
process_RR_Inclusive(r) ==
    \/ /\ \A i \in Slots : Holds(i)
       /\ pduArray' = Freed(r + 1)
       /\ IF lower < r
          THEN lower' = r /\ upper' = r + WindowSize
          ELSE UNCHANGED <<lower, upper>>
       /\ UNCHANGED status
    \/ /\ \E i \in Slots : ~Holds(i)
       /\ status' = "crashed"
       /\ UNCHANGED <<lower, upper, pduArray>>

\* Mutant: lower and upper are mistaken for each other.
process_RR_Swapped(r) ==
    /\ pduArray' = Freed(r)
    /\ upper' = r /\ lower' = r - WindowSize
    /\ UNCHANGED status

\* Mutant: lower is not advanced.
process_RR_KeepsLower(r) ==
    /\ pduArray' = Freed(r)
    /\ upper' = IF lower < r THEN r + WindowSize ELSE upper
    /\ UNCHANGED <<lower, status>>

\* The loop dereferences every slot: one that is Null or Uninit crashes it.
\* pduArray[i]->seqNum is a uint32_t, so RR is compared as unsigned there,
\* while window->lower is an int and is compared as signed.
process_RR(r) ==
    \/ /\ \A i \in Slots : Holds(i)
       /\ pduArray' = Freed(Unsigned(r))
       /\ IF lower < r
          THEN lower' = r /\ upper' = r + WindowSize
          ELSE UNCHANGED <<lower, upper>>
       /\ UNCHANGED status
    \/ /\ \E i \in Slots : ~Holds(i)
       /\ status' = "crashed"
       /\ UNCHANGED <<lower, upper, pduArray>>

\* main, window closed: scanf stores a number, or matches nothing and leaves
\* RR as it was; process_RR runs in both cases.
EnterRR ==
    /\ status = "running"
    /\ ~window_status
    /\ \E r \in RRInputs \cup {RR} : RR' = r /\ process_RR(r)
    /\ UNCHANGED <<current, seqNum>>

\* clear_scanf_buf meets EOF: exit(EXIT_FAILURE).
InputEnds ==
    /\ status = "running"
    /\ ~window_status
    /\ status' = "exited"
    /\ UNCHANGED <<lower, upper, current, pduArray, seqNum, RR>>

Next == SendPDU \/ EnterRR \/ InputEnds

Spec == Init /\ [][Next]_vars
-----------------------------------------------------------------------------
\* Typing: the fields of Window stay ints, a slot is Null, Uninit or a PDU
\* number, and process_RR never meets a negative value it stored itself.
TypeOK ==
    /\ lower \in Nat /\ upper \in Nat /\ current \in Nat /\ seqNum \in Nat
    /\ pduArray \in [Slots -> Nat \cup {Null, Uninit}]
    /\ RR \in RRInputs \cup {0}
    /\ status \in {"running", "exited", "crashed"}

\* process_RR (windowing.c:76) dereferences every slot without a NULL test.
\* That is sound only if the window is full whenever it is closed, whatever
\* RR numbers were typed before: no dereference ever crashes.
NeverCrashes == status # "crashed"

\* A PDU that is sent and not acknowledged is still in the buffer, in the
\* slot findPDU (windowing.c:64) would look for it: indexing by seqNum modulo
\* the window size never lets a newer PDU overwrite it.
UnackedRetained ==
    \A s \in lower .. current - 1 : pduArray[s % WindowSize] = s

\* Whatever RR is typed, a negative one included, a slot never keeps a PDU that
\* is more than a window old: findPDU cannot return a PDU of an earlier lap.
SlotsRecent ==
    \A i \in Slots : Holds(i) =>
        /\ pduArray[i] % WindowSize = i
        /\ current - WindowSize <= pduArray[i]
        /\ pduArray[i] < current

\* The array implements the set of outstanding PDUs of SlidingWindow.
Buffered == {s \in {pduArray[i] : i \in Slots} : s \in Nat /\ s >= lower}

Abs == INSTANCE SlidingWindow
         WITH base <- lower, next <- current, outstanding <- Buffered,
              Acks <- RRInputs \cup {0}

\* windowing.c and its driver implement the sliding window: every step is a
\* transmission inside the window, a cumulative acknowledgement or a stutter.
ImplementsSlidingWindow == Abs!Init /\ [][Abs!Next]_(Abs!vars)
=============================================================================
