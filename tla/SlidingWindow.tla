---------------------------- MODULE SlidingWindow ----------------------------
(***************************************************************************)
(* What a sender's sliding window promises, with no buffer and no array:   *)
(* PDUs are numbered 0, 1, 2, ...; a PDU is outstanding from the moment it *)
(* is transmitted until a cumulative acknowledgement (RR) passes it; no    *)
(* PDU is transmitted more than WindowSize ahead of the oldest one that is *)
(* not acknowledged.                                                       *)
(***************************************************************************)
EXTENDS Integers, FiniteSets

CONSTANTS WindowSize,
          Acks          \* the RR numbers the acknowledging side may send

VARIABLES base,         \* the oldest PDU number not acknowledged
          next,         \* the next PDU number to transmit
          outstanding   \* transmitted and not acknowledged

vars == <<base, next, outstanding>>

Init ==
    /\ base = 0
    /\ next = 0
    /\ outstanding = {}

\* A PDU below base was acknowledged before it was sent: it is never waited for.
Transmit ==
    /\ next < base + WindowSize
    /\ next' = next + 1
    /\ outstanding' = outstanding \cup (IF next >= base THEN {next} ELSE {})
    /\ UNCHANGED base

Acknowledge(rr) ==
    /\ base' = IF base < rr THEN rr ELSE base
    /\ outstanding' = {s \in outstanding : s >= rr}
    /\ UNCHANGED next

Next == Transmit \/ \E rr \in Acks : Acknowledge(rr)

Spec == Init /\ [][Next]_vars
=============================================================================
