------------------------------- MODULE Transfer -------------------------------
(***************************************************************************)
(* What a file transfer promises its user: blocks of the file arrive in    *)
(* the order of the file, and it is reported complete only when the whole  *)
(* of an existing file has arrived.  It may fail at any time before that.  *)
(***************************************************************************)
EXTENDS Sequences, Naturals

CONSTANTS Files, Absent

VARIABLES file, received, result

vars == <<file, received, result>>

Init ==
    /\ file \in Files
    /\ received = <<>>
    /\ result = "running"

Deliver ==
    /\ result = "running"
    /\ file # Absent
    /\ Len(received) < Len(file)
    /\ received' = Append(received, file[Len(received) + 1])
    /\ UNCHANGED <<file, result>>

Complete ==
    /\ result = "running"
    /\ received = file
    /\ result' = "complete"
    /\ UNCHANGED <<file, received>>

Fail ==
    /\ result = "running"
    /\ result' = "failed"
    /\ UNCHANGED <<file, received>>

Next == Deliver \/ Complete \/ Fail

Spec == Init /\ [][Next]_vars
=============================================================================
