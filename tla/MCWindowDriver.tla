---------------------------- MODULE MCWindowDriver ----------------------------
(* Values of WindowDriver's constants for TLC. *)
EXTENDS WindowDriver

\* Stale, duplicate, exact and too large RR numbers; no negative one.
MCRRInputs == 0 .. MaxSeq + 2
=============================================================================
