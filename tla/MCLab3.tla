-------------------------------- MODULE MCLab3 --------------------------------
(* Values of Lab3's constants for TLC. *)
EXTENDS Lab3

\* A short line, one whose PDU has 256 bytes, and one cut at the buffer.
MCTyped == {2, 253, 5000}
=============================================================================
