-------------------------------- MODULE MCChat --------------------------------
(* Values of Chat's constants for TLC. *)
EXTENDS Chat

Handle(name, len, digit) == [name |-> name, len |-> len, digit |-> digit]

\* Two good handles of different sizes, one that starts with a digit, one that
\* is cut to the size of the second, and one too large for a PDU.
MCHandles ==
    {Handle("ann", 3, FALSE), Handle("bartholomew_the_third", 21, FALSE),
     Handle("2fast", 5, TRUE), Handle("cut", 276, FALSE), Handle("huge", 1021, FALSE)}

\* A text that just fits, one that does not, and handles that do not.
MCLines == {[names |-> 4, text |-> 250], [names |-> 4, text |-> 300],
            [names |-> 10, text |-> 251]}
=============================================================================
