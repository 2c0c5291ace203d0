------------------------------- MODULE MCRcopy -------------------------------
(* Values of Rcopy's constants for TLC. *)
EXTENDS Rcopy

CONSTANT MaxBlock   \* the blocks a server could send are 1 .. MaxBlock

Datagram(flag, seq, arg, ok) ==
    [src |-> <<"child", 1>>, dst |-> <<"rcopy", 1>>, flag |-> flag, seq |-> seq, arg |-> arg, ok |-> ok]

\* Everything a server sends to the client, and one corrupted datagram.
MCPackets ==
    {Datagram("DATA", n, n, TRUE) : n \in 1 .. MaxBlock}
        \cup {Datagram("FNAME_OK", 0, 0, TRUE), Datagram("FNAME_BAD", 0, 0, TRUE),
              Datagram("END_OF_FILE", MaxBlock + 1, 0, TRUE),
              Datagram("DATA", 1, 1, FALSE)}

MCServerAddr == <<"server", 0>>

CleanHeap == {Null}
DirtyHeap == {Null, Garbage}
=============================================================================
