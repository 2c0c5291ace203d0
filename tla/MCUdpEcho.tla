------------------------------- MODULE MCUdpEcho -------------------------------
(* Values of UdpEcho's constants for TLC. *)
EXTENDS UdpEcho, TLC

CONSTANTS c1, c2, Elsewhere

MCMaxLines == c1 :> 2 @@ c2 :> 1

\* The line that ends a client, one whose PDU just fits the server's buffer, and
\* the one readFromStdin makes of the end of its input.
MCLines == {<<Dot>>, <<65, 190>>, [i \in 1 .. PAYLOAD_MAXBUF - 1 |-> Byte - 1]}

Environment(rate, drop, flip) == [rate |-> rate, drop |-> drop, flip |-> flip]

\* A message to drop and nothing else set; random drops and flips at rate 1, asked
\* for by a negative number and by what is no number.
MCEnvironments ==
    {Environment(Unset, <<2, -1>>, Unset), Environment(TRUE, <<-1>>, <<NotANumber, 1>>)}

\* A host that is not found, the server's, and one whose first address is another.
MCAddresses ==
    "unknown" :> <<>> @@ "server" :> <<Server>> @@ "moved" :> <<Elsewhere, Server>>

Argument(count, err, host) == [count |-> count, err |-> err, host |-> host]

\* Good ones for server and client, and the ways they may be wrong.
MCArguments ==
    {Argument(n, err, "server") : n \in {3, 4}, err \in {50, 101}}
        \cup {Argument(4, 100, host) : host \in {"unknown", "moved"}}
=============================================================================
