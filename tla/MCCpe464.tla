------------------------------- MODULE MCCpe464 -------------------------------
(* Values of Cpe464's constants for TLC. *)
EXTENDS Cpe464

Nothing == [port |-> Unset, debug |-> Unset, seed |-> Unset, rate |-> Unset,
            drop |-> Unset, flip |-> Unset]

\* Random errors, a list, a list with an item that is no number, no number at all.
Lists == {Unset, <<-1>>, <<1, 2>>, <<2, NotANumber, 1>>, <<NotANumber>>}

MCEnvironments ==
    {[Nothing EXCEPT !.drop = drop, !.flip = flip, !.seed = seed, !.rate = rate] :
        drop \in Lists, flip \in Lists, seed \in {Unset, 7}, rate \in {Unset, 100}}
    \cup {[Nothing EXCEPT !.port = n, !.debug = n, !.seed = n, !.rate = n] : n \in {NotANumber, 5}}
    \cup {[Nothing EXCEPT !.port = 65541]}

\* Of rcopy with a rate of 20 %, and with each argument wrong; of the server with and
\* without a port.  Some of rcopy's rates are odd, and the server takes any.
Good == [count |-> 8, from |-> 1000, to |-> 1000, window |-> 1, buffer |-> 400,
         rate |-> 20, port |-> 1]
MCArguments ==
    {Good, [Good EXCEPT !.count = 7], [Good EXCEPT !.from = 1001], [Good EXCEPT !.to = 1001],
     [Good EXCEPT !.window = 0], [Good EXCEPT !.buffer = 1401], [Good EXCEPT !.rate = 100],
     [Good EXCEPT !.rate = -50], [Good EXCEPT !.count = 2, !.rate = 200],
     [Good EXCEPT !.count = 3]}
=============================================================================
