----------------------------- MODULE FileTransfer -----------------------------
(***************************************************************************)
(* Program3 as a whole: one rcopy, one server with its children, and the   *)
(* UDP network between them.  Datagrams in flight are a bag: they are      *)
(* delivered in any order, and up to MaxFaults times one is lost, flipped  *)
(* (sendtoErr does both) or delivered twice.  A timeout may expire whenever*)
(* its process waits: a datagram in flight may be late.                    *)
(***************************************************************************)
EXTENDS Integers, Sequences, Bags

CONSTANTS WindowSize, MaxTries, MaxSockets, MaxChildren, MaxFaults, Files,
          Null, Garbage, HeapWords, Junk, Absent

\* A file is a sequence of blocks; one that does not exist is not an empty one.  The
\* client's window is what malloc leaves there: nothing clears it (windowing.c:7).
ASSUME FileTransferAssumption ==
    /\ WindowSize \in Nat \ {0} /\ MaxTries \in Nat /\ MaxChildren \in Nat
    /\ \A f \in Files : f # Absent => f \in Seq(Nat)
    /\ Absent # <<>>
    /\ Null \notin Nat /\ Garbage \notin Nat /\ Null # Garbage
    /\ HeapWords \subseteq {Null, Garbage}
    /\ Junk \notin Nat

VARIABLES
    \* Rcopy
    state, retryCount, clientSeqNum, sk, remote, expected_seq_num, pduArray,
    opened, output, message, sent, clean, unwritten,
    \* Server
    file, parent, forked, child, served,
    \* the network: datagrams in flight, faults so far
    net, faults

C == INSTANCE Rcopy WITH ServerAddr <- <<"server", 0>>, Packets <- {}
S == INSTANCE Server

cvars == <<state, retryCount, clientSeqNum, sk, remote, expected_seq_num,
           pduArray, opened, output, message, sent, clean, unwritten>>
svars == <<file, parent, forked, child, served>>
vars == <<cvars, svars, net, faults>>

Init == C!Init /\ S!Init /\ net = EmptyBag /\ faults = 0

InFlight == BagToSet(net)

\* The datagrams of a sequence of at most one.
Sending(s) == SetToBag({s[i] : i \in DOMAIN s})
-----------------------------------------------------------------------------
ClientRuns ==
    /\ C!Internal
    /\ net' = net (+) Sending(sent')
    /\ UNCHANGED <<svars, faults>>

ClientReceives ==
    \E p \in InFlight :
        /\ p.dst = <<"rcopy", sk>>
        /\ C!Receive(p)
        /\ net' = (net (-) SetToBag({p})) (+) Sending(sent')
        /\ UNCHANGED <<svars, faults>>

ChildRuns ==
    \E c \in S!Children :
        /\ S!Internal(c)
        /\ net' = net (+) Sending(served')
        /\ UNCHANGED <<cvars, faults>>

ServerReceives ==
    \E p \in InFlight :
        /\ S!Receive(p)
        /\ net' = (net (-) SetToBag({p})) (+) Sending(served')
        /\ UNCHANGED <<cvars, faults>>

\* sendtoErr drops the datagram, or flips a byte of it; the network delivers
\* it twice.
Fault ==
    /\ faults < MaxFaults
    /\ faults' = faults + 1
    /\ \E p \in InFlight :
          \/ net' = net (-) SetToBag({p})
          \/ p.ok /\ net' = (net (-) SetToBag({p})) (+) SetToBag({[p EXCEPT !.ok = FALSE]})
          \/ net' = net (+) SetToBag({p})
    /\ UNCHANGED <<cvars, svars>>

ClientStep == ClientRuns \/ ClientReceives
ServerStep == ChildRuns \/ ServerReceives

Next == ClientStep \/ ServerStep \/ Fault

Spec == Init /\ [][Next]_vars

\* The processes are scheduled: each takes a step if it can always take one.
FairSpec == Spec /\ WF_vars(ClientStep) /\ WF_vars(ServerStep)
-----------------------------------------------------------------------------
\* The loop over a window that malloc left dirty has written what lay in memory, and
\* nothing else has been written.
damaged == ~clean /\ output # <<>> /\ \A i \in DOMAIN output : output[i] = Junk

\* What has arrived of the file.
received == IF damaged THEN <<>> ELSE output

\* What the user of rcopy has: only "File done" reports success, and a damaged
\* file is none.
result ==
    CASE message = "file_done"                     -> "complete"
      [] message # "file_done" /\ (damaged \/ state \in {"DONE", "crashed"}) -> "failed"
      [] OTHER                                     -> "running"

T == INSTANCE Transfer

\* Whatever is lost, flipped, duplicated, late or out of order, and whatever
\* malloc left in the window, rcopy writes the blocks of the file in order and
\* prints "File done" (rcopy.c:213) only when it has written all of them.  Only
\* from a dirty window may it write anything else: then the transfer has failed,
\* no block of the file has been or will be written, and "File done" is never
\* printed.
ImplementsTransfer == T!Spec

\* "File tranfer complete successfully." (server.c:270) is the truth: the
\* client has the whole file, and that child is the one it acknowledged.
SuccessIsMutual ==
    \A c \in S!Children :
        child[c].message = "success" =>
            message = "file_done" /\ output = file /\ remote = <<"child", c>>

\* process_server forks without looking at the flag (server.c:76): it may,
\* since the client sends all its answers to the child's socket.
OnlyFnameReachesServer ==
    \A p \in InFlight : p.dst[1] = "server" => p.flag = "FNAME"

\* The output file is created or truncated only when the file asked for
\* exists: no lost, flipped or late FNAME_BAD is taken for an FNAME_OK.
OpenedOnlyIfExists == opened => file # Absent

\* As server.c:166 and :195 stand, an empty file is the only one that can be
\* transferred: every child that reads a block is killed when it has sent it,
\* however often rcopy tries again, so no file with a block is ever complete.
CompleteOnlyIfEmpty == message = "file_done" => file = <<>>

\* Whatever happens to the datagrams, rcopy stops.
ClientTerminates == <>(state \in {"DONE", "crashed"})
-----------------------------------------------------------------------------
\* srej.c:102,110: after MAX_TRIES calls processSelect is "terminating
\* connection": every child ends.
ChildTerminates ==
    \A c \in S!Children :
        child[c].state # "none" ~> child[c].state \in {"DONE", "crashed"}
=============================================================================
