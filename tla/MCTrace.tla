------------------------------- MODULE MCTrace -------------------------------
(***************************************************************************)
(* Frames for TLC to give to Trace, built as the protocols say, each with  *)
(* what a reader of the wire would say of it.                              *)
(***************************************************************************)
EXTENDS Trace

Network(n) == <<n \div 256, n % 256>>
Zeros(n) == [i \in 1 .. n |-> 0]
\* A checksum as it is stored: in_cksum reads its words with the low byte first.
Stored(bytes) == <<in_cksum(bytes) % 256, in_cksum(bytes) \div 256>>

Ethernet(type) == <<2, 0, 0, 0, 0, 1, 2, 0, 0, 0, 0, 2>> \o Network(type)
Addresses == <<192, 168, 1, 102, 129, 65, 242, 4>>

IP(protocol, options, payload) ==
    LET start == <<64 + 5 + options, 0>> \o Network(20 + 4 * options + Len(payload))
                    \o <<0, 7, 64, 0, 128, protocol>>
        rest == Addresses \o Zeros(4 * options)
    IN  start \o Stored(start \o <<0, 0>> \o rest) \o rest \o payload

Flag == [ACK |-> 16, SYN |-> 2, RST |-> 4, FIN |-> 1]
FlagByte(flags) == MapThenSumSet(LAMBDA f : Flag[f], flags)

TCP(flags, data) ==
    LET start == Network(1675) \o Network(80) \o <<0, 0, 1, 44, 0, 0, 2, 1>>
                    \o <<80, FlagByte(flags)>> \o Network(4096)
        rest == <<0, 0>> \o data
        pseudo == Addresses \o <<0, 6>> \o Network(18 + Len(rest))
    IN  start \o Stored(pseudo \o start \o <<0, 0>> \o rest) \o rest

UDP == Network(53) \o Network(1300) \o Network(8) \o <<0, 0>>
ICMP(type) == <<type, 0, 0, 0, 0, 1, 0, 1>>
ARP(opcode) ==
    <<0, 1, 8, 0, 6, 4>> \o Network(opcode) \o <<2, 0, 0, 0, 0, 2, 192, 168, 1, 102>>
        \o Zeros(6) \o <<129, 65, 242, 4>>

\* A short frame, captured as it was sent or, padded, as it was received.
Captures(bytes) ==
    {bytes} \cup {bytes \o [i \in 1 .. n - Len(bytes) |-> 77] : n \in {60} \cap (Len(bytes) + 1 .. 60)}

Frame(bytes, kind, options) ==
    [len |-> Len(bytes), bytes |-> bytes, kind |-> kind, options |-> options,
     intact |-> TRUE, intactIP |-> TRUE, flags |-> {}, asks |-> "",
     ports |-> IF kind = "TCP" THEN <<"1675", "HTTP">> ELSE <<"53", "1300">>]

IPFrames(protocol, kind, options, payload) ==
    {Frame(bytes, kind, options) :
        bytes \in Captures(Ethernet(2048) \o IP(protocol, options, payload))}

TcpFrames ==
    UNION {{[f EXCEPT !.flags = flags] : f \in IPFrames(6, "TCP", options, TCP(flags, data))} :
        options \in {0, 1}, flags \in {{"SYN"}, {"ACK", "FIN"}}, data \in {<<>>, <<200>>, <<1, 2>>}}

\* One byte of a frame changed on the way: of the segment, of the sender's address,
\* or the time to live.
Changed(f, at) == [f EXCEPT !.bytes[at] = (@ + 1) % 256]
Damaged(f) ==
    LET segment == 34 + 4 * f.options IN
    {[Changed(f, at) EXCEPT !.intact = FALSE] : at \in {segment + 5, segment + 17, f.len}}
        \cup {[Changed(f, 27) EXCEPT !.intact = FALSE, !.intactIP = FALSE],
              [Changed(f, 23) EXCEPT !.intactIP = FALSE]}

DamagedFrames ==
    UNION {Damaged(Frame(Ethernet(2048) \o IP(6, options, TCP({"ACK", "RST"}, <<200>>)), "TCP", options)) :
        options \in {0, 1}}

OtherFrames ==
    IPFrames(17, "UDP", 0, UDP) \cup IPFrames(17, "UDP", 1, UDP) \cup IPFrames(2, "other", 0, <<>>)
    \cup {[f EXCEPT !.asks = "Request"] : f \in IPFrames(1, "ICMP", 0, ICMP(8))}
    \cup {[f EXCEPT !.asks = "Reply"] : f \in IPFrames(1, "ICMP", 0, ICMP(0)) \cup IPFrames(1, "ICMP", 1, ICMP(8))}
    \cup UNION {{[Frame(bytes, "ARP", 0) EXCEPT !.asks = <<"Request", "Reply">>[opcode]] :
                    bytes \in Captures(Ethernet(2054) \o ARP(opcode))} : opcode \in {1, 2}}

\* A capture that keeps 48 bytes of each packet.
Cut(f) == [f EXCEPT !.bytes = SubSeq(@, 1, 48)]

MCFrames ==
    LET damaged == {[f EXCEPT !.flags = {"ACK", "RST"}] : f \in DamagedFrames}
        long == {f \in TcpFrames : f.flags = {"SYN"}}
    IN  TcpFrames \cup damaged \cup OtherFrames \cup {Cut(f) : f \in long}
=============================================================================
