-------------------------------- MODULE Trace --------------------------------
(***************************************************************************)
(* Program1_Trace: trace prints the headers of every packet of a capture   *)
(* file.  An action is one turn of main's loop; what the turn prints is a  *)
(* record with a field per item, kept in "printed".                        *)
(*                                                                         *)
(* pcap gives every packet in one buffer, which it overwrites only as far  *)
(* as the packet was captured, and every field is read at an offset from   *)
(* the start of that buffer, whatever the packet's own lengths are.        *)
(***************************************************************************)
EXTENDS Checksum, TLC

CONSTANTS
    Frames,     \* packets: [len, bytes] and what they are to a reader of the wire
    BufLen,     \* size of pcap's buffer
    Fill,       \* what its bytes may be at first
    MaxPackets

VARIABLES
    buffer,     \* pcap's buffer
    frame,      \* the packet last read, or none
    packet_num,
    printed,    \* what was printed of it
    state       \* "reading", "closed" or "failed"

vars == <<buffer, frame, packet_num, printed, state>>

NoFrame == [len |-> 0]
-----------------------------------------------------------------------------
\* buffer.h: where the fields of the headers are.
Offset ==
    [SOURCE_ADDRESS |-> 6, ETH_HEAD_TYPE |-> 12, IP_HEADER_LEN |-> 14, TOS |-> 15,
     TOTAL_PDU_LEN |-> 16, TTL |-> 22, PROTOCOL |-> 23, CHECKSUM |-> 24,
     SENDER_IP |-> 26, DEST_IP |-> 30, ICMP_TYPE |-> 34, ARP_OPCODE |-> 20,
     ARP_SENDER_MAC |-> 22, ARP_SENDER_IP |-> 28, ARP_TARGET_MAC |-> 32,
     ARP_TARGET_IP |-> 38, SOURCE_PORT |-> 34, DEST_PORT |-> 36, SEQUENCE |-> 38,
     ACK_NUM |-> 42, FLAGS |-> 47, WINDOW |-> 48]

\* memcpy of n bytes, of one, and of a 16-bit number in network order.
Copy(b, offset, n) == SubSeq(b, offset + 1, offset + n)
At(b, offset) == b[offset + 1]
ntohs(b, offset) == 256 * At(b, offset) + At(b, offset + 1)

Bit(byte, mask) == (byte \div mask) % 2 = 1

\* The verdict on a checksum.
Verdict(bytes) == IF in_cksum(bytes) = 0 THEN "Correct" ELSE "Incorrect"
-----------------------------------------------------------------------------
read_ethernet_header(b) ==
    [dest |-> Copy(b, 0, 6),
     source |-> Copy(b, Offset.SOURCE_ADDRESS, 6),
     type |-> IF At(b, Offset.ETH_HEAD_TYPE + 1) = 0 THEN "IP" ELSE "ARP"]

\* Mutant: the target's IP address is looked for on a word boundary.
read_ARP_header_Aligned(b) ==
    [opcode |-> IF At(b, Offset.ARP_OPCODE + 1) = 1 THEN "Request" ELSE "Reply",
     sender |-> Copy(b, Offset.ARP_SENDER_MAC, 6),
     senderIP |-> Copy(b, Offset.ARP_SENDER_IP, 4),
     target |-> Copy(b, Offset.ARP_TARGET_MAC, 6),
     targetIP |-> Copy(b, 40, 4)]

read_ARP_header(b) ==
    [opcode |-> IF At(b, Offset.ARP_OPCODE + 1) = 1 THEN "Request" ELSE "Reply",
     sender |-> Copy(b, Offset.ARP_SENDER_MAC, 6),
     senderIP |-> Copy(b, Offset.ARP_SENDER_IP, 4),
     target |-> Copy(b, Offset.ARP_TARGET_MAC, 6),
     targetIP |-> Copy(b, Offset.ARP_TARGET_IP, 4)]

header_len(b) == (At(b, Offset.IP_HEADER_LEN) % 16) * 4

\* Mutant: the IP header is taken to have no options.
TCP_len_NoOptions(b) == (ntohs(b, Offset.TOTAL_PDU_LEN) - 20) % Word16

TCP_len(b) == (ntohs(b, Offset.TOTAL_PDU_LEN) - header_len(b)) % Word16

\* The sum over a pseudo header and the segment.
TCP_checksum(b) ==
    LET pseudo == Copy(b, Offset.SENDER_IP, 4) \o Copy(b, Offset.DEST_IP, 4)
                    \o <<0, At(b, Offset.PROTOCOL)>>
                    \o <<TCP_len(b) \div 256, TCP_len(b) % 256>>
    IN  Verdict(pseudo \o Copy(b, header_len(b) + Offset.IP_HEADER_LEN, TCP_len(b)))

print_TCP_flags(flag) ==
    LET mask == [ACK |-> 16, SYN |-> 2, RST |-> 4, FIN |-> 1]
    IN  {f \in DOMAIN mask : Bit(flag, mask[f])}

Port(number) == IF number = 80 THEN "HTTP" ELSE ToString(number)

\* Mutant: the acknowledgement is shown by the flag next to ACK's.
print_TCP_header_Push(b) ==
    LET flag == At(b, Offset.FLAGS) IN
    [source |-> Port(ntohs(b, Offset.SOURCE_PORT)),
     dest |-> Port(ntohs(b, Offset.DEST_PORT)),
     seq |-> Copy(b, Offset.SEQUENCE, 4),
     ack |-> IF Bit(flag, 8) THEN Copy(b, Offset.ACK_NUM, 4) ELSE "not valid",
     flags |-> print_TCP_flags(flag),
     window |-> ntohs(b, Offset.WINDOW),
     checksum |-> TCP_checksum(b)]

print_TCP_header(b) ==
    LET flag == At(b, Offset.FLAGS) IN
    [source |-> Port(ntohs(b, Offset.SOURCE_PORT)),
     dest |-> Port(ntohs(b, Offset.DEST_PORT)),
     seq |-> Copy(b, Offset.SEQUENCE, 4),
     ack |-> IF Bit(flag, 16) THEN Copy(b, Offset.ACK_NUM, 4) ELSE "not valid",
     flags |-> print_TCP_flags(flag),
     window |-> ntohs(b, Offset.WINDOW),
     checksum |-> TCP_checksum(b)]

print_ICMP_header(b) ==
    [type |-> IF header_len(b) > 20 THEN "109"
              ELSE IF At(b, Offset.ICMP_TYPE) = 8 THEN "Request" ELSE "Reply"]

print_UDP_header(b) ==
    [source |-> ToString(ntohs(b, Offset.SOURCE_PORT)),
     dest |-> ToString(ntohs(b, Offset.DEST_PORT))]

print_protocol_type(protocol) ==
    CASE protocol = 6 -> "TCP" [] protocol = 1 -> "ICMP" [] protocol = 17 -> "UDP"
      [] OTHER -> "Unknown"

print_protocol_header(b) ==
    CASE At(b, Offset.PROTOCOL) = 6  -> print_TCP_header(b)
      [] At(b, Offset.PROTOCOL) = 1  -> print_ICMP_header(b)
      [] At(b, Offset.PROTOCOL) = 17 -> print_UDP_header(b)
      [] OTHER                       -> <<>>

\* The checksum is taken from the start of the frame, not of the IP header.
read_IP_header(b) ==
    [headerLen |-> header_len(b),
     tos |-> At(b, Offset.TOS),
     ttl |-> At(b, Offset.TTL),
     pduLen |-> ntohs(b, Offset.TOTAL_PDU_LEN),
     protocol |-> print_protocol_type(At(b, Offset.PROTOCOL)),
     checksum |-> Verdict(Copy(b, 0, header_len(b))),
     sender |-> Copy(b, Offset.SENDER_IP, 4),
     dest |-> Copy(b, Offset.DEST_IP, 4),
     inner |-> print_protocol_header(b)]

\* What one turn of the loop prints.
Report(b) ==
    [ethernet |-> read_ethernet_header(b),
     header |-> IF At(b, Offset.ETH_HEAD_TYPE + 1) = 0 THEN read_IP_header(b)
                ELSE read_ARP_header(b)]
-----------------------------------------------------------------------------
\* A whole frame has the headers it announces: an IP packet has the length it says and
\* room for the header of its protocol, and an ARP message is one of Ethernet and IPv4.
\* pcap's buffer takes any frame.
HeaderLen(protocol) == IF protocol = 6 THEN 20 ELSE IF protocol \in {1, 17} THEN 8 ELSE 0

WellFormed(b) ==
    /\ Len(b) >= 34
    /\ IF At(b, Offset.ETH_HEAD_TYPE + 1) # 0 THEN Len(b) >= 42
       ELSE /\ header_len(b) >= 20
            /\ header_len(b) + HeaderLen(At(b, Offset.PROTOCOL)) <= ntohs(b, Offset.TOTAL_PDU_LEN)
            /\ Offset.IP_HEADER_LEN + ntohs(b, Offset.TOTAL_PDU_LEN) <= Len(b)

ASSUME TraceAssumption ==
    /\ BufLen \in Nat /\ Fill \subseteq 0 .. 255
    /\ \A f \in Frames :
          /\ f.bytes \in Seq(0 .. 255) /\ Len(f.bytes) <= BufLen
          /\ Len(f.bytes) = f.len => WellFormed(f.bytes)
-----------------------------------------------------------------------------
Init ==
    /\ \E byte \in Fill : buffer = [i \in 1 .. BufLen |-> byte]
    /\ frame = NoFrame
    /\ packet_num = 1
    /\ printed = <<>>
    /\ state = "reading"

\* pcap_next_ex leaves in the buffer what the packet does not overwrite.
Captured(f) ==
    [i \in 1 .. BufLen |-> IF i <= Len(f.bytes) THEN f.bytes[i] ELSE buffer[i]]

\* main: a packet is read and printed.
Packet(f) ==
    /\ state = "reading" /\ packet_num <= MaxPackets
    /\ buffer' = Captured(f)
    /\ frame' = f
    /\ printed' = [num |-> packet_num, len |-> f.len, report |-> Report(buffer')]
    /\ packet_num' = packet_num + 1
    /\ UNCHANGED state

\* main: the end of the file, or an error in it.
Stop ==
    /\ state = "reading"
    /\ state' \in {"closed", "failed"}
    /\ UNCHANGED <<buffer, frame, packet_num, printed>>

Next == Stop \/ \E f \in Frames : Packet(f)

Spec == Init /\ [][Next]_vars
-----------------------------------------------------------------------------
Read == frame # NoFrame
header == printed.report.header

\* The whole frame is in the capture.
Whole == Read /\ Len(frame.bytes) = frame.len

\* A segment is called correct just when it is intact, whatever IP options precede
\* it, whether its length is even or odd and whatever padding follows it.
TcpVerdict ==
    Whole /\ frame.kind = "TCP" =>
        (header.inner.checksum = "Correct" <=> frame.intact)

\* What is printed of a frame that was captured whole is not told from the bytes
\* that earlier packets left in the buffer.
OnlyOwnBytes ==
    Whole => \A byte \in Fill :
        printed.report =
            Report([i \in 1 .. BufLen |-> IF i <= frame.len THEN frame.bytes[i] ELSE byte])

\* Without IP options the addresses, ports, flags and types printed are the frame's;
\* the offsets of buffer.h miss those that options shift.
FieldsRight ==
    Whole /\ frame.options = 0 =>
        /\ printed.report.ethernet.type = IF frame.kind = "ARP" THEN "ARP" ELSE "IP"
        /\ frame.kind \in {"ARP", "ICMP"} =>
              (IF frame.kind = "ARP" THEN header.opcode ELSE header.inner.type) = frame.asks
        /\ frame.kind \in {"TCP", "UDP"} =>
              <<header.inner.source, header.inner.dest>> = frame.ports
        /\ frame.kind = "TCP" =>
              /\ header.inner.flags = frame.flags
              /\ header.inner.ack # "not valid" <=> "ACK" \in frame.flags

\* The IP checksum is called correct just when the header is intact: the expected
\* output kept beside the program says so of every packet of smallTCP.pcap.
IpVerdict ==
    Whole /\ frame.kind # "ARP" => (header.checksum = "Correct" <=> frame.intactIP)
=============================================================================
