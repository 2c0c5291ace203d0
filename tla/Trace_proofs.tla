---------------------------- MODULE Trace_proofs ----------------------------
(***************************************************************************)
(* Proofs about Trace for every capture of well-formed frames, of any      *)
(* number and length: what is printed of a packet is told from its bytes.  *)
(***************************************************************************)
EXTENDS Trace, SequenceTheorems, TLAPS

Bytes == 0 .. 255
Buffers == [1 .. BufLen -> Bytes]

\* Two buffers that hold the same n bytes.
Agree(a, b, n) == \A i \in 1 .. n : a[i] = b[i]

\* The inductive invariant: the buffer begins with the packet last read, and what was
\* printed is what it says.
IInv ==
    /\ buffer \in Buffers
    /\ Read => /\ frame \in Frames
               /\ Agree(buffer, frame.bytes, Len(frame.bytes))
               /\ printed.report = Report(buffer)
-----------------------------------------------------------------------------
LEMMA SameCopy ==
    ASSUME NEW a \in Buffers, NEW b \in Buffers, NEW n \in Nat, n <= BufLen, Agree(a, b, n),
           NEW o \in Nat, NEW k \in Int, o + k <= n
    PROVE  Copy(a, o, k) = Copy(b, o, k)
  <1> BufLen \in Nat
    BY TraceAssumption
  <1>1. \A i \in o + 1 .. o + k : i \in 1 .. n /\ i \in 1 .. BufLen
    OBVIOUS
  <1>2. \A i \in o + 1 .. o + k : a[i] = b[i] /\ a[i] \in Bytes /\ b[i] \in Bytes
    BY <1>1 DEF Agree, Buffers
  <1>3. /\ SubSeq(a, o + 1, o + k) \in Seq(Bytes)
        /\ Len(SubSeq(a, o + 1, o + k)) = IF o + 1 <= o + k THEN (o + k) - (o + 1) + 1 ELSE 0
        /\ \A i \in 1 .. (o + k) - (o + 1) + 1 :
              SubSeq(a, o + 1, o + k)[i] = a[(o + 1) + i - 1]
    <2>1. o + 1 \in Int /\ o + k \in Int
      OBVIOUS
    <2> QED
      BY <1>2, <2>1, SubSeqProperties
  <1>4. /\ SubSeq(b, o + 1, o + k) \in Seq(Bytes)
        /\ Len(SubSeq(b, o + 1, o + k)) = IF o + 1 <= o + k THEN (o + k) - (o + 1) + 1 ELSE 0
        /\ \A i \in 1 .. (o + k) - (o + 1) + 1 :
              SubSeq(b, o + 1, o + k)[i] = b[(o + 1) + i - 1]
    <2>1. o + 1 \in Int /\ o + k \in Int
      OBVIOUS
    <2> QED
      BY <1>2, <2>1, SubSeqProperties
  <1>5. \A i \in 1 .. Len(SubSeq(a, o + 1, o + k)) :
            SubSeq(a, o + 1, o + k)[i] = SubSeq(b, o + 1, o + k)[i]
    <2> SUFFICES ASSUME NEW i \in 1 .. Len(SubSeq(a, o + 1, o + k))
                 PROVE  SubSeq(a, o + 1, o + k)[i] = SubSeq(b, o + 1, o + k)[i]
      OBVIOUS
    <2>1. i \in 1 .. (o + k) - (o + 1) + 1 /\ (o + 1) + i - 1 \in o + 1 .. o + k
      BY <1>3
    <2> QED
      BY <1>2, <1>3, <1>4, <2>1
  <1> QED
    BY <1>3, <1>4, <1>5, SeqEqual DEF Copy

\* The offsets that lie in the headers of every frame.
LEMMA SameFields ==
    ASSUME NEW a \in Buffers, NEW b \in Buffers, NEW n \in Nat, n <= BufLen, Agree(a, b, n),
           NEW o \in Nat, o + 1 <= n
    PROVE  At(a, o) = At(b, o) /\ At(a, o) \in Bytes
  BY TraceAssumption DEF At, Agree, Buffers

LEMMA SameEthernet ==
    ASSUME NEW a \in Buffers, NEW b \in Buffers, NEW n \in Nat, n <= BufLen, Agree(a, b, n),
           n >= 34
    PROVE  read_ethernet_header(a) = read_ethernet_header(b)
  <1>1. /\ Offset.SOURCE_ADDRESS = 6 /\ Offset.ETH_HEAD_TYPE = 12
    BY DEF Offset
  <1>2. Copy(a, 0, 6) = Copy(b, 0, 6) /\ Copy(a, 6, 6) = Copy(b, 6, 6)
    BY SameCopy
  <1>3. At(a, 12 + 1) = At(b, 12 + 1)
    BY SameFields
  <1> QED
    BY <1>1, <1>2, <1>3 DEF read_ethernet_header

LEMMA SameARP ==
    ASSUME NEW a \in Buffers, NEW b \in Buffers, NEW n \in Nat, n <= BufLen, Agree(a, b, n),
           n >= 42
    PROVE  read_ARP_header(a) = read_ARP_header(b)
  <1>1. /\ Offset.ARP_OPCODE = 20 /\ Offset.ARP_SENDER_MAC = 22 /\ Offset.ARP_SENDER_IP = 28
        /\ Offset.ARP_TARGET_MAC = 32 /\ Offset.ARP_TARGET_IP = 38
    BY DEF Offset
  <1>2. /\ Copy(a, 22, 6) = Copy(b, 22, 6) /\ Copy(a, 28, 4) = Copy(b, 28, 4)
        /\ Copy(a, 32, 6) = Copy(b, 32, 6) /\ Copy(a, 38, 4) = Copy(b, 38, 4)
    BY SameCopy
  <1>3. At(a, 20 + 1) = At(b, 20 + 1)
    BY SameFields
  <1> QED
    BY <1>1, <1>2, <1>3 DEF read_ARP_header

\* What the IP header at the start of a well-formed frame says of its own length, and that
\* the segment it announces lies in the frame.
IPFits(a, n) ==
    /\ n >= 34 /\ header_len(a) >= 20
    /\ header_len(a) + HeaderLen(At(a, 23)) <= ntohs(a, 16)
    /\ 14 + ntohs(a, 16) <= n

LEMMA SameNumbers ==
    ASSUME NEW a \in Buffers, NEW b \in Buffers, NEW n \in Nat, n <= BufLen, Agree(a, b, n),
           NEW o \in Nat, o + 2 <= n
    PROVE  ntohs(a, o) = ntohs(b, o) /\ ntohs(a, o) \in Nat /\ ntohs(a, o) < Word16
  <1>1. At(a, o) = At(b, o) /\ At(a, o) \in Bytes
    BY SameFields
  <1>2. At(a, o + 1) = At(b, o + 1) /\ At(a, o + 1) \in Bytes
    BY SameFields
  <1>3. \A x, y \in Bytes : 256 * x + y \in Nat /\ 256 * x + y < 65536
    <2>1. \A x \in Bytes : x \in Nat /\ x <= 255
      BY DEF Bytes
    <2> QED
      BY <2>1
  <1> QED
    BY <1>1, <1>2, <1>3 DEF ntohs, Word16

LEMMA SameHeaderLen ==
    ASSUME NEW a \in Buffers, NEW b \in Buffers, NEW n \in Nat, n <= BufLen, Agree(a, b, n),
           n >= 34
    PROVE  header_len(a) = header_len(b) /\ header_len(a) \in 0 .. 60
  <1>1. Offset.IP_HEADER_LEN = 14
    BY DEF Offset
  <1>2. At(a, 14) = At(b, 14) /\ At(a, 14) \in Bytes
    BY SameFields
  <1>3. \A x \in Bytes : (x % 16) * 4 \in 0 .. 60
    BY DEF Bytes
  <1> QED
    BY <1>1, <1>2, <1>3 DEF header_len

\* The segment that is summed is the one the IP header announces: neither padding nor
\* what an earlier packet left behind the frame is part of it.
LEMMA SameChecksum ==
    ASSUME NEW a \in Buffers, NEW b \in Buffers, NEW n \in Nat, n <= BufLen, Agree(a, b, n),
           IPFits(a, n)
    PROVE  TCP_checksum(a) = TCP_checksum(b)
  <1>1. /\ Offset.SENDER_IP = 26 /\ Offset.DEST_IP = 30 /\ Offset.PROTOCOL = 23
        /\ Offset.IP_HEADER_LEN = 14 /\ Offset.TOTAL_PDU_LEN = 16
    BY DEF Offset
  <1>2. Copy(a, 26, 4) = Copy(b, 26, 4) /\ Copy(a, 30, 4) = Copy(b, 30, 4)
    BY SameCopy DEF IPFits
  <1>3. At(a, 23) = At(b, 23)
    BY SameFields DEF IPFits
  <1>4. ntohs(a, 16) = ntohs(b, 16) /\ ntohs(a, 16) \in Nat /\ ntohs(a, 16) < Word16
    BY SameNumbers DEF IPFits
  <1>5. header_len(a) = header_len(b) /\ header_len(a) \in 0 .. 60
    BY SameHeaderLen DEF IPFits
  <1>6. TCP_len(a) = TCP_len(b) /\ TCP_len(a) = ntohs(a, 16) - header_len(a)
    <2>1. header_len(a) <= ntohs(a, 16)
      BY <1>4, <1>5 DEF IPFits, HeaderLen
    <2>2. \A x \in Nat : x < 65536 => x % 65536 = x
      OBVIOUS
    <2>3. /\ ntohs(a, 16) - header_len(a) \in Nat
          /\ ntohs(a, 16) - header_len(a) < 65536
      BY <1>4, <1>5, <2>1 DEF Word16
    <2> QED
      BY <1>1, <1>4, <1>5, <2>2, <2>3 DEF TCP_len, Word16
  <1>7. Copy(a, header_len(a) + 14, TCP_len(a)) = Copy(b, header_len(a) + 14, TCP_len(a))
    <2>1. /\ header_len(a) + 14 \in Nat /\ TCP_len(a) \in Int
          /\ header_len(a) + 14 + TCP_len(a) <= n
      BY <1>4, <1>5, <1>6 DEF IPFits
    <2> QED
      BY <2>1, SameCopy
  <1> QED
    BY <1>1, <1>2, <1>3, <1>5, <1>6, <1>7 DEF TCP_checksum

LEMMA SameTCP ==
    ASSUME NEW a \in Buffers, NEW b \in Buffers, NEW n \in Nat, n <= BufLen, Agree(a, b, n),
           IPFits(a, n), At(a, 23) = 6
    PROVE  print_TCP_header(a) = print_TCP_header(b)
  <1>1. n >= 54
    <2>1. header_len(a) \in 0 .. 60 /\ ntohs(a, 16) \in Nat /\ ntohs(a, 16) < Word16
      BY SameHeaderLen, SameNumbers DEF IPFits
    <2> QED
      BY <2>1 DEF IPFits, HeaderLen
  <1>2. /\ Offset.SOURCE_PORT = 34 /\ Offset.DEST_PORT = 36 /\ Offset.SEQUENCE = 38
        /\ Offset.ACK_NUM = 42 /\ Offset.FLAGS = 47 /\ Offset.WINDOW = 48
    BY DEF Offset
  <1>3. /\ ntohs(a, 34) = ntohs(b, 34) /\ ntohs(a, 36) = ntohs(b, 36)
        /\ ntohs(a, 48) = ntohs(b, 48)
    BY <1>1, SameNumbers
  <1>4. Copy(a, 38, 4) = Copy(b, 38, 4) /\ Copy(a, 42, 4) = Copy(b, 42, 4)
    BY <1>1, SameCopy
  <1>5. At(a, 47) = At(b, 47)
    BY <1>1, SameFields
  <1> QED
    BY <1>2, <1>3, <1>4, <1>5, SameChecksum DEF print_TCP_header

LEMMA SameICMP ==
    ASSUME NEW a \in Buffers, NEW b \in Buffers, NEW n \in Nat, n <= BufLen, Agree(a, b, n),
           IPFits(a, n), At(a, 23) = 1
    PROVE  print_ICMP_header(a) = print_ICMP_header(b)
  <1>1. header_len(a) = header_len(b) /\ header_len(a) \in 0 .. 60 /\ ntohs(a, 16) \in Nat /\ ntohs(a, 16) < Word16
    BY SameHeaderLen, SameNumbers DEF IPFits
  <1>2. n >= 42
    BY <1>1 DEF IPFits, HeaderLen
  <1>3. At(a, 34) = At(b, 34)
    BY <1>2, SameFields
  <1>4. Offset.ICMP_TYPE = 34
    BY DEF Offset
  <1> QED
    BY <1>1, <1>3, <1>4 DEF print_ICMP_header

LEMMA SameUDP ==
    ASSUME NEW a \in Buffers, NEW b \in Buffers, NEW n \in Nat, n <= BufLen, Agree(a, b, n),
           IPFits(a, n), At(a, 23) = 17
    PROVE  print_UDP_header(a) = print_UDP_header(b)
  <1>1. header_len(a) \in 0 .. 60 /\ ntohs(a, 16) \in Nat /\ ntohs(a, 16) < Word16
    BY SameHeaderLen, SameNumbers DEF IPFits
  <1>2. n >= 42
    BY <1>1 DEF IPFits, HeaderLen
  <1>3. ntohs(a, 34) = ntohs(b, 34) /\ ntohs(a, 36) = ntohs(b, 36)
    BY <1>2, SameNumbers
  <1>4. Offset.SOURCE_PORT = 34 /\ Offset.DEST_PORT = 36
    BY DEF Offset
  <1> QED
    BY <1>3, <1>4 DEF print_UDP_header

LEMMA SameIP ==
    ASSUME NEW a \in Buffers, NEW b \in Buffers, NEW n \in Nat, n <= BufLen, Agree(a, b, n),
           IPFits(a, n)
    PROVE  read_IP_header(a) = read_IP_header(b)
  <1>1. /\ Offset.TOS = 15 /\ Offset.TTL = 22 /\ Offset.TOTAL_PDU_LEN = 16
        /\ Offset.PROTOCOL = 23 /\ Offset.SENDER_IP = 26 /\ Offset.DEST_IP = 30
    BY DEF Offset
  <1>2. At(a, 15) = At(b, 15) /\ At(a, 22) = At(b, 22) /\ At(a, 23) = At(b, 23)
    BY SameFields DEF IPFits
  <1>3. header_len(a) = header_len(b) /\ header_len(a) \in 0 .. 60
    BY SameHeaderLen DEF IPFits
  <1>4. ntohs(a, 16) = ntohs(b, 16) /\ ntohs(a, 16) \in Nat /\ ntohs(a, 16) < Word16
    BY SameNumbers DEF IPFits
  <1>5. Copy(a, 26, 4) = Copy(b, 26, 4) /\ Copy(a, 30, 4) = Copy(b, 30, 4)
    BY SameCopy DEF IPFits
  <1>6. Copy(a, 0, header_len(a)) = Copy(b, 0, header_len(a))
    <2>1. 0 + header_len(a) <= n
      BY <1>3, <1>4 DEF IPFits, HeaderLen
    <2> QED
      BY <1>3, <2>1, SameCopy
  <1>7. print_protocol_header(a) = print_protocol_header(b)
    <2>1. CASE At(a, 23) = 6
      BY <1>1, <1>2, <2>1, SameTCP DEF print_protocol_header
    <2>2. CASE At(a, 23) = 1
      BY <1>1, <1>2, <2>2, SameICMP DEF print_protocol_header
    <2>3. CASE At(a, 23) = 17
      BY <1>1, <1>2, <2>3, SameUDP DEF print_protocol_header
    <2>4. CASE At(a, 23) \notin {6, 1, 17}
      BY <1>1, <1>2, <2>4 DEF print_protocol_header
    <2> QED
      BY <2>1, <2>2, <2>3, <2>4
  <1> QED
    BY <1>1, <1>2, <1>3, <1>4, <1>5, <1>6, <1>7 DEF read_IP_header

\* Two buffers that begin with the same well-formed frame make the same report.
LEMMA SameReport ==
    ASSUME NEW a \in Buffers, NEW b \in Buffers, NEW s \in Seq(Bytes), Len(s) <= BufLen,
           WellFormed(s), Agree(a, s, Len(s)), Agree(b, s, Len(s))
    PROVE  Report(a) = Report(b)
  <1> DEFINE n == Len(s)
  <1>0. n \in Nat /\ n >= 34 /\ Agree(a, b, n)
    BY DEF WellFormed, Agree
  <1>1. \A o \in 0 .. 33 : At(s, o) = At(a, o)
    BY <1>0 DEF At, Agree
  <1>2. Offset.ETH_HEAD_TYPE = 12 /\ Offset.IP_HEADER_LEN = 14
        /\ Offset.TOTAL_PDU_LEN = 16 /\ Offset.PROTOCOL = 23
    BY DEF Offset
  <1>3. header_len(s) = header_len(a) /\ ntohs(s, 16) = ntohs(a, 16)
    BY <1>1, <1>2 DEF header_len, ntohs
  <1>4. At(a, 13) = At(b, 13)
    BY <1>0, SameFields
  <1>5. read_ethernet_header(a) = read_ethernet_header(b)
    BY <1>0, SameEthernet
  <1>6. CASE At(a, 13) = 0
    <2>1. IPFits(a, n)
      BY <1>0, <1>1, <1>2, <1>3, <1>6 DEF WellFormed, IPFits
    <2>2. read_IP_header(a) = read_IP_header(b)
      BY <1>0, <2>1, SameIP
    <2> QED
      BY <1>2, <1>4, <1>5, <1>6, <2>2 DEF Report
  <1>7. CASE At(a, 13) # 0
    <2>1. n >= 42
      BY <1>0, <1>1, <1>2, <1>7 DEF WellFormed
    <2>2. read_ARP_header(a) = read_ARP_header(b)
      BY <1>0, <2>1, SameARP
    <2> QED
      BY <1>2, <1>4, <1>5, <1>7, <2>2 DEF Report
  <1> QED
    BY <1>6, <1>7
-----------------------------------------------------------------------------
LEMMA InitHolds == Init => IInv
  BY TraceAssumption DEF Init, IInv, Buffers, Bytes, Read

LEMMA PacketKeeps ==
    ASSUME IInv, NEW f \in Frames, Packet(f)
    PROVE  IInv'
  <1>1. f.bytes \in Seq(Bytes) /\ Len(f.bytes) <= BufLen /\ BufLen \in Nat
    BY TraceAssumption DEF Bytes
  <1>2. buffer' = Captured(f) /\ frame' = f /\ printed'.report = Report(buffer')
    BY DEF Packet
  <1>3. buffer' \in Buffers
    BY <1>1, <1>2 DEF Captured, Buffers, IInv
  <1>4. Agree(buffer', f.bytes, Len(f.bytes))
    BY <1>1, <1>2 DEF Captured, Agree
  <1> QED
    BY <1>2, <1>3, <1>4 DEF IInv

LEMMA StepHolds == IInv /\ [Next]_vars => IInv'
  <1> SUFFICES ASSUME IInv, [Next]_vars PROVE IInv'
    OBVIOUS
  <1>1. CASE UNCHANGED vars
    BY <1>1 DEF vars, IInv, Read
  <1>2. CASE Stop
    BY <1>2 DEF Stop, IInv, Read
  <1>3. ASSUME NEW f \in Frames, Packet(f) PROVE IInv'
    BY <1>3, PacketKeeps
  <1> QED
    BY <1>1, <1>2, <1>3 DEF Next

\* Whatever packets came before, a well-formed frame that was captured whole is printed from
\* its own bytes: no field, and no byte of a checksum, is one that pcap's buffer still holds
\* of an earlier packet (trace.c:352-365).
THEOREM OwnBytes == Spec => []OnlyOwnBytes
  <1>1. IInv => OnlyOwnBytes
    <2> SUFFICES ASSUME IInv, Whole, NEW byte \in Fill
                 PROVE  printed.report = Report([i \in 1 .. BufLen |->
                            IF i <= frame.len THEN frame.bytes[i] ELSE byte])
      BY DEF OnlyOwnBytes
    <2> DEFINE clean == [i \in 1 .. BufLen |->
                            IF i <= frame.len THEN frame.bytes[i] ELSE byte]
    <2>1. frame.len = Len(frame.bytes) /\ frame \in Frames
      BY DEF Whole, IInv
    <2>2. /\ frame.bytes \in Seq(Bytes) /\ Len(frame.bytes) <= BufLen
          /\ WellFormed(frame.bytes) /\ BufLen \in Nat /\ byte \in Bytes
      BY <2>1, TraceAssumption DEF Bytes
    <2>3. clean \in Buffers /\ Agree(clean, frame.bytes, Len(frame.bytes))
      BY <2>1, <2>2 DEF Buffers, Agree
    <2>4. /\ printed.report = Report(buffer) /\ buffer \in Buffers
          /\ Agree(buffer, frame.bytes, Len(frame.bytes))
      BY DEF IInv, Whole
    <2> HIDE DEF clean
    <2>5. Report(buffer) = Report(clean)
      BY <2>2, <2>3, <2>4, SameReport
    <2> QED
      BY <2>4, <2>5 DEF clean
  <1> QED
    BY <1>1, InitHolds, StepHolds, PTL DEF Spec
=============================================================================
