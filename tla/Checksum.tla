------------------------------- MODULE Checksum -------------------------------
(***************************************************************************)
(* checksum.c: the Internet checksum of a buffer of bytes, read as little  *)
(* endian 16-bit words; an odd last byte is a word of its own.             *)
(***************************************************************************)
EXTENDS Naturals, Sequences, FiniteSetsExt

Word16 == 65536

\* Mutant: the odd last byte is left out.
sum_EvenOnly(buf) ==
    MapThenSumSet(LAMBDA i : buf[i] + 256 * buf[i + 1],
                  {i \in DOMAIN buf : i % 2 = 1 /\ i < Len(buf)})

sum(buf) ==
    MapThenSumSet(LAMBDA i : buf[i] * (IF i % 2 = 1 THEN 1 ELSE 256), DOMAIN buf)

\* The carries are added back, and what they carry, once.
in_cksum(buf) ==
    LET folded == (sum(buf) \div Word16) + (sum(buf) % Word16)
        twice  == folded + (folded \div Word16)
    IN  Word16 - 1 - (twice % Word16)
=============================================================================
