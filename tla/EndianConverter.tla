--------------------------- MODULE EndianConverter ---------------------------
(***************************************************************************)
(* EndianConverter: unsigned integers as little-endian digits.  A digit    *)
(* stands for a byte; Base is 256 in the code and smaller in the instances *)
(* that TLC checks, so that lengths reach the limits of three, four and    *)
(* seven digits.  The protocol is little-endian whatever the host is: the  *)
(* shifts of serialize do not see the host's order, what is copied from    *)
(* its memory does.                                                        *)
(***************************************************************************)
EXTENDS Integers, SequencesExt

CONSTANTS
    Base,         \* values of a byte
    BigEndian     \* BOOST_BIG_ENDIAN: the order of the host's memory

ASSUME BaseAssumption == Base \in Nat /\ Base > 1 /\ Base % 2 = 0
ASSUME BigEndianAssumption == BigEndian \in BOOLEAN

\* What a digit is worth that follows k others: no integer has more than eight.
Place[k \in 0..8] == IF k = 0 THEN 1 ELSE Base * Place[k - 1]

\* An integer of width bytes keeps that many digits of x.
serialize(x, width) == [k \in 1..width |-> (x \div Place[k - 1]) % Base]

deserialize(digits) ==
    LET sum[k \in 0..Len(digits)] ==
          IF k = 0 THEN 0 ELSE sum[k - 1] + digits[k] * Place[k - 1]
    IN  sum[Len(digits)]

\* A number in the memory of the host, and back.
Memory(x, width) ==
    IF BigEndian THEN Reverse(serialize(x, width)) ELSE serialize(x, width)

FromMemory(digits) == deserialize(IF BigEndian THEN Reverse(digits) ELSE digits)

\* The double whose bytes in memory are those of x, reversed.
swap_endian(x) == IF BigEndian THEN FromMemory(Reverse(Memory(x, 8))) ELSE x
=============================================================================
