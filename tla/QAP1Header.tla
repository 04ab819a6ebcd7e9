----------------------------- MODULE QAP1Header -----------------------------
(***************************************************************************)
(* The 16 bytes before the entries of a packet: command, low word of the   *)
(* length, offset of the data and high word of the length.                 *)
(***************************************************************************)
EXTENDS EndianConverter

WordBytes == 4

QAP1Header(cmd, len, os, len_high) ==
    [m_vCommand |-> serialize(cmd, WordBytes),
     m_vLength |-> serialize(len, WordBytes),
     m_vOffset |-> serialize(os, WordBytes),
     m_vLength_highbits |-> serialize(len_high, WordBytes)]

\* The buffer that submit has the getters fill in.
HeaderBytes(h) ==
    h.m_vCommand \o h.m_vLength \o h.m_vOffset \o h.m_vLength_highbits

Word(data, k) == SubSeq(data, WordBytes * k + 1, WordBytes * (k + 1))

\* The constructor from the bytes that were received.
QAP1HeaderOf(data) ==
    [m_vCommand |-> Word(data, 0), m_vLength |-> Word(data, 1),
     m_vOffset |-> Word(data, 2), m_vLength_highbits |-> Word(data, 3)]

getCommand(h) == deserialize(h.m_vCommand)

getOffset(h) == deserialize(h.m_vOffset)

\* A mutant: the high bits are forgotten.
getLengthLow(h) == deserialize(h.m_vLength)

getLength(h) == deserialize(h.m_vLength \o h.m_vLength_highbits)

\* RPacket's union: the k-th word of the length in the host's memory.
LengthWord(length, k) == FromMemory(Word(Memory(length, 2 * WordBytes), k))

\* RPacket's constructor passes the first word as the low one.
PacketHeader(cmd, length) ==
    QAP1Header(cmd, LengthWord(length, 0), 0, LengthWord(length, 1))

\* RPacketEntry_0103::getLength, a uint32_t: the size of an entry, of which
\* only the low word is left.
entry_getLength(e) == Len(e) % Place[WordBytes]

RPacketHeader(cmd, entries) ==
    PacketHeader(cmd, FoldLeft(LAMBDA n, e : n + entry_getLength(e), 0, entries))
=============================================================================
