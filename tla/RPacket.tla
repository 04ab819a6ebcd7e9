------------------------------- MODULE RPacket -------------------------------
(***************************************************************************)
(* A QAP1 packet as NetworkManager sees it: a header of HeaderLen units    *)
(* that announces how many units follow, then the entries.  An entry has a *)
(* header of one word, or of two when its DT_LARGE flag is set, and len    *)
(* units of data.  A unit stands for a group of bytes: the lengths are     *)
(* parameters, so a packet of a few units has all the boundaries that the  *)
(* 16-byte header, the 4-byte words and the payload have.                  *)
(*                                                                         *)
(* p.start[k] is the sum of the lengths of the entries before the k-th     *)
(* one, and the total of all the entries is the length the header          *)
(* announces.  A request is summed by RPacket's constructor, which asks    *)
(* each entry for getLength: a uint32_t, so of an entry of 2^32 bytes or   *)
(* more only the rest counts (and only the rest is sent).  The header of a *)
(* response comes from the server, which counts whole entries.             *)
(***************************************************************************)
EXTENDS Naturals, Sequences

CONSTANTS
    HeaderLen,    \* units of a QAP1Header (16 bytes in the code)
    WordLen,      \* units of a 4-byte word
    LengthLimit   \* units that a uint32_t cannot count any more (2^32 bytes)

ASSUME HeaderLenAssumption == HeaderLen \in Nat \ {0}
ASSUME WordLenAssumption == WordLen \in Nat \ {0}
ASSUME LengthLimitAssumption == LengthLimit \in Nat \ {0}

Entries == [large : BOOLEAN, len : Nat]

EntryHeaderLength(e) == IF e.large THEN WordLen + WordLen ELSE WordLen

EntryLength(e) == EntryHeaderLength(e) + e.len

\* What the entry says of its own length, and what submit sends of it.
getLength(e) == EntryLength(e) % LengthLimit

\* A mutant: the constructor's loop leaves out the last entry.
PacketLengthWithoutLast(p) ==
    IF p.entries = <<>> THEN 0 ELSE p.start[Len(p.entries)]

\* The length the header announces.
PacketLength(p) == p.start[Len(p.entries) + 1]

WireLength(p) == HeaderLen + PacketLength(p)

IsPacket(p) ==
    /\ p.entries \in Seq(Entries)
    /\ p.start \in [1..Len(p.entries) + 1 -> Nat]
    /\ p.start[1] = 0

\* The constructor's loop: each start is the previous one plus an entry.
IsRequest(p) ==
    /\ IsPacket(p)
    /\ \A k \in 1..Len(p.entries) :
          p.start[k + 1] = p.start[k] + getLength(p.entries[k])

IsResponse(p) ==
    /\ IsPacket(p)
    /\ \A k \in 1..Len(p.entries) :
          p.start[k + 1] = p.start[k] + EntryLength(p.entries[k])

NoPacket == [cmd |-> "none", entries |-> <<>>, start |-> <<0>>]
=============================================================================
