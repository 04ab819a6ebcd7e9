---------------------------- MODULE EntryLayout -----------------------------
(***************************************************************************)
(* The parts of an entry of a packet: headers, symbols, strings and the    *)
(* data of arrays, how they are put into the bytes of an entry, and how    *)
(* they are found there.  Characters are numbers above 1: 0 ends a string  *)
(* and 1 fills up its last word.                                           *)
(*                                                                         *)
(* What C++ leaves undefined ends an algorithm: "overflow" is a write past *)
(* the end of the entry, Garbage what is read past it.                     *)
(***************************************************************************)
EXTENDS REXP

DT_STRING == 4
DT_SEXP == 10
DT_LARGE == 64

-----------------------------------------------------------------------------
(* Layout. *)

\* The type, and the length in the digits that the size of the header leaves.
Header(type, large, length) ==
    <<type>> \o serialize(length, HeaderLength(large) - 1)

Padding(n, filler) == [k \in 1..(Aligned(n) - n) |-> filler]

Chars(s) == s \o <<0>>

Symbol(name) ==
    LET n == Len(name) + 1
        large == Aligned(n) > SmallMax
    IN  Header(XT_SYMNAME + (IF large THEN XT_LARGE ELSE 0), large, Aligned(n))
          \o Chars(name) \o Padding(n, 0)

toNetworkData(x) ==
    CASE x.t = XT_ARRAY_INT ->
           FlattenSeq([k \in DOMAIN x.vals |-> serialize(x.vals[k][1], 4)])
      [] x.t = XT_ARRAY_DOUBLE ->
           FlattenSeq([k \in DOMAIN x.vals |-> Memory(swap_endian(x.vals[k][1]), 8)])
      [] x.t = XT_ARRAY_STR ->
           LET s == FlattenSeq([k \in DOMAIN x.vals |-> Chars(x.vals[k])])
           IN  s \o Padding(Len(s), 1)
      [] OTHER -> <<>>

\* The bytes that toNetworkData asks for: the padding is not counted.
NetworkDataLength(x) ==
    IF x.t = XT_ARRAY_STR THEN Sizes(x.vals, LAMBDA s : Len(s) + 1)
                          ELSE ArrayLength(x.t, x.vals)

-----------------------------------------------------------------------------
(* Making an entry.  A state is the entry, the position of the next write  *)
(* and how far it went: "ok", "overflow" or "throw".                       *)

Put(st, cells) ==
    IF st.status # "ok" \/ cells = <<>> THEN st
    ELSE IF st.i + Len(cells) > Len(st.entry)
           THEN [st EXCEPT !.status = "overflow"]
           ELSE [st EXCEPT !.i = @ + Len(cells),
                           !.entry = [k \in DOMAIN @ |->
                               IF k - st.i \in DOMAIN cells THEN cells[k - st.i] ELSE @[k]]]

\* The length of an object with its own attributes, but not with those of its
\* members or of its attributes.
AttributedLength(x) ==
    bytelength(x)
      + Sizes(x.attr, LAMBDA a : bytelength(a) + HeaderLength(a.large))

\* The data of an array.  The room left wraps around when the position has
\* passed the end, and the position then moves by the attributed length.
PutData(st, x) ==
    IF st.status # "ok" THEN st
    ELSE IF st.i <= Len(st.entry) /\ NetworkDataLength(x) > Len(st.entry) - st.i
           THEN [st EXCEPT !.status = "throw"]
           ELSE [Put(st, toNetworkData(x)) EXCEPT !.i = st.i + AttributedLength(x)]

makeEntryHeader(type, length) ==
    LET large == length > SmallMax
    IN  Header(type + (IF large THEN DT_LARGE ELSE 0), large, length)

\* The entry gets its size with its header, before anything else is written.
Unfilled(x) ==
    LET length == AttributedLength(x) + HeaderLength(x.large)
        head == makeEntryHeader(DT_SEXP, length)
    IN  [entry |-> head \o [k \in 1..length |-> 0], i |-> Len(head), status |-> "ok"]

\* The entry of a command's string.
RPacketEntry_0103_str(s) ==
    LET n == Len(s) + 1
    IN  makeEntryHeader(DT_STRING, Aligned(n)) \o Chars(s) \o Padding(n, 1)

-----------------------------------------------------------------------------
(* Reading an entry.  Positions count from 0, as in the code. *)

Garbage == Object(0, -1, <<>>, <<>>, <<>>, <<>>)

Readable(e, pos, n) == pos + n <= Len(e)
Cell(e, pos) == e[pos + 1]
Cells(e, pos, n) == SubSeq(e, pos + 1, pos + n)

isLarge(type) == (type \div XT_LARGE) % 2 = 1
isAttributed(type) == (type \div XT_HAS_ATTR) % 2 = 1

\* The length field of the header at pos, of n digits.
LengthAt(e, pos, n) == deserialize(Cells(e, pos + 1, n))

\* The position of the first 0 at or after pos.
Terminator(e, pos) ==
    LET zeros == {k \in pos..(Len(e) - 1) : Cell(e, k) = 0}
    IN  IF zeros = {} THEN Len(e) ELSE CHOOSE k \in zeros : \A m \in zeros : k <= m

\* A string that no 0 ends is read past the end of the entry.
StringAt(e, pos) ==
    IF Terminator(e, pos) = Len(e) THEN <<-1>>
                                   ELSE Cells(e, pos, Terminator(e, pos) - pos)

\* Elements of width digits; the last one may reach over the end of the data.
parseNumbers(e, offset, length, width, Number(_)) ==
    [k \in 1..((length + width - 1) \div width) |->
        <<Number(Cells(e, offset + width * (k - 1), width))>>]

\* The bytes of a double are taken as they are and swapped then.
DoubleAt(cells) == swap_endian(FromMemory(cells))
=============================================================================
