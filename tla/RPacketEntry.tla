---------------------------- MODULE RPacketEntry ----------------------------
(***************************************************************************)
(* RPacketEntry_0103: how an object, its attributes and its members are    *)
(* written into an entry, and how they are read back; and what the server  *)
(* makes of them.                                                          *)
(***************************************************************************)
EXTENDS EntryLayout

-----------------------------------------------------------------------------
(* Making an entry. *)

RECURSIVE fillREXP(_, _)
fillREXP(st, x) ==
    LET headed == Put(st, Header(getType(x), x.large, AttributedLength(x)))
        attributed == FoldLeft(LAMBDA s, a : fillREXP(s, a), headed, x.attr)
    IN  CASE x.t = XT_LIST_TAG ->
               FoldLeft(LAMBDA s, k : Put(fillREXP(s, x.kids[k]), Symbol(x.names[k])),
                        attributed, [k \in DOMAIN x.kids |-> k])
          [] x.t = XT_LIST_NOTAG ->
               FoldLeft(LAMBDA s, k : fillREXP(s, k), attributed, x.kids)
          [] OTHER -> PutData(attributed, x)

RPacketEntry_0103(x) == fillREXP(Unfilled(x), x)

-----------------------------------------------------------------------------
(* Reading an entry. *)

\* A mutant: the padding is taken for a string.
RECURSIVE parseStringsPadded(_, _, _)
parseStringsPadded(e, pos, last) ==
    IF pos >= last THEN <<>>
    ELSE <<StringAt(e, pos)>> \o parseStringsPadded(e, Terminator(e, pos) + 1, last)

RECURSIVE parseStrings(_, _, _)
parseStrings(e, pos, last) ==
    IF pos >= last THEN <<>>
    ELSE IF Cell(e, pos) = 1 THEN parseStrings(e, pos + 1, last)
    ELSE <<StringAt(e, pos)>> \o parseStrings(e, Terminator(e, pos) + 1, last)

\* The members of a list from pos on, and whether they are "ok".  The caller
\* of parseREXP moves on by what the object that was made would take.
RECURSIVE parseREXP(_, _), parseMembers(_, _, _), parsePairs(_, _, _)

parseMembers(e, pos, last) ==
    IF pos >= last THEN [end |-> "ok", kids |-> <<>>]
    ELSE LET x == parseREXP(e, pos)
         IN  IF x = Garbage THEN [end |-> "garbage", kids |-> <<>>]
             ELSE LET rest == parseMembers(e, pos + bytelength(x) + HeaderLength(x.large), last)
                  IN  [rest EXCEPT !.kids = <<x>> \o @]

parsePairs(e, pos, last) ==
    LET Ends(end) == [end |-> end, kids |-> <<>>, names |-> <<>>]
        x == parseREXP(e, pos)
        tag == pos + bytelength(x) + HeaderLength(x.large)
        n == LengthAt(e, tag, 3)
        chars == tag + 4
        rest == parsePairs(e, chars + n, last)
    IN  IF pos >= last THEN Ends("ok")
        ELSE IF x = Garbage \/ ~Readable(e, tag, 1) THEN Ends("garbage")
        ELSE IF Cell(e, tag) # XT_SYMNAME THEN Ends("null")
        ELSE IF ~Readable(e, tag, 4) \/ ~Readable(e, chars, n) THEN Ends("garbage")
        ELSE IF Cell(e, chars + n - 1) > 1 THEN Ends("null")
        ELSE [rest EXCEPT !.kids = <<x>> \o @,
                          !.names = <<StringAt(e, chars)>> \o @]

\* Where the content of the object at pos starts and how long it is, and its
\* attributes.  The attributes' length is read with as many digits as the
\* object's own header has, and a difference below 0 wraps around.
ContentAt(e, pos) ==
    LET type == Cell(e, pos)
        own == HeaderLength(isLarge(type))
        at == pos + own
        attrLength == LengthAt(e, at, own - 1) + HeaderLength(isLarge(Cell(e, at)))
        attr == parseREXP(e, at)
        length == LengthAt(e, pos, own - 1)
    IN  IF isAttributed(type)
          THEN [offset |-> at + attrLength,
                length |-> (length - attrLength) % Place[8],
                attr |-> IF attr.t = XT_LIST_TAG THEN <<attr>> ELSE <<>>,
                garbage |-> attr = Garbage]
          ELSE [offset |-> at, length |-> length, attr |-> <<>>, garbage |-> FALSE]

HeadersReadable(e, pos) ==
    /\ Readable(e, pos, 1)
    /\ LET own == HeaderLength(isLarge(Cell(e, pos)))
       IN  /\ Readable(e, pos, own)
           /\ isAttributed(Cell(e, pos)) => Readable(e, pos + own, own)

parseREXP(e, pos) ==
    LET type == Cell(e, pos) % XT_LARGE
        content == ContentAt(e, pos)
        attr == content.attr
        last == content.offset + content.length
        Numbers(width, Number(_)) ==
            parseNumbers(e, content.offset, content.length, width, Number)
        NumbersEnd(width) == width * ((content.length + width - 1) \div width)
        pairs == parsePairs(e, content.offset, last)
        members == parseMembers(e, content.offset, last)
    IN  IF ~HeadersReadable(e, pos) \/ content.garbage THEN Garbage
        ELSE
        CASE type \in {XT_INT, XT_ARRAY_INT} ->
               IF Readable(e, content.offset, NumbersEnd(4))
                 THEN REXPInteger(Numbers(4, deserialize), IntegerNA, attr) ELSE Garbage
          [] type \in {XT_DOUBLE, XT_ARRAY_DOUBLE} ->
               IF Readable(e, content.offset, NumbersEnd(8))
                 THEN REXPDouble(Numbers(8, DoubleAt), DoubleNA, attr) ELSE Garbage
          [] type \in {XT_STR, XT_ARRAY_STR} ->
               IF ~Readable(e, content.offset, content.length) THEN Garbage
               ELSE IF Cell(e, last - 1) > 1 THEN REXPNull(<<>>)
               ELSE REXPString(parseStrings(e, content.offset, last), StringNA, attr)
          [] type \in {XT_LIST_TAG, XT_LANG_TAG} ->
               IF pairs.end = "garbage" THEN Garbage
               ELSE IF pairs.end = "null" THEN REXPNull(<<>>)
               ELSE REXPPairList(pairs.kids, pairs.names, attr)
          [] type \in {XT_LIST_NOTAG, XT_LANG_NOTAG} ->
               IF members.end = "ok" THEN REXPList(members.kids, attr) ELSE Garbage
          [] OTHER -> REXPNull(attr)

toREXP(e) ==
    IF Len(e) < 8 \/ Cell(e, 0) % DT_LARGE # DT_SEXP THEN REXPNull(<<>>)
    ELSE parseREXP(e, HeaderLength(isLarge(Cell(e, 0))))

-----------------------------------------------------------------------------
(* The layout that the server uses: every length is that of what follows,  *)
(* attributes at every depth included.  It is not in the repository, and   *)
(* taken from what parseREXP expects.  Two comments say otherwise: a tag   *)
(* comes after its value here, as line 328 reads it, and not before        *)
(* (rexp.h line 50); and strings are filled up to a word together, as line *)
(* 300 splits them, and not each of them (rexp_string.cpp line 180).       *)

WireData(x) ==
    LET Flat(Bytes(_)) == FlattenSeq([k \in DOMAIN x.vals |-> Bytes(x.vals[k])])
        strings == Flat(Chars)
    IN  CASE x.t = XT_ARRAY_INT -> Flat(LAMBDA v : serialize(v[1], 4))
          [] x.t = XT_ARRAY_DOUBLE -> Flat(LAMBDA v : serialize(v[1], 8))
          [] x.t = XT_ARRAY_STR -> strings \o Padding(Len(strings), 1)
          [] x.t = XT_ARRAY_BOOL ->
               serialize(Len(x.vals), 4) \o Flat(LAMBDA v : v)
                 \o Padding(Len(x.vals), Base - 1)
          [] OTHER -> <<>>

RECURSIVE Wire(_)
Wire(x) ==
    LET attributes == FlattenSeq([k \in DOMAIN x.attr |-> Wire(x.attr[k])])
        members == FlattenSeq([k \in DOMAIN x.kids |->
            Wire(x.kids[k]) \o (IF x.t = XT_LIST_TAG THEN Symbol(x.names[k]) ELSE <<>>)])
        content == attributes \o members \o WireData(x)
    IN  Header(x.t + (IF x.large THEN XT_LARGE ELSE 0)
                   + (IF x.attr # <<>> THEN XT_HAS_ATTR ELSE 0),
               x.large, Len(content)) \o content

WireEntry(x) ==
    LET wire == Wire(x)
        large == Len(wire) > SmallMax
    IN  Header(DT_SEXP + (IF large THEN DT_LARGE ELSE 0), large, Len(wire)) \o wire

\* Can the client have made the object?
RECURSIVE HasClass(_)
HasClass(x) ==
    x.t # XT_ARRAY_BOOL /\ \A k \in DOMAIN x.kids : HasClass(x.kids[k])

\* What the client makes of an object, some of whose types it has no reader for.
RECURSIVE AsRead(_)
AsRead(x) ==
    IF x.t \in {XT_ARRAY_BOOL, XT_S4} THEN REXPNull(x.attr)
    ELSE [x EXCEPT !.kids = [k \in DOMAIN @ |-> AsRead(@[k])],
                   !.large = bytelength(x) > SmallMax]
=============================================================================
