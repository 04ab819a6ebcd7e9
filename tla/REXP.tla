-------------------------------- MODULE REXP --------------------------------
(***************************************************************************)
(* The R objects that the client builds: their type with its two flags,    *)
(* their data and their attributes.  A REXP is a record with a field for   *)
(* each kind of data, of which its type uses one or two:                   *)
(*   vals   the elements of an array: an integer, a double or the          *)
(*          characters of a string                                         *)
(*   kids   the members of a list or a pairlist                            *)
(*   names  the tags of a pairlist                                         *)
(*   attr   the attribute pairlist, or no element                          *)
(*   bytes  how many bytes the data are when they are sent                 *)
(***************************************************************************)
EXTENDS EndianConverter, SequencesExt

XT_NULL == 0
XT_INT == 1
XT_DOUBLE == 2
XT_STR == 3
XT_S4 == 7
XT_SYMNAME == 19
XT_LIST_NOTAG == 20
XT_LIST_TAG == 21
XT_LANG_NOTAG == 22
XT_LANG_TAG == 23
XT_ARRAY_INT == 32
XT_ARRAY_DOUBLE == 33
XT_ARRAY_STR == 34
XT_ARRAY_BOOL == 36
XT_LARGE == 64
XT_HAS_ATTR == 128

\* 0x7fffff: half of what three digits hold.
SmallMax == Place[3] \div 2 - 1

Aligned(n) == IF n % 4 = 0 THEN n ELSE n + 4 - (n % 4)

HeaderLength(large) == IF large THEN 8 ELSE 4

\* m_eType, the byte that is sent.
getType(x) ==
    x.t + (IF x.large THEN XT_LARGE ELSE 0)
        + (IF x.hasAttr THEN XT_HAS_ATTR ELSE 0)

\* R's missing values: the least integer, a NaN of which an FPU may set the
\* quiet bit, and a string that no text is.
IntegerNA == <<Place[4] \div 2>>
DoubleNA == <<deserialize(<<2, 1, 0, 0, 0, 0, Base - 2, Base \div 2 - 1>>)>>
StringNA == <<Base - 1>>

QuietBit == Place[6]

\* A mutant: the bits are compared as they are.
isRserve_NAExact(v) == v = DoubleNA

isRserve_NA(v) ==
    <<v[1] - QuietBit * ((v[1] \div QuietBit) % 2)>> = DoubleNA

Replaced(vals, Missing(_), by) ==
    [k \in DOMAIN vals |-> IF Missing(vals[k]) THEN by ELSE vals[k]]

\* A mutant: the consumer's missing values are sent as they are.
initDataVerbatim(vals, na, rNA) == vals

\* From the consumer's missing value to R's; doubles are compared bit by bit.
initData(vals, na, rNA) == Replaced(vals, LAMBDA v : v = na, rNA)

\* From R's missing value to the consumer's.
IntegerData(vals, na) == Replaced(vals, LAMBDA v : v = IntegerNA, na)
DoubleData(vals, na) == Replaced(vals, isRserve_NA, na)
StringData(vals, na) == Replaced(vals, LAMBDA v : v = StringNA, na)

getData(x, na) ==
    CASE x.t = XT_ARRAY_INT -> IntegerData(x.vals, na)
      [] x.t = XT_ARRAY_DOUBLE -> DoubleData(x.vals, na)
      [] x.t = XT_ARRAY_STR -> StringData(x.vals, na)
      [] OTHER -> <<>>

Sizes(elements, Size(_)) == FoldLeft(LAMBDA n, e : n + Size(e), 0, elements)

\* Bytes of a tag: its header and its aligned characters.
NameLength(name) ==
    LET n == Aligned(Len(name) + 1) IN HeaderLength(n > SmallMax) + n

\* A mutant: no room for the padding of strings.
bytelengthUnaligned(t, vals) ==
    CASE t = XT_ARRAY_INT -> 4 * Len(vals)
      [] t = XT_ARRAY_DOUBLE -> 8 * Len(vals)
      [] t = XT_ARRAY_STR -> Sizes(vals, LAMBDA s : Len(s) + 1)
      [] OTHER -> 0

ArrayLength(t, vals) ==
    CASE t = XT_ARRAY_INT -> 4 * Len(vals)
      [] t = XT_ARRAY_DOUBLE -> 8 * Len(vals)
      [] t = XT_ARRAY_STR -> Aligned(Sizes(vals, LAMBDA s : Len(s) + 1))
      [] OTHER -> 0

\* Bytes of an object's data.
bytelength(x) == x.bytes

\* Bytes of the members of a list.  Attributes are not counted.
MembersLength(kids) ==
    Sizes(kids, LAMBDA k : bytelength(k) + HeaderLength(k.large))

\* The attributes are not counted, neither the object's own nor those of its
\* members.
DataLength(t, vals, kids, names) ==
    IF t \in {XT_LIST_TAG, XT_LIST_NOTAG}
      THEN MembersLength(kids) + Sizes(names, NameLength)
      ELSE ArrayLength(t, vals)

\* The constructors of REXP: both flags are computed once, and nothing that
\* happens to the object later changes them.  Nor do its data change, so what
\* bytelength will return is known here.
Object(size, t, vals, kids, names, attr) ==
    [t |-> t, vals |-> vals, kids |-> kids, names |-> names, attr |-> attr,
     hasAttr |-> attr # <<>>, large |-> size > SmallMax,
     bytes |-> DataLength(t, vals, kids, names)]

\* The size is that of the values before the consumer's missing values are
\* replaced.
Array(t, vals, na, rNA, attr) ==
    Object(ArrayLength(t, vals), t, initData(vals, na, rNA), <<>>, <<>>, attr)

REXPInteger(vals, na, attr) == Array(XT_ARRAY_INT, vals, na, IntegerNA, attr)
REXPDouble(vals, na, attr) == Array(XT_ARRAY_DOUBLE, vals, na, DoubleNA, attr)
REXPString(vals, na, attr) == Array(XT_ARRAY_STR, vals, na, StringNA, attr)

\* The constructors from one value take its size as they find it: that of a
\* string lacks the terminator and the padding.
Single(t, v, na, rNA) ==
    Object(IF t = XT_ARRAY_STR THEN Len(v) ELSE ArrayLength(t, <<v>>),
           t, initData(<<v>>, na, rNA), <<>>, <<>>, <<>>)

REXPNull(attr) == Object(0, XT_NULL, <<>>, <<>>, <<>>, attr)

\* The public constructors of the base class.
RawREXP(attr) == Object(0, XT_S4, <<>>, <<>>, <<>>, attr)

REXPList(kids, attr) ==
    Object(MembersLength(kids), XT_LIST_NOTAG, <<>>, kids, <<>>, attr)

REXPPairList(kids, names, attr) ==
    Object(MembersLength(kids) + Sizes(names, NameLength),
           XT_LIST_TAG, <<>>, kids, names, attr)

hasMember(x, name) == name \in ToSet(x.names)

\* The first member of that name, or REXPNull.
getMember(x, name) ==
    IF hasMember(x, name) THEN x.kids[SelectInSeq(x.names, LAMBDA n : n = name)]
                          ELSE REXPNull(<<>>)

\* setAttributes does not touch the flags.
setAttributes(x, attr) == [x EXCEPT !.attr = attr]

\* What a copy constructor makes of the data.
Remade(x) ==
    CASE x.t = XT_ARRAY_INT ->
           REXPInteger(IntegerData(x.vals, IntegerNA), IntegerNA, <<>>)
      [] x.t = XT_ARRAY_DOUBLE ->
           REXPDouble(DoubleData(x.vals, DoubleNA), DoubleNA, <<>>)
      [] x.t = XT_ARRAY_STR ->
           REXPString(StringData(x.vals, StringNA), StringNA, <<>>)
      [] x.t = XT_LIST_TAG -> REXPPairList(x.kids, x.names, <<>>)
      [] x.t = XT_LIST_NOTAG -> REXPList(x.kids, <<>>)
      [] x.t = XT_S4 -> RawREXP(<<>>)
      [] OTHER -> REXPNull(<<>>)

\* The copy constructors, and assignment, which swaps with a copy.
Copy(x) == IF x.attr = <<>> THEN Remade(x) ELSE setAttributes(Remade(x), x.attr)
=============================================================================
