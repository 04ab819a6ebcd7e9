--------------------------- MODULE MCEntryExchange ---------------------------
(***************************************************************************)
(* Objects for TLC.  With Base = 4 a length above SmallMax = 31 needs the  *)
(* longer header, three digits hold lengths up to 63, and a word, be it the *)
(* low one of a packet's header or an entry's getLength, up to 255.        *)
(***************************************************************************)
EXTENDS EntryExchange, RPacketEntry

Integer(vals, attr) == REXPInteger(vals, IntegerNA, attr)
Double(vals, attr) == REXPDouble(vals, DoubleNA, attr)
String(vals, attr) == REXPString(vals, StringNA, attr)

Ints(n) == [k \in 1..n |-> <<(7 * k) % 256>>]
Doubles(n) == [k \in 1..n |-> <<1000 * k>>]
Strings(lengths) == [k \in DOMAIN lengths |-> [j \in 1..lengths[k] |-> 2 + (j % 2)]]

\* Every kind of array: empty, next to the limits and past them.
Arrays(attr) ==
         {Integer(Ints(n), attr) : n \in {0, 1, 2, 6, 7, 8, 9, 58, 59, 60, 63, 64}}
    \cup {Double(Doubles(n), attr) : n \in {0, 1, 3, 4}}
    \cup {String(Strings(s), attr) : s \in
             {<<>>, <<0>>, <<1>>, <<3>>, <<4>>, <<1, 0, 2>>, <<2, 3>>, <<30>>, <<31>>, <<20, 11>>}}
    \cup {REXPNull(attr), RawREXP(attr)}

\* One value: strings next to the limit, where the flag is set late.
Singles ==
         {Single(XT_ARRAY_INT, <<7>>, IntegerNA, IntegerNA)}
    \cup {Single(XT_ARRAY_DOUBLE, <<1000>>, DoubleNA, DoubleNA)}
    \cup {Single(XT_ARRAY_STR, Strings(<<n>>)[1], StringNA, StringNA) : n \in {0, 3, 27, 28, 31, 32}}

\* Members of lists: small, empty, padded and large.
Members ==
    {Integer(Ints(1), <<>>), Integer(Ints(9), <<>>), Double(Doubles(0), <<>>),
     String(Strings(<<2, 3>>), <<>>), REXPNull(<<>>), RawREXP(<<>>)}

Names == {<<2>>, <<2, 3, 2>>, [k \in 1..16 |-> 3]}

Pairs == {REXPPairList(<<x>>, <<n>>, <<>>) : x \in Members, n \in Names}

Lists == {REXPList(<<x, y>>, <<>>) : x \in Members, y \in Members}

\* Attributes: the dimensions of a matrix, and a pairlist of two.
Attribute(k) == REXPPairList(<<Integer(Ints(k), <<>>)>>, <<<<2, 3>>>>, <<>>)

LargeAttribute ==
    REXPPairList(<<Integer(Ints(2), <<>>), String(Strings(<<5, 2>>), <<>>)>>,
                 <<<<2, 3>>, <<3, 3, 3>>>>, <<>>)

Tree ==
    REXPList(<<Integer(Ints(1), <<>>),
               REXPPairList(<<REXPList(<<String(Strings(<<1>>), <<>>)>>, <<>>),
                              Double(Doubles(1), <<>>)>>,
                            <<<<2>>, <<3, 3>>>>, <<>>),
               REXPNull(<<>>)>>, <<>>)

AttributedInputs ==
         Arrays(<<Attribute(1)>>) \cup Arrays(<<LargeAttribute>>)
    \cup {REXPList(<<x>>, <<Attribute(2)>>) : x \in Members}
    \cup {REXPPairList(<<x>>, <<<<3>>>>, <<LargeAttribute>>) : x \in Members}

\* No member of a list has attributes, every type is implemented, the
\* attributes of an object with the longer header have the longer header, and
\* the length with the attributes fits in the digits of the header.
PlainInputs ==
    Arrays(<<>>) \cup Singles \cup Pairs \cup Lists \cup {Tree}
      \cup {x \in AttributedInputs :
               /\ x.large => x.attr[1].large
               /\ AttributedLength(x) < Place[HeaderLength(x.large) - 1]}

\* Objects with the longer header whose attributes have the shorter one.
MixedInputs == {x \in AttributedInputs : x.large /\ ~x.attr[1].large}

\* A list with a matrix in it.
NestedInputs ==
    {REXPList(<<Integer(Ints(1), <<Attribute(1)>>), y>>, <<>>) : y \in Members}

\* A list with a logical in it.
LogicalInputs ==
    {REXPList(<<Object(4, XT_ARRAY_BOOL, <<<<b>>>>, <<>>, <<>>, <<>>), y>>, <<>>) :
        b \in {0, 1}, y \in Members}

\* Strings of one element, with the short header and with the longer one.
StringInputs == {String(Strings(<<n>>), <<>>) : n \in 0..40}

Classed == {x \in Inputs : HasClass(x)}
=============================================================================
