--------------------------- MODULE MCConsumerData ---------------------------
(***************************************************************************)
(* Vectors for TLC.  With Base = 4 a vector of more than SmallMax = 31     *)
(* bytes has the longer header and three digits hold lengths up to 63.     *)
(***************************************************************************)
EXTENDS ConsumerData, RPacketEntry

Vector(t, vals, na, attr) ==
    [t |-> t, float |-> FALSE, vals |-> vals, na |-> na, attr |-> attr]

\* The dimensions of a matrix.
Dim == REXPPairList(<<REXPInteger(<<<<1>>, <<2>>>>, IntegerNA, <<>>)>>, <<<<2, 3>>>>, <<>>)

Attributes == {<<>>, <<Dim>>}

Repeated(v, n) == [k \in 1..n |-> v]

QuietNA == <<DoubleNA[1] + QuietBit>>

\* A NaN that is not R's, and a number.
NaN == <<DoubleNA[1] + 1>>

IntegerVectors ==
    {Vector(XT_ARRAY_INT, vals, na, attr) :
        vals \in {<<>>, <<<<0>>, IntegerNA>>, <<<<7>>, <<0>>, <<7>>>>, Repeated(<<7>>, 7)},
        na \in {<<0>>, <<7>>, IntegerNA}, attr \in Attributes}

DoubleVectors ==
    {Vector(XT_ARRAY_DOUBLE, vals, na, attr) :
        vals \in {<<DoubleNA, QuietNA>>, <<NaN, <<0>>, QuietNA>>, <<<<1000>>, NaN>>},
        na \in {<<0>>, <<1000>>, NaN, DoubleNA}, attr \in Attributes}

\* Their missing value is a float as well: RClient::assign takes no other.
FloatVectors ==
    {[v EXCEPT !.float = TRUE] : v \in
        {Vector(XT_ARRAY_DOUBLE, vals, Widened(na), attr) :
            vals \in {<<<<0>>, <<100>>>>, <<<<100>>, <<7>>, <<100>>>>},
            na \in {<<0>>, <<100>>}, attr \in Attributes}}

\* A missing value may be shorter or longer than R's: 28 empty strings are the
\* most that have the short header, and take twice the room for R.
StringVectors ==
    {Vector(XT_ARRAY_STR, vals, na, <<>>) :
        vals \in {<<<<>>>>, <<<<2, 3>>, StringNA, <<>>>>, Repeated(<<>>, 28),
                  Repeated(<<>>, 33), Repeated(<<2, 3, 2, 3, 2, 3, 2>>, 4)},
        na \in {<<>>, <<2, 3>>, <<2, 3, 2, 3, 2, 3, 2>>, StringNA}}

\* The attributes of objects with the longer header are not read back.
ConsumerVectors ==
    {v \in IntegerVectors \cup DoubleVectors \cup FloatVectors \cup StringVectors :
        Constructed(v).large => v.attr = <<>>}

EntryOf(x) == RPacketEntry_0103(x).entry
=============================================================================
