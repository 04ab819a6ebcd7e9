------------------------- MODULE ConsumerDataProofs -------------------------
(***************************************************************************)
(* Proofs about a vector's way to R and back: for every base, every vector *)
(* of any length, every missing value, any number of copies and whatever   *)
(* the server's processor does to a NaN, its data are what was given.      *)
(***************************************************************************)
EXTENDS ConsumerData, CodecProofs

-----------------------------------------------------------------------------
(* Elements. *)

VectorTypes == {XT_ARRAY_INT, XT_ARRAY_DOUBLE, XT_ARRAY_STR}

LEMMA TypesDiffer ==
    /\ XT_ARRAY_INT # XT_ARRAY_DOUBLE /\ XT_ARRAY_INT # XT_ARRAY_STR
    /\ XT_ARRAY_DOUBLE # XT_ARRAY_STR
BY DEF XT_ARRAY_INT, XT_ARRAY_DOUBLE, XT_ARRAY_STR

\* The value that initData sends for what is missing.
rNA(t) == CASE t = XT_ARRAY_INT -> IntegerNA
            [] t = XT_ARRAY_DOUBLE -> DoubleNA
            [] t = XT_ARRAY_STR -> StringNA

LEMMA SentNAIsMissing ==
    ASSUME NEW t \in VectorTypes
    PROVE  MissingInR(t, rNA(t))
<1>1. CASE t = XT_ARRAY_INT
  BY <1>1, TypesDiffer DEF MissingInR, rNA
<1>2. CASE t = XT_ARRAY_DOUBLE
  BY <1>2, TypesDiffer DEF MissingInR, rNA
<1>3. CASE t = XT_ARRAY_STR
  BY <1>3, TypesDiffer DEF MissingInR, rNA
<1>. QED
  BY <1>1, <1>2, <1>3 DEF VectorTypes

\* rexp_double.h: the client's test of a double and R's agree.
LEMMA DoubleMissing ==
    ASSUME NEW n \in Nat
    PROVE  isRserve_NA(<<n>>) <=> MissingInR(XT_ARRAY_DOUBLE, <<n>>)
<1>1. PICK d \in Nat : /\ DoubleNA = <<d>>
                       /\ \A m \in Nat : isRserve_NA(<<m>>) <=> m \in {d, d + QuietBit}
  BY MissingDoubles, BytesAssumption
<1>2. MissingInR(XT_ARRAY_DOUBLE, <<n>>) <=> <<n>> \in {DoubleNA, <<DoubleNA[1] + QuietBit>>}
  BY TypesDiffer DEF MissingInR
<1>3. DoubleNA[1] = d
  BY <1>1
<1>. QED
  BY <1>1, <1>2, <1>3

LEMMA MissingDouble ==
    /\ \E d \in Nat : DoubleNA = <<d>>
    /\ QuietBit \in Nat
    /\ isRserve_NA(<<DoubleNA[1] + QuietBit>>)
    /\ \A u : MissingInR(XT_ARRAY_DOUBLE, u) => isRserve_NA(u)
    /\ \A u : MissingInR(XT_ARRAY_INT, u) <=> u = IntegerNA
    /\ \A u : MissingInR(XT_ARRAY_STR, u) <=> u = StringNA
<1>1. PICK d \in Nat : /\ DoubleNA = <<d>>
                       /\ \A m \in Nat : isRserve_NA(<<m>>) <=> m \in {d, d + QuietBit}
  BY MissingDoubles, BytesAssumption
<1>2. QuietBit \in Nat
  BY MissingDoubles, BytesAssumption
<1>3. DoubleNA[1] = d
  BY <1>1
<1>4. isRserve_NA(DoubleNA) /\ isRserve_NA(<<DoubleNA[1] + QuietBit>>)
  BY <1>1, <1>2, <1>3
<1>5. \A u : MissingInR(XT_ARRAY_DOUBLE, u) => isRserve_NA(u)
  BY <1>4, TypesDiffer DEF MissingInR
<1>6. /\ \A u : MissingInR(XT_ARRAY_INT, u) <=> u = IntegerNA
      /\ \A u : MissingInR(XT_ARRAY_STR, u) <=> u = StringNA
  BY TypesDiffer DEF MissingInR
<1>. QED
  BY <1>1, <1>2, <1>4, <1>5, <1>6

LEMMA WidenedType ==
    ASSUME NEW f \in Seq(Nat), Len(f) = 1
    PROVE  Widened(f) = <<f[1] * Place[4]>> /\ f[1] * Place[4] \in Nat
<1>1. f[1] \in Nat
  <2>1. 1 \in 1..Len(f)
    OBVIOUS
  <2>. QED
    BY <2>1, ElementOfSeq, Zenon
<1>2. Place[4] \in Nat
  BY PlaceType
<1>3. f[1] * Place[4] \in Nat
  BY <1>1, <1>2
<1>. QED
  BY <1>3, Zenon DEF Widened

\* Two floats are the same when the doubles are that they are made into.
LEMMA WidenedMissing ==
    ASSUME NEW v \in Vectors, v.float, NEW f \in Seq(Nat), Len(f) = 1
    PROVE  Widened(f) = v.na <=> f[1] = v.na[1] \div Place[4]
<1> DEFINE P == Place[4]
           g == v.na[1] \div P
<1>1. P \in Nat \ {0} /\ v.na[1] \in Nat /\ v.na = Widened(<<g>>)
  <2>1. 4 \in 0..8
    OBVIOUS
  <2>2. P \in Nat \ {0}
    BY <2>1, PlaceType, Zenon
  <2>3. v.na[1] \in Nat /\ v.na = Widened(<<v.na[1] \div Place[4]>>)
    BY VectorsAssumption, Zenon
  <2>. QED
    BY <2>2, <2>3, Zenon
<1>2. g \in Nat
  BY <1>1, Division
<1> HIDE DEF g
<1>3. Widened(<<g>>) = <<g * P>> /\ Widened(f) = <<f[1] * P>> /\ f[1] \in Nat
  <2>1. <<g>> \in Seq(Nat) /\ Len(<<g>>) = 1 /\ <<g>>[1] = g
    BY <1>2
  <2>2. Widened(<<g>>) = <<<<g>>[1] * P>>
    BY <2>1, WidenedType
  <2>3. Widened(f) = <<f[1] * P>>
    BY WidenedType
  <2>. QED
    BY <2>1, <2>2, <2>3
<1> HIDE DEF P
<1>4. f[1] * P = g * P <=> f[1] = g
  BY <1>1, <1>2, <1>3, Z3T(30)
<1>. QED
  BY <1>1, <1>3, <1>4 DEF P, g

\* What the constructor gets: numbers of one element, when they are doubles.
LEMMA ValuesType ==
    ASSUME NEW v \in Vectors
    PROVE  /\ DOMAIN Values(v) = DOMAIN v.vals
           /\ v.t = XT_ARRAY_DOUBLE =>
                \A k \in DOMAIN v.vals : \E n \in Nat : Values(v)[k] = <<n>>
<1>1. DOMAIN Values(v) = DOMAIN v.vals
  BY DEF Values
<1>2. ASSUME v.t = XT_ARRAY_DOUBLE, NEW k \in DOMAIN v.vals
      PROVE  \E n \in Nat : Values(v)[k] = <<n>>
  <2>1. v.vals[k] \in Seq(Nat) /\ Len(v.vals[k]) = 1
    BY <1>2, VectorsAssumption
  <2>2. CASE v.float
    <3>1. Values(v)[k] = Widened(v.vals[k])
      BY <2>2 DEF Values
    <3>. QED
      BY <2>1, <3>1, WidenedType
  <2>3. CASE ~v.float
    <3>1. Values(v)[k] = v.vals[k]
      BY <2>3 DEF Values
    <3>2. v.vals[k] = <<v.vals[k][1]>> /\ v.vals[k][1] \in Nat
      BY <2>1
    <3>. QED
      BY <3>1, <3>2
  <2>. QED
    BY <2>2, <2>3
<1>. QED
  BY <1>1, <1>2

\* Missing, said of the values that the constructor gets.
LEMMA ElementMissing ==
    ASSUME given \in Vectors, NEW k \in DOMAIN given.vals
    PROVE  Missing(given.vals[k])
             <=> Values(given)[k] = given.na \/ MissingInR(given.t, Values(given)[k])
<1>1. CASE given.float
  <2>1. given.vals[k] \in Seq(Nat) /\ Len(given.vals[k]) = 1
    BY <1>1, VectorsAssumption
  <2>2. Values(given)[k] = Widened(given.vals[k])
    BY <1>1 DEF Values
  <2>3. Widened(given.vals[k]) = given.na <=> given.vals[k][1] = given.na[1] \div Place[4]
    BY <1>1, <2>1, WidenedMissing
  <2>. QED
    BY <1>1, <2>2, <2>3 DEF Missing
<1>2. CASE ~given.float
  <2>1. Values(given)[k] = given.vals[k]
    BY <1>2 DEF Values
  <2>. QED
    BY <1>2, <2>1 DEF Missing
<1>. QED
  BY <1>1, <1>2
-----------------------------------------------------------------------------
(* Objects. *)

LEMMA ArrayFields ==
    ASSUME NEW vals, NEW na, NEW t, NEW r, NEW attr
    PROVE  LET x == Array(t, vals, na, r, attr)
           IN  /\ x.t = t /\ x.attr = attr
               /\ {"t", "vals", "attr"} \subseteq DOMAIN x
               /\ x.vals = initData(vals, na, r)
BY DEF Array, Object

LEMMA ConstructedForm ==
    ASSUME NEW v \in Vectors
    PROVE  Constructed(v) = Array(v.t, Values(v), v.na, rNA(v.t), v.attr)
<1>1. v.t \in VectorTypes
  BY VectorsAssumption DEF VectorTypes
<1>2. v.t # XT_ARRAY_DOUBLE => Values(v) = v.vals
  <2>1. v.t # XT_ARRAY_DOUBLE => ~v.float
    BY VectorsAssumption
  <2>. QED
    BY <2>1, Zenon DEF Values
<1>3. CASE v.t = XT_ARRAY_INT
  BY <1>2, <1>3, TypesDiffer DEF Constructed, REXPInteger, rNA
<1>4. CASE v.t = XT_ARRAY_DOUBLE
  BY <1>4, TypesDiffer DEF Constructed, REXPDouble, rNA
<1>5. CASE v.t = XT_ARRAY_STR
  BY <1>2, <1>5, TypesDiffer DEF Constructed, REXPString, rNA
<1>. QED
  BY <1>1, <1>3, <1>4, <1>5 DEF VectorTypes

LEMMA ConstructedFields ==
    ASSUME NEW v \in Vectors
    PROVE  LET x == Constructed(v)
           IN  /\ x.t = v.t /\ x.attr = v.attr
               /\ {"t", "vals", "attr"} \subseteq DOMAIN x
               /\ x.vals = initData(Values(v), v.na, rNA(v.t))
BY ConstructedForm, ArrayFields

\* What a copy is made of.
Recovered(x) == CASE x.t = XT_ARRAY_INT -> IntegerData(x.vals, IntegerNA)
                  [] x.t = XT_ARRAY_DOUBLE -> DoubleData(x.vals, DoubleNA)
                  [] x.t = XT_ARRAY_STR -> StringData(x.vals, StringNA)

LEMMA CopyForm ==
    ASSUME NEW x, x.t \in VectorTypes
    PROVE  LET fresh == Array(x.t, Recovered(x), rNA(x.t), rNA(x.t), <<>>)
           IN  Copy(x) = IF x.attr = <<>> THEN fresh ELSE [fresh EXCEPT !.attr = x.attr]
<1> DEFINE copied == Array(x.t, Recovered(x), rNA(x.t), rNA(x.t), <<>>)
<1>1. ASSUME x.t = XT_ARRAY_INT PROVE Remade(x) = copied
  <2>1. Recovered(x) = IntegerData(x.vals, IntegerNA) /\ rNA(x.t) = IntegerNA
    BY <1>1, TypesDiffer DEF Recovered, rNA
  <2>. DEFINE fresh == REXPInteger(IntegerData(x.vals, IntegerNA), IntegerNA, <<>>)
  <2>2. fresh = Array(x.t, Recovered(x), rNA(x.t), rNA(x.t), <<>>)
    BY <1>1, <2>1, Zenon DEF REXPInteger
  <2>3. Remade(x) = fresh
    BY <1>1 DEF Remade, XT_ARRAY_INT, XT_ARRAY_DOUBLE, XT_ARRAY_STR, XT_LIST_TAG,
       XT_LIST_NOTAG, XT_S4
  <2>. QED
    BY <2>2, <2>3
<1>2. ASSUME x.t = XT_ARRAY_DOUBLE PROVE Remade(x) = copied
  <2>1. Recovered(x) = DoubleData(x.vals, DoubleNA) /\ rNA(x.t) = DoubleNA
    BY <1>2, TypesDiffer DEF Recovered, rNA
  <2>. DEFINE fresh == REXPDouble(DoubleData(x.vals, DoubleNA), DoubleNA, <<>>)
  <2>2. fresh = Array(x.t, Recovered(x), rNA(x.t), rNA(x.t), <<>>)
    BY <1>2, <2>1, Zenon DEF REXPDouble
  <2>3. Remade(x) = fresh
    BY <1>2 DEF Remade, XT_ARRAY_INT, XT_ARRAY_DOUBLE, XT_ARRAY_STR, XT_LIST_TAG,
       XT_LIST_NOTAG, XT_S4
  <2>. QED
    BY <2>2, <2>3
<1>3. ASSUME x.t = XT_ARRAY_STR PROVE Remade(x) = copied
  <2>1. Recovered(x) = StringData(x.vals, StringNA) /\ rNA(x.t) = StringNA
    BY <1>3, TypesDiffer DEF Recovered, rNA
  <2>. DEFINE fresh == REXPString(StringData(x.vals, StringNA), StringNA, <<>>)
  <2>2. fresh = Array(x.t, Recovered(x), rNA(x.t), rNA(x.t), <<>>)
    BY <1>3, <2>1, Zenon DEF REXPString
  <2>3. Remade(x) = fresh
    BY <1>3 DEF Remade, XT_ARRAY_INT, XT_ARRAY_DOUBLE, XT_ARRAY_STR, XT_LIST_TAG,
       XT_LIST_NOTAG, XT_S4
  <2>. QED
    BY <2>2, <2>3
<1>4. Remade(x) = copied
  BY <1>1, <1>2, <1>3 DEF VectorTypes
<1>. QED
  BY <1>4, Zenon DEF Copy, setAttributes

LEMMA CopyFields ==
    ASSUME NEW x, x.t \in VectorTypes
    PROVE  /\ Copy(x).t = x.t /\ Copy(x).attr = x.attr
           /\ {"t", "vals", "attr"} \subseteq DOMAIN Copy(x)
           /\ Copy(x).vals = initData(Recovered(x), rNA(x.t), rNA(x.t))
<1> DEFINE fresh == Array(x.t, Recovered(x), rNA(x.t), rNA(x.t), <<>>)
<1>1. /\ fresh.t = x.t /\ fresh.attr = <<>>
      /\ {"t", "vals", "attr"} \subseteq DOMAIN fresh
      /\ fresh.vals = initData(Recovered(x), rNA(x.t), rNA(x.t))
  BY ArrayFields
<1>2. Copy(x) = IF x.attr = <<>> THEN fresh ELSE [fresh EXCEPT !.attr = x.attr]
  BY CopyForm
<1> HIDE DEF fresh
<1>. QED
  BY <1>1, <1>2

\* A copy holds R's missing value where its original held one, with the quiet
\* bit or without, and is itself copied as it is.
LEMMA CopyElements ==
    ASSUME NEW x, x.t \in VectorTypes
    PROVE  /\ DOMAIN Copy(x).vals = DOMAIN x.vals
           /\ \A k \in DOMAIN x.vals :
                LET missing == IF x.t = XT_ARRAY_DOUBLE THEN isRserve_NA(x.vals[k])
                                                        ELSE x.vals[k] = rNA(x.t)
                IN  Copy(x).vals[k] = IF missing THEN rNA(x.t) ELSE x.vals[k]
           /\ Recovered(Copy(x)) = Recovered(x)
<1> DEFINE c == Copy(x).vals
<1>1. Copy(x).t = x.t /\ c = initData(Recovered(x), rNA(x.t), rNA(x.t))
  BY CopyFields
<1>2. CASE x.t = XT_ARRAY_DOUBLE
  <2>1. /\ rNA(x.t) = DoubleNA
        /\ Recovered(x) = DoubleData(x.vals, DoubleNA)
        /\ Recovered(Copy(x)) = DoubleData(c, DoubleNA)
    BY <1>1, <1>2, TypesDiffer DEF Recovered, rNA
  <2> HIDE DEF c
  <2>2. Recovered(x) = [k \in DOMAIN x.vals |->
                          IF isRserve_NA(x.vals[k]) THEN DoubleNA ELSE x.vals[k]]
    BY <2>1 DEF DoubleData, Replaced
  <2>3. c = Recovered(x)
    BY <1>1, <2>1, <2>2 DEF initData, Replaced
  <2>4. Recovered(Copy(x)) = [k \in DOMAIN c |-> IF isRserve_NA(c[k]) THEN DoubleNA ELSE c[k]]
    BY <2>1 DEF DoubleData, Replaced
  <2>5. Recovered(Copy(x)) = Recovered(x)
    BY <2>2, <2>3, <2>4
  <2>. QED
    BY <1>2, <2>1, <2>2, <2>3, <2>5 DEF c
<1>3. ASSUME x.t # XT_ARRAY_DOUBLE
      PROVE  /\ Recovered(x) = [k \in DOMAIN x.vals |->
                    IF x.vals[k] = rNA(x.t) THEN rNA(x.t) ELSE x.vals[k]]
             /\ Recovered(Copy(x)) = [k \in DOMAIN c |->
                    IF c[k] = rNA(x.t) THEN rNA(x.t) ELSE c[k]]
  <2>1. CASE x.t = XT_ARRAY_INT
    BY <1>1, <2>1, TypesDiffer DEF Recovered, rNA, IntegerData, Replaced
  <2>2. CASE x.t = XT_ARRAY_STR
    BY <1>1, <2>2, TypesDiffer DEF Recovered, rNA, StringData, Replaced
  <2>. QED
    BY <1>3, <2>1, <2>2 DEF VectorTypes
<1>4. CASE x.t # XT_ARRAY_DOUBLE
  <2>0. c = [k \in DOMAIN Recovered(x) |->
               IF Recovered(x)[k] = rNA(x.t) THEN rNA(x.t) ELSE Recovered(x)[k]]
    BY <1>1, Zenon DEF initData, Replaced
  <2> HIDE DEF c
  <2>1. c = Recovered(x)
    BY <1>3, <1>4, <2>0
  <2>2. Recovered(Copy(x)) = Recovered(x)
    BY <1>3, <1>4, <2>1
  <2>. QED
    BY <1>3, <1>4, <2>1, <2>2 DEF c
<1>. QED
  BY <1>2, <1>4

LEMMA CopyCopied ==
    ASSUME NEW x, x.t \in VectorTypes
    PROVE  Copy(Copy(x)) = Copy(x)
<1> DEFINE c == Copy(x)
<1>1. c.t = x.t /\ c.attr = x.attr /\ Recovered(c) = Recovered(x)
  BY CopyFields, CopyElements
<1> DEFINE fresh == Array(x.t, Recovered(x), rNA(x.t), rNA(x.t), <<>>)
<1>2. c = IF x.attr = <<>> THEN fresh ELSE [fresh EXCEPT !.attr = x.attr]
  BY CopyForm
<1> HIDE DEF c
<1>3. Copy(c) = IF x.attr = <<>> THEN fresh ELSE [fresh EXCEPT !.attr = x.attr]
  BY <1>1, CopyForm
<1>4. Copy(c) = c
  BY <1>2, <1>3, Zenon
<1>. QED
  BY <1>4 DEF c

-----------------------------------------------------------------------------
(* Faithful objects. *)

LEMMA ConstructedFaithful ==
    ASSUME given \in Vectors
    PROVE  Faithful(Constructed(given))
<1> DEFINE x == Constructed(given)
           u(k) == Values(given)[k]
<1>1. /\ x.t = given.t /\ x.attr = given.attr
      /\ x.vals = initData(Values(given), given.na, rNA(given.t))
  BY ConstructedFields
<1>2. DOMAIN Values(given) = DOMAIN given.vals
  BY ValuesType
<1> HIDE DEF x
<1>3. x.vals = [k \in DOMAIN given.vals |-> IF u(k) = given.na THEN rNA(given.t) ELSE u(k)]
  BY <1>1, <1>2 DEF initData, Replaced
<1>4. ASSUME NEW k \in DOMAIN given.vals
      PROVE  IF Missing(given.vals[k]) THEN MissingInR(given.t, x.vals[k])
                                       ELSE x.vals[k] = u(k)
  <2>1. Missing(given.vals[k]) <=> u(k) = given.na \/ MissingInR(given.t, u(k))
    BY ElementMissing
  <2>2. MissingInR(given.t, rNA(given.t))
    BY SentNAIsMissing, VectorsAssumption DEF VectorTypes
  <2>3. x.vals[k] = IF u(k) = given.na THEN rNA(given.t) ELSE u(k)
    BY <1>3
  <2> HIDE DEF u
  <2>. QED
    BY <2>1, <2>2, <2>3, Zenon
<1>5. DOMAIN x.vals = DOMAIN given.vals
  BY <1>3
<1>. QED
  BY <1>1, <1>4, <1>5 DEF Faithful, x

\* What R's test says of the elements of a faithful object.
LEMMA FaithfulElements ==
    ASSUME given \in Vectors, NEW x, Faithful(x), NEW k \in DOMAIN given.vals
    PROVE  /\ x.vals[k] = IF Missing(given.vals[k]) THEN x.vals[k] ELSE Values(given)[k]
           /\ MissingInR(given.t, x.vals[k]) <=> Missing(given.vals[k])
           /\ given.t = XT_ARRAY_DOUBLE =>
                (isRserve_NA(x.vals[k]) <=> Missing(given.vals[k]))
           /\ given.t # XT_ARRAY_DOUBLE =>
                (x.vals[k] = rNA(given.t) <=> Missing(given.vals[k]))
<1>1. IF Missing(given.vals[k]) THEN MissingInR(given.t, x.vals[k])
                                ELSE x.vals[k] = Values(given)[k]
  BY DEF Faithful
<1>2. Missing(given.vals[k])
        <=> Values(given)[k] = given.na \/ MissingInR(given.t, Values(given)[k])
  BY ElementMissing
<1>3. MissingInR(given.t, x.vals[k]) <=> Missing(given.vals[k])
  BY <1>1, <1>2, Zenon
<1>4. ASSUME given.t = XT_ARRAY_DOUBLE
      PROVE  isRserve_NA(x.vals[k]) <=> Missing(given.vals[k])
  <2>1. CASE Missing(given.vals[k])
    BY <1>3, <1>4, <2>1, MissingDouble
  <2>2. CASE ~Missing(given.vals[k])
    <3>1. PICK n \in Nat : Values(given)[k] = <<n>>
      BY <1>4, ValuesType
    <3>2. x.vals[k] = <<n>>
      BY <1>1, <2>2, <3>1
    <3>. QED
      BY <1>3, <1>4, <3>2, DoubleMissing
  <2>. QED
    BY <2>1, <2>2
<1>5. ASSUME given.t # XT_ARRAY_DOUBLE
      PROVE  x.vals[k] = rNA(given.t) <=> Missing(given.vals[k])
  <2>1. given.t \in {XT_ARRAY_INT, XT_ARRAY_STR}
    BY <1>5, VectorsAssumption
  <2>2. MissingInR(given.t, x.vals[k]) <=> x.vals[k] = rNA(given.t)
    BY <2>1, MissingDouble, TypesDiffer DEF rNA
  <2>. QED
    BY <1>3, <2>2
<1>. QED
  BY <1>1, <1>3, <1>4, <1>5

\* REXP::operator= and the copy constructors lose no value.
LEMMA CopyFaithful ==
    ASSUME given \in Vectors, NEW x, Faithful(x)
    PROVE  Faithful(Copy(x))
<1>1. x.t = given.t /\ x.attr = given.attr /\ DOMAIN x.vals = DOMAIN given.vals
  BY DEF Faithful
<1>2. x.t \in VectorTypes
  BY <1>1, VectorsAssumption DEF VectorTypes
<1>3. /\ Copy(x).t = given.t /\ Copy(x).attr = given.attr
      /\ DOMAIN Copy(x).vals = DOMAIN given.vals
  BY <1>1, <1>2, CopyFields, CopyElements
<1>4. ASSUME NEW k \in DOMAIN given.vals
      PROVE  IF Missing(given.vals[k]) THEN MissingInR(given.t, Copy(x).vals[k])
                                       ELSE Copy(x).vals[k] = Values(given)[k]
  <2>1. Copy(x).vals[k] = IF Missing(given.vals[k]) THEN rNA(given.t) ELSE x.vals[k]
    BY <1>1, <1>2, CopyElements, FaithfulElements
  <2>2. MissingInR(given.t, rNA(given.t))
    BY <1>1, <1>2, SentNAIsMissing
  <2>. QED
    BY <2>1, <2>2, FaithfulElements
<1>. QED
  BY <1>3, <1>4 DEF Faithful

\* The processor of the server loses none either.
LEMMA LoadedFaithful ==
    ASSUME given \in Vectors, NEW x, Faithful(x), NEW quiet \in BOOLEAN,
           {"t", "vals", "attr"} \subseteq DOMAIN x
    PROVE  Faithful(Loaded(x, quiet))
<1>1. CASE ~(quiet /\ x.t = XT_ARRAY_DOUBLE)
  BY <1>1 DEF Loaded
<1>2. CASE quiet /\ x.t = XT_ARRAY_DOUBLE
  <2> DEFINE y == Loaded(x, quiet)
             q == <<DoubleNA[1] + QuietBit>>
             w == [k \in DOMAIN x.vals |-> IF x.vals[k] = DoubleNA THEN q ELSE x.vals[k]]
  <2>1. y = [x EXCEPT !.vals = w]
    BY <1>2 DEF Loaded
  <2>2. x.t = given.t /\ x.attr = given.attr /\ DOMAIN x.vals = DOMAIN given.vals
    BY DEF Faithful
  <2>3. MissingInR(XT_ARRAY_DOUBLE, DoubleNA) /\ MissingInR(XT_ARRAY_DOUBLE, q)
    BY TypesDiffer DEF MissingInR
  <2> HIDE DEF y, q
  <2>4. y.t = given.t /\ y.attr = given.attr /\ y.vals = w
    BY <2>1, <2>2
  <2>5. ASSUME NEW k \in DOMAIN given.vals
        PROVE  IF Missing(given.vals[k]) THEN MissingInR(given.t, y.vals[k])
                                         ELSE y.vals[k] = Values(given)[k]
    <3>1. y.vals[k] = IF x.vals[k] = DoubleNA THEN q ELSE x.vals[k]
      BY <2>2, <2>4, <2>5
    <3>2. CASE x.vals[k] = DoubleNA
      BY <1>2, <2>2, <2>3, <3>1, <3>2, FaithfulElements
    <3>3. CASE x.vals[k] # DoubleNA
      BY <3>1, <3>3, FaithfulElements
    <3>. QED
      BY <3>2, <3>3
  <2>6. DOMAIN y.vals = DOMAIN given.vals
    BY <2>2, <2>4
  <2>. QED
    BY <2>4, <2>5, <2>6 DEF Faithful, y
<1>. QED
  BY <1>1, <1>2

LEMMA FaithfulContent ==
    ASSUME NEW x, NEW y, Content(x) = Content(y), Faithful(x)
    PROVE  Faithful(y)
<1>1. x.t = y.t /\ x.vals = y.vals /\ x.attr = y.attr
  BY DEF Content
<1>. QED
  BY <1>1 DEF Faithful

\* getData of a faithful object.
LEMMA DataRead ==
    ASSUME given \in Vectors, NEW x, Faithful(x)
    PROVE  getData(x, given.na)
             = [k \in DOMAIN given.vals |->
                  IF Missing(given.vals[k]) THEN given.na ELSE Values(given)[k]]
<1>1. x.t = given.t /\ DOMAIN x.vals = DOMAIN given.vals
  BY DEF Faithful
<1>2. given.t \in VectorTypes
  BY VectorsAssumption DEF VectorTypes
<1>3. CASE given.t = XT_ARRAY_DOUBLE
  <2>1. getData(x, given.na)
          = [k \in DOMAIN x.vals |-> IF isRserve_NA(x.vals[k]) THEN given.na ELSE x.vals[k]]
    BY <1>1, <1>3, TypesDiffer DEF getData, DoubleData, Replaced
  <2>. QED
    BY <1>1, <1>3, <2>1, FaithfulElements
<1>4. CASE given.t # XT_ARRAY_DOUBLE
  <2>1. getData(x, given.na)
          = [k \in DOMAIN x.vals |-> IF x.vals[k] = rNA(x.t) THEN given.na ELSE x.vals[k]]
    <3>1. CASE x.t = XT_ARRAY_INT
      BY <3>1, TypesDiffer DEF getData, IntegerData, Replaced, rNA
    <3>2. CASE x.t = XT_ARRAY_STR
      BY <3>2, TypesDiffer DEF getData, StringData, Replaced, rNA
    <3>. QED
      BY <1>1, <1>2, <1>4, <3>1, <3>2 DEF VectorTypes
  <2>. QED
    BY <1>1, <1>4, <2>1, FaithfulElements
<1>. QED
  BY <1>3, <1>4

-----------------------------------------------------------------------------
(* The invariant. *)

LEMMA SentFields ==
    ASSUME given \in Vectors, NEW x \in Sent(given)
    PROVE  /\ Faithful(x) /\ x.t = given.t /\ x.attr = given.attr
           /\ {"t", "vals", "attr"} \subseteq DOMAIN x
<1> DEFINE c == Constructed(given)
<1>1. /\ c.t = given.t /\ c.attr = given.attr
      /\ {"t", "vals", "attr"} \subseteq DOMAIN c
  BY ConstructedFields
<1>2. Faithful(c)
  BY ConstructedFaithful
<1>3. x \in {c, Copy(c)}
  BY DEF Sent
<1>4. c.t \in VectorTypes
  BY <1>1, VectorsAssumption DEF VectorTypes
<1> HIDE DEF c
<1>5. CASE x = c
  BY <1>1, <1>2, <1>5
<1>6. CASE x = Copy(c)
  BY <1>1, <1>2, <1>4, <1>6, CopyFields, CopyFaithful
<1>. QED
  BY <1>3, <1>5, <1>6

\* What the server reads of an entry that was sent.
LEMMA SentFaithful ==
    ASSUME given \in Vectors, NEW x \in Sent(given)
    PROVE  LET held == Decoded(Encoded(x))
           IN  /\ Faithful(held) /\ IsSuffix(ServerData(held), Encoded(x))
               /\ \A quiet \in BOOLEAN : Faithful(Decoded(ServerEntry(Loaded(held, quiet))))
<1> DEFINE held == Decoded(Encoded(x))
<1>1. /\ DOMAIN held = DOMAIN x /\ Content(held) = Content(x)
      /\ IsSuffix(ServerData(held), Encoded(x))
      /\ \A quiet \in BOOLEAN :
           Content(Decoded(ServerEntry(Loaded(held, quiet)))) = Content(Loaded(held, quiet))
  BY CodecAssumption
<1> HIDE DEF held
<1>2. Faithful(held) /\ {"t", "vals", "attr"} \subseteq DOMAIN held
  BY <1>1, SentFields, FaithfulContent
<1>3. ASSUME NEW quiet \in BOOLEAN
      PROVE  Faithful(Decoded(ServerEntry(Loaded(held, quiet))))
  <2>1. Faithful(Loaded(held, quiet))
    BY <1>2, LoadedFaithful
  <2>. QED
    BY <1>1, <2>1, FaithfulContent
<1>. QED
  BY <1>1, <1>2, <1>3 DEF held

LEMMA DataInvInit == Init => DataInv
BY DEF Init, DataInv

LEMMA DataInvNext == DataInv /\ [Next]_vars => DataInv'
<1> SUFFICES ASSUME DataInv, [Next]_vars PROVE DataInv'
  OBVIOUS
<1>1. given \in Vectors
  BY DEF DataInv
<1>2. given' = given
  BY DEF Next, vars, Construct, CopyObject, Send, Answer, Receive, GetData
<1>3. CASE Construct
  <2>1. phase' = "built" /\ exp' = Constructed(given)
    BY <1>3 DEF Construct
  <2>. QED
    BY <1>1, <1>2, <2>1 DEF DataInv, Sent
<1>4. CASE CopyObject
  <2>1. CASE phase = "built"
    <3>1. /\ exp \in Sent(given) /\ exp' = Copy(exp) /\ phase' = "built"
          /\ exp.attr = <<>> \/ CopiesAttributed
      BY <1>4, <2>1 DEF CopyObject, DataInv
    <3>2. exp.attr = given.attr
      BY <1>1, <3>1, SentFields
    <3>3. Copy(Constructed(given)) \in Sent(given)
      BY <3>1, <3>2 DEF Sent
    <3>4. Constructed(given).t \in VectorTypes
      BY <1>1, ConstructedFields, VectorsAssumption DEF VectorTypes
    <3>5. exp = Constructed(given) \/ exp = Copy(Constructed(given))
      BY <3>1 DEF Sent
    <3>6. Copy(exp) = Copy(Constructed(given))
      BY <3>4, <3>5, CopyCopied
    <3>. QED
      BY <1>1, <1>2, <3>1, <3>3, <3>6 DEF DataInv
  <2>2. CASE phase = "parsed"
    <3>1. Faithful(exp) /\ exp' = Copy(exp) /\ phase' = "parsed"
      BY <1>4, <2>2 DEF CopyObject, DataInv
    <3>2. Faithful(Copy(exp))
      BY <1>1, <3>1, CopyFaithful
    <3>3. Faithful(exp)'
      BY <1>2, <3>1, <3>2 DEF Faithful, Missing
    <3>. QED
      BY <1>1, <1>2, <3>1, <3>3 DEF DataInv
  <2>. QED
    BY <1>4, <2>1, <2>2 DEF CopyObject
<1>5. CASE Send
  <2>1. exp \in Sent(given) /\ entry' = Encoded(exp) /\ phase' = "sent"
    BY <1>5 DEF Send, DataInv
  <2>. QED
    BY <1>1, <1>2, <2>1 DEF DataInv
<1>6. CASE Answer
  <2>1. PICK x \in Sent(given) : entry = Encoded(x)
    BY <1>6 DEF Answer, DataInv
  <2>2. PICK quiet \in BOOLEAN : entry' = ServerEntry(Loaded(Decoded(entry), quiet))
    BY <1>6 DEF Answer
  <2>3. Faithful(Decoded(ServerEntry(Loaded(Decoded(entry), quiet))))
    BY <1>1, <2>1, SentFaithful
  <2>4. Faithful(Decoded(entry))'
    BY <1>2, <2>2, <2>3 DEF Faithful, Missing
  <2>5. phase' = "answered"
    BY <1>6 DEF Answer
  <2>. QED
    BY <1>1, <1>2, <2>4, <2>5 DEF DataInv
<1>7. CASE Receive
  <2>1. Faithful(Decoded(entry)) /\ exp' = Decoded(entry) /\ phase' = "parsed"
    BY <1>7 DEF Receive, DataInv
  <2>2. Faithful(exp)'
    BY <1>2, <2>1 DEF Faithful, Missing
  <2>. QED
    BY <1>1, <1>2, <2>1, <2>2 DEF DataInv
<1>8. CASE GetData
  <2>1. /\ Faithful(exp) /\ exp' = exp /\ phase' = "read"
        /\ data' = getData(exp, given.na)
    BY <1>8 DEF GetData, DataInv
  <2>2. Faithful(exp)'
    BY <1>2, <2>1 DEF Faithful, Missing
  <2>. QED
    BY <1>1, <1>2, <2>1, <2>2 DEF DataInv
<1>9. CASE UNCHANGED vars
  BY <1>9 DEF vars, DataInv, Faithful, Missing
<1>. QED
  BY <1>3, <1>4, <1>5, <1>6, <1>7, <1>8, <1>9 DEF Next

\* Between R and the consumer the data are in one of five forms, each of which
\* holds R's missing values and no others.
THEOREM DataKept == Spec => []DataInv
<1>1. Init => DataInv
  BY DataInvInit
<1>2. DataInv /\ [Next]_vars => DataInv'
  BY DataInvNext
<1>. QED
  BY <1>1, <1>2, PTL DEF Spec

\* The server gets what the consumer meant, for every vector and after any
\* number of copies.
THEOREM ServerSeesConsumersData == Spec => []ServerSeesData
<1>1. DataInv => ServerSeesData
  <2> SUFFICES ASSUME DataInv, phase = "sent"
               PROVE  LET held == Decoded(entry)
                      IN  IsSuffix(ServerData(held), entry) /\ Faithful(held)
    BY DEF ServerSeesData
  <2>1. given \in Vectors
    BY DEF DataInv
  <2>2. PICK x \in Sent(given) : entry = Encoded(x)
    BY DEF DataInv
  <2>. QED
    BY <2>1, <2>2, SentFaithful
<1>. QED
  BY <1>1, DataKept, PTL

\* The consumer gets back what it gave, with its own value for what is missing.
THEOREM ConsumersDataSurvive == Spec => []DataSurvives
<1>1. DataInv => DataSurvives
  <2> SUFFICES ASSUME DataInv, phase = "read" PROVE DataSurvives
    BY DEF DataSurvives
  <2>1. given \in Vectors /\ Faithful(exp) /\ data = getData(exp, given.na)
    BY DEF DataInv
  <2>. QED
    BY <2>1, DataRead DEF DataSurvives
<1>. QED
  BY <1>1, DataKept, PTL
=============================================================================
