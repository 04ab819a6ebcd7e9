------------------------- MODULE EntryExchangeProofs ------------------------
(***************************************************************************)
(* Proofs about the lengths in a packet: for every base, every object and  *)
(* every string of a command they lead to the end of each entry and of the *)
(* packet; and about arrays, which are read back as they were written.     *)
(***************************************************************************)
EXTENDS EntryExchange, CodecProofs

-----------------------------------------------------------------------------
(* One entry or two. *)

\* The function behind FlattenSeq, for one sequence and for two.
LEMMA Flattened ==
    ASSUME NEW a, NEW b
    PROVE  FlattenSeq(<<a>>) = a /\ FlattenSeq(<<a, b>>) = a \o b
<1> DEFINE F(s, f) == [i \in 1..Len(s) |-> IF i = 1 THEN s[i] ELSE f[i - 1] \o s[i]]
           f(s) == CHOOSE flatten : flatten = F(s, flatten)
           g == [i \in 1..1 |-> a]
           h == [i \in 1..2 |-> IF i = 1 THEN a ELSE a \o b]
<1>1. /\ Len(<<a>>) = 1 /\ <<a>>[1] = a
      /\ Len(<<a, b>>) = 2 /\ <<a, b>>[1] = a /\ <<a, b>>[2] = b
  OBVIOUS
<1>2. g = F(<<a>>, g)
  BY <1>1
<1>3. h = F(<<a, b>>, h)
  <2>1. h[1] = a
    OBVIOUS
  <2>2. \A i \in 1..2 : i = 1 \/ i = 2
    OBVIOUS
  <2>. QED
    BY <1>1, <2>1, <2>2
<1>4. f(<<a>>) = F(<<a>>, f(<<a>>)) /\ f(<<a, b>>) = F(<<a, b>>, f(<<a, b>>))
  <2> HIDE DEF F, g, h
  <2>. QED
    BY <1>2, <1>3, Zenon
<1>5. FlattenSeq(<<a>>) = f(<<a>>)[1] /\ FlattenSeq(<<a, b>>) = f(<<a, b>>)[2]
  BY <1>1 DEF FlattenSeq
<1> HIDE DEF f
<1>6. f(<<a>>)[1] = a /\ f(<<a, b>>)[1] = a
  BY <1>1, <1>4
<1>7. ASSUME NEW s, NEW q, Len(s) = 2, q = F(s, q)
      PROVE  q[2] = q[1] \o s[2]
  <2>1. 2 \in 1..Len(s) /\ 2 # 1 /\ 2 - 1 = 1
    BY <1>7
  <2>. QED
    BY <1>7, <2>1
<1>8. f(<<a, b>>)[2] = f(<<a, b>>)[1] \o b
  BY <1>1, <1>4, <1>7
<1>. QED
  BY <1>5, <1>6, <1>8

LEMMA GreatestOfTwo == Max({1}) = 1 /\ Max({2}) = 2 /\ Max({1, 2}) = 2
<1>1. ASSUME NEW k \in {1, 2}
      PROVE  Max({k}) = k
  BY DEF Max
<1>2. \A x \in {1, 2} : (\A y \in {1, 2} : x >= y) <=> x = 2
  OBVIOUS
<1>3. Max({1, 2}) = 2
  BY <1>2 DEF Max
<1>. QED
  BY <1>1, <1>3

\* The sum of the lengths of one entry and of two.
LEMMA Summed ==
    ASSUME NEW a, NEW b, entry_getLength(a) \in Nat, entry_getLength(b) \in Nat
    PROVE  /\ FoldLeft(LAMBDA n, e : n + entry_getLength(e), 0, <<a>>) = entry_getLength(a)
           /\ FoldLeft(LAMBDA n, e : n + entry_getLength(e), 0, <<a, b>>) = entry_getLength(a) + entry_getLength(b)
<1> DEFINE F(s, f) == [t \in SUBSET DOMAIN s |->
                         IF t = {} THEN 0 ELSE f[t \ {Max(t)}] + entry_getLength(s[Max(t)])]
           f(s) == CHOOSE iter : iter = F(s, iter)
           g == [t \in SUBSET {1} |-> IF t = {} THEN 0 ELSE 0 + entry_getLength(a)]
           h == [t \in SUBSET {1, 2} |->
                   IF t = {} THEN 0
                   ELSE IF t = {1} THEN 0 + entry_getLength(a)
                   ELSE IF t = {2} THEN 0 + entry_getLength(b)
                   ELSE (0 + entry_getLength(a)) + entry_getLength(b)]
<1>1. /\ DOMAIN <<a>> = {1} /\ <<a>>[1] = a
      /\ DOMAIN <<a, b>> = {1, 2} /\ <<a, b>>[1] = a /\ <<a, b>>[2] = b
  <2>1. DOMAIN <<a>> = 1..1 /\ DOMAIN <<a, b>> = 1..2
    OBVIOUS
  <2>2. 1..1 = {1} /\ 1..2 = {1, 2}
    OBVIOUS
  <2>3. <<a>>[1] = a /\ <<a, b>>[1] = a /\ <<a, b>>[2] = b
    OBVIOUS
  <2>. QED
    BY <2>1, <2>2, <2>3
<1>2. /\ \A t \in SUBSET {1} : t = {} \/ t = {1}
      /\ \A t \in SUBSET {1, 2} : t \in {{}, {1}, {2}, {1, 2}}
  OBVIOUS
<1>3. /\ {1} \ {1} = {} /\ {2} \ {2} = {} /\ {1, 2} \ {2} = {1}
      /\ {1} # {} /\ {2} # {} /\ {1, 2} # {} /\ {1} # {2} /\ {1, 2} # {1} /\ {1, 2} # {2}
  <2>1. {1} \ {1} = {} /\ {2} \ {2} = {}
    OBVIOUS
  <2>2. {1, 2} \ {2} = {1}
    <3>1. \A x : x \in {1, 2} \ {2} <=> x \in {1}
      OBVIOUS
    <3>. QED
      BY <3>1
  <2>3. {1} # {} /\ {2} # {} /\ {1, 2} # {}
    OBVIOUS
  <2>4. 1 \notin {2} /\ 2 \notin {1}
    OBVIOUS
  <2>5. {1} # {2} /\ {1, 2} # {1} /\ {1, 2} # {2}
    BY <2>4, Zenon
  <2>. QED
    BY <2>1, <2>2, <2>3, <2>5, Zenon
<1>4. g = F(<<a>>, g)
  <2>1. g[{}] = 0
    OBVIOUS
  <2>2. ASSUME NEW t \in SUBSET {1}
        PROVE  g[t] = IF t = {} THEN 0 ELSE g[t \ {Max(t)}] + entry_getLength(<<a>>[Max(t)])
    <3>1. CASE t = {}
      BY <2>1, <3>1
    <3>2. CASE t = {1}
      <4>1. g[t] = 0 + entry_getLength(a) /\ t # {}
        BY <1>3, <3>2
      <4>2. Max(t) = 1 /\ t \ {Max(t)} = {}
        BY <1>3, <3>2, GreatestOfTwo
      <4>. QED
        BY <1>1, <2>1, <4>1, <4>2
    <3>. QED
      BY <1>2, <3>1, <3>2
  <2>. QED
    BY <1>1, <2>2
<1>5. h = F(<<a, b>>, h)
  <2>1. h[{}] = 0 /\ h[{1}] = 0 + entry_getLength(a) /\ h[{2}] = 0 + entry_getLength(b)
        /\ h[{1, 2}] = (0 + entry_getLength(a)) + entry_getLength(b)
    BY <1>3
  <2>2. ASSUME NEW t \in SUBSET {1, 2}
        PROVE  h[t] = IF t = {} THEN 0 ELSE h[t \ {Max(t)}] + entry_getLength(<<a, b>>[Max(t)])
    <3> HIDE DEF h
    <3>1. CASE t = {}
      BY <2>1, <3>1
    <3>2. CASE t = {1}
      BY <1>1, <1>3, <2>1, <3>2, GreatestOfTwo
    <3>3. CASE t = {2}
      <4>1. Max(t) = 2 /\ t \ {Max(t)} = {} /\ t # {}
        BY <1>3, <3>3, GreatestOfTwo
      <4>. QED
        BY <1>1, <2>1, <3>3, <4>1
    <3>4. CASE t = {1, 2}
      <4>1. Max(t) = 2 /\ t \ {Max(t)} = {1} /\ t # {}
        BY <1>3, <3>4, GreatestOfTwo
      <4>2. h[t] = h[{1}] + entry_getLength(b)
        BY <2>1, <3>4
      <4>. QED
        BY <1>1, <4>1, <4>2
    <3>. QED
      BY <1>2, <3>1, <3>2, <3>3, <3>4
  <2>. QED
    BY <1>1, <2>2
<1>6. f(<<a>>) = F(<<a>>, f(<<a>>)) /\ f(<<a, b>>) = F(<<a, b>>, f(<<a, b>>))
  <2> HIDE DEF F, g, h
  <2>. QED
    BY <1>4, <1>5, Zenon
<1>7. /\ FoldLeft(LAMBDA n, e : n + entry_getLength(e), 0, <<a>>) = f(<<a>>)[DOMAIN <<a>>]
      /\ FoldLeft(LAMBDA n, e : n + entry_getLength(e), 0, <<a, b>>) = f(<<a, b>>)[DOMAIN <<a, b>>]
  BY Zenon DEF FoldLeft, MapThenFoldSet
<1> HIDE DEF f
<1>8. ASSUME NEW s, NEW q, q = F(s, q)
      PROVE  /\ q[{}] = 0
             /\ \A t \in SUBSET DOMAIN s :
                  t # {} => q[t] = q[t \ {Max(t)}] + entry_getLength(s[Max(t)])
  BY <1>8
<1>9. ASSUME NEW s, NEW q, q = F(s, q), 1 \in DOMAIN s, s[1] = a
      PROVE  q[{1}] = 0 + entry_getLength(a)
  <2>1. {1} \in SUBSET DOMAIN s /\ {1} # {}
    BY <1>9
  <2>2. q[{1}] = q[{1} \ {Max({1})}] + entry_getLength(s[Max({1})]) /\ q[{}] = 0
    BY <1>8, <1>9, <2>1
  <2>. QED
    BY <1>3, <1>9, <2>2, GreatestOfTwo
<1>10. f(<<a>>)[{1}] = 0 + entry_getLength(a) /\ f(<<a, b>>)[{1}] = 0 + entry_getLength(a)
  <2>1. 1 \in DOMAIN <<a>> /\ 1 \in DOMAIN <<a, b>>
    BY <1>1
  <2> HIDE DEF F
  <2>. QED
    BY <1>1, <1>6, <1>9, <2>1, Zenon
<1>11. f(<<a, b>>)[{1, 2}] = (0 + entry_getLength(a)) + entry_getLength(b)
  <2> DEFINE s == <<a, b>>
             q == f(s)
  <2>1. {1, 2} \in SUBSET DOMAIN s /\ {1, 2} # {}
    BY <1>1
  <2>2. q[{1, 2}] = q[{1, 2} \ {Max({1, 2})}] + entry_getLength(s[Max({1, 2})])
    BY <1>6, <1>8, <2>1
  <2>3. q[{1, 2}] = q[{1}] + entry_getLength(s[2])
    BY <1>3, <2>2, GreatestOfTwo
  <2>. QED
    BY <1>1, <1>10, <2>3
<1>12. /\ f(<<a>>)[DOMAIN <<a>>] = 0 + entry_getLength(a)
       /\ f(<<a, b>>)[DOMAIN <<a, b>>] = (0 + entry_getLength(a)) + entry_getLength(b)
  BY <1>1, <1>10, <1>11, Zenon
<1>13. 0 + entry_getLength(a) = entry_getLength(a)
  OBVIOUS
<1>. QED
  BY <1>7, <1>12, <1>13, Zenon

-----------------------------------------------------------------------------
(* The header of an entry. *)

LEMMA SmallFits == SmallMax \in Nat /\ SmallMax < Place[3] /\ Place[3] <= Place[7]
<1>1. /\ Place[3] \in Nat \ {0} /\ Place[4] \in Nat \ {0} /\ Place[5] \in Nat \ {0}
      /\ Place[6] \in Nat \ {0} /\ Place[7] \in Nat \ {0}
  BY PlaceType
<1>2. /\ Place[3 + 1] = Base * Place[3] /\ Place[4 + 1] = Base * Place[4]
      /\ Place[5 + 1] = Base * Place[5] /\ Place[6 + 1] = Base * Place[6]
  <2>1. 3 \in 0..7 /\ 4 \in 0..7 /\ 5 \in 0..7 /\ 6 \in 0..7
    OBVIOUS
  <2>. QED
    BY <2>1, PlaceType, Zenon
<1>3. \A m \in Nat : m <= Base * m
  BY BaseAssumption, Z3T(30)
<1>4. Place[3] <= Place[7]
  BY <1>1, <1>2, <1>3
<1>5. Place[3] = Base * Place[2] /\ Place[2] \in Nat \ {0}
  <2>1. 2 \in 0..7 /\ 2 \in 0..8 /\ 2 + 1 = 3
    OBVIOUS
  <2>. QED
    BY <2>1, PlaceType, Zenon
<1>6. Place[3] >= 2
  BY <1>5, BaseAssumption, Z3T(30)
<1>7. SmallMax \in Nat /\ SmallMax < Place[3]
  BY <1>1, <1>6, Z3T(30) DEF SmallMax
<1>. QED
  BY <1>4, <1>7

LEMMA HeaderTypes ==
    ASSUME NEW type \in {DT_STRING, DT_SEXP}
    PROVE  /\ type \in Nat /\ type + DT_LARGE \in Nat /\ type + 0 = type
           /\ isLarge(type + DT_LARGE) /\ ~isLarge(type + 0)
BY DEF DT_STRING, DT_SEXP, DT_LARGE, isLarge, XT_LARGE

\* The digits of a number, as bytes among others.
LEMMA DigitsOfLength ==
    ASSUME NEW n \in Nat, NEW width \in {3, 7}
    PROVE  /\ serialize(n, width) \in Seq(0..Base - 1)
           /\ serialize(n, width) \in Seq(Nat)
           /\ Len(serialize(n, width)) = width
<1> DEFINE d == serialize(n, width)
<1>1. width \in 0..8
  OBVIOUS
<1>2. d \in Seq(0..Base - 1) /\ Len(d) = width
  BY <1>1, SerializeType, Zenon
<1>3. 0..Base - 1 \subseteq Nat
  BY BaseAssumption
<1> HIDE DEF d
<1>4. d \in Seq(Nat)
  BY <1>2, <1>3, SeqMonotonic, Zenon
<1>. QED
  BY <1>2, <1>4 DEF d

\* A byte before others.
LEMMA Headed ==
    ASSUME NEW ty \in Nat, NEW d \in Seq(Nat)
    PROVE  /\ <<ty>> \o d \in Seq(Nat)
           /\ Len(<<ty>> \o d) = Len(d) + 1
           /\ (<<ty>> \o d)[1] = ty
           /\ \A k \in 1..Len(d) : (<<ty>> \o d)[k + 1] = d[k]
<1> DEFINE s == <<ty>>
           e == s \o d
           n == Len(d)
<1>1. s \in Seq(Nat) /\ Len(s) = 1 /\ s[1] = ty
  OBVIOUS
<1>2. n \in Nat
  BY LenProperties, Zenon
<1>3. /\ e \in Seq(Nat) /\ Len(e) = Len(s) + n
      /\ \A k \in 1..Len(s) + n : e[k] = IF k <= Len(s) THEN s[k] ELSE d[k - Len(s)]
  <2> HIDE DEF s
  <2>. QED
    BY <1>1, ConcatProperties, Zenon
<1> HIDE DEF s, e, n
<1>4. e[1] = ty /\ Len(e) = n + 1
  BY <1>1, <1>2, <1>3
<1>5. ASSUME NEW k \in 1..n
      PROVE  e[k + 1] = d[k]
  <2>1. k + 1 \in 1..Len(s) + n /\ ~(k + 1 <= Len(s)) /\ (k + 1) - Len(s) = k
    BY <1>1, <1>2
  <2>. QED
    BY <1>3, <2>1, Zenon
<1>. QED
  BY <1>3, <1>4, <1>5 DEF s, e, n

\* A type and a length in as many digits as it needs.
LEMMA MadeHeader ==
    ASSUME NEW type \in {DT_STRING, DT_SEXP}, NEW n \in Nat, n < Place[7]
    PROVE  \E width \in {3, 7} :
             LET head == makeEntryHeader(type, n)
             IN  /\ head \in Seq(Nat) /\ Len(head) = width + 1
                 /\ HeaderLength(isLarge(head[1])) = width + 1
                 /\ \A k \in 1..width : head[k + 1] = serialize(n, width)[k]
                 /\ n < Place[width]
<1> DEFINE large == n > SmallMax
           width == IF large THEN 7 ELSE 3
           ty == type + (IF large THEN DT_LARGE ELSE 0)
           d == serialize(n, width)
<1>1. width \in {3, 7} /\ HeaderLength(large) = width + 1 /\ HeaderLength(large) - 1 = width
  BY DEF HeaderLength
<1>2. ty \in Nat /\ (isLarge(ty) <=> large)
  BY HeaderTypes
<1>3. d \in Seq(Nat) /\ Len(d) = width
  <2> HIDE DEF width
  <2>. QED
    BY <1>1, DigitsOfLength, Zenon
<1>4. makeEntryHeader(type, n) = <<ty>> \o d
  <2> HIDE DEF width
  <2>. QED
    BY <1>1, Zenon DEF makeEntryHeader, Header
<1>5. n < Place[width]
  <2>1. Place[3] \in Nat /\ SmallMax \in Nat /\ SmallMax < Place[3]
    <3>1. 3 \in 0..8
      OBVIOUS
    <3>. QED
      BY <3>1, PlaceType, SmallFits, Zenon
  <2>2. CASE large
    BY <2>2
  <2>3. CASE ~large
    <3>1. n < Place[3]
      BY <2>1, <2>3
    <3>. QED
      BY <2>3, <3>1
  <2>. QED
    BY <2>2, <2>3
<1> HIDE DEF width, ty, d, large
<1>6. /\ <<ty>> \o d \in Seq(Nat) /\ Len(<<ty>> \o d) = width + 1
      /\ (<<ty>> \o d)[1] = ty
      /\ \A k \in 1..width : (<<ty>> \o d)[k + 1] = d[k]
  BY <1>2, <1>3, Headed, Zenon
<1>7. HeaderLength(isLarge(ty)) = width + 1
  BY <1>1, <1>2, Zenon DEF HeaderLength
<1>. QED
  BY <1>1, <1>4, <1>5, <1>6, <1>7, Zenon DEF d

\* The length in an entry's header leads to the entry's end.
EndFound(e) ==
    LET own == HeaderLength(isLarge(getDataType(e)))
    IN  own + LengthAt(e, 0, own - 1) = Len(e)

\* rpacket_entry_0103.cpp, makeEntryHeader: whoever reads the header of an
\* entry finds the entry's end.
LEMMA EntryEndFound ==
    ASSUME NEW type \in {DT_STRING, DT_SEXP}, NEW n \in Nat, n < Place[7],
           NEW e \in Seq(Nat), Len(e) = Len(makeEntryHeader(type, n)) + n,
           \A k \in 1..Len(makeEntryHeader(type, n)) : e[k] = makeEntryHeader(type, n)[k]
    PROVE  EndFound(e)
<1> DEFINE head == makeEntryHeader(type, n)
<1>1. PICK width \in {3, 7} :
        /\ head \in Seq(Nat) /\ Len(head) = width + 1
        /\ HeaderLength(isLarge(head[1])) = width + 1
        /\ \A k \in 1..width : head[k + 1] = serialize(n, width)[k]
        /\ n < Place[width]
  BY MadeHeader
<1> DEFINE d == serialize(n, width)
<1>2. d \in Seq(Nat) /\ Len(d) = width
  BY DigitsOfLength, Zenon
<1>3. deserialize(d) = n
  <2>1. width \in 0..8
    OBVIOUS
  <2>2. Place[width] \in Nat \ {0} /\ deserialize(d) = n % Place[width]
    BY <2>1, PlaceType, DigitsKeepNumber, Zenon
  <2>. QED
    BY <1>1, <2>2, SmallRemainder, Zenon
<1>4. Len(e) = width + 1 + n /\ \A k \in 1..width + 1 : e[k] = head[k]
  BY <1>1
<1> HIDE DEF head, d
<1>5. HeaderLength(isLarge(getDataType(e))) = width + 1
  <2>1. getDataType(e) = e[1]
    BY DEF getDataType, Cell
  <2>2. 1 \in 1..width + 1
    OBVIOUS
  <2>. QED
    BY <1>1, <1>4, <2>1, <2>2
<1>6. SubSeq(e, 2, width + 1) = d
  <2> DEFINE p == SubSeq(e, 2, width + 1)
  <2>1. /\ p \in Seq(Nat) /\ Len(p) = width
        /\ \A k \in 1..width : p[k] = e[k + 1]
    <3>1. width + 1 <= Len(e) /\ \A k \in 1..width + 1 : e[k] \in Nat
      <4>1. \A k \in 1..Len(e) : e[k] \in Nat
        BY ElementOfSeq, Zenon
      <4>2. width + 1 <= Len(e) /\ \A k \in 1..width + 1 : k \in 1..Len(e)
        BY <1>4
      <4>. QED
        BY <4>1, <4>2, Zenon
    <3>2. CASE width = 3
      <4>1. \A k \in 1..4 : e[k] \in Nat
        BY <3>1, <3>2, SMTT(30)
      <4>2. SubSeq(e, 2, 4) \in Seq(Nat) /\ Len(SubSeq(e, 2, 4)) = 3
            /\ \A k \in 1..3 : SubSeq(e, 2, 4)[k] = e[k + 1]
        BY <4>1
      <4>. QED
        BY <3>2, <4>2
    <3>3. CASE width = 7
      <4>1. \A k \in 1..8 : e[k] \in Nat
        <5>1. width + 1 = 8
          BY <3>3
        <5>. QED
          BY <3>1, <5>1, Zenon
      <4>2. SubSeq(e, 2, 8) \in Seq(Nat) /\ Len(SubSeq(e, 2, 8)) = 7
            /\ \A k \in 1..7 : SubSeq(e, 2, 8)[k] = e[k + 1]
        BY <4>1
      <4>. QED
        BY <3>3, <4>2
    <3>. QED
      BY <3>2, <3>3
  <2> HIDE DEF p
  <2>2. ASSUME NEW k \in 1..width
        PROVE  p[k] = d[k]
    <3>1. k + 1 \in 1..width + 1
      OBVIOUS
    <3>2. p[k] = e[k + 1] /\ e[k + 1] = head[k + 1]
      BY <1>4, <2>1, <3>1
    <3>3. head[k + 1] = d[k]
      BY <1>1, Zenon DEF d
    <3>. QED
      BY <3>2, <3>3
  <2>3. p = d
    BY <1>2, <2>1, <2>2, SeqEqual, Zenon
  <2>. QED
    BY <2>3 DEF p
<1>7. LengthAt(e, 0, width) = n
  <2>1. 0 + 1 + 1 = 2 /\ 0 + 1 + width = width + 1
    OBVIOUS
  <2>2. Cells(e, 0 + 1, width) = SubSeq(e, 2, width + 1)
    BY <2>1, Zenon DEF Cells
  <2>. QED
    BY <1>3, <1>6, <2>2, Zenon DEF LengthAt
<1>8. (width + 1) - 1 = width
  OBVIOUS
<1>. QED
  BY <1>4, <1>5, <1>7, <1>8, Zenon DEF EndFound

-----------------------------------------------------------------------------
(* The entries of a packet. *)

LEMMA AlignedType ==
    ASSUME NEW n \in Nat
    PROVE  Aligned(n) \in Nat /\ n <= Aligned(n) /\ Aligned(n) - n \in Nat
BY DEF Aligned

\* A header, a content and what fills it up.
LEMMA ThreeParts ==
    ASSUME NEW a \in Seq(Nat), NEW b \in Seq(Nat), NEW c \in Seq(Nat)
    PROVE  LET t == a \o b \o c
           IN  /\ t \in Seq(Nat) /\ Len(t) = Len(a) + Len(b) + Len(c)
               /\ \A k \in 1..Len(a) : t[k] = a[k]
               /\ \A k \in 1..Len(b) : t[Len(a) + k] = b[k]
<1> DEFINE q == a \o b
           t == q \o c
<1>0. Len(a) \in Nat /\ Len(b) \in Nat /\ Len(c) \in Nat
  BY LenProperties, Zenon
<1>1. /\ q \in Seq(Nat) /\ Len(q) = Len(a) + Len(b)
      /\ \A k \in 1..Len(a) + Len(b) :
           q[k] = IF k <= Len(a) THEN a[k] ELSE b[k - Len(a)]
  BY ConcatProperties, Zenon
<1> HIDE DEF q
<1>2. /\ t \in Seq(Nat) /\ Len(t) = Len(q) + Len(c)
      /\ \A k \in 1..Len(q) + Len(c) :
           t[k] = IF k <= Len(q) THEN q[k] ELSE c[k - Len(q)]
  <2>1. q \in Seq(Nat)
    BY <1>1
  <2>. QED
    BY <2>1, ConcatProperties, Zenon
<1> HIDE DEF t
<1>2a. Len(q) = Len(a) + Len(b) /\ Len(t) = Len(q) + Len(c)
  BY <1>1, <1>2
<1>3. ASSUME NEW k \in 1..Len(a)
      PROVE  t[k] = a[k]
  <2>1. k \in 1..Len(a) + Len(b) /\ k \in 1..Len(q) + Len(c) /\ k <= Len(a) /\ k <= Len(q)
    BY <1>0, <1>2a
  <2>2. t[k] = q[k] /\ q[k] = a[k]
    BY <1>1, <1>2, <2>1
  <2>. QED
    BY <2>2
<1>4. ASSUME NEW k \in 1..Len(b)
      PROVE  t[Len(a) + k] = b[k]
  <2> DEFINE i == Len(a) + k
  <2>1. /\ i \in 1..Len(a) + Len(b) /\ i \in 1..Len(q) + Len(c)
        /\ ~(i <= Len(a)) /\ i <= Len(q) /\ i - Len(a) = k
    BY <1>0, <1>2a
  <2> HIDE DEF i
  <2>2. t[i] = q[i] /\ q[i] = b[i - Len(a)]
    BY <1>1, <1>2, <2>1
  <2>. QED
    BY <2>1, <2>2 DEF i
<1>5. Len(t) = Len(a) + Len(b) + Len(c)
  BY <1>0, <1>2a
<1>. QED
  BY <1>2, <1>3, <1>4, <1>5 DEF t, q

\* rpacket_entry_0103.cpp, the constructor from a string.
LEMMA StringEntry ==
    ASSUME NEW s \in Seq(Nat), Aligned(Len(s) + 1) < Place[7]
    PROVE  LET e == RPacketEntry_0103_str(s)
           IN  e \in Seq(Nat) /\ EndFound(e)
<1> DEFINE n == Len(s) + 1
           a == Aligned(n)
           head == makeEntryHeader(DT_STRING, a)
           c == Chars(s)
           p == Padding(n, 1)
           e == RPacketEntry_0103_str(s)
<1>1. n \in Nat /\ a \in Nat /\ n <= a /\ a - n \in Nat
  BY AlignedType
<1>2. c \in Seq(Nat) /\ Len(c) = n
  BY DEF Chars
<1>3. p \in Seq(Nat) /\ Len(p) = a - n
  <2> DEFINE m == a - n
  <2>1. p = [k \in 1..m |-> 1]
    BY DEF Padding
  <2> HIDE DEF m
  <2>2. [k \in 1..m |-> 1] \in Seq(Nat) /\ Len([k \in 1..m |-> 1]) = m
    BY <1>1 DEF m
  <2>. QED
    BY <2>1, <2>2, Zenon DEF m
<1>4. head \in Seq(Nat) /\ DT_STRING \in {DT_STRING, DT_SEXP} /\ a < Place[7]
  BY <1>1, MadeHeader
<1>5. e = head \o c \o p
  BY DEF RPacketEntry_0103_str
<1> HIDE DEF n, a, head, c, p, e
<1>6. Len(head) \in Nat
  BY <1>4, LenProperties, Zenon
<1>7. /\ e \in Seq(Nat) /\ Len(e) = Len(head) + Len(c) + Len(p)
      /\ \A k \in 1..Len(head) : e[k] = head[k]
  <2> DEFINE t == head \o c \o p
  <2>1. head \in Seq(Nat) /\ c \in Seq(Nat) /\ p \in Seq(Nat)
    BY <1>2, <1>3, <1>4
  <2>2. /\ t \in Seq(Nat) /\ Len(t) = Len(head) + Len(c) + Len(p)
        /\ \A k \in 1..Len(head) : t[k] = head[k]
    BY <2>1, ThreeParts, ZenonT(40)
  <2> HIDE DEF t
  <2>3. e = t
    BY <1>5 DEF t
  <2>. QED
    BY <2>2, <2>3, Zenon
<1>8. /\ e \in Seq(Nat) /\ Len(e) = Len(head) + a
      /\ \A k \in 1..Len(head) : e[k] = head[k]
  BY <1>1, <1>2, <1>3, <1>6, <1>7
<1>9. EndFound(e)
  BY <1>1, <1>4, <1>8, EntryEndFound DEF head
<1>. QED
  BY <1>8, <1>9 DEF e

\* rpacket_entry_0103.cpp, the constructor from an object: nothing that is
\* written later reaches into the entry's header.
LEMMA ObjectEntry ==
    ASSUME NEW x \in Inputs, x \in Buildable
    PROVE  LET e == Filled(Unfilled(x), x).entry
           IN  e \in Seq(Nat) /\ EndFound(e)
<1> DEFINE n == AttributedLength(x) + HeaderLength(x.large)
           head == makeEntryHeader(DT_SEXP, n)
           room == [k \in 1..n |-> 0]
           st == Unfilled(x)
           e == Filled(st, x).entry
<1>1. n \in Nat /\ n < Place[7] /\ Place[7] \in Nat
  <2>1. AttributedLength(x) \in Nat /\ AttributedLength(x) + 8 < Place[7]
    BY InputsAssumption
  <2>2. HeaderLength(x.large) \in {4, 8} /\ Place[7] \in Nat
    BY PlaceType DEF HeaderLength
  <2>. QED
    BY <2>1, <2>2
<1>2. st = [entry |-> head \o room, i |-> Len(head), status |-> "ok"]
  BY DEF Unfilled
<1>3. /\ e \in Seq(Nat) /\ Len(e) = Len(st.entry)
      /\ \A k \in 1..st.i : e[k] = st.entry[k]
  BY FilledAssumption
<1> HIDE DEF n, st, e
<1>4. head \in Seq(Nat) /\ DT_SEXP \in {DT_STRING, DT_SEXP}
  BY <1>1, MadeHeader
<1>5. room \in Seq(Nat) /\ Len(room) = n
  BY <1>1
<1> HIDE DEF head, room
<1>6. Len(head) \in Nat
  BY <1>4, LenProperties, Zenon
<1>7. /\ Len(head \o room) = Len(head) + n
      /\ \A k \in 1..Len(head) : (head \o room)[k] = head[k]
  <2>1. /\ Len(head \o room) = Len(head) + Len(room)
        /\ \A k \in 1..Len(head) + Len(room) :
             (head \o room)[k] = IF k <= Len(head) THEN head[k] ELSE room[k - Len(head)]
    BY <1>4, <1>5, ConcatProperties, Zenon
  <2>. QED
    BY <1>1, <1>5, <1>6, <2>1
<1>8. st.entry = head \o room /\ st.i = Len(head)
  BY <1>2
<1>9. Len(e) = Len(head) + n /\ \A k \in 1..Len(head) : e[k] = head[k]
  BY <1>3, <1>7, <1>8, Zenon
<1>10. EndFound(e)
  BY <1>1, <1>3, <1>4, <1>9, EntryEndFound DEF head
<1>. QED
  BY <1>3, <1>10 DEF e, st

-----------------------------------------------------------------------------
(* The packet. *)

\* What is sent of two entries fits in the length of a packet, and a command
\* in its word.
LEMMA PacketFits ==
    /\ Place[4] \in Nat /\ Place[8] \in Nat
    /\ Place[4] + Place[4] < Place[8]
    /\ CMD_eval \in Nat /\ CMD_eval < Place[4]
    /\ CMD_setSEXP \in Nat /\ CMD_setSEXP < Place[4]
    /\ 4 < Place[7]
<1>1. /\ Place[0] = 1 /\ Place[1] = Base * Place[0] /\ Place[2] = Base * Place[1]
      /\ Place[3] = Base * Place[2] /\ Place[4] = Base * Place[3]
      /\ Place[5] = Base * Place[4] /\ Place[6] = Base * Place[5]
      /\ Place[7] = Base * Place[6] /\ Place[8] = Base * Place[7]
      /\ \A k \in 0..8 : Place[k] \in Nat
  BY PlaceType, SMT
<1>2. \A P \in Nat : Base * P >= 4 * P /\ Base * P \in Nat
  BY BaseAssumption, BytesAssumption, Z3T(30)
<1>3. /\ Place[1] \in Nat /\ Place[2] \in Nat /\ Place[3] \in Nat /\ Place[4] \in Nat
      /\ Place[5] \in Nat /\ Place[6] \in Nat /\ Place[7] \in Nat /\ Place[8] \in Nat
  BY <1>1
<1>4. /\ Place[1] >= 4 /\ Place[2] >= 4 * Place[1] /\ Place[3] >= 4 * Place[2]
      /\ Place[4] >= 4 * Place[3] /\ Place[5] >= 4 * Place[4] /\ Place[6] >= 4 * Place[5]
      /\ Place[7] >= 4 * Place[6] /\ Place[8] >= 4 * Place[7]
  <2>1. Place[1] >= 4 * Place[0]
    BY <1>1, <1>2
  <2>. QED
    BY <1>1, <1>2, <1>3, <2>1
<1>. QED
  BY <1>3, <1>4 DEF CMD_eval, CMD_setSEXP

\* What is sent of an entry is as long as it says.
LEMMA SentLength ==
    ASSUME NEW e \in Seq(Nat)
    PROVE  /\ Sent(e) \in Seq(Nat) /\ Len(Sent(e)) = entry_getLength(e)
           /\ entry_getLength(e) \in Nat /\ entry_getLength(e) < Place[4]
           /\ Len(e) < Place[4] => Sent(e) = e
<1> DEFINE n == entry_getLength(e)
           t == SubSeq(e, 1, n)
<1>1. /\ n \in Nat /\ n < Place[4] /\ n <= Len(e)
      /\ Len(e) < Place[4] => n = Len(e)
  <2>1. 4 \in 0..8 /\ WordBytes = 4
    BY DEF WordBytes
  <2>2. Place[4] \in Nat \ {0} /\ Len(e) \in Nat
    BY <2>1, PlaceType, LenProperties, Zenon
  <2>3. n = Len(e) % Place[4]
    BY <2>1, Zenon DEF entry_getLength
  <2> HIDE DEF n
  <2>4. Len(e) < Place[4] => n = Len(e)
    BY <2>2, <2>3, SmallRemainder, Zenon
  <2>5. n \in Nat /\ n < Place[4]
    BY <2>2, <2>3, SMTT(30)
  <2>6. Len(e) >= Place[4] => n <= Len(e)
    BY <2>2, <2>5
  <2>. QED
    BY <2>2, <2>4, <2>5, <2>6
<1> HIDE DEF n
<1>2. \A k \in 1..n : k \in 1..Len(e) /\ e[k] \in Nat
  <2>1. \A k \in 1..n : k \in 1..Len(e)
    BY <1>1
  <2>. QED
    BY <2>1, ElementOfSeq, Zenon
<1>3. /\ t \in Seq(Nat) /\ Len(t) = n
      /\ \A k \in 1..n : t[k] = e[k]
  <2>1. \A k \in 1..n : e[k] \in Nat
    BY <1>2
  <2>2. /\ t \in Seq(Nat) /\ Len(t) = (IF 1 <= n THEN n - 1 + 1 ELSE 0)
        /\ \A k \in 1..n - 1 + 1 : t[k] = e[1 + k - 1]
    BY <1>1, <2>1, SubSeqProperties
  <2> HIDE DEF t
  <2>. QED
    BY <1>1, <2>2
<1> HIDE DEF t
<1>4. Len(e) < Place[4] => t = e
  <2>1. ASSUME Len(e) < Place[4]
        PROVE  t = e
    <3>1. Len(t) = Len(e) /\ \A k \in 1..Len(t) : t[k] = e[k]
      BY <1>1, <1>3, <2>1
    <3>. QED
      BY <1>3, <3>1, SeqEqual
  <2>. QED
    BY <2>1
<1>. QED
  BY <1>1, <1>3, <1>4 DEF Sent, n, t

PacketFound(cmd, entries, bytes) ==
    LET h == QAP1HeaderOf(HeaderBytes(RPacketHeader(cmd, entries)))
    IN  /\ getCommand(h) = cmd
        /\ getOffset(h) = 0
        /\ getLength(h) = Len(FlattenSeq(bytes))

\* rpacket.cpp: the packet of one entry, or of two.
LEMMA OneEntryFound ==
    ASSUME ~BigEndian, NEW cmd \in Nat, cmd < Place[4], NEW a \in Seq(Nat)
    PROVE  PacketFound(cmd, <<a>>, <<Sent(a)>>)
<1> DEFINE n == entry_getLength(a)
<1>1. n \in Nat /\ n < Place[8]
  BY SentLength, PacketFits
<1>2. RPacketHeader(cmd, <<a>>) = PacketHeader(cmd, n)
  BY <1>1, Summed, Zenon DEF RPacketHeader
<1>3. Len(FlattenSeq(<<Sent(a)>>)) = n
  BY SentLength, Flattened, Zenon
<1> HIDE DEF n
<1>4. LET h == QAP1HeaderOf(HeaderBytes(PacketHeader(cmd, n)))
      IN  /\ getCommand(h) = cmd
          /\ getOffset(h) = 0
          /\ getLength(h) = n
  BY <1>1, PacketLengthFound
<1>. QED
  BY <1>2, <1>3, <1>4, Zenon DEF PacketFound

LEMMA TwoEntriesFound ==
    ASSUME ~BigEndian, NEW cmd \in Nat, cmd < Place[4],
           NEW a \in Seq(Nat), NEW b \in Seq(Nat)
    PROVE  PacketFound(cmd, <<a, b>>, <<Sent(a), Sent(b)>>)
<1> DEFINE n == entry_getLength(a) + entry_getLength(b)
<1>1. /\ entry_getLength(a) \in Nat /\ entry_getLength(b) \in Nat
      /\ n \in Nat /\ n < Place[8]
  <2>1. /\ entry_getLength(a) \in Nat /\ entry_getLength(a) < Place[4]
        /\ entry_getLength(b) \in Nat /\ entry_getLength(b) < Place[4]
    BY SentLength
  <2>. QED
    BY <2>1, PacketFits, SMTT(30)
<1>2. RPacketHeader(cmd, <<a, b>>) = PacketHeader(cmd, n)
  BY <1>1, Summed, Zenon DEF RPacketHeader
<1>3. Len(FlattenSeq(<<Sent(a), Sent(b)>>)) = n
  <2>1. Sent(a) \in Seq(Nat) /\ Sent(b) \in Seq(Nat)
    BY SentLength
  <2>2. Len(Sent(a) \o Sent(b)) = Len(Sent(a)) + Len(Sent(b))
    BY <2>1, ConcatProperties, Zenon
  <2>. QED
    BY <2>2, SentLength, Flattened, Zenon
<1> HIDE DEF n
<1>4. LET h == QAP1HeaderOf(HeaderBytes(PacketHeader(cmd, n)))
      IN  /\ getCommand(h) = cmd
          /\ getOffset(h) = 0
          /\ getLength(h) = n
  BY <1>1, PacketLengthFound
<1>. QED
  BY <1>2, <1>3, <1>4, Zenon DEF PacketFound

-----------------------------------------------------------------------------
(* The exchange. *)

SentEntries(entries) == [k \in DOMAIN entries |-> Sent(entries[k])]

\* The packet that a step submits is found whole, and so are its entries.
Found(cmd, entries) ==
    /\ PacketFound(cmd, entries, SentEntries(entries))
    /\ \A k \in DOMAIN entries : entries[k] \in Seq(Nat) /\ EndFound(entries[k])

LEMMA SubmittedFound ==
    ASSUME NEW cmd, NEW entries, Submitted(cmd, entries), Found(cmd, entries)
    PROVE  LengthsLeadToEnd'
<1>1. /\ request'.cmd = cmd /\ request'.entries = entries
      /\ header' = HeaderBytes(RPacketHeader(cmd, entries))
      /\ sent' = SentEntries(entries)
  BY DEF Submitted, SentEntries
<1>2. ASSUME NEW k \in DOMAIN entries, Len(entries[k]) < Place[WordBytes]
      PROVE  EndFound(sent'[k])
  <2>1. sent'[k] = Sent(entries[k]) /\ WordBytes = 4
    BY <1>1 DEF SentEntries, WordBytes
  <2>2. entries[k] \in Seq(Nat) /\ EndFound(entries[k])
    BY DEF Found
  <2>3. Sent(entries[k]) = entries[k]
    BY <1>2, <2>1, <2>2, SentLength
  <2>. QED
    BY <2>1, <2>2, <2>3
<1>. QED
  BY <1>1, <1>2, Zenon DEF LengthsLeadToEnd, Found, PacketFound, EndFound

ExchangeInv == exp \in Inputs /\ LengthsLeadToEnd

LEMMA EncodeFound ==
    ASSUME ~BigEndian, exp \in Inputs, Encode
    PROVE  LengthsLeadToEnd'
<1> DEFINE a == RPacketEntry_0103_str(<<2>>)
           b == Filled(Unfilled(exp), exp).entry
<1>1. exp \in Buildable /\ Submitted(CMD_setSEXP, <<a, b>>)
  BY Zenon DEF Encode
<1>2. a \in Seq(Nat) /\ EndFound(a)
  <2>1. <<2>> \in Seq(Nat) /\ Aligned(Len(<<2>>) + 1) = 4
    BY DEF Aligned
  <2>. QED
    BY <2>1, PacketFits, StringEntry
<1>3. b \in Seq(Nat) /\ EndFound(b)
  BY <1>1, ObjectEntry
<1> HIDE DEF a, b
<1>4. /\ DOMAIN <<a, b>> = 1..2 /\ \A k \in 1..2 : k = 1 \/ k = 2
      /\ <<a, b>>[1] = a /\ <<a, b>>[2] = b
  OBVIOUS
<1>5. SentEntries(<<a, b>>) = <<Sent(a), Sent(b)>>
  BY <1>4 DEF SentEntries
<1>6. PacketFound(CMD_setSEXP, <<a, b>>, <<Sent(a), Sent(b)>>)
  BY <1>2, <1>3, PacketFits, TwoEntriesFound
<1>7. Found(CMD_setSEXP, <<a, b>>)
  BY <1>2, <1>3, <1>4, <1>5, <1>6, Zenon DEF Found
<1>. QED
  BY <1>1, <1>7, SubmittedFound

LEMMA EncodeStringFound ==
    ASSUME ~BigEndian, exp \in Inputs, EncodeString
    PROVE  LengthsLeadToEnd'
<1> DEFINE s == exp.vals[1]
           a == RPacketEntry_0103_str(s)
<1>1. /\ exp.t = XT_ARRAY_STR /\ Len(exp.vals) = 1
      /\ Submitted(CMD_eval, <<a>>)
  <2>1. entry' = a
    BY Zenon DEF EncodeString
  <2>2. Submitted(CMD_eval, <<entry'>>)
    BY Zenon DEF EncodeString
  <2>3. exp.t = XT_ARRAY_STR /\ Len(exp.vals) = 1
    BY Zenon DEF EncodeString
  <2>. QED
    BY <2>1, <2>2, <2>3, Zenon
<1>2. s \in Seq(Nat) /\ Aligned(Len(s) + 1) < Place[7]
  BY <1>1, InputsAssumption, Zenon
<1> HIDE DEF s
<1>3. a \in Seq(Nat) /\ EndFound(a)
  BY <1>2, StringEntry
<1> HIDE DEF a
<1>4. DOMAIN <<a>> = 1..1 /\ (\A k \in 1..1 : k = 1) /\ <<a>>[1] = a
  OBVIOUS
<1>5. SentEntries(<<a>>) = <<Sent(a)>>
  BY <1>4 DEF SentEntries
<1>6. PacketFound(CMD_eval, <<a>>, <<Sent(a)>>)
  BY <1>3, PacketFits, OneEntryFound
<1>7. Found(CMD_eval, <<a>>)
  BY <1>3, <1>4, <1>5, <1>6, Zenon DEF Found
<1>. QED
  BY <1>1, <1>7, SubmittedFound

\* On a little-endian host the length that is split over two words of a
\* packet's header leads to the end of what is sent, even where getLength cuts
\* an entry short, and the length of each entry that it does not cut to the
\* entry's end.
THEOREM LengthsFound ==
    ASSUME ~BigEndian
    PROVE  Spec => []LengthsLeadToEnd
<1>1. Init => ExchangeInv
  <2>1. Init => phase = "made"
    BY DEF Init
  <2>. QED
    BY <2>1 DEF Init, ExchangeInv, LengthsLeadToEnd
<1>2. ExchangeInv /\ [Next]_vars => ExchangeInv'
  <2> SUFFICES ASSUME ExchangeInv, [Next]_vars
               PROVE  ExchangeInv'
    OBVIOUS
  <2>1. exp' \in Inputs
    BY Zenon DEF ExchangeInv, Next, vars, Encode, EncodeString, Receive, Parse, AskString
  <2>2. LengthsLeadToEnd'
    <3>1. CASE Encode
      BY <3>1, EncodeFound DEF ExchangeInv
    <3>2. CASE EncodeString
      BY <3>2, EncodeStringFound DEF ExchangeInv
    <3>3. CASE Receive
      <4>1. phase' = "received"
        BY <3>3 DEF Receive
      <4>. QED
        BY <4>1 DEF LengthsLeadToEnd
    <3>4. CASE Parse
      <4>1. phase' = "parsed"
        BY <3>4 DEF Parse
      <4>. QED
        BY <4>1 DEF LengthsLeadToEnd
    <3>5. CASE AskString
      <4>1. phase' = "asked"
        BY <3>5 DEF AskString
      <4>. QED
        BY <4>1 DEF LengthsLeadToEnd
    <3>6. CASE UNCHANGED vars
      <4>1. phase' = phase /\ header' = header /\ request' = request /\ sent' = sent
        BY <3>6 DEF vars
      <4>. QED
        BY <4>1, Zenon DEF ExchangeInv, LengthsLeadToEnd
    <3>. QED
      BY <3>1, <3>2, <3>3, <3>4, <3>5, <3>6 DEF Next
  <2>. QED
    BY <2>1, <2>2 DEF ExchangeInv
<1>3. ExchangeInv => LengthsLeadToEnd
  BY DEF ExchangeInv
<1>. QED
  BY <1>1, <1>2, <1>3, PTL DEF Spec
-----------------------------------------------------------------------------
(* The numbers of an array. *)

\* The function behind FlattenSeq.
IsFlat(g, s, n) ==
    g = [i \in 1..n |-> IF i = 1 THEN s[i] ELSE g[i - 1] \o s[i]]

LEMMA FlatExists ==
    ASSUME NEW s, NEW n \in Nat
    PROVE  \E g : IsFlat(g, s, n)
<1> DEFINE S == {k \in Nat : \E g : IsFlat(g, s, k)}
<1>1. 0 \in S
  <2>1. IsFlat([i \in 1..0 |-> s[i]], s, 0)
    BY DEF IsFlat
  <2>. QED
    BY <2>1
<1>2. ASSUME NEW m \in Nat, m \in S
      PROVE  m + 1 \in S
  <2>1. PICK g : IsFlat(g, s, m)
    BY <1>2
  <2> DEFINE last == IF m = 0 THEN s[1] ELSE g[m] \o s[m + 1]
             h == [i \in 1..m + 1 |-> IF i = m + 1 THEN last ELSE g[i]]
  <2>2. \A i \in 1..m : g[i] = IF i = 1 THEN s[i] ELSE g[i - 1] \o s[i]
    BY <2>1 DEF IsFlat
  <2>3. ASSUME NEW i \in 1..m + 1
        PROVE  h[i] = IF i = 1 THEN s[i] ELSE h[i - 1] \o s[i]
    <3>1. CASE i = m + 1 /\ m = 0
      BY <3>1
    <3>2. CASE i = m + 1 /\ m # 0
      <4>1. i # 1 /\ i - 1 = m /\ i - 1 \in 1..m + 1 /\ i - 1 # m + 1
        BY <3>2
      <4>. QED
        BY <3>2, <4>1
    <3>3. CASE i # m + 1
      <4>1. i \in 1..m
        BY <3>3
      <4>2. h[i] = g[i] /\ (i # 1 => h[i - 1] = g[i - 1])
        BY <4>1
      <4>. QED
        BY <2>2, <4>1, <4>2
    <3>. QED
      BY <3>1, <3>2, <3>3
  <2>4. IsFlat(h, s, m + 1)
    <3> HIDE DEF last
    <3>. QED
      BY <2>3 DEF IsFlat
  <2>. QED
    BY <2>4
<1>3. \A k \in 0..n : k \in S
  <2> HIDE DEF S
  <2>. QED
    BY <1>1, <1>2, UpTo
<1>. QED
  BY <1>3

\* Words of four bytes, or of eight, one after the other: each is where the
\* words before it end.
IsJoin(t, s, w, m, D) ==
    /\ t \in Seq(D)
    /\ Len(t) = w * m
    /\ \A k \in 1..m : SubSeq(t, w * (k - 1) + 1, w * k) = s[k]

LEMMA JoinStep ==
    ASSUME NEW D, NEW w \in {4, 8}, NEW s, NEW m \in Nat, NEW t, IsJoin(t, s, w, m, D),
           s[m + 1] \in Seq(D), Len(s[m + 1]) = w
    PROVE  IsJoin(t \o s[m + 1], s, w, m + 1, D)
<1> DEFINE u == s[m + 1]
           at(k) == w * (k - 1) + 1
           to(k) == w * k
<1>1. t \in Seq(D) /\ u \in Seq(D) /\ Len(t) = w * m /\ Len(u) = w
  BY DEF IsJoin
<1> HIDE DEF u
<1>2. t \o u \in Seq(D) /\ Len(t \o u) = Len(t) + Len(u)
  BY <1>1, ConcatProperties, Zenon
<1>3. w * m + w = w * (m + 1) /\ w * m \in Nat
  OBVIOUS
<1>4. ASSUME NEW k \in 1..m
      PROVE  SubSeq(t \o u, at(k), to(k)) = s[k]
  <2>1. at(k) \in 1..Len(t) /\ to(k) \in 1..Len(t)
    <3>1. CASE w = 4
      BY <1>1, <3>1
    <3>2. CASE w = 8
      BY <1>1, <3>2
    <3>. QED
      BY <3>1, <3>2
  <2>2. SubSeq(t, at(k), to(k)) = s[k]
    BY Zenon DEF IsJoin
  <2> HIDE DEF at, to
  <2>. QED
    BY <1>1, <2>1, <2>2, SubSeqOfConcat1, Zenon
<1>5. SubSeq(t \o u, at(m + 1), to(m + 1)) = s[m + 1]
  <2> DEFINE a == at(m + 1)
             b == to(m + 1)
  <2>1. /\ a \in Len(t) + 1..Len(t) + Len(u) /\ b \in Len(t) + 1..Len(t) + Len(u)
        /\ a - Len(t) = 1 /\ b - Len(t) = Len(u)
    <3>1. CASE w = 4
      BY <1>1, <3>1
    <3>2. CASE w = 8
      BY <1>1, <3>2
    <3>. QED
      BY <3>1, <3>2
  <2> HIDE DEF a, b
  <2>2. SubSeq(t \o u, a, b) = SubSeq(u, a - Len(t), b - Len(t))
    <3>1. t \in Seq(D) /\ u \in Seq(D)
      BY <1>1
    <3>2. a \in Len(t) + 1..Len(t) + Len(u) /\ b \in Len(t) + 1..Len(t) + Len(u)
      BY <2>1
    <3>. QED
      BY <3>1, <3>2, SubSeqOfConcat2
  <2>3. SubSeq(u, 1, Len(u)) = u
    BY <1>1, SubSeqFull, Zenon
  <2>. QED
    BY <2>1, <2>2, <2>3, Zenon DEF a, b, u
<1>6. \A k \in 1..m + 1 : k \in 1..m \/ k = m + 1
  OBVIOUS
<1>7. \A k \in 1..m + 1 : SubSeq(t \o u, at(k), to(k)) = s[k]
  <2> HIDE DEF at, to
  <2>. QED
    BY <1>4, <1>5, <1>6, Zenon
<1>. QED
  BY <1>1, <1>2, <1>3, <1>7, Zenon DEF IsJoin, u

LEMMA Joined ==
    ASSUME NEW D, NEW w \in {4, 8}, NEW s \in Seq(Seq(D)),
           \A k \in 1..Len(s) : Len(s[k]) = w
    PROVE  IsJoin(FlattenSeq(s), s, w, Len(s), D)
<1> DEFINE n == Len(s)
           g == CHOOSE flatten :
                  flatten = [i \in 1..n |-> IF i = 1 THEN s[i] ELSE flatten[i - 1] \o s[i]]
<1>1. n \in Nat
  BY LenProperties, Zenon
<1>2. IsFlat(g, s, n)
  <2>1. \E f : IsFlat(f, s, n)
    BY <1>1, FlatExists
  <2> HIDE DEF n
  <2>. QED
    BY <2>1, Zenon DEF IsFlat
<1>3. FlattenSeq(s) = IF n = 0 THEN s ELSE g[n]
  BY Zenon DEF FlattenSeq
<1> HIDE DEF g
<1>4. \A k \in 1..n : s[k] \in Seq(D)
  BY ElementOfSeq, Zenon
<1>5. CASE n = 0
  <2>1. s = <<>>
    BY <1>5
  <2>2. s \in Seq(D) /\ Len(s) = 0
    BY <2>1, EmptySeq, Zenon
  <2>3. w * 0 = 0 /\ 1..0 = {}
    OBVIOUS
  <2>. QED
    BY <1>3, <1>5, <2>2, <2>3 DEF IsJoin
<1>6. CASE n # 0
  <2> HIDE DEF n
  <2> DEFINE S == {k \in Nat : k < n => IsJoin(g[k + 1], s, w, k + 1, D)}
  <2>0. \A i \in 1..n : g[i] = IF i = 1 THEN s[i] ELSE g[i - 1] \o s[i]
    BY <1>2 DEF IsFlat
  <2>1. 0 \in S
    <3>1. g[1] = s[1] /\ s[1] \in Seq(D) /\ Len(s[1]) = w
      BY <1>1, <1>4, <1>6, <2>0 DEF n
    <3>2. SubSeq(s[1], 1, w) = s[1]
      BY <3>1, SubSeqFull, Zenon
    <3>3. w * 1 = w /\ w * (1 - 1) + 1 = 1 /\ 0 + 1 = 1 /\ \A k \in 1..1 : k = 1
      OBVIOUS
    <3>4. IsJoin(g[1], s, w, 1, D)
      BY <3>1, <3>2, <3>3 DEF IsJoin
    <3>. QED
      BY <3>3, <3>4
  <2>2. ASSUME NEW k \in Nat, k < n - 1, k \in S
        PROVE  k + 1 \in S
    <3>1. /\ k + 1 \in Nat /\ k + 1 < n /\ k < n
          /\ (k + 1) + 1 \in 1..n /\ (k + 1) + 1 # 1 /\ ((k + 1) + 1) - 1 = k + 1
      BY <1>1, <2>2
    <3>2. IsJoin(g[k + 1], s, w, k + 1, D)
      BY <2>2, <3>1
    <3>3. g[(k + 1) + 1] = g[k + 1] \o s[(k + 1) + 1]
      BY <2>0, <3>1
    <3>4. s[(k + 1) + 1] \in Seq(D) /\ Len(s[(k + 1) + 1]) = w
      BY <1>4, <3>1 DEF n
    <3>5. IsJoin(g[k + 1] \o s[(k + 1) + 1], s, w, (k + 1) + 1, D)
      BY <3>1, <3>2, <3>4, JoinStep, Zenon
    <3>. QED
      BY <3>1, <3>3, <3>5
  <2>3. n - 1 \in Nat /\ n - 1 \in 0..n - 1 /\ n - 1 < n /\ (n - 1) + 1 = n
    BY <1>1, <1>6
  <2>4. n - 1 \in S
    <3> HIDE DEF S
    <3>1. \A k \in 0..n - 1 : k \in S
      BY <2>1, <2>2, <2>3, UpTo
    <3>. QED
      BY <2>3, <3>1
  <2>5. IsJoin(g[n], s, w, n, D)
    BY <2>3, <2>4
  <2>. QED
    BY <1>3, <1>6, <2>5 DEF n
<1>. QED
  BY <1>5, <1>6
\* Words are found again behind whatever precedes them, and as many as there
\* were.
LEMMA WordsBehind ==
    ASSUME NEW head \in Seq(Nat), NEW w \in {4, 8}, NEW s \in Seq(Seq(Nat)),
           \A k \in 1..Len(s) : Len(s[k]) = w
    PROVE  LET data == FlattenSeq(s)
           IN  /\ data \in Seq(Nat) /\ Len(data) = w * Len(s)
               /\ (Len(data) + w - 1) \div w = Len(s)
               /\ \A k \in 1..Len(s) :
                    Cells(head \o data, Len(head) + w * (k - 1), w) = s[k]
<1> DEFINE data == FlattenSeq(s)
           n == Len(s)
<1>1. IsJoin(data, s, w, n, Nat)
  BY Joined, Zenon
<1>2. n \in Nat /\ Len(head) \in Nat
  BY LenProperties, Zenon
<1> HIDE DEF data, n
<1>3. data \in Seq(Nat) /\ Len(data) = w * n
  BY <1>1 DEF IsJoin
<1>4. (Len(data) + w - 1) \div w = n
  <2>1. CASE w = 4
    BY <1>2, <1>3, <2>1
  <2>2. CASE w = 8
    BY <1>2, <1>3, <2>2
  <2>. QED
    BY <2>1, <2>2
<1>5. ASSUME NEW k \in 1..n
      PROVE  Cells(head \o data, Len(head) + w * (k - 1), w) = s[k]
  <2> DEFINE from == w * (k - 1) + 1
             to == w * k
             a == (Len(head) + w * (k - 1)) + 1
             b == (Len(head) + w * (k - 1)) + w
  <2>1. /\ a \in Len(head) + 1..Len(head) + Len(data)
        /\ b \in Len(head) + 1..Len(head) + Len(data)
        /\ a - Len(head) = from /\ b - Len(head) = to
    <3>1. CASE w = 4
      BY <1>2, <1>3, <3>1
    <3>2. CASE w = 8
      BY <1>2, <1>3, <3>2
    <3>. QED
      BY <3>1, <3>2
  <2>2. SubSeq(data, from, to) = s[k]
    BY <1>1 DEF IsJoin
  <2>3. Cells(head \o data, Len(head) + w * (k - 1), w) = SubSeq(head \o data, a, b)
    BY DEF Cells
  <2> HIDE DEF a, b, from, to
  <2>4. SubSeq(head \o data, a, b) = SubSeq(data, a - Len(head), b - Len(head))
    <3>1. a \in Len(head) + 1..Len(head) + Len(data)
          /\ b \in Len(head) + 1..Len(head) + Len(data)
      BY <2>1
    <3>. QED
      BY <1>3, <3>1, SubSeqOfConcat2
  <2>. QED
    BY <2>1, <2>2, <2>3, <2>4
<1>. QED
  BY <1>3, <1>4, <1>5 DEF data, n

\* What getData's classes hold for numbers.
Valued(x, numbers) == x.vals = [k \in 1..Len(numbers) |-> <<numbers[k]>>]

\* What is written for numbers, and what is asked for.
LEMMA NumbersWritten ==
    ASSUME NEW x
    PROVE  /\ x.t = XT_ARRAY_INT =>
                /\ toNetworkData(x) =
                     FlattenSeq([k \in DOMAIN x.vals |-> serialize(x.vals[k][1], 4)])
                /\ NetworkDataLength(x) = 4 * Len(x.vals)
           /\ x.t = XT_ARRAY_DOUBLE =>
                /\ toNetworkData(x) =
                     FlattenSeq([k \in DOMAIN x.vals |-> Memory(swap_endian(x.vals[k][1]), 8)])
                /\ NetworkDataLength(x) = 8 * Len(x.vals)
<1> DEFINE ints == FlattenSeq([k \in DOMAIN x.vals |-> serialize(x.vals[k][1], 4)])
           doubles == FlattenSeq([k \in DOMAIN x.vals |-> Memory(swap_endian(x.vals[k][1]), 8)])
           chars == FlattenSeq([k \in DOMAIN x.vals |-> Chars(x.vals[k])])
           strings == chars \o Padding(Len(chars), 1)
           size == Sizes(x.vals, LAMBDA s : Len(s) + 1)
           aligned == Aligned(size)
<1>1. toNetworkData(x) = CASE x.t = XT_ARRAY_INT -> ints
                           [] x.t = XT_ARRAY_DOUBLE -> doubles
                           [] x.t = XT_ARRAY_STR -> strings
                           [] OTHER -> <<>>
  BY Zenon DEF toNetworkData
<1>2. NetworkDataLength(x) = IF x.t = XT_ARRAY_STR THEN size ELSE ArrayLength(x.t, x.vals)
  BY Zenon DEF NetworkDataLength
<1>3. ArrayLength(x.t, x.vals) = CASE x.t = XT_ARRAY_INT -> 4 * Len(x.vals)
                                   [] x.t = XT_ARRAY_DOUBLE -> 8 * Len(x.vals)
                                   [] x.t = XT_ARRAY_STR -> aligned
                                   [] OTHER -> 0
  BY Zenon DEF ArrayLength
<1> HIDE DEF ints, doubles, strings, size, aligned
<1>4. x.t = XT_ARRAY_INT => toNetworkData(x) = ints
  BY <1>1 DEF XT_ARRAY_INT, XT_ARRAY_DOUBLE, XT_ARRAY_STR
<1>5. x.t = XT_ARRAY_DOUBLE => toNetworkData(x) = doubles
  BY <1>1 DEF XT_ARRAY_INT, XT_ARRAY_DOUBLE, XT_ARRAY_STR
<1>6. /\ x.t = XT_ARRAY_INT => NetworkDataLength(x) = 4 * Len(x.vals)
      /\ x.t = XT_ARRAY_DOUBLE => NetworkDataLength(x) = 8 * Len(x.vals)
  BY <1>2, <1>3 DEF XT_ARRAY_INT, XT_ARRAY_DOUBLE, XT_ARRAY_STR
<1>. QED
  BY <1>4, <1>5, <1>6, Zenon DEF ints, doubles

\* An array of integers is found again in the bytes that are written for it,
\* behind any header and any attributes, and takes as many bytes as were asked
\* for.
THEOREM IntegersReadBack ==
    ASSUME NEW x, NEW numbers \in Seq(0..Place[4] - 1),
           x.t = XT_ARRAY_INT, Valued(x, numbers), NEW head \in Seq(Nat)
    PROVE  LET data == toNetworkData(x)
           IN  /\ Len(data) = NetworkDataLength(x)
               /\ parseNumbers(head \o data, Len(head), Len(data), 4, deserialize) = x.vals
<1> DEFINE n == Len(numbers)
           s == [k \in 1..n |-> serialize(numbers[k], 4)]
           data == toNetworkData(x)
<1>1. n \in Nat /\ DOMAIN x.vals = 1..n /\ Len(x.vals) = n
      /\ \A k \in 1..n : x.vals[k] = <<numbers[k]>> /\ x.vals[k][1] = numbers[k]
  BY DEF Valued
<1>2. \A k \in 1..n : numbers[k] \in Nat /\ numbers[k] < Place[4] /\ numbers[k] % Place[4] = numbers[k]
  <2>1. Place[4] \in Nat \ {0}
    BY PlaceType
  <2>2. \A k \in 1..n : numbers[k] \in 0..Place[4] - 1
    BY ElementOfSeq, Zenon
  <2>3. \A k \in 1..n : numbers[k] \in Nat /\ numbers[k] < Place[4]
    BY <2>1, <2>2
  <2>. QED
    BY <2>1, <2>3, SmallRemainder
<1> HIDE DEF n
<1>3. \A k \in 1..n : serialize(numbers[k], 4) \in Seq(Nat) /\ Len(serialize(numbers[k], 4)) = 4
  <2>1. 0..Base - 1 \subseteq Nat
    BY BaseAssumption
  <2>2. 4 \in 0..8
    OBVIOUS
  <2>3. \A k \in 1..n : numbers[k] \in Nat
    BY <1>2
  <2>. QED
    BY <2>1, <2>2, <2>3, SerializeType, SeqMonotonic, Zenon
<1>4. s \in Seq(Seq(Nat)) /\ Len(s) = n /\ \A k \in 1..Len(s) : Len(s[k]) = 4
  BY <1>1, <1>3
<1>5. data = FlattenSeq(s)
  <2>1. s = [k \in DOMAIN x.vals |-> serialize(x.vals[k][1], 4)]
    BY <1>1
  <2>. QED
    BY <2>1, NumbersWritten, Zenon
<1>6. NetworkDataLength(x) = 4 * n
  BY <1>1, NumbersWritten
<1> HIDE DEF s, data
<1>7. /\ Len(data) = 4 * n /\ (Len(data) + 4 - 1) \div 4 = n
      /\ \A k \in 1..n : Cells(head \o data, Len(head) + 4 * (k - 1), 4) = s[k]
  BY <1>4, <1>5, WordsBehind
<1>8. \A k \in 1..n : deserialize(s[k]) = numbers[k]
  <2>1. \A k \in 1..n : deserialize(serialize(numbers[k], 4)) = numbers[k] % Place[4]
    BY <1>2, DigitsKeepNumber
  <2>. QED
    BY <1>2, <2>1 DEF s
<1>9. parseNumbers(head \o data, Len(head), Len(data), 4, deserialize) = x.vals
  <2>1. \A k \in 1..n : <<deserialize(Cells(head \o data, Len(head) + 4 * (k - 1), 4))>> = x.vals[k]
    BY <1>1, <1>7, <1>8
  <2>2. x.vals = [k \in 1..n |-> x.vals[k]]
    BY <1>1 DEF Valued, n
  <2>. QED
    BY <1>7, <2>1, <2>2, Zenon DEF parseNumbers
<1>. QED
  BY <1>6, <1>7, <1>9 DEF data

\* And an array of doubles, whatever the order of the host's memory: both
\* directions exchange the bytes or none does.
THEOREM DoublesReadBack ==
    ASSUME NEW x, NEW numbers \in Seq(0..Place[8] - 1),
           x.t = XT_ARRAY_DOUBLE, Valued(x, numbers), NEW head \in Seq(Nat)
    PROVE  LET data == toNetworkData(x)
           IN  /\ Len(data) = NetworkDataLength(x)
               /\ parseNumbers(head \o data, Len(head), Len(data), 8, DoubleAt) = x.vals
<1> DEFINE n == Len(numbers)
           s == [k \in 1..n |-> serialize(numbers[k], 8)]
           data == toNetworkData(x)
<1>1. n \in Nat /\ DOMAIN x.vals = 1..n /\ Len(x.vals) = n
      /\ \A k \in 1..n : x.vals[k] = <<numbers[k]>> /\ x.vals[k][1] = numbers[k]
  BY DEF Valued
<1>2. \A k \in 1..n : numbers[k] \in Nat /\ numbers[k] < Place[8]
  <2>1. Place[8] \in Nat \ {0}
    BY PlaceType
  <2>2. \A k \in 1..n : numbers[k] \in 0..Place[8] - 1
    BY ElementOfSeq, Zenon
  <2>. QED
    BY <2>1, <2>2
<1> HIDE DEF n
<1>3. \A k \in 1..n : serialize(numbers[k], 8) \in Seq(Nat) /\ Len(serialize(numbers[k], 8)) = 8
  <2>1. 0..Base - 1 \subseteq Nat
    BY BaseAssumption
  <2>2. 8 \in 0..8
    OBVIOUS
  <2>3. \A k \in 1..n : numbers[k] \in Nat
    BY <1>2
  <2>. QED
    BY <2>1, <2>2, <2>3, SerializeType, SeqMonotonic, Zenon
<1>4. s \in Seq(Seq(Nat)) /\ Len(s) = n /\ \A k \in 1..Len(s) : Len(s[k]) = 8
  BY <1>1, <1>3
<1>5. data = FlattenSeq(s)
  <2>1. \A k \in 1..n : Memory(swap_endian(x.vals[k][1]), 8) = serialize(numbers[k], 8)
    BY <1>1, <1>2, DoublesLittleEndian
  <2>2. s = [k \in DOMAIN x.vals |-> Memory(swap_endian(x.vals[k][1]), 8)]
    BY <1>1, <2>1, Zenon
  <2>3. toNetworkData(x) = FlattenSeq([k \in DOMAIN x.vals |-> Memory(swap_endian(x.vals[k][1]), 8)])
    BY NumbersWritten, Zenon
  <2>. QED
    BY <2>2, <2>3, Zenon
<1>6. NetworkDataLength(x) = 8 * n
  BY <1>1, NumbersWritten
<1> HIDE DEF s, data
<1>7. /\ Len(data) = 8 * n /\ (Len(data) + 8 - 1) \div 8 = n
      /\ \A k \in 1..n : Cells(head \o data, Len(head) + 8 * (k - 1), 8) = s[k]
  BY <1>4, <1>5, WordsBehind
<1>8. \A k \in 1..n : DoubleAt(s[k]) = numbers[k]
  <2>1. \A k \in 1..n : swap_endian(FromMemory(serialize(numbers[k], 8))) = numbers[k]
    BY <1>2, DoublesLittleEndian
  <2>. QED
    BY <2>1 DEF s, DoubleAt
<1>9. parseNumbers(head \o data, Len(head), Len(data), 8, DoubleAt) = x.vals
  <2>1. \A k \in 1..n : <<DoubleAt(Cells(head \o data, Len(head) + 8 * (k - 1), 8))>> = x.vals[k]
    BY <1>1, <1>7, <1>8
  <2>2. x.vals = [k \in 1..n |-> x.vals[k]]
    BY <1>1 DEF Valued, n
  <2>. QED
    BY <1>7, <2>1, <2>2, Zenon DEF parseNumbers
<1>. QED
  BY <1>6, <1>7, <1>9 DEF data
-----------------------------------------------------------------------------
(* The string of a command. *)

\* The bytes of an entry from a string: a header, the characters, a 0.
LEMMA StringBytes ==
    ASSUME NEW s \in Seq(Nat), Aligned(Len(s) + 1) < Place[7]
    PROVE  LET e == RPacketEntry_0103_str(s)
               own == HeaderLength(isLarge(getDataType(e)))
           IN  /\ e \in Seq(Nat) /\ own \in Nat /\ own + Len(s) < Len(e)
               /\ \A k \in 1..Len(s) : e[own + k] = s[k]
               /\ e[own + Len(s) + 1] = 0
<1> DEFINE n == Len(s) + 1
           a == Aligned(n)
           head == makeEntryHeader(DT_STRING, a)
           c == Chars(s)
           p == Padding(n, 1)
           e == RPacketEntry_0103_str(s)
           own == HeaderLength(isLarge(getDataType(e)))
<1>1. n \in Nat /\ a \in Nat /\ n <= a /\ a - n \in Nat /\ Len(s) \in Nat
  <2>1. Len(s) \in Nat /\ n \in Nat
    BY LenProperties
  <2> HIDE DEF n
  <2>. QED
    BY <2>1, AlignedType
<1>2. /\ c \in Seq(Nat) /\ Len(c) = n
      /\ \A k \in 1..Len(s) : c[k] = s[k]
      /\ c[n] = 0
  BY DEF Chars
<1>3. p \in Seq(Nat) /\ Len(p) = a - n
  <2> DEFINE m == a - n
  <2>1. p = [k \in 1..m |-> 1]
    BY DEF Padding
  <2> HIDE DEF m
  <2>2. [k \in 1..m |-> 1] \in Seq(Nat) /\ Len([k \in 1..m |-> 1]) = m
    BY <1>1 DEF m
  <2>. QED
    BY <2>1, <2>2, Zenon DEF m
<1>4. /\ head \in Seq(Nat) /\ Len(head) \in {4, 8}
      /\ HeaderLength(isLarge(head[1])) = Len(head)
  <2>1. DT_STRING \in {DT_STRING, DT_SEXP} /\ a \in Nat /\ a < Place[7]
    BY <1>1
  <2> HIDE DEF a
  <2>2. PICK width \in {3, 7} :
          /\ head \in Seq(Nat) /\ Len(head) = width + 1
          /\ HeaderLength(isLarge(head[1])) = width + 1
    BY <2>1, MadeHeader
  <2> HIDE DEF head
  <2>. QED
    BY <2>2
<1>5. e = head \o c \o p
  BY DEF RPacketEntry_0103_str
<1>6. Len(s) + 1 = n /\ 1 \in 1..Len(head)
  BY <1>4
<1> HIDE DEF n, a, head, c, p, e
<1>7. /\ e \in Seq(Nat) /\ Len(e) = Len(head) + Len(c) + Len(p)
      /\ \A k \in 1..Len(head) : e[k] = head[k]
      /\ \A k \in 1..Len(c) : e[Len(head) + k] = c[k]
  <2>1. head \in Seq(Nat) /\ c \in Seq(Nat) /\ p \in Seq(Nat)
    BY <1>2, <1>3, <1>4
  <2>. QED
    <3> DEFINE t == head \o c \o p
    <3>1. /\ t \in Seq(Nat) /\ Len(t) = Len(head) + Len(c) + Len(p)
          /\ \A k \in 1..Len(head) : t[k] = head[k]
          /\ \A k \in 1..Len(c) : t[Len(head) + k] = c[k]
      BY <2>1, ThreeParts, ZenonT(40)
    <3> HIDE DEF t
    <3>2. e = t
      BY <1>5 DEF t
    <3>. QED
      BY <3>1, <3>2, Zenon
<1>8. own = Len(head)
  BY <1>4, <1>6, <1>7 DEF getDataType, Cell
<1> HIDE DEF own
<1>9. \A k \in 1..n : e[own + k] = c[k]
  BY <1>2, <1>7, <1>8
<1>10. own + Len(s) < Len(e) /\ own \in Nat
  BY <1>1, <1>2, <1>3, <1>4, <1>6, <1>7, <1>8, SMTT(30)
<1>11. \A k \in 1..Len(s) : e[own + k] = s[k]
  BY <1>1, <1>2, <1>6, <1>9, SMTT(30)
<1>12. e[own + Len(s) + 1] = 0
  <2>1. own + Len(s) + 1 = own + n /\ n \in 1..n
    BY <1>1, <1>6, <1>10
  <2>. QED
    BY <1>2, <1>9, <2>1
<1>. QED
  BY <1>7, <1>10, <1>11, <1>12 DEF e, own

\* A string without a 0 is read back from the entry that a command makes of
\* it: where response_stringAt does not return it, it is not the bytes that
\* are in the way, but its questions about the type and the byte behind them.
THEOREM StringReadBack ==
    ASSUME NEW s \in Seq(Nat \ {0}), Aligned(Len(s) + 1) < Place[7]
    PROVE  LET e == RPacketEntry_0103_str(s)
           IN  StringAt(e, HeaderLength(isLarge(getDataType(e)))) = s
<1> DEFINE e == RPacketEntry_0103_str(s)
           own == HeaderLength(isLarge(getDataType(e)))
           n == Len(s)
           zeros == {k \in own..(Len(e) - 1) : Cell(e, k) = 0}
           z == own + n
<1>0. s \in Seq(Nat) /\ n \in Nat
  <2>1. Nat \ {0} \subseteq Nat
    OBVIOUS
  <2>. QED
    BY <2>1, SeqMonotonic, LenProperties, Zenon
<1>1. /\ e \in Seq(Nat) /\ own \in Nat /\ own + n < Len(e)
      /\ \A k \in 1..n : e[own + k] = s[k]
      /\ e[own + n + 1] = 0
  BY <1>0, StringBytes, Zenon
<1>2. \A k \in 1..n : s[k] \in Nat \ {0}
  BY ElementOfSeq, Zenon
<1> HIDE DEF e, own, n
<1>3. Len(e) \in Nat
  BY <1>1, LenProperties, Zenon
<1>4. z \in zeros /\ z # Len(e)
  <2>1. z \in own..(Len(e) - 1) /\ z + 1 = own + n + 1 /\ z # Len(e)
    BY <1>0, <1>1, <1>3
  <2>. QED
    BY <1>1, <2>1 DEF Cell
<1>5. ASSUME NEW k \in zeros
      PROVE  z <= k
  <2>1. k \in own..(Len(e) - 1) /\ e[k + 1] = 0
    BY DEF Cell
  <2> DEFINE j == k + 1 - own
  <2>2. j \in Nat /\ j >= 1 /\ own + j = k + 1
    BY <1>1, <1>3, <2>1
  <2>3. ~(j \in 1..n)
    <3> HIDE DEF j
    <3>1. ASSUME j \in 1..n
          PROVE  FALSE
      BY <1>1, <1>2, <2>1, <2>2, <3>1
    <3>. QED
      BY <3>1
  <2>. QED
    BY <1>0, <1>1, <1>3, <2>1, <2>2, <2>3
<1>6. zeros \subseteq Int /\ z \in Int
  BY <1>0, <1>1, <1>3
<1>7. Terminator(e, own) = z
  <2> DEFINE least == CHOOSE k \in zeros : \A m \in zeros : k <= m
  <2>1. Terminator(e, own) = IF zeros = {} THEN Len(e) ELSE least
    BY DEF Terminator
  <2> HIDE DEF zeros, z
  <2>2. least \in zeros /\ \A m \in zeros : least <= m
    BY <1>4, <1>5
  <2>3. least = z
    <3> HIDE DEF least
    <3>. QED
      BY <1>4, <1>5, <1>6, <2>2
  <2>. QED
    BY <1>4, <2>1, <2>3
<1>8. StringAt(e, own) = SubSeq(e, own + 1, own + n)
  <2>1. z - own = n
    BY <1>0, <1>1
  <2> HIDE DEF z
  <2>. QED
    BY <1>4, <1>7, <2>1 DEF StringAt, Cells
<1>9. SubSeq(e, own + 1, own + n) = s
  <2> DEFINE t == SubSeq(e, own + 1, own + n)
  <2>1. own + 1 \in Int /\ own + n \in Int
    BY <1>0, <1>1
  <2>2. \A i \in own + 1..own + n : e[i] \in Nat
    <3>1. \A i \in own + 1..own + n : i \in 1..Len(e)
      BY <1>0, <1>1, <1>3
    <3>. QED
      BY <1>1, <3>1, ElementOfSeq
  <2>3. /\ t \in Seq(Nat) /\ Len(t) = (IF own + 1 <= own + n THEN (own + n) - (own + 1) + 1 ELSE 0)
        /\ \A i \in 1..(own + n) - (own + 1) + 1 : t[i] = e[(own + 1) + i - 1]
    BY <2>1, <2>2, SubSeqProperties
  <2> HIDE DEF t
  <2>4. Len(t) = n /\ (own + n) - (own + 1) + 1 = n
        /\ \A i \in 1..n : (own + 1) + i - 1 = own + i
    BY <1>0, <1>1, <2>3
  <2>5. \A i \in 1..Len(t) : t[i] = s[i]
    BY <1>1, <2>3, <2>4
  <2>6. Len(t) = Len(s)
    BY <2>4 DEF n
  <2>7. t = s
    BY <1>0, <2>3, <2>5, <2>6, SeqEqual
  <2>. QED
    BY <2>7 DEF t
<1>. QED
  BY <1>8, <1>9 DEF e, own
=============================================================================
