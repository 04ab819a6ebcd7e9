----------------------------- MODULE CodecProofs -----------------------------
(***************************************************************************)
(* Facts about the codec for every base, every number and every string:    *)
(* what the digits of an integer are worth, and where the lengths that are *)
(* made of them lead.                                                      *)
(***************************************************************************)
EXTENDS QAP1Header, REXP, SequenceTheorems, WellFoundedInduction, TLAPS

-----------------------------------------------------------------------------
(* Natural numbers: a least element, and induction over a set in place of a *)
(* predicate.                                                               *)

Less == {ss \in Nat \X Nat : ss[1] < ss[2]}

\* A set of natural numbers that is not empty has a least element.
LEMMA LeastElement ==
    ASSUME NEW T \in SUBSET Nat, T # {}
    PROVE  \E x \in T : \A y \in T : x <= y
<1>1. IsWellFoundedOn(Less, Nat)
  BY NatLessThanWellFounded DEF OpToRel, Less
<1>2. PICK x \in T : \A y \in T : ~(<<y, x>> \in Less)
  BY <1>1, WFMin
<1>3. \A y, z \in Nat : y < z => <<y, z>> \in Less
  BY DEF Less
<1>4. ASSUME NEW y \in T
      PROVE  x <= y
  <2>1. x \in Nat /\ y \in Nat
    OBVIOUS
  <2>2. ~(y < x)
    BY <1>2, <1>3, <2>1
  <2>. QED
    BY <2>1, <2>2
<1>. QED
  BY <1>4

\* Induction up to n, over a set.
LEMMA UpTo ==
    ASSUME NEW n \in Nat, NEW S, 0 \in S,
           \A k \in Nat : k < n /\ k \in S => k + 1 \in S
    PROVE  \A k \in 0..n : k \in S
<1> DEFINE T == {k \in Nat : k <= n /\ k \notin S}
<1>1. SUFFICES ASSUME T # {}
               PROVE  FALSE
  OBVIOUS
<1>2. PICK x \in T : \A y \in T : x <= y
  BY <1>1, LeastElement
<1>3. x \in Nat /\ x <= n /\ x \notin S /\ x # 0
  BY <1>2
<1>4. x - 1 \in Nat /\ x - 1 < n /\ ~(x <= x - 1) /\ (x - 1) + 1 = x
  BY <1>3
<1>5. x - 1 \in S
  BY <1>2, <1>4
<1>. QED
  BY <1>3, <1>4, <1>5

-----------------------------------------------------------------------------
(* Division. *)

LEMMA Division ==
    ASSUME NEW a \in Nat, NEW m \in Nat \ {0}
    PROVE  /\ a \div m \in Nat
           /\ a % m \in Nat /\ a % m < m
           /\ a = m * (a \div m) + (a % m)
<1> DEFINE q == a \div m
           r == a % m
<1>1. q \in Int /\ r \in 0..(m - 1)
  OBVIOUS
<1>2. a = m * q + r
  BY Z3T(30)
<1> HIDE DEF q, r
<1>3. q <= -1 => m * q <= -m
  <2>1. \A n \in Nat : m * (-1 - n) <= -m
    BY Z3T(30)
  <2>. QED
    BY <1>1, <2>1
<1>4. q >= 0
  BY <1>1, <1>2, <1>3
<1>5. q \in Nat /\ r \in Nat /\ r < m
  BY <1>1, <1>4
<1>6. a = m * (a \div m) + (a % m)
  BY <1>2 DEF q, r
<1>7. a \div m \in Nat /\ a % m \in Nat /\ a % m < m
  BY <1>5, Zenon DEF q, r
<1>. QED
  BY <1>6, <1>7, Zenon

\* Quotient and remainder are the only such numbers.
LEMMA DivisionUnique ==
    ASSUME NEW m \in Nat \ {0}, NEW q \in Nat, NEW r \in Nat, r < m
    PROVE  /\ (m * q + r) \div m = q
           /\ (m * q + r) % m = r
BY Z3T(30)

\* Taking one more digit of x.
LEMMA NextDigit ==
    ASSUME NEW x \in Nat, NEW P \in Nat \ {0}
    PROVE  /\ Base * P \in Nat \ {0}
           /\ x % (Base * P) = (x % P) + ((x \div P) % Base) * P
           /\ x \div (Base * P) = (x \div P) \div Base
<1> DEFINE q == x \div P
           r == x % P
           d == q % Base
           e == q \div Base
           s == d * P + r
<1>1. /\ q \in Nat /\ r \in Nat /\ r < P /\ x = P * q + r
  BY Division
<1>2. /\ Base \in Nat /\ Base > 1
      /\ d \in Nat /\ d < Base /\ e \in Nat /\ q = Base * e + d
  BY <1>1, Division, BaseAssumption
<1> HIDE DEF q, r, d, e
<1>3. Base * P \in Nat \ {0}
  BY <1>2, Z3T(30)
<1>4. x = (Base * P) * e + s
  BY <1>1, <1>2, Z3T(30)
<1>5. s \in Nat /\ s < Base * P
  <2>1. d * P <= (Base - 1) * P
    BY <1>2, Z3T(30)
  <2>2. (Base - 1) * P = Base * P - P /\ d * P \in Nat
    BY <1>2, Z3T(30)
  <2>. QED
    BY <1>1, <1>3, <2>1, <2>2
<1> HIDE DEF s
<1>6. x % (Base * P) = s /\ x \div (Base * P) = e
  BY <1>2, <1>3, <1>4, <1>5, DivisionUnique
<1>. QED
  BY <1>1, <1>2, <1>3, <1>6 DEF q, r, d, e, s

-----------------------------------------------------------------------------
(* Digits. *)

\* The places are what their recursive definition says.
LEMMA PlaceDefined ==
    Place = [k \in 0..8 |-> IF k = 0 THEN 1 ELSE Base * Place[k - 1]]
<1> DEFINE T == [k \in 0..8 |->
                   CASE k = 0 -> 1
                     [] k = 1 -> Base
                     [] k = 2 -> Base * Base
                     [] k = 3 -> Base * (Base * Base)
                     [] k = 4 -> Base * (Base * (Base * Base))
                     [] k = 5 -> Base * (Base * (Base * (Base * Base)))
                     [] k = 6 -> Base * (Base * (Base * (Base * (Base * Base))))
                     [] k = 7 -> Base * (Base * (Base * (Base * (Base * (Base * Base)))))
                     [] OTHER -> Base * (Base * (Base * (Base * (Base * (Base * (Base * Base))))))]
<1>1. T = [k \in 0..8 |-> IF k = 0 THEN 1 ELSE Base * T[k - 1]]
  BY BaseAssumption
<1>. QED
  BY <1>1 DEF Place

LEMMA PlaceType ==
    /\ Place[0] = 1
    /\ \A k \in 0..8 : Place[k] \in Nat \ {0}
    /\ \A k \in 0..7 : Place[k + 1] = Base * Place[k]
<1>1. Place[0] = 1
  BY PlaceDefined
<1>2. \A k \in 0..7 : Place[k + 1] = Base * Place[k]
  <2>1. TAKE k \in 0..7
  <2>2. k + 1 \in 0..8 /\ k + 1 # 0 /\ (k + 1) - 1 = k
    OBVIOUS
  <2>. QED
    BY <2>2, PlaceDefined
<1> DEFINE S == {k \in Nat : k <= 8 => Place[k] \in Nat \ {0}}
<1>3. 0 \in S
  BY <1>1
<1>4. ASSUME NEW k \in Nat, k < 8, k \in S
      PROVE  k + 1 \in S
  <2>1. k \in 0..7 /\ Place[k] \in Nat \ {0}
    BY <1>4
  <2>2. Place[k + 1] \in Nat \ {0}
    BY <1>2, <2>1, NextDigit
  <2>. QED
    BY <2>2
<1>5. \A k \in 0..8 : k \in S
  <2> HIDE DEF S
  <2>. QED
    BY <1>3, <1>4, UpTo
<1>. QED
  BY <1>1, <1>2, <1>5

\* f sums up the first n digits.
IsSum(f, digits, n) ==
    f = [k \in 0..n |->
           IF k = 0 THEN 0 ELSE f[k - 1] + digits[k] * Place[k - 1]]

LEMMA SumExists ==
    ASSUME NEW digits, NEW n \in Nat
    PROVE  \E f : IsSum(f, digits, n)
<1> DEFINE S == {k \in Nat : \E f : IsSum(f, digits, k)}
<1>1. 0 \in S
  <2>1. IsSum([k \in 0..0 |-> 0], digits, 0)
    BY DEF IsSum
  <2>. QED
    BY <2>1
<1>2. ASSUME NEW m \in Nat, m \in S
      PROVE  m + 1 \in S
  <2>1. PICK g : IsSum(g, digits, m)
    BY <1>2
  <2> DEFINE h == [k \in 0..m + 1 |->
                     IF k = m + 1 THEN g[m] + digits[m + 1] * Place[m] ELSE g[k]]
  <2>2. \A k \in 0..m :
          g[k] = IF k = 0 THEN 0 ELSE g[k - 1] + digits[k] * Place[k - 1]
    BY <2>1 DEF IsSum
  <2>3. ASSUME NEW k \in 0..m + 1
        PROVE  h[k] = IF k = 0 THEN 0 ELSE h[k - 1] + digits[k] * Place[k - 1]
    <3>1. CASE k = m + 1
      BY <3>1
    <3>2. CASE k # m + 1
      <4>1. k \in 0..m
        BY <3>2
      <4>2. h[k] = g[k] /\ (k # 0 => h[k - 1] = g[k - 1])
        BY <4>1
      <4>. QED
        BY <2>2, <4>1, <4>2
    <3>. QED
      BY <3>1, <3>2
  <2>4. IsSum(h, digits, m + 1)
    BY <2>3 DEF IsSum
  <2>. QED
    BY <2>4
<1>3. \A k \in 0..n : k \in S
  <2> HIDE DEF S
  <2>. QED
    BY <1>1, <1>2, UpTo
<1>. QED
  BY <1>3

\* The loop of deserialize.
LEMMA Deserialized ==
    ASSUME NEW digits, Len(digits) \in Nat
    PROVE  \E f : /\ IsSum(f, digits, Len(digits))
                  /\ deserialize(digits) = f[Len(digits)]
<1> DEFINE f == CHOOSE g : IsSum(g, digits, Len(digits))
<1>1. IsSum(f, digits, Len(digits))
  BY SumExists
<1>2. deserialize(digits) = f[Len(digits)]
  BY DEF deserialize, IsSum
<1>. QED
  BY <1>1, <1>2
LEMMA SumStep ==
    ASSUME NEW f, NEW digits, NEW n \in Nat, IsSum(f, digits, n)
    PROVE  /\ f[0] = 0
           /\ \A k \in Nat : k < n =>
                f[k + 1] = f[k] + digits[k + 1] * Place[k]
<1>1. \A k \in 0..n :
        f[k] = IF k = 0 THEN 0 ELSE f[k - 1] + digits[k] * Place[k - 1]
  BY DEF IsSum
<1>2. ASSUME NEW k \in Nat, k < n
      PROVE  f[k + 1] = f[k] + digits[k + 1] * Place[k]
  <2>1. k + 1 \in 0..n /\ k + 1 # 0 /\ (k + 1) - 1 = k
    BY <1>2
  <2>. QED
    BY <1>1, <2>1
<1>. QED
  BY <1>1, <1>2

\* The digits of x from the first on are worth the rest that they leave out.
LEMMA SumOfDigits ==
    ASSUME NEW x \in Nat, NEW n \in 0..8, NEW f, NEW digits,
           IsSum(f, digits, n),
           \A k \in 1..n : digits[k] = (x \div Place[k - 1]) % Base
    PROVE  f[n] = x % Place[n]
<1> DEFINE S == {k \in Nat : k <= n => f[k] = x % Place[k]}
<1>1. 0 \in S
  <2>1. x % 1 = 0
    BY Z3T(30)
  <2>. QED
    BY <2>1, SumStep, PlaceType
<1>2. ASSUME NEW k \in Nat, k < n, k \in S
      PROVE  k + 1 \in S
  <2>1. f[k] = x % Place[k]
    BY <1>2
  <2>2. digits[k + 1] = (x \div Place[k]) % Base
    <3>1. k + 1 \in 1..n /\ (k + 1) - 1 = k
      BY <1>2
    <3>. QED
      BY <3>1
  <2>3. f[k + 1] = f[k] + digits[k + 1] * Place[k]
    BY <1>2, SumStep
  <2>4. k \in 0..7 /\ k \in 0..8
    BY <1>2
  <2>5. Place[k] \in Nat \ {0} /\ Place[k + 1] = Base * Place[k]
    BY <2>4, PlaceType
  <2>6. x % Place[k + 1] = (x % Place[k]) + ((x \div Place[k]) % Base) * Place[k]
    BY <2>5, NextDigit
  <2>7. f[k + 1] = x % Place[k + 1]
    BY <2>1, <2>2, <2>3, <2>6, Zenon
  <2>. QED
    BY <1>2, <2>7
<1>3. \A k \in 0..n : k \in S
  <2> HIDE DEF S
  <2>. QED
    BY <1>1, <1>2, UpTo
<1>. QED
  BY <1>3

\* Digits of x are digits: a sequence of them.
LEMMA SerializeType ==
    ASSUME NEW x \in Nat, NEW width \in 0..8
    PROVE  /\ serialize(x, width) \in Seq(0..Base - 1)
           /\ Len(serialize(x, width)) = width
<1>1. ASSUME NEW k \in 1..width
      PROVE  (x \div Place[k - 1]) % Base \in 0..Base - 1
  <2>1. k - 1 \in 0..8
    BY <1>1
  <2>2. x \div Place[k - 1] \in Nat
    BY <2>1, PlaceType, Division
  <2>. QED
    BY <2>2, Division, BaseAssumption
<1> DEFINE d == serialize(x, width)
<1>2. d \in [1..width -> 0..Base - 1]
  BY <1>1 DEF serialize
<1> HIDE DEF d
<1>0. width \in Nat
  OBVIOUS
<1>3. d \in Seq(0..Base - 1)
  BY <1>0, <1>2, SeqDef, Zenon
<1>4. Len(d) = width
  BY <1>2, <1>3, LenProperties
<1>. QED
  BY <1>3, <1>4 DEF d

\* endian_converter.cpp: what is read from the bytes of an integer is that
\* integer, cut off at the width that was written.
THEOREM DigitsKeepNumber ==
    ASSUME NEW x \in Nat, NEW width \in 0..8
    PROVE  deserialize(serialize(x, width)) = x % Place[width]
<1> DEFINE d == serialize(x, width)
<1>0. width \in Nat
  OBVIOUS
<1>1. Len(d) = width /\ Len(d) \in Nat
  BY <1>0, SerializeType, Zenon
<1>2. \A k \in 1..width : d[k] = (x \div Place[k - 1]) % Base
  BY Zenon DEF serialize
<1> HIDE DEF d
<1>3. PICK f : IsSum(f, d, width) /\ deserialize(d) = f[width]
  BY <1>1, Deserialized
<1>4. f[width] = x % Place[width]
  BY <1>2, <1>3, SumOfDigits
<1>. QED
  BY <1>3, <1>4 DEF d

-----------------------------------------------------------------------------
(* A number in two parts. *)

Digits == 0..Base - 1

LEMMA PlaceProduct ==
    ASSUME NEW m \in 0..8, NEW n \in Nat, m + n <= 8
    PROVE  Place[m + n] = Place[m] * Place[n]
<1> DEFINE S == {k \in Nat : k <= n => Place[m + k] = Place[m] * Place[k]}
<1>1. 0 \in S
  <2>1. Place[m] * 1 = Place[m] /\ m + 0 = m
    BY PlaceType
  <2>. QED
    BY <2>1, PlaceType
<1>2. ASSUME NEW k \in Nat, k < n, k \in S
      PROVE  k + 1 \in S
  <2>1. /\ m + k \in 0..7 /\ k \in 0..7 /\ (m + k) + 1 = m + (k + 1)
        /\ m + k \in 0..8 /\ k \in 0..8
    BY <1>2
  <2>2. /\ Place[m + (k + 1)] = Base * Place[m + k]
        /\ Place[k + 1] = Base * Place[k]
    BY <2>1, PlaceType, Zenon
  <2>3. Place[m + k] = Place[m] * Place[k]
    BY <1>2
  <2>4. \A a, b, c \in Nat : a * (b * c) = b * (a * c)
    BY Z3T(30)
  <2>5. Base \in Nat /\ Place[m] \in Nat /\ Place[k] \in Nat
    BY <2>1, PlaceType, BaseAssumption
  <2>6. Base * (Place[m] * Place[k]) = Place[m] * (Base * Place[k])
    BY <2>4, <2>5, Zenon
  <2>7. Place[m + (k + 1)] = Place[m] * Place[k + 1]
    BY <2>2, <2>3, <2>6, Zenon
  <2>. QED
    BY <1>2, <2>7
<1>3. \A k \in 0..n : k \in S
  <2> HIDE DEF S
  <2>. QED
    BY <1>1, <1>2, UpTo
<1>. QED
  BY <1>3

\* Sums of digits are natural numbers.
LEMMA SumType ==
    ASSUME NEW digits, NEW n \in 0..8, NEW f, IsSum(f, digits, n),
           \A k \in 1..n : digits[k] \in Nat
    PROVE  \A k \in 0..n : f[k] \in Nat
<1> DEFINE S == {k \in Nat : k <= n => f[k] \in Nat}
<1>1. 0 \in S
  BY SumStep
<1>2. ASSUME NEW k \in Nat, k < n, k \in S
      PROVE  k + 1 \in S
  <2>1. k + 1 \in 1..n /\ k \in 0..8
    BY <1>2
  <2>2. f[k] \in Nat /\ digits[k + 1] \in Nat /\ Place[k] \in Nat
    BY <1>2, <2>1, PlaceType
  <2>3. \A a, b, c \in Nat : a + b * c \in Nat
    BY Z3T(30)
  <2>4. f[k] + digits[k + 1] * Place[k] \in Nat
    BY <2>2, <2>3
  <2>5. f[k + 1] \in Nat
    BY <1>2, <2>4, SumStep
  <2>. QED
    BY <2>5
<1>3. \A k \in 0..n : k \in S
  <2> HIDE DEF S
  <2>. QED
    BY <1>1, <1>2, UpTo
<1>. QED
  BY <1>3

LEMMA DigitsType ==
    ASSUME NEW s \in Seq(Digits)
    PROVE  Len(s) \in Nat /\ \A k \in 1..Len(s) : s[k] \in Nat
<1>1. Digits \subseteq Nat
  BY BaseAssumption DEF Digits
<1>2. \A k \in 1..Len(s) : s[k] \in Digits
  BY ElementOfSeq, Zenon
<1>3. Len(s) \in Nat
  BY LenProperties, Zenon
<1>. QED
  BY <1>1, <1>2, <1>3, Zenon

LEMMA DeserializeType ==
    ASSUME NEW s \in Seq(Digits), Len(s) \in 0..8
    PROVE  deserialize(s) \in Nat
<1> DEFINE n == Len(s)
<1>1. n \in 0..8 /\ \A k \in 1..n : s[k] \in Nat
  BY DigitsType, Zenon
<1>2. PICK f : IsSum(f, s, n) /\ deserialize(s) = f[n]
  BY Deserialized
<1> HIDE DEF n
<1>3. \A k \in 0..n : f[k] \in Nat
  BY <1>1, <1>2, SumType
<1>4. n \in 0..n
  BY <1>1
<1>. QED
  BY <1>2, <1>3, <1>4

\* The digits of a number may be taken in two parts.
LEMMA DeserializeConcat ==
    ASSUME NEW a \in Seq(Digits), NEW b \in Seq(Digits), Len(a) + Len(b) <= 8
    PROVE  deserialize(a \o b) = deserialize(a) + Place[Len(a)] * deserialize(b)
<1> DEFINE m == Len(a)
           n == Len(b)
           c == a \o b
<1>1. /\ m \in Nat /\ \A k \in 1..m : a[k] \in Nat
      /\ n \in Nat /\ \A k \in 1..n : b[k] \in Nat
  BY DigitsType, Zenon
<1>2. /\ Len(c) = m + n
      /\ \A k \in 1..(m + n) : c[k] = IF k <= m THEN a[k] ELSE b[k - m]
  BY ConcatProperties, Zenon
<1>3. m + n <= 8
  OBVIOUS
<1> HIDE DEF m, n, c
<1>4. PICK f : IsSum(f, c, m + n) /\ deserialize(c) = f[m + n]
  <2>1. Len(c) \in Nat
    BY <1>1, <1>2
  <2>2. PICK f : IsSum(f, c, Len(c)) /\ deserialize(c) = f[Len(c)]
    BY <2>1, Deserialized
  <2>. QED
    BY <1>2, <2>2, Zenon
<1>5. PICK g : IsSum(g, a, m) /\ deserialize(a) = g[m]
  BY <1>1, Deserialized DEF m
<1>6. PICK h : IsSum(h, b, n) /\ deserialize(b) = h[n]
  BY <1>1, Deserialized DEF n
<1>7. \A k \in 0..m : f[k] = g[k]
  <2> DEFINE S == {k \in Nat : k <= m => f[k] = g[k]}
  <2>1. 0 \in S
    <3>1. m + n \in Nat /\ f[0] = 0 /\ g[0] = 0
      BY <1>1, <1>4, <1>5, SumStep
    <3>. QED
      BY <3>1
  <2>2. ASSUME NEW k \in Nat, k < m, k \in S
        PROVE  k + 1 \in S
    <3>1. k + 1 \in 1..(m + n) /\ k + 1 <= m /\ k < m + n /\ m + n \in Nat
      BY <1>1, <2>2
    <3>2. c[k + 1] = a[k + 1] /\ f[k] = g[k]
      <4>1. k <= m
        BY <1>1, <2>2
      <4>2. f[k] = g[k]
        BY <2>2, <4>1, Zenon
      <4>. QED
        BY <1>2, <3>1, <4>2, Zenon
    <3>3. /\ f[k + 1] = f[k] + c[k + 1] * Place[k]
          /\ g[k + 1] = g[k] + a[k + 1] * Place[k]
      BY <1>1, <1>4, <1>5, <2>2, <3>1, SumStep, ZenonT(40)
    <3>4. f[k + 1] = g[k + 1]
      BY <3>2, <3>3, Zenon
    <3>. QED
      BY <3>4
  <2>3. \A k \in 0..m : k \in S
    <3> HIDE DEF S
    <3>. QED
      BY <1>1, <2>1, <2>2, UpTo
  <2>. QED
    BY <2>3
<1>8. m \in 0..8 /\ n \in 0..8
  BY <1>1, <1>3
<1>9. /\ g[m] \in Nat /\ Place[m] \in Nat
      /\ \A k \in 0..n : h[k] \in Nat
  <2>1. \A k \in 0..m : g[k] \in Nat
    BY <1>1, <1>5, <1>8, SumType
  <2>2. \A k \in 0..n : h[k] \in Nat
    BY <1>1, <1>6, <1>8, SumType
  <2>3. Place[m] \in Nat
    BY <1>8, PlaceType
  <2>4. m \in 0..m
    BY <1>1
  <2>. QED
    BY <2>1, <2>2, <2>3, <2>4
<1>10. \A k \in 0..n : f[m + k] = g[m] + Place[m] * h[k]
  <2> DEFINE S == {k \in Nat : k <= n => f[m + k] = g[m] + Place[m] * h[k]}
  <2>1. 0 \in S
    <3>1. f[m] = g[m] /\ m + 0 = m
      BY <1>1, <1>7
    <3>2. h[0] = 0
      BY <1>1, <1>6, SumStep
    <3>3. g[m] + Place[m] * 0 = g[m]
      BY <1>9
    <3>4. f[m + 0] = g[m] + Place[m] * h[0]
      BY <3>1, <3>2, <3>3, Zenon
    <3>. QED
      BY <3>4
  <2>2. ASSUME NEW k \in Nat, k < n, k \in S
        PROVE  k + 1 \in S
    <3>1. /\ m + k \in Nat /\ m + k < m + n /\ m + n \in Nat
          /\ (m + k) + 1 \in 1..(m + n) /\ ~((m + k) + 1 <= m)
          /\ ((m + k) + 1) - m = k + 1 /\ (m + k) + 1 = m + (k + 1)
          /\ m + k <= 8 /\ k \in 0..n /\ k \in 0..8 /\ k + 1 \in 1..n
      BY <1>1, <1>3, <2>2
    <3>2. c[(m + k) + 1] = b[k + 1]
      BY <1>2, <3>1
    <3>3. f[(m + k) + 1] = f[m + k] + b[k + 1] * Place[m + k]
      BY <1>4, <3>1, <3>2, SumStep
    <3>4. h[k + 1] = h[k] + b[k + 1] * Place[k]
      BY <1>1, <1>6, <2>2, SumStep
    <3>5. Place[m + k] = Place[m] * Place[k]
      BY <1>8, <3>1, PlaceProduct
    <3>6. f[m + k] = g[m] + Place[m] * h[k]
      <4>1. k <= n
        BY <1>1, <2>2
      <4>. QED
        BY <2>2, <4>1, Zenon
    <3>7. h[k] \in Nat /\ b[k + 1] \in Nat /\ Place[k] \in Nat
      BY <1>1, <1>9, <3>1, PlaceType
    <3>8. (g[m] + Place[m] * h[k]) + b[k + 1] * (Place[m] * Place[k])
            = g[m] + Place[m] * (h[k] + b[k + 1] * Place[k])
      <4> DEFINE u == g[m]
                 v == Place[m]
                 w == h[k]
                 x == b[k + 1]
                 y == Place[k]
      <4>1. u \in Nat /\ v \in Nat /\ w \in Nat /\ x \in Nat /\ y \in Nat
        BY <1>9, <3>7
      <4> HIDE DEF u, v, w, x, y
      <4>2. (u + v * w) + x * (v * y) = u + v * (w + x * y)
        BY <4>1, Z3T(30)
      <4>. QED
        BY <4>2, Zenon DEF u, v, w, x, y
    <3>9. f[m + (k + 1)] = g[m] + Place[m] * h[k + 1]
      BY <3>1, <3>3, <3>4, <3>5, <3>6, <3>8, Zenon
    <3>. QED
      BY <3>9
  <2>3. \A k \in 0..n : k \in S
    <3> HIDE DEF S
    <3>. QED
      BY <1>1, <2>1, <2>2, UpTo
  <2>. QED
    BY <2>3
<1>11. n \in 0..n
  BY <1>1
<1>12. f[m + n] = g[m] + Place[m] * h[n]
  BY <1>10, <1>11
<1>. QED
  BY <1>4, <1>5, <1>6, <1>12, Zenon DEF c, m

-----------------------------------------------------------------------------
(* The header of a packet. *)

\* A word is found behind whatever precedes it, and not disturbed by what
\* follows.
LEMMA WordBehind ==
    ASSUME NEW s \in Seq(Digits), NEW t \in Seq(Digits), Len(t) = 4
    PROVE  SubSeq(s \o t, Len(s) + 1, Len(s) + 4) = t
<1> DEFINE m == Len(s) + 1
           n == Len(s) + 4
<1>1. Len(s) \in Nat
  BY LenProperties, Zenon
<1>2. /\ m \in Len(s) + 1..Len(s) + Len(t) /\ n \in Len(s) + 1..Len(s) + Len(t)
      /\ m - Len(s) = 1 /\ n - Len(s) = Len(t)
  BY <1>1
<1> HIDE DEF m, n
<1>3. SubSeq(s \o t, m, n) = SubSeq(t, m - Len(s), n - Len(s))
  BY <1>2, SubSeqOfConcat2, ZenonT(40)
<1>4. SubSeq(t, 1, Len(t)) = t
  BY SubSeqFull, Zenon
<1>. QED
  BY <1>2, <1>3, <1>4, Zenon DEF m, n

LEMMA WordBefore ==
    ASSUME NEW s \in Seq(Digits), NEW t \in Seq(Digits),
           NEW m \in 1..Len(s), NEW n \in 1..Len(s)
    PROVE  SubSeq(s \o t, m, n) = SubSeq(s, m, n)
BY SubSeqOfConcat1, Zenon

\* Where the words of the header are.
LEMMA FourWords ==
    ASSUME NEW a \in Seq(Digits), NEW b \in Seq(Digits),
           NEW c \in Seq(Digits), NEW d \in Seq(Digits),
           Len(a) = 4, Len(b) = 4, Len(c) = 4, Len(d) = 4
    PROVE  /\ Word(a \o b \o c \o d, 0) = a /\ Word(a \o b \o c \o d, 1) = b
           /\ Word(a \o b \o c \o d, 2) = c /\ Word(a \o b \o c \o d, 3) = d
<1> DEFINE ab == a \o b
           abc == ab \o c
           all == abc \o d
<1>1. ab \in Seq(Digits) /\ Len(ab) = 8
  <2>1. ab \in Seq(Digits) /\ Len(ab) = Len(a) + Len(b)
    BY ConcatProperties, Zenon
  <2>. QED
    BY <2>1
<1>2. SubSeq(ab, 1, 4) = a /\ SubSeq(ab, 5, 8) = b
  <2>1. 1 \in 1..Len(a) /\ 4 \in 1..Len(a)
    OBVIOUS
  <2>2. SubSeq(a \o b, 1, 4) = SubSeq(a, 1, 4)
    BY <2>1, WordBefore, Zenon
  <2>3. SubSeq(a, 1, Len(a)) = a
    BY SubSeqFull, Zenon
  <2>4. SubSeq(a \o b, Len(a) + 1, Len(a) + 4) = b
    BY WordBehind, Zenon
  <2>5. Len(a) + 1 = 5 /\ Len(a) + 4 = 8
    OBVIOUS
  <2>. QED
    BY <2>2, <2>3, <2>4, <2>5, Zenon
<1> HIDE DEF ab
<1>3. abc \in Seq(Digits) /\ Len(abc) = 12
  <2>1. abc \in Seq(Digits) /\ Len(abc) = Len(ab) + Len(c)
    BY <1>1, ConcatProperties, Zenon
  <2>. QED
    BY <1>1, <2>1
<1>4. SubSeq(abc, 9, 12) = c
  <2>1. SubSeq(abc, Len(ab) + 1, Len(ab) + 4) = c
    BY <1>1, WordBehind, Zenon
  <2>2. Len(ab) + 1 = 9 /\ Len(ab) + 4 = 12
    BY <1>1
  <2>. QED
    BY <2>1, <2>2, Zenon
<1>5. SubSeq(abc, 1, 4) = a /\ SubSeq(abc, 5, 8) = b
  <2>1. \A m, n \in 1..Len(ab) : SubSeq(ab \o c, m, n) = SubSeq(ab, m, n)
    BY <1>1, WordBefore, Zenon
  <2>2. /\ 1 \in 1..Len(ab) /\ 4 \in 1..Len(ab)
        /\ 5 \in 1..Len(ab) /\ 8 \in 1..Len(ab)
    BY <1>1
  <2>. QED
    BY <1>2, <2>1, <2>2, Zenon
<1> HIDE DEF abc
<1>6. SubSeq(all, 13, 16) = d
  <2>1. SubSeq(all, Len(abc) + 1, Len(abc) + 4) = d
    BY <1>3, WordBehind, Zenon
  <2>2. Len(abc) + 1 = 13 /\ Len(abc) + 4 = 16
    BY <1>3
  <2>. QED
    BY <2>1, <2>2, Zenon
<1>7. /\ SubSeq(all, 1, 4) = a /\ SubSeq(all, 5, 8) = b
      /\ SubSeq(all, 9, 12) = c
  <2>1. \A m, n \in 1..Len(abc) : SubSeq(all, m, n) = SubSeq(abc, m, n)
    BY <1>3, WordBefore, Zenon
  <2>2. /\ 1 \in 1..Len(abc) /\ 4 \in 1..Len(abc)
        /\ 5 \in 1..Len(abc) /\ 8 \in 1..Len(abc)
        /\ 9 \in 1..Len(abc) /\ 12 \in 1..Len(abc)
    BY <1>3
  <2>. QED
    BY <1>4, <1>5, <2>1, <2>2, Zenon
<1>8. all = a \o b \o c \o d
  BY DEF ab, abc
<1> HIDE DEF all
<1>9. /\ Word(all, 0) = SubSeq(all, 1, 4) /\ Word(all, 1) = SubSeq(all, 5, 8)
      /\ Word(all, 2) = SubSeq(all, 9, 12) /\ Word(all, 3) = SubSeq(all, 13, 16)
  BY DEF Word, WordBytes
<1>. QED
  BY <1>6, <1>7, <1>8, <1>9, Zenon

\* qap1_header.cpp: a header is read back from its sixteen bytes as it was.
THEOREM HeaderReadBack ==
    ASSUME NEW cmd \in Nat, NEW len \in Nat, NEW os \in Nat,
           NEW len_high \in Nat
    PROVE  QAP1HeaderOf(HeaderBytes(QAP1Header(cmd, len, os, len_high)))
             = QAP1Header(cmd, len, os, len_high)
<1>1. \A x \in Nat : /\ serialize(x, 4) \in Seq(Digits)
                     /\ Len(serialize(x, 4)) = 4
  <2>1. 4 \in 0..8
    OBVIOUS
  <2>. QED
    BY <2>1, SerializeType, Zenon DEF Digits
<1> DEFINE a == serialize(cmd, 4)
           b == serialize(len, 4)
           c == serialize(os, 4)
           d == serialize(len_high, 4)
<1>2. /\ a \in Seq(Digits) /\ b \in Seq(Digits)
      /\ c \in Seq(Digits) /\ d \in Seq(Digits)
      /\ Len(a) = 4 /\ Len(b) = 4 /\ Len(c) = 4 /\ Len(d) = 4
  BY <1>1
<1>3. QAP1Header(cmd, len, os, len_high)
        = [m_vCommand |-> a, m_vLength |-> b, m_vOffset |-> c,
           m_vLength_highbits |-> d]
  BY DEF QAP1Header, WordBytes
<1> HIDE DEF a, b, c, d
<1>4. HeaderBytes(QAP1Header(cmd, len, os, len_high)) = a \o b \o c \o d
  BY <1>3 DEF HeaderBytes
<1>5. /\ Word(a \o b \o c \o d, 0) = a /\ Word(a \o b \o c \o d, 1) = b
      /\ Word(a \o b \o c \o d, 2) = c /\ Word(a \o b \o c \o d, 3) = d
  BY <1>2, FourWords
<1>. QED
  BY <1>3, <1>4, <1>5, Zenon DEF QAP1HeaderOf

LEMMA SmallRemainder ==
    ASSUME NEW m \in Nat \ {0}, NEW x \in Nat, x < m
    PROVE  x % m = x
<1>1. (m * 0 + x) % m = x
  BY DivisionUnique
<1>2. m * 0 + x = x
  OBVIOUS
<1>. QED
  BY <1>1, <1>2, Zenon

\* The two halves of the eight digits of a number.
LEMMA Halves ==
    ASSUME NEW x \in Nat
    PROVE  LET d == serialize(x, 8)
           IN  /\ Word(d, 0) = serialize(x, 4)
               /\ Word(d, 1) \in Seq(Digits) /\ Len(Word(d, 1)) = 4
               /\ d = Word(d, 0) \o Word(d, 1)
<1> DEFINE d == serialize(x, 8)
           low == SubSeq(d, 1, 4)
           high == SubSeq(d, 5, 8)
<1>1. d \in Seq(Digits) /\ Len(d) = 8
  <2>1. 8 \in 0..8
    OBVIOUS
  <2>. QED
    BY <2>1, SerializeType, Zenon DEF Digits
<1>2. serialize(x, 4) \in Seq(Digits) /\ Len(serialize(x, 4)) = 4
  <2>1. 4 \in 0..8
    OBVIOUS
  <2>. QED
    BY <2>1, SerializeType, Zenon DEF Digits
<1>3. \A k \in 1..4 : d[k] = serialize(x, 4)[k]
  <2>1. TAKE k \in 1..4
  <2>2. k \in 1..8
    OBVIOUS
  <2>. QED
    BY <2>2, Zenon DEF serialize
<1>4. Word(d, 0) = low /\ Word(d, 1) = high
  BY DEF Word, WordBytes
<1> HIDE DEF d
<1>5. \A k \in 1..8 : d[k] \in Digits
  BY <1>1, ElementOfSeq, Zenon
<1>6. /\ low \in Seq(Digits) /\ Len(low) = 4
      /\ \A k \in 1..4 : low[k] = d[k]
      /\ high \in Seq(Digits) /\ Len(high) = 4
      /\ \A k \in 1..4 : high[k] = d[k + 4]
  BY <1>5
<1> HIDE DEF low, high
<1>7. low = serialize(x, 4)
  <2> DEFINE w == serialize(x, 4)
  <2>1. w \in Seq(Digits) /\ Len(low) = Len(w)
    BY <1>2, <1>6
  <2>2. \A k \in 1..Len(low) : low[k] = w[k]
    BY <1>3, <1>6, Zenon
  <2> HIDE DEF w
  <2>3. low = w
    BY <1>6, <2>1, <2>2, SeqEqual, Zenon
  <2>. QED
    BY <2>3 DEF w
<1>8. d = low \o high
  <2>1. /\ low \o high \in Seq(Digits) /\ Len(low \o high) = Len(low) + Len(high)
        /\ \A k \in 1..Len(low) + Len(high) :
             (low \o high)[k] = IF k <= Len(low) THEN low[k] ELSE high[k - Len(low)]
    BY <1>6, ConcatProperties, ZenonT(40)
  <2>2. Len(low \o high) = 8
    BY <1>6, <2>1
  <2>3. \A k \in 1..8 : (low \o high)[k] = d[k]
    <3>1. TAKE k \in 1..8
    <3>2. (low \o high)[k] = IF k <= 4 THEN low[k] ELSE high[k - 4]
      BY <1>6, <2>1
    <3>3. CASE k <= 4
      BY <1>6, <3>2, <3>3
    <3>4. CASE ~(k <= 4)
      <4>1. k - 4 \in 1..4 /\ (k - 4) + 4 = k
        BY <3>4
      <4>. QED
        BY <1>6, <3>2, <3>4, <4>1, Zenon
    <3>. QED
      BY <3>3, <3>4
  <2>. QED
    BY <1>1, <2>1, <2>2, <2>3, SeqEqual, Zenon
<1>. QED
  BY <1>4, <1>6, <1>7, <1>8, Zenon DEF d

\* Their values, when eight digits hold the number.
LEMMA ValuesOfHalves ==
    ASSUME NEW n \in Nat, n < Place[8]
    PROVE  LET d == serialize(n, 8)
               low == deserialize(Word(d, 0))
               high == deserialize(Word(d, 1))
           IN  /\ low \in Nat /\ low < Place[4] /\ low = n % Place[4]
               /\ high \in Nat /\ high < Place[4] /\ high = n \div Place[4]
               /\ n = low + Place[4] * high
<1> DEFINE P == Place[4]
           d == serialize(n, 8)
           low == deserialize(Word(d, 0))
           high == deserialize(Word(d, 1))
<1>1. P \in Nat \ {0} /\ Place[8] \in Nat \ {0} /\ Place[8] = P * P
  <2>1. 4 \in 0..8 /\ 8 \in 0..8 /\ 4 \in Nat /\ 4 + 4 <= 8 /\ 4 + 4 = 8
    OBVIOUS
  <2>. QED
    BY <2>1, PlaceType, PlaceProduct, ZenonT(40)
<1>2. \A x \in Nat : /\ serialize(x, 4) \in Seq(Digits)
                     /\ Len(serialize(x, 4)) = 4
                     /\ deserialize(serialize(x, 4)) = x % P
  <2>1. 4 \in 0..8
    OBVIOUS
  <2>. QED
    BY <2>1, SerializeType, DigitsKeepNumber, Zenon DEF Digits
<1>3. low = n % P
  BY <1>2, Halves, Zenon
<1>4. n = low + P * high /\ high \in Nat
  <2>1. deserialize(d) = n
    <3>1. 8 \in 0..8
      OBVIOUS
    <3>2. deserialize(d) = n % Place[8]
      BY <3>1, DigitsKeepNumber, Zenon
    <3>. QED
      BY <1>1, <3>2, SmallRemainder, Zenon
  <2>2. /\ Word(d, 0) \in Seq(Digits) /\ Len(Word(d, 0)) = 4
        /\ Word(d, 1) \in Seq(Digits) /\ Len(Word(d, 1)) = 4
        /\ d = Word(d, 0) \o Word(d, 1)
    BY <1>2, Halves, Zenon
  <2>3. Len(Word(d, 0)) + Len(Word(d, 1)) <= 8 /\ Len(Word(d, 1)) \in 0..8
    <3>1. 4 + 4 <= 8 /\ 4 \in 0..8
      OBVIOUS
    <3>. QED
      BY <2>2, <3>1, Zenon
  <2>4. deserialize(Word(d, 0) \o Word(d, 1))
          = deserialize(Word(d, 0)) + Place[Len(Word(d, 0))] * high
    BY <2>2, <2>3, DeserializeConcat, Zenon
  <2>5. high \in Nat
    BY <2>2, <2>3, DeserializeType, Zenon
  <2>. QED
    BY <2>1, <2>2, <2>4, <2>5, Zenon
<1> HIDE DEF P, d, low, high
<1>5. low \in Nat /\ low < P
  BY <1>1, <1>3, Division
<1>6. high < P
  <2>1. P * high < P * P
    <3>1. P * high \in Nat
      BY <1>1, <1>4, Z3T(30)
    <3>. QED
      BY <1>1, <1>4, <1>5, <3>1
  <2>2. high >= P => P * high >= P * P
    BY <1>1, <1>4, Z3T(30)
  <2>. QED
    BY <1>1, <1>4, <2>1, <2>2
<1>7. high = n \div P
  <2>1. (P * high + low) \div P = high
    BY <1>1, <1>4, <1>5, DivisionUnique
  <2>2. P * high + low = n
    <3>1. P * high \in Nat
      BY <1>1, <1>4, Z3T(30)
    <3>. QED
      BY <1>4, <1>5, <3>1
  <2>. QED
    BY <2>1, <2>2
<1>. QED
  BY <1>3, <1>4, <1>5, <1>6, <1>7, Zenon DEF P, d, low, high

\* A header with a length in two words, and its reader.
LEMMA WordsFound ==
    ASSUME NEW cmd \in Nat, cmd < Place[4],
           NEW low \in Nat, low < Place[4], NEW high \in Nat, high < Place[4]
    PROVE  LET h == QAP1HeaderOf(HeaderBytes(QAP1Header(cmd, low, 0, high)))
           IN  /\ getCommand(h) = cmd
               /\ getOffset(h) = 0
               /\ getLength(h) = low + Place[4] * high
<1> DEFINE P == Place[4]
           h == QAP1Header(cmd, low, 0, high)
<1>1. P \in Nat \ {0}
  BY PlaceType
<1>2. \A x \in Nat : /\ serialize(x, 4) \in Seq(Digits)
                     /\ Len(serialize(x, 4)) = 4
                     /\ deserialize(serialize(x, 4)) = x % P
  <2>1. 4 \in 0..8
    OBVIOUS
  <2>. QED
    BY <2>1, SerializeType, DigitsKeepNumber, Zenon DEF Digits
<1> HIDE DEF P
<1>3. QAP1HeaderOf(HeaderBytes(h)) = h
  BY HeaderReadBack
<1>4. /\ h.m_vCommand = serialize(cmd, 4) /\ h.m_vOffset = serialize(0, 4)
      /\ h.m_vLength = serialize(low, 4)
      /\ h.m_vLength_highbits = serialize(high, 4)
  BY DEF QAP1Header, WordBytes
<1> HIDE DEF h
<1>5. getCommand(h) = cmd /\ getOffset(h) = 0
  <2>1. cmd % P = cmd /\ 0 % P = 0 /\ 0 \in Nat
    BY <1>1, SmallRemainder DEF P
  <2>. QED
    BY <1>2, <1>4, <2>1, Zenon DEF getCommand, getOffset
<1>6. getLength(h) = low + P * high
  <2>1. low % P = low /\ high % P = high
    BY <1>1, SmallRemainder DEF P
  <2>2. /\ deserialize(serialize(low, 4)) = low
        /\ deserialize(serialize(high, 4)) = high
        /\ serialize(low, 4) \in Seq(Digits) /\ Len(serialize(low, 4)) = 4
        /\ serialize(high, 4) \in Seq(Digits) /\ Len(serialize(high, 4)) = 4
    BY <1>2, <2>1, Zenon
  <2>3. Len(serialize(low, 4)) + Len(serialize(high, 4)) <= 8
    <3>1. 4 + 4 <= 8
      OBVIOUS
    <3>. QED
      BY <2>2, <3>1, Zenon
  <2>4. deserialize(serialize(low, 4) \o serialize(high, 4)) = low + P * high
    BY <2>2, <2>3, DeserializeConcat, Zenon DEF P
  <2>. QED
    BY <1>4, <2>4, Zenon DEF getLength
<1>. QED
  BY <1>3, <1>5, <1>6, Zenon DEF P, h

\* rpacket.cpp, lines 29 to 38, and the getters of QAP1Header: whoever reads
\* the header finds the command, no offset and, of any length that eight bytes
\* hold, the two words together.
THEOREM PacketLengthFound ==
    ASSUME NEW cmd \in Nat, cmd < Place[4], NEW n \in Nat, n < Place[8],
           ~BigEndian
    PROVE  LET h == QAP1HeaderOf(HeaderBytes(PacketHeader(cmd, n)))
           IN  /\ getCommand(h) = cmd
               /\ getOffset(h) = 0
               /\ getLength(h) = n
<1> DEFINE d == serialize(n, 8)
           low == deserialize(Word(d, 0))
           high == deserialize(Word(d, 1))
<1>1. PacketHeader(cmd, n) = QAP1Header(cmd, low, 0, high)
  <2>1. WordBytes = 4 /\ 2 * WordBytes = 8
    BY DEF WordBytes
  <2>. QED
    BY <2>1, Zenon DEF PacketHeader, LengthWord, Memory, FromMemory
<1>2. /\ low \in Nat /\ low < Place[4] /\ high \in Nat /\ high < Place[4]
      /\ n = low + Place[4] * high
  BY ValuesOfHalves, Zenon
<1> HIDE DEF d, low, high
<1>3. LET h == QAP1HeaderOf(HeaderBytes(QAP1Header(cmd, low, 0, high)))
      IN  getCommand(h) = cmd /\ getOffset(h) = 0 /\ getLength(h) = low + Place[4] * high
  BY <1>2, WordsFound
<1>. QED
  BY <1>1, <1>2, <1>3, Zenon

-----------------------------------------------------------------------------
(* Digits that were not made by serialize. *)

\* A part of the sum is less than the next place.
LEMMA SumBounded ==
    ASSUME NEW digits, NEW n \in 0..8, NEW f, IsSum(f, digits, n),
           \A k \in 1..n : digits[k] \in Digits
    PROVE  \A k \in 0..n : f[k] \in Nat /\ f[k] < Place[k]
<1> DEFINE S == {k \in Nat : k <= n => f[k] \in Nat /\ f[k] < Place[k]}
<1>1. 0 \in S
  BY SumStep, PlaceType
<1>2. ASSUME NEW k \in Nat, k < n, k \in S
      PROVE  k + 1 \in S
  <2>1. k + 1 \in 1..n /\ k \in 0..7 /\ k \in 0..8
    BY <1>2
  <2>2. f[k] \in Nat /\ f[k] < Place[k]
    BY <1>2
  <2>3. digits[k + 1] \in Nat /\ digits[k + 1] <= Base - 1
    BY <2>1, BaseAssumption DEF Digits
  <2>4. f[k + 1] = f[k] + digits[k + 1] * Place[k]
    BY <1>2, SumStep
  <2>5. Place[k] \in Nat /\ Place[k + 1] = Base * Place[k]
    BY <2>1, PlaceType
  <2>6. \A a, b, P \in Nat : a < P /\ b <= Base - 1 => a + b * P \in Nat /\ a + b * P < Base * P
    <3>1. TAKE a, b, P \in Nat
    <3>2. HAVE a < P /\ b <= Base - 1
    <3>3. b * P <= (Base - 1) * P
      BY <3>2, BaseAssumption, Z3T(30)
    <3>4. (Base - 1) * P = Base * P - P /\ b * P \in Nat /\ Base * P \in Nat
      BY BaseAssumption, Z3T(30)
    <3>. QED
      BY <3>2, <3>3, <3>4
  <2>7. f[k + 1] \in Nat /\ f[k + 1] < Place[k + 1]
    BY <2>2, <2>3, <2>4, <2>5, <2>6
  <2>. QED
    BY <2>7
<1>3. \A k \in 0..n : k \in S
  <2> HIDE DEF S
  <2>. QED
    BY <1>1, <1>2, UpTo
<1>. QED
  BY <1>3

\* A digit e at place P in front of a number q at the next place, with a
\* below them: what is above a is a multiple of P, and a number.
DigitInFront(a, e, P, B, q) ==
    /\ (a + e * P) + (B * P) * q = a + P * (e + B * q)
    /\ (a + e * P) + (B * P) * q = P * (B * q + e) + a
    /\ e + B * q \in Nat /\ B * q + e \in Nat

LEMMA DigitFactors ==
    ASSUME NEW a \in Nat, NEW e \in Nat, NEW P \in Nat, NEW B \in Nat, NEW q \in Nat
    PROVE  DigitInFront(a, e, P, B, q)
<1>1. (a + e * P) + (B * P) * q = a + P * (e + B * q)
  BY Z3T(30)
<1>2. (a + e * P) + (B * P) * q = P * (B * q + e) + a
  BY Z3T(30)
<1>3. e + B * q \in Nat /\ B * q + e \in Nat
  BY Z3T(30)
<1>. QED
  BY <1>1, <1>2, <1>3, Zenon DEF DigitInFront

\* What follows k digits is a multiple of their place.
Splits(f, n) == \A k \in 0..n : \E q \in Nat : f[n] = f[k] + Place[k] * q

LEMMA SumSplit ==
    ASSUME NEW digits, NEW n \in 0..8, NEW f, IsSum(f, digits, n),
           \A k \in 1..n : digits[k] \in Digits
    PROVE  Splits(f, n)
<1> DEFINE S == {k \in Nat : k <= n => \E q \in Nat : f[n] = f[n - k] + Place[n - k] * q}
<1>0. \A k \in 0..n : f[k] \in Nat /\ k \in 0..8 /\ Place[k] \in Nat
  BY SumBounded, PlaceType, SMTT(30)
<1>1. 0 \in S
  <2>1. f[n] = f[n] + Place[n] * 0 /\ n - 0 = n
    BY <1>0
  <2>. QED
    BY <2>1
<1>2. ASSUME NEW k \in Nat, k < n, k \in S
      PROVE  k + 1 \in S
  <2> DEFINE j == n - (k + 1)
  <2>1. j \in Nat /\ j < n /\ j + 1 = n - k /\ j \in 0..n /\ j \in 0..7 /\ j + 1 \in 1..n
    BY <1>2
  <2> HIDE DEF j
  <2>2. PICK q \in Nat : f[n] = f[j + 1] + Place[j + 1] * q
    BY <1>2, <2>1
  <2>3. f[j + 1] = f[j] + digits[j + 1] * Place[j]
    BY <2>1, SumStep
  <2>4. Place[j + 1] = Base * Place[j] /\ Place[j] \in Nat /\ f[j] \in Nat
    BY <1>0, <2>1, PlaceType
  <2>5. digits[j + 1] \in Nat /\ Base \in Nat
    BY <2>1, BaseAssumption DEF Digits
  <2>6. (f[j] + digits[j + 1] * Place[j]) + (Base * Place[j]) * q
          = f[j] + Place[j] * (digits[j + 1] + Base * q)
        /\ digits[j + 1] + Base * q \in Nat
    <3>1. f[j] \in Nat
      BY <2>4
    <3>2. digits[j + 1] \in Nat
      BY <2>5
    <3>3. Place[j] \in Nat
      BY <2>4
    <3>4. Base \in Nat
      BY <2>5
    <3>5. DigitInFront(f[j], digits[j + 1], Place[j], Base, q)
      BY <3>1, <3>2, <3>3, <3>4, DigitFactors, Zenon
    <3>. QED
      BY <3>5, Zenon DEF DigitInFront
  <2>7. \E r \in Nat : f[n] = f[j] + Place[j] * r
    <3>1. f[n] = f[j] + Place[j] * (digits[j + 1] + Base * q)
      BY <2>2, <2>3, <2>4, <2>6, Zenon
    <3>. QED
      BY <2>6, <3>1, Zenon
  <2>. QED
    BY <2>7 DEF j
<1>3. \A k \in 0..n : k \in S
  <2> HIDE DEF S
  <2>. QED
    BY <1>1, <1>2, UpTo
<1>4. ASSUME NEW k \in 0..n
      PROVE  \E q \in Nat : f[n] = f[k] + Place[k] * q
  <2>1. n - k \in 0..n /\ n - (n - k) = k /\ n - k <= n
    OBVIOUS
  <2>. QED
    BY <1>3, <2>1
<1>. QED
  BY <1>4 DEF Splits

\* Digits are those of the number that is read from them.
THEOREM NumberKeepsDigits ==
    ASSUME NEW d \in Seq(Digits), Len(d) \in 0..8
    PROVE  /\ serialize(deserialize(d), Len(d)) = d
           /\ deserialize(d) \in Nat /\ deserialize(d) < Place[Len(d)]
<1> DEFINE n == Len(d)
           x == deserialize(d)
<1>1. \A k \in 1..n : d[k] \in Digits
  BY ElementOfSeq, Zenon
<1>2. n \in 0..8 /\ n \in Nat
  OBVIOUS
<1>3. PICK f : IsSum(f, d, n) /\ x = f[n]
  BY <1>2, Deserialized
<1>4. x \in Nat /\ x < Place[n]
  <2> HIDE DEF n, x
  <2>1. n \in 0..n
    BY <1>2
  <2>. QED
    BY <1>1, <1>2, <1>3, <2>1, SumBounded
<1>4a. \A m \in 0..n : \E q \in Nat : f[n] = f[m] + Place[m] * q
  <2> HIDE DEF n, x
  <2>1. Splits(f, n)
    BY <1>1, <1>2, <1>3, SumSplit
  <2>. QED
    BY <2>1 DEF Splits
<1> HIDE DEF n, x
<1>5. ASSUME NEW k \in 1..n
      PROVE  (x \div Place[k - 1]) % Base = d[k]
  <2> DEFINE j == k - 1
  <2>1. j \in Nat /\ j + 1 = k /\ j < n /\ j \in 0..n /\ k \in 0..n /\ j \in 0..7 /\ j \in 0..8
    BY <1>2
  <2> HIDE DEF j
  <2>2. PICK q \in Nat : f[n] = f[k] + Place[k] * q
    BY <1>4a, <2>1, Zenon
  <2>3. f[k] = f[j] + d[k] * Place[j]
    BY <1>2, <1>3, <2>1, SumStep
  <2>4. f[j] \in Nat /\ f[j] < Place[j]
    BY <1>1, <1>2, <1>3, <2>1, SumBounded
  <2>5. Place[k] = Base * Place[j] /\ Place[j] \in Nat \ {0}
    BY <2>1, PlaceType
  <2>6. d[k] \in Nat /\ d[k] < Base /\ Base \in Nat \ {0}
    BY <1>1, BaseAssumption DEF Digits
  <2>7. (f[j] + d[k] * Place[j]) + (Base * Place[j]) * q
          = Place[j] * (Base * q + d[k]) + f[j]
        /\ Base * q + d[k] \in Nat
    <3>1. f[j] \in Nat
      BY <2>4
    <3>2. d[k] \in Nat
      BY <2>6
    <3>3. Place[j] \in Nat
      BY <2>5
    <3>4. Base \in Nat
      BY <2>6
    <3>5. DigitInFront(f[j], d[k], Place[j], Base, q)
      BY <3>1, <3>2, <3>3, <3>4, DigitFactors, Zenon
    <3>. QED
      BY <3>5, Zenon DEF DigitInFront
  <2>8. x = Place[j] * (Base * q + d[k]) + f[j] /\ Base * q + d[k] \in Nat
    BY <1>3, <2>2, <2>3, <2>5, <2>7, Zenon
  <2>9. x \div Place[j] = Base * q + d[k]
    BY <2>4, <2>5, <2>8, DivisionUnique
  <2>10. (Base * q + d[k]) % Base = d[k]
    BY <2>6, DivisionUnique
  <2>. QED
    BY <2>9, <2>10 DEF j
<1>6. serialize(x, n) \in Seq(Digits) /\ Len(serialize(x, n)) = n
  BY <1>2, <1>4, SerializeType, Zenon DEF Digits
<1>7. \A k \in 1..n : serialize(x, n)[k] = d[k]
  BY <1>5, Zenon DEF serialize
<1>8. Len(d) = n /\ d \in Seq(Digits)
  BY DEF n
<1>9. serialize(x, n) = d
  BY <1>6, <1>7, <1>8, SeqEqual, Zenon
<1>. QED
  BY <1>4, <1>9 DEF n, x

-----------------------------------------------------------------------------
(* The order of the host's memory. *)

LEMMA Reversed ==
    ASSUME NEW s \in Seq(Digits)
    PROVE  /\ Reverse(s) \in Seq(Digits) /\ Len(Reverse(s)) = Len(s)
           /\ Reverse(Reverse(s)) = s
<1> DEFINE n == Len(s)
           r == Reverse(s)
<1>1. n \in Nat /\ \A k \in 1..n : s[k] \in Digits
  BY LenProperties, ElementOfSeq, Zenon
<1>2. r = [k \in 1..n |-> s[(n - k) + 1]]
  BY Zenon DEF Reverse
<1>3. \A k \in 1..n : (n - k) + 1 \in 1..n /\ (n - ((n - k) + 1)) + 1 = k
  BY <1>1
<1> HIDE DEF n
<1>4. r \in [1..n -> Digits]
  BY <1>1, <1>2, <1>3, Zenon
<1>5. \A k \in 1..n : r[k] = s[(n - k) + 1]
  BY <1>2, Zenon
<1> HIDE DEF r
<1>6. r \in Seq(Digits)
  <2>1. n \in Nat
    BY <1>1, Zenon
  <2>. QED
    BY <1>4, <2>1
<1>7. Len(r) = n
  <2>1. n \in Nat /\ DOMAIN r = 1..n
    BY <1>1, <1>4, Zenon
  <2>2. Len(r) \in Nat /\ DOMAIN r = 1..Len(r)
    BY <1>6, LenProperties, Zenon
  <2>. QED
    BY <2>1, <2>2
<1>8. Reverse(r) = [k \in 1..n |-> r[(n - k) + 1]]
  BY <1>7, Zenon DEF Reverse
<1>9. \A k \in 1..n : r[(n - k) + 1] = s[k]
  BY <1>3, <1>5, Zenon
<1>10. s = [k \in 1..n |-> s[k]]
  BY <1>1, LenProperties DEF n
<1>11. Reverse(r) = s
  BY <1>8, <1>9, <1>10, Zenon
<1>. QED
  BY <1>6, <1>7, <1>11 DEF n, r

\* endian_converter.cpp, lines 78 to 112: whatever the order of the host's
\* memory is, the bytes of a swapped double are the digits from the lowest on,
\* as the protocol has them, and a double is swapped back from these.
THEOREM DoublesLittleEndian ==
    ASSUME NEW x \in Nat, x < Place[8]
    PROVE  /\ Memory(swap_endian(x), 8) = serialize(x, 8)
           /\ swap_endian(FromMemory(serialize(x, 8))) = x
           /\ swap_endian(x) \in Nat
<1> DEFINE s == serialize(x, 8)
<1>1. s \in Seq(Digits) /\ Len(s) = 8 /\ 8 \in 0..8
  <2>1. 8 \in 0..8
    OBVIOUS
  <2>. QED
    BY <2>1, SerializeType, Zenon DEF Digits
<1>2. deserialize(s) = x
  <2>1. deserialize(s) = x % Place[8] /\ Place[8] \in Nat \ {0}
    BY <1>1, DigitsKeepNumber, PlaceType, Zenon
  <2>. QED
    BY <2>1, SmallRemainder, Zenon
<1> HIDE DEF s
<1>3. CASE ~BigEndian
  BY <1>2, <1>3, Zenon DEF Memory, FromMemory, swap_endian, s
<1>4. CASE BigEndian
  <2> DEFINE r == Reverse(s)
             y == deserialize(r)
  <2>1. r \in Seq(Digits) /\ Len(r) = 8 /\ Reverse(r) = s
    BY <1>1, Reversed, Zenon
  <2> HIDE DEF r
  <2>2. y \in Nat /\ serialize(y, 8) = r
    BY <1>1, <2>1, NumberKeepsDigits, Zenon
  <2>3. FromMemory(s) = y
    BY <1>4, Zenon DEF FromMemory, r
  <2>4. swap_endian(x) = y
    <3>1. Memory(x, 8) = r
      BY <1>4, Zenon DEF Memory, r, s
    <3>. QED
      BY <1>4, <2>1, <2>3, <3>1, Zenon DEF swap_endian
  <2>5. Memory(y, 8) = s
    BY <1>4, <2>1, <2>2, Zenon DEF Memory
  <2>6. swap_endian(y) = x
    <3>1. FromMemory(Reverse(s)) = deserialize(s)
      BY <1>4, <2>1, Zenon DEF FromMemory, r
    <3>. QED
      BY <1>2, <1>4, <2>5, <3>1, Zenon DEF swap_endian
  <2>. QED
    BY <2>2, <2>3, <2>4, <2>5, <2>6, Zenon DEF s
<1>. QED
  BY <1>3, <1>4

\* Half of the digits in memory, where the highest come first, are the other
\* half of the number, reversed.
LEMMA ReversedWords ==
    ASSUME NEW d \in Seq(Digits), Len(d) = 8
    PROVE  /\ Reverse(Word(Reverse(d), 0)) = Word(d, 1)
           /\ Reverse(Word(Reverse(d), 1)) = Word(d, 0)
<1> DEFINE r == Reverse(d)
           low == SubSeq(d, 1, 4)
           high == SubSeq(d, 5, 8)
           first == SubSeq(r, 1, 4)
           second == SubSeq(r, 5, 8)
<1>1. r \in Seq(Digits) /\ Len(r) = 8
  BY Reversed
<1>2. \A k \in 1..8 : r[k] = d[(8 - k) + 1]
  BY DEF Reverse
<1>3. /\ Word(d, 0) = low /\ Word(d, 1) = high
      /\ Word(r, 0) = first /\ Word(r, 1) = second
  BY DEF Word, WordBytes
<1>4. (\A k \in 1..8 : d[k] \in Digits) /\ (\A k \in 1..8 : r[k] \in Digits)
  BY <1>1, ElementOfSeq, Zenon
<1> HIDE DEF r
<1>5. /\ low \in Seq(Digits) /\ Len(low) = 4 /\ \A k \in 1..4 : low[k] = d[k]
      /\ high \in Seq(Digits) /\ Len(high) = 4 /\ \A k \in 1..4 : high[k] = d[k + 4]
  BY <1>4
<1>6. /\ first \in Seq(Digits) /\ Len(first) = 4 /\ \A k \in 1..4 : first[k] = r[k]
      /\ second \in Seq(Digits) /\ Len(second) = 4 /\ \A k \in 1..4 : second[k] = r[k + 4]
  BY <1>4
<1> HIDE DEF low, high, first, second
<1>7. ASSUME NEW s \in Seq(Digits), Len(s) = 4
      PROVE  /\ Reverse(s) \in Seq(Digits) /\ Len(Reverse(s)) = 4
             /\ \A k \in 1..4 : Reverse(s)[k] = s[(4 - k) + 1]
  <2>1. \A k \in 1..4 : Reverse(s)[k] = s[(4 - k) + 1]
    BY <1>7, Zenon DEF Reverse
  <2>. QED
    BY <1>7, <2>1, Reversed
<1>8. ASSUME NEW s \in Seq(Digits), NEW t \in Seq(Digits), Len(s) = 4, Len(t) = 4,
             \A k \in 1..4 : t[k] = s[(4 - k) + 1]
      PROVE  Reverse(s) = t
  <2> DEFINE u == Reverse(s)
  <2>1. u \in Seq(Digits) /\ Len(u) = 4 /\ \A k \in 1..4 : u[k] = s[(4 - k) + 1]
    BY <1>7, <1>8
  <2> HIDE DEF u
  <2>2. Len(u) = Len(t) /\ \A k \in 1..Len(u) : u[k] = t[k]
    BY <1>8, <2>1, Zenon
  <2>3. u \in Seq(Digits)
    BY <2>1
  <2>4. u = t
    BY <2>2, <2>3, SeqEqual, Zenon
  <2>. QED
    BY <2>4 DEF u
<1>9. Reverse(first) = high
  <2>1. ASSUME NEW k \in 1..4
        PROVE  high[k] = first[(4 - k) + 1]
    <3>1. (4 - k) + 1 \in 1..4 /\ (4 - k) + 1 \in 1..8 /\ (8 - ((4 - k) + 1)) + 1 = k + 4
      OBVIOUS
    <3>. QED
      BY <1>2, <1>5, <1>6, <3>1
  <2>2. /\ first \in Seq(Digits) /\ Len(first) = 4
        /\ high \in Seq(Digits) /\ Len(high) = 4
    BY <1>5, <1>6
  <2>. QED
    BY <1>8, <2>1, <2>2
<1>10. Reverse(second) = low
  <2>1. ASSUME NEW k \in 1..4
        PROVE  low[k] = second[(4 - k) + 1]
    <3>1. /\ (4 - k) + 1 \in 1..4 /\ ((4 - k) + 1) + 4 \in 1..8
          /\ (8 - (((4 - k) + 1) + 4)) + 1 = k
      OBVIOUS
    <3>. QED
      BY <1>2, <1>5, <1>6, <3>1
  <2>2. /\ second \in Seq(Digits) /\ Len(second) = 4
        /\ low \in Seq(Digits) /\ Len(low) = 4
    BY <1>5, <1>6
  <2>. QED
    BY <1>8, <2>1, <2>2
<1>. QED
  BY <1>3, <1>9, <1>10, Zenon DEF r

\* rpacket.cpp, lines 29 to 38, on a big-endian host: the union has the high
\* word of the length first, the reader of the header takes the words for each
\* other, and of a length that fits in one word it finds Place[4] times as much.
THEOREM PacketLengthExchanged ==
    ASSUME NEW cmd \in Nat, cmd < Place[4], NEW n \in Nat, n < Place[8],
           BigEndian
    PROVE  LET h == QAP1HeaderOf(HeaderBytes(PacketHeader(cmd, n)))
           IN  /\ getCommand(h) = cmd
               /\ getOffset(h) = 0
               /\ getLength(h) = (n \div Place[4]) + Place[4] * (n % Place[4])
<1> DEFINE d == serialize(n, 8)
           low == deserialize(Word(d, 0))
           high == deserialize(Word(d, 1))
<1>1. PacketHeader(cmd, n) = QAP1Header(cmd, high, 0, low)
  <2>1. WordBytes = 4 /\ 2 * WordBytes = 8 /\ 8 \in 0..8
    BY DEF WordBytes
  <2>2. d \in Seq(Digits) /\ Len(d) = 8
    BY <2>1, SerializeType, Zenon DEF Digits
  <2>3. LengthWord(n, 0) = high /\ LengthWord(n, 1) = low
    BY <2>1, <2>2, ReversedWords, Zenon DEF LengthWord, Memory, FromMemory
  <2>. QED
    BY <2>3, Zenon DEF PacketHeader
<1>2. /\ low \in Nat /\ low < Place[4] /\ low = n % Place[4]
      /\ high \in Nat /\ high < Place[4] /\ high = n \div Place[4]
  BY ValuesOfHalves, Zenon
<1> HIDE DEF d, low, high
<1>3. LET h == QAP1HeaderOf(HeaderBytes(QAP1Header(cmd, high, 0, low)))
      IN  getCommand(h) = cmd /\ getOffset(h) = 0 /\ getLength(h) = high + Place[4] * low
  BY <1>2, WordsFound
<1>. QED
  BY <1>1, <1>2, <1>3, Zenon

-----------------------------------------------------------------------------
(* R's missing values. *)

\* What the eight digits of the missing double are worth: 0x7a2 at the low end
\* and, at the high end, a NaN whose quiet bit is clear.
LEMMA DoubleNADigits ==
    ASSUME Base >= 4
    PROVE  LET high == (Base - 2) + Base * (Base \div 2 - 1)
           IN  /\ DoubleNA = <<Place[6] * high + (Base + 2)>>
               /\ high \in Nat /\ high % 2 = 0
               /\ Base + 2 < Place[6]
<1> DEFINE b == Base
           c == Base \div 2
           high == (b - 2) + b * (c - 1)
           d == <<2, 1, 0, 0, 0, 0, Base - 2, Base \div 2 - 1>>
<1>1. /\ b \in Nat /\ c \in Nat /\ b = 2 * c /\ c >= 2
  BY BaseAssumption
<1>2. /\ Place[0] = 1 /\ Place[1] = b * Place[0] /\ Place[2] = b * Place[1]
      /\ Place[3] = b * Place[2] /\ Place[7] = b * Place[6]
      /\ Place[1] \in Nat /\ Place[2] \in Nat /\ Place[3] \in Nat
      /\ Place[4] \in Nat /\ Place[5] \in Nat /\ Place[6] \in Nat
      /\ Place[7] \in Nat
      /\ Place[4] = b * Place[3] /\ Place[5] = b * Place[4] /\ Place[6] = b * Place[5]
  BY PlaceType, SMT
<1>3. Len(d) = 8 /\ Len(d) \in Nat
  OBVIOUS
<1>4. PICK f : IsSum(f, d, 8) /\ deserialize(d) = f[8]
  BY <1>3, Deserialized
<1>5. /\ f[0] = 0
      /\ \A k \in Nat : k < 8 => f[k + 1] = f[k] + d[k + 1] * Place[k]
  BY <1>4, SumStep
<1>6. f[6] = 2 + b
  <2>1. f[1] = 2
    BY <1>2, <1>5
  <2>2. f[2] = 2 + b
    BY <1>1, <1>2, <1>5, <2>1
  <2>3. f[3] = f[2] /\ f[4] = f[3]
    BY <1>1, <1>2, <1>5, <2>2
  <2>4. f[5] = f[4] /\ f[6] = f[5]
    BY <1>1, <1>2, <1>5, <2>2, <2>3
  <2>. QED
    BY <2>2, <2>3, <2>4
<1>7. f[8] = (2 + b) + (b - 2) * Place[6] + (c - 1) * Place[7]
  <2>1. f[7] = f[6] + (b - 2) * Place[6]
    BY <1>5
  <2>2. f[8] = f[7] + (c - 1) * Place[7]
    BY <1>5
  <2>. QED
    BY <1>6, <2>1, <2>2
<1>8. f[8] = Place[6] * high + (b + 2)
  <2>1. \A P \in Nat : (b - 2) * P + (c - 1) * (b * P) = P * high
    BY <1>1, Z3T(30)
  <2>2. (b - 2) * Place[6] + (c - 1) * Place[7] = Place[6] * high
    BY <1>2, <2>1
  <2>3. /\ (b - 2) * Place[6] \in Int /\ (c - 1) * Place[7] \in Int
        /\ Place[6] * high \in Int
    BY <1>1, <1>2
  <2>. QED
    BY <1>1, <1>7, <2>2, <2>3
<1>9. high \in Nat /\ high % 2 = 0
  <2>1. high = 2 * ((c - 1) + c * (c - 1))
    BY <1>1, Z3T(30)
  <2>2. c * (c - 1) \in Nat
    BY <1>1
  <2>3. (c - 1) + c * (c - 1) \in Nat
    BY <1>1, <2>2
  <2>. QED
    BY <2>1, <2>3
<1>10. b + 2 < Place[6]
  <2>1. \A P \in Nat : b * P >= 4 * P
    BY <1>1, Z3T(30)
  <2>2. Place[2] >= 4 * b
    BY <1>1, <1>2, <2>1
  <2>3. Place[3] >= Place[2] /\ Place[4] >= Place[3] /\ Place[5] >= Place[4]
        /\ Place[6] >= Place[5]
    BY <1>2, <2>1
  <2>. QED
    BY <1>1, <1>2, <2>2, <2>3
<1>11. DoubleNA = <<Place[6] * high + (Base + 2)>>
  BY <1>4, <1>8 DEF DoubleNA
<1>. QED
  BY <1>9, <1>10, <1>11

\* The quiet bit of a number.
LEMMA Quieted ==
    ASSUME NEW P \in Nat \ {0}, NEW n \in Nat, NEW high \in Nat, NEW low \in Nat,
           high % 2 = 0, low < P
    PROVE  n - P * ((n \div P) % 2) = P * high + low
             <=> n \in {P * high + low, P * high + low + P}
<1> DEFINE q == n \div P
           r == n % P
           x == P * high + low
<1>1. q \in Nat /\ r \in Nat /\ r < P /\ n = P * q + r
  BY Division
<1>2. (P * high + low) \div P = high
  BY DivisionUnique
<1>3. (P * (high + 1) + low) \div P = high + 1
  BY DivisionUnique
<1>4. P * (high + 1) + low = x + P /\ P * high \in Nat /\ P * q \in Nat
  BY <1>1
<1>5. ASSUME n \in {x, x + P}
      PROVE  n - P * ((n \div P) % 2) = x
  <2>1. CASE n = x
    BY <1>2, <1>4, <2>1
  <2>2. CASE n = x + P
    <3>1. (n \div P) % 2 = 1
      BY <1>3, <1>4, <2>2
    <3>. QED
      BY <1>4, <2>2, <3>1
  <2>. QED
    BY <1>5, <2>1, <2>2
<1>6. ASSUME n - P * (q % 2) = x
      PROVE  n \in {x, x + P}
  <2>1. q % 2 \in 0..1
    BY <1>1
  <2>2. CASE q % 2 = 0
    BY <1>1, <1>4, <1>6, <2>2
  <2>3. CASE q % 2 = 1
    BY <1>1, <1>4, <1>6, <2>3
  <2>. QED
    BY <2>1, <2>2, <2>3
<1>. QED
  BY <1>5, <1>6

\* rexp_double.h: the missing double is recognised whether or not a processor
\* has set its quiet bit on the way, and no other double is.
LEMMA MissingDoubles ==
    ASSUME Base >= 4
    PROVE  /\ QuietBit \in Nat \ {0}
           /\ \E d \in Nat :
                /\ DoubleNA = <<d>> /\ d >= QuietBit
                /\ \A n \in Nat : isRserve_NA(<<n>>) <=> n \in {d, d + QuietBit}
<1> DEFINE high == (Base - 2) + Base * (Base \div 2 - 1)
           low == Base + 2
           P == Place[6]
           d == P * high + low
<1>1. /\ DoubleNA = <<d>>
      /\ high \in Nat /\ high % 2 = 0 /\ low < P /\ low \in Nat
      /\ P \in Nat \ {0}
  BY DoubleNADigits, BaseAssumption, PlaceType
<1>2. high >= 2
  BY BaseAssumption, Z3T(30)
<1>3. QuietBit = P
  BY DEF QuietBit
<1> HIDE DEF high, low, P
<1>4. d \in Nat /\ d >= P
  <2>1. P * high >= P /\ P * high \in Nat
    BY <1>1, <1>2, Z3T(30)
  <2>. QED
    BY <1>1, <2>1
<1>5. ASSUME NEW n \in Nat
      PROVE  isRserve_NA(<<n>>) <=> n \in {d, d + QuietBit}
  <2>1. n - P * ((n \div P) % 2) = d <=> n \in {d, d + P}
    BY <1>1, Quieted
  <2>2. isRserve_NA(<<n>>) <=> n - P * ((n \div P) % 2) = d
    BY <1>1, <1>3 DEF isRserve_NA
  <2>. QED
    BY <1>3, <2>1, <2>2
<1>. QED
  BY <1>1, <1>3, <1>4, <1>5
====
