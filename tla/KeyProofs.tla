---- MODULE KeyProofs ----
(***************************************************************************)
(* Keys and their numbers: Less is a strict total order of the words over  *)
(* any interval of bits, that of the numbers they stand for; Minus is      *)
(* subtraction; encoding and decoding is the identity, and so is storing   *)
(* and reading, in two dimensions of every key, in three of those whose    *)
(* numerics lose no digits.                                                *)
(***************************************************************************)
EXTENDS BitKey, WellFoundedInduction, TLAPS

\* A nonempty set of bit positions has a highest one.
LEMMA HighestBit ==
  ASSUME NEW n \in Nat, NEW S \in SUBSET (0 .. n), S # {}
  PROVE  \E m \in S : \A j \in S : j <= m
<1> DEFINE T == {n - j : j \in S}
<1>1. T \subseteq Nat /\ T # {}
  <2>1. \A j \in S : n - j \in Nat
    OBVIOUS
  <2>2. T \subseteq Nat
    BY <2>1
  <2>3. PICK j \in S : TRUE
    OBVIOUS
  <2>4. n - j \in T
    BY <2>3
  <2> QED BY <2>2, <2>4
<1>2. PICK t \in T : \A y \in T : ~ (<<y, t>> \in OpToRel(<, Nat))
  <2> HIDE DEF T
  <2> QED BY <1>1, WFMin, NatLessThanWellFounded
<1>3. PICK m \in S : t = n - m
  BY <1>2
<1>4. ASSUME NEW j \in S PROVE j <= m
  <2>1. n - j \in T
    OBVIOUS
  <2>2. ~ (<<n - j, t>> \in OpToRel(<, Nat))
    BY <1>2, <2>1
  <2>3. n - j \in Nat /\ t \in Nat
    BY <1>1, <1>2, <2>1
  <2>4. ~ (n - j < t)
    BY <2>2, <2>3 DEF OpToRel
  <2> QED BY <2>4, <1>3
<1> QED BY <1>4

\* No word is less than itself.
LEMMA LessIrreflexive ==
  ASSUME NEW w PROVE ~ Less(w, w)
BY DEF Less

LEMMA LessTransitive ==
  ASSUME NEW u \in SUBSET Int, NEW v \in SUBSET Int, NEW w \in SUBSET Int,
         Less(u, v), Less(v, w)
  PROVE  Less(u, w)
<1>1. PICK i \in v \ u : \A j \in u \cup v : j > i => (j \in u <=> j \in v)
  BY DEF Less
<1>2. PICK k \in w \ v : \A j \in v \cup w : j > k => (j \in v <=> j \in w)
  BY DEF Less
<1>3. CASE i > k
  <2>1. i \in w \ u
    BY <1>1, <1>2, <1>3
  <2>2. \A j \in u \cup w : j > i => (j \in u <=> j \in w)
    BY <1>1, <1>2, <1>3
  <2> QED BY <2>1, <2>2 DEF Less
<1>4. CASE k > i
  <2>1. k \in w \ u
    BY <1>1, <1>2, <1>4
  <2>2. \A j \in u \cup w : j > k => (j \in u <=> j \in w)
    BY <1>1, <1>2, <1>4
  <2> QED BY <2>1, <2>2 DEF Less
<1> QED BY <1>1, <1>2, <1>3, <1>4

LEMMA LessTotal ==
  ASSUME NEW n \in Nat, NEW u \in SUBSET (0 .. n), NEW v \in SUBSET (0 .. n), u # v
  PROVE  Less(u, v) \/ Less(v, u)
<1> DEFINE D == (u \ v) \cup (v \ u)
<1>1. D \in SUBSET (0 .. n) /\ D # {}
  OBVIOUS
<1>2. PICK m \in D : \A j \in D : j <= m
  <2> HIDE DEF D
  <2> QED BY <1>1, HighestBit
<1>3. \A j \in u \cup v : j > m => (j \in u <=> j \in v)
  BY <1>2
<1>4. CASE m \in v
  BY <1>2, <1>3, <1>4 DEF Less
<1>5. CASE m \in u
  BY <1>2, <1>3, <1>5 DEF Less
<1> QED BY <1>2, <1>4, <1>5

----------------------------------------------------------------------------
\* Division by what no solver knows to be a number of its own.
LEMMA DivSmall == ASSUME NEW n \in Nat, NEW b \in Nat, b < n PROVE b \div n = 0
OBVIOUS

LEMMA DivBig == ASSUME NEW n \in Nat, n > 0, NEW b \in Nat, b >= n PROVE b \div n > 0
OBVIOUS

LEMMA DivBelow ==
  ASSUME NEW n \in Nat, n > 0, NEW b \in Nat PROVE b \div n \in Nat /\ n * (b \div n) <= b
OBVIOUS

LEMMA DivLess ==
  ASSUME NEW n \in Nat, n > 0, NEW m \in Nat, NEW b \in Nat, b < n * m PROVE b \div n < m
<1> SUFFICES ASSUME b \div n >= m PROVE FALSE
  BY DivBelow
<1>1. n * (b \div n) >= n * m
  BY DivBelow
<1> QED BY <1>1, DivBelow

LEMMA DivExact ==
  ASSUME NEW n \in Nat, n > 0, NEW c \in Nat, c % n = 0
  PROVE  c \div n \in Nat /\ c = n * (c \div n)
OBVIOUS

----------------------------------------------------------------------------
\* The coordinate a bit of a key belongs to, and the bit of a key that is bit j
\* of coordinate d.
Axis(b)  == IF Dims = 2 THEN (b % 2) + 1 ELSE 3 - (b % 3)
At(d, j) == IF Dims = 2 THEN 2 * j + (d - 1) ELSE 3 * j + (3 - d)

LEMMA KeyBitsRange == KeyBits \in Nat /\ KeyBits > 1 /\ KeyBits < 65536
<1>1. CASE Dims = 2
  BY <1>1, WidthAssumption DEF KeyBits
<1>2. CASE Dims = 3
  BY <1>2, WidthAssumption DEF KeyBits
<1> QED BY <1>1, <1>2, WidthAssumption

LEMMA BitPlaces ==
  /\ \A b \in Bits : Axis(b) \in 1 .. Dims /\ b \div Dims \in 0 .. CoordBits - 1
                     /\ At(Axis(b), b \div Dims) = b
  /\ \A d \in 1 .. Dims, j \in 0 .. CoordBits - 1 :
       At(d, j) \in Bits /\ Axis(At(d, j)) = d /\ At(d, j) \div Dims = j
  /\ \A d \in 1 .. Dims, i, j \in 0 .. CoordBits - 1 : i > j <=> At(d, i) > At(d, j)
  /\ \A b, c \in Bits : Axis(b) = Axis(c) <=> b % Dims = c % Dims
<1>1. CASE Dims = 2
  <2>1. CoordBits \in Nat /\ Bits = 0 .. 2 * CoordBits - 1
    BY <1>1, WidthAssumption DEF Bits, KeyBits
  <2> QED BY <1>1, <2>1 DEF Axis, At
<1>2. CASE Dims = 3
  <2>1. CoordBits \in Nat /\ Bits = 0 .. 3 * CoordBits - 1
    BY <1>2, WidthAssumption DEF Bits, KeyBits
  <2> QED BY <1>2, <2>1 DEF Axis, At
<1> QED BY <1>1, <1>2, WidthAssumption

\* The key of a point, with the bits of its coordinates at their places.
KeyOfPoint(p) == {b \in Bits : b \div Dims \in p[Axis(b)]}

LEMMA CoordsOfKey ==
  ASSUME NEW k
  PROVE  bitKey_toCoords(k) = [d \in 1 .. Dims |-> {j \in 0 .. CoordBits - 1 : At(d, j) \in k}]
<1>1. CASE Dims = 2
  BY <1>1 DEF bitKey_toCoords, bit2Key_toCoords, At
<1>2. CASE Dims = 3
  BY <1>2 DEF bitKey_toCoords, bit3Key_toCoords, At
<1> QED BY <1>1, <1>2, WidthAssumption

LEMMA CoordsArePoint == ASSUME NEW k PROVE bitKey_toCoords(k) \in Point
BY CoordsOfKey DEF Point, Coord

\* Decoding a key gives the coordinates it was made from.
LEMMA DecodeEncode ==
  ASSUME NEW p \in Point
  PROVE  KeyOfPoint(p) \in Key /\ bitKey_toCoords(KeyOfPoint(p)) = p
<1> DEFINE k == KeyOfPoint(p)
<1>1. p = [d \in 1 .. Dims |-> p[d]] /\ \A d \in 1 .. Dims : p[d] \subseteq 0 .. CoordBits - 1
  BY DEF Point, Coord
<1>2. ASSUME NEW j \in 0 .. CoordBits - 1, NEW d \in 1 .. Dims
      PROVE  At(d, j) \in k <=> j \in p[d]
  BY BitPlaces DEF KeyOfPoint
<1>3. k \in Key
  BY DEF KeyOfPoint, Key
<1> HIDE DEF k
<1>4. \A d \in 1 .. Dims : {j \in 0 .. CoordBits - 1 : At(d, j) \in k} = p[d]
  BY <1>1, <1>2
<1>5. bitKey_toCoords(k) = p
  BY <1>1, <1>4, CoordsOfKey
<1> QED BY <1>3, <1>5 DEF k

(***************************************************************************)
(* In three dimensions fromCoords shifts a turn that begins past the first *)
(* word by too much.  Of a point that fits, such turns have no bits.       *)
(***************************************************************************)
Fits(p) == Dims = 3 => \A i \in Turns : 3 * NibbleBits * i >= WordBits => Spread(p, i) = {}

\* The turns take every bit.
LEMMA TurnsTakeAll ==
  ASSUME Dims = 3, NEW p
  PROVE  UNION {Spread(p, i) : i \in Turns} = KeyOfPoint(p)
<1>1. /\ CoordBits \in Nat /\ NibbleBits \in Nat /\ NibbleBits > 0
      /\ Bits = 0 .. 3 * CoordBits - 1 /\ CoordBits % NibbleBits = 0
  BY WidthAssumption, NumericAssumption DEF Bits, KeyBits
<1>2. CoordBits \div NibbleBits \in Nat /\ CoordBits = NibbleBits * (CoordBits \div NibbleBits)
  BY <1>1, DivExact
<1>3. ASSUME NEW b \in Bits PROVE b \div (3 * NibbleBits) \in Turns
  <2>1. b \in Nat /\ 3 * NibbleBits \in Nat /\ 3 * NibbleBits > 0
    BY <1>1
  <2>2. b < (3 * NibbleBits) * (CoordBits \div NibbleBits)
    BY <1>1, <1>2
  <2>3. b \div (3 * NibbleBits) \in Nat /\ b \div (3 * NibbleBits) < CoordBits \div NibbleBits
    BY <1>2, <2>1, <2>2, DivBelow, DivLess
  <2> QED BY <1>2, <2>3 DEF Turns
<1>4. \A b : b \in KeyOfPoint(p) <=> b \in Bits /\ b \div 3 \in p[3 - (b % 3)]
  BY DEF KeyOfPoint, Axis
<1>5. \A i, b : b \in Spread(p, i) <=>
        b \in Bits /\ b \div (3 * NibbleBits) = i /\ b \div 3 \in p[3 - (b % 3)]
  BY DEF Spread
<1> QED BY <1>3, <1>4, <1>5

\* A point whose key is one word fits.
LEMMA LowKeyFits ==
  ASSUME NEW p, \A b \in KeyOfPoint(p) : b < WordBits
  PROVE  Fits(p)
<1> SUFFICES ASSUME Dims = 3, NEW i \in Turns, 3 * NibbleBits * i >= WordBits,
                    NEW b \in Spread(p, i)
             PROVE  FALSE
  BY DEF Fits
<1>1. b \in KeyOfPoint(p) /\ b \in Nat /\ b \div (3 * NibbleBits) = i
  BY TurnsTakeAll, KeyBitsRange DEF Spread, Bits
<1>2. 3 * NibbleBits \in Nat /\ 3 * NibbleBits > 0 /\ WordBits \in Nat
  BY NumericAssumption, WidthAssumption
<1>3. (3 * NibbleBits) * i <= b
  BY <1>1, <1>2, DivBelow
<1>4. b < WordBits
  BY <1>1
<1>5. i \in Nat /\ 3 * NibbleBits * i = (3 * NibbleBits) * i
  BY DEF Turns
<1> QED BY <1>1, <1>2, <1>3, <1>4, <1>5

\* Of a point that fits, all builds make one key.
LEMMA MadeKey ==
  ASSUME NEW p \in Point, Fits(p)
  PROVE  bitKey_fromCoords(p) = {KeyOfPoint(p)}
<1>1. CASE Dims = 2
  <2>1. bit2Key_fromCoords(p) = KeyOfPoint(p)
    BY <1>1 DEF bit2Key_fromCoords, KeyOfPoint, Axis
  <2> QED BY <1>1, <2>1 DEF bitKey_fromCoords
<1>2. CASE Dims = 3
  <2>1. ASSUME NEW w \in BOOLEAN PROVE bit3Key_fromCoords(p, w) = KeyOfPoint(p)
    <3> DEFINE past  == {i \in Turns : 3 * NibbleBits * i >= WordBits}
               spilt == IF w THEN UNION {Hi(Spread(p, i)) : i \in past} ELSE {}
    <3>1. \A i \in past : Hi(Spread(p, i)) = {}
      BY <1>2 DEF Fits, Hi
    <3>2. spilt = {}
      BY <3>1
    <3>3. bit3Key_fromCoords(p, w) = (UNION {Spread(p, i) : i \in Turns}) \cup spilt
      BY DEF bit3Key_fromCoords
    <3> HIDE DEF spilt
    <3> QED BY <1>2, <3>2, <3>3, TurnsTakeAll
  <2>2. bitKey_fromCoords(p) = {bit3Key_fromCoords(p, w) : w \in BOOLEAN}
    BY <1>2 DEF bitKey_fromCoords
  <2>3. {bit3Key_fromCoords(p, w) : w \in BOOLEAN} = {KeyOfPoint(p)}
    <3> DEFINE f(w) == bit3Key_fromCoords(p, w)
    <3>1. \A w \in BOOLEAN : f(w) = KeyOfPoint(p)
      BY <2>1
    <3>2. TRUE \in BOOLEAN
      OBVIOUS
    <3> HIDE DEF f
    <3>3. {f(w) : w \in BOOLEAN} = {KeyOfPoint(p)}
      BY <3>1, <3>2, Zenon
    <3> QED BY <3>3 DEF f
  <2> QED BY <2>2, <2>3
<1> QED BY <1>1, <1>2, WidthAssumption

\* A key of one word survives its way through a numeric.
LEMMA ReadStored ==
  ASSUME Dims = 2, NEW k \in Key
  PROVE  bitKey_fromLong(bitKey_toLong(k)) = k
<1>1. bitKey_toLong(k) = [neg |-> WordBits - 1 \in k, bits |-> k \ {WordBits - 1}]
  BY DEF bitKey_toLong, bit2Key_toLong, int8_numeric
<1>2. bitKey_fromLong(bitKey_toLong(k)) = (k \ {WordBits - 1}) \cup (IF WordBits - 1 \in k THEN {WordBits - 1} ELSE {})
  <2> DEFINE n == bitKey_toLong(k)
  <2>1. n.bits = k \ {WordBits - 1} /\ n.neg = (WordBits - 1 \in k)
    BY <1>1
  <2>2. bitKey_fromLong(n) = n.bits \cup (IF n.neg THEN {WordBits - 1} ELSE {})
    BY DEF bitKey_fromLong, bit2Key_fromLong, numeric_int8
  <2> QED BY <2>1, <2>2
<1> QED BY <1>2

----------------------------------------------------------------------------
\* Recursive functions over the natural numbers.

\* Induction: a set that holds 0 and the successor of what it holds is Nat.
LEMMA Induction ==
  ASSUME NEW A, 0 \in A, \A n \in Nat : n \in A => n + 1 \in A
  PROVE  Nat \subseteq A
<1> SUFFICES ASSUME Nat \ A # {} PROVE FALSE
  OBVIOUS
<1>1. PICK m \in Nat \ A : \A n \in Nat \ A : ~ (<<n, m>> \in OpToRel(<, Nat))
  BY NatLessThanWellFounded, WFMin
<1>2. m # 0 /\ m - 1 \in Nat /\ (m - 1) + 1 = m
  OBVIOUS
<1>3. m - 1 \in Nat \ A
  BY <1>2
<1>4. <<m - 1, m>> \in OpToRel(<, Nat)
  BY <1>2 DEF OpToRel
<1> QED BY <1>1, <1>3, <1>4

\* A sequence of values each of which is made of the one before is a function.
Iterates(f, S, c, step) ==
  f \in [Nat -> S] /\ f[0] = c /\ \A n \in Nat : f[n + 1] = step[n][f[n]]

LEMMA Recursion ==
  ASSUME NEW S, NEW c \in S, NEW step \in [Nat -> [S -> S]]
  PROVE  \E f : Iterates(f, S, c, step)
<1> DEFINE Part(n) == {g \in [0 .. n -> S] : g[0] = c /\ \A m \in 0 .. n - 1 : g[m + 1] = step[m][g[m]]}
<1>1. \A n \in Nat : \A g, h \in Part(n) : g = h
  <2> SUFFICES ASSUME NEW n \in Nat, NEW g \in Part(n), NEW h \in Part(n) PROVE g = h
    OBVIOUS
  <2> DEFINE A == {m \in Nat : m <= n => g[m] = h[m]}
  <2>1. 0 \in A
    OBVIOUS
  <2>2. \A m \in Nat : m \in A => m + 1 \in A
    OBVIOUS
  <2> HIDE DEF A
  <2>3. Nat \subseteq A
    BY <2>1, <2>2, Induction
  <2>4. \A m \in 0 .. n : g[m] = h[m]
    BY <2>3 DEF A
  <2> QED BY <2>4
<1>2. \A n \in Nat : Part(n) # {}
  <2> DEFINE A == {n \in Nat : Part(n) # {}}
  <2>1. 0 \in A
    <3>1. [i \in 0 .. 0 |-> c] \in Part(0)
      OBVIOUS
    <3> QED BY <3>1
  <2>2. ASSUME NEW n \in Nat, n \in A PROVE n + 1 \in A
    <3>1. PICK g \in Part(n) : TRUE
      BY <2>2
    <3> DEFINE h == [i \in 0 .. n + 1 |-> IF i = n + 1 THEN step[n][g[n]] ELSE g[i]]
    <3>2. h \in [0 .. n + 1 -> S] /\ h[0] = c
      OBVIOUS
    <3>3. \A m \in 0 .. n : h[m + 1] = step[m][h[m]]
      OBVIOUS
    <3>4. h \in Part(n + 1)
      BY <3>2, <3>3
    <3> HIDE DEF Part
    <3> QED BY <3>4
  <2> HIDE DEF A
  <2>3. Nat \subseteq A
    BY <2>1, <2>2, Induction
  <2> QED BY <2>3 DEF A
<1> DEFINE part == [n \in Nat |-> CHOOSE g : g \in Part(n)]
<1>3. \A n \in Nat : part[n] \in Part(n)
  <2> HIDE DEF Part
  <2> QED BY <1>2
<1> HIDE DEF part
<1>4. ASSUME NEW n \in Nat PROVE part[n + 1][n] = part[n][n]
  <2> DEFINE h == [i \in 0 .. n |-> part[n + 1][i]]
  <2>1. n + 1 \in Nat /\ part[n + 1] \in Part(n + 1) /\ part[n] \in Part(n)
    BY <1>3
  <2>2. h \in Part(n)
    <3> DEFINE g == part[n + 1]
    <3>1. g \in [0 .. n + 1 -> S] /\ g[0] = c /\ \A m \in 0 .. n : g[m + 1] = step[m][g[m]]
      BY <2>1
    <3> HIDE DEF g
    <3>2. h = [i \in 0 .. n |-> g[i]]
      BY DEF g
    <3> HIDE DEF h
    <3> QED BY <3>1, <3>2
  <2>3. h = part[n]
    BY <1>1, <2>1, <2>2
  <2> HIDE DEF Part
  <2> QED BY <2>3
<1>5. \A n \in Nat : part[n][n] \in S
  BY <1>3
<1>6. part[0][0] = c
  BY <1>3
<1>7. ASSUME NEW n \in Nat PROVE part[n + 1][n + 1] = step[n][part[n][n]]
  <2>1. n + 1 \in Nat /\ part[n + 1] \in Part(n + 1)
    BY <1>3
  <2>2. part[n + 1][n + 1] = step[n][part[n + 1][n]]
    BY <2>1
  <2> QED BY <2>2, <1>4
<1> DEFINE f == [n \in Nat |-> part[n][n]]
<1>8. Iterates(f, S, c, step)
  BY <1>5, <1>6, <1>7 DEF Iterates
<1> HIDE DEF f
<1> QED BY <1>8

LEMMA IterationType ==
  ASSUME NEW S, NEW c \in S, NEW step \in [Nat -> [S -> S]], NEW f,
         f = [n \in Nat |-> f[n]], f[0] = c,
         \A n \in Nat : f[n] \in S => f[n + 1] = step[n][f[n]]
  PROVE  Iterates(f, S, c, step)
<1> DEFINE A == {n \in Nat : f[n] \in S}
<1>1. Nat \subseteq A
  <2>1. 0 \in A
    OBVIOUS
  <2>2. ASSUME NEW n \in Nat, n \in A PROVE n + 1 \in A
    <3>1. f[n] \in S /\ f[n + 1] = step[n][f[n]]
      BY <2>2
    <3>2. step[n] \in [S -> S]
      OBVIOUS
    <3>3. n + 1 \in Nat /\ f[n + 1] \in S
      BY <3>1, <3>2
    <3> QED BY <3>3
  <2> HIDE DEF A
  <2> QED BY <2>1, <2>2, Induction
<1>2. \A n \in Nat : f[n] \in S
  BY <1>1
<1>3. f \in [Nat -> S]
  BY <1>2
<1> QED BY <1>2, <1>3 DEF Iterates

\* The powers of a number.
LEMMA PowerDef ==
  ASSUME NEW x \in Nat
  PROVE  /\ Power(x) \in [Nat -> Nat] /\ Power(x)[0] = 1
         /\ \A n \in Nat : Power(x)[n + 1] = x * Power(x)[n]
<1> DEFINE F(p) == [n \in Nat |-> IF n = 0 THEN 1 ELSE x * p[n - 1]]
           step == [n \in Nat |-> [v \in Nat |-> x * v]]
           P    == CHOOSE p : p = F(p)
<1>1. 1 \in Nat /\ step \in [Nat -> [Nat -> Nat]] /\ \A n, v \in Nat : step[n][v] = x * v
  OBVIOUS
<1> HIDE DEF step
<1>2. PICK h : Iterates(h, Nat, 1, step)
  BY <1>1, Recursion
<1>3. h = F(h)
  <2>1. ASSUME NEW n \in Nat PROVE h[n] = F(h)[n]
    <3>1. CASE n = 0
      BY <1>2, <3>1 DEF Iterates
    <3>2. CASE n # 0
      <4>1. n - 1 \in Nat /\ (n - 1) + 1 = n
        BY <3>2
      <4> QED BY <1>1, <1>2, <4>1, <3>2 DEF Iterates
    <3> QED BY <3>1, <3>2
  <2> QED BY <1>2, <2>1 DEF Iterates
<1>4. P = F(P)
  <2> HIDE DEF F
  <2> QED BY <1>3
<1>5. Power(x) = P
  BY DEF Power
<1> HIDE DEF P
<1>6. P = [n \in Nat |-> P[n]] /\ P[0] = 1 /\ \A n \in Nat : P[n + 1] = x * P[n]
  BY <1>4
<1>7. \A n \in Nat : P[n] \in Nat => P[n + 1] = step[n][P[n]]
  BY <1>1, <1>6
<1>8. Iterates(P, Nat, 1, step)
  BY <1>1, <1>6, <1>7, IterationType
<1> QED BY <1>5, <1>6, <1>8 DEF Iterates

\* The weight of bit n in word w.
Weight(w, n) == IF n \in w THEN Power(2)[n] ELSE 0

LEMMA WeightType == ASSUME NEW w, NEW n \in Nat PROVE Weight(w, n) \in Nat
BY PowerDef DEF Weight

LEMMA NumBelowDef ==
  ASSUME NEW w
  PROVE  /\ NumBelow(w) \in [Nat -> Nat] /\ NumBelow(w)[0] = 0
         /\ \A n \in Nat : NumBelow(w)[n + 1] = NumBelow(w)[n] + Weight(w, n)
<1> DEFINE F(p) == [n \in Nat |-> IF n = 0 THEN 0 ELSE p[n - 1] + Weight(w, n - 1)]
           step == [n \in Nat |-> [v \in Nat |-> v + Weight(w, n)]]
           P    == CHOOSE p : p = F(p)
<1>1. 0 \in Nat /\ step \in [Nat -> [Nat -> Nat]] /\ \A n, v \in Nat : step[n][v] = v + Weight(w, n)
  BY WeightType
<1> HIDE DEF step
<1>2. PICK h : Iterates(h, Nat, 0, step)
  BY <1>1, Recursion
<1>3. h = F(h)
  <2>1. ASSUME NEW n \in Nat PROVE h[n] = F(h)[n]
    <3>1. CASE n = 0
      BY <1>2, <3>1 DEF Iterates
    <3>2. CASE n # 0
      <4>1. n - 1 \in Nat /\ (n - 1) + 1 = n
        BY <3>2
      <4> QED BY <1>1, <1>2, <4>1, <3>2 DEF Iterates
    <3> QED BY <3>1, <3>2
  <2> QED BY <1>2, <2>1 DEF Iterates
<1>4. P = F(P)
  <2> HIDE DEF F
  <2> QED BY <1>3
<1>5. NumBelow(w) = P
  BY DEF NumBelow, Weight
<1> HIDE DEF P
<1>6. P = [n \in Nat |-> P[n]] /\ P[0] = 0 /\ \A n \in Nat : P[n + 1] = P[n] + Weight(w, n)
  BY <1>4
<1>7. \A n \in Nat : P[n] \in Nat => P[n + 1] = step[n][P[n]]
  BY <1>1, <1>6
<1>8. Iterates(P, Nat, 0, step)
  BY <1>1, <1>6, <1>7, IterationType
<1> QED BY <1>5, <1>6, <1>8 DEF Iterates

LEMMA PowersPositive == ASSUME NEW x \in Nat, x > 0 PROVE \A n \in Nat : Power(x)[n] \in Nat /\ Power(x)[n] > 0
<1> DEFINE A == {n \in Nat : Power(x)[n] > 0}
<1>1. 0 \in A
  <2>1. Power(x)[0] = 1
    BY PowerDef
  <2> QED BY <2>1
<1>2. ASSUME NEW n \in Nat, n \in A PROVE n + 1 \in A
  <2>1. Power(x)[n] \in Nat /\ Power(x)[n] > 0 /\ Power(x)[n + 1] = x * Power(x)[n]
    BY <1>2, PowerDef
  <2> DEFINE p == Power(x)[n]
  <2> HIDE DEF p
  <2>2. p \in Nat /\ p > 0 => x * p > 0
    OBVIOUS
  <2>3. Power(x)[n + 1] > 0
    BY <2>1, <2>2 DEF p
  <2> QED BY <2>3
<1> HIDE DEF A
<1>3. Nat \subseteq A
  BY <1>1, <1>2, Induction
<1> QED BY <1>3, PowerDef DEF A

\* As two to the power of what is left.
Multiple(v, p) == \E r \in Nat : r > 0 /\ v = p * r

LEMMA PowersDivide ==
  ASSUME NEW x \in Nat, x > 0, NEW m \in Nat, NEW n \in Nat, m <= n
  PROVE  Multiple(Power(x)[n], Power(x)[m])
<1> DEFINE A == {d \in Nat : \E r \in Nat : r > 0 /\ Power(x)[m + d] = Power(x)[m] * r}
<1>1. 0 \in A
  <2>1. Power(x)[m + 0] = Power(x)[m] * 1
    BY PowersPositive
  <2> QED BY <2>1
<1>2. ASSUME NEW d \in Nat, d \in A PROVE d + 1 \in A
  <2>1. PICK r \in Nat : r > 0 /\ Power(x)[m + d] = Power(x)[m] * r
    BY <1>2
  <2>2. Power(x)[m + (d + 1)] = x * Power(x)[m + d]
    <3>1. m + d \in Nat /\ (m + d) + 1 = m + (d + 1)
      OBVIOUS
    <3> QED BY <3>1, PowerDef
  <2> DEFINE p == Power(x)[m]
  <2>3. p \in Nat
    BY PowersPositive
  <2> HIDE DEF p
  <2>4. x * (p * r) = p * (x * r) /\ x * r \in Nat /\ x * r > 0
    BY <2>1, <2>3
  <2>5. Power(x)[m + (d + 1)] = Power(x)[m] * (x * r)
    BY <2>1, <2>2, <2>4 DEF p
  <2> QED BY <2>4, <2>5
<1> HIDE DEF A
<1>3. Nat \subseteq A
  BY <1>1, <1>2, Induction
<1>4. n - m \in A /\ m + (n - m) = n
  BY <1>3
<1> QED BY <1>4 DEF A, Multiple

LEMMA PowersGrow ==
  ASSUME NEW x \in Nat, x > 0, NEW m \in Nat, NEW n \in Nat, m <= n
  PROVE  Power(x)[m] <= Power(x)[n]
<1>1. PICK r \in Nat : r > 0 /\ Power(x)[n] = Power(x)[m] * r
  BY PowersDivide DEF Multiple
<1> DEFINE p == Power(x)[m]
<1>2. p \in Nat
  BY PowersPositive
<1> HIDE DEF p
<1>3. p <= p * r
  BY <1>1, <1>2
<1> QED BY <1>1, <1>3 DEF p

\* The bits below n make less than 2^n.
LEMMA NumBelowLess == ASSUME NEW w PROVE \A n \in Nat : NumBelow(w)[n] \in Nat /\ NumBelow(w)[n] < Power(2)[n]
<1> DEFINE A == {n \in Nat : NumBelow(w)[n] < Power(2)[n]}
<1>1. 0 \in A
  <2>1. Power(2)[0] = 1 /\ NumBelow(w)[0] = 0
    BY PowerDef, NumBelowDef
  <2> QED BY <2>1
<1>2. ASSUME NEW n \in Nat, n \in A PROVE n + 1 \in A
  <2>1. Weight(w, n) \in Nat /\ Weight(w, n) <= Power(2)[n]
    BY PowersPositive, WeightType DEF Weight
  <2>2. NumBelow(w)[n + 1] = NumBelow(w)[n] + Weight(w, n) /\ NumBelow(w)[n] \in Nat
    BY NumBelowDef
  <2>3. Power(2)[n + 1] = 2 * Power(2)[n] /\ Power(2)[n] \in Nat
    BY PowerDef
  <2> QED BY <1>2, <2>1, <2>2, <2>3
<1> HIDE DEF A
<1>3. Nat \subseteq A
  BY <1>1, <1>2, Induction
<1> QED BY <1>3, NumBelowDef DEF A

\* Where two words agree from bit m on, their numbers keep their distance.
AgreeFrom(w, v, m, n) == \A j \in Nat : m <= j /\ j < n => (j \in w <=> j \in v)
SameGap(w, v, m, n) == NumBelow(w)[n] - NumBelow(v)[n] = NumBelow(w)[m] - NumBelow(v)[m]

LEMMA NumApart ==
  ASSUME NEW w, NEW v, NEW m \in Nat, NEW n \in Nat, m <= n, AgreeFrom(w, v, m, n)
  PROVE  SameGap(w, v, m, n)
<1> DEFINE A == {d \in Nat : m + d <= n => SameGap(w, v, m, m + d)}
<1>1. 0 \in A
  BY DEF SameGap
<1>2. ASSUME NEW d \in Nat, d \in A PROVE d + 1 \in A
  <2> SUFFICES ASSUME m + (d + 1) <= n
               PROVE  SameGap(w, v, m, m + (d + 1))
    OBVIOUS
  <2> DEFINE j == m + d
  <2>1. j \in Nat /\ m <= j /\ j < n /\ m + (d + 1) = j + 1
    OBVIOUS
  <2> HIDE DEF j
  <2>2. Weight(w, j) = Weight(v, j) /\ Weight(w, j) \in Nat
    BY <2>1, WeightType DEF Weight, AgreeFrom
  <2>3. /\ NumBelow(w)[j + 1] = NumBelow(w)[j] + Weight(w, j) /\ NumBelow(w)[j] \in Nat
        /\ NumBelow(v)[j + 1] = NumBelow(v)[j] + Weight(v, j) /\ NumBelow(v)[j] \in Nat
    BY <2>1, NumBelowDef
  <2>4. NumBelow(w)[j] - NumBelow(v)[j] = NumBelow(w)[m] - NumBelow(v)[m]
    BY <1>2, <2>1 DEF j, SameGap
  <2>5. SameGap(w, v, m, j + 1)
    BY <2>2, <2>3, <2>4 DEF SameGap
  <2> QED BY <2>1, <2>5
<1> HIDE DEF A
<1>3. Nat \subseteq A
  BY <1>1, <1>2, Induction
<1>4. n - m \in A /\ m + (n - m) = n
  BY <1>3
<1>5. m + (n - m) <= n => SameGap(w, v, m, m + (n - m))
  BY <1>4 DEF A
<1> QED BY <1>4, <1>5

LEMMA NumBelowEmpty == ASSUME NEW m \in Nat PROVE NumBelow({})[m] = 0
<1> DEFINE A == {n \in Nat : NumBelow({})[n] = 0}
<1>2. 0 \in A
  <2>1. NumBelow({})[0] = 0
    BY NumBelowDef
  <2> QED BY <2>1
<1>3. ASSUME NEW n \in Nat, n \in A PROVE n + 1 \in A
  <2>1. NumBelow({})[n + 1] = NumBelow({})[n] + Weight({}, n) /\ Weight({}, n) = 0
    BY NumBelowDef DEF Weight
  <2> QED BY <1>3, <2>1
<1> HIDE DEF A
<1>4. Nat \subseteq A
  BY <1>2, <1>3, Induction
<1> QED BY <1>4 DEF A

\* A word without bits from m on is less than 2^m.
LEMMA NumBelowTop ==
  ASSUME NEW m \in Nat, NEW n \in Nat, m <= n, NEW w, \A b \in w : b < m
  PROVE  NumBelow(w)[n] = NumBelow(w)[m] /\ NumBelow(w)[n] < Power(2)[m]
<1> DEFINE none == {}
<1>1. AgreeFrom(w, none, m, n)
  <2> SUFFICES ASSUME NEW j \in Nat, m <= j, j \in w PROVE FALSE
    BY DEF AgreeFrom
  <2>1. j < m
    OBVIOUS
  <2> QED BY <2>1
<1>2. NumBelow(none)[n] = 0 /\ NumBelow(none)[m] = 0
  BY NumBelowEmpty
<1> HIDE DEF none
<1>3. NumBelow(w)[n] - NumBelow(none)[n] = NumBelow(w)[m] - NumBelow(none)[m]
  <2>1. SameGap(w, none, m, n)
    BY <1>1, NumApart
  <2> QED BY <2>1 DEF SameGap
<1>4. NumBelow(w)[n] \in Nat /\ NumBelow(w)[m] \in Nat /\ NumBelow(w)[m] < Power(2)[m]
  BY NumBelowLess
<1> QED BY <1>2, <1>3, <1>4

\* The order of words is that of the numbers they stand for.
LEMMA LessIsBelow ==
  ASSUME NEW n \in Nat, NEW w \in SUBSET (0 .. n), NEW v \in SUBSET (0 .. n), Less(w, v)
  PROVE  NumBelow(w)[n + 1] < NumBelow(v)[n + 1]
<1>1. PICK b \in v \ w : \A j \in w \cup v : j > b => (j \in w <=> j \in v)
  BY DEF Less
<1>2. b \in Nat /\ b <= n /\ b + 1 \in Nat /\ b + 1 <= n + 1 /\ n + 1 \in Nat
  OBVIOUS
<1>3. AgreeFrom(w, v, b + 1, n + 1)
  BY <1>1, <1>2 DEF AgreeFrom
<1>4. NumBelow(w)[n + 1] - NumBelow(v)[n + 1] = NumBelow(w)[b + 1] - NumBelow(v)[b + 1]
  <2>1. SameGap(w, v, b + 1, n + 1)
    BY <1>2, <1>3, NumApart
  <2> QED BY <2>1 DEF SameGap
<1>5. NumBelow(w)[b + 1] = NumBelow(w)[b]
  <2>1. NumBelow(w)[b + 1] = NumBelow(w)[b] + Weight(w, b) /\ NumBelow(w)[b] \in Nat
    BY <1>2, NumBelowDef
  <2>2. Weight(w, b) = 0
    BY <1>1 DEF Weight
  <2> QED BY <2>1, <2>2
<1>6. NumBelow(v)[b + 1] = NumBelow(v)[b] + Power(2)[b]
  <2>1. NumBelow(v)[b + 1] = NumBelow(v)[b] + Weight(v, b)
    BY <1>2, NumBelowDef
  <2>2. Weight(v, b) = Power(2)[b]
    BY <1>1 DEF Weight
  <2> QED BY <2>1, <2>2
<1>7. /\ NumBelow(w)[b] \in Nat /\ NumBelow(w)[b] < Power(2)[b]
      /\ NumBelow(v)[b] \in Nat /\ Power(2)[b] \in Nat
      /\ NumBelow(w)[n + 1] \in Nat /\ NumBelow(v)[n + 1] \in Nat
  BY <1>2, NumBelowLess, PowersPositive
<1> QED BY <1>4, <1>5, <1>6, <1>7

\* Bit b of a number is what is left of it modulo two after division by 2^b.
LEMMA DivBits ==
  ASSUME NEW p \in Nat, p > 0, NEW x \in Nat, x < p, NEW y \in Nat
  PROVE  (x + p * y) \div p = y
OBVIOUS

LEMMA BitOfNum ==
  ASSUME NEW w, NEW b \in Nat, NEW n \in Nat, b < n
  PROVE  ((NumBelow(w)[n] \div Power(2)[b]) % 2 = 1) <=> b \in w
<1> DEFINE bit == IF b \in w THEN 1 ELSE 0
           p   == Power(2)[b]
           x   == NumBelow(w)[b]
           A   == {d \in Nat : \E q \in Nat : NumBelow(w)[(b + 1) + d] = x + p * (bit + 2 * q)}
<1>1. p \in Nat /\ p > 0 /\ x \in Nat /\ x < p /\ bit \in Nat
  BY PowersPositive, NumBelowLess
<1>2. 0 \in A
  <2>1. NumBelow(w)[b + 1] = x + Weight(w, b)
    BY NumBelowDef
  <2>2. Weight(w, b) = p * (bit + 2 * 0)
    <3>1. CASE b \in w
      <4>1. Weight(w, b) = p /\ bit = 1
        BY <3>1 DEF Weight
      <4> HIDE DEF p, bit
      <4> QED BY <1>1, <4>1
    <3>2. CASE b \notin w
      <4>1. Weight(w, b) = 0 /\ bit = 0
        BY <3>2 DEF Weight
      <4> HIDE DEF p, bit
      <4> QED BY <1>1, <4>1
    <3> QED BY <3>1, <3>2
  <2>3. (b + 1) + 0 = b + 1
    OBVIOUS
  <2> HIDE DEF p, x, bit
  <2> QED BY <2>1, <2>2, <2>3
<1>3. ASSUME NEW d \in Nat, d \in A PROVE d + 1 \in A
  <2> DEFINE c == (b + 1) + d
  <2>1. c \in Nat /\ (b + 1) + (d + 1) = c + 1 /\ b + 1 \in Nat /\ b + 1 <= c
    OBVIOUS
  <2>2. PICK q \in Nat : NumBelow(w)[c] = x + p * (bit + 2 * q)
    BY <1>3
  <2> HIDE DEF c
  <2>3. NumBelow(w)[c + 1] = NumBelow(w)[c] + Weight(w, c)
    BY <2>1, NumBelowDef
  <2>4. PICK r \in Nat : Power(2)[c] = Power(2)[b + 1] * r
    <3>1. Multiple(Power(2)[c], Power(2)[b + 1])
      BY <2>1, PowersDivide
    <3> QED BY <3>1 DEF Multiple
  <2>5. Power(2)[b + 1] = 2 * p
    BY PowerDef
  <2> HIDE DEF p, x, bit
  <2>6. Power(2)[c] = p * (2 * r)
    BY <1>1, <2>4, <2>5
  <2>7. PICK s \in Nat : Weight(w, c) = p * (2 * s)
    <3>1. CASE c \in w
      BY <2>6, <3>1 DEF Weight
    <3>2. CASE c \notin w
      <4>1. Weight(w, c) = p * (2 * 0)
        BY <1>1, <3>2 DEF Weight
      <4> QED BY <4>1
    <3> QED BY <3>1, <3>2
  <2>8. p * (bit + 2 * q) + p * (2 * s) = p * (bit + 2 * (q + s))
    BY <1>1
  <2>9. p * (bit + 2 * q) \in Nat /\ p * (2 * s) \in Nat
    BY <1>1
  <2>10. NumBelow(w)[c + 1] = x + p * (bit + 2 * (q + s))
    BY <1>1, <2>2, <2>3, <2>7, <2>8, <2>9
  <2>11. q + s \in Nat
    OBVIOUS
  <2>12. NumBelow(w)[(b + 1) + (d + 1)] = x + p * (bit + 2 * (q + s))
    BY <2>1, <2>10
  <2>13. \E t \in Nat : NumBelow(w)[(b + 1) + (d + 1)] = x + p * (bit + 2 * t)
    BY <2>11, <2>12
  <2> QED BY <2>13
<1> HIDE DEF A
<1>4. Nat \subseteq A
  BY <1>2, <1>3, Induction
<1>5. n - (b + 1) \in A /\ (b + 1) + (n - (b + 1)) = n
  BY <1>4
<1>6. PICK q \in Nat : NumBelow(w)[n] = x + p * (bit + 2 * q)
  BY <1>5 DEF A
<1>7. bit + 2 * q \in Nat
  BY <1>1
<1> HIDE DEF p, x
<1>8. NumBelow(w)[n] \div p = bit + 2 * q
  BY <1>1, <1>6, <1>7, DivBits
<1>9. (bit + 2 * q) % 2 = bit
  BY <1>1
<1> QED BY <1>8, <1>9 DEF p

\* The number a key stands for: its type and bound.
LEMMA NumType == ASSUME NEW w PROVE Num(w) \in Nat /\ Num(w) < Power(2)[KeyBits]
BY NumBelowLess, KeyBitsRange DEF Num

\* Keys are ordered as the numbers they stand for.
LEMMA NumOrder ==
  ASSUME NEW w \in Key, NEW v \in Key
  PROVE  /\ Less(w, v) <=> Num(w) < Num(v)
         /\ w = v <=> Num(w) = Num(v)
<1> DEFINE n == KeyBits - 1
<1>1. n \in Nat /\ n + 1 = KeyBits /\ w \in SUBSET (0 .. n) /\ v \in SUBSET (0 .. n)
  BY KeyBitsRange DEF Key, Bits
<1>2. Num(w) \in Nat /\ Num(v) \in Nat
  BY NumType
<1> HIDE DEF n
<1>3. Less(w, v) => Num(w) < Num(v)
  BY <1>1, LessIsBelow DEF Num
<1>4. Less(v, w) => Num(v) < Num(w)
  BY <1>1, LessIsBelow DEF Num
<1>5. w # v => Less(w, v) \/ Less(v, w)
  BY <1>1, LessTotal
<1> QED BY <1>2, <1>3, <1>4, <1>5

\* The bits of a number are those of the key it was made from.
LEMMA WordOfNum == ASSUME NEW w \in Key PROVE WordOf(Num(w)) = w
<1>1. KeyBits \in Nat /\ \A b \in Bits : b \in Nat /\ b < KeyBits
  BY KeyBitsRange DEF Bits
<1>2. ASSUME NEW b \in Bits PROVE (Num(w) \div Power(2)[b]) % 2 = 1 <=> b \in w
  BY <1>1, BitOfNum DEF Num
<1> QED BY <1>2 DEF WordOf, Key

----------------------------------------------------------------------------
\* The digits of a numeric.
LEMMA HasMinMax ==
  ASSUME NEW n \in Nat, NEW S \in SUBSET (0 .. n), S # {}
  PROVE  /\ Min(S) \in S /\ \A j \in S : Min(S) <= j
         /\ Max(S) \in S /\ \A j \in S : j <= Max(S)
<1>1. PICK m \in S : \A j \in S : j <= m
  BY HighestBit
<1> DEFINE T == {n - j : j \in S}
<1>2. T \in SUBSET (0 .. n) /\ T # {}
  <2>1. \A j \in S : n - j \in 0 .. n
    OBVIOUS
  <2>2. PICK j \in S : TRUE
    OBVIOUS
  <2>3. n - j \in T
    OBVIOUS
  <2> QED BY <2>1, <2>3
<1>3. PICK t \in T : \A j \in T : j <= t
  <2> HIDE DEF T
  <2> QED BY <1>2, HighestBit
<1>4. PICK l \in S : t = n - l
  BY <1>3
<1>5. ASSUME NEW j \in S PROVE l <= j
  <2>1. n - j \in T
    OBVIOUS
  <2>2. n - j <= n - l
    BY <1>3, <1>4, <2>1
  <2>3. n \in Int /\ j \in Int /\ l \in Int
    OBVIOUS
  <2> QED BY <2>2, <2>3
<1>6. \E x \in S : \A j \in S : x <= j
  BY <1>5
<1>7. \E x \in S : \A j \in S : x >= j
  <2>1. \A j \in S : m >= j
    BY <1>1
  <2> QED BY <2>1
<1>8. Min(S) \in S /\ \A j \in S : Min(S) <= j
  BY <1>6 DEF Min
<1>9. Max(S) \in S /\ \A j \in S : Max(S) >= j
  BY <1>7 DEF Max
<1>10. \A j \in S : j <= Max(S)
  BY <1>9
<1> QED BY <1>8, <1>9, <1>10

\* v has no more digits than d places hold.
LEMMA DigitsFit ==
  ASSUME NEW v \in Nat, NEW d \in DigitPlaces, v < Power(NBase)[d]
  PROVE  Digits(v) \in DigitPlaces /\ Digits(v) <= d
<1> DEFINE S == {e \in DigitPlaces : v < Power(NBase)[e]}
           n == (KeyBits \div 3) + 1
<1>1. n \in Nat /\ DigitPlaces = 0 .. n
  BY KeyBitsRange DEF DigitPlaces
<1>2. S \in SUBSET (0 .. n) /\ d \in S
  BY <1>1
<1>3. Min(S) \in S /\ \A j \in S : Min(S) <= j
  <2> HIDE DEF S, n
  <2> QED BY <1>1, <1>2, HasMinMax
<1>4. Digits(v) = Min(S)
  BY DEF Digits
<1> HIDE DEF S
<1>5. Min(S) \in DigitPlaces
  BY <1>2, <1>3, <1>1
<1> QED BY <1>2, <1>3, <1>4, <1>5

\* No more zero digits are dropped than there are digits, and none if the last
\* one is not zero.
LEMMA DroppedFit ==
  ASSUME NEW v \in Nat, Digits(v) \in Nat
  PROVE  /\ Dropped(v) \in 0 .. Digits(v)
         /\ v # 0 => v % Power(NBase)[Dropped(v)] = 0
<1>1. CASE v = 0
  BY <1>1 DEF Dropped
<1>2. CASE v # 0
  <2> DEFINE S == {t \in 0 .. Digits(v) : v % Power(NBase)[t] = 0}
  <2>1. 0 \in S
    <3>1. Power(NBase)[0] = 1
      BY PowerDef, NumericAssumption
    <3>2. v % 1 = 0
      OBVIOUS
    <3> QED BY <3>1, <3>2
  <2>2. S \in SUBSET (0 .. Digits(v)) /\ S # {}
    BY <2>1
  <2>3. Dropped(v) = Max(S)
    BY <1>2 DEF Dropped
  <2>4. Max(S) \in S
    <3> HIDE DEF S
    <3> QED BY <2>2, HasMinMax
  <2> QED BY <2>3, <2>4
<1> QED BY <1>1, <1>2

LEMMA MultipleOf ==
  ASSUME NEW p \in Nat, p > 0, NEW v \in Nat, v % p = 0
  PROVE  \E q \in Nat : v = p * q
<1>1. v \div p \in Nat
  OBVIOUS
<1>2. v = p * (v \div p)
  OBVIOUS
<1> QED BY <1>1, <1>2

LEMMA ModProduct ==
  ASSUME NEW p \in Nat, p > 0, NEW q \in Nat
  PROVE  (p * q) % p = 0
OBVIOUS

LEMMA NothingDropped ==
  ASSUME NEW v \in Nat, Digits(v) \in Nat, v % NBase # 0
  PROVE  Dropped(v) = 0
<1>1. NBase \in Nat /\ NBase > 0
  BY NumericAssumption
<1>2. v # 0
  BY <1>1
<1> DEFINE t == Dropped(v)
<1>3. t \in Nat /\ v % Power(NBase)[t] = 0
  BY <1>2, DroppedFit
<1> HIDE DEF t
<1>4. ASSUME t # 0 PROVE FALSE
  <2>1. t - 1 \in Nat /\ (t - 1) + 1 = t
    BY <1>3, <1>4
  <2> DEFINE r == Power(NBase)[t - 1]
             p == Power(NBase)[t]
  <2>2. p = NBase * r /\ r \in Nat /\ p \in Nat /\ p > 0
    <3>1. Power(NBase)[(t - 1) + 1] = NBase * r /\ r \in Nat
      BY <1>1, <2>1, PowerDef
    <3>2. p \in Nat /\ p > 0
      BY <1>1, <1>3, PowersPositive
    <3> QED BY <2>1, <3>1, <3>2
  <2>3. v % p = 0
    BY <1>3
  <2> HIDE DEF r, p
  <2>4. PICK q \in Nat : v = p * q
    BY <2>2, <2>3, MultipleOf
  <2>5. v = NBase * (r * q) /\ r * q \in Nat
    BY <1>1, <2>2, <2>4
  <2> QED BY <1>1, <2>5, ModProduct
<1> QED BY <1>3, <1>4 DEF t

\* A key of three coordinates has no more digits than a coordinate has bits.
LEMMA KeyDigits ==
  ASSUME Dims = 3, NEW w
  PROVE  Digits(Num(w)) \in DigitPlaces
<1>1. /\ CoordBits \in Nat /\ KeyBits = 3 * CoordBits /\ KeyBits \div 3 = CoordBits
      /\ NBase \in Nat /\ NBase >= 8 /\ NBase > 0
  BY WidthAssumption, NumericAssumption DEF KeyBits
<1> DEFINE A == {d \in Nat : Power(2)[3 * d] <= Power(NBase)[d]}
<1>2. 0 \in A
  <2>1. Power(2)[3 * 0] = 1 /\ Power(NBase)[0] = 1
    BY <1>1, PowerDef
  <2> QED BY <2>1
<1>3. ASSUME NEW d \in Nat, d \in A PROVE d + 1 \in A
  <2> DEFINE e == 3 * d
             p == Power(2)[e]
             r == Power(NBase)[d]
  <2>1. e \in Nat /\ 3 * (d + 1) = ((e + 1) + 1) + 1
    OBVIOUS
  <2> HIDE DEF e
  <2>2. p \in Nat /\ Power(2)[((e + 1) + 1) + 1] = 2 * (2 * (2 * p))
    <3>1. e + 1 \in Nat /\ (e + 1) + 1 \in Nat
      BY <2>1
    <3>2. p \in Nat /\ Power(2)[e + 1] = 2 * p
      BY <2>1, PowerDef
    <3>3. Power(2)[(e + 1) + 1] = 2 * Power(2)[e + 1]
      BY <3>1, PowerDef
    <3>4. Power(2)[((e + 1) + 1) + 1] = 2 * Power(2)[(e + 1) + 1]
      BY <3>1, PowerDef
    <3> QED BY <3>2, <3>3, <3>4
  <2>3. r \in Nat /\ Power(NBase)[d + 1] = NBase * r
    BY <1>1, PowerDef
  <2>4. p <= r
    BY <1>3 DEF e
  <2> HIDE DEF p, r
  <2>5. 2 * (2 * (2 * p)) <= 8 * r
    BY <2>2, <2>3, <2>4
  <2>6. 8 * r <= NBase * r
    BY <1>1, <2>3
  <2>7. 2 * (2 * (2 * p)) <= NBase * r
    BY <1>1, <2>2, <2>3, <2>5, <2>6
  <2>8. Power(2)[3 * (d + 1)] <= Power(NBase)[d + 1]
    BY <2>1, <2>2, <2>3, <2>7
  <2> QED BY <2>8
<1> HIDE DEF A
<1>4. Nat \subseteq A
  BY <1>2, <1>3, Induction
<1>5. Power(2)[3 * CoordBits] <= Power(NBase)[CoordBits]
  BY <1>1, <1>4 DEF A
<1>6. Num(w) \in Nat /\ Num(w) < Power(2)[KeyBits] /\ Power(2)[KeyBits] \in Nat
  BY <1>1, NumType, PowersPositive
<1>7. CoordBits \in DigitPlaces /\ Power(NBase)[CoordBits] \in Nat
  BY <1>1, PowersPositive DEF DigitPlaces
<1>8. Num(w) < Power(NBase)[CoordBits]
  BY <1>1, <1>5, <1>6, <1>7
<1> QED BY <1>6, <1>7, <1>8, DigitsFit

\* Few digits are read as an int8, and if the last digit is not zero none were
\* dropped: either way the key comes back.
KeepsDigits(v) == Digits(v) - Dropped(v) < FewDigits \/ v % NBase # 0

LEMMA KeptDigits ==
  ASSUME Dims = 3, NEW k \in Key, KeepsDigits(Num(k))
  PROVE  bit3Key_fromLong(bit3Key_toLong(k)) = k
<1> DEFINE v == Num(k)
           n == bit3Key_toLong(k)
<1>1. n.bits = k /\ Num(n.bits) = v
  BY DEF bit3Key_toLong
<1>2. v \in Nat /\ Digits(v) \in Nat
  BY NumType, KeyDigits, KeyBitsRange DEF DigitPlaces
<1>3. CASE Digits(v) - Dropped(v) < FewDigits
  BY <1>1, <1>3 DEF bit3Key_fromLong
<1>4. CASE ~ (Digits(v) - Dropped(v) < FewDigits)
  <2>1. v % NBase # 0
    BY <1>4 DEF KeepsDigits
  <2>2. Dropped(v) = 0
    BY <1>2, <2>1, NothingDropped
  <2>3. Power(NBase)[0] = 1 /\ v \div 1 = v
    BY <1>2, PowerDef, NumericAssumption
  <2>4. bit3Key_fromLong(n) = WordOf(v \div Power(NBase)[Dropped(v)])
    BY <1>1, <1>4 DEF bit3Key_fromLong
  <2>5. bit3Key_fromLong(n) = WordOf(v)
    BY <2>2, <2>3, <2>4
  <2> QED BY <2>5, WordOfNum
<1> QED BY <1>3, <1>4

\* A number of at most FewDigits digits keeps them: if it has that many, and
\* none was dropped, all of them are read.
LEMMA Int8Keys ==
  ASSUME Dims = 3, NEW k \in Key, \A b \in k : b < WordBits - 1
  PROVE  /\ Num(k) < Power(2)[WordBits - 1]
         /\ bit3Key_fromLong(bit3Key_toLong(k)) = k
<1> DEFINE v == Num(k)
           n == bit3Key_toLong(k)
<1>1. WordBits - 1 \in Nat /\ KeyBits \in Nat /\ (WordBits - 1 <= KeyBits \/ KeyBits <= WordBits - 1)
  BY WidthAssumption, KeyBitsRange
<1>8. FewDigits \in Nat /\ NBase \in Nat /\ NBase > 0
  BY WidthAssumption, NumericAssumption
<1>9. FewDigits \in DigitPlaces
  <2>1. CoordBits \in Nat /\ KeyBits = 3 * CoordBits /\ FewDigits \in 1 .. CoordBits
    BY WidthAssumption, NumericAssumption DEF KeyBits
  <2>2. KeyBits \div 3 = CoordBits
    BY <2>1
  <2>3. DigitPlaces = 0 .. CoordBits + 1
    BY <2>2 DEF DigitPlaces
  <2> QED BY <2>1, <2>3
<1>2. v \in Nat /\ v < Power(2)[WordBits - 1]
  <2>1. CASE WordBits - 1 <= KeyBits
    <3>1. NumBelow(k)[KeyBits] < Power(2)[WordBits - 1]
      BY <1>1, <2>1, NumBelowTop
    <3> QED BY <3>1, NumType DEF Num
  <2>2. CASE KeyBits <= WordBits - 1
    <3>1. Power(2)[KeyBits] <= Power(2)[WordBits - 1]
      BY <1>1, <2>2, PowersGrow
    <3>2. Power(2)[KeyBits] \in Nat /\ Power(2)[WordBits - 1] \in Nat
      BY <1>1, PowersPositive
    <3> QED BY <3>1, <3>2, NumType
  <2> QED BY <1>1, <2>1, <2>2
<1>3. v < Power(NBase)[FewDigits]
  <2>1. Power(2)[WordBits - 1] <= Power(NBase)[FewDigits]
    BY NumericAssumption
  <2>2. Power(2)[WordBits - 1] \in Nat
    BY <1>1, PowersPositive
  <2>3. Power(NBase)[FewDigits] \in Nat
    BY <1>8, PowersPositive
  <2> QED BY <1>2, <2>1, <2>2, <2>3
<1>4. Digits(v) \in Nat /\ Digits(v) <= FewDigits
  <2>1. Digits(v) \in DigitPlaces /\ Digits(v) <= FewDigits
    BY <1>2, <1>3, <1>9, DigitsFit
  <2>2. DigitPlaces \subseteq Nat
    BY KeyBitsRange DEF DigitPlaces
  <2> QED BY <2>1, <2>2
<1>5. Dropped(v) \in 0 .. Digits(v)
  BY <1>2, <1>4, DroppedFit
<1>6. CASE Digits(v) - Dropped(v) < FewDigits
  BY <1>6, KeptDigits, <1>2 DEF KeepsDigits
<1>7. CASE ~ (Digits(v) - Dropped(v) < FewDigits)
  <2>1. Dropped(v) = 0
    BY <1>4, <1>5, <1>7, <1>8
  <2>2. n.bits = k
    BY DEF bit3Key_toLong
  <2>3. bit3Key_fromLong(n) = WordOf(v \div Power(NBase)[Dropped(v)])
    BY <1>7, <2>2 DEF bit3Key_fromLong
  <2>4. Power(NBase)[0] = 1 /\ v \div 1 = v
    <3>1. v \div 1 = v
      BY <1>2
    <3>2. Power(NBase)[0] = 1
      BY <1>8, PowerDef
    <3> QED BY <3>1, <3>2
  <2>5. bit3Key_fromLong(n) = WordOf(v)
    BY <2>1, <2>3, <2>4
  <2> QED BY <1>2, <2>5, WordOfNum
<1> QED BY <1>2, <1>6, <1>7

\* Keys of half the width have few digits.
LEMMA HalfKeys ==
  ASSUME Dims = 3, NEW k \in Key, \A b \in k : b < HalfBits
  PROVE  bit3Key_fromLong(bit3Key_toLong(k)) = k
<1> DEFINE v == Num(k)
           d == FewDigits - 1
<1>1. d \in Nat /\ d < FewDigits /\ FewDigits \in Nat /\ NBase \in Nat /\ NBase > 0
  BY WidthAssumption, NumericAssumption
<1>2. d \in DigitPlaces
  <2>1. CoordBits \in Nat /\ KeyBits = 3 * CoordBits /\ FewDigits \in 1 .. CoordBits
    BY WidthAssumption, NumericAssumption DEF KeyBits
  <2>2. KeyBits \div 3 = CoordBits
    BY <2>1
  <2>3. DigitPlaces = 0 .. CoordBits + 1
    BY <2>2 DEF DigitPlaces
  <2> QED BY <2>1, <2>3
<1>3. HalfBits \in Nat /\ HalfBits <= KeyBits /\ KeyBits \in Nat
  <2>1. KeyBits \in Nat
    BY KeyBitsRange
  <2> QED BY <2>1 DEF HalfBits
<1>4. v \in Nat /\ v < Power(2)[HalfBits]
  <2>1. NumBelow(k)[KeyBits] < Power(2)[HalfBits]
    BY <1>3, NumBelowTop
  <2> QED BY <2>1, NumType DEF Num
<1>5. v < Power(NBase)[d]
  <2>1. Power(2)[HalfBits] <= Power(NBase)[d]
    BY NumericAssumption DEF HalfBits
  <2>2. Power(2)[HalfBits] \in Nat
    BY <1>3, PowersPositive
  <2>3. Power(NBase)[d] \in Nat
    BY <1>1, PowersPositive
  <2> QED BY <1>4, <2>1, <2>2, <2>3
<1> HIDE DEF d
<1>6. Digits(v) \in Nat /\ Digits(v) <= d
  <2>1. Digits(v) \in DigitPlaces /\ Digits(v) <= d
    BY <1>2, <1>4, <1>5, DigitsFit
  <2>2. DigitPlaces \subseteq Nat
    BY KeyBitsRange DEF DigitPlaces
  <2> QED BY <2>1, <2>2
<1>7. Dropped(v) \in 0 .. Digits(v)
  BY <1>4, <1>6, DroppedFit
<1>8. Digits(v) - Dropped(v) < FewDigits
  BY <1>1, <1>6, <1>7
<1> QED BY <1>8, KeptDigits DEF KeepsDigits

----------------------------------------------------------------------------
\* The borrow into bit b + 1, of bit b and the borrow into it.
Borrow(w, v, b) == Less(Below(w, b), Below(v, b))

LEMMA BorrowNext ==
  ASSUME NEW w \in SUBSET Nat, NEW v \in SUBSET Nat, NEW b \in Nat
  PROVE  Borrow(w, v, b + 1) <=> \/ b \in v /\ b \notin w
                                 \/ (b \in v <=> b \in w) /\ Borrow(w, v, b)
<1> DEFINE x == Below(w, b + 1)
           y == Below(v, b + 1)
<1>1. /\ \A j : j \in x <=> j \in w /\ j <= b
      /\ \A j : j \in y <=> j \in v /\ j <= b
      /\ \A j : j \in Below(w, b) <=> j \in x /\ j # b
      /\ \A j : j \in Below(v, b) <=> j \in y /\ j # b
  <2>1. ASSUME NEW u \in SUBSET Nat, NEW j
        PROVE  /\ j \in Below(u, b + 1) <=> j \in u /\ j <= b
               /\ j \in Below(u, b) <=> j \in Below(u, b + 1) /\ j # b
    <3>1. j \in u => j \in Nat
      OBVIOUS
    <3>2. j \in Nat => (j < b + 1 <=> j <= b) /\ (j < b <=> j <= b /\ j # b)
      OBVIOUS
    <3> QED BY <3>1, <3>2 DEF Below
  <2> QED BY <2>1
<1>2. \A j \in x \cup y : j \in Nat /\ j <= b
  BY <1>1
<1> HIDE DEF x, y
<1>3. CASE b \in v /\ b \notin w
  <2>1. b \in y \ x /\ \A j \in x \cup y : ~ (j > b)
    BY <1>1, <1>2, <1>3
  <2>2. Less(x, y)
    BY <2>1 DEF Less
  <2> QED BY <1>3, <2>2 DEF Borrow, x, y
<1>4. CASE b \in w /\ b \notin v
  <2>1. ASSUME Less(x, y) PROVE FALSE
    <3>1. PICK c \in y \ x : \A j \in x \cup y : j > c => (j \in x <=> j \in y)
      BY <2>1 DEF Less
    <3>2. c \in Nat /\ c <= b /\ c # b
      BY <1>1, <1>2, <1>4, <3>1
    <3>3. b \in x /\ b \notin y /\ b > c
      BY <1>1, <1>4, <3>2
    <3> QED BY <3>1, <3>3
  <2> QED BY <1>4, <2>1 DEF Borrow, x, y
<1>5. CASE b \in w <=> b \in v
  <2> DEFINE u == Below(w, b)
             t == Below(v, b)
  <2>1. \A j : /\ j \in u <=> j \in x /\ j # b
               /\ j \in t <=> j \in y /\ j # b
    BY <1>1
  <2>2. b \in x <=> b \in y
    BY <1>1, <1>5
  <2> HIDE DEF u, t
  <2>3. Less(x, y) => Less(u, t)
    <3> SUFFICES ASSUME Less(x, y) PROVE Less(u, t)
      OBVIOUS
    <3>1. PICK c \in y \ x : \A j \in x \cup y : j > c => (j \in x <=> j \in y)
      BY DEF Less
    <3>2. c \in t \ u
      BY <2>1, <2>2, <3>1
    <3>3. \A j \in u \cup t : j > c => (j \in u <=> j \in t)
      BY <2>1, <3>1
    <3> QED BY <3>2, <3>3 DEF Less
  <2>4. Less(u, t) => Less(x, y)
    <3> SUFFICES ASSUME Less(u, t) PROVE Less(x, y)
      OBVIOUS
    <3>1. PICK c \in t \ u : \A j \in u \cup t : j > c => (j \in u <=> j \in t)
      BY DEF Less
    <3>2. c \in y \ x
      BY <2>1, <2>2, <3>1
    <3>3. \A j \in x \cup y : j > c => (j \in x <=> j \in y)
      BY <2>1, <2>2, <3>1
    <3> QED BY <3>2, <3>3 DEF Less
  <2> QED BY <1>5, <2>3, <2>4 DEF Borrow, x, y, u, t
<1> QED BY <1>3, <1>4, <1>5

\* Minus is subtraction: the difference of two coordinates as the processor
\* forms it is the difference of the numbers, cut to the width.
LEMMA MinusSubtracts ==
  ASSUME NEW w \in Coord, NEW v \in Coord
  PROVE  Num(Minus(w, v)) = (Num(w) - Num(v)) % Power(2)[CoordBits]
<1> DEFINE m    == Minus(w, v)
           B(b) == IF Borrow(w, v, b) THEN Power(2)[b] ELSE 0
           A    == {b \in Nat : b <= CoordBits => NumBelow(m)[b] + NumBelow(v)[b] = NumBelow(w)[b] + B(b)}
<1>1. /\ CoordBits \in Nat /\ KeyBits \in Nat /\ CoordBits <= KeyBits
      /\ w \in SUBSET Nat /\ v \in SUBSET Nat
      /\ \A b \in w \cup v : b < CoordBits
  <2>1. CoordBits <= Dims * CoordBits /\ CoordBits \in Nat
    BY WidthAssumption
  <2> QED BY <2>1, KeyBitsRange DEF Coord, KeyBits
<1>2. 0 \in A
  <2>1. Below(w, 0) = {} /\ Below(v, 0) = {}
    <3>1. \A j \in w \cup v : ~ (j < 0)
      BY <1>1
    <3> QED BY <3>1 DEF Below
  <2>2. ~ Borrow(w, v, 0)
    BY <2>1 DEF Borrow, Less
  <2>3. NumBelow(m)[0] = 0 /\ NumBelow(v)[0] = 0 /\ NumBelow(w)[0] = 0
    BY NumBelowDef
  <2> QED BY <2>2, <2>3
<1>3. ASSUME NEW b \in Nat, b \in A PROVE b + 1 \in A
  <2> SUFFICES ASSUME b + 1 <= CoordBits
               PROVE  NumBelow(m)[b + 1] + NumBelow(v)[b + 1] = NumBelow(w)[b + 1] + B(b + 1)
    OBVIOUS
  <2>1. b \in 0 .. CoordBits - 1 /\ b <= CoordBits
    BY <1>1
  <2>2. b \in m <=> (b \in w <=> (b \in v <=> Borrow(w, v, b)))
    BY <2>1 DEF Minus, Borrow
  <2>3. NumBelow(m)[b] + NumBelow(v)[b] = NumBelow(w)[b] + B(b)
    BY <1>3, <2>1
  <2>4. Borrow(w, v, b + 1) <=> \/ b \in v /\ b \notin w
                                \/ (b \in v <=> b \in w) /\ Borrow(w, v, b)
    BY <1>1, BorrowNext
  <2> HIDE DEF m
  <2>5. /\ NumBelow(m)[b + 1] = NumBelow(m)[b] + Weight(m, b) /\ NumBelow(m)[b] \in Nat
        /\ NumBelow(v)[b + 1] = NumBelow(v)[b] + Weight(v, b) /\ NumBelow(v)[b] \in Nat
        /\ NumBelow(w)[b + 1] = NumBelow(w)[b] + Weight(w, b) /\ NumBelow(w)[b] \in Nat
    BY NumBelowDef
  <2>6. Power(2)[b + 1] = 2 * Power(2)[b] /\ Power(2)[b] \in Nat
    BY PowerDef
  <2> DEFINE P == Power(2)[b]
             Q == Power(2)[b + 1]
             W(u) == IF b \in u THEN P ELSE 0
  <2>7. Weight(m, b) = W(m) /\ Weight(v, b) = W(v) /\ Weight(w, b) = W(w)
    BY DEF Weight
  <2>8. W(m) + W(v) + B(b) = W(w) + B(b + 1)
    <3>1. P \in Nat /\ Q = 2 * P
      BY <2>6
    <3> HIDE DEF P, Q
    <3> QED BY <2>2, <2>4, <3>1 DEF P, Q
  <2>9. W(m) \in Nat /\ W(v) \in Nat /\ W(w) \in Nat /\ B(b) \in Nat /\ B(b + 1) \in Nat
    BY <2>6
  <2> HIDE DEF W, B
  <2> QED BY <2>3, <2>5, <2>7, <2>8, <2>9
<1> HIDE DEF A
<1>4. Nat \subseteq A
  BY <1>2, <1>3, Induction
<1> DEFINE P == Power(2)[CoordBits]
<1>5. NumBelow(m)[CoordBits] + NumBelow(v)[CoordBits] = NumBelow(w)[CoordBits] + B(CoordBits)
  BY <1>1, <1>4 DEF A
<1>6. \A b \in m : b < CoordBits
  BY <1>1 DEF Minus
<1> HIDE DEF m
<1>7. /\ NumBelow(m)[KeyBits] = NumBelow(m)[CoordBits] /\ NumBelow(m)[KeyBits] < P
      /\ NumBelow(v)[KeyBits] = NumBelow(v)[CoordBits]
      /\ NumBelow(w)[KeyBits] = NumBelow(w)[CoordBits]
  <2>1. \A b \in w : b < CoordBits
    BY <1>1
  <2>2. \A b \in v : b < CoordBits
    BY <1>1
  <2> QED BY <1>1, <1>6, <2>1, <2>2, NumBelowTop
<1>8. Num(m) \in Nat /\ Num(v) \in Nat /\ Num(w) \in Nat
  BY NumType
<1>9. P \in Nat /\ P > 0
  BY <1>1, PowersPositive
<1>10. Num(m) < P /\ (Num(w) - Num(v) = Num(m) \/ Num(w) - Num(v) = Num(m) - P)
  BY <1>5, <1>7, <1>8, <1>9 DEF Num
<1> HIDE DEF P
<1>11. \A x \in Nat : x < P => x % P = x /\ (x - P) % P = x
  BY <1>9
<1>12. (Num(w) - Num(v)) % P = Num(m)
  BY <1>8, <1>10, <1>11
<1> QED BY <1>12 DEF m, P

----------------------------------------------------------------------------
\* What the conversions return: a key is made of any coordinates, and read from
\* any numeric that one was stored as.
LEMMA FromCoordsKey ==
  ASSUME NEW p, NEW k \in bitKey_fromCoords(p)
  PROVE  k \in Key
<1>1. CASE Dims = 2
  BY <1>1 DEF bitKey_fromCoords, bit2Key_fromCoords, Key
<1>2. CASE Dims = 3
  <2>1. PICK w \in BOOLEAN : k = bit3Key_fromCoords(p, w)
    BY <1>2 DEF bitKey_fromCoords
  <2>2. /\ Bits = 0 .. KeyBits - 1 /\ KeyBits \in Nat /\ WordBits \in Nat /\ WordBits > 1
        /\ \A i \in Turns : Spread(p, i) \subseteq Bits
    BY KeyBitsRange, WidthAssumption DEF Bits, Spread
  <2>3. ASSUME NEW i \in Turns PROVE Hi(Spread(p, i)) \subseteq Bits
    <3> DEFINE S == Spread(p, i)
    <3>1. S \subseteq Bits
      BY <2>2
    <3> HIDE DEF S
    <3>2. \A c \in S : c >= WordBits => c - WordBits \in Bits
      BY <2>2, <3>1
    <3>3. Hi(S) \subseteq Bits
      BY <3>2 DEF Hi
    <3> QED BY <3>3 DEF S
  <2> DEFINE past  == {i \in Turns : 3 * NibbleBits * i >= WordBits}
             spilt == IF w THEN UNION {Hi(Spread(p, i)) : i \in past} ELSE {}
             taken == UNION {Spread(p, i) : i \in Turns}
  <2>4. k = taken \cup spilt
    BY <2>1 DEF bit3Key_fromCoords
  <2>5. taken \subseteq Bits
    BY <2>2
  <2>6. spilt \subseteq Bits
    BY <2>3
  <2> HIDE DEF taken, spilt
  <2> QED BY <2>4, <2>5, <2>6 DEF Key
<1> QED BY <1>1, <1>2, WidthAssumption

\* The sign of a numeric is a bit of the key it was made from.
LEMMA ToLongNumeric ==
  ASSUME NEW k \in Key
  PROVE  /\ bitKey_toLong(k) \in Numeric
         /\ bitKey_toLong(k).neg => WordBits - 1 \in Bits
<1> DEFINE n == bitKey_toLong(k)
<1>1. CASE Dims = 2
  <2>1. n = [neg |-> WordBits - 1 \in k, bits |-> k \ {WordBits - 1}]
    BY <1>1 DEF bitKey_toLong, bit2Key_toLong, int8_numeric
  <2>2. n \in Numeric
    BY <2>1 DEF Numeric, Key
  <2>3. n.neg = (WordBits - 1 \in k)
    BY <2>1
  <2> HIDE DEF n
  <2>4. n.neg => WordBits - 1 \in Bits
    BY <2>3 DEF Key
  <2> QED BY <2>2, <2>4 DEF n
<1>2. CASE Dims = 3
  BY <1>2 DEF bitKey_toLong, bit3Key_toLong, Numeric
<1> QED BY <1>1, <1>2, WidthAssumption

LEMMA FromLongKey ==
  ASSUME NEW n \in Numeric, n.neg => WordBits - 1 \in Bits
  PROVE  bitKey_fromLong(n) \in Key
<1>1. n.bits \in Key
  BY DEF Numeric
<1>2. CASE Dims = 2
  BY <1>1, <1>2 DEF bitKey_fromLong, bit2Key_fromLong, numeric_int8, Key
<1>3. CASE Dims = 3
  <2>1. \A v : WordOf(v) \in Key
    BY DEF WordOf, Key
  <2>2. bit3Key_fromLong(n) = n.bits \/ \E v : bit3Key_fromLong(n) = WordOf(v)
    BY DEF bit3Key_fromLong
  <2> QED BY <1>1, <1>3, <2>1, <2>2 DEF bitKey_fromLong
<1> QED BY <1>2, <1>3, WidthAssumption

\* A bit that two words share does not matter to their comparison.
LEMMA CompareRest ==
  ASSUME NEW w \in Key, NEW v \in Key, NEW t, t \in w <=> t \in v
  PROVE  Compare(w \ {t}, v \ {t}) = Compare(w, v)
<1>1. (w \ {t}) = (v \ {t}) <=> w = v
  OBVIOUS
<1>2. ASSUME NEW x \in Key, NEW y \in Key, t \in x <=> t \in y
      PROVE  Less(x \ {t}, y \ {t}) <=> Less(x, y)
  <2>1. (y \ {t}) \ (x \ {t}) = y \ x
    BY <1>2
  <2>2. ASSUME NEW b
        PROVE  (\A j \in (x \ {t}) \cup (y \ {t}) :
                   j > b => (j \in x \ {t} <=> j \in y \ {t}))
               <=> (\A j \in x \cup y : j > b => (j \in x <=> j \in y))
    BY <1>2
  <2> QED BY <2>1, <2>2 DEF Less
<1> QED BY <1>1, <1>2 DEF Compare
====
