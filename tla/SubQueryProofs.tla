---- MODULE SubQueryProofs ----
(***************************************************************************)
(* What splitting a subquery does to its bounds and its box, for keys      *)
(* small enough to be compared as words, and at the end what it does to    *)
(* the bounds of any keys, and to what is ordered below them.              *)
(***************************************************************************)
EXTENDS SpQueryInv, KeyProofs

LEMMA KeyIsIntSet == ASSUME NEW k \in Key PROVE k \in SUBSET Int
BY KeyBitsRange DEF Key, Bits

\* Less, LessEq and the comparisons of the code, on keys.
LEMMA KeyTotal ==
  ASSUME NEW u \in Key, NEW v \in Key, u # v PROVE Less(u, v) \/ Less(v, u)
<1>1. KeyBits - 1 \in Nat
  BY KeyBitsRange
<1>2. u \in SUBSET (0 .. (KeyBits - 1)) /\ v \in SUBSET (0 .. (KeyBits - 1))
  BY DEF Key, Bits
<1> QED BY <1>1, <1>2, LessTotal

LEMMA KeyTransitive ==
  ASSUME NEW u \in Key, NEW v \in Key, NEW w \in Key, Less(u, v), Less(v, w)
  PROVE  Less(u, w)
BY KeyIsIntSet, LessTransitive

LEMMA KeyAsymmetric ==
  ASSUME NEW u \in Key, NEW v \in Key, Less(u, v) PROVE LessEq(u, v)
BY KeyTransitive, LessIrreflexive DEF LessEq

LEMMA LessEqLess ==
  ASSUME NEW u \in Key, NEW v \in Key, NEW w \in Key, LessEq(u, v), Less(v, w)
  PROVE  Less(u, w)
BY KeyTotal, KeyTransitive DEF LessEq

LEMMA LessLessEq ==
  ASSUME NEW u \in Key, NEW v \in Key, NEW w \in Key, Less(u, v), LessEq(v, w)
  PROVE  Less(u, w)
BY KeyTotal, KeyTransitive DEF LessEq

LEMMA LessEqTransitive ==
  ASSUME NEW u \in Key, NEW v \in Key, NEW w \in Key, LessEq(u, v), LessEq(v, w)
  PROVE  LessEq(u, w)
BY KeyTotal, KeyTransitive, LessIrreflexive DEF LessEq

LEMMA CompareKeys ==
  ASSUME NEW u \in Key, NEW v \in Key
  PROVE  /\ Compare(u, v) \in Int
         /\ Compare(u, v) < 0 <=> Less(u, v)
         /\ Compare(u, v) <= 0 <=> LessEq(u, v)
         /\ Compare(u, v) > 0 <=> Less(v, u)
<1>1. CASE u = v
  BY <1>1, LessIrreflexive DEF Compare, LessEq
<1>2. CASE Less(v, u)
  <2>1. u # v /\ ~ Less(u, v)
    BY <1>2, LessIrreflexive, KeyTransitive
  <2> QED BY <1>2, <2>1 DEF Compare, LessEq
<1>3. CASE u # v /\ ~ Less(v, u)
  BY <1>3, KeyTotal DEF Compare, LessEq
<1> QED BY <1>1, <1>2, <1>3

\* Small keys have their bits in the half of the first word that is compared,
\* and so are compared as words are.
LEMMA RoomRange == Room \in Nat /\ Room <= WordBits /\ (Dims = 3 => Room = HalfBits)
<1>1. CASE Dims = 2
  BY <1>1, WidthAssumption DEF Room
<1>2. CASE Dims = 3
  BY <1>2, WidthAssumption DEF Room, HalfBits, KeyBits
<1> QED BY <1>1, <1>2, WidthAssumption

LEMMA UnsignedKey ==
  ASSUME NEW u
  PROVE  Unsigned(u) <=> u \in Key /\ \A b \in u : b < Room
BY DEF Unsigned, SmallKeys, Key

LEMMA KeyCompare ==
  ASSUME NEW u, NEW v, Unsigned(u), Unsigned(v)
  PROVE  bitKey_cmp(u, v) = Compare(u, v)
<1>1. CASE Dims = 2
  BY <1>1 DEF bitKey_cmp, bit2Key_cmp
<1>2. CASE Dims = 3
  <2>1. ASSUME NEW w, Unsigned(w) PROVE Lo(w) = w /\ Hi(w) = {}
    <3>1. \A b \in w : b \in Int /\ b < WordBits
      BY <2>1, UnsignedKey, KeyIsIntSet, RoomRange, WidthAssumption
    <3>2. {c \in w : c >= WordBits} = {}
      BY <3>1, WidthAssumption
    <3> QED BY <3>1, <3>2 DEF Lo, Hi
  <2>2. bitKey_cmp(u, v) = IF u # v THEN Compare(u, v) ELSE Compare({}, {})
    BY <1>2, <2>1 DEF bitKey_cmp, bit3Key_cmp
  <2> QED BY <2>2 DEF Compare
<1> QED BY <1>1, <1>2, WidthAssumption

LEMMA CompareSmall ==
  ASSUME NEW u, NEW v, Unsigned(u), Unsigned(v)
  PROVE  /\ u \in Key /\ v \in Key
         /\ bitKey_cmp(u, v) < 0 <=> Less(u, v)
         /\ bitKey_cmp(u, v) <= 0 <=> LessEq(u, v)
         /\ bitKey_cmp(u, v) > 0 <=> Less(v, u)
BY UnsignedKey, KeyCompare, CompareKeys

\* Numerics of small keys compare as the keys do.
LEMMA NumericOfKey ==
  ASSUME NEW u, Unsigned(u)
  PROVE  bitKey_toLong(u) = [neg |-> FALSE, bits |-> u]
<1>1. CASE Dims = 2
  <2>1. (WordBits - 1 \in u) = FALSE /\ u \ {WordBits - 1} = u
    BY <1>1, UnsignedKey, WidthAssumption DEF Room
  <2> QED BY <1>1, <2>1 DEF bitKey_toLong, bit2Key_toLong, int8_numeric
<1>2. CASE Dims = 3
  BY <1>2 DEF bitKey_toLong, bit3Key_toLong
<1> QED BY <1>1, <1>2, WidthAssumption

LEMMA NumericCompare ==
  ASSUME NEW u, NEW n \in Numeric, Unsigned(u), n.neg = FALSE
  PROVE  /\ numeric_cmp(bitKey_toLong(u), n) = Compare(u, n.bits)
         /\ numeric_cmp(n, bitKey_toLong(u)) = Compare(n.bits, u)
<1> DEFINE r == [neg |-> FALSE, bits |-> u]
<1>1. r.neg = FALSE /\ r.bits = u
  OBVIOUS
<1>2. bitKey_toLong(u) = r
  BY NumericOfKey
<1> HIDE DEF r
<1> QED BY <1>1, <1>2 DEF numeric_cmp

----------------------------------------------------------------------------
\* In one word, a window begins where it does, whatever the word before it has.
LEMMA KeyWindow ==
  ASSUME NEW k, Unsigned(k), NEW i \in Bits
  PROVE  bitKey_getBit(k, i) =
           {j - i : j \in {b \in k : b >= i /\ b < i + WordBits \div 2 /\ (Dims = 3 => i < WordBits)}}
<1>1. CASE Dims = 2
  BY <1>1 DEF bitKey_getBit, bit2Key_getBit
<1>2. CASE Dims = 3
  <2>1. WordBits \in Nat /\ WordBits > 0 /\ i \in Nat
    BY WidthAssumption, KeyBitsRange DEF Bits
  <2>2. \A b \in k : b \in Nat /\ b < WordBits
    BY UnsignedKey, RoomRange, KeyBitsRange, WidthAssumption DEF Key, Bits
  <2>3. i \div WordBits = 0 <=> i < WordBits
    BY <2>1, DivSmall, DivBig
  <2>4. \A b \in k : b \div WordBits = 0
    BY <2>1, <2>2, DivSmall
  <2> DEFINE W == WordBits \div 2
             D == i \div WordBits
  <2>5. {b \in k : b \div WordBits = D /\ b >= i /\ b < i + W}
          = {b \in k : b >= i /\ b < i + W /\ (Dims = 3 => i < WordBits)}
    <3>1. \A b \in k : b \div WordBits = D <=> (Dims = 3 => i < WordBits)
      BY <1>2, <2>3, <2>4
    <3> HIDE DEF D, W
    <3> QED BY <3>1
  <2> QED BY <1>2, <2>5 DEF bitKey_getBit, bit3Key_getBit
<1> QED BY <1>1, <1>2, WidthAssumption

----------------------------------------------------------------------------
\* getBit tells two keys apart exactly when their windows differ.
LEMMA SameWindow ==
  ASSUME NEW k, NEW l, Unsigned(k), Unsigned(l), NEW i \in Bits
  PROVE  bitKey_getBit(k, i) = bitKey_getBit(l, i)
           <=> \A j \in Bits : i <= j /\ j < i + WordBits \div 2 => (j \in k <=> j \in l)
<1> DEFINE Window(m) == {b \in m : b >= i /\ b < i + WordBits \div 2 /\ (Dims = 3 => i < WordBits)}
<1>1. bitKey_getBit(k, i) = {j - i : j \in Window(k)}
  BY KeyWindow
<1>2. bitKey_getBit(l, i) = {j - i : j \in Window(l)}
  BY KeyWindow
<1>3. /\ k \in SUBSET Int /\ l \in SUBSET Int /\ i \in Int /\ Bits \in SUBSET Int
      /\ k \in Key /\ l \in Key /\ WordBits \in Int
  BY UnsignedKey, KeyIsIntSet, KeyBitsRange, WidthAssumption DEF Bits
<1>6. \A b \in k \cup l : b < WordBits
  BY <1>3, UnsignedKey, RoomRange
<1>4. ASSUME \A j \in Bits : i <= j /\ j < i + WordBits \div 2 => (j \in k <=> j \in l)
      PROVE  bitKey_getBit(k, i) = bitKey_getBit(l, i)
  <2>1. Window(k) = Window(l)
    BY <1>4, <1>3 DEF Key
  <2> QED BY <2>1, <1>1, <1>2
<1>5. ASSUME bitKey_getBit(k, i) = bitKey_getBit(l, i),
             NEW j \in Bits, i <= j, j < i + WordBits \div 2
      PROVE  j \in k <=> j \in l
  <2>1. ASSUME NEW m \in SUBSET Int, NEW n \in SUBSET Int, j \in m, j < WordBits,
               {x - i : x \in Window(m)} = {x - i : x \in Window(n)}
        PROVE  j \in n
    <3>1. j \in Window(m)
      BY <2>1, <1>3, <1>5
    <3>2. j - i \in {x - i : x \in Window(n)}
      BY <2>1, <3>1
    <3>3. PICK x \in Window(n) : j - i = x - i
      BY <3>2
    <3> QED BY <3>3, <1>3, <2>1
  <2> HIDE DEF Window
  <2> QED BY <2>1, <1>1, <1>2, <1>3, <1>5, <1>6
<1> QED BY <1>4, <1>5

----------------------------------------------------------------------------
\* The bit a subquery is split at is the highest one its bounds differ in;
\* of a subquery whose low key is the lesser there always is one.
TopBit(q, b) ==
  /\ b \in q.high /\ b \notin q.low
  /\ \A j \in Bits : j > b => (j \in q.low <=> j \in q.high)

LEMMA TopBitExists ==
  ASSUME NEW q \in SubQuery, Less(q.low, q.high)
  PROVE  \E b \in Bits : TopBit(q, b)
<1>1. PICK b \in q.high \ q.low :
        \A j \in q.low \cup q.high : j > b => (j \in q.low <=> j \in q.high)
  BY DEF Less
<1>2. b \in Bits
  BY <1>1 DEF SubQuery, Key
<1> QED BY <1>1, <1>2 DEF TopBit

LEMMA TopBitUnique ==
  ASSUME NEW q, NEW b \in Bits, NEW c \in Bits, TopBit(q, b), TopBit(q, c)
  PROVE  b = c
BY KeyBitsRange DEF TopBit, Bits

LEMMA TopBitLeft ==
  ASSUME NEW q \in SubQuery, Agree(q), NEW b \in Bits, TopBit(q, b)
  PROVE  q.curBitNum \in Bits /\ Left(q) = q.curBitNum /\ b <= q.curBitNum
<1>1. ~ (b > Left(q))
  BY DEF TopBit, Agree
<1>2. b \in Int /\ b >= 0 /\ \A j \in Bits : j \in Int
  BY KeyBitsRange DEF Bits
<1>3. q.curBitNum \in Bits \cup {CurBitMax}
  BY DEF SubQuery
<1>4. q.curBitNum # CurBitMax
  BY <1>1, <1>2 DEF Left
<1>5. q.curBitNum \in Bits /\ Left(q) = q.curBitNum
  BY <1>3, <1>4 DEF Left
<1>6. q.curBitNum \in Int /\ ~ (b > q.curBitNum)
  BY <1>1, <1>2, <1>5
<1> QED BY <1>2, <1>5, <1>6

LEMMA SplitBitIsTop ==
  ASSUME NEW q \in SubQuery, Agree(q), Unsigned(q.low), Unsigned(q.high), NEW b \in Bits
  PROVE  /\ TopBit(q, b) => SplitBit(q, b)
         /\ SplitBit(q, b) /\ Less(q.low, q.high) => TopBit(q, b)
<1> DEFINE differ(i) == bitKey_getBit(q.low, i) # bitKey_getBit(q.high, i)
<1>1. q.low \in Key /\ q.high \in Key /\ WordBits \div 2 \in Nat /\ WordBits \div 2 > 0
  BY WidthAssumption DEF SubQuery
<1>2. \A i \in Bits : i \in Int
  BY KeyBitsRange DEF Bits
<1>3. ASSUME TopBit(q, b) PROVE SplitBit(q, b)
  <2>1. q.curBitNum \in Bits /\ b <= q.curBitNum
    BY <1>3, TopBitLeft
  <2>2. differ(b)
    BY <1>1, <1>2, <1>3, SameWindow DEF TopBit
  <2>3. ASSUME NEW i \in Bits, b < i PROVE ~ differ(i)
    <3>1. \A j \in Bits : i <= j => (j \in q.low <=> j \in q.high)
      BY <1>2, <1>3, <2>3 DEF TopBit
    <3> QED BY <1>1, <3>1, SameWindow
  <2> QED BY <2>1, <2>2, <2>3 DEF SplitBit
<1>4. ASSUME SplitBit(q, b), Less(q.low, q.high) PROVE TopBit(q, b)
  <2>1. PICK c \in Bits : TopBit(q, c)
    BY <1>4, TopBitExists
  <2>2. q.curBitNum \in Bits /\ c <= q.curBitNum
    BY <2>1, TopBitLeft
  <2>3. differ(c)
    BY <1>1, <1>2, <2>1, SameWindow DEF TopBit
  <2>4. ~ (b < c)
    BY <1>4, <2>2, <2>3 DEF SplitBit
  <2>5. ASSUME c < b PROVE FALSE
    <3>1. \A j \in Bits : b <= j => (j \in q.low <=> j \in q.high)
      BY <1>2, <2>1, <2>5 DEF TopBit
    <3>2. ~ differ(b)
      BY <1>1, <3>1, SameWindow
    <3> QED BY <1>4, <3>2 DEF SplitBit
  <2> QED BY <1>2, <2>1, <2>4, <2>5
<1> QED BY <1>3, <1>4

\* The bits at or below one, of the same coordinate.
LowMask(b) == {j \in Bits : j <= b /\ Axis(j) = Axis(b)}

LEMMA LowBits ==
  ASSUME NEW b \in Bits, NEW k
  PROVE  /\ bitKey_setLowBits(k, b) = (k \cup LowMask(b)) \ {b}
         /\ bitKey_clearLowBits(k, b) = (k \ LowMask(b)) \cup {b}
<1>1. \A j \in Bits : Axis(j) = Axis(b) <=> j % Dims = b % Dims
  BY BitPlaces
<1>2. CASE Dims = 2
  <2>1. bit2Key_lowMask(b) = LowMask(b)
    BY <1>1, <1>2 DEF bit2Key_lowMask, LowMask
  <2> QED BY <1>2, <2>1 DEF bitKey_setLowBits, bitKey_clearLowBits, bit2Key_setLowBits, bit2Key_clearLowBits
<1>3. CASE Dims = 3
  <2>1. bit3Key_lowMask(b) = LowMask(b)
    BY <1>1, <1>3 DEF bit3Key_lowMask, LowMask
  <2> QED BY <1>3, <2>1 DEF bitKey_setLowBits, bitKey_clearLowBits, bit3Key_setLowBits, bit3Key_clearLowBits
<1> QED BY <1>2, <1>3, WidthAssumption

\* The bounds of the two halves.
LEMMA SplitBounds ==
  ASSUME NEW q \in SubQuery, Agree(q), NEW b \in Bits, TopBit(q, b)
  PROVE  LET h == bitKey_setLowBits(q.high, b)
             l == bitKey_clearLowBits(q.low, b)
         IN  /\ h \in Key /\ l \in Key
             /\ Less(h, l) /\ Less(q.low, l) /\ Less(h, q.high)
             /\ \A j \in Bits : j > b - 1 => (j \in q.low <=> j \in h)
             /\ \A j \in Bits : j > b - 1 => (j \in l <=> j \in q.high)
<1> DEFINE h == bitKey_setLowBits(q.high, b)
           l == bitKey_clearLowBits(q.low, b)
           m == LowMask(b)
<1>1. h = (q.high \cup m) \ {b} /\ l = (q.low \ m) \cup {b}
  BY LowBits
<1>2. \A j \in m : j \in Bits /\ j <= b
  BY DEF LowMask
<1>3. q.low \in Key /\ q.high \in Key /\ \A i \in Bits : i \in Int
  BY KeyBitsRange DEF SubQuery, Bits
<1> HIDE DEF m
<1>4. h \in Key /\ l \in Key
  BY <1>1, <1>2, <1>3 DEF Key
<1>5. \A j \in Bits : j > b => (j \in h <=> j \in q.high) /\ (j \in l <=> j \in q.low)
  BY <1>1, <1>2, <1>3
<1>6. b \notin h /\ b \in l
  BY <1>1
<1> HIDE DEF h, l
<1>7. \A j \in Bits : j > b => (j \in q.low <=> j \in q.high)
  BY DEF TopBit
<1>8. Less(h, l)
  BY <1>3, <1>4, <1>5, <1>6, <1>7 DEF Less, Key
<1>9. Less(q.low, l)
  BY <1>3, <1>4, <1>5, <1>6, <1>7 DEF Less, Key, TopBit
<1>10. Less(h, q.high)
  BY <1>3, <1>4, <1>5, <1>6, <1>7 DEF Less, Key, TopBit
<1>11. \A j \in Bits : j > b - 1 => j = b \/ j > b
  BY <1>3
<1>12. /\ \A j \in Bits : j > b - 1 => (j \in q.low <=> j \in h)
       /\ \A j \in Bits : j > b - 1 => (j \in l <=> j \in q.high)
  BY <1>5, <1>6, <1>7, <1>11 DEF TopBit
<1> QED BY <1>4, <1>8, <1>9, <1>10, <1>12 DEF h, l

LEMMA NewSubQueryType ==
  ASSUME NEW l \in Key, NEW h \in Key, NEW n \in Bits \cup {CurBitMax}
  PROVE  /\ NewSubQuery(l, h, n) \in SubQuery
         /\ NewSubQuery(l, h, n).low = l
         /\ NewSubQuery(l, h, n).high = h
         /\ NewSubQuery(l, h, n).curBitNum = n
<1>1. testSolidity(l, h) \in BOOLEAN
  BY DEF testSolidity
<1> QED BY <1>1 DEF NewSubQuery, SubQuery

LEMMA DecrementBit ==
  ASSUME NEW b \in Bits
  PROVE  /\ Decrement(b) \in Bits \cup {CurBitMax}
         /\ \A q : q.curBitNum = Decrement(b) => Left(q) = b - 1
<1>1. b \in Int /\ 0 <= b /\ b <= KeyBits - 1
  BY KeyBitsRange DEF Bits
<1>2. CASE b = 0
  BY <1>2 DEF Decrement, Left
<1>3. CASE b > 0
  <2>1. Decrement(b) = b - 1 /\ b - 1 \in Bits
    BY <1>1, <1>3, KeyBitsRange DEF Decrement, Bits
  <2>2. b - 1 # CurBitMax
    BY <1>1, KeyBitsRange DEF CurBitMax
  <2> QED BY <2>1, <2>2 DEF Left
<1> QED BY <1>1, <1>2, <1>3

\* The halves have no bits above that of the split, so they are small keys too.
LEMMA HalvesUnsigned ==
  ASSUME NEW q \in SubQuery, NEW b \in Bits, TopBit(q, b),
         Unsigned(q.low), Unsigned(q.high)
  PROVE  /\ Unsigned(bitKey_setLowBits(q.high, b))
         /\ Unsigned(bitKey_clearLowBits(q.low, b))
<1> DEFINE m == LowMask(b)
<1>1. /\ bitKey_setLowBits(q.high, b) = (q.high \cup m) \ {b}
      /\ bitKey_clearLowBits(q.low, b) = (q.low \ m) \cup {b}
  BY LowBits
<1>2. \A j \in m : j \in Bits /\ j <= b
  BY DEF LowMask
<1>3. /\ q.low \in Key /\ q.high \in Key /\ \A i \in Bits : i \in Int
      /\ \A j \in q.low \cup q.high : j < Room
  BY UnsignedKey, KeyBitsRange DEF Bits
<1>4. b < Room
  BY <1>3 DEF TopBit
<1> HIDE DEF m
<1>5. (q.high \cup m) \ {b} \in Key /\ (q.low \ m) \cup {b} \in Key
  BY <1>2, <1>3 DEF Key
<1>6. \A j \in m : j < Room
  BY <1>2, <1>3, <1>4, RoomRange
<1> QED BY <1>1, <1>3, <1>4, <1>5, <1>6, UnsignedKey

LEMMA LeftRange ==
  ASSUME NEW q \in SubQuery PROVE Left(q) \in Int /\ -1 <= Left(q) /\ Left(q) < KeyBits
<1>1. q.curBitNum \in Bits \cup {CurBitMax}
  BY DEF SubQuery
<1>2. CASE q.curBitNum = CurBitMax
  BY <1>2, KeyBitsRange DEF Left
<1>3. CASE q.curBitNum # CurBitMax
  BY <1>1, <1>3, KeyBitsRange DEF Left, Bits
<1> QED BY <1>2, <1>3

\* Both halves of a subquery that is split are subqueries again.
LEMMA Halves ==
  ASSUME NEW q \in SubQuery, Agree(q), Less(q.low, q.high),
         Unsigned(q.low), Unsigned(q.high),
         NEW b \in Bits, SplitBit(q, b)
  PROVE  LET s == LowerHalf(q, b)
             r == UpperHalf(q, b)
         IN  /\ s \in SubQuery /\ Agree(s) /\ Unsigned(s.low) /\ Unsigned(s.high)
             /\ r \in SubQuery /\ Agree(r) /\ Unsigned(r.low) /\ Unsigned(r.high)
             /\ s.low = q.low /\ r.high = q.high
             /\ Less(s.high, r.low) /\ Less(q.low, r.low) /\ Less(s.high, q.high)
             /\ Left(s) < Left(q) /\ Left(r) < Left(q) /\ Left(q) < KeyBits
<1> DEFINE h == bitKey_setLowBits(q.high, b)
           l == bitKey_clearLowBits(q.low, b)
           s == LowerHalf(q, b)
           r == UpperHalf(q, b)
<1>1. TopBit(q, b)
  BY SplitBitIsTop
<1>2. /\ h \in Key /\ l \in Key
      /\ Less(h, l) /\ Less(q.low, l) /\ Less(h, q.high)
      /\ \A j \in Bits : j > b - 1 => (j \in q.low <=> j \in h)
      /\ \A j \in Bits : j > b - 1 => (j \in l <=> j \in q.high)
  BY <1>1, SplitBounds
<1>3. Unsigned(h) /\ Unsigned(l)
  BY <1>1, HalvesUnsigned
<1>4. q.low \in Key /\ q.high \in Key
  BY DEF SubQuery
<1>5. Decrement(b) \in Bits \cup {CurBitMax}
  BY DecrementBit
<1>6. s \in SubQuery /\ s.low = q.low /\ s.high = h /\ s.curBitNum = Decrement(b)
  BY <1>2, <1>4, <1>5, NewSubQueryType DEF LowerHalf
<1>7. r \in SubQuery /\ r.low = l /\ r.high = q.high /\ r.curBitNum = Decrement(b)
  BY <1>2, <1>4, <1>5, NewSubQueryType DEF UpperHalf
<1>8. Left(s) = b - 1 /\ Left(r) = b - 1
  BY <1>6, <1>7, DecrementBit
<1>9. Agree(s) /\ Agree(r)
  BY <1>2, <1>6, <1>7, <1>8 DEF Agree
<1>10. b \in Int /\ q.curBitNum \in Bits /\ Left(q) = q.curBitNum /\ b <= q.curBitNum
  BY <1>1, TopBitLeft, KeyBitsRange DEF Bits
<1>11. Left(s) < Left(q) /\ Left(r) < Left(q) /\ Left(q) < KeyBits
  BY <1>8, <1>10, KeyBitsRange DEF Bits
<1> HIDE DEF s, r, h, l
<1>12. /\ s \in SubQuery /\ Agree(s) /\ Unsigned(s.low) /\ Unsigned(s.high)
       /\ r \in SubQuery /\ Agree(r) /\ Unsigned(r.low) /\ Unsigned(r.high)
       /\ s.low = q.low /\ r.high = q.high
       /\ Less(s.high, r.low) /\ Less(q.low, r.low) /\ Less(s.high, q.high)
  BY <1>2, <1>3, <1>6, <1>7, <1>9
<1> QED BY <1>11, <1>12 DEF s, r

----------------------------------------------------------------------------
(* Boxes.                                                                  *)

\* The bits of a coordinate in a key.
Part(k, d) == {b \in Bits : b \in k /\ Axis(b) = d}

Inside(k, low, high) ==
  \A d \in 1 .. Dims : LessEq(Part(low, d), Part(k, d)) /\ LessEq(Part(k, d), Part(high, d))

LEMMA PlaneParts ==
  ASSUME Dims = 2, NEW k \in Key, NEW i \in 0 .. 1
  PROVE  k \cap bit2Key_mask(i) = Part(k, 2 - i)
<1>1. \A b \in k : b \in Bits /\ b \in Int
  BY KeyBitsRange DEF Key, Bits
<1> QED BY <1>1 DEF bit2Key_mask, Part, Axis

LEMMA SpaceParts ==
  ASSUME Dims = 3, NEW k, Unsigned(k), NEW i \in 0 .. 2
  PROVE  /\ LowHalf(k) \cap bit3Key_mask(i) = Part(k, i + 1)
         /\ HighHalf(k) = {}
<1>1. \A b \in k : b \in Bits /\ b \in Nat /\ b < HalfBits /\ HalfBits \in Nat
  BY UnsignedKey, RoomRange, KeyBitsRange DEF Key, Bits
<1>2. {c \in k : c >= HalfBits} = {}
  BY <1>1
<1> QED BY <1>1, <1>2 DEF LowHalf, HighHalf, bit3Key_mask, Part, Axis

LEMMA InBoxInside ==
  ASSUME NEW q, NEW k, Unsigned(q.low), Unsigned(q.high), Unsigned(k)
  PROVE  InBox(q, k) <=> Inside(k, q.low, q.high)
<1>1. CASE Dims = 2
  <2>1. InBox(q, k) <=>
          \A i \in 0 .. 1 : /\ LessEq(Part(q.low, 2 - i), Part(k, 2 - i))
                            /\ LessEq(Part(k, 2 - i), Part(q.high, 2 - i))
    BY <1>1, UnsignedKey, PlaneParts DEF InBox, bitKey_between, bit2Key_between, LessEq
  <2>2. /\ \A i \in 0 .. 1 : 2 - i \in 1 .. 2
        /\ \A d \in 1 .. 2 : 2 - d \in 0 .. 1 /\ 2 - (2 - d) = d
    OBVIOUS
  <2> QED BY <1>1, <2>1, <2>2 DEF Inside
<1>2. CASE Dims = 3
  <2>1. InBox(q, k) <=>
          \A i \in 0 .. 2 : /\ LessEq(Part(q.low, i + 1), Part(k, i + 1))
                            /\ LessEq(Part(k, i + 1), Part(q.high, i + 1))
    <3> DEFINE l == q.low
               h == q.high
               Holds(i) ==
                 LET m == bit3Key_mask(i)
                 IN  /\ ~ Less(LowHalf(k) \cap m, LowHalf(l) \cap m)
                     /\ ~ Less(LowHalf(h) \cap m, LowHalf(k) \cap m)
                     /\ ~ Less(HighHalf(k) \cap m, HighHalf(l) \cap m)
                     /\ ~ Less(HighHalf(h) \cap m, HighHalf(k) \cap m)
    <3>1. InBox(q, k) <=> \A i \in 0 .. 2 : Holds(i)
      BY <1>2 DEF InBox, bitKey_between, bit3Key_between
    <3>2. ASSUME NEW i \in 0 .. 2
          PROVE  Holds(i) <=> /\ LessEq(Part(l, i + 1), Part(k, i + 1))
                              /\ LessEq(Part(k, i + 1), Part(h, i + 1))
      <4>1. Unsigned(l) /\ Unsigned(h)
        OBVIOUS
      <4> HIDE DEF l, h
      <4>2. /\ LowHalf(k) \cap bit3Key_mask(i) = Part(k, i + 1) /\ HighHalf(k) = {}
            /\ LowHalf(l) \cap bit3Key_mask(i) = Part(l, i + 1) /\ HighHalf(l) = {}
            /\ LowHalf(h) \cap bit3Key_mask(i) = Part(h, i + 1) /\ HighHalf(h) = {}
        BY <1>2, <4>1, SpaceParts
      <4>3. \A m : ~ Less({} \cap m, {} \cap m)
        BY DEF Less
      <4> QED BY <4>2, <4>3 DEF LessEq
    <3> HIDE DEF Holds
    <3> QED BY <3>1, <3>2
  <2>2. /\ \A i \in 0 .. 2 : i + 1 \in 1 .. 3
        /\ \A d \in 1 .. 3 : d - 1 \in 0 .. 2 /\ (d - 1) + 1 = d
    OBVIOUS
  <2> QED BY <1>2, <2>1, <2>2 DEF Inside
<1> QED BY <1>1, <1>2, WidthAssumption

LEMMA PartBits ==
  ASSUME NEW k \in Key, NEW d
  PROVE  \A b : b \in Part(k, d) <=> b \in k /\ b \in Bits /\ Axis(b) = d
BY DEF Part, Key

\* One key is below another only if it is so in some coordinate.
LEMMA SomePartLess ==
  ASSUME NEW u \in Key, NEW v \in Key, Less(u, v)
  PROVE  \E d \in 1 .. Dims : Less(Part(u, d), Part(v, d))
<1>1. PICK b \in v \ u : \A j \in u \cup v : j > b => (j \in u <=> j \in v)
  BY DEF Less
<1>2. b \in Bits /\ Axis(b) \in 1 .. Dims
  BY <1>1, BitPlaces DEF Key
<1>3. b \in Part(v, Axis(b)) \ Part(u, Axis(b))
  BY <1>1, <1>2, PartBits
<1>4. Less(Part(u, Axis(b)), Part(v, Axis(b)))
  BY <1>1, <1>2, <1>3, PartBits DEF Less
<1> QED BY <1>2, <1>4

\* A box lies in the interval of its bounds.
LEMMA BoxInterval ==
  ASSUME NEW k \in Key, NEW low \in Key, NEW high \in Key, Inside(k, low, high)
  PROVE  LessEq(low, k) /\ LessEq(k, high)
BY SomePartLess DEF Inside, LessEq

\* What lies between two words that agree above a bit agrees with them there.
LEMMA Squeeze ==
  ASSUME NEW u \in Key, NEW w \in Key, NEW v \in Key, NEW b \in Bits,
         LessEq(u, w), LessEq(w, v),
         \A j \in Bits : j > b => (j \in u <=> j \in v)
  PROVE  \A j \in Bits : j > b => (j \in w <=> j \in u)
<1> SUFFICES ASSUME NEW c \in Bits, c > b, ~ (c \in w <=> c \in u) PROVE FALSE
  OBVIOUS
<1> DEFINE D == {j \in Bits : j > b /\ ~ (j \in w <=> j \in u)}
<1>1. D \in SUBSET (0 .. KeyBits - 1) /\ D # {} /\ KeyBits - 1 \in Nat
  BY KeyBitsRange DEF Bits
<1>2. PICK t \in D : \A j \in D : j <= t
  BY <1>1, HighestBit
<1>3. /\ t \in Bits /\ t > b /\ ~ (t \in w <=> t \in u)
      /\ \A j \in Bits : j > t => (j \in w <=> j \in u) /\ (j \in u <=> j \in v)
  BY <1>2, KeyBitsRange DEF Bits
<1>4. u \subseteq Bits /\ w \subseteq Bits /\ v \subseteq Bits
  BY DEF Key
<1>5. CASE t \in w
  <2>1. t \in w \ v
    BY <1>3, <1>5
  <2>2. Less(v, w)
    BY <1>3, <1>4, <2>1 DEF Less
  <2> QED BY <2>2 DEF LessEq
<1>6. CASE t \in u
  <2>1. t \in u \ w
    BY <1>3, <1>6
  <2>2. Less(w, u)
    BY <1>3, <1>4, <2>1 DEF Less
  <2> QED BY <2>2 DEF LessEq
<1> QED BY <1>3, <1>5, <1>6

----------------------------------------------------------------------------
\* Splitting a box at the top bit of its bounds.
LEMMA SplitParts ==
  ASSUME NEW q \in SubQuery, NEW b \in Bits, TopBit(q, b), NEW d \in 1 .. Dims,
         NEW j \in Bits
  PROVE  /\ j \in Part(bitKey_setLowBits(q.high, b), d) <=>
              /\ Axis(j) = d
              /\ IF j <= b /\ Axis(b) = d THEN j < b ELSE j \in q.high
         /\ j \in Part(bitKey_clearLowBits(q.low, b), d) <=>
              /\ Axis(j) = d
              /\ IF j <= b /\ Axis(b) = d THEN j = b ELSE j \in q.low
<1>1. /\ bitKey_setLowBits(q.high, b) = (q.high \cup LowMask(b)) \ {b}
      /\ bitKey_clearLowBits(q.low, b) = (q.low \ LowMask(b)) \cup {b}
  BY LowBits
<1>2. j \in LowMask(b) <=> j <= b /\ Axis(j) = Axis(b)
  BY DEF LowMask
<1>3. \A k : j \in Part(k, d) <=> j \in k /\ Axis(j) = d
  BY DEF Part
<1>4. j \in Int /\ b \in Int /\ (j # b => j < b \/ j > b)
  BY KeyBitsRange DEF Bits
<1> QED BY <1>1, <1>2, <1>3, <1>4

LEMMA BoxSplit ==
  ASSUME NEW q \in SubQuery, NEW b \in Bits, TopBit(q, b), Unsigned(q.low), Unsigned(q.high),
         NEW k, Unsigned(k), InBox(q, k)
  PROVE  /\ b \notin k => InBox(LowerHalf(q, b), k)
         /\ b \in k => InBox(UpperHalf(q, b), k)
<1> DEFINE h == bitKey_setLowBits(q.high, b)
           l == bitKey_clearLowBits(q.low, b)
<1>1. /\ LowerHalf(q, b).low = q.low /\ LowerHalf(q, b).high = h
      /\ UpperHalf(q, b).low = l /\ UpperHalf(q, b).high = q.high
  BY DEF LowerHalf, UpperHalf, NewSubQuery
<1>2. /\ q.low \in Key /\ q.high \in Key
      /\ \A j \in Bits : j > b => (j \in q.low <=> j \in q.high)
  BY DEF SubQuery, TopBit
<1>11. Unsigned(h) /\ Unsigned(l)
  BY HalvesUnsigned
<1>3. Inside(k, q.low, q.high)
  BY InBoxInside
<1>4. ASSUME NEW d \in 1 .. Dims, NEW j \in Bits, j > b
      PROVE  j \in Part(k, d) <=> j \in Part(q.low, d)
  <2>1. /\ Part(q.low, d) \in Key /\ Part(k, d) \in Key /\ Part(q.high, d) \in Key
        /\ \A c \in Bits : c > b => (c \in Part(q.low, d) <=> c \in Part(q.high, d))
    BY <1>2 DEF Part, Key
  <2> QED BY <1>3, <1>4, <2>1, Squeeze DEF Inside
<1>5. \A d \in 1 .. Dims : Part(k, d) \subseteq Bits /\ Part(h, d) \subseteq Bits /\ Part(l, d) \subseteq Bits
  BY DEF Part
<1>6. \A c : \A d \in 1 .. Dims, j \in Bits : j \in Part(c, d) <=> j \in c /\ Axis(j) = d
  BY DEF Part
<1> HIDE DEF h, l
<1>7. ASSUME b \notin k, NEW d \in 1 .. Dims, Less(Part(h, d), Part(k, d)) PROVE FALSE
  <2>1. PICK t \in Part(k, d) \ Part(h, d) :
          \A j \in Part(h, d) \cup Part(k, d) : j > t => (j \in Part(h, d) <=> j \in Part(k, d))
    BY <1>7 DEF Less
  <2>2. t \in Bits /\ Axis(t) = d /\ t \in k /\ t # b
    BY <1>5, <1>6, <1>7, <2>1
  <2>3. t \notin Part(h, d) =>
          ~ (IF t <= b /\ Axis(b) = d THEN t < b ELSE t \in q.high)
    BY <2>2, SplitParts DEF h
  <2>4. CASE Axis(b) = d
    <3>1. t > b /\ t \notin q.high
      BY <2>1, <2>2, <2>3, <2>4, KeyBitsRange DEF Bits
    <3>2. t \in q.low
      BY <1>4, <1>6, <2>1, <2>2, <3>1
    <3> QED BY <1>2, <2>2, <3>1, <3>2
  <2>5. CASE Axis(b) # d
    <3>1. Part(h, d) = Part(q.high, d)
      <4>1. \A j \in Bits : j \in Part(h, d) <=> j \in Part(q.high, d)
        BY <1>6, <2>5, SplitParts DEF h
      <4> QED BY <1>5, <4>1 DEF Part
    <3>2. Less(Part(q.high, d), Part(k, d))
      BY <1>7, <3>1
    <3> QED BY <1>3, <3>2 DEF Inside, LessEq
  <2> QED BY <2>4, <2>5
<1>8. ASSUME b \in k, NEW d \in 1 .. Dims, Less(Part(k, d), Part(l, d)) PROVE FALSE
  <2>1. PICK t \in Part(l, d) \ Part(k, d) :
          \A j \in Part(l, d) \cup Part(k, d) : j > t => (j \in Part(l, d) <=> j \in Part(k, d))
    BY <1>8 DEF Less
  <2>2. t \in Bits /\ Axis(t) = d /\ t \notin k /\ t # b
    BY <1>5, <1>6, <1>8, <2>1
  <2>3. IF t <= b /\ Axis(b) = d THEN t = b ELSE t \in q.low
    BY <2>1, <2>2, SplitParts DEF l
  <2>4. CASE Axis(b) = d
    <3>1. t > b /\ t \in q.low
      BY <2>2, <2>3, <2>4, KeyBitsRange DEF Bits
    <3> QED BY <1>4, <1>6, <2>1, <2>2, <3>1
  <2>5. CASE Axis(b) # d
    <3>1. Part(l, d) = Part(q.low, d)
      <4>1. \A j \in Bits : j \in Part(l, d) <=> j \in Part(q.low, d)
        BY <1>6, <2>5, SplitParts DEF l
      <4> QED BY <1>5, <4>1 DEF Part
    <3>2. Less(Part(k, d), Part(q.low, d))
      BY <1>8, <3>1
    <3> QED BY <1>3, <3>2 DEF Inside, LessEq
  <2> QED BY <2>4, <2>5
<1>9. b \notin k => Inside(k, q.low, h)
  BY <1>3, <1>7 DEF Inside, LessEq
<1>10. b \in k => Inside(k, l, q.high)
  BY <1>3, <1>8 DEF Inside, LessEq
<1> QED BY <1>1, <1>9, <1>10, <1>11, InBoxInside

\* Both halves of a box that is not empty are not empty.
LEMMA HalvesProper ==
  ASSUME NEW q \in SubQuery, NEW b \in Bits, TopBit(q, b), Unsigned(q.low), Unsigned(q.high),
         InBox(q, q.low)
  PROVE  /\ InBox(LowerHalf(q, b), LowerHalf(q, b).low)
         /\ InBox(UpperHalf(q, b), UpperHalf(q, b).low)
<1>1. /\ q.low \in Key /\ q.high \in Key /\ b \notin q.low /\ b \in q.high
      /\ LowerHalf(q, b).low = q.low /\ UpperHalf(q, b).high = q.high
  BY DEF SubQuery, TopBit, LowerHalf, UpperHalf, NewSubQuery
<1>7. Unsigned(UpperHalf(q, b).low)
  BY HalvesUnsigned DEF UpperHalf, NewSubQuery
<1>2. \A k : LessEq(k, k)
  BY LessIrreflexive DEF LessEq
<1>3. InBox(q, q.high)
  BY <1>2, InBoxInside DEF Inside
<1>4. InBox(LowerHalf(q, b), q.low) /\ InBox(UpperHalf(q, b), q.high)
  BY <1>1, <1>3, BoxSplit
<1>5. Inside(q.high, UpperHalf(q, b).low, q.high)
  BY <1>1, <1>4, <1>7, InBoxInside
<1>6. Inside(UpperHalf(q, b).low, UpperHalf(q, b).low, q.high)
  BY <1>2, <1>5 DEF Inside
<1> QED BY <1>1, <1>4, <1>6, <1>7, InBoxInside

\* The boxes of both halves lie in the box of the whole.
LEMMA HalvesWithin ==
  ASSUME NEW q \in SubQuery, NEW b \in Bits, TopBit(q, b), Unsigned(q.low), Unsigned(q.high),
         NEW k, Unsigned(k), InBox(LowerHalf(q, b), k) \/ InBox(UpperHalf(q, b), k)
  PROVE  InBox(q, k)
<1> DEFINE h == bitKey_setLowBits(q.high, b)
           l == bitKey_clearLowBits(q.low, b)
<1>1. /\ LowerHalf(q, b).low = q.low /\ LowerHalf(q, b).high = h
      /\ UpperHalf(q, b).low = l /\ UpperHalf(q, b).high = q.high
  BY DEF LowerHalf, UpperHalf, NewSubQuery
<1>2. /\ q.low \in Key /\ q.high \in Key /\ b \in q.high /\ b \notin q.low
  BY DEF SubQuery, TopBit
<1>8. Unsigned(h) /\ Unsigned(l)
  BY HalvesUnsigned
<1>3. \A d \in 1 .. Dims : \A u : Part(u, d) \in Key
  BY DEF Part, Key
<1>4. \A u : \A d \in 1 .. Dims, j \in Bits : j \in Part(u, d) <=> j \in u /\ Axis(j) = d
  BY DEF Part
<1>5. ASSUME NEW d \in 1 .. Dims
      PROVE  LessEq(Part(h, d), Part(q.high, d)) /\ LessEq(Part(q.low, d), Part(l, d))
  <2>1. \A j \in Bits :
          /\ j \in Part(h, d) <=>
               Axis(j) = d /\ IF j <= b /\ Axis(b) = d THEN j < b ELSE j \in q.high
          /\ j \in Part(l, d) <=>
               Axis(j) = d /\ IF j <= b /\ Axis(b) = d THEN j = b ELSE j \in q.low
    BY SplitParts
  <2>4. /\ Part(h, d) \subseteq Bits /\ Part(q.high, d) \subseteq Bits
        /\ Part(l, d) \subseteq Bits /\ Part(q.low, d) \subseteq Bits
    BY DEF Part
  <2> HIDE DEF h, l
  <2>2. CASE Axis(b) = d
    <3>1. /\ b \in Part(q.high, d) \ Part(h, d)
          /\ b \in Part(l, d) \ Part(q.low, d)
      BY <1>2, <1>4, <2>1, <2>2, KeyBitsRange DEF Bits
    <3>2. \A j \in Bits : j > b => /\ j \in Part(h, d) <=> j \in Part(q.high, d)
                                   /\ j \in Part(l, d) <=> j \in Part(q.low, d)
      BY <1>4, <2>1, <2>2, KeyBitsRange DEF Bits
    <3>3. Less(Part(h, d), Part(q.high, d)) /\ Less(Part(q.low, d), Part(l, d))
      BY <2>4, <3>1, <3>2 DEF Less
    <3> QED BY <1>3, <3>3, KeyAsymmetric
  <2>3. CASE Axis(b) # d
    <3>1. \A j \in Bits : /\ j \in Part(h, d) <=> j \in Part(q.high, d)
                          /\ j \in Part(l, d) <=> j \in Part(q.low, d)
      BY <1>4, <2>1, <2>3
    <3>2. Part(h, d) = Part(q.high, d) /\ Part(l, d) = Part(q.low, d)
      BY <2>4, <3>1
    <3> QED BY <3>2, LessIrreflexive DEF LessEq
  <2> QED BY <2>2, <2>3
<1> HIDE DEF h, l
<1>6. Inside(k, q.low, h) \/ Inside(k, l, q.high)
  BY <1>1, <1>8, InBoxInside
<1>7. Inside(k, q.low, q.high)
  <2> SUFFICES ASSUME NEW d \in 1 .. Dims
               PROVE  LessEq(Part(q.low, d), Part(k, d)) /\ LessEq(Part(k, d), Part(q.high, d))
    BY DEF Inside
  <2>1. CASE Inside(k, q.low, h)
    <3>1. LessEq(Part(q.low, d), Part(k, d)) /\ LessEq(Part(k, d), Part(h, d))
      BY <2>1 DEF Inside
    <3> QED BY <1>3, <1>5, <3>1, LessEqTransitive
  <2>2. CASE Inside(k, l, q.high)
    <3>1. LessEq(Part(l, d), Part(k, d)) /\ LessEq(Part(k, d), Part(q.high, d))
      BY <2>2 DEF Inside
    <3> QED BY <1>3, <1>5, <3>1, LessEqTransitive
  <2> QED BY <1>6, <2>1, <2>2
<1> QED BY <1>7, InBoxInside

----------------------------------------------------------------------------
\* Coordinates are ordered as their bits in the key are.
LEMMA CoordOrder ==
  ASSUME NEW u \in Key, NEW v \in Key, NEW d \in 1 .. Dims
  PROVE  Less(bitKey_toCoords(u)[d], bitKey_toCoords(v)[d]) <=> Less(Part(u, d), Part(v, d))
<1> DEFINE cu == bitKey_toCoords(u)[d]
           cv == bitKey_toCoords(v)[d]
<1>1. /\ cu = {j \in 0 .. CoordBits - 1 : At(d, j) \in u}
      /\ cv = {j \in 0 .. CoordBits - 1 : At(d, j) \in v}
  BY CoordsOfKey
<1> HIDE DEF cu, cv
<1>2. \A j \in 0 .. CoordBits - 1 : At(d, j) \in Bits /\ Axis(At(d, j)) = d
  BY BitPlaces
<1>3. \A j \in 0 .. CoordBits - 1 :
        (j \in cu <=> At(d, j) \in Part(u, d)) /\ (j \in cv <=> At(d, j) \in Part(v, d))
  BY <1>1, <1>2 DEF Part
<1>4. \A b \in Part(u, d) \cup Part(v, d) :
        b \div Dims \in 0 .. CoordBits - 1 /\ At(d, b \div Dims) = b
  BY BitPlaces DEF Part
<1>5. cu \subseteq 0 .. CoordBits - 1 /\ cv \subseteq 0 .. CoordBits - 1
  BY <1>1
<1>6. \A j, c \in 0 .. CoordBits - 1 : j > c <=> At(d, j) > At(d, c)
  BY BitPlaces
<1>7. Less(cu, cv) => Less(Part(u, d), Part(v, d))
  <2> HAVE Less(cu, cv)
  <2>1. PICK c \in cv \ cu : \A j \in cu \cup cv : j > c => (j \in cu <=> j \in cv)
    BY DEF Less
  <2>2. At(d, c) \in Part(v, d) \ Part(u, d)
    BY <1>3, <1>5, <2>1
  <2>3. ASSUME NEW b \in Part(u, d) \cup Part(v, d), b > At(d, c)
        PROVE  b \in Part(u, d) <=> b \in Part(v, d)
    <3>1. b \div Dims \in 0 .. CoordBits - 1 /\ At(d, b \div Dims) = b
      BY <1>4
    <3>2. b \div Dims > c
      BY <1>5, <1>6, <2>1, <2>3, <3>1
    <3> QED BY <1>3, <2>1, <3>1, <3>2
  <2> QED BY <2>2, <2>3 DEF Less
<1>8. Less(Part(u, d), Part(v, d)) => Less(cu, cv)
  <2> HAVE Less(Part(u, d), Part(v, d))
  <2>1. PICK b \in Part(v, d) \ Part(u, d) :
          \A j \in Part(u, d) \cup Part(v, d) : j > b => (j \in Part(u, d) <=> j \in Part(v, d))
    BY DEF Less
  <2>2. b \div Dims \in 0 .. CoordBits - 1 /\ At(d, b \div Dims) = b
    BY <1>4, <2>1
  <2>3. b \div Dims \in cv \ cu
    BY <1>3, <2>1, <2>2
  <2>4. ASSUME NEW j \in cu \cup cv, j > b \div Dims
        PROVE  j \in cu <=> j \in cv
    <3>1. j \in 0 .. CoordBits - 1 /\ At(d, j) \in Part(u, d) \cup Part(v, d)
      BY <1>3, <1>5, <2>4
    <3>2. At(d, j) > b
      BY <1>6, <2>2, <2>4, <3>1
    <3> QED BY <1>3, <2>1, <3>1, <3>2
  <2> QED BY <2>3, <2>4 DEF Less
<1> QED BY <1>7, <1>8 DEF cu, cv

\* A key lies in the box of an extent's corners exactly when the point it
\* decodes to lies in the extent.
LEMMA BoxIsExtent ==
  ASSUME NEW k \in Key, extent \in [min : Point, max : Point],
         NEW low, low = KeyOfPoint(extent.min), NEW high, high = KeyOfPoint(extent.max)
  PROVE  InExtent(bitKey_toCoords(k)) <=> Inside(k, low, high)
<1>1. /\ bitKey_toCoords(low) = extent.min /\ bitKey_toCoords(high) = extent.max
      /\ low \in Key /\ high \in Key
  BY DecodeEncode
<1>2. \A d \in 1 .. Dims :
        /\ Less(bitKey_toCoords(k)[d], extent.min[d]) <=> Less(Part(k, d), Part(low, d))
        /\ Less(extent.max[d], bitKey_toCoords(k)[d]) <=> Less(Part(high, d), Part(k, d))
  BY <1>1, CoordOrder
<1> QED BY <1>2 DEF Inside, LessEq, InExtent
----------------------------------------------------------------------------
(* Aligned boxes.                                                          *)

\* A word less another that has none of its bits at or below one in which the two
\* differ is made of the bits they differ in: there is nothing to borrow.
LEMMA NoBorrow ==
  ASSUME NEW w, NEW v,
         \A b \in 0 .. CoordBits - 1 : b \in v => b \in w,
         w \subseteq 0 .. CoordBits - 1, v \subseteq 0 .. CoordBits - 1
  PROVE  \A b \in 0 .. CoordBits - 1 : b \in Minus(w, v) <=> b \in w /\ b \notin v
<1> TAKE b \in 0 .. CoordBits - 1
<1>1. ~ Less(Below(w, b), Below(v, b))
  <2>1. Below(v, b) \ Below(w, b) = {}
    BY DEF Below
  <2> QED BY <2>1 DEF Less
<1>2. b \in Minus(w, v) <=> (b \in w <=> (b \in v <=> Less(Below(w, b), Below(v, b))))
  BY DEF Minus
<1> QED BY <1>1, <1>2

\* The low corner of an aligned solid box ends in n zeros in each coordinate, the
\* high one in n ones, and above they are the same.
LEMMA SolidBits ==
  ASSUME NEW q \in SubQuery, Aligned(q), testSolidity(q.low, q.high)
  PROVE  \E m \in Bits : \A b \in Bits :
           IF b <= m THEN b \in q.high /\ b \notin q.low ELSE b \in q.high <=> b \in q.low
<1>1. PICK n \in 1 .. CoordBits - 1 : \A d \in 1 .. Dims : Side(q.low, q.high, d) = 0 .. n - 1
  BY DEF testSolidity
<1>2. /\ CoordBits \in Nat /\ Bits = 0 .. Dims * CoordBits - 1 /\ Dims \in {2, 3}
      /\ n \in Nat /\ 1 <= n /\ n < CoordBits
  BY WidthAssumption DEF Bits, KeyBits
<1> DEFINE lo(d) == {j \in 0 .. CoordBits - 1 : At(d, j) \in q.low}
           hi(d) == {j \in 0 .. CoordBits - 1 : At(d, j) \in q.high}
<1>3. \A d \in 1 .. Dims : Minus(hi(d), lo(d)) = 0 .. n - 1
  <2>1. \A d \in 1 .. Dims : bitKey_toCoords(q.low)[d] = lo(d) /\ bitKey_toCoords(q.high)[d] = hi(d)
    BY CoordsOfKey
  <2> HIDE DEF lo, hi
  <2> QED BY <1>1, <2>1 DEF Side
<1>4. \A c \in Bits : c \in q.low => c \in q.high
  BY KeyBitsRange DEF Aligned, Bits
<1>5. ASSUME NEW d \in 1 .. Dims, NEW j \in 0 .. CoordBits - 1
      PROVE  j < n <=> At(d, j) \in q.high /\ At(d, j) \notin q.low
  <2>1. \A c \in 0 .. CoordBits - 1 : At(d, c) \in Bits
    BY BitPlaces
  <2>2. \A c \in 0 .. CoordBits - 1 : c \in lo(d) => c \in hi(d)
    BY <1>4, <2>1
  <2>3. j \in Minus(hi(d), lo(d)) <=> j \in hi(d) /\ j \notin lo(d)
    <3>1. hi(d) \subseteq 0 .. CoordBits - 1 /\ lo(d) \subseteq 0 .. CoordBits - 1
      OBVIOUS
    <3> HIDE DEF lo, hi
    <3> QED BY <2>2, <3>1, NoBorrow
  <2>4. j \in 0 .. n - 1 <=> j < n
    BY <1>2
  <2> QED BY <1>3, <2>3, <2>4
<1>6. ASSUME NEW b \in Bits PROVE b <= Dims * n - 1 <=> b \in q.high /\ b \notin q.low
  <2>1. /\ b \div Dims \in 0 .. CoordBits - 1 /\ Axis(b) \in 1 .. Dims
        /\ At(Axis(b), b \div Dims) = b
    BY BitPlaces
  <2>2. b \div Dims < n <=> b <= Dims * n - 1
    <3>1. CASE Dims = 2
      BY <1>2, <3>1
    <3>2. CASE Dims = 3
      BY <1>2, <3>2
    <3> QED BY <1>2, <3>1, <3>2
  <2> HIDE DEF lo, hi
  <2> QED BY <1>5, <2>1, <2>2
<1>7. Dims * n - 1 \in Bits
  <2>1. CASE Dims = 2
    BY <1>2, <2>1
  <2>2. CASE Dims = 3
    BY <1>2, <2>2
  <2> QED BY <1>2, <2>1, <2>2
<1> QED BY <1>4, <1>6, <1>7

\* Such a box is the whole interval between its corners.
LEMMA SolidBox ==
  ASSUME NEW q \in SubQuery, Aligned(q), testSolidity(q.low, q.high),
         Unsigned(q.low), Unsigned(q.high), NEW k, Unsigned(k), LessEq(q.low, k), LessEq(k, q.high)
  PROVE  InBox(q, k)
<1>1. PICK m \in Bits : \A b \in Bits :
        IF b <= m THEN b \in q.high /\ b \notin q.low ELSE b \in q.high <=> b \in q.low
  BY SolidBits
<1>2. q.low \in Key /\ q.high \in Key /\ k \in Key /\ \A b \in Bits : b \in Int
  BY UnsignedKey, KeyBitsRange DEF Bits
<1>3. \A b \in Bits : b > m => (b \in k <=> b \in q.low)
  <2>1. \A b \in Bits : b > m => (b \in q.low <=> b \in q.high)
    BY <1>1, <1>2
  <2> QED BY <1>2, <2>1, Squeeze
<1>4. ASSUME NEW d \in 1 .. Dims
      PROVE  LessEq(Part(q.low, d), Part(k, d)) /\ LessEq(Part(k, d), Part(q.high, d))
  <2>1. \A b \in Bits : (b \in q.low => b \in k) /\ (b \in k => b \in q.high)
    BY <1>1, <1>2, <1>3
  <2>2. Part(q.low, d) \ Part(k, d) = {} /\ Part(k, d) \ Part(q.high, d) = {}
    BY <1>2, <2>1 DEF Part, Key
  <2> QED BY <2>2 DEF Less, LessEq
<1> QED BY <1>4, InBoxInside DEF Inside

\* Splitting keeps boxes aligned.
LEMMA HalvesAligned ==
  ASSUME NEW q \in SubQuery, NEW b \in Bits, TopBit(q, b), Aligned(q)
  PROVE  Aligned(LowerHalf(q, b)) /\ Aligned(UpperHalf(q, b))
<1> DEFINE h == bitKey_setLowBits(q.high, b)
           l == bitKey_clearLowBits(q.low, b)
           m == LowMask(b)
<1>1. /\ LowerHalf(q, b).low = q.low /\ LowerHalf(q, b).high = h
      /\ UpperHalf(q, b).low = l /\ UpperHalf(q, b).high = q.high
  BY DEF LowerHalf, UpperHalf, NewSubQuery
<1>2. h = (q.high \cup m) \ {b} /\ l = (q.low \ m) \cup {b}
  BY LowBits
<1>3. \A j \in Bits : j \in Int /\ (j \in m <=> j <= b /\ j % Dims = b % Dims)
  BY BitPlaces, KeyBitsRange DEF Bits, LowMask
<1> HIDE DEF h, l, m
<1>4. /\ b \in q.high /\ b \notin q.low
      /\ \A j \in Bits : j > b => (j \in q.low <=> j \in q.high)
      /\ \A j, c \in Bits : j % Dims = c % Dims /\ j <= c /\ ~ (c \in q.low <=> c \in q.high)
                              => j \notin q.low
  BY DEF TopBit, Aligned
<1>5. ASSUME NEW j \in Bits, NEW c \in Bits, j % Dims = c % Dims, j <= c, ~ (c \in q.low <=> c \in h)
      PROVE  j \notin q.low
  <2>1. CASE c \in m
    <3>1. j % Dims = b % Dims /\ j <= b
      BY <1>3, <1>5, <2>1
    <3> QED BY <1>4, <3>1
  <2>2. CASE c \notin m
    <3>1. c # b /\ (c \in h <=> c \in q.high)
      BY <1>2, <1>3, <2>2
    <3> QED BY <1>4, <1>5, <3>1
  <2> QED BY <2>1, <2>2
<1>6. ASSUME NEW j \in Bits, NEW c \in Bits, j % Dims = c % Dims, j <= c, ~ (c \in l <=> c \in q.high)
      PROVE  j \notin l
  <2>1. c # b /\ c <= b
    <3>1. c # b
      BY <1>2, <1>4, <1>6
    <3>2. c > b => c \notin m /\ (c \in l <=> c \in q.high)
      BY <1>2, <1>3, <1>4, <3>1
    <3> QED BY <1>3, <1>6, <3>1, <3>2
  <2>2. CASE c \in m
    <3>1. j \in m /\ j # b
      BY <1>3, <1>6, <2>1, <2>2
    <3> QED BY <1>2, <3>1
  <2>3. CASE c \notin m
    <3>1. (c \in l <=> c \in q.low) /\ c % Dims # b % Dims
      BY <1>2, <1>3, <2>1, <2>3
    <3>2. j \notin q.low
      BY <1>4, <1>6, <3>1
    <3> QED BY <1>2, <1>6, <3>1, <3>2
  <2> QED BY <2>2, <2>3
<1> QED BY <1>1, <1>5, <1>6 DEF Aligned

----------------------------------------------------------------------------
(***************************************************************************)
(* Any keys, also those with bits in the second word or with the sign of   *)
(* the first, and extents with their corners turned round.                 *)
(***************************************************************************)

\* Of two windows that are the same the lowest bit is, and keys that are the same
\* from a bit on have the same window there.
LEMMA AnyWindow ==
  ASSUME NEW k \in Key, NEW l \in Key, NEW i \in Bits
  PROVE  /\ bitKey_getBit(k, i) = bitKey_getBit(l, i) => (i \in k <=> i \in l)
         /\ (\A j \in Bits : j >= i => (j \in k <=> j \in l))
              => bitKey_getBit(k, i) = bitKey_getBit(l, i)
<1> DEFINE Seen(b) == b >= i /\ b < i + WordBits \div 2
                        /\ (Dims = 3 => b \div WordBits = i \div WordBits)
           Window(m) == {j - i : j \in {b \in m : Seen(b)}}
<1>1. /\ k \in SUBSET Int /\ l \in SUBSET Int /\ i \in Int /\ WordBits \div 2 \in Nat
      /\ WordBits \div 2 > 0
  BY KeyIsIntSet, KeyBitsRange, WidthAssumption DEF Bits
<1>2. ASSUME NEW m \in Key PROVE bitKey_getBit(m, i) = Window(m)
  <2>1. CASE Dims = 2
    BY <2>1 DEF bitKey_getBit, bit2Key_getBit
  <2>2. CASE Dims = 3
    <3>1. bitKey_getBit(m, i) = {j - i : j \in {b \in m : /\ b \div WordBits = i \div WordBits
                                                          /\ b >= i /\ b < i + WordBits \div 2}}
      BY <2>2 DEF bitKey_getBit, bit3Key_getBit
    <3> DEFINE W == WordBits \div 2
               D == i \div WordBits
    <3>2. {b \in m : b \div WordBits = D /\ b >= i /\ b < i + W} = {b \in m : Seen(b)}
      BY <2>2
    <3> QED BY <3>1, <3>2
  <2> QED BY <2>1, <2>2, WidthAssumption
<1>3. Seen(i)
  BY <1>1
<1>4. ASSUME NEW m \in SUBSET Int PROVE 0 \in Window(m) <=> i \in m
  <2>1. \A j \in m : j - i = 0 => j = i
    BY <1>1, <1>4
  <2>2. i \in m => i - i = 0 /\ i \in {b \in m : Seen(b)}
    BY <1>1, <1>3
  <2> HIDE DEF Seen
  <2> QED BY <2>1, <2>2
<1>5. ASSUME \A j \in Bits : j >= i => (j \in k <=> j \in l)
      PROVE  {b \in k : Seen(b)} = {b \in l : Seen(b)}
  BY <1>5 DEF Key
<1> HIDE DEF Seen
<1>6. bitKey_getBit(k, i) = Window(k) /\ bitKey_getBit(l, i) = Window(l)
  BY <1>2
<1>7. bitKey_getBit(k, i) = bitKey_getBit(l, i) => (i \in k <=> i \in l)
  BY <1>1, <1>4, <1>6
<1>8. ASSUME \A j \in Bits : j >= i => (j \in k <=> j \in l)
      PROVE  bitKey_getBit(k, i) = bitKey_getBit(l, i)
  BY <1>5, <1>6, <1>8
<1> QED BY <1>7, <1>8

\* Splitting at a bit changes the bounds there and below only.
LEMMA HalfBounds ==
  ASSUME NEW q \in SubQuery, NEW b \in Bits, SplitBit(q, b)
  PROVE  LET s == LowerHalf(q, b)
             r == UpperHalf(q, b)
         IN  /\ s \in SubQuery /\ r \in SubQuery /\ s.low = q.low /\ r.high = q.high
             /\ Left(s) = b - 1 /\ Left(r) = b - 1 /\ b <= Left(q)
             /\ b \notin s.high /\ b \in r.low
             /\ \A j \in Bits : j > b => /\ j \in s.high <=> j \in q.high
                                         /\ j \in r.low <=> j \in q.low
<1> DEFINE h == bitKey_setLowBits(q.high, b)
           l == bitKey_clearLowBits(q.low, b)
           m == LowMask(b)
<1>1. h = (q.high \cup m) \ {b} /\ l = (q.low \ m) \cup {b}
  BY LowBits
<1>2. \A j \in m : j \in Bits /\ j <= b
  BY DEF LowMask
<1>3. q.low \in Key /\ q.high \in Key /\ \A i \in Bits : i \in Int
  BY KeyBitsRange DEF SubQuery, Bits
<1> HIDE DEF m, h, l
<1>4. h \in Key /\ l \in Key
  BY <1>1, <1>2, <1>3 DEF Key
<1>5. /\ b \notin h /\ b \in l
      /\ \A j \in Bits : j > b => (j \in h <=> j \in q.high) /\ (j \in l <=> j \in q.low)
  BY <1>1, <1>2, <1>3
<1> DEFINE s == LowerHalf(q, b)
           r == UpperHalf(q, b)
<1>6. Decrement(b) \in Bits \cup {CurBitMax}
  BY DecrementBit
<1>7. s \in SubQuery /\ s.low = q.low /\ s.high = h /\ s.curBitNum = Decrement(b)
  BY <1>3, <1>4, <1>6, NewSubQueryType DEF LowerHalf, h
<1>8. r \in SubQuery /\ r.low = l /\ r.high = q.high /\ r.curBitNum = Decrement(b)
  BY <1>3, <1>4, <1>6, NewSubQueryType DEF UpperHalf, l
<1>9. Left(s) = b - 1 /\ Left(r) = b - 1
  BY <1>7, <1>8, DecrementBit
<1>10. b <= Left(q)
  <2>1. q.curBitNum \in Bits /\ b <= q.curBitNum
    BY DEF SplitBit
  <2>2. q.curBitNum # CurBitMax
    BY <2>1, KeyBitsRange DEF CurBitMax, Bits
  <2> QED BY <2>1, <2>2 DEF Left
<1> HIDE DEF s, r
<1>11. /\ s \in SubQuery /\ r \in SubQuery /\ s.low = q.low /\ r.high = q.high
       /\ Left(s) = b - 1 /\ Left(r) = b - 1 /\ b <= Left(q)
       /\ b \notin s.high /\ b \in r.low
       /\ \A j \in Bits : j > b => /\ j \in s.high <=> j \in q.high
                                   /\ j \in r.low <=> j \in q.low
  BY <1>5, <1>7, <1>8, <1>9, <1>10
<1> QED BY <1>11 DEF s, r

\* Of bounds that agree above curBitNum_, the bit a subquery is split at is the
\* highest they differ in, whichever of them has it.
LEMMA SplitBitDiffers ==
  ASSUME NEW q \in SubQuery, NEW b \in Bits, SplitBit(q, b), Agree(q)
  PROVE  /\ ~ (b \in q.low <=> b \in q.high)
         /\ \A j \in Bits : j > b => (j \in q.low <=> j \in q.high)
<1>1. /\ q.low \in Key /\ q.high \in Key /\ b \in Int /\ q.curBitNum \in Bits
      /\ \A j \in Bits : j \in Int
  BY KeyBitsRange DEF SubQuery, SplitBit, Bits
<1>2. Left(q) = q.curBitNum
  BY <1>1, KeyBitsRange DEF Left, CurBitMax, Bits
<1>3. ASSUME NEW j \in Bits, j > b PROVE j \in q.low <=> j \in q.high
  <2>1. CASE j > q.curBitNum
    BY <1>2, <2>1 DEF Agree
  <2>2. CASE j <= q.curBitNum
    <3>1. bitKey_getBit(q.low, j) = bitKey_getBit(q.high, j)
      BY <1>1, <1>3, <2>2 DEF SplitBit
    <3> QED BY <1>1, <3>1, AnyWindow
  <2>3. j \in Int /\ q.curBitNum \in Int
    BY <1>1
  <2> QED BY <2>1, <2>2, <2>3
<1>4. bitKey_getBit(q.low, b) # bitKey_getBit(q.high, b)
  BY DEF SplitBit
<1>5. ~ \A j \in Bits : j >= b => (j \in q.low <=> j \in q.high)
  BY <1>1, <1>4, AnyWindow
<1> QED BY <1>1, <1>3, <1>5

\* The halves ascend, and end below whatever the whole does.
LEMMA LinkHalves ==
  ASSUME NEW q \in SubQuery, NEW b \in Bits, SplitBit(q, b), Agree(q) \/ Link(q, q)
  PROVE  LET s == LowerHalf(q, b)
             r == UpperHalf(q, b)
         IN  /\ Link(s, r)
             /\ Agree(s) \/ Link(s, s)
             /\ Agree(r) \/ Link(r, r)
             /\ \A p : Link(q, p) => Link(s, p) /\ Link(r, p)
<1> DEFINE s == LowerHalf(q, b)
           r == UpperHalf(q, b)
<1>1. /\ s.low = q.low /\ r.high = q.high
      /\ Left(s) = b - 1 /\ Left(r) = b - 1 /\ b <= Left(q)
      /\ b \notin s.high /\ b \in r.low
      /\ \A j \in Bits : j > b => /\ j \in s.high <=> j \in q.high
                                  /\ j \in r.low <=> j \in q.low
  BY HalfBounds
<1>2. b \in Int /\ Left(q) \in Int /\ \A j \in Bits : j \in Int
  BY LeftRange, KeyBitsRange DEF Bits
<1> HIDE DEF s, r
<1>3. ASSUME NEW c \in Bits, c > Left(q), NEW p, DifferAt(c, q.high, p.low)
      PROVE  DifferAt(c, s.high, p.low) /\ c > Left(s) /\ DifferAt(c, r.high, p.low) /\ c > Left(r)
  BY <1>1, <1>2, <1>3 DEF DifferAt
<1>4. ASSUME NEW p, Link(q, p) PROVE Link(s, p) /\ Link(r, p)
  BY <1>3, <1>4 DEF Link
<1>5. /\ Link(s, r)
      /\ Agree(s) \/ Link(s, s)
      /\ Agree(r) \/ Link(r, r)
  <2>1. CASE Agree(q)
    <3>1. /\ ~ (b \in q.low <=> b \in q.high)
          /\ \A j \in Bits : j > b => (j \in q.low <=> j \in q.high)
      BY <2>1, SplitBitDiffers
    <3>2. \A j \in Bits : j > b - 1 => j = b \/ j > b
      BY <1>2
    <3>3. DifferAt(b, s.high, r.low) /\ b > Left(s) /\ b > Left(r)
      BY <1>1, <1>2, <3>1 DEF DifferAt
    <3>4. CASE b \notin q.low
      <4>1. Agree(s) /\ Agree(r)
        BY <1>1, <3>1, <3>2, <3>4 DEF Agree
      <4> QED BY <3>3, <4>1 DEF Link
    <3>5. CASE b \in q.low
      <4>1. DifferAt(b, s.high, s.low) /\ DifferAt(b, r.high, r.low)
        BY <1>1, <3>1, <3>5 DEF DifferAt
      <4> QED BY <3>3, <4>1 DEF Link
    <3> QED BY <3>4, <3>5
  <2>2. CASE Link(q, q)
    <3>1. PICK c \in Bits : c > Left(q) /\ DifferAt(c, q.high, q.low)
      BY <2>2 DEF Link
    <3>2. \A j \in Bits : j >= c => j > b
      BY <1>1, <1>2, <3>1
    <3>3. /\ c > Left(s) /\ c > Left(r)
          /\ DifferAt(c, s.high, r.low) /\ DifferAt(c, s.high, s.low) /\ DifferAt(c, r.high, r.low)
      BY <1>1, <1>2, <3>1, <3>2 DEF DifferAt
    <3> QED BY <3>3 DEF Link
  <2> QED BY <2>1, <2>2
<1> QED BY <1>4, <1>5 DEF s, r

\* What is under the whole is under both halves.
LEMMA UnderHalves ==
  ASSUME NEW q \in SubQuery, NEW b \in Bits, SplitBit(q, b), NEW k, Under(k, q)
  PROVE  Under(k, LowerHalf(q, b)) /\ Under(k, UpperHalf(q, b))
<1> DEFINE s == LowerHalf(q, b)
           r == UpperHalf(q, b)
<1>1. /\ s.low = q.low /\ Left(s) = b - 1 /\ Left(r) = b - 1 /\ b <= Left(q)
      /\ \A j \in Bits : j > b => (j \in r.low <=> j \in q.low)
  BY HalfBounds
<1>2. b \in Int /\ Left(q) \in Int /\ \A j \in Bits : j \in Int
  BY LeftRange, KeyBitsRange DEF Bits
<1>3. PICK c \in Bits : c > Left(q) /\ DifferAt(c, k, q.low)
  BY DEF Under
<1> HIDE DEF s, r
<1>4. c \in Int /\ c > b /\ \A j \in Bits : j > c => j > b
  <2>1. b <= Left(q)
    BY <1>1
  <2>2. c > Left(q)
    BY <1>3
  <2>3. c \in Int
    BY <1>2
  <2>4. c > b
    BY <1>2, <2>1, <2>2, <2>3
  <2> QED BY <1>2, <2>3, <2>4
<1>5. c > Left(s) /\ c > Left(r)
  BY <1>1, <1>2, <1>4
<1>6. DifferAt(c, k, s.low)
  BY <1>1, <1>3
<1>7. DifferAt(c, k, r.low)
  BY <1>1, <1>3, <1>4 DEF DifferAt
<1> QED BY <1>5, <1>6, <1>7 DEF Under, s, r

\* What is under a subquery is less than its low key, and a subquery that ends
\* below itself has no key between its bounds.
LEMMA UnderLess ==
  ASSUME NEW k \in Key, NEW q \in SubQuery, Under(k, q)
  PROVE  Less(k, q.low)
BY DEF Under, DifferAt, Less, SubQuery, Key

LEMMA LinkLess ==
  ASSUME NEW q \in SubQuery, NEW p \in SubQuery, Link(q, p)
  PROVE  Less(q.high, p.low)
BY DEF Link, DifferAt, Less, SubQuery, Key

\* A key between the bounds of a subquery is under those that it ends below.
LEMMA LinkUnder ==
  ASSUME NEW q \in SubQuery, NEW p \in SubQuery, Link(q, p), Agree(q) \/ Link(q, q),
         NEW k \in Key, LessEq(q.low, k), LessEq(k, q.high)
  PROVE  Under(k, p)
<1>1. q.low \in Key /\ q.high \in Key
  BY DEF SubQuery
<1>2. Agree(q)
  <2>1. ASSUME Link(q, q) PROVE FALSE
    BY <1>1, <2>1, LinkLess, LessEqTransitive DEF LessEq
  <2> QED BY <2>1
<1>3. PICK c \in Bits : c > Left(q) /\ c > Left(p) /\ DifferAt(c, q.high, p.low)
  BY DEF Link
<1>4. ASSUME NEW j \in Bits, j >= c PROVE j \in k <=> j \in q.high
  <2>1. CASE Left(q) = -1
    <3>1. q.low = q.high
      BY <1>1, <1>2, <2>1, KeyBitsRange DEF Agree, Key, Bits
    <3>2. k = q.low
      BY <1>1, <3>1, KeyTotal DEF LessEq
    <3> QED BY <3>1, <3>2
  <2>2. CASE Left(q) # -1
    <3>1. Left(q) \in Bits
      BY <2>2, LeftRange, KeyBitsRange DEF Bits
    <3>2. \A i \in Bits : i > Left(q) => (i \in k <=> i \in q.low)
      BY <1>1, <1>2, <3>1, Squeeze DEF Agree
    <3>3. j > Left(q) /\ \A i \in Bits : i > Left(q) => (i \in q.low <=> i \in q.high)
      BY <1>2, <1>3, <1>4, <3>1, KeyBitsRange DEF Agree, Bits
    <3> QED BY <3>2, <3>3
  <2> QED BY <2>1, <2>2
<1>5. c \in Int /\ \A j \in Bits : j \in Int
  BY KeyBitsRange DEF Bits
<1>6. DifferAt(c, k, p.low)
  BY <1>3, <1>4, <1>5 DEF DifferAt
<1> QED BY <1>3, <1>6 DEF Under

\* In any dimensions, whatever bits they have, the keys in a box lie between its
\* corners.
LEMMA InBoxBetween ==
  ASSUME NEW q, q.low \in Key, q.high \in Key, NEW k \in Key, InBox(q, k)
  PROVE  LessEq(q.low, k) /\ LessEq(k, q.high)
<1> DEFINE l == q.low
           h == q.high
<1>1. CASE Dims = 2
  <2>1. \A i \in 0 .. 1 : /\ LessEq(Part(l, 2 - i), Part(k, 2 - i))
                         /\ LessEq(Part(k, 2 - i), Part(h, 2 - i))
    BY <1>1, PlaneParts DEF InBox, bitKey_between, bit2Key_between, LessEq
  <2>2. \A d \in 1 .. 2 : 2 - d \in 0 .. 1 /\ 2 - (2 - d) = d
    OBVIOUS
  <2>3. Inside(k, l, h)
    BY <1>1, <2>1, <2>2 DEF Inside
  <2> QED BY <2>3, BoxInterval
<1>2. CASE Dims = 3
  <2> DEFINE Holds(u, v) == \A i \in 0 .. 2 :
               LET m == bit3Key_mask(i)
               IN  /\ ~ Less(LowHalf(v) \cap m, LowHalf(u) \cap m)
                   /\ ~ Less(HighHalf(v) \cap m, HighHalf(u) \cap m)
  <2>1. Holds(l, k) /\ Holds(k, h)
    BY <1>2 DEF InBox, bitKey_between, bit3Key_between
  <2>2. ASSUME NEW u \in Key, NEW v \in Key, Holds(u, v) PROVE LessEq(u, v)
    <3> SUFFICES ASSUME Less(v, u) PROVE FALSE
      BY DEF LessEq
    <3>1. PICK b \in u \ v : \A j \in v \cup u : j > b => (j \in v <=> j \in u)
      BY DEF Less
    <3>2. /\ b \in Nat /\ u \in SUBSET Nat /\ v \in SUBSET Nat /\ HalfBits \in Nat
          /\ \A j \in u \cup v : j < 2 * HalfBits
      BY <1>2, <2>2, <3>1, KeyBitsRange, WidthAssumption DEF Key, Bits, HalfBits, KeyBits
    <3>3. CASE b < HalfBits
      <4>1. 2 - (b % 3) \in 0 .. 2 /\ b \in bit3Key_mask(2 - (b % 3))
        BY <3>2, <3>3 DEF bit3Key_mask
      <4> DEFINE m == bit3Key_mask(2 - (b % 3))
      <4>2. b \in (LowHalf(u) \cap m) \ (LowHalf(v) \cap m)
        BY <3>1, <3>3, <4>1 DEF LowHalf
      <4> HIDE DEF m
      <4>3. Less(LowHalf(v) \cap m, LowHalf(u) \cap m)
        BY <3>1, <3>2, <4>2 DEF Less, LowHalf
      <4> QED BY <2>2, <4>1, <4>3 DEF m
    <3>4. CASE b >= HalfBits
      <4> DEFINE c == b - HalfBits
                 m == bit3Key_mask(2 - (c % 3))
      <4>1. c \in Nat /\ c < HalfBits /\ 2 - (c % 3) \in 0 .. 2 /\ c \in m
        BY <3>1, <3>2, <3>4 DEF bit3Key_mask
      <4>2. ASSUME NEW w \in SUBSET Nat, NEW j \in Nat
            PROVE  j \in HighHalf(w) <=> j + HalfBits \in w
        BY <3>2, <4>2 DEF HighHalf
      <4>3. c + HalfBits = b /\ c \in HighHalf(u) /\ c \notin HighHalf(v)
        BY <3>1, <3>2, <4>1, <4>2
      <4> HIDE DEF m, c
      <4>4. \A j \in HighHalf(v) \cup HighHalf(u) : j \in Nat
        BY <3>2 DEF HighHalf
      <4>5. ASSUME NEW j \in HighHalf(v) \cup HighHalf(u), j > c
            PROVE  j \in HighHalf(v) <=> j \in HighHalf(u)
        <5>1. j \in Nat /\ j + HalfBits > b
          BY <3>2, <4>1, <4>3, <4>4, <4>5
        <5> QED BY <3>1, <3>2, <4>2, <5>1
      <4>6. Less(HighHalf(v) \cap m, HighHalf(u) \cap m)
        BY <4>1, <4>3, <4>5 DEF Less
      <4> QED BY <2>2, <4>1, <4>6 DEF m
    <3> QED BY <3>2, <3>3, <3>4
  <2> HIDE DEF Holds
  <2> QED BY <2>1, <2>2
<1> QED BY <1>1, <1>2, WidthAssumption

\* The order of the btree is transitive.
LEMMA NumericTransitive ==
  ASSUME NEW u \in Numeric, NEW v \in Numeric, NEW w \in Numeric,
         numeric_cmp(u, v) <= 0, numeric_cmp(v, w) <= 0
  PROVE  numeric_cmp(u, w) <= 0
<1>1. /\ u.bits \in Key /\ v.bits \in Key /\ w.bits \in Key
      /\ u.neg \in BOOLEAN /\ v.neg \in BOOLEAN /\ w.neg \in BOOLEAN
  BY DEF Numeric
<1>2. ASSUME NEW x \in Numeric, NEW y \in Numeric
      PROVE  numeric_cmp(x, y) <= 0 <=>
               (x.neg /\ ~ y.neg) \/ (x.neg = y.neg /\ LessEq(x.bits, y.bits))
  <2>1. x.bits \in Key /\ y.bits \in Key /\ x.neg \in BOOLEAN /\ y.neg \in BOOLEAN
    BY DEF Numeric
  <2>2. Compare(x.bits, y.bits) <= 0 <=> LessEq(x.bits, y.bits)
    BY <2>1, CompareKeys
  <2>3. CASE x.neg # y.neg
    BY <2>1, <2>3 DEF numeric_cmp
  <2>4. CASE x.neg = y.neg
    BY <2>2, <2>4 DEF numeric_cmp
  <2> QED BY <2>3, <2>4
<1>3. /\ (u.neg /\ ~ v.neg) \/ (u.neg = v.neg /\ LessEq(u.bits, v.bits))
      /\ (v.neg /\ ~ w.neg) \/ (v.neg = w.neg /\ LessEq(v.bits, w.bits))
  BY <1>2
<1>4. LessEq(u.bits, v.bits) /\ LessEq(v.bits, w.bits) => LessEq(u.bits, w.bits)
  BY <1>1, LessEqTransitive
<1>5. (u.neg /\ ~ w.neg) \/ (u.neg = w.neg /\ LessEq(u.bits, w.bits))
  BY <1>1, <1>3, <1>4
<1> QED BY <1>2, <1>5

\* The key a numeric was made from can be told from it.
LEMMA KeyInNumeric ==
  ASSUME NEW k \in Key
  PROVE  bitKey_toLong(k) \in Numeric /\ numeric_int8(bitKey_toLong(k)) = k
<1>1. CASE Dims = 2
  BY <1>1, ReadStored, ToLongNumeric DEF bitKey_fromLong, bit2Key_fromLong
<1>2. CASE Dims = 3
  BY <1>2, ToLongNumeric DEF bitKey_toLong, bit3Key_toLong, numeric_int8
<1> QED BY <1>1, <1>2, WidthAssumption

\* Between numerics, too, the keys lie between those they were made from, unless
\* the lower one alone is negative.
LEMMA NumericBetween ==
  ASSUME NEW l \in Key, NEW k \in Key, NEW h \in Key, Unturned(l, h),
         numeric_cmp(bitKey_toLong(l), bitKey_toLong(k)) <= 0,
         numeric_cmp(bitKey_toLong(k), bitKey_toLong(h)) <= 0
  PROVE  LessEq(l, k) /\ LessEq(k, h)
<1>1. CASE Dims = 2
  <2> DEFINE t == WordBits - 1
  <2>1. ASSUME NEW w \in Key
        PROVE  /\ bitKey_toLong(w).bits = w \ {t}
               /\ bitKey_toLong(w).neg <=> t \in w
               /\ bitKey_toLong(w).neg \in BOOLEAN
    <3>1. bitKey_toLong(w) = int8_numeric(w)
      BY <1>1 DEF bitKey_toLong, bit2Key_toLong
    <3>2. int8_numeric(w).bits = w \ {t}
      BY Zenon DEF int8_numeric
    <3>3. int8_numeric(w).neg = (t \in w)
      BY Zenon DEF int8_numeric
    <3>4. (t \in w) \in BOOLEAN
      OBVIOUS
    <3> QED BY <3>1, <3>2, <3>3, <3>4, Zenon
  <2> HIDE DEF t
  <2>2. ASSUME NEW u \in Key, NEW v \in Key,
               numeric_cmp(bitKey_toLong(u), bitKey_toLong(v)) <= 0
        PROVE  (t \in u /\ t \notin v) \/ ((t \in u <=> t \in v) /\ LessEq(u, v))
    <3>1. CASE t \in u <=> t \in v
      <4>1. bitKey_toLong(u).neg = bitKey_toLong(v).neg
        BY <2>1, <3>1
      <4>2. numeric_cmp(bitKey_toLong(u), bitKey_toLong(v)) = Compare(u \ {t}, v \ {t})
        BY <2>1, <4>1 DEF numeric_cmp
      <4>3. Compare(u \ {t}, v \ {t}) = Compare(u, v)
        BY <3>1, CompareRest
      <4> QED BY <2>2, <3>1, <4>2, <4>3, CompareKeys
    <3>2. CASE t \notin u /\ t \in v
      <4>1. bitKey_toLong(u).neg # bitKey_toLong(v).neg /\ ~ bitKey_toLong(u).neg
        BY <2>1, <3>2
      <4>2. numeric_cmp(bitKey_toLong(u), bitKey_toLong(v)) = 1
        BY <4>1 DEF numeric_cmp
      <4> QED BY <2>2, <4>2
    <3> QED BY <3>1, <3>2
  <2>3. /\ (t \in l /\ t \notin k) \/ ((t \in l <=> t \in k) /\ LessEq(l, k))
        /\ (t \in k /\ t \notin h) \/ ((t \in k <=> t \in h) /\ LessEq(k, h))
    BY <2>2
  <2>4. t \in l => t \in h
    BY <1>1 DEF Unturned, t
  <2> QED BY <2>3, <2>4
<1>2. CASE Dims = 3
  <2>1. ASSUME NEW w \in Key
        PROVE  bitKey_toLong(w) = [neg |-> FALSE, bits |-> w]
    BY <1>2 DEF bitKey_toLong, bit3Key_toLong
  <2>2. ASSUME NEW u \in Key, NEW v \in Key
        PROVE  numeric_cmp(bitKey_toLong(u), bitKey_toLong(v)) = Compare(u, v)
    <3> DEFINE m == bitKey_toLong(u)
               n == bitKey_toLong(v)
    <3>1. m.neg = FALSE /\ m.bits = u /\ n.neg = FALSE /\ n.bits = v
      BY <2>1
    <3> HIDE DEF m, n
    <3>2. numeric_cmp(m, n) = Compare(u, v)
      BY <3>1 DEF numeric_cmp
    <3> QED BY <3>2 DEF m, n
  <2> QED BY <2>2, CompareKeys
<1> QED BY <1>1, <1>2, WidthAssumption
====
