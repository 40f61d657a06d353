---- MODULE KeyPathProofs ----
(***************************************************************************)
(* The way into the index and back, for any width of coordinates and any   *)
(* number of rows. Whatever is stored, the btree's order of int8 values is *)
(* the automaton's, and only wider keys raise an error. The way loses      *)
(* nothing in two dimensions, and in three as long as the coordinates fit  *)
(* and their numerics keep their digits, as those of small coordinates do. *)
(***************************************************************************)
EXTENDS KeyPath, KeyProofs

Encoded(r) == KeyOfPoint(given[r])

\* All of these hold of all coordinates in two dimensions. In three, coordinates
\* fit below 2^24, beyond which bit3Key_fromCoords shifts by more than a word;
\* bit3Key_fromLong reads back what bit3Key_toLong made of a key unless zero
\* digits were dropped from a long numeric; and below 2^21 neither happens, as
\* such keys are less than 2^63.
CoordsFit        == \A p \in Coords : Fits(p)
CoordsKeepDigits == Dims = 3 => \A p \in Coords : KeepsDigits(Num(KeyOfPoint(p)))
CoordsSmall      == Dims = 3 => \A p \in Coords, d \in 1 .. Dims :
                      \A j \in p[d] : 3 * j + 2 < WordBits - 1

----------------------------------------------------------------------------
\* Types.
TypeInv ==
  /\ TypeOK
  /\ \A r \in Rows : datum[r].neg => WordBits - 1 \in Bits

\* Whatever is stored, the variables keep their types: a key read from the index
\* has no bits beyond those a key can have.
THEOREM PathTypes == Spec => []TypeOK
<1>1. Init => TypeInv
  <2>1. Nowhere \in Point
    BY DEF Nowhere, Point, Coord
  <2>2. {} \in Key /\ [neg |-> FALSE, bits |-> {}] \in Numeric
    BY DEF Key, Numeric
  <2> QED BY <2>1, <2>2 DEF Init, TypeInv, TypeOK
<1>2. TypeInv /\ [Next]_vars => TypeInv'
  <2> SUFFICES ASSUME TypeInv, [Next]_vars PROVE TypeInv'
    OBVIOUS
  <2> USE DEF TypeInv
  <2>1. ASSUME NEW r \in Rows, zcurve_num_from(r) PROVE TypeInv'
    <3>1. PICK k \in bitKey_fromCoords(given[r]) : datum' = [datum EXCEPT ![r] = bitKey_toLong(k)]
      BY <2>1 DEF zcurve_num_from
    <3>2. k \in Key
      BY FromCoordsKey
    <3> QED BY <2>1, <3>1, <3>2, ToLongNumeric DEF TypeOK, zcurve_num_from
  <2>2. ASSUME NEW r \in Rows, Fetch(r) PROVE TypeInv'
    <3>1. bitKey_fromLong(datum[r]) \in Key
      BY FromLongKey DEF TypeOK
    <3> QED BY <2>2, <3>1 DEF TypeOK, Fetch
  <2>3. ASSUME NEW r \in Rows, FetchFails(r) PROVE TypeInv'
    BY <2>3 DEF TypeOK, FetchFails
  <2>4. ASSUME NEW r \in Rows, Decode(r) PROVE TypeInv'
    BY <2>4, CoordsArePoint DEF TypeOK, Decode
  <2>5. CASE UNCHANGED vars
    BY <2>5 DEF vars, TypeOK
  <2> QED BY <2>1, <2>2, <2>3, <2>4, <2>5 DEF Next
<1>3. TypeInv => TypeOK
  BY DEF TypeInv
<1> QED BY <1>1, <1>2, <1>3, PTL DEF Spec

----------------------------------------------------------------------------
\* What is stored for each row.
StoredInv == \A r \in Rows : stage[r] # "given" => datum[r] = bitKey_toLong(Encoded(r))

LEMMA StoredStep == ASSUME CoordsFit, TypeOK, StoredInv, [Next]_vars PROVE StoredInv'
<1> USE DEF StoredInv, TypeOK
<1>1. ASSUME NEW r \in Rows, zcurve_num_from(r) PROVE StoredInv'
  <2>1. bitKey_fromCoords(given[r]) = {Encoded(r)}
    BY MadeKey, PathAssumption DEF CoordsFit, Encoded
  <2>2. datum' = [datum EXCEPT ![r] = bitKey_toLong(Encoded(r))]
    BY <1>1, <2>1 DEF zcurve_num_from
  <2> QED BY <1>1, <2>2 DEF zcurve_num_from, Encoded
<1>2. ASSUME NEW r \in Rows, Fetch(r) \/ FetchFails(r) \/ Decode(r) PROVE StoredInv'
  BY <1>2 DEF Fetch, FetchFails, Decode, Encoded
<1>3. CASE UNCHANGED vars
  BY <1>3 DEF vars, Encoded
<1> QED BY <1>1, <1>2, <1>3 DEF Next

LEMMA StoredInvariance == ASSUME CoordsFit PROVE Spec => []StoredInv
<1>1. Init => StoredInv
  BY DEF Init, StoredInv
<1>2. TypeOK /\ StoredInv /\ [Next]_vars => StoredInv'
  BY StoredStep
<1> QED BY <1>1, <1>2, PathTypes, PTL DEF Spec

\* Different keys are stored as different numerics.
LEMMA ToLongInjective ==
  ASSUME NEW k \in Key, NEW l \in Key, bitKey_toLong(k) = bitKey_toLong(l)
  PROVE  k = l
<1>1. CASE Dims = 2
  BY <1>1, ReadStored
<1>2. CASE Dims = 3
  BY <1>2 DEF bitKey_toLong, bit3Key_toLong
<1> QED BY <1>1, <1>2, WidthAssumption

\* Two rows have one index key only if they have the same coordinates.
THEOREM KeysTellRowsApart == ASSUME CoordsFit PROVE Spec => []KeysDistinct
<1>1. TypeOK /\ StoredInv => KeysDistinct
  <2> SUFFICES ASSUME TypeOK, StoredInv, NEW r \in Rows, NEW s \in Rows,
                      stage[r] # "given", stage[s] # "given", datum[r] = datum[s]
               PROVE  given[r] = given[s]
    BY DEF KeysDistinct
  <2>1. given[r] \in Point /\ given[s] \in Point
    BY PathAssumption DEF TypeOK
  <2>2. bitKey_toLong(Encoded(r)) = bitKey_toLong(Encoded(s))
    BY DEF StoredInv
  <2>3. Encoded(r) = Encoded(s)
    BY <2>1, <2>2, DecodeEncode, ToLongInjective DEF Encoded
  <2> QED BY <2>1, <2>3, DecodeEncode DEF Encoded
<1> QED BY <1>1, PathTypes, StoredInvariance, PTL

----------------------------------------------------------------------------
\* No lookup ends in an error.
NoErrors == \A r \in Rows : stage[r] # "error"

\* What is read of each row, and returned.
ReadInv ==
  \A r \in Rows :
    /\ stage[r] \in {"read", "returned"} => key[r] = bitKey_fromLong(datum[r])
    /\ stage[r] = "returned" => coords[r] = bitKey_toCoords(key[r])
    /\ stage[r] = "error" => ~ bitKey_readable(datum[r])
    /\ stage[r] # "given" => \E k \in Key : datum[r] = bitKey_toLong(k)

LEMMA ReadStep == ASSUME TypeOK, ReadInv, [Next]_vars PROVE ReadInv'
<1> USE DEF ReadInv, TypeOK
<1>1. ASSUME NEW r \in Rows, zcurve_num_from(r) PROVE ReadInv'
  <2>1. PICK k \in bitKey_fromCoords(given[r]) : datum' = [datum EXCEPT ![r] = bitKey_toLong(k)]
    BY <1>1 DEF zcurve_num_from
  <2>2. k \in Key
    BY FromCoordsKey
  <2> QED BY <1>1, <2>1, <2>2 DEF zcurve_num_from
<1>2. ASSUME NEW r \in Rows, Fetch(r) PROVE ReadInv'
  BY <1>2 DEF Fetch
<1>3. ASSUME NEW r \in Rows, FetchFails(r) PROVE ReadInv'
  BY <1>3 DEF FetchFails
<1>4. ASSUME NEW r \in Rows, Decode(r) PROVE ReadInv'
  BY <1>4 DEF Decode
<1>5. CASE UNCHANGED vars
  BY <1>5 DEF vars
<1> QED BY <1>1, <1>2, <1>3, <1>4, <1>5 DEF Next

LEMMA ReadInvariance == Spec => []ReadInv
<1>1. Init => ReadInv
  BY DEF Init, ReadInv
<1>2. TypeOK /\ ReadInv /\ [Next]_vars => ReadInv'
  BY ReadStep
<1> QED BY <1>1, <1>2, PathTypes, PTL DEF Spec

\* A key comes back from the numeric it is stored as.
LEMMA ReadsBack ==
  ASSUME NEW k \in Key, Dims = 3 => KeepsDigits(Num(k))
  PROVE  bitKey_fromLong(bitKey_toLong(k)) = k
<1>1. CASE Dims = 2
  BY <1>1, ReadStored
<1>2. CASE Dims = 3
  BY <1>2, KeptDigits DEF bitKey_fromLong, bitKey_toLong
<1> QED BY <1>1, <1>2, WidthAssumption

LEMMA Int8ReadsBack ==
  ASSUME NEW k \in Key, Int8Value(bitKey_toLong(k))
  PROVE  bitKey_fromLong(bitKey_toLong(k)) = k
<1>1. CASE Dims = 2
  BY <1>1, ReadStored
<1>2. CASE Dims = 3
  <2>1. \A b \in k : b < WordBits - 1
    BY <1>2, WidthAssumption DEF bitKey_toLong, bit3Key_toLong, Int8Value
  <2> QED BY <1>2, <2>1, Int8Keys DEF bitKey_fromLong, bitKey_toLong
<1> QED BY <1>1, <1>2, WidthAssumption

\* A lookup returns the coordinates a row was stored with, unless they are too
\* large for the shifts of the encoding or their numeric loses digits.
THEOREM CoordsComeBack == ASSUME CoordsFit, CoordsKeepDigits PROVE Spec => []RoundTrip
<1>1. TypeOK /\ StoredInv /\ ReadInv => RoundTrip
  <2> SUFFICES ASSUME TypeOK, StoredInv, ReadInv, NEW r \in Rows, stage[r] = "returned"
               PROVE  coords[r] = given[r]
    BY DEF RoundTrip
  <2>1. given[r] \in Coords /\ given[r] \in Point /\ Encoded(r) \in Key
    BY PathAssumption, DecodeEncode DEF TypeOK, Encoded
  <2>2. datum[r] = bitKey_toLong(Encoded(r))
    BY DEF StoredInv
  <2>3. coords[r] = bitKey_toCoords(bitKey_fromLong(datum[r]))
    BY DEF ReadInv
  <2>4. bitKey_fromLong(datum[r]) = Encoded(r)
    BY <2>1, <2>2, ReadsBack DEF CoordsKeepDigits, Encoded
  <2> QED BY <2>1, <2>3, <2>4, DecodeEncode DEF Encoded
<1> QED BY <1>1, PathTypes, StoredInvariance, ReadInvariance, PTL

\* The keys of small coordinates are int8 values.
LEMMA SmallKeysOfCoords ==
  ASSUME CoordsSmall, Dims = 3, NEW p \in Coords
  PROVE  \A b \in KeyOfPoint(p) : b < WordBits - 1
<1> SUFFICES ASSUME NEW b \in KeyOfPoint(p) PROVE b < WordBits - 1
  OBVIOUS
<1>1. b \in Nat /\ b \div 3 \in p[3 - (b % 3)]
  BY KeyBitsRange DEF KeyOfPoint, Bits, Axis
<1>2. 3 - (b % 3) \in 1 .. 3 /\ b <= 3 * (b \div 3) + 2 /\ b \div 3 \in Nat
  BY <1>1
<1>3. 3 * (b \div 3) + 2 < WordBits - 1
  BY <1>1, <1>2 DEF CoordsSmall
<1> QED BY <1>1, <1>2, <1>3, WidthAssumption

\* In two dimensions, and in three below 2^21, a lookup returns the coordinates
\* every row was stored with, and none ends in an error.
THEOREM SmallCoordsComeBack == ASSUME CoordsSmall PROVE Spec => [](RoundTrip /\ NoErrors)
<1>1. CoordsFit
  <2> SUFFICES ASSUME NEW p \in Coords, Dims = 3 PROVE Fits(p)
    BY DEF CoordsFit, Fits
  <2>1. \A b \in KeyOfPoint(p) : b \in Int /\ b < WordBits - 1
    BY SmallKeysOfCoords, KeyBitsRange DEF KeyOfPoint, Bits
  <2> QED BY <2>1, LowKeyFits, WidthAssumption
<1>2. TypeOK /\ StoredInv /\ ReadInv => RoundTrip /\ NoErrors
  <2> SUFFICES ASSUME TypeOK, StoredInv, ReadInv, NEW r \in Rows
               PROVE  /\ stage[r] = "returned" => coords[r] = given[r]
                      /\ stage[r] # "error"
    BY DEF RoundTrip, NoErrors
  <2>1. given[r] \in Coords /\ given[r] \in Point /\ Encoded(r) \in Key
    BY PathAssumption, DecodeEncode DEF TypeOK, Encoded
  <2>2. stage[r] # "given" => datum[r] = bitKey_toLong(Encoded(r))
    BY DEF StoredInv
  <2>3. bitKey_fromLong(bitKey_toLong(Encoded(r))) = Encoded(r) /\ bitKey_readable(bitKey_toLong(Encoded(r)))
    <3>1. CASE Dims = 2
      BY <2>1, <3>1, ReadStored DEF bitKey_readable
    <3>2. CASE Dims = 3
      <4>1. /\ Num(Encoded(r)) < Power(2)[WordBits - 1]
            /\ bit3Key_fromLong(bit3Key_toLong(Encoded(r))) = Encoded(r)
        BY <2>1, <3>2, SmallKeysOfCoords, Int8Keys DEF Encoded
      <4>2. bit3Key_toLong(Encoded(r)).bits = Encoded(r)
        BY DEF bit3Key_toLong
      <4>3. bit3Key_inRange(bit3Key_toLong(Encoded(r)))
        BY <4>1, <4>2 DEF bit3Key_inRange
      <4> QED BY <3>2, <4>1, <4>3 DEF bitKey_fromLong, bitKey_toLong, bitKey_readable
    <3> QED BY <3>1, <3>2, WidthAssumption
  <2>4. stage[r] = "returned" => coords[r] = given[r]
    BY <2>1, <2>2, <2>3, DecodeEncode DEF ReadInv, Encoded
  <2>5. stage[r] # "error"
    BY <2>2, <2>3 DEF ReadInv
  <2> QED BY <2>4, <2>5
<1> QED BY <1>1, <1>2, PathTypes, StoredInvariance, ReadInvariance, PTL

\* A lookup comes to an error only at a key wider than an int8.
THEOREM ErrorsAreWide == Spec => []Readable
<1>1. TypeOK /\ ReadInv => Readable
  <2> SUFFICES ASSUME TypeOK, ReadInv, NEW r \in Rows, stage[r] = "error", Int8Value(datum[r])
               PROVE  FALSE
    BY DEF Readable
  <2>1. PICK k \in Key : datum[r] = bitKey_toLong(k)
    BY DEF ReadInv
  <2>2. Dims = 3 /\ ~ bit3Key_inRange(datum[r])
    BY WidthAssumption DEF ReadInv, bitKey_readable
  <2>3. datum[r].bits = k
    BY <2>1, <2>2 DEF bitKey_toLong, bit3Key_toLong
  <2>4. \A b \in k : b < WordBits - 1
    BY <2>3, WidthAssumption DEF Int8Value
  <2>5. Num(k) < Power(2)[WordBits - 1]
    BY <2>2, <2>4, Int8Keys
  <2> QED BY <2>2, <2>3, <2>5 DEF bit3Key_inRange
<1> QED BY <1>1, PathTypes, ReadInvariance, PTL

\* Numerics of keys that are int8 values of one sign compare as the keys.
LEMMA Int8Order ==
  ASSUME NEW k \in Key, NEW l \in Key,
         Int8Value(bitKey_toLong(k)), Int8Value(bitKey_toLong(l)),
         bitKey_toLong(k).neg = bitKey_toLong(l).neg
  PROVE  numeric_cmp(bitKey_toLong(k), bitKey_toLong(l)) = bitKey_cmp(k, l)
<1>1. numeric_cmp(bitKey_toLong(k), bitKey_toLong(l))
        = Compare(bitKey_toLong(k).bits, bitKey_toLong(l).bits)
  BY DEF numeric_cmp
<1>2. CASE Dims = 2
  <2> DEFINE t == WordBits - 1
  <2>1. ASSUME NEW w PROVE int8_numeric(w).bits = w \ {t}
    BY Zenon DEF int8_numeric
  <2>2. ASSUME NEW w PROVE int8_numeric(w).neg <=> t \in w
    BY Zenon DEF int8_numeric
  <2>3. bitKey_toLong(k) = int8_numeric(k) /\ bitKey_toLong(l) = int8_numeric(l)
    BY <1>2 DEF bitKey_toLong, bit2Key_toLong
  <2> HIDE DEF t
  <2>4. Compare(k \ {t}, l \ {t}) = Compare(k, l)
    BY <2>2, <2>3, CompareRest
  <2> QED BY <1>1, <1>2, <2>1, <2>3, <2>4 DEF bitKey_cmp, bit2Key_cmp
<1>3. CASE Dims = 3
  <2>1. ASSUME NEW w \in Key, Int8Value(bitKey_toLong(w))
        PROVE  bitKey_toLong(w).bits = w /\ Lo(w) = w /\ Hi(w) = {}
    <3>1. bitKey_toLong(w).bits = w
      BY <1>3 DEF bitKey_toLong, bit3Key_toLong
    <3>2. \A b \in w : b \in Int /\ b < WordBits
      BY <2>1, <3>1, WidthAssumption DEF Int8Value
    <3>3. {c \in w : c >= WordBits} = {}
      BY <3>2, WidthAssumption
    <3> QED BY <3>1, <3>2, <3>3 DEF Lo, Hi
  <2>2. bitKey_cmp(k, l) = IF k # l THEN Compare(k, l) ELSE Compare({}, {})
    BY <1>3, <2>1 DEF bitKey_cmp, bit3Key_cmp
  <2>3. bitKey_cmp(k, l) = Compare(k, l)
    BY <2>2 DEF Compare
  <2> QED BY <1>1, <2>1, <2>3
<1> QED BY <1>2, <1>3, WidthAssumption

\* Among the int8 values of one sign, the btree's order is the automaton's,
\* whatever coordinates they were made from.
THEOREM OrderIsKept == Spec => []OrderKept
<1>1. ReadInv => OrderKept
  <2> SUFFICES ASSUME ReadInv, NEW r \in Rows, NEW s \in Rows,
                      stage[r] \in {"read", "returned"}, stage[s] \in {"read", "returned"},
                      Int8Value(datum[r]), Int8Value(datum[s]), datum[r].neg = datum[s].neg
               PROVE  numeric_cmp(datum[r], datum[s]) = bitKey_cmp(key[r], key[s])
    BY DEF OrderKept
  <2>1. PICK k \in Key : datum[r] = bitKey_toLong(k)
    BY DEF ReadInv
  <2>2. PICK l \in Key : datum[s] = bitKey_toLong(l)
    BY DEF ReadInv
  <2>3. key[r] = k /\ key[s] = l
    BY <2>1, <2>2, Int8ReadsBack DEF ReadInv
  <2> QED BY <2>1, <2>2, <2>3, Int8Order
<1> QED BY <1>1, ReadInvariance, PTL
====
