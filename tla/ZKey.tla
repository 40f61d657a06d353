---- MODULE ZKey ----
(***************************************************************************)
(* The data every part of the extension shares: spatial keys (bitKey_t),   *)
(* coordinates (uint32) and the numeric datums a key is stored as in the   *)
(* btree.                                                                  *)
(*                                                                         *)
(* An unsigned machine word is represented by the set of the positions of  *)
(* its one-bits, which is what the code's masks and shifts work on: `|' is *)
(* \cup, `& ~m' is \ m, a shift renumbers positions, and the order of two  *)
(* words is decided by the highest bit in which they differ (Less).  Num   *)
(* gives the number a word stands for.                                     *)
(***************************************************************************)
EXTENDS Integers, FiniteSets, FiniteSetsExt

CONSTANTS
  Dims,        \* ncoords: 2 or 3
  CoordBits,   \* width of a coordinate, 32 in the code
  WordBits     \* width of an element of vals_[], 64 in the code

ASSUME WidthAssumption ==
  /\ Dims \in {2, 3}
  /\ CoordBits \in Nat /\ CoordBits > 1
  /\ WordBits \in Nat /\ WordBits > 1
  /\ Dims = 2 => 2 * CoordBits <= WordBits   \* one word holds a 2D key
  /\ Dims = 3 => CoordBits % 2 = 0             \* half a 3D key has whole triples
  /\ Dims = 3 => 3 * CoordBits <= 2 * WordBits \* two words hold it
  /\ Dims * CoordBits < 65536       \* a bit number fits curBitNum_

KeyBits == Dims * CoordBits
Bits    == 0 .. KeyBits - 1
Key     == SUBSET Bits                     \* vals_[0], vals_[1] put together
Coord   == SUBSET (0 .. CoordBits - 1)     \* a uint32
Point   == [1 .. Dims -> Coord]            \* the coords[] arrays

\* The powers of a number, and the number a word stands for: NumBelow(w)[b] is
\* that of its bits below b.
Power(x) == LET p[n \in Nat] == IF n = 0 THEN 1 ELSE x * p[n - 1] IN p

NumBelow(w) ==
  LET v[b \in Nat] ==
        IF b = 0 THEN 0
        ELSE v[b - 1] + (IF b - 1 \in w THEN Power(2)[b - 1] ELSE 0)
  IN  v
Num(w) == NumBelow(w)[KeyBits]

\* w < v as unsigned words.
Less(w, v) == \E b \in v \ w :
                \A j \in w \cup v : j > b => (j \in w <=> j \in v)

\* The difference of two coordinates as the processor forms it, cut to their
\* width: a bit is set when an odd number is of the bit of w, the bit of v and
\* the borrow from the bits below.
Below(w, b) == {j \in w : j < b}
Minus(w, v) ==
  {b \in 0 .. CoordBits - 1 :
     b \in w <=> (b \in v <=> Less(Below(w, b), Below(v, b)))}

\* The three-way result of the code's comparisons.
Compare(w, v) == IF w = v THEN 0 ELSE IF Less(v, w) THEN 1 ELSE -1

(***************************************************************************)
(* A numeric as the extension uses it: a 64-bit integer printed as a       *)
(* numeric keeps the weight -2^63 of its top bit, every other bit has its  *)
(* own weight.  So neg stands for that top bit and bits for the rest.      *)
(***************************************************************************)
Numeric == [neg : BOOLEAN, bits : Key]

\* numeric_cmp of PostgreSQL, on two such numerics.
numeric_cmp(m, n) ==
  IF m.neg # n.neg THEN (IF m.neg THEN -1 ELSE 1) ELSE Compare(m.bits, n.bits)

\* int8_numeric: the low word of a key read as a signed 64-bit integer.
int8_numeric(w) == [neg |-> WordBits - 1 \in w, bits |-> w \ {WordBits - 1}]

\* numeric_int8: back to the two's complement word.
numeric_int8(n) == n.bits \cup (IF n.neg THEN {WordBits - 1} ELSE {})
====
