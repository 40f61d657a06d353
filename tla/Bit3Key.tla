---- MODULE Bit3Key ----
(***************************************************************************)
(* The three-dimensional key operations of bitkey.c, the entries of        *)
(* key3_vtab_: 96 bits in two words, z in the bits b with b % 3 = 0, y in  *)
(* those with b % 3 = 1 and x in those with b % 3 = 2.  A key is the set   *)
(* of its one-bits; Lo and Hi are the two words of vals_[].                *)
(***************************************************************************)
EXTENDS ZKey

CONSTANTS
  NibbleBits,  \* bits of a coordinate bit3Key_fromCoords takes per turn: 4
  NBase,       \* base of a numeric's digits: 10000
  FewDigits    \* below this many digits a numeric is read as an int8: 5

ASSUME NumericAssumption ==
  /\ NibbleBits \in Nat /\ NibbleBits > 0 /\ CoordBits % NibbleBits = 0
  /\ NBase \in Nat /\ NBase >= 8   \* so KeyBits \div 3 + 1 digits hold a key
  /\ FewDigits \in 1 .. CoordBits
  /\ Dims = 3 =>                    \* 2^48 <= 10000^4 and 2^63 <= 10000^5
       /\ Power(2)[KeyBits \div 2] <= Power(NBase)[FewDigits - 1]
       /\ Power(2)[WordBits - 1] <= Power(NBase)[FewDigits]

Lo(k) == {b \in k : b < WordBits}                        \* vals_[0]
Hi(k) == {b - WordBits : b \in {c \in k : c >= WordBits}}  \* vals_[1]

\* Mutant of bit3Key_cmp: vals_[0] is not compared.
bit3Key_cmp_highOnly(l, r) == Compare(Hi(l), Hi(r))

\* vals_[0] is compared first, vals_[1] only when it is equal.
bit3Key_cmp(l, r) ==
  IF Lo(l) # Lo(r) THEN Compare(Lo(l), Lo(r)) ELSE Compare(Hi(l), Hi(r))

\* The 48-bit halves bit3Key_between cuts a key into.
HalfBits    == KeyBits \div 2
LowHalf(k)  == {b \in k : b < HalfBits}
HighHalf(k) == {b - HalfBits : b \in {c \in k : c >= HalfBits}}

\* 0x924924924924 and the same shifted right by i.
bit3Key_mask(i) == {b \in 0 .. HalfBits - 1 : b % 3 = 2 - i}

\* Mutants of bit3Key_between: z is not looked at; the upper bounds are
\* exclusive.
bit3Key_between_twoSides(ckey, lKey, hKey) ==
  \A i \in 0..1 :
    LET m == bit3Key_mask(i)
    IN  /\ ~ Less(LowHalf(ckey) \cap m, LowHalf(lKey) \cap m)
        /\ ~ Less(LowHalf(hKey) \cap m, LowHalf(ckey) \cap m)
bit3Key_between_open(ckey, lKey, hKey) ==
  \A i \in 0..2 :
    LET m == bit3Key_mask(i)
    IN  /\ ~ Less(LowHalf(ckey) \cap m, LowHalf(lKey) \cap m)
        /\ Less(LowHalf(ckey) \cap m, LowHalf(hKey) \cap m)

\* Each half of each coordinate is compared on its own.
bit3Key_between(ckey, lKey, hKey) ==
  \A i \in 0..2 :
    LET m == bit3Key_mask(i)
    IN  /\ ~ Less(LowHalf(ckey) \cap m, LowHalf(lKey) \cap m)
        /\ ~ Less(LowHalf(hKey) \cap m, LowHalf(ckey) \cap m)
        /\ ~ Less(HighHalf(ckey) \cap m, HighHalf(lKey) \cap m)
        /\ ~ Less(HighHalf(hKey) \cap m, HighHalf(ckey) \cap m)

\* The word idx lies in, shifted right to idx and cut to an int.
bit3Key_getBit(k, idx) ==
  {j - idx : j \in {b \in k : /\ b \div WordBits = idx \div WordBits
                              /\ b >= idx /\ b < idx + WordBits \div 2}}

\* The smasks[]: bit idx and the lower bits of its coordinate, both words.
bit3Key_lowMask(idx) == {b \in Bits : b <= idx /\ b % 3 = idx % 3}

\* Mutant: bit idx itself is not cleared.
bit3Key_setLowBits_keepsBit(k, idx) == k \cup bit3Key_lowMask(idx)

bit3Key_setLowBits(k, idx) == (k \cup bit3Key_lowMask(idx)) \ {idx}

bit3Key_clearLowBits(k, idx) == (k \ bit3Key_lowMask(idx)) \cup {idx}

(***************************************************************************)
(* The two words bit3Key_fromCoords builds, turn by turn.  Spread is the   *)
(* tmp of one turn, already at its place in the key.  From the turn whose  *)
(* place ix0 is past the first word on, `tmp << ix0' shifts by more than   *)
(* the width of the word: the processor's shift takes the count modulo the *)
(* width, a compiler that folds the shift gives 0.  WrapsShift is which.   *)
(***************************************************************************)
Turns == 0 .. (CoordBits \div NibbleBits) - 1
\* Mutant: x and z change places.
Spread_reversed(p, i) ==
  {b \in Bits : /\ b \div (3 * NibbleBits) = i
                /\ b \div 3 \in p[(b % 3) + 1]}
Spread(p, i) ==
  {b \in Bits : /\ b \div (3 * NibbleBits) = i
                /\ b \div 3 \in p[3 - (b % 3)]}

bit3Key_fromCoords(p, WrapsShift) ==
  LET tmp(i)   == Spread(p, i)
      PastWord == {i \in Turns : 3 * NibbleBits * i >= WordBits}
      spilt    == IF WrapsShift THEN UNION {Hi(tmp(i)) : i \in PastWord} ELSE {}
  IN  (UNION {tmp(i) : i \in Turns}) \cup spilt

bit3Key_toCoords(k) ==
  [d \in 1 .. Dims |-> {j \in 0 .. CoordBits - 1 : 3 * j + (3 - d) \in k}]

\* Mutants of bit3Key_toLong: the words change places; the high word is left out.
bit3Key_toLong_swapped(k) ==
  [neg |-> FALSE, bits |-> Hi(k) \cup {b + WordBits : b \in Lo(k)}]

bit3Key_toLong_lowWord(k) == [neg |-> FALSE, bits |-> Lo(k)]

\* low 48 bits plus the high 48 bits times 2^48: never negative.
bit3Key_toLong(k) == [neg |-> FALSE, bits |-> k]

(***************************************************************************)
(* A numeric stores no trailing zero digits; its weight says how many were *)
(* dropped.  bit3Key_fromLong reads the stored digits and not the weight,  *)
(* or, when they are few, calls numeric_int8, which rejects a value wider  *)
(* than an int8.                                                           *)
(***************************************************************************)
DigitPlaces == 0 .. (KeyBits \div 3) + 1
Digits(v)   == Min({d \in DigitPlaces : v < Power(NBase)[d]})
Dropped(v)  == IF v = 0 THEN 0
               ELSE Max({t \in 0 .. Digits(v) : v % Power(NBase)[t] = 0})

WordOf(v) == {b \in Bits : (v \div Power(2)[b]) % 2 = 1}

\* Mutant: the range of a type half as wide.
bit3Key_inRange_int4(n) ==
  LET v == Num(n.bits)
  IN  Digits(v) - Dropped(v) < FewDigits => v < Power(2)[WordBits \div 2 - 1]

bit3Key_inRange(n) ==
  LET v == Num(n.bits)
  IN  Digits(v) - Dropped(v) < FewDigits => v < Power(2)[WordBits - 1]

bit3Key_fromLong(n) ==
  LET v == Num(n.bits)
  IN  IF Digits(v) - Dropped(v) < FewDigits
      THEN n.bits
      ELSE WordOf(v \div Power(NBase)[Dropped(v)])
====
