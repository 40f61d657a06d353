---- MODULE Bit2Key ----
(***************************************************************************)
(* The two-dimensional key operations of bitkey.c, the entries of          *)
(* key2_vtab_: one 64-bit word, x in the even bits and y in the odd ones.  *)
(***************************************************************************)
EXTENDS ZKey

bit2Key_cmp(l, r) == Compare(l, r)

\* The mask of one coordinate, 0xAAAA... and the same shifted right once.
bit2Key_mask(i) == {b \in Bits : b % 2 = 1 - i}

\* Mutant: only one coordinate is looked at.
bit2Key_between_oneSide(ckey, lKey, hKey) ==
  LET m == bit2Key_mask(1)
  IN  /\ ~ Less(ckey \cap m, lKey \cap m)
      /\ ~ Less(hKey \cap m, ckey \cap m)

bit2Key_between(ckey, lKey, hKey) ==
  \A i \in 0..1 :
    LET m == bit2Key_mask(i)
    IN  /\ ~ Less(ckey \cap m, lKey \cap m)
        /\ ~ Less(hKey \cap m, ckey \cap m)

(***************************************************************************)
(* The word shifted right by idx and cut to an int: not one bit, but the   *)
(* window of half a word that starts at idx.                               *)
(***************************************************************************)
bit2Key_getBit(k, idx) ==
  {j - idx : j \in {b \in k : b >= idx /\ b < idx + WordBits \div 2}}

\* 0xAAAA... >> (63 - idx): bit idx and the lower bits of its coordinate.
bit2Key_lowMask(idx) == {b \in Bits : b <= idx /\ b % 2 = idx % 2}

\* Mutant: bit idx itself is not cleared.
bit2Key_setLowBits_keepsBit(k, idx) == k \cup bit2Key_lowMask(idx)

bit2Key_setLowBits(k, idx) == (k \cup bit2Key_lowMask(idx)) \ {idx}

\* Mutant: bit idx itself is not set.
bit2Key_clearLowBits_keepsBit(k, idx) == k \ bit2Key_lowMask(idx)

bit2Key_clearLowBits(k, idx) == (k \ bit2Key_lowMask(idx)) \cup {idx}

bit2Key_fromCoords(p) == {b \in Bits : b \div 2 \in p[(b % 2) + 1]}

bit2Key_toCoords(k) ==
  [d \in 1 .. Dims |-> {j \in 0 .. CoordBits - 1 : 2 * j + (d - 1) \in k}]

bit2Key_toLong(k) == int8_numeric(k)

bit2Key_fromLong(n) == numeric_int8(n)
====
