---- MODULE BitKey ----
(***************************************************************************)
(* The bitKey_* functions the rest of the extension calls: each goes       *)
(* through the table bitKey_CTOR chose from the number of coordinates.     *)
(***************************************************************************)
EXTENDS Bit2Key, Bit3Key

bitKey_cmp(l, r) ==
  IF Dims = 2 THEN bit2Key_cmp(l, r) ELSE bit3Key_cmp(l, r)

bitKey_between(val, minval, maxval) ==
  IF Dims = 2 THEN bit2Key_between(val, minval, maxval)
              ELSE bit3Key_between(val, minval, maxval)

bitKey_getBit(k, idx) ==
  IF Dims = 2 THEN bit2Key_getBit(k, idx) ELSE bit3Key_getBit(k, idx)

bitKey_setLowBits(k, idx) ==
  IF Dims = 2 THEN bit2Key_setLowBits(k, idx) ELSE bit3Key_setLowBits(k, idx)

bitKey_clearLowBits(k, idx) ==
  IF Dims = 2 THEN bit2Key_clearLowBits(k, idx)
              ELSE bit3Key_clearLowBits(k, idx)

\* The keys a build may make of p: one, unless a shift is undefined.
bitKey_fromCoords(p) ==
  IF Dims = 2 THEN {bit2Key_fromCoords(p)}
              ELSE {bit3Key_fromCoords(p, w) : w \in BOOLEAN}

bitKey_toCoords(k) ==
  IF Dims = 2 THEN bit2Key_toCoords(k) ELSE bit3Key_toCoords(k)

bitKey_toLong(k) ==
  IF Dims = 2 THEN bit2Key_toLong(k) ELSE bit3Key_toLong(k)

bitKey_fromLong(n) ==
  IF Dims = 2 THEN bit2Key_fromLong(n) ELSE bit3Key_fromLong(n)

\* Whether reading n as a key raises no error.
bitKey_readable(n) == Dims = 2 \/ bit3Key_inRange(n)
====
