---- MODULE KeyPath ----
(***************************************************************************)
(* The way of a row's coordinates into the index and back: the SQL         *)
(* functions zcurve_num_from_xy and zcurve_num_from_xyz make the numeric   *)
(* the btree stores and orders, the cursor of sp_tree.c reads it as a key, *)
(* checkKey turns the key into coordinates.  Rows go this way on their     *)
(* own; the btree and the query automaton compare what two of them have    *)
(* become.                                                                 *)
(***************************************************************************)
EXTENDS BitKey

CONSTANTS
  Rows,        \* the rows of the table
  Coords       \* the coordinates they may have

ASSUME PathAssumption == Coords \subseteq Point

VARIABLES
  given,       \* [Rows -> Coords]: the coordinates in the table
  datum,       \* the numeric in the index
  key,         \* the key the cursor reads, cur_val_
  coords,      \* the coordinates the lookup returns
  stage        \* how far each row has come

vars == <<given, datum, key, coords, stage>>

Nowhere == [d \in 1 .. Dims |-> {}]

Init ==
  /\ given \in [Rows -> Coords]
  /\ datum = [r \in Rows |-> [neg |-> FALSE, bits |-> {}]]
  /\ key = [r \in Rows |-> {}]
  /\ coords = [r \in Rows |-> Nowhere]
  /\ stage = [r \in Rows |-> "given"]

\* zcurve_num_from_xy, zcurve_num_from_xyz: the row is indexed.
zcurve_num_from(r) ==
  /\ stage[r] = "given"
  /\ \E k \in bitKey_fromCoords(given[r]) :
       datum' = [datum EXCEPT ![r] = bitKey_toLong(k)]
  /\ stage' = [stage EXCEPT ![r] = "stored"]
  /\ UNCHANGED <<given, key, coords>>

\* The cursor comes to the row's entry.
Fetch(r) ==
  /\ stage[r] = "stored" /\ bitKey_readable(datum[r])
  /\ key' = [key EXCEPT ![r] = bitKey_fromLong(datum[r])]
  /\ stage' = [stage EXCEPT ![r] = "read"]
  /\ UNCHANGED <<given, datum, coords>>

\* numeric_int8 raises an error, and the lookup ends with it.
FetchFails(r) ==
  /\ stage[r] = "stored" /\ ~ bitKey_readable(datum[r])
  /\ stage' = [stage EXCEPT ![r] = "error"]
  /\ UNCHANGED <<given, datum, key, coords>>

\* The coordinates of a match are returned.
Decode(r) ==
  /\ stage[r] = "read"
  /\ coords' = [coords EXCEPT ![r] = bitKey_toCoords(key[r])]
  /\ stage' = [stage EXCEPT ![r] = "returned"]
  /\ UNCHANGED <<given, datum, key>>

Next == \E r \in Rows : zcurve_num_from(r) \/ Fetch(r) \/ FetchFails(r) \/ Decode(r)

Spec == Init /\ [][Next]_vars

----------------------------------------------------------------------------
TypeOK ==
  /\ given \in [Rows -> Coords]
  /\ datum \in [Rows -> Numeric]
  /\ key \in [Rows -> Key]
  /\ coords \in [Rows -> Point]
  /\ stage \in [Rows -> {"given", "stored", "read", "returned", "error"}]

\* A lookup returns the coordinates a row was stored with: encoding,
\* numeric storage and decoding lose nothing.
RoundTrip == \A r \in Rows : stage[r] = "returned" => coords[r] = given[r]

\* n is an int8 value, or in two dimensions the numeric of any key.
Int8Value(n) == n.bits \subseteq 0 .. WordBits - 2

\* A lookup comes to an error only at a key wider than an int8.
Readable == \A r \in Rows : stage[r] = "error" => ~ Int8Value(datum[r])

\* Among the int8 values of one sign, the btree's order of two numerics is
\* the automaton's order of the keys read from them, as a walk from the low
\* key to the high key needs.
OrderKept ==
  \A r, s \in Rows :
    /\ {stage[r], stage[s]} \subseteq {"read", "returned"}
    /\ Int8Value(datum[r]) /\ Int8Value(datum[s])
    /\ datum[r].neg = datum[s].neg
    => numeric_cmp(datum[r], datum[s]) = bitKey_cmp(key[r], key[s])

\* Two rows have one index key only if they have the same coordinates.
KeysDistinct ==
  \A r, s \in Rows :
    stage[r] # "given" /\ stage[s] # "given" /\ datum[r] = datum[s] => given[r] = given[s]
====
