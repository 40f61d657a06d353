---- MODULE MCSpQuery ----
(***************************************************************************)
(* Small instances of the query automaton for TLC.                         *)
(***************************************************************************)
EXTENDS SpQueryInv, MCGrid

\* A square of the plane, aligned to a power of two or not.
MCSquare4 == Grid(0 .. 3)
MCSquare3 == Grid(0 .. 2)

\* Both ends of the coordinates' range, with and without their top bit.
MCSigned == Grid({0, 1, 6})

\* In space: a cube whose keys fit half the low word; a column whose
\* third coordinate passes from the lower half of its bits to the higher.
MCCube   == Grid(0 .. 2)
MCColumn == {At(<<x, y, z>>) : x \in 0 .. 1, y \in 0 .. 1, z \in 2 .. 5}

\* All extents with corners among the points, inverted ones included.
MCExtentsAll == [min : Points, max : Points]

\* Those with their lower corner near the origin, aligned or not.
MCExtentsLow == [min : Grid({0, 1}), max : Points]

\* Extents that are not inverted, with the centre of a cube of three in them.
MCExtentsProper == [min : Grid({0, 1}), max : Grid({1, 2})]
====
