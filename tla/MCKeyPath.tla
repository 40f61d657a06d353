---- MODULE MCKeyPath ----
(***************************************************************************)
(* Small instances of the way of coordinates into the index and back.      *)
(***************************************************************************)
EXTENDS KeyPath, MCGrid, TLC

\* Rows are interchangeable.
MCSymmetry == Permutations(Rows)

\* All coordinates.
MCAll == Grid(0 .. 2 ^ CoordBits - 1)

\* In three dimensions: coordinates whose keys are int8 values, and others of
\* few bits whose keys need both words.
MCMixed == Grid(0 .. 2 ^ ((WordBits - 1) \div 3) - 1) \cup Grid({0, 4, 7})
====
