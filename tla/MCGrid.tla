---- MODULE MCGrid ----
(***************************************************************************)
(* Points for small instances: the word of a number, the point of a tuple  *)
(* of numbers, and all points whose coordinates are among some numbers.    *)
(***************************************************************************)
EXTENDS ZKey

Word(n) == {b \in 0 .. CoordBits - 1 : (n \div 2 ^ b) % 2 = 1}
At(cs)  == [d \in 1 .. Dims |-> Word(cs[d])]
Grid(S) == {At(cs) : cs \in [1 .. Dims -> S]}

\* What is said of words in terms of their bits is true of the numbers they
\* stand for.
ASSUME WordsAreNumbers ==
  \A w, v \in Coord :
    /\ Word(Num(w)) = w
    /\ Less(w, v) <=> Num(w) < Num(v)
    /\ Num(Minus(w, v)) = (Num(w) - Num(v)) % 2 ^ CoordBits
====
