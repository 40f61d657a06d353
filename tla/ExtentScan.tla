---- MODULE ExtentScan ----
(***************************************************************************)
(* What a spatial lookup promises its caller, without keys, pages or       *)
(* subqueries: the entries of the index, numbered in index order, are      *)
(* returned one by one in that order, none of the wanted ones is passed    *)
(* over, and the lookup ends only when no wanted one is left.              *)
(***************************************************************************)
EXTENDS Integers, Sequences

VARIABLES
  exact,             \* whether only wanted entries are returned
  size,              \* number of entries in the index
  wanted,            \* the entries that lie in the extent
  returned,          \* the entries returned so far
  done               \* the last call returned "no more data"

vars == <<exact, size, wanted, returned, done>>

Init ==
  /\ exact \in BOOLEAN
  /\ size \in Nat
  /\ wanted \in SUBSET (1 .. size)
  /\ returned = << >>
  /\ done = FALSE

Last == IF returned = << >> THEN 0 ELSE returned[Len(returned)]

\* Entry i is returned: it follows the last one and skips nothing wanted.
Return(i) ==
  /\ ~ done
  /\ i > Last
  /\ exact => i \in wanted
  /\ \A j \in wanted : ~ (Last < j /\ j < i)
  /\ returned' = Append(returned, i)
  /\ UNCHANGED <<exact, size, wanted, done>>

\* No wanted entry is left.
Finish ==
  /\ ~ done
  /\ \A j \in wanted : j <= Last
  /\ done' = TRUE
  /\ UNCHANGED <<exact, size, wanted, returned>>

Next == Finish \/ \E i \in 1 .. size : Return(i)

Spec == Init /\ [][Next]_vars
====
