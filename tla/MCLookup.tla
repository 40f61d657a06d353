---- MODULE MCLookup ----
(***************************************************************************)
(* Row pointers of a small table for TLC: any two of the three parts of a  *)
(* pointer put some pair of them in opposite orders.                       *)
(***************************************************************************)
EXTENDS LookupInv

Tid(hi, lo, pos) == [bi_hi |-> hi, bi_lo |-> lo, ip_posid |-> pos]

\* In the order of the table.
MCTable ==
  <<Tid(0, 0, 2), Tid(0, 1, 1), Tid(0, 1, 2), Tid(1, 0, 1), Tid(1, 0, 3),
    Tid(1, 1, 1), Tid(1, 1, 2)>>

MCTids  == Range(MCTable)
MCSolid == {Tid(0, 1, 1), Tid(1, 0, 1)}

\* Up to four of the first five rows in any order, and all seven, as many as the
\* stack allows, in forty-two orders.
MCFew == UNION {Injection(1 .. n, {MCTable[i] : i \in 1 .. 5}) : n \in 0 .. 4}
MCAll ==
  {[i \in 1 .. 7 |-> MCTable[((m * i + d) % 7) + 1]] : m \in 1 .. 6, d \in 0 .. 6}
MCAnswers == MCFew \cup MCAll

MCRunSize == [l \in 1 .. 2 * MaxSortStack |-> 2 ^ (l - 1)]
====
