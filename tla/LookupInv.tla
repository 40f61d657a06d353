---- MODULE LookupInv ----
(***************************************************************************)
(* The inductive invariant of the set-returning functions: where locks are *)
(* held, what the list is while it is built and taken apart again, and how *)
(* long the runs on the stack of list_sort are.                            *)
(***************************************************************************)
EXTENDS Lookup

\* Nodes allocated so far.
Listed == 1 .. Len(data)

----------------------------------------------------------------------------
\* The index is open during a lookup; a page is locked only where the automaton
\* has not returned 0 yet.
HeldInv ==
  /\ pc \in {"scan", "sort", "emit", "row"} => relation
  /\ pc \in {"idle", "done", "stopped", "aborted"} => ~ relation
  /\ page # NoPage =>
       /\ pc \in {"scan", "row", "stopped"}
       /\ kind = "listed" => pc = "scan"
  /\ pc \in {"sort", "emit"} => kind = "listed"

\* The n-th node holds the n-th row with its coordinates, and what has been
\* handed out is among the automaton's rows.
DataInv ==
  /\ answer \in Answers
  /\ kind = "listed" => coords = Reported(fetched)
  /\ \A n \in Listed : data[n] = [iptr |-> answer[n], coords |-> Reported(n)]
  /\ \A h \in Range(handed) :
       \E i \in 1 .. fetched :
         /\ h.iptr = answer[i]
         /\ kind = "listed" => h.coords = Reported(i)

\* Links lead to allocated nodes.  While the list is built each node leads to
\* the one allocated before it, and so does the part of it not pushed yet.
LinkInv ==
  /\ \A n \in Node : next[n] \in 0 .. Len(data)
  /\ \A n \in Node : n > Len(data) => next[n] = Null
  /\ {list, cur, p, p1, p2, pcur_item, res} \subseteq 0 .. Len(data)
  /\ \A i \in DOMAIN stack : stack[i].item \in Listed
  /\ pc = "idle" => list = Null /\ data = << >>
  /\ pc = "scan" => list = Len(data) /\ \A n \in Listed : next[n] = n - 1

\* What list_sort has pushed does not lead back to what it has not.
SortInv ==
  sorting # "off" =>
    /\ \A n \in Node : n <= p => next[n] = n - 1
    /\ \A n \in Node : n > p => next[n] = Null \/ next[n] > p
    /\ \A i \in DOMAIN stack : stack[i].item > p
    /\ sorting = "merge" =>
         /\ MustMerge
         /\ pcur_item > p /\ res > p
         /\ p1 # Null => p1 > p
         /\ p2 # Null => p2 > p

\* The node that follows the i-th run's nodes in the list as it was.
After(i) == IF i = Len(stack) THEN p ELSE stack[i + 1].first

\* Until all nodes are pushed: a run has as many nodes as its level says, levels
\* descend, and so the runs from i to j have at least as many nodes as runs of
\* successive levels would.
RunInv ==
  sorting # "off" /\ p # Null =>
    /\ \A i \in DOMAIN stack :
         /\ stack[i].level < MaxSortStack
         /\ stack[i].first - After(i) = RunSize[stack[i].level]
    /\ \A i \in 1 .. Len(stack) - 1 :
         /\ stack[i].level >= stack[i + 1].level
         /\ i < Len(stack) - 1 => stack[i].level > stack[i + 1].level
    /\ \A i, j \in DOMAIN stack : i < j =>
         LET l == stack[j - 1].level
         IN  stack[i].first - stack[j].first >= RunSize[l + j - i] - RunSize[l]
    /\ \A i \in DOMAIN stack : stack[i].first \in Listed

LInv ==
  /\ TypeOK
  /\ HeldInv /\ DataInv /\ LinkInv
  /\ SortInv /\ RunInv /\ StackFits

-----------------------------------------------------------------------------
(* What the sort makes of the list, and what has been handed out of it.    *)

\* Node m is handed out before node n.
Before(m, n) == TakesFirst(m, n)

\* Where the runs and the parts of the two that are being merged begin.
Roots == {stack[i].item : i \in Whole} \cup ({res, p1, p2} \ {Null})

\* Each node that has been pushed is where a run or a part begins, once, and no
\* link leads there, or there is just one link that leads to it.
OnceInv ==
  /\ sorting # "merge" => {p1, p2, pcur_item, res} = {Null}
  /\ sorting # "off" =>
       /\ \A m, n \in Linking : next[m] = next[n] /\ next[m] # Null => m = n
       /\ \A i, j \in Whole : stack[i].item = stack[j].item => i = j
       /\ \A i \in Whole : stack[i].item \notin {res, p1, p2}
       /\ sorting = "merge" => res \notin {p1, p2} /\ (p1 # Null => p1 # p2)
       /\ \A m \in Linking : next[m] \notin Roots
       /\ \A n \in Listed : n > p => n \in Roots \/ \E m \in Linking : next[m] = n

\* What has been pushed is sorted as far as its links go.
AscendInv ==
  sorting # "off" =>
    /\ \A n \in Linking : n > p /\ next[n] # Null => Before(n, next[n])
    /\ \A n \in {p1, p2} \ {Null} : Before(pcur_item, n)

\* A list that is handed out leads from each row to the one after it in the
\* order of the table.
OrderInv ==
  kind = "listed" /\ pc \in {"emit", "row"} =>
    \A m, n \in Listed :
      Before(n, m) <=> next[n] # Null /\ (m = next[n] \/ Before(next[n], m))

\* What has been handed out: the rows that come before cur, or those fetched.
HandedInv ==
  /\ kind = "tidonly" =>
       /\ Len(handed) = fetched
       /\ \A i \in 1 .. fetched : handed[i].iptr = answer[i]
  /\ kind = "listed" /\ pc \in {"idle", "scan", "sort"} => handed = << >>
  /\ kind = "listed" /\ pc \in {"emit", "row", "closing", "done"} =>
       \A n \in Listed :
         cur = Null \/ Before(n, cur) <=>
           handed # << >> /\ res_item_compare_proc(data[n], handed[Len(handed)]) <= 0
  /\ kind = "listed" /\ pc \in {"closing", "done"} => cur = Null
  /\ pc \in {"sort", "emit", "closing", "done"} \/ (kind = "listed" /\ pc = "row") =>
       fetched = Len(answer)

SInv == LInv /\ OnceInv /\ AscendInv /\ OrderInv /\ HandedInv
====
