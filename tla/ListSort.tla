---- MODULE ListSort ----
(***************************************************************************)
(* The merge sort of list_sort.c, assignment by assignment of the links.   *)
(* A list is a chain of nodes, numbered in the order they were allocated;  *)
(* the stack holds sorted runs, and the two topmost are merged when their  *)
(* levels are equal or when no node is left to push.                       *)
(*                                                                         *)
(* The variables belong to the module that instantiates this one.          *)
(***************************************************************************)
EXTENDS Integers, FiniteSets, Sequences

CONSTANTS
  MaxRows,              \* nodes a list may have
  compare_proc(_, _)    \* the caller's comparison of two nodes' data

VARIABLES
  data,       \* gen_list_t.data of the nodes allocated so far
  next,       \* gen_list_t.next of each node
  sorting,    \* where list_sort is: "off", "runs", or "merge" (intersect_sorted)
  p,          \* the rest of the list, not pushed yet
  stack,      \* stack[0 .. stack_pos-1]
  p1, p2,     \* what is left of the two runs that are being merged
  pcur_item,  \* the last node of the merged run so far
  res         \* its first node

merging == <<p1, p2, pcur_item, res>>

Null == 0
Node == 1 .. MaxRows

-----------------------------------------------------------------------------
\* list_sort is called.
SortStart(list) ==
  /\ sorting' = "runs"
  /\ p' = list
  /\ stack' = << >>
  /\ UNCHANGED <<next, merging>>

\* Mutant of MustMerge: runs are merged when all of them are on the stack.
MustMerge_last == Len(stack) > 1 /\ p = Null

\* Both loops that merge: after each push, and at the end.
MustMerge ==
  /\ Len(stack) > 1
  /\ p # Null => stack[Len(stack)].level = stack[Len(stack) - 1].level

\* One node becomes a run of its own.  "first" is history: the node the run
\* was begun with.
Push ==
  /\ sorting = "runs"
  /\ p # Null
  /\ ~ MustMerge
  /\ stack' = Append(stack, [level |-> 1, item |-> p, first |-> p])
  /\ p' = next[p]
  /\ next' = [next EXCEPT ![p] = Null]
  /\ UNCHANGED <<sorting, merging>>

\* Which of two runs gives the next node: the first one only if it is less.
TakesFirst(a, b) == compare_proc(data[a], data[b]) < 0

\* intersect_sorted is called and takes its first node.
MergeBegin ==
  /\ sorting = "runs"
  /\ MustMerge
  /\ LET a == stack[Len(stack) - 1].item
         b == stack[Len(stack)].item
     IN  /\ pcur_item' = IF TakesFirst(a, b) THEN a ELSE b
         /\ p1' = IF TakesFirst(a, b) THEN next[a] ELSE a
         /\ p2' = IF TakesFirst(a, b) THEN b ELSE next[b]
         /\ res' = pcur_item'
  /\ sorting' = "merge"
  /\ UNCHANGED <<next, p, stack>>

\* Mutant of MergeStep: a node of the second run is linked, not passed.
MergeStep_stays ==
  /\ sorting = "merge"
  /\ p1 # Null /\ p2 # Null
  /\ LET n == IF TakesFirst(p1, p2) THEN p1 ELSE p2
     IN  /\ next' = [next EXCEPT ![pcur_item] = n]
         /\ pcur_item' = n
         /\ p1' = IF n = p1 THEN next[p1] ELSE p1
         /\ UNCHANGED p2
  /\ UNCHANGED <<sorting, p, stack, res>>

\* One iteration of its loop.
MergeStep ==
  /\ sorting = "merge"
  /\ p1 # Null /\ p2 # Null
  /\ LET n == IF TakesFirst(p1, p2) THEN p1 ELSE p2
     IN  /\ next' = [next EXCEPT ![pcur_item] = n]
         /\ pcur_item' = n
         /\ p1' = IF n = p1 THEN next[p1] ELSE p1
         /\ p2' = IF n = p2 THEN next[p2] ELSE p2
  /\ UNCHANGED <<sorting, p, stack, res>>

\* Mutant of MergeRest: what is left of the second run.
MergeRest_second == p2

MergeRest == IF p1 # Null THEN p1 ELSE p2

\* It links the rest and returns; list_sort pops the upper run.
MergeEnd ==
  /\ sorting = "merge"
  /\ p1 = Null \/ p2 = Null
  /\ next' = [next EXCEPT ![pcur_item] = MergeRest]
  /\ LET below == stack[Len(stack) - 1]
     IN  stack' = Append(SubSeq(stack, 1, Len(stack) - 2),
                         [below EXCEPT !.item = res, !.level = @ + 1])
  /\ sorting' = "runs"
  /\ p1' = Null /\ p2' = Null /\ pcur_item' = Null /\ res' = Null
  /\ UNCHANGED p

SortStep == Push \/ MergeBegin \/ MergeStep \/ MergeEnd

\* What list_sort returns: the one run left, or the empty list it was given.
SortedList(list) == IF stack = << >> THEN list ELSE stack[1].item

SortDone ==
  /\ sorting = "runs"
  /\ p = Null
  /\ ~ MustMerge
  /\ sorting' = "off"
  /\ stack' = << >>
  /\ UNCHANGED <<next, p, merging>>
====
