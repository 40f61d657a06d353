---- MODULE SpQueryProps ----
(***************************************************************************)
(* What the query automaton must do: its invariants, action properties,    *)
(* liveness, and the abstract scan it implements.                          *)
(***************************************************************************)
EXTENDS SpQuery

Pcs == {"start", "find", "split", "match", "row", "next", "done", "lost"}

Row == [tid : Nat \ {0}, coords : Point, raw : BOOLEAN]

\* Types of the variables, and where the cursor and the queue are in use.
TypeOK ==
  /\ index \in Seq(Numeric)
  /\ pageEnds \subseteq Entries
  /\ extent \in [min : Point, max : Point]
  /\ queue \in Seq(SubQuery)
  /\ free \in Nat
  /\ subQueryFinished \in BOOLEAN
  /\ opened \in BOOLEAN
  /\ pos \in Nat
  /\ currentKey \in Key /\ lastKey \in Key
  /\ coords \in Point
  /\ rows \in Seq(Row)
  /\ pc \in Pcs
  /\ pc \in {"split", "match", "row", "next"} => queue # << >> /\ pos \in Entries

----------------------------------------------------------------------------
\* Splitting always makes progress: wherever a page ends below the head's
\* interval, the bounds of the head differ in a bit not yet split at, so the
\* loop over curBitNum_ in findNextMatch stops.
NoRunaway == pc # "lost"

\* The queue is a chain of disjoint intervals in key order: what the head
\* returns always comes before what the others will.
QueueOrdered ==
  \A i, j \in DOMAIN queue : i < j => bitKey_cmp(queue[i].high, queue[j].low) < 0

\* createQuery's nodes: however long a lookup runs, it never holds more than
\* one node for each bit of a key and one more, in the queue and the free
\* list together.
NodesBounded == Len(queue) + free <= KeyBits + 1

\* Where the automaton compares currentKey_ and lastKey_ they are those of
\* the entry and the page the cursor is on, although raw fetches leave both
\* as they were.
KeysFresh ==
  pc \in {"split", "match", "next"} /\ ~ queryHead.solid =>
    /\ currentKey = bitKey_fromLong(index[pos])
    /\ \E e \in Entries : LastOfPage(pos, e) /\ lastKey = bitKey_fromLong(index[e])

\* No entry is returned twice, and rows come in index order.
RowsAscend ==
  \A i, j \in DOMAIN rows : i < j => rows[i].tid < rows[j].tid

\* No entry is returned twice, in whatever order the index has its keys.
NoneTwice ==
  \A i, j \in DOMAIN rows : rows[i].tid = rows[j].tid => i = j

----------------------------------------------------------------------------
\* The point entry i of the index stands for, and the extent asked for.
PointOf(i) == bitKey_toCoords(index[i].bits \cup
                IF index[i].neg THEN {WordBits - 1} ELSE {})

InExtent(p) ==
  \A d \in 1 .. Dims : ~ Less(p[d], extent.min[d]) /\ ~ Less(extent.max[d], p[d])

Wanted == {i \in Entries : InExtent(PointOf(i))}

Tids(s) == [k \in DOMAIN s |-> s[k].tid]

\* When a lookup ends, every row of the extent has been returned.
Complete ==
  pc = "done" => \A i \in Wanted : \E k \in DOMAIN rows : rows[k].tid = i

\* Every returned row lies in the extent.
RowsInExtent == \A k \in DOMAIN rows : rows[k].tid \in Wanted

\* The coordinates a call leaves in coords[] are those of the row it returns.
RowCoords == \A k \in DOMAIN rows : rows[k].coords = PointOf(rows[k].tid)

\* Both hold of the rows that checkKey has decoded.
DecodedRowsExact ==
  \A k \in DOMAIN rows : ~ rows[k].raw =>
    rows[k].tid \in Wanted /\ rows[k].coords = PointOf(rows[k].tid)

\* Every call returns, with a row or at the end of the lookup: wherever a call
\* of moveFirst or moveNext has come to, it does not split, look for a match,
\* take one subquery after the other or walk along the index for ever.
CallReturns == (pc \in {"find", "split", "match", "next"}) ~> (pc \in {"row", "done"})

\* Extents whose lower corner is the origin: cubes cut from them by splitting
\* are aligned.
Anchored == \A d \in 1 .. Dims : extent.min[d] = {}

Covering == INSTANCE ExtentScan WITH exact <- FALSE, size <- Len(index),
  wanted <- Wanted, returned <- Tids(rows), done <- pc = "done"

Exactly == INSTANCE ExtentScan WITH exact <- Anchored, size <- Len(index),
  wanted <- Wanted, returned <- Tids(rows), done <- pc = "done"

\* The automaton implements the abstract scan: it returns entries in index
\* order, never passes over a wanted one, and ends when none is left.
ImplementsCoveringScan == Covering!Spec

\* And it returns only wanted ones, when the extent starts at the origin.
ImplementsExactScan == Exactly!Spec
====
