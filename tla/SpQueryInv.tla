---- MODULE SpQueryInv ----
(***************************************************************************)
(* The inductive invariants of the query automaton: what holds between any *)
(* two iterations of its loops and makes the next one do what it must.     *)
(* IInv and what is added to it are those of lookups whose keys are small  *)
(* enough: in two dimensions the coordinates are not negative, in three    *)
(* the keys fit half a key.  ShapeInv and OnceInv, the last ones, are      *)
(* those of all lookups.                                                   *)
(***************************************************************************)
EXTENDS SpQueryProps

\* The bits a key may have. Without the top bit of the word, numerics order 2D
\* keys as the words do; in the lower half of a 3D key, bit3Key_cmp and
\* bit3Key_between see all of it as one word.
Room       == IF Dims = 2 THEN WordBits - 1 ELSE HalfBits
SmallKeys  == SUBSET {b \in Bits : b < Room}
Unsigned(k) == k \in SmallKeys

\* The points have such keys: in two dimensions y < 2^31, in three every
\* coordinate is less than 2^16. The numerics stored for them are read back as
\* they are, in three dimensions because half a key has less than FewDigits
\* digits (HalfKeys of KeyProofs).
SmallPoints == \A p \in Points : \A k \in bitKey_fromCoords(p) : Unsigned(k)

KeyOf(i) == index[i].bits
LessEq(k, l) == ~ Less(l, k)

\* The bits of a subquery that may still be split at are 0 .. Left(q).
Left(q) == IF q.curBitNum = CurBitMax THEN -1 ELSE q.curBitNum

Agree(q) == \A j \in Bits : j > Left(q) => (j \in q.low <=> j \in q.high)

InBox(q, k) == bitKey_between(k, q.low, q.high)

Returned(i) == \E k \in DOMAIN rows : rows[k].tid = i

Searching == {"split", "match"}
Placed    == {"row", "next"}

----------------------------------------------------------------------------
\* What a lookup only reads: an extent asked for, and an index of small keys in
\* their order.
IndexInv ==
  /\ extent \in Extents
  /\ \A i \in Entries :
       /\ index[i].neg = FALSE /\ Unsigned(KeyOf(i))
       /\ bitKey_fromLong(index[i]) = KeyOf(i)
  /\ \A i, j \in Entries : i <= j => LessEq(KeyOf(i), KeyOf(j))
  /\ \A i \in Entries : i + 1 \notin Entries => i \in pageEnds

\* The bounds of each subquery agree above its curBitNum_.
BoundsInv ==
  \A n \in DOMAIN queue :
    Agree(queue[n]) /\ Unsigned(queue[n].low) /\ Unsigned(queue[n].high)

\* The subqueries are disjoint and ascending.
ChainInv ==
  \A m, n \in DOMAIN queue : m < n => Less(queue[m].high, queue[n].low)

\* The cursor stands at or after the head's low key, with its keys fresh; a
\* call that returns a row never leaves a finished subquery at the head.
CursorInv ==
  pc \in Searching \cup Placed =>
    /\ ~ subQueryFinished
    /\ pos \in Entries
    /\ LessEq(queryHead.low, KeyOf(pos))
    /\ ~ queryHead.solid =>
         /\ currentKey = KeyOf(pos)
         /\ \E e \in Entries : LastOfPage(pos, e) /\ lastKey = KeyOf(e)

\* What has been returned lies before what the queue still stands for.
RowsInv ==
  /\ \A k \in DOMAIN rows : rows[k].tid \in Entries
  /\ \A k \in DOMAIN rows, n \in DOMAIN queue :
       n > 1 \/ pc \notin Placed => Less(KeyOf(rows[k].tid), queue[n].low)
  /\ pc \in Placed => \A k \in DOMAIN rows : rows[k].tid <= pos
  /\ pc = "start" => rows = << >> /\ queue = << >> /\ free = 0

\* Nodes come from the free list, or one for each bit given up.
NodesInv ==
  /\ Len(queue) + free <= KeyBits + 1
  /\ \A n \in DOMAIN queue : Len(queue) - n + 1 <= KeyBits - Left(queue[n])

\* All of this together: what the loops of spt_query2_findNextMatch and
\* spt_query2_moveNext, and checkNextPage under them, rely on at each turn
\* and restore by its end. The queue is a chain of disjoint, ascending boxes,
\* none longer than the bits given up allow; the cursor stands in the head with
\* both keys fresh; what has been returned ascends and lies before the queue.
IInv ==
  /\ TypeOK
  /\ IndexInv
  /\ BoundsInv
  /\ ChainInv
  /\ CursorInv
  /\ RowsInv
  /\ RowsAscend
  /\ NodesInv
  /\ NoRunaway

----------------------------------------------------------------------------
\* What completeness and exactness need beyond.

\* If the extent wants anything, no subquery has an empty box.
ProperInv ==
  Wanted # {} =>
    \A n \in DOMAIN queue : InBox(queue[n], queue[n].low)

\* The cursor is still in the head's interval when a call goes on from a row,
\* and the queue is empty when the lookup ends.
ReachInv ==
  /\ pc \in Placed => LessEq(KeyOf(pos), queryHead.high)
  /\ pc = "done" => queue = << >>

\* Each wanted entry has been returned, or lies before the cursor's walk in
\* the head's box, or in the box of a subquery further down the queue.
CoverInv ==
  \A i \in Wanted :
    \/ Returned(i)
    \/ pc = "start"
    \/ \E n \in DOMAIN queue :
         /\ InBox(queue[n], KeyOf(i))
         /\ n = 1 /\ pc \in Searching => i >= pos
         /\ n = 1 /\ pc \in Placed => i > pos

\* The box of each subquery lies in the extent: what a decoded key is compared
\* with lets nothing else through.
WithinInv ==
  \A n \in DOMAIN queue : \A k \in SmallKeys :
    InBox(queue[n], k) => InExtent(bitKey_toCoords(k))

CInv == IInv /\ ProperInv /\ ReachInv /\ CoverInv /\ WithinInv /\ DecodedRowsExact

----------------------------------------------------------------------------
\* What exactness needs beyond, for an extent that starts at the origin.

\* A coordinate of the low corner has no bits at or below one in which the high
\* corner's differs from it.
Aligned(q) ==
  \A b, c \in Bits :
    b % Dims = c % Dims /\ b <= c /\ ~ (c \in q.low <=> c \in q.high) => b \notin q.low

\* The keys between the corners of a solid box are those of the box.
Filled(q) ==
  q.solid => \A k \in SmallKeys : LessEq(q.low, k) /\ LessEq(k, q.high) => InBox(q, k)

\* The boxes splitting makes are aligned, and so testRawKey, which compares with
\* the high key only, lets nothing through that is not wanted.
SolidInv ==
  Anchored =>
    /\ \A n \in DOMAIN queue : Aligned(queue[n]) /\ Filled(queue[n])
    /\ RowsInExtent

XInv == CInv /\ SolidInv

\* When a call returns a row, every wanted entry before it has been returned.
PrefixReturned ==
  pc = "row" =>
    \A k \in DOMAIN rows, j \in Wanted : j < rows[k].tid => Returned(j)

----------------------------------------------------------------------------
\* What holds of every lookup, whatever its points are.

\* Key v has bit b, key u has not, and above it they are the same.
DifferAt(b, u, v) ==
  /\ b \in v /\ b \notin u
  /\ \A j \in Bits : j > b => (j \in u <=> j \in v)

\* Numerics are signed only where a key fills its word, and the last entry is
\* the end of a page.
EntriesInv ==
  /\ \A i \in Entries : index[i].neg => WordBits - 1 \in Bits
  /\ \A i \in Entries : i + 1 \notin Entries => i \in pageEnds

\* Subquery q ends below p, and key k is below q, by a bit that splitting cannot
\* change any more.
Link(q, p) == \E c \in Bits : c > Left(q) /\ c > Left(p) /\ DifferAt(c, q.high, p.low)
Under(k, q) == \E c \in Bits : c > Left(q) /\ DifferAt(c, k, q.low)

\* The subqueries ascend; the bounds of each agree above its curBitNum_, unless
\* they are the wrong way round, which they stay.
LinkInv ==
  /\ \A m, n \in DOMAIN queue : m < n => Link(queue[m], queue[n])
  /\ \A n \in DOMAIN queue : Agree(queue[n]) \/ Link(queue[n], queue[n])

\* Unless the head is solid, both keys are those of the cursor's place.
FreshInv ==
  pc \in Searching \cup Placed /\ ~ queryHead.solid =>
    /\ currentKey = bitKey_fromLong(index[pos])
    /\ \E e \in Entries : LastOfPage(pos, e) /\ lastKey = bitKey_fromLong(index[e])

\* All of this, with the queue's length, is kept by splitting, popping and
\* walking alone, also of keys with their top bit set, which the btree orders
\* otherwise than the automaton, and of extents that are turned round.
ShapeInv ==
  /\ TypeOK
  /\ EntriesInv
  /\ LinkInv
  /\ NodesInv
  /\ FreshInv
  /\ pc = "start" => queue = << >> /\ free = 0 /\ rows = << >>

\* The key an entry was stored for. A 2D key is always read back from its
\* numeric; of 3D keys that is assumed here.
FullKey(i) == numeric_int8(index[i])
KeysReadBack ==
  Dims = 3 => \A p \in Points : \A k \in bitKey_fromCoords(p) :
                bitKey_fromLong(bitKey_toLong(k)) = k

\* The sign of the numeric is not in the low key only: in those of the extent,
\* in those of a subquery.
Unturned(low, high) == Dims = 2 /\ WordBits - 1 \in low => WordBits - 1 \in high
Straight ==
  \A low \in bitKey_fromCoords(extent.min), high \in bitKey_fromCoords(extent.max) :
    Unturned(low, high)
ExtentsStraight ==
  \A e \in Extents : \A low \in bitKey_fromCoords(e.min), high \in bitKey_fromCoords(e.max) :
    Unturned(low, high)

\* So it is where no corner is beyond the other one, as unsigned coordinates are
\* compared.
ExtentsOrdered == \A e \in Extents : \A d \in 1 .. Dims : ~ Less(e.max[d], e.min[d])

\* What a lookup only reads: an extent asked for, and keys in the btree's order.
StoredInv ==
  /\ extent \in Extents
  /\ Sorted(index)
  /\ \A i \in Entries :
       /\ FullKey(i) \in Key /\ index[i] = bitKey_toLong(FullKey(i))
       /\ bitKey_fromLong(index[i]) = FullKey(i)

\* The cursor stands at or after the head's low key, in the btree's order, and
\* no call leaves a finished subquery at the head.
PlaceInv ==
  /\ \A n \in DOMAIN queue : Unturned(queue[n].low, queue[n].high)
  /\ pc \in Searching \cup Placed =>
       /\ ~ subQueryFinished
       /\ numeric_cmp(bitKey_toLong(queryHead.low), index[pos]) <= 0

\* What has been returned lies under the subqueries of the queue or, if the head
\* returned it, not after the cursor.
UnderInv ==
  /\ \A k \in DOMAIN rows : rows[k].tid \in Entries
  /\ \A k \in DOMAIN rows, n \in DOMAIN queue :
       n > 1 \/ pc \notin Placed => Under(FullKey(rows[k].tid), queue[n])
  /\ pc \in Placed => \A k \in DOMAIN rows :
       rows[k].tid <= pos \/ Under(FullKey(rows[k].tid), queryHead)

\* So no entry is returned twice, although the btree has negative numerics first
\* and the queue has their keys last.
StraightInv == PlaceInv /\ UnderInv /\ NoneTwice
OnceInv == ShapeInv /\ StoredInv /\ (Straight => StraightInv)
====
