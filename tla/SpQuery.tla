---- MODULE SpQuery ----
(***************************************************************************)
(* The query automaton of sp_query.c: a lookup of the rows in an extent,   *)
(* over a btree index of key numerics that does not change meanwhile.      *)
(*                                                                         *)
(* The queue holds subqueries, intervals of the key order with the part of *)
(* the extent they stand for.  The head is looked up in the index; while   *)
(* the page the cursor stands on ends below the head's high key, the head  *)
(* is split in two at the highest bit its bounds differ in, and the lower  *)
(* half becomes the head.  Then the cursor walks through the head's        *)
(* interval and returns what lies in the extent, and so on.  A solid       *)
(* subquery is returned whole and its keys are not decoded ("raw").        *)
(*                                                                         *)
(* One step is one iteration of a loop of spt_query2_findNextMatch or      *)
(* spt_query2_moveNext; pc says which loop runs.  The calls of the cursor  *)
(* of sp_tree.c are atomic here: pos is the index entry the cursor is on,  *)
(* pageEnds the entries that are last on their leaf page.                  *)
(***************************************************************************)
EXTENDS BitKey, Sequences

CONSTANTS
  Points,            \* the points rows and extents are made of
  Extents,           \* the extents asked for: [min, max : Points]
  MaxEntries         \* bound on the entries of the index

ASSUME QueryAssumption ==
  /\ Points \subseteq Point
  /\ Extents \subseteq [min : Points, max : Points]
  /\ MaxEntries \in Nat

VARIABLES
  index,             \* the index entries in index order, a sequence of numerics
  pageEnds,          \* entries that are the last ones of their leaf page
  extent,            \* min_point_, max_point_
  queue,             \* queueHead_: the subqueries, head first
  free,              \* freeHead_: how many nodes wait for reuse
  subQueryFinished,  \* subQueryFinished_
  opened,            \* the cursor has not been destroyed (qctx_.rel_)
  pos,               \* the cursor's entry: iptr_ and raw_val_; 0 if none
  currentKey,        \* currentKey_, a copy of the cursor's cur_val_
  lastKey,           \* lastKey_, a copy of the cursor's last_page_val_
  coords,            \* the caller's coords[]
  rows,              \* history: what the calls have returned, and whether raw
  pc                 \* the loop that runs, or how the last call returned

store == <<index, pageEnds, extent>>
vars  == <<index, pageEnds, extent, queue, free, subQueryFinished, opened,
           pos, currentKey, lastKey, coords, rows, pc>>

----------------------------------------------------------------------------
\* The index and its cursor

Entries == DOMAIN index

\* numeric_cmp orders the index.
Sorted(s) == \A i, j \in DOMAIN s : i <= j => numeric_cmp(s[i], s[j]) <= 0

\* The numerics zcurve_num_from_xy and _xyz store for points.
Stored == {bitKey_toLong(k) : k \in UNION {bitKey_fromCoords(p) : p \in Points}}

\* e is the last entry of the page entry i is on.
LastOfPage(i, e) ==
  /\ e \in pageEnds /\ i <= e
  /\ \A f \in pageEnds : i <= f => e <= f

\* Mutant of FirstFrom: an entry equal to start is passed over.
FirstFrom_after(start, i) ==
  /\ i \in Entries /\ numeric_cmp(start, index[i]) < 0
  /\ \A j \in Entries : j < i => numeric_cmp(start, index[j]) >= 0

\* Entry i is the first one at or after start (binary search of the tree).
FirstFrom(start, i) ==
  /\ i \in Entries /\ numeric_cmp(start, index[i]) <= 0
  /\ \A j \in Entries : j < i => numeric_cmp(start, index[j]) > 0

NoneFrom(start) == \A j \in Entries : numeric_cmp(start, index[j]) > 0

\* Mutant of ToPage: the key of the page's last entry is not read.
ToPage_staleLast(i, raw) ==
  /\ pos' = i
  /\ currentKey' = IF raw THEN currentKey ELSE bitKey_fromLong(index[i])
  /\ UNCHANGED lastKey

\* The cursor comes to entry i of another page; raw leaves its keys alone.
ToPage(i, raw) ==
  /\ pos' = i
  /\ IF raw
     THEN UNCHANGED <<currentKey, lastKey>>
     ELSE \E e \in Entries :
            /\ LastOfPage(i, e)
            /\ currentKey' = bitKey_fromLong(index[i])
            /\ lastKey' = bitKey_fromLong(index[e])

\* The cursor moves to the next entry, of its page or of the next one.
zcurve_scan_move_next(raw) ==
  IF pos \in pageEnds
  THEN ToPage(pos + 1, raw)
  ELSE /\ pos' = pos + 1
       /\ currentKey' = IF raw THEN currentKey
                        ELSE bitKey_fromLong(index[pos + 1])
       /\ UNCHANGED lastKey

----------------------------------------------------------------------------
\* Subqueries

queryHead == queue[1]

(***************************************************************************)
(* A subquery is solid when every side of its box has the same power of    *)
(* two as length, more than one: when the differences of the coordinates,  *)
(* one less than the lengths, are the same word of ones.                   *)
(***************************************************************************)
Side(low, high, d) == Minus(bitKey_toCoords(high)[d], bitKey_toCoords(low)[d])

\* Mutant of testSolidity: sides of different lengths will do.
testSolidity_anySides(low, high) ==
  \A d \in 1 .. Dims : \E n \in 1 .. CoordBits - 1 : Side(low, high, d) = 0 .. n - 1

testSolidity(low, high) ==
  \E n \in 1 .. CoordBits - 1 :
    \A d \in 1 .. Dims : Side(low, high, d) = 0 .. n - 1

\* curBitNum_ is a bit field of 16 bits: zero minus one is its maximum.
CurBitMax == 65535
\* Mutant of Decrement: one bit is left out.
Decrement_twice(n) == IF n < 2 THEN CurBitMax ELSE n - 2
Decrement(n) == IF n = 0 THEN CurBitMax ELSE n - 1

SubQuery == [low : Key, high : Key, curBitNum : Bits \cup {CurBitMax}, solid : BOOLEAN]

NewSubQuery(low, high, bit) ==
  [low |-> low, high |-> high, curBitNum |-> bit, solid |-> testSolidity(low, high)]

\* Mutant of createQuery: always palloc.
createQuery_fresh(n) == n

\* A node comes from the free list, or from palloc: what stays in the list.
createQuery(n) == IF n > 0 THEN n - 1 ELSE 0

\* The bit the loop over curBitNum_ stops at: the first one, downwards from
\* curBitNum_, where getBit tells the bounds apart.
SplitBit(q, b) ==
  LET differ(i) == bitKey_getBit(q.low, i) # bitKey_getBit(q.high, i)
  IN  /\ q.curBitNum \in Bits /\ b <= q.curBitNum /\ differ(b)
      /\ \A i \in Bits : b < i /\ i <= q.curBitNum => ~ differ(i)

LowerHalf(q, b) ==
  NewSubQuery(q.low, bitKey_setLowBits(q.high, b), Decrement(b))
\* Mutant of UpperHalf: the low key of the whole is kept.
UpperHalf_wholeLow(q, b) == NewSubQuery(q.low, q.high, Decrement(b))
UpperHalf(q, b) ==
  NewSubQuery(bitKey_clearLowBits(q.low, b), q.high, Decrement(b))

\* The page the cursor is on ends below the head's interval.
MustSplit ==
  /\ ~ queryHead.solid
  /\ bitKey_cmp(lastKey, queryHead.high) < 0

\* checkKey: the key under the cursor lies in the head's box.
KeyMatches == bitKey_between(currentKey, queryHead.low, queryHead.high)

\* Mutant of RawMatches: the high key itself is left out.
RawMatches_open(i) == numeric_cmp(index[i], bitKey_toLong(queryHead.high)) < 0

\* testRawKey, for entry i.
RawMatches(i) == numeric_cmp(index[i], bitKey_toLong(queryHead.high)) <= 0

\* Mutant of checkNextPage: the high key itself is left out.
checkNextPage_open ==
  pos \in pageEnds =>
    /\ pos + 1 \in Entries
    /\ bitKey_cmp(bitKey_fromLong(index[pos + 1]), queryHead.high) < 0

\* checkNextPage: at the end of a page the next page is looked at, and the
\* cursor comes back.
checkNextPage ==
  pos \in pageEnds =>
    /\ pos + 1 \in Entries
    /\ bitKey_cmp(bitKey_fromLong(index[pos + 1]), queryHead.high) <= 0

----------------------------------------------------------------------------
\* Ends of an iteration

\* Mutants of releaseSubQuery: the walk goes on as if the head were still
\* the same; the head is not unlinked.
releaseSubQuery_walksOn ==
  /\ queue' = Tail(queue)
  /\ free' = free + 1
  /\ subQueryFinished' = TRUE
  /\ pc' = "next"
  /\ UNCHANGED <<opened, coords, rows>>
releaseSubQuery_keepsHead ==
  /\ free' = free
  /\ subQueryFinished' = TRUE
  /\ pc' = "find"
  /\ UNCHANGED <<queue, opened, coords, rows>>

\* releaseSubQuery, then the loop over the queue goes on.
releaseSubQuery ==
  /\ queue' = Tail(queue)
  /\ free' = free + 1
  /\ subQueryFinished' = TRUE
  /\ pc' = "find"
  /\ UNCHANGED <<opened, coords, rows>>

\* closeQuery, and the call returns 0.
closeQuery ==
  /\ queue' = << >>
  /\ free' = 0
  /\ opened' = FALSE
  /\ pc' = "done"
  /\ UNCHANGED <<subQueryFinished, coords, rows>>

\* The call returns 1 with entry i and what is in coords[] then.
ReturnRow(i, xy) ==
  /\ coords' = xy
  /\ rows' = Append(rows, [tid |-> i, coords |-> xy, raw |-> queryHead.solid])
  /\ pc' = "row"
  /\ UNCHANGED <<queue, free, subQueryFinished, opened>>

\* The loop goes on.
Continue(where) ==
  /\ pc' = where
  /\ UNCHANGED <<queue, free, subQueryFinished, opened, coords, rows>>
----------------------------------------------------------------------------
Init ==
  /\ index \in {s \in UNION {[1 .. n -> Stored] : n \in 0 .. MaxEntries} : Sorted(s)}
  /\ pageEnds \in {P \in SUBSET DOMAIN index : index # << >> => Len(index) \in P}
  /\ extent \in Extents
  /\ queue = << >>
  /\ free = 0
  /\ subQueryFinished = FALSE
  /\ opened = TRUE
  /\ pos = 0
  /\ currentKey = {}
  /\ lastKey = {}
  /\ coords = extent.min
  /\ rows = << >>
  /\ pc = "start"

\* spt_query2_moveFirst, up to its call of findNextMatch.
MoveFirst ==
  /\ pc = "start"
  /\ \E low \in bitKey_fromCoords(extent.min),
        high \in bitKey_fromCoords(extent.max) :
       queue' = <<NewSubQuery(low, high, KeyBits - 1)>>
  /\ pc' = "find"
  /\ UNCHANGED <<store, free, subQueryFinished, opened, pos, currentKey, lastKey,
                 coords, rows>>

----------------------------------------------------------------------------
\* spt_query2_findNextMatch, the loop over the queue

\* queryFind puts the cursor on the first entry from the head's low key.
QueryFind ==
  /\ pc = "find" /\ queue # << >>
  /\ \E i \in Entries :
       /\ FirstFrom(bitKey_toLong(queryHead.low), i)
       /\ ToPage(i, queryHead.solid)
  /\ subQueryFinished' = FALSE
  /\ pc' = "split"
  /\ UNCHANGED <<store, queue, free, opened, coords, rows>>

\* There is no such entry: end of tree.
QueryFindFails ==
  /\ pc = "find" /\ queue # << >>
  /\ NoneFrom(bitKey_toLong(queryHead.low))
  /\ queue' = << >> /\ free' = 0
  /\ opened' = FALSE
  /\ subQueryFinished' = FALSE
  /\ pc' = "done"
  /\ UNCHANGED <<store, pos, currentKey, lastKey, coords, rows>>

QueueEmpty ==
  /\ pc = "find" /\ queue = << >>
  /\ closeQuery
  /\ UNCHANGED <<store, pos, currentKey, lastKey>>

\* The head is split; its lower half is pushed and becomes the head.
SplitQuery ==
  /\ pc = "split" /\ MustSplit
  /\ \E b \in Bits :
       /\ SplitBit(queryHead, b)
       /\ queue' = <<LowerHalf(queryHead, b), UpperHalf(queryHead, b)>> \o Tail(queue)
  /\ free' = createQuery(free)
  /\ subQueryFinished' = FALSE
  /\ UNCHANGED <<store, opened, pos, currentKey, lastKey, coords, rows, pc>>

\* No bit from curBitNum_ down tells the bounds apart, or none is left: the
\* loop over curBitNum_ runs on below bit 0 through the values of the bit
\* field.  For equal bounds it never ends; else it stops at an index past the
\* key, where the shifts of the mask operations are undefined.
SplitRunsAway ==
  /\ pc = "split" /\ MustSplit
  /\ \A b \in Bits : ~ SplitBit(queryHead, b)
  /\ pc' = "lost"
  /\ UNCHANGED <<store, queue, free, subQueryFinished, opened, pos, currentKey,
                 lastKey, coords, rows>>

SplitDone ==
  /\ pc = "split" /\ ~ MustSplit
  /\ Continue("match")
  /\ UNCHANGED <<store, pos, currentKey, lastKey>>

----------------------------------------------------------------------------
\* spt_query2_findNextMatch, the loop that looks for a match in the head

MatchSolid ==
  /\ pc = "match" /\ queryHead.solid
  /\ IF RawMatches(pos) THEN ReturnRow(pos, coords) ELSE releaseSubQuery
  /\ UNCHANGED <<store, pos, currentKey, lastKey>>

MatchKey ==
  /\ pc = "match" /\ ~ queryHead.solid
  /\ bitKey_cmp(currentKey, queryHead.high) <= 0
  /\ KeyMatches
  /\ ReturnRow(pos, bitKey_toCoords(currentKey))
  /\ UNCHANGED <<store, pos, currentKey, lastKey>>

MatchSkips ==
  /\ pc = "match" /\ ~ queryHead.solid
  /\ bitKey_cmp(currentKey, queryHead.high) <= 0
  /\ ~ KeyMatches
  /\ checkNextPage
  /\ zcurve_scan_move_next(FALSE)
  /\ Continue("match")
  /\ UNCHANGED store

MatchExhausted ==
  /\ pc = "match" /\ ~ queryHead.solid
  /\ \/ bitKey_cmp(currentKey, queryHead.high) > 0
     \/ ~ KeyMatches /\ ~ checkNextPage
  /\ releaseSubQuery
  /\ UNCHANGED <<store, pos, currentKey, lastKey>>

----------------------------------------------------------------------------
\* spt_query2_moveNext

MoveNext ==
  /\ pc = "row" /\ opened
  /\ Continue(IF subQueryFinished THEN "find" ELSE "next")
  /\ UNCHANGED <<store, pos, currentKey, lastKey>>

\* queryNextKey finds no further entry.
NextFails ==
  /\ pc = "next" /\ queryHead.solid
  /\ pos + 1 \notin Entries
  /\ closeQuery
  /\ UNCHANGED <<store, pos, currentKey, lastKey>>

NextSolid ==
  /\ pc = "next" /\ queryHead.solid
  /\ pos + 1 \in Entries
  /\ zcurve_scan_move_next(TRUE)
  /\ IF RawMatches(pos + 1) THEN ReturnRow(pos + 1, coords) ELSE releaseSubQuery
  /\ UNCHANGED store

NextPageExhausted ==
  /\ pc = "next" /\ ~ queryHead.solid
  /\ ~ checkNextPage
  /\ releaseSubQuery
  /\ UNCHANGED <<store, pos, currentKey, lastKey>>

NextKey ==
  /\ pc = "next" /\ ~ queryHead.solid
  /\ checkNextPage
  /\ zcurve_scan_move_next(FALSE)
  /\ IF bitKey_cmp(currentKey', queryHead.high) > 0
     THEN releaseSubQuery
     ELSE IF bitKey_between(currentKey', queryHead.low, queryHead.high)
     THEN ReturnRow(pos + 1, bitKey_toCoords(currentKey'))
     ELSE Continue("next")
  /\ UNCHANGED store

----------------------------------------------------------------------------
FindStep  == QueryFind \/ QueryFindFails \/ QueueEmpty
SplitStep == SplitQuery \/ SplitDone
MatchStep == MatchSolid \/ MatchKey \/ MatchSkips \/ MatchExhausted
NextStep  == NextFails \/ NextSolid \/ NextPageExhausted \/ NextKey

\* A step of a call that has been made.
Run == FindStep \/ SplitStep \/ MatchStep \/ NextStep

Next == MoveFirst \/ MoveNext \/ Run \/ SplitRunsAway

Spec == Init /\ [][Next]_vars

\* A call runs until it returns: the code it executes is sequential C.
FairSpec == Spec /\ WF_vars(Run)
====
