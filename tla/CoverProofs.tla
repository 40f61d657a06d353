---- MODULE CoverProofs ----
(***************************************************************************)
(* A lookup of small keys finds every row of its extent: whatever is       *)
(* wanted and has not been returned lies in the box of a subquery in the   *)
(* queue, and ahead of the cursor if that is the head.                     *)
(***************************************************************************)
EXTENDS SpQueryProofs

\* The state of a wanted entry that CoverInv asks for, before and after.
Ahead(i, n) ==
  /\ n \in DOMAIN queue
  /\ InBox(queue[n], KeyOf(i))
  /\ n = 1 /\ pc \in Searching => i >= pos
  /\ n = 1 /\ pc \in Placed => i > pos

LEMMA CoverByAhead ==
  CoverInv <=> \A i \in Wanted : Returned(i) \/ pc = "start" \/ \E n \in DOMAIN queue : Ahead(i, n)
BY DEF CoverInv, Ahead

LEMMA WantedKept ==
  ASSUME IInv, UNCHANGED store
  PROVE  /\ Wanted' = Wanted /\ index' = index
         /\ \A i \in Wanted : i \in Entries /\ i \in Nat /\ KeyOf(i) \in Key
<1>1. \A i \in Entries : i \in Nat /\ KeyOf(i) \in Key
  BY EntryFacts DEF IInv
<1> QED BY <1>1 DEF Wanted, PointOf, InExtent, Entries, store

\* Entries of a box lie in its interval; those of the others beyond the head's.
LEMMA BoxOfEntry ==
  ASSUME SmallPoints, IInv, NEW n \in DOMAIN queue, NEW i \in Entries,
         InBox(queue[n], KeyOf(i))
  PROVE  /\ LessEq(queue[n].low, KeyOf(i)) /\ LessEq(KeyOf(i), queue[n].high)
         /\ queue[n].low \in Key /\ queue[n].high \in Key /\ KeyOf(i) \in Key
         /\ n = 1 \/ Less(queryHead.high, KeyOf(i))
<1>1. /\ TypeOK /\ KeyOf(i) \in Key /\ queue[n].low \in Key /\ queue[n].high \in Key
      /\ n \in Nat /\ n > 0 /\ 1 \in DOMAIN queue /\ queue[1].high \in Key
  <2>1. TypeOK /\ queue # << >>
    BY DEF IInv
  <2> QED BY <2>1, EntryFacts, QueueFacts
<1>2. LessEq(queue[n].low, KeyOf(i)) /\ LessEq(KeyOf(i), queue[n].high)
  <2>1. Unsigned(queue[n].low) /\ Unsigned(queue[n].high) /\ Unsigned(KeyOf(i))
    BY DEF IInv, BoundsInv, IndexInv
  <2> QED BY <1>1, <2>1, InBoxInside, BoxInterval
<1>3. CASE n # 1
  <2>1. Less(queue[1].high, queue[n].low)
    BY <1>1, <1>3 DEF IInv, ChainInv
  <2>2. Less(queue[1].high, KeyOf(i))
    BY <1>1, <1>2, <2>1, LessLessEq
  <2> QED BY <1>1, <1>2, <2>2 DEF queryHead
<1> QED BY <1>1, <1>2, <1>3

LEMMA EntryOrder ==
  ASSUME IInv, NEW i \in Entries, NEW j \in Entries, Less(KeyOf(i), KeyOf(j))
  PROVE  i < j
<1>1. i \in Nat /\ j \in Nat
  BY EntryFacts DEF IInv
<1> QED BY <1>1 DEF IInv, IndexInv, LessEq

----------------------------------------------------------------------------
LEMMA InitCover == ASSUME Init PROVE ProperInv /\ ReachInv /\ CoverInv
BY DEF Init, ProperInv, ReachInv, CoverInv, Placed

\* The first subquery's box is the extent.
LEMMA MoveFirstCover ==
  ASSUME SmallPoints, CInv, MoveFirst
  PROVE  (ProperInv /\ ReachInv /\ CoverInv)'
<1>1. IInv /\ UNCHANGED store /\ pc' = "find"
  BY DEF CInv, MoveFirst
<1>2. extent.min \in Points /\ extent.max \in Points /\ extent \in [min : Point, max : Point]
  BY <1>1, QueryAssumption DEF IInv, IndexInv, TypeOK
<1> DEFINE low == KeyOfPoint(extent.min)
           high == KeyOfPoint(extent.max)
           q == NewSubQuery(low, high, KeyBits - 1)
<1>3. /\ low \in Key /\ high \in Key /\ Unsigned(low) /\ Unsigned(high)
      /\ queue' = <<q>>
  BY <1>2, ExtentKeys, UnsignedKey DEF MoveFirst
<1>4. q.low = low /\ q.high = high
  BY DEF NewSubQuery
<1>5. ASSUME NEW i \in Wanted PROVE Inside(KeyOf(i), low, high)
  <2>1. /\ i \in Entries /\ InExtent(PointOf(i)) /\ KeyOf(i) \in Key
        /\ index[i].neg = FALSE
    BY <1>1, EntryFacts DEF Wanted, IInv, IndexInv
  <2>2. PointOf(i) = bitKey_toCoords(KeyOf(i))
    BY <2>1 DEF PointOf, KeyOf
  <2> QED BY <1>2, <1>3, <2>1, <2>2, BoxIsExtent
<1> HIDE DEF low, high, q
<1>6. DOMAIN queue' = {1} /\ queue'[1] = q
  BY <1>3
<1>7. /\ Wanted' = Wanted /\ index' = index
      /\ \A i \in Wanted : i \in Entries /\ i \in Nat /\ KeyOf(i) \in Key
  BY <1>1, WantedKept
<1>8. ProperInv'
  <2> SUFFICES ASSUME Wanted # {} PROVE InBox(q, q.low)
    BY <1>6, <1>7 DEF ProperInv
  <2>1. PICK i \in Wanted : TRUE
    OBVIOUS
  <2>2. Inside(KeyOf(i), low, high)
    BY <1>5
  <2>3. \A j \in 1 .. Dims : LessEq(Part(low, j), Part(high, j))
    <3> TAKE j \in 1 .. Dims
    <3>1. /\ LessEq(Part(low, j), Part(KeyOf(i), j)) /\ LessEq(Part(KeyOf(i), j), Part(high, j))
          /\ Part(low, j) \in Key /\ Part(high, j) \in Key /\ Part(KeyOf(i), j) \in Key
      BY <1>3, <1>7, <2>2 DEF Inside, Part, Key
    <3> QED BY <3>1, LessEqTransitive
  <2>4. Inside(low, low, high)
    BY <2>3, LessIrreflexive DEF Inside, LessEq
  <2> QED BY <1>3, <1>4, <2>4, InBoxInside
<1>9. CoverInv'
  <2> SUFFICES ASSUME NEW i \in Wanted PROVE InBox(q, index'[i].bits)
    BY <1>1, <1>6, <1>7 DEF CoverInv, Searching, Placed, KeyOf
  <2>1. Unsigned(KeyOf(i))
    BY <1>1, <1>7 DEF IInv, IndexInv
  <2> QED BY <1>3, <1>4, <1>5, <1>7, <2>1, InBoxInside DEF KeyOf
<1>10. ReachInv'
  BY <1>1 DEF ReachInv, Placed
<1> QED BY <1>8, <1>9, <1>10

----------------------------------------------------------------------------
\* The three ends of an iteration that looks at an entry.
LEMMA ReleaseCover ==
  ASSUME SmallPoints, CInv, pc \in {"match", "next"}, releaseSubQuery, UNCHANGED store,
         \A i \in Wanted : ~ Ahead(i, 1)
  PROVE  (ProperInv /\ ReachInv /\ CoverInv)'
<1>1. IInv /\ queue \in Seq(SubQuery) /\ queue # << >>
  BY DEF CInv, IInv, TypeOK
<1>2. queue' = Tail(queue) /\ rows' = rows /\ pc' = "find"
  BY DEF releaseSubQuery
<1>3. /\ \A n \in DOMAIN queue' : n + 1 \in DOMAIN queue /\ queue'[n] = queue[n + 1]
      /\ \A n \in DOMAIN queue : n = 1 \/ (n - 1 \in DOMAIN queue' /\ queue'[n - 1] = queue[n])
  BY <1>1, <1>2, Pop
<1>4. Wanted' = Wanted /\ index' = index
  BY <1>1, WantedKept
<1>5. ProperInv' /\ ReachInv'
  BY <1>2, <1>3, <1>4 DEF CInv, ProperInv, ReachInv, Placed
<1>6. CoverInv'
  <2> SUFFICES ASSUME NEW i \in Wanted, ~ Returned(i)
               PROVE  \E n \in DOMAIN queue' : InBox(queue'[n], index'[i].bits)
    BY <1>2, <1>4 DEF CoverInv, Searching, Placed, KeyOf, Returned
  <2>1. PICK n \in DOMAIN queue : Ahead(i, n)
    BY CoverByAhead DEF CInv
  <2> QED BY <1>3, <1>4, <2>1 DEF Ahead, KeyOf
<1> QED BY <1>5, <1>6

LEMMA ReturnCover ==
  ASSUME SmallPoints, CInv, pc \in {"match", "next"}, UNCHANGED store,
         NEW i \in Entries, NEW xy, ReturnRow(i, xy), pos' = i,
         LessEq(KeyOf(i), queryHead.high),
         \A j \in Wanted : Ahead(j, 1) => j >= i
  PROVE  (ProperInv /\ ReachInv /\ CoverInv)'
<1> DEFINE row == [tid |-> i, coords |-> xy, raw |-> queryHead.solid]
<1>1. IInv /\ rows \in Seq(Row)
  BY DEF CInv, IInv, TypeOK
<1>2. queue' = queue /\ rows' = Append(rows, row) /\ pc' = "row" /\ row.tid = i
  BY DEF ReturnRow
<1> HIDE DEF row
<1>3. /\ Wanted' = Wanted /\ index' = index
      /\ \A j \in Wanted : j \in Entries /\ j \in Nat
  BY <1>1, WantedKept
<1>4. /\ \A k \in DOMAIN rows : k \in DOMAIN rows' /\ rows'[k] = rows[k]
      /\ \E k \in DOMAIN rows' : rows'[k].tid = i
  <2>1. Len(rows) \in Nat /\ DOMAIN rows = 1 .. Len(rows)
    BY <1>1, LenProperties
  <2>2. /\ DOMAIN Append(rows, row) = 1 .. Len(rows) + 1
        /\ \A k \in 1 .. Len(rows) : Append(rows, row)[k] = rows[k]
        /\ Append(rows, row)[Len(rows) + 1] = row
    BY <1>1, AppendProperties, LenProperties
  <2> QED BY <1>2, <2>1, <2>2
<1>5. ProperInv'
  BY <1>2, <1>3 DEF CInv, ProperInv
<1>6. ReachInv'
  BY <1>2, <1>3 DEF ReachInv, queryHead, KeyOf
<1>7. CoverInv'
  <2> SUFFICES ASSUME NEW j \in Wanted, ~ Returned(j), j # i
               PROVE  \E n \in DOMAIN queue' : InBox(queue'[n], index'[j].bits) /\ (n = 1 => j > pos')
    BY <1>2, <1>3, <1>4 DEF CoverInv, Searching, Placed, KeyOf, Returned
  <2>1. PICK n \in DOMAIN queue : Ahead(j, n)
    BY CoverByAhead DEF CInv
  <2>2. n = 1 => j > i
    <3>1. j \in Nat /\ i \in Nat
      BY <1>1, <1>3, EntryFacts DEF IInv
    <3> QED BY <2>1, <3>1
  <2> QED BY <1>2, <1>3, <2>1, <2>2 DEF Ahead, KeyOf
<1> QED BY <1>5, <1>6, <1>7

LEMMA WalkCover ==
  ASSUME SmallPoints, CInv, pc \in {"match", "next"}, UNCHANGED store, Continue(pc),
         pos + 1 \in Entries, pos' = pos + 1,
         pc = "match" => ~ InBox(queryHead, KeyOf(pos)),
         pc = "next" => ~ InBox(queryHead, KeyOf(pos + 1))
                          /\ LessEq(KeyOf(pos + 1), queryHead.high)
  PROVE  (ProperInv /\ ReachInv /\ CoverInv)'
<1>1. IInv /\ pos \in Nat
  BY DEF CInv, IInv, TypeOK
<1>2. queue' = queue /\ rows' = rows /\ pc' = pc
  BY DEF Continue
<1>3. /\ Wanted' = Wanted /\ index' = index
      /\ \A j \in Wanted : j \in Entries /\ j \in Nat
  BY <1>1, WantedKept
<1>4. ProperInv' /\ ReachInv'
  BY <1>2, <1>3 DEF CInv, ProperInv, ReachInv, Placed, queryHead, KeyOf
<1>5. CoverInv'
  <2> SUFFICES ASSUME NEW j \in Wanted, ~ Returned(j)
               PROVE  \E n \in DOMAIN queue' :
                        /\ InBox(queue'[n], index'[j].bits)
                        /\ n = 1 /\ pc' \in Searching => j >= pos'
                        /\ n = 1 /\ pc' \in Placed => j > pos'
    BY <1>2, <1>3 DEF CoverInv, KeyOf, Returned
  <2>1. PICK n \in DOMAIN queue : Ahead(j, n)
    BY CoverByAhead DEF CInv
  <2>2. /\ n = 1 /\ pc \in Searching => j >= pos + 1
        /\ n = 1 /\ pc \in Placed => j > pos + 1
    <3>1. n = 1 /\ pc = "match" => j # pos
      BY <2>1 DEF Ahead, queryHead
    <3>2. n = 1 /\ pc = "next" => j # pos + 1
      BY <2>1 DEF Ahead, queryHead
    <3>3. (pc \in Searching => pc = "match") /\ (pc \in Placed => pc = "next")
      BY DEF Searching, Placed
    <3> QED BY <1>1, <1>3, <2>1, <3>1, <3>2, <3>3 DEF Ahead
  <2> QED BY <1>2, <1>3, <2>1, <2>2 DEF Ahead, KeyOf
<1> QED BY <1>4, <1>5

\* The lookup ends only when no subquery has a wanted entry left.
LEMMA CloseCover ==
  ASSUME SmallPoints, CInv, pc # "start", UNCHANGED store, queue' = << >>, rows' = rows,
         pc' = "done", \A i \in Wanted, n \in DOMAIN queue : ~ Ahead(i, n)
  PROVE  (ProperInv /\ ReachInv /\ CoverInv)'
<1>1. Wanted' = Wanted
  BY WantedKept DEF CInv
<1>2. \A i \in Wanted : Returned(i)
  BY CoverByAhead DEF CInv
<1> QED BY <1>1, <1>2 DEF ProperInv, ReachInv, CoverInv, Returned, Placed

----------------------------------------------------------------------------
\* The steps.
LEMMA QueryFindCover ==
  ASSUME SmallPoints, CInv, QueryFind
  PROVE  (ProperInv /\ ReachInv /\ CoverInv)'
<1>1. IInv /\ UNCHANGED store /\ pc = "find" /\ pc' = "split" /\ queue' = queue /\ rows' = rows
      /\ queue # << >>
  BY DEF CInv, QueryFind
<1>2. PICK i \in Entries : FirstFrom(bitKey_toLong(queryHead.low), i) /\ pos' = i
  BY DEF QueryFind, ToPage
<1>3. /\ Wanted' = Wanted /\ index' = index
      /\ \A j \in Wanted : j \in Entries /\ j \in Nat
  BY <1>1, WantedKept
<1>4. ProperInv' /\ ReachInv'
  BY <1>1, <1>3 DEF CInv, ProperInv, ReachInv, Placed
<1>5. CoverInv'
  <2> SUFFICES ASSUME NEW j \in Wanted, ~ Returned(j)
               PROVE  \E n \in DOMAIN queue' : InBox(queue'[n], index'[j].bits) /\ (n = 1 => j >= pos')
    BY <1>1, <1>3 DEF CoverInv, KeyOf, Returned, Placed
  <2>1. PICK n \in DOMAIN queue : Ahead(j, n)
    BY <1>1, CoverByAhead DEF CInv
  <2>2. ASSUME n = 1 PROVE j >= i
    <3>1. LessEq(queryHead.low, KeyOf(j)) /\ j \in Entries
      BY <1>1, <1>3, <2>1, <2>2, BoxOfEntry DEF Ahead, queryHead
    <3>2. Unsigned(queryHead.low)
      BY <1>1, <2>2 DEF IInv, BoundsInv, queryHead
    <3>3. ~ j < i
      <4>1. j < i => numeric_cmp(bitKey_toLong(queryHead.low), index[j]) > 0
        BY <1>2, <3>1 DEF FirstFrom
      <4>2. numeric_cmp(bitKey_toLong(queryHead.low), index[j]) > 0 => Less(KeyOf(j), queryHead.low)
        BY <1>1, <3>1, <3>2, EntryCompares
      <4> QED BY <3>1, <4>1, <4>2 DEF LessEq
    <3>4. i \in Nat /\ j \in Nat
      BY <1>1, <1>2, <1>3, EntryFacts DEF IInv
    <3> QED BY <3>3, <3>4
  <2> QED BY <1>1, <1>2, <1>3, <2>1, <2>2 DEF Ahead, KeyOf
<1> QED BY <1>4, <1>5

LEMMA QueryFindFailsCover ==
  ASSUME SmallPoints, CInv, QueryFindFails
  PROVE  (ProperInv /\ ReachInv /\ CoverInv)'
<1>1. /\ IInv /\ UNCHANGED store /\ pc = "find" /\ pc' = "done" /\ queue' = << >> /\ rows' = rows
      /\ queue # << >> /\ NoneFrom(bitKey_toLong(queryHead.low))
  BY DEF CInv, QueryFindFails
<1>2. ASSUME NEW i \in Wanted, NEW n \in DOMAIN queue, Ahead(i, n) PROVE FALSE
  <2>1. i \in Entries /\ KeyOf(i) \in Key
    BY <1>1, WantedKept
  <2>2. 1 \in DOMAIN queue /\ queryHead.low \in Key /\ queryHead.high \in Key
        /\ Unsigned(queryHead.low) /\ Unsigned(queryHead.high)
    BY <1>1, QueueFacts DEF IInv, BoundsInv, queryHead
  <2>3. Less(KeyOf(i), queryHead.low)
    BY <1>1, <2>1, <2>2, EntryCompares DEF NoneFrom
  <2>4. LessEq(queue[n].low, KeyOf(i)) /\ (n = 1 \/ Less(queryHead.high, KeyOf(i)))
    BY <1>1, <1>2, <2>1, BoxOfEntry DEF Ahead
  <2>5. LessEq(queryHead.low, queryHead.high)
    <3>1. InBox(queryHead, queryHead.low)
      BY <2>2 DEF CInv, ProperInv, queryHead
    <3> QED BY <2>2, <3>1, InBoxInside, BoxInterval
  <2>6. CASE n = 1
    BY <2>3, <2>4, <2>6 DEF LessEq, queryHead
  <2>7. CASE Less(queryHead.high, KeyOf(i))
    <3>1. Less(queryHead.low, KeyOf(i))
      BY <2>1, <2>2, <2>5, <2>7, LessEqLess
    <3> QED BY <2>1, <2>2, <2>3, <3>1, KeyAsymmetric DEF LessEq
  <2> QED BY <2>4, <2>6, <2>7
<1> QED BY <1>1, <1>2, CloseCover

LEMMA QueueEmptyCover ==
  ASSUME SmallPoints, CInv, QueueEmpty
  PROVE  (ProperInv /\ ReachInv /\ CoverInv)'
<1>1. /\ UNCHANGED store /\ pc = "find" /\ pc' = "done" /\ queue' = << >> /\ rows' = rows
      /\ queue = << >> /\ DOMAIN queue = {}
  BY DEF QueueEmpty, closeQuery
<1> QED BY <1>1, CloseCover

LEMMA SplitQueryCover ==
  ASSUME SmallPoints, CInv, SplitQuery
  PROVE  (ProperInv /\ ReachInv /\ CoverInv)'
<1>1. IInv /\ UNCHANGED store /\ pc = "split" /\ pc' = pc /\ rows' = rows /\ pos' = pos /\ MustSplit
  BY DEF CInv, SplitQuery
<1>2. PICK b \in Bits :
        /\ SplitBit(queryHead, b)
        /\ queue' = <<LowerHalf(queryHead, b), UpperHalf(queryHead, b)>> \o Tail(queue)
  BY DEF SplitQuery
<1>3. /\ queue # << >> /\ 1 \in DOMAIN queue /\ queryHead = queue[1] /\ queryHead \in SubQuery
      /\ Agree(queryHead) /\ Unsigned(queryHead.low) /\ Unsigned(queryHead.high)
      /\ queue \in Seq(SubQuery)
  BY <1>1, HeadFacts DEF Searching, queryHead, IInv, TypeOK
<1>4. Less(queryHead.low, queryHead.high)
  BY <1>1, MustSplitFacts
<1>5. TopBit(queryHead, b)
  BY <1>2, <1>3, <1>4, SplitBitIsTop
<1> DEFINE s == LowerHalf(queryHead, b)
           r == UpperHalf(queryHead, b)
<1>6. s \in SubQuery /\ r \in SubQuery
  BY <1>2, <1>3, <1>4, Halves
<1>7. InBox(queryHead, queryHead.low) =>
        InBox(s, s.low) /\ InBox(r, r.low)
  BY <1>3, <1>5, HalvesProper
<1>8. \A k \in SmallKeys : InBox(queryHead, k) => InBox(s, k) \/ InBox(r, k)
  BY <1>3, <1>5, BoxSplit DEF Unsigned
<1>9. queue' = <<s, r>> \o Tail(queue)
  BY <1>2
<1> HIDE DEF s, r
<1>10. /\ queue'[1] = s /\ queue'[2] = r /\ 1 \in DOMAIN queue' /\ 2 \in DOMAIN queue'
       /\ \A n \in DOMAIN queue' :
            n \in Nat /\ n > 0 /\ (n > 2 => n - 1 \in DOMAIN queue /\ queue'[n] = queue[n - 1])
       /\ \A n \in DOMAIN queue : n = 1 \/ (n + 1 \in DOMAIN queue' /\ queue'[n + 1] = queue[n])
  BY <1>3, <1>6, <1>9, PushTwo
<1>11. /\ Wanted' = Wanted /\ index' = index
       /\ \A j \in Wanted : j \in Entries /\ j \in Nat /\ KeyOf(j) \in Key
  BY <1>1, WantedKept
<1>12. ProperInv'
  <2> SUFFICES ASSUME Wanted # {}, NEW n \in DOMAIN queue' PROVE InBox(queue'[n], queue'[n].low)
    BY <1>11 DEF ProperInv
  <2>1. \A m \in DOMAIN queue : InBox(queue[m], queue[m].low)
    BY DEF CInv, ProperInv
  <2>2. n = 1 \/ n = 2 \/ n > 2
    BY <1>10
  <2> QED BY <1>3, <1>7, <1>10, <2>1, <2>2
<1>13. ReachInv'
  BY <1>1 DEF ReachInv, Placed
<1>14. CoverInv'
  <2> SUFFICES ASSUME NEW j \in Wanted, ~ Returned(j)
               PROVE  \E n \in DOMAIN queue' : InBox(queue'[n], index'[j].bits) /\ (n = 1 => j >= pos')
    BY <1>1, <1>11 DEF CoverInv, KeyOf, Returned, Placed
  <2>1. PICK n \in DOMAIN queue : Ahead(j, n)
    BY <1>1, CoverByAhead DEF CInv
  <2>2. CASE n = 1
    <3>1. j >= pos /\ (InBox(s, KeyOf(j)) \/ InBox(r, KeyOf(j)))
      <4>1. KeyOf(j) \in SmallKeys
        BY <1>1, <1>11 DEF IInv, IndexInv, Unsigned
      <4> QED BY <1>1, <1>3, <1>8, <2>1, <2>2, <4>1 DEF Ahead, Searching
    <3> QED BY <1>1, <1>10, <1>11, <3>1 DEF KeyOf
  <2>3. CASE n # 1
    <3>1. n + 1 \in DOMAIN queue' /\ queue'[n + 1] = queue[n]
      BY <1>10, <2>3
    <3>2. n + 1 # 1
      BY <1>3, <2>1, <2>3, QueueFacts, <1>1 DEF IInv
    <3> QED BY <1>11, <2>1, <3>1, <3>2 DEF Ahead, KeyOf
  <2> QED BY <2>2, <2>3
<1> QED BY <1>12, <1>13, <1>14

\* An entry of the head's box comes before any entry above the head's high key.
LEMMA BeforeHigher ==
  ASSUME SmallPoints, IInv, NEW i \in Entries, Less(queryHead.high, KeyOf(i)),
         NEW j \in Wanted, Ahead(j, 1)
  PROVE  j < i
<1>1. j \in Entries /\ KeyOf(j) \in Key /\ KeyOf(i) \in Key
  BY EntryFacts DEF Wanted, IInv
<1>2. LessEq(KeyOf(j), queryHead.high) /\ queryHead.high \in Key
  BY <1>1, BoxOfEntry DEF Ahead, queryHead
<1>3. Less(KeyOf(j), KeyOf(i))
  BY <1>1, <1>2, LessEqLess
<1> QED BY <1>1, <1>3, EntryOrder

LEMMA AheadWhere ==
  ASSUME IInv, NEW j \in Wanted, Ahead(j, 1)
  PROVE  /\ j \in Entries /\ j \in Nat /\ pos \in Nat /\ InBox(queryHead, KeyOf(j))
         /\ pc = "match" => j >= pos
         /\ pc = "next" => j >= pos + 1
<1>1. j \in Entries /\ j \in Nat /\ pos \in Nat
  BY EntryFacts DEF IInv, TypeOK, Wanted
<1> QED BY <1>1 DEF Ahead, Searching, Placed, queryHead

LEMMA RawAbove ==
  ASSUME SmallPoints, IInv, pc \in {"match", "next"}, NEW i \in Entries
  PROVE  /\ RawMatches(i) => LessEq(KeyOf(i), queryHead.high)
         /\ ~ RawMatches(i) => Less(queryHead.high, KeyOf(i))
<1>1. Unsigned(queryHead.high)
  BY HeadFacts DEF Searching, Placed
<1> QED BY <1>1, EntryCompares DEF RawMatches, LessEq

LEMMA MatchSolidCover ==
  ASSUME SmallPoints, CInv, MatchSolid
  PROVE  (ProperInv /\ ReachInv /\ CoverInv)'
<1>1. IInv /\ pc = "match" /\ pos' = pos /\ UNCHANGED store /\ pos \in Entries
  BY HeadFacts DEF CInv, MatchSolid, Searching
<1>2. CASE RawMatches(pos)
  <2>1. ReturnRow(pos, coords) /\ LessEq(KeyOf(pos), queryHead.high)
    BY <1>1, <1>2, RawAbove DEF MatchSolid
  <2>2. \A j \in Wanted : Ahead(j, 1) => j >= pos
    BY <1>1, AheadWhere
  <2> QED BY <1>1, <2>1, <2>2, ReturnCover
<1>3. CASE ~ RawMatches(pos)
  <2>1. releaseSubQuery /\ Less(queryHead.high, KeyOf(pos))
    BY <1>1, <1>3, RawAbove DEF MatchSolid
  <2>2. ASSUME NEW j \in Wanted, Ahead(j, 1) PROVE FALSE
    <3>1. j < pos /\ j >= pos /\ j \in Nat /\ pos \in Nat
      BY <1>1, <2>1, <2>2, BeforeHigher, AheadWhere
    <3> QED BY <3>1
  <2> QED BY <1>1, <2>1, <2>2, ReleaseCover
<1> QED BY <1>2, <1>3

LEMMA CursorKey ==
  ASSUME SmallPoints, IInv, pc \in {"match", "next"}, ~ queryHead.solid
  PROVE  /\ currentKey = KeyOf(pos) /\ pos \in Entries /\ KeyOf(pos) \in Key
         /\ queryHead.high \in Key
         /\ bitKey_cmp(currentKey, queryHead.high) <= 0 <=> LessEq(KeyOf(pos), queryHead.high)
         /\ bitKey_cmp(currentKey, queryHead.high) > 0 <=> Less(queryHead.high, KeyOf(pos))
         /\ KeyMatches <=> InBox(queryHead, KeyOf(pos))
<1>1. pos \in Entries /\ Unsigned(queryHead.high)
  BY HeadFacts DEF Searching, Placed
<1>2. Unsigned(KeyOf(pos)) /\ currentKey = KeyOf(pos)
  BY <1>1 DEF IInv, IndexInv, CursorInv, Searching, Placed
<1> QED BY <1>1, <1>2, CompareSmall DEF KeyMatches, InBox

LEMMA MatchKeyCover ==
  ASSUME SmallPoints, CInv, MatchKey
  PROVE  (ProperInv /\ ReachInv /\ CoverInv)'
<1>1. /\ IInv /\ pc = "match" /\ pos' = pos /\ UNCHANGED store /\ ~ queryHead.solid
      /\ bitKey_cmp(currentKey, queryHead.high) <= 0
      /\ ReturnRow(pos, bitKey_toCoords(currentKey))
  BY DEF CInv, MatchKey
<1>2. pos \in Entries /\ LessEq(KeyOf(pos), queryHead.high)
  BY <1>1, CursorKey
<1>3. \A j \in Wanted : Ahead(j, 1) => j >= pos
  BY <1>1, AheadWhere
<1> QED BY <1>1, <1>2, <1>3, ReturnCover

LEMMA MatchSkipsCover ==
  ASSUME SmallPoints, CInv, MatchSkips
  PROVE  (ProperInv /\ ReachInv /\ CoverInv)'
<1>1. /\ IInv /\ pc = "match" /\ UNCHANGED store /\ ~ queryHead.solid /\ ~ KeyMatches
      /\ checkNextPage /\ zcurve_scan_move_next(FALSE) /\ Continue(pc)
  BY DEF CInv, MatchSkips
<1>2. ~ InBox(queryHead, KeyOf(pos))
  BY <1>1, CursorKey
<1>3. pos + 1 \in Entries /\ pos' = pos + 1
  BY <1>1, Advance
<1> QED BY <1>1, <1>2, <1>3, WalkCover

\* Where checkNextPage says no, the head has nothing on the next page.
LEMMA PageEnds ==
  ASSUME SmallPoints, IInv, pc \in {"match", "next"}, ~ queryHead.solid, ~ checkNextPage,
         NEW j \in Wanted, Ahead(j, 1)
  PROVE  ~ j >= pos + 1
<1>1. /\ j \in Entries /\ j \in Nat /\ pos \in Nat /\ pos \in pageEnds /\ queryHead.high \in Key
      /\ Len(index) \in Nat /\ Entries = 1 .. Len(index)
  BY AheadWhere, CursorKey, EntryFacts DEF checkNextPage, IInv
<1>2. CASE pos + 1 \notin Entries
  BY <1>1, <1>2
<1>3. CASE pos + 1 \in Entries
  <2>1. /\ Unsigned(KeyOf(pos + 1)) /\ bitKey_fromLong(index[pos + 1]) = KeyOf(pos + 1)
        /\ Unsigned(queryHead.high)
    BY <1>3, HeadFacts DEF IInv, IndexInv, Searching, Placed
  <2>2. ~ bitKey_cmp(KeyOf(pos + 1), queryHead.high) <= 0
    BY <1>1, <1>3, <2>1 DEF checkNextPage
  <2>3. Less(queryHead.high, KeyOf(pos + 1))
    BY <1>1, <2>1, <2>2, CompareSmall DEF LessEq
  <2>4. j < pos + 1
    BY <1>3, <2>3, BeforeHigher
  <2> QED BY <1>1, <2>4
<1> QED BY <1>2, <1>3

LEMMA MatchExhaustedCover ==
  ASSUME SmallPoints, CInv, MatchExhausted
  PROVE  (ProperInv /\ ReachInv /\ CoverInv)'
<1>1. /\ IInv /\ pc = "match" /\ UNCHANGED store /\ ~ queryHead.solid /\ releaseSubQuery
      /\ \/ bitKey_cmp(currentKey, queryHead.high) > 0
         \/ ~ KeyMatches /\ ~ checkNextPage
  BY DEF CInv, MatchExhausted
<1>2. ASSUME NEW j \in Wanted, Ahead(j, 1) PROVE FALSE
  <2>1. j >= pos /\ j \in Nat /\ pos \in Nat /\ InBox(queryHead, KeyOf(j))
    BY <1>1, <1>2, AheadWhere
  <2>2. CASE bitKey_cmp(currentKey, queryHead.high) > 0
    <3>1. j < pos
      BY <1>1, <1>2, <2>2, CursorKey, BeforeHigher
    <3> QED BY <2>1, <3>1
  <2>3. CASE ~ KeyMatches /\ ~ checkNextPage
    <3>1. j # pos
      BY <1>1, <2>1, <2>3, CursorKey
    <3>2. ~ j >= pos + 1
      BY <1>1, <1>2, <2>3, PageEnds
    <3> QED BY <2>1, <3>1, <3>2
  <2> QED BY <1>1, <2>2, <2>3
<1> QED BY <1>1, <1>2, ReleaseCover

LEMMA NextFailsCover ==
  ASSUME SmallPoints, CInv, NextFails
  PROVE  (ProperInv /\ ReachInv /\ CoverInv)'
<1>1. /\ IInv /\ pc = "next" /\ UNCHANGED store /\ pos + 1 \notin Entries
      /\ queue' = << >> /\ pc' = "done" /\ rows' = rows
  BY DEF CInv, NextFails, closeQuery
<1>2. /\ pos \in Entries /\ LessEq(KeyOf(pos), queryHead.high) /\ KeyOf(pos) \in Key
      /\ queryHead.high \in Key
      /\ Len(index) \in Nat /\ Entries = 1 .. Len(index)
  BY <1>1, HeadFacts, EntryFacts DEF Placed, CInv, ReachInv, IInv
<1>3. ASSUME NEW i \in Wanted, NEW n \in DOMAIN queue, Ahead(i, n) PROVE FALSE
  <2>1. i \in Entries /\ i \in Nat
    BY <1>1, WantedKept
  <2>2. CASE n = 1
    <3>1. i >= pos + 1
      BY <1>1, <1>3, <2>2, AheadWhere
    <3> QED BY <1>1, <1>2, <2>1, <3>1
  <2>3. CASE n # 1
    <3>1. Less(queryHead.high, KeyOf(i)) /\ KeyOf(i) \in Key
      BY <1>1, <1>3, <2>1, <2>3, BoxOfEntry DEF Ahead
    <3>2. Less(KeyOf(pos), KeyOf(i))
      BY <1>2, <3>1, LessEqLess
    <3>3. pos < i
      BY <1>1, <1>2, <2>1, <3>2, EntryOrder
    <3> QED BY <1>1, <1>2, <2>1, <3>3
  <2> QED BY <2>2, <2>3
<1> QED BY <1>1, <1>3, CloseCover

LEMMA NextSolidCover ==
  ASSUME SmallPoints, CInv, NextSolid
  PROVE  (ProperInv /\ ReachInv /\ CoverInv)'
<1>1. /\ IInv /\ pc = "next" /\ UNCHANGED store /\ pos + 1 \in Entries /\ pos' = pos + 1
  BY DEF CInv, NextSolid, zcurve_scan_move_next, ToPage
<1>2. CASE RawMatches(pos + 1)
  <2>1. ReturnRow(pos + 1, coords) /\ LessEq(KeyOf(pos + 1), queryHead.high)
    BY <1>1, <1>2, RawAbove DEF NextSolid
  <2>2. \A j \in Wanted : Ahead(j, 1) => j >= pos + 1
    BY <1>1, AheadWhere
  <2> QED BY <1>1, <2>1, <2>2, ReturnCover
<1>3. CASE ~ RawMatches(pos + 1)
  <2>1. releaseSubQuery /\ Less(queryHead.high, KeyOf(pos + 1))
    BY <1>1, <1>3, RawAbove DEF NextSolid
  <2>2. ASSUME NEW j \in Wanted, Ahead(j, 1) PROVE FALSE
    <3>1. j < pos + 1 /\ j >= pos + 1 /\ j \in Nat /\ pos \in Nat
      BY <1>1, <2>1, <2>2, BeforeHigher, AheadWhere
    <3> QED BY <3>1
  <2> QED BY <1>1, <2>1, <2>2, ReleaseCover
<1> QED BY <1>2, <1>3

LEMMA NextPageExhaustedCover ==
  ASSUME SmallPoints, CInv, NextPageExhausted
  PROVE  (ProperInv /\ ReachInv /\ CoverInv)'
<1>1. /\ IInv /\ pc = "next" /\ UNCHANGED store /\ ~ queryHead.solid /\ releaseSubQuery
      /\ ~ checkNextPage
  BY DEF CInv, NextPageExhausted
<1>2. ASSUME NEW j \in Wanted, Ahead(j, 1) PROVE FALSE
  BY <1>1, <1>2, AheadWhere, PageEnds
<1> QED BY <1>1, <1>2, ReleaseCover

LEMMA NextKeyCover ==
  ASSUME SmallPoints, CInv, NextKey
  PROVE  (ProperInv /\ ReachInv /\ CoverInv)'
<1>1. /\ IInv /\ pc = "next" /\ UNCHANGED store /\ ~ queryHead.solid
      /\ checkNextPage /\ zcurve_scan_move_next(FALSE)
  BY DEF CInv, NextKey
<1>2. pos + 1 \in Entries /\ pos' = pos + 1 /\ currentKey' = KeyOf(pos + 1)
  BY <1>1, Advance
<1>3. /\ KeyOf(pos + 1) \in Key /\ queryHead.high \in Key
      /\ bitKey_cmp(currentKey', queryHead.high) > 0 <=> Less(queryHead.high, KeyOf(pos + 1))
  <2>1. Unsigned(KeyOf(pos + 1)) /\ Unsigned(queryHead.high)
    BY <1>1, <1>2, HeadFacts DEF IInv, IndexInv, Placed
  <2> QED BY <1>2, <2>1, CompareSmall
<1>4. CASE Less(queryHead.high, KeyOf(pos + 1))
  <2>1. releaseSubQuery
    BY <1>3, <1>4 DEF NextKey
  <2>2. ASSUME NEW j \in Wanted, Ahead(j, 1) PROVE FALSE
    <3>1. j < pos + 1 /\ j >= pos + 1 /\ j \in Nat /\ pos \in Nat
      BY <1>1, <1>2, <1>4, <2>2, BeforeHigher, AheadWhere
    <3> QED BY <3>1
  <2> QED BY <1>1, <2>1, <2>2, ReleaseCover
<1>5. CASE LessEq(KeyOf(pos + 1), queryHead.high) /\ InBox(queryHead, KeyOf(pos + 1))
  <2>1. ReturnRow(pos + 1, bitKey_toCoords(currentKey'))
    BY <1>2, <1>3, <1>5 DEF NextKey, InBox, LessEq
  <2>2. \A j \in Wanted : Ahead(j, 1) => j >= pos + 1
    BY <1>1, AheadWhere
  <2> QED BY <1>1, <1>2, <1>5, <2>1, <2>2, ReturnCover
<1>6. CASE LessEq(KeyOf(pos + 1), queryHead.high) /\ ~ InBox(queryHead, KeyOf(pos + 1))
  <2>1. Continue(pc)
    BY <1>1, <1>2, <1>3, <1>6 DEF NextKey, InBox, LessEq
  <2> QED BY <1>1, <1>2, <1>6, <2>1, WalkCover
<1> QED BY <1>4, <1>5, <1>6 DEF LessEq

LEMMA IdleCover ==
  ASSUME CInv, \/ SplitDone \/ MoveNext \/ UNCHANGED vars
  PROVE  (ProperInv /\ ReachInv /\ CoverInv)'
<1>1. /\ IInv /\ UNCHANGED store /\ queue' = queue /\ rows' = rows /\ pos' = pos
      /\ pc' \in Searching => pc \in Searching
      /\ pc' \in Placed => pc \in Placed
      /\ pc' = "done" => pc = "done"
      /\ pc = "start" => pc' = "start"
  BY DEF CInv, SplitDone, MoveNext, Continue, vars, store, Searching, Placed, IInv, CursorInv
<1>2. Wanted' = Wanted /\ index' = index
  BY <1>1, WantedKept
<1>3. ProperInv' /\ ReachInv'
  BY <1>1, <1>2 DEF CInv, ProperInv, ReachInv, queryHead, KeyOf
<1>4. CoverInv'
  BY <1>1, <1>2 DEF CInv, CoverInv, Returned, KeyOf
<1> QED BY <1>3, <1>4

----------------------------------------------------------------------------
\* What a step does to the history of rows.
LEMMA StepKinds ==
  ASSUME SmallPoints, IInv, [Next]_vars
  PROVE  /\ UNCHANGED store
         /\ \/ rows' = rows
            \/ /\ pc' = "row" /\ pc # "done"
               /\ \E row : rows' = Append(rows, row)
         /\ pc = "done" => rows' = rows /\ pc' = "done"
<1>1. CASE UNCHANGED vars
  BY <1>1 DEF vars, store
<1>2. CASE MoveFirst \/ MoveNext \/ FindStep \/ SplitStep
  BY <1>2 DEF MoveFirst, MoveNext, Continue, FindStep, QueryFind, QueryFindFails, QueueEmpty,
              closeQuery, SplitStep, SplitQuery, SplitDone
<1>3. CASE MatchStep
  BY <1>3 DEF MatchStep, MatchSolid, MatchKey, MatchSkips, MatchExhausted, ReturnRow,
              releaseSubQuery, Continue
<1>4. CASE NextStep
  BY <1>4 DEF NextStep, NextFails, NextSolid, NextPageExhausted, NextKey, ReturnRow,
              releaseSubQuery, Continue, closeQuery
<1>5. ~ SplitRunsAway
  BY NeverRunsAway
<1> QED BY <1>1, <1>2, <1>3, <1>4, <1>5 DEF Next, Run

\* Exactness: no box ever grows beyond the extent.
LEMMA StoreSame == ASSUME SmallPoints, IInv, [Next]_vars PROVE UNCHANGED store
BY StepKinds

LEMMA WithinByQueue ==
  ASSUME WithinInv, extent' = extent,
         \A n \in DOMAIN queue' : \E m \in DOMAIN queue :
           \A k \in SmallKeys : InBox(queue'[n], k) => InBox(queue[m], k)
  PROVE  WithinInv'
BY DEF WithinInv, InExtent

LEMMA MoveFirstWithin ==
  ASSUME SmallPoints, CInv, MoveFirst
  PROVE  WithinInv'
<1>1. /\ extent.min \in Points /\ extent.max \in Points /\ extent \in [min : Point, max : Point]
      /\ extent' = extent
  BY QueryAssumption DEF CInv, IInv, IndexInv, TypeOK, MoveFirst, store
<1> DEFINE low == KeyOfPoint(extent.min)
           high == KeyOfPoint(extent.max)
           q == NewSubQuery(low, high, KeyBits - 1)
<1>2. Unsigned(low) /\ Unsigned(high) /\ queue' = <<q>>
  BY <1>1, ExtentKeys DEF MoveFirst
<1>3. q.low = low /\ q.high = high
  BY DEF NewSubQuery
<1> HIDE DEF q
<1>4. ASSUME NEW k \in SmallKeys, InBox(q, k) PROVE InExtent(bitKey_toCoords(k))
  <2>1. Inside(k, low, high) /\ k \in Key
    BY <1>2, <1>3, <1>4, InBoxInside, UnsignedKey DEF Unsigned
  <2> QED BY <1>1, <1>2, <2>1, BoxIsExtent
<1>5. DOMAIN queue' = {1} /\ queue'[1] = q
  BY <1>2
<1> QED BY <1>1, <1>4, <1>5 DEF WithinInv, InExtent

LEMMA SplitQueryWithin ==
  ASSUME SmallPoints, CInv, SplitQuery
  PROVE  WithinInv'
<1>1. IInv /\ extent' = extent /\ pc = "split" /\ MustSplit /\ WithinInv
  BY DEF CInv, SplitQuery, store
<1>2. PICK b \in Bits :
        /\ SplitBit(queryHead, b)
        /\ queue' = <<LowerHalf(queryHead, b), UpperHalf(queryHead, b)>> \o Tail(queue)
  BY DEF SplitQuery
<1>3. /\ queue # << >> /\ 1 \in DOMAIN queue /\ queryHead = queue[1] /\ queryHead \in SubQuery
      /\ Agree(queryHead) /\ Unsigned(queryHead.low) /\ Unsigned(queryHead.high)
      /\ queue \in Seq(SubQuery)
  BY <1>1, HeadFacts DEF Searching, queryHead, IInv, TypeOK
<1>4. Less(queryHead.low, queryHead.high)
  BY <1>1, MustSplitFacts
<1>5. TopBit(queryHead, b)
  BY <1>2, <1>3, <1>4, SplitBitIsTop
<1> DEFINE s == LowerHalf(queryHead, b)
           r == UpperHalf(queryHead, b)
<1>6. s \in SubQuery /\ r \in SubQuery
  BY <1>2, <1>3, <1>4, Halves
<1>7. \A k \in SmallKeys : InBox(s, k) \/ InBox(r, k) => InBox(queryHead, k)
  BY <1>3, <1>5, HalvesWithin DEF Unsigned
<1>8. queue' = <<s, r>> \o Tail(queue)
  BY <1>2
<1> HIDE DEF s, r
<1>9. /\ queue'[1] = s /\ queue'[2] = r
      /\ \A n \in DOMAIN queue' :
           n \in Nat /\ n > 0 /\ (n > 2 => n - 1 \in DOMAIN queue /\ queue'[n] = queue[n - 1])
  BY <1>3, <1>6, <1>8, PushTwo
<1>10. ASSUME NEW n \in DOMAIN queue'
       PROVE  \E m \in DOMAIN queue : \A k \in SmallKeys : InBox(queue'[n], k) => InBox(queue[m], k)
  <2>1. n = 1 \/ n = 2 \/ n > 2
    BY <1>9
  <2>2. CASE n = 1 \/ n = 2
    BY <1>3, <1>7, <1>9, <2>2
  <2>3. CASE n > 2
    BY <1>9, <2>3
  <2> QED BY <2>1, <2>2, <2>3
<1> QED BY <1>1, <1>10, WithinByQueue

\* What a step does to the queue.
LEMMA QueueKinds ==
  ASSUME SmallPoints, IInv, [Next]_vars
  PROVE  \/ MoveFirst \/ SplitQuery \/ queue' = queue \/ queue' = << >>
         \/ queue # << >> /\ queue' = Tail(queue)
<1>1. CASE UNCHANGED vars \/ MoveNext \/ QueryFind \/ QueryFindFails \/ QueueEmpty \/ SplitDone
  BY <1>1 DEF vars, MoveNext, Continue, QueryFind, QueryFindFails, QueueEmpty, closeQuery, SplitDone
<1>2. pc \in {"match", "next"} => queue # << >>
  BY DEF IInv, TypeOK
<1>3. CASE MatchStep
  BY <1>2, <1>3 DEF MatchStep, MatchSolid, MatchKey, MatchSkips, MatchExhausted, ReturnRow,
              releaseSubQuery, Continue
<1>4. CASE NextStep
  BY <1>2, <1>4 DEF NextStep, NextFails, NextSolid, NextPageExhausted, NextKey, ReturnRow,
              releaseSubQuery, Continue, closeQuery
<1>5. ~ SplitRunsAway
  BY NeverRunsAway
<1> QED BY <1>1, <1>3, <1>4, <1>5 DEF Next, Run, FindStep, SplitStep

LEMMA NextWithin ==
  ASSUME SmallPoints, CInv, [Next]_vars
  PROVE  WithinInv'
<1>1. IInv /\ extent' = extent /\ WithinInv /\ queue \in Seq(SubQuery)
  BY StoreSame DEF CInv, IInv, TypeOK, store
<1>2. CASE MoveFirst
  BY <1>2, MoveFirstWithin
<1>3. CASE SplitQuery
  BY <1>3, SplitQueryWithin
<1>4. CASE queue' = queue
  BY <1>1, <1>4 DEF WithinInv, InExtent
<1>5. CASE queue' = << >>
  BY <1>5 DEF WithinInv
<1>6. CASE queue # << >> /\ queue' = Tail(queue)
  <2>1. \A n \in DOMAIN queue' : n + 1 \in DOMAIN queue /\ queue'[n] = queue[n + 1]
    BY <1>1, <1>6, Pop
  <2> QED BY <1>1, <2>1, WithinByQueue
<1> QED BY <1>1, <1>2, <1>3, <1>4, <1>5, <1>6, QueueKinds

\* What a row decoded from the cursor's key says is what the index holds, and
\* the key was found inside the box of the head.
LEMMA EntryExact ==
  ASSUME SmallPoints, CInv, NEW i \in Entries, queue # << >>, InBox(queryHead, KeyOf(i))
  PROVE  i \in Wanted /\ bitKey_toCoords(KeyOf(i)) = PointOf(i)
<1>1. KeyOf(i) \in SmallKeys /\ index[i].neg = FALSE /\ 1 \in DOMAIN queue
  BY QueueFacts DEF CInv, IInv, IndexInv, Unsigned
<1>2. PointOf(i) = bitKey_toCoords(KeyOf(i))
  BY <1>1 DEF PointOf, KeyOf
<1>3. InExtent(bitKey_toCoords(KeyOf(i)))
  BY <1>1 DEF CInv, WithinInv, queryHead
<1> QED BY <1>2, <1>3 DEF Wanted

\* What testRawKey lets through.
RawHit(i) ==
  /\ pc \in {"match", "next"} /\ queue # << >> /\ queryHead.solid
  /\ i \in Entries /\ LessEq(queryHead.low, KeyOf(i)) /\ RawMatches(i)

\* A row that is raw, and one that checkKey has decoded.
Hit(row) ==
  IF row.raw THEN RawHit(row.tid)
  ELSE row.tid \in Wanted /\ row.coords = PointOf(row.tid)

LEMMA RowStep ==
  ASSUME SmallPoints, CInv, [Next]_vars
  PROVE  rows' = rows \/ \E row : rows' = Append(rows, row) /\ Hit(row)
<1>1. IInv
  BY DEF CInv
<1>2. CASE UNCHANGED vars \/ MoveFirst \/ MoveNext \/ FindStep \/ SplitStep
  BY <1>2 DEF vars, MoveFirst, MoveNext, Continue, FindStep, QueryFind, QueryFindFails, QueueEmpty,
              closeQuery, SplitStep, SplitQuery, SplitDone
<1>3. CASE MatchSolid \/ NextSolid
  <2>1. ASSUME NEW i, NEW xy, ReturnRow(i, xy), RawHit(i)
        PROVE  \E row : rows' = Append(rows, row) /\ Hit(row)
    <3> DEFINE row == [tid |-> i, coords |-> xy, raw |-> queryHead.solid]
    <3>1. rows' = Append(rows, row) /\ row.raw /\ row.tid = i
      BY <2>1 DEF ReturnRow, RawHit
    <3> HIDE DEF row
    <3> QED BY <2>1, <3>1 DEF Hit
  <2>2. pc \in {"match", "next"} =>
          /\ queue # << >> /\ pos \in Entries /\ LessEq(queryHead.low, KeyOf(pos))
          /\ pos + 1 \in Entries => LessEq(queryHead.low, KeyOf(pos + 1))
    BY <1>1, HeadFacts, NextEntryAbove DEF Searching, Placed
  <2>3. CASE MatchSolid
    <3>1. rows' = rows \/ (ReturnRow(pos, coords) /\ RawHit(pos))
      BY <2>2, <2>3 DEF MatchSolid, RawHit, releaseSubQuery
    <3> QED BY <2>1, <3>1
  <2>4. CASE NextSolid
    <3>1. rows' = rows \/ (ReturnRow(pos + 1, coords) /\ RawHit(pos + 1))
      BY <2>2, <2>4 DEF NextSolid, RawHit, releaseSubQuery
    <3> QED BY <2>1, <3>1
  <2> QED BY <1>3, <2>3, <2>4
<1>4. CASE MatchSkips \/ MatchExhausted \/ NextFails \/ NextPageExhausted
  BY <1>4 DEF MatchSkips, MatchExhausted, NextFails, NextPageExhausted, Continue, releaseSubQuery,
              closeQuery
<1>5. ASSUME NEW i \in Entries, queue # << >>, InBox(queryHead, KeyOf(i)),
             ReturnRow(i, bitKey_toCoords(KeyOf(i))), ~ queryHead.solid
      PROVE  \E row : rows' = Append(rows, row) /\ Hit(row)
  <2>1. i \in Wanted /\ bitKey_toCoords(KeyOf(i)) = PointOf(i)
    BY <1>5, EntryExact
  <2> DEFINE row == [tid |-> i, coords |-> bitKey_toCoords(KeyOf(i)), raw |-> queryHead.solid]
  <2>2. /\ rows' = Append(rows, row) /\ ~ row.raw
        /\ row.tid = i /\ row.coords = bitKey_toCoords(KeyOf(i))
    BY <1>5 DEF ReturnRow
  <2> HIDE DEF row
  <2> QED BY <2>1, <2>2 DEF Hit
<1>6. CASE MatchKey
  <2>1. /\ pc = "match" /\ ~ queryHead.solid /\ KeyMatches
        /\ ReturnRow(pos, bitKey_toCoords(currentKey)) /\ queue # << >>
    BY <1>1, <1>6 DEF MatchKey, IInv, TypeOK
  <2>2. currentKey = KeyOf(pos) /\ pos \in Entries /\ InBox(queryHead, KeyOf(pos))
    BY <1>1, <2>1, CursorKey
  <2> QED BY <1>5, <2>1, <2>2
<1>7. CASE NextKey
  <2>1. /\ pc = "next" /\ ~ queryHead.solid /\ checkNextPage /\ zcurve_scan_move_next(FALSE)
        /\ queue # << >> /\ UNCHANGED store
    BY <1>1, <1>7 DEF NextKey, IInv, TypeOK
  <2>2. pos + 1 \in Entries /\ currentKey' = KeyOf(pos + 1)
    BY <1>1, <2>1, Advance
  <2>3. \/ rows' = rows
        \/ InBox(queryHead, KeyOf(pos + 1)) /\ ReturnRow(pos + 1, bitKey_toCoords(KeyOf(pos + 1)))
    BY <1>7, <2>2 DEF NextKey, InBox, releaseSubQuery, Continue
  <2> QED BY <1>5, <2>1, <2>2, <2>3
<1>8. ~ SplitRunsAway
  BY <1>1, NeverRunsAway
<1> QED BY <1>2, <1>3, <1>4, <1>6, <1>7, <1>8 DEF Next, Run, MatchStep, NextStep

LEMMA RowsAfter ==
  ASSUME rows \in Seq(Row), NEW row, rows' = Append(rows, row)
  PROVE  \A k \in DOMAIN rows' : (k \in DOMAIN rows /\ rows'[k] = rows[k]) \/ rows'[k] = row
<1>1. Len(rows) \in Nat /\ DOMAIN rows = 1 .. Len(rows)
  BY LenProperties
<1>2. /\ DOMAIN Append(rows, row) = 1 .. Len(rows) + 1
      /\ \A k \in 1 .. Len(rows) : Append(rows, row)[k] = rows[k]
      /\ Append(rows, row)[Len(rows) + 1] = row
  BY AppendProperties, LenProperties
<1> QED BY <1>1, <1>2

LEMMA NextExact ==
  ASSUME SmallPoints, CInv, [Next]_vars
  PROVE  DecodedRowsExact'
<1>1. /\ IInv /\ rows \in Seq(Row) /\ DecodedRowsExact /\ UNCHANGED store
  BY StoreSame DEF CInv, IInv, TypeOK
<1>2. Wanted' = Wanted /\ index' = index
  BY <1>1, WantedKept
<1>3. CASE rows' = rows
  BY <1>1, <1>2, <1>3 DEF DecodedRowsExact, PointOf
<1>4. ASSUME NEW row, rows' = Append(rows, row), Hit(row) PROVE DecodedRowsExact'
  <2>1. \A k \in DOMAIN rows' : (k \in DOMAIN rows /\ rows'[k] = rows[k]) \/ rows'[k] = row
    BY <1>1, <1>4, RowsAfter
  <2>2. ASSUME NEW k \in DOMAIN rows', ~ rows'[k].raw
        PROVE  rows'[k].tid \in Wanted /\ rows'[k].coords = PointOf(rows'[k].tid)
    BY <1>1, <1>4, <2>1, <2>2 DEF DecodedRowsExact, Hit
  <2> QED BY <1>2, <2>2 DEF DecodedRowsExact, PointOf
<1> QED BY <1>3, <1>4, RowStep

----------------------------------------------------------------------------
LEMMA NextCover ==
  ASSUME SmallPoints, CInv, [Next]_vars
  PROVE  CInv'
<1>1. IInv'
  BY NextInv DEF CInv
<1>2. (ProperInv /\ ReachInv /\ CoverInv)'
  <2>1. CASE QueryFind \/ QueryFindFails \/ QueueEmpty
    BY <2>1, QueryFindCover, QueryFindFailsCover, QueueEmptyCover
  <2>2. CASE SplitQuery
    BY <2>2, SplitQueryCover
  <2>3. CASE SplitDone \/ MoveNext \/ UNCHANGED vars
    BY <2>3, IdleCover
  <2>4. CASE MatchSolid \/ MatchKey \/ MatchSkips \/ MatchExhausted
    BY <2>4, MatchSolidCover, MatchKeyCover, MatchSkipsCover, MatchExhaustedCover
  <2>5. CASE NextFails \/ NextSolid \/ NextPageExhausted \/ NextKey
    BY <2>5, NextFailsCover, NextSolidCover, NextPageExhaustedCover, NextKeyCover
  <2>6. CASE MoveFirst
    BY <2>6, MoveFirstCover
  <2>7. ~ SplitRunsAway
    BY NeverRunsAway DEF CInv
  <2> QED BY <2>1, <2>2, <2>3, <2>4, <2>5, <2>6, <2>7
          DEF Next, Run, FindStep, SplitStep, MatchStep, NextStep
<1> QED BY <1>1, <1>2, NextWithin, NextExact DEF CInv

\* Whatever is wanted has been returned or is still ahead.
THEOREM CoverInvariance == ASSUME SmallPoints PROVE Spec => []CInv
<1>1. Init => CInv
  <2>1. Init => WithinInv /\ DecodedRowsExact
    BY DEF Init, WithinInv, DecodedRowsExact
  <2> QED BY <2>1, InitInv, InitCover DEF CInv
<1>2. CInv /\ [Next]_vars => CInv'
  BY NextCover
<1> QED BY <1>1, <1>2, PTL DEF Spec

LEMMA CompleteAtEnd == ASSUME SmallPoints, CInv PROVE Complete
BY DEF CInv, ReachInv, CoverInv, Complete, Returned

\* When a lookup ends, it has returned every row of its extent.
THEOREM LookupComplete == ASSUME SmallPoints PROVE Spec => []Complete
<1>1. CInv => Complete
  BY CompleteAtEnd
<1> QED BY <1>1, CoverInvariance, PTL

LEMMA SkipsNothing ==
  ASSUME SmallPoints, CInv
  PROVE  PrefixReturned
<1> SUFFICES ASSUME pc = "row", NEW k \in DOMAIN rows, NEW j \in Wanted, j < rows[k].tid,
                    ~ Returned(j)
             PROVE  FALSE
  BY DEF PrefixReturned
<1>1. IInv /\ j \in Entries /\ j \in Nat /\ KeyOf(j) \in Key /\ pos \in Nat
  BY EntryFacts DEF CInv, IInv, Wanted, TypeOK
<1>2. rows[k].tid \in Entries /\ rows[k].tid \in Nat /\ rows[k].tid <= pos
  BY <1>1, EntryFacts DEF IInv, RowsInv, Placed
<1>3. PICK n \in DOMAIN queue : Ahead(j, n)
  BY CoverByAhead DEF CInv
<1>4. CASE n = 1
  BY <1>1, <1>2, <1>3, <1>4 DEF Ahead, Placed
<1>5. CASE n # 1
  <2>1. Less(KeyOf(rows[k].tid), queue[n].low) /\ KeyOf(rows[k].tid) \in Key
    <3>1. n > 1
      BY <1>1, <1>3, <1>5, QueueFacts DEF IInv
    <3> QED BY <1>1, <1>2, <3>1, EntryFacts DEF IInv, RowsInv
  <2>2. LessEq(queue[n].low, KeyOf(j)) /\ queue[n].low \in Key
    BY <1>1, <1>3, BoxOfEntry DEF Ahead
  <2>3. Less(KeyOf(rows[k].tid), KeyOf(j))
    BY <1>1, <2>1, <2>2, LessLessEq
  <2> QED BY <1>1, <1>2, <2>3, EntryOrder
<1> QED BY <1>4, <1>5

\* When a call returns a row, every row of the extent before it in index order
\* has been returned: the queue and the splits leave no gap behind the cursor.
THEOREM RowsWithoutGaps == ASSUME SmallPoints PROVE Spec => []PrefixReturned
<1>1. CInv => PrefixReturned
  BY SkipsNothing
<1> QED BY <1>1, CoverInvariance, PTL

\* A row that checkKey has decoded lies in the extent and is returned with its
\* own coordinates.
THEOREM DecodedRowsAreExact == ASSUME SmallPoints PROVE Spec => []DecodedRowsExact
<1>1. CInv => DecodedRowsExact
  BY DEF CInv
<1> QED BY <1>1, CoverInvariance, PTL

----------------------------------------------------------------------------
\* The automaton implements the abstract scan.
LEMMA TidsSeq ==
  ASSUME NEW s \in Seq(Row)
  PROVE  /\ Tids(s) \in Seq(Nat) /\ Len(Tids(s)) = Len(s) /\ Len(s) \in Nat
         /\ DOMAIN s = 1 .. Len(s) /\ \A k \in 1 .. Len(s) : Tids(s)[k] = s[k].tid
         /\ Tids(s) = << >> <=> s = << >>
         /\ s # << >> => Len(s) \in DOMAIN s
<1>1. /\ Len(s) \in Nat /\ DOMAIN s = 1 .. Len(s)
      /\ \A k \in 1 .. Len(s) : s[k] \in Row
  BY LenProperties
<1>2. Tids(s) = [k \in 1 .. Len(s) |-> s[k].tid]
  BY <1>1 DEF Tids
<1>3. Tids(s) \in [1 .. Len(s) -> Nat]
  BY <1>1, <1>2 DEF Row
<1>4. Tids(s) \in Seq(Nat)
  BY <1>1, <1>3, SeqDef
<1>5. Len(Tids(s)) = Len(s)
  BY <1>1, <1>2, <1>4, LenProperties
<1>6. Tids(s) = << >> <=> s = << >>
  BY <1>1, <1>4, <1>5, EmptySeq
<1> QED BY <1>1, <1>2, <1>4, <1>5, <1>6, EmptySeq

LEMMA TidsAppend ==
  ASSUME NEW s \in Seq(Row), NEW row \in Row
  PROVE  Tids(Append(s, row)) = Append(Tids(s), row.tid)
<1>1. /\ Append(s, row) \in Seq(Row) /\ Len(Append(s, row)) = Len(s) + 1
      /\ Append(s, row)[Len(s) + 1] = row
      /\ \A k \in DOMAIN s : Append(s, row)[k] = s[k]
  BY AppendRow
<1>2. /\ Tids(s) \in Seq(Nat) /\ Len(Tids(s)) = Len(s) /\ Len(s) \in Nat /\ row.tid \in Nat
      /\ DOMAIN s = 1 .. Len(s) /\ \A k \in 1 .. Len(s) : Tids(s)[k] = s[k].tid
  BY TidsSeq DEF Row
<1>3. /\ Append(Tids(s), row.tid) \in Seq(Nat)
      /\ Len(Append(Tids(s), row.tid)) = Len(s) + 1
      /\ Append(Tids(s), row.tid)[Len(s) + 1] = row.tid
      /\ \A k \in 1 .. Len(s) : Append(Tids(s), row.tid)[k] = Tids(s)[k]
  <2>1. DOMAIN Tids(s) = 1 .. Len(s)
    BY <1>2, LenProperties
  <2> QED BY <1>2, <2>1, AppendRow
<1>4. /\ Tids(Append(s, row)) \in Seq(Nat) /\ Len(Tids(Append(s, row))) = Len(s) + 1
      /\ \A k \in 1 .. Len(s) + 1 : Tids(Append(s, row))[k] = Append(s, row)[k].tid
  BY <1>1, TidsSeq
<1>5. \A k \in 1 .. Len(s) + 1 : Tids(Append(s, row))[k] = Append(Tids(s), row.tid)[k]
  <2> TAKE k \in 1 .. Len(s) + 1
  <2>1. k \in 1 .. Len(s) \/ k = Len(s) + 1
    BY <1>2
  <2> QED BY <1>1, <1>2, <1>3, <1>4, <2>1
<1> QED BY <1>3, <1>4, <1>5, SeqEqual

LEMMA ScanInit ==
  ASSUME IInv, Init
  PROVE  Covering!Init
<1>1. Len(index) \in Nat /\ Wanted \subseteq 1 .. Len(index)
  BY EntryFacts DEF IInv, Wanted
<1>2. Tids(<< >>) = << >>
  BY TidsSeq, EmptySeq
<1> QED BY <1>1, <1>2 DEF Init, Covering!Init

\* A returned row is a step of the abstract scan that skips nothing wanted.
LEMMA ScanReturn ==
  ASSUME SmallPoints, IInv, IInv', PrefixReturned', UNCHANGED store,
         pc' = "row", pc # "done", NEW row, rows' = Append(rows, row)
  PROVE  row.tid \in 1 .. Len(index) /\ Covering!Return(row.tid)
<1>1. rows \in Seq(Row) /\ rows' \in Seq(Row)
  BY DEF IInv, TypeOK
<1>2. /\ Len(rows) \in Nat /\ DOMAIN rows = 1 .. Len(rows)
      /\ DOMAIN rows' = 1 .. Len(rows')
      /\ \A k \in 1 .. Len(rows') : rows'[k] \in Row
  BY <1>1, LenProperties
<1>3. Len(rows') = Len(rows) + 1 /\ rows'[Len(rows) + 1] = row
      /\ \A k \in 1 .. Len(rows) : rows'[k] = rows[k]
  BY <1>1, <1>2, AppendProperties
<1>4. row \in Row /\ Len(rows) + 1 \in DOMAIN rows'
  BY <1>2, <1>3
<1>5. Tids(rows') = Append(Tids(rows), row.tid)
  BY <1>1, <1>4, TidsAppend
<1>6. /\ Wanted' = Wanted /\ index' = index
      /\ \A j \in Wanted : j \in Entries /\ j \in Nat
  BY WantedKept
<1>7. row.tid \in 1 .. Len(index) /\ row.tid \in Nat
  BY <1>3, <1>4, <1>6, EntryFacts DEF IInv, RowsInv, Entries
<1>8. \A k \in DOMAIN rows : rows[k].tid < row.tid /\ rows[k].tid \in Nat
  BY <1>2, <1>3, <1>4, RowFacts DEF IInv, RowsAscend
<1>9. Covering!Last \in Nat /\ Covering!Last < row.tid
      /\ \A k \in DOMAIN rows : rows[k].tid <= Covering!Last
  <2>1. CASE rows = << >>
    <3>1. Covering!Last = 0
      BY <1>1, <2>1, TidsSeq DEF Covering!Last
    <3>2. DOMAIN rows = {}
      BY <1>2, <2>1
    <3>3. row.tid > 0
      BY <1>6, <1>7, EntryFacts DEF IInv
    <3> QED BY <1>7, <3>1, <3>2, <3>3
  <2>2. CASE rows # << >>
    <3>1. Covering!Last = rows[Len(rows)].tid /\ Len(rows) \in DOMAIN rows
      BY <1>1, <1>2, <2>2, TidsSeq DEF Covering!Last
    <3>2. \A k \in DOMAIN rows : k = Len(rows) \/ k < Len(rows)
      BY <1>2
    <3>3. \A k \in DOMAIN rows : rows[k].tid <= rows[Len(rows)].tid
      BY <1>8, <3>1, <3>2 DEF IInv, RowsAscend
    <3> QED BY <1>8, <3>1, <3>3
  <2> QED BY <2>1, <2>2
<1>10. ASSUME NEW j \in Wanted, Covering!Last < j, j < row.tid PROVE FALSE
  <2>1. PICK k \in DOMAIN rows' : rows'[k].tid = j
    BY <1>3, <1>4, <1>6, <1>10 DEF PrefixReturned, Returned
  <2>2. k \in DOMAIN rows \/ k = Len(rows) + 1
    BY <1>2, <1>3
  <2>3. CASE k \in DOMAIN rows
    <3>1. j <= Covering!Last /\ j \in Nat
      BY <1>2, <1>3, <1>6, <1>9, <2>1, <2>3
    <3> QED BY <1>9, <1>10, <3>1
  <2>4. CASE k = Len(rows) + 1
    BY <1>3, <1>7, <1>10, <2>1, <2>4
  <2> QED BY <2>2, <2>3, <2>4
<1>11. Covering!Return(row.tid)
  BY <1>5, <1>6, <1>9, <1>10 DEF Covering!Return
<1> QED BY <1>7, <1>11

\* The end of a lookup is the end of the scan.
LEMMA ScanFinish ==
  ASSUME SmallPoints, IInv, Complete', UNCHANGED store, rows' = rows, pc' = "done", pc # "done"
  PROVE  Covering!Finish
<1>1. /\ Wanted' = Wanted /\ index' = index
      /\ \A j \in Wanted : j \in Entries /\ j \in Nat
  BY WantedKept
<1>2. rows \in Seq(Row)
  BY DEF IInv, TypeOK
<1>3. ASSUME NEW j \in Wanted PROVE j <= Covering!Last
  <2>1. PICK k \in DOMAIN rows : rows[k].tid = j
    BY <1>1 DEF Complete
  <2>2. Len(rows) \in Nat /\ DOMAIN rows = 1 .. Len(rows) /\ rows # << >>
    BY <1>2, <2>1, LenProperties, EmptySeq
  <2>3. Covering!Last = rows[Len(rows)].tid /\ Len(rows) \in DOMAIN rows
    BY <1>2, <2>2, TidsSeq DEF Covering!Last
  <2>4. rows[k].tid \in Nat /\ rows[Len(rows)].tid \in Nat
    BY <2>1, <2>3, RowFacts DEF IInv
  <2>5. k = Len(rows) \/ k < Len(rows)
    BY <2>1, <2>2
  <2>6. rows[k].tid <= rows[Len(rows)].tid
    BY <2>1, <2>3, <2>4, <2>5 DEF IInv, RowsAscend
  <2> QED BY <2>1, <2>3, <2>6
<1> QED BY <1>1, <1>3 DEF Covering!Finish

\* Seen from outside, a lookup is a scan that returns entries in index order
\* and passes over none of its extent.
THEOREM AutomatonScans == ASSUME SmallPoints PROVE Spec => ImplementsCoveringScan
<1>1. CInv => PrefixReturned /\ Complete /\ IInv
  BY SkipsNothing, CompleteAtEnd DEF CInv
<1>2. Init /\ IInv => Covering!Init
  BY ScanInit
<1>3. /\ IInv /\ IInv' /\ PrefixReturned' /\ Complete' /\ [Next]_vars
      => [Covering!Next]_Covering!vars
  <2> SUFFICES ASSUME IInv, IInv', PrefixReturned', Complete', [Next]_vars
               PROVE  [Covering!Next]_Covering!vars
    OBVIOUS
  <2>1. UNCHANGED store /\ Wanted' = Wanted /\ index' = index
    BY StepKinds, WantedKept
  <2>2. CASE rows' = rows /\ (pc' = "done") = (pc = "done")
    BY <2>1, <2>2 DEF Covering!vars
  <2>3. CASE rows' = rows /\ pc' = "done" /\ pc # "done"
    BY <2>1, <2>3, ScanFinish DEF Covering!Next
  <2>4. CASE pc' = "row" /\ pc # "done" /\ \E row : rows' = Append(rows, row)
    BY <2>1, <2>4, ScanReturn DEF Covering!Next
  <2> QED BY <2>2, <2>3, <2>4, StepKinds
<1> QED BY <1>1, <1>2, <1>3, CoverInvariance, PTL
        DEF Spec, ImplementsCoveringScan, Covering!Spec
----------------------------------------------------------------------------
(* Extents that start at the origin.                                       *)

LEMMA AnchoredKept == ASSUME SmallPoints, IInv, [Next]_vars PROVE Anchored' = Anchored
BY StoreSame DEF Anchored, store

LEMMA NewFilled ==
  ASSUME NEW l, NEW h, Unsigned(l), Unsigned(h), NEW n \in Bits \cup {CurBitMax},
         Aligned(NewSubQuery(l, h, n))
  PROVE  Filled(NewSubQuery(l, h, n))
<1> DEFINE q == NewSubQuery(l, h, n)
<1>1. q \in SubQuery /\ q.low = l /\ q.high = h
  BY NewSubQueryType, UnsignedKey
<1>2. q.solid => testSolidity(q.low, q.high)
  BY DEF NewSubQuery
<1>3. Aligned(q)
  OBVIOUS
<1> HIDE DEF q
<1>4. Filled(q)
  BY <1>1, <1>2, <1>3, SolidBox DEF Filled, Unsigned
<1> QED BY <1>4 DEF q

LEMMA MoveFirstAligned ==
  ASSUME SmallPoints, CInv, Anchored, MoveFirst
  PROVE  \A n \in DOMAIN queue' : Aligned(queue'[n]) /\ Filled(queue'[n])
<1>1. extent.min \in Points /\ extent.max \in Points
  BY QueryAssumption DEF CInv, IInv, IndexInv
<1> DEFINE low == KeyOfPoint(extent.min)
           high == KeyOfPoint(extent.max)
           q == NewSubQuery(low, high, KeyBits - 1)
<1>2. Unsigned(low) /\ Unsigned(high) /\ queue' = <<q>>
  BY <1>1, ExtentKeys DEF MoveFirst
<1>3. q.low = low /\ q.high = high
  BY DEF NewSubQuery
<1>4. low = {}
  BY BitPlaces DEF KeyOfPoint, Anchored
<1>5. Aligned(q)
  BY <1>3, <1>4 DEF Aligned
<1>6. KeyBits - 1 \in Bits \cup {CurBitMax}
  BY KeyBitsRange DEF Bits
<1>7. Filled(q)
  BY <1>2, <1>5, <1>6, NewFilled
<1>8. DOMAIN queue' = {1} /\ queue'[1] = q
  BY <1>2
<1> QED BY <1>5, <1>7, <1>8

LEMMA SplitQueryAligned ==
  ASSUME SmallPoints, CInv, \A n \in DOMAIN queue : Aligned(queue[n]) /\ Filled(queue[n]),
         SplitQuery
  PROVE  \A n \in DOMAIN queue' : Aligned(queue'[n]) /\ Filled(queue'[n])
<1>1. IInv /\ pc = "split" /\ MustSplit
  BY DEF CInv, SplitQuery
<1>2. PICK b \in Bits :
        /\ SplitBit(queryHead, b)
        /\ queue' = <<LowerHalf(queryHead, b), UpperHalf(queryHead, b)>> \o Tail(queue)
  BY DEF SplitQuery
<1>3. /\ queue # << >> /\ 1 \in DOMAIN queue /\ queryHead = queue[1] /\ queryHead \in SubQuery
      /\ Agree(queryHead) /\ Unsigned(queryHead.low) /\ Unsigned(queryHead.high)
      /\ queue \in Seq(SubQuery)
  BY <1>1, HeadFacts DEF Searching, queryHead, IInv, TypeOK
<1>4. Less(queryHead.low, queryHead.high)
  BY <1>1, MustSplitFacts
<1>5. TopBit(queryHead, b)
  BY <1>2, <1>3, <1>4, SplitBitIsTop
<1> DEFINE s == LowerHalf(queryHead, b)
           r == UpperHalf(queryHead, b)
<1>6. s \in SubQuery /\ r \in SubQuery
  BY <1>2, <1>3, <1>4, <1>5, Halves
<1>7. Aligned(s) /\ Aligned(r)
  BY <1>3, <1>5, HalvesAligned
<1>8. Filled(s) /\ Filled(r)
  <2>1. /\ Decrement(b) \in Bits \cup {CurBitMax}
        /\ Unsigned(bitKey_setLowBits(queryHead.high, b))
        /\ Unsigned(bitKey_clearLowBits(queryHead.low, b))
    BY <1>3, <1>5, HalvesUnsigned, DecrementBit
  <2> QED BY <1>3, <1>7, <2>1, NewFilled DEF LowerHalf, UpperHalf
<1>9. queue' = <<s, r>> \o Tail(queue)
  BY <1>2
<1> HIDE DEF s, r
<1>10. /\ queue'[1] = s /\ queue'[2] = r
       /\ \A n \in DOMAIN queue' :
            n \in Nat /\ n > 0 /\ (n > 2 => n - 1 \in DOMAIN queue /\ queue'[n] = queue[n - 1])
  BY <1>3, <1>6, <1>9, PushTwo
<1>11. \A n \in DOMAIN queue' : n = 1 \/ n = 2 \/ n > 2
  BY <1>10
<1> QED BY <1>7, <1>8, <1>10, <1>11

LEMMA NextAligned ==
  ASSUME SmallPoints, CInv, Anchored, \A n \in DOMAIN queue : Aligned(queue[n]) /\ Filled(queue[n]),
         [Next]_vars
  PROVE  \A n \in DOMAIN queue' : Aligned(queue'[n]) /\ Filled(queue'[n])
<1>1. IInv /\ queue \in Seq(SubQuery)
  BY DEF CInv, IInv, TypeOK
<1>2. CASE queue' = queue
  BY <1>2
<1>3. CASE queue' = << >>
  BY <1>3
<1>4. CASE queue # << >> /\ queue' = Tail(queue)
  <2>1. \A n \in DOMAIN queue' : n + 1 \in DOMAIN queue /\ queue'[n] = queue[n + 1]
    BY <1>1, <1>4, Pop
  <2> QED BY <2>1
<1> QED BY <1>1, <1>2, <1>3, <1>4, QueueKinds, MoveFirstAligned, SplitQueryAligned

\* What testRawKey lets through at the head lies in its box.
LEMMA RawExact ==
  ASSUME SmallPoints, CInv, Filled(queryHead),
         NEW i \in Entries, RawHit(i)
  PROVE  i \in Wanted
<1>1. IInv /\ KeyOf(i) \in SmallKeys
  BY DEF CInv, IInv, IndexInv, Unsigned
<1>2. LessEq(KeyOf(i), queryHead.high)
  BY <1>1, RawAbove DEF RawHit
<1>3. InBox(queryHead, KeyOf(i))
  BY <1>1, <1>2 DEF Filled, RawHit
<1> QED BY <1>3, EntryExact DEF RawHit

LEMMA RowWanted ==
  ASSUME SmallPoints, CInv, \A n \in DOMAIN queue : Filled(queue[n]), NEW row, Hit(row)
  PROVE  row.tid \in Wanted
<1>1. CASE row.raw
  <2>1. RawHit(row.tid)
    BY <1>1 DEF Hit
  <2>2. 1 \in DOMAIN queue
    BY <2>1, QueueFacts DEF RawHit, CInv, IInv
  <2>3. Filled(queryHead)
    BY <2>2 DEF queryHead
  <2> QED BY <2>1, <2>3, RawExact DEF RawHit
<1>2. CASE ~ row.raw
  BY <1>2 DEF Hit
<1> QED BY <1>1, <1>2

\* While the boxes are filled, only wanted entries are returned.
LEMMA NextRows ==
  ASSUME SmallPoints, CInv, \A n \in DOMAIN queue : Filled(queue[n]), RowsInExtent, [Next]_vars
  PROVE  RowsInExtent'
<1>1. rows \in Seq(Row) /\ Wanted' = Wanted
  BY StoreSame, WantedKept DEF CInv, IInv, TypeOK
<1>2. CASE rows' = rows
  BY <1>1, <1>2 DEF RowsInExtent
<1>3. ASSUME NEW row, rows' = Append(rows, row), Hit(row) PROVE RowsInExtent'
  <2>1. \A k \in DOMAIN rows' : (k \in DOMAIN rows /\ rows'[k] = rows[k]) \/ rows'[k] = row
    BY <1>1, <1>3, RowsAfter
  <2>2. row.tid \in Wanted
    BY <1>3, RowWanted
  <2>3. \A k \in DOMAIN rows' : rows'[k].tid \in Wanted
    BY <2>1, <2>2 DEF RowsInExtent
  <2> QED BY <1>1, <2>3 DEF RowsInExtent
<1> QED BY <1>2, <1>3, RowStep

\* From the origin the boxes stay aligned, and a solid box is its interval.
THEOREM SolidInvariance == ASSUME SmallPoints PROVE Spec => []XInv
<1>1. Init => SolidInv
  BY DEF Init, SolidInv, RowsInExtent
<1>2. CInv /\ SolidInv /\ [Next]_vars => SolidInv'
  <2> SUFFICES ASSUME CInv, SolidInv, [Next]_vars, Anchored' PROVE SolidInv'
    BY DEF SolidInv
  <2>1. Anchored
    BY AnchoredKept DEF CInv
  <2>2. \A n \in DOMAIN queue' : Aligned(queue'[n]) /\ Filled(queue'[n])
    BY <2>1, NextAligned DEF SolidInv
  <2>3. RowsInExtent'
    BY <2>1, NextRows DEF SolidInv
  <2>4. \A n \in DOMAIN queue' : Aligned(queue[n])' /\ Filled(queue[n])'
    BY <2>2 DEF Aligned, Filled
  <2> QED BY <2>3, <2>4 DEF SolidInv
<1> QED BY <1>1, <1>2, CoverInvariance, PTL DEF Spec, XInv

LEMMA LastRowWanted ==
  ASSUME rows \in Seq(Row), NEW row, rows' = Append(rows, row), RowsInExtent'
  PROVE  row.tid \in Wanted'
<1>1. Len(rows) \in Nat
  BY LenProperties
<1>2. Len(rows) + 1 \in DOMAIN rows' /\ rows'[Len(rows) + 1] = row
  BY <1>1, AppendProperties, LenProperties
<1> QED BY <1>2 DEF RowsInExtent

\* Seen from outside, a lookup that starts at the origin is a scan of its extent
\* and nothing else, although testRawKey never looks at a row's coordinates.
THEOREM AutomatonScansExactly == ASSUME SmallPoints PROVE Spec => ImplementsExactScan
<1>1. XInv => PrefixReturned /\ Complete /\ IInv /\ SolidInv
  BY SkipsNothing, CompleteAtEnd DEF XInv, CInv
<1>2. Init /\ IInv => Exactly!Init
  <2>1. Anchored \in BOOLEAN
    BY DEF Anchored
  <2> QED BY <2>1, ScanInit DEF Covering!Init, Exactly!Init
<1>3. /\ IInv /\ IInv' /\ SolidInv' /\ PrefixReturned' /\ Complete' /\ [Next]_vars
      => [Exactly!Next]_Exactly!vars
  <2> SUFFICES ASSUME IInv, IInv', SolidInv', PrefixReturned', Complete', [Next]_vars
               PROVE  [Exactly!Next]_Exactly!vars
    OBVIOUS
  <2>1. UNCHANGED store /\ Wanted' = Wanted /\ index' = index /\ Anchored' = Anchored
    BY StepKinds, WantedKept, AnchoredKept
  <2>2. CASE rows' = rows /\ (pc' = "done") = (pc = "done")
    BY <2>1, <2>2 DEF Exactly!vars
  <2>3. CASE rows' = rows /\ pc' = "done" /\ pc # "done"
    <3>1. Covering!Finish
      BY <2>1, <2>3, ScanFinish
    <3>2. Exactly!Finish
      BY <2>1, <3>1 DEF Covering!Finish, Exactly!Finish, Covering!Last, Exactly!Last
    <3> QED BY <3>2 DEF Exactly!Next
  <2>4. ASSUME pc' = "row", pc # "done", NEW row, rows' = Append(rows, row)
        PROVE  Exactly!Next
    <3>1. row.tid \in 1 .. Len(index) /\ Covering!Return(row.tid)
      BY <2>1, <2>4, ScanReturn
    <3>2. Anchored => row.tid \in Wanted
      BY <2>1, <2>4, LastRowWanted DEF SolidInv, IInv, TypeOK
    <3>3. Exactly!Return(row.tid)
      BY <2>1, <3>1, <3>2 DEF Covering!Return, Exactly!Return, Covering!Last, Exactly!Last
    <3> QED BY <3>1, <3>3 DEF Exactly!Next
  <2> QED BY <2>2, <2>3, <2>4, StepKinds
<1> QED BY <1>1, <1>2, <1>3, SolidInvariance, CoverInvariance, PTL
        DEF Spec, ImplementsExactScan, Exactly!Spec

====
