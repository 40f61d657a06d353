---- MODULE SpQueryProofs ----
(***************************************************************************)
(* The query automaton of sp_query.c keeps its inductive invariants, for   *)
(* every width of key, every index and every extent: ShapeInv of any       *)
(* points, OnceInv of those whose keys are read back as they were stored,  *)
(* and IInv of those whose keys are small, in two dimensions of those that *)
(* are not negative.                                                       *)
(***************************************************************************)
EXTENDS SubQueryProofs, SequenceTheorems

----------------------------------------------------------------------------
\* Sequences: what popping, pushing two and appending do.
LEMMA Pop ==
  ASSUME NEW S, NEW q \in Seq(S), q # << >>
  PROVE  /\ Tail(q) \in Seq(S) /\ Len(Tail(q)) = Len(q) - 1
         /\ Len(q) \in Nat /\ Len(q) > 0
         /\ \A n \in DOMAIN Tail(q) :
              n \in Nat /\ n > 0 /\ n + 1 \in DOMAIN q /\ Tail(q)[n] = q[n + 1]
         /\ \A n \in DOMAIN q : n = 1 \/ (n - 1 \in DOMAIN Tail(q) /\ Tail(q)[n - 1] = q[n])
<1>1. /\ Tail(q) \in Seq(S) /\ Len(Tail(q)) = Len(q) - 1
      /\ \A i \in 1 .. Len(Tail(q)) : Tail(q)[i] = q[i + 1]
  BY HeadTailProperties
<1>2. Len(q) \in Nat /\ Len(q) > 0
  BY EmptySeq
<1>3. DOMAIN Tail(q) = 1 .. Len(q) - 1 /\ DOMAIN q = 1 .. Len(q)
  BY <1>1, LenProperties
<1>4. ASSUME NEW n \in DOMAIN q, n # 1
      PROVE  n - 1 \in DOMAIN Tail(q) /\ Tail(q)[n - 1] = q[n]
  <2>1. n - 1 \in 1 .. Len(Tail(q)) /\ (n - 1) + 1 = n
    BY <1>1, <1>2, <1>3, <1>4
  <2> QED BY <1>1, <1>3, <2>1
<1> QED BY <1>1, <1>2, <1>3, <1>4

LEMMA PushTwo ==
  ASSUME NEW S, NEW q \in Seq(S), q # << >>, NEW s \in S, NEW r \in S
  PROVE  LET p == <<s, r>> \o Tail(q)
         IN  /\ p \in Seq(S) /\ Len(p) = Len(q) + 1 /\ p # << >>
             /\ p[1] = s /\ p[2] = r
             /\ \A n \in DOMAIN p :
                  n \in Nat /\ n > 0 /\ (n > 2 => n - 1 \in DOMAIN q /\ p[n] = q[n - 1])
             /\ 1 \in DOMAIN p /\ 2 \in DOMAIN p
             /\ \A n \in DOMAIN q : n = 1 \/ (n + 1 \in DOMAIN p /\ p[n + 1] = q[n])
<1> DEFINE p == <<s, r>> \o Tail(q)
<1>1. <<s, r>> \in Seq(S) /\ Len(<<s, r>>) = 2 /\ <<s, r>>[1] = s /\ <<s, r>>[2] = r
  OBVIOUS
<1>2. /\ Tail(q) \in Seq(S) /\ Len(Tail(q)) = Len(q) - 1
      /\ Len(q) \in Nat /\ Len(q) > 0
      /\ \A i \in 1 .. Len(Tail(q)) : Tail(q)[i] = q[i + 1]
  BY HeadTailProperties, EmptySeq
<1>3. /\ p \in Seq(S) /\ Len(p) = 2 + (Len(q) - 1)
      /\ \A i \in 1 .. 2 + (Len(q) - 1) :
           p[i] = IF i <= 2 THEN <<s, r>>[i] ELSE Tail(q)[i - 2]
  BY <1>1, <1>2, ConcatProperties
<1>4. DOMAIN p = 1 .. Len(q) + 1 /\ DOMAIN q = 1 .. Len(q)
  BY <1>2, <1>3, LenProperties
<1> HIDE DEF p
<1>5. p[1] = s /\ p[2] = r
  BY <1>1, <1>2, <1>3
<1>6. ASSUME NEW n \in DOMAIN p, n > 2
      PROVE  n - 1 \in DOMAIN q /\ p[n] = q[n - 1]
  <2>1. n \in 1 .. 2 + (Len(q) - 1) /\ n - 2 \in 1 .. Len(Tail(q))
    BY <1>2, <1>4, <1>6
  <2>2. p[n] = Tail(q)[n - 2]
    BY <1>3, <1>6, <2>1
  <2>3. Tail(q)[n - 2] = q[(n - 2) + 1]
    BY <1>2, <2>1
  <2>4. (n - 2) + 1 = n - 1 /\ n - 1 \in DOMAIN q
    BY <1>2, <1>4, <1>6
  <2> QED BY <2>2, <2>3, <2>4
<1>7. p # << >> /\ Len(p) = Len(q) + 1
  BY <1>2, <1>3
<1>8. ASSUME NEW n \in DOMAIN q, n # 1
      PROVE  n + 1 \in DOMAIN p /\ p[n + 1] = q[n]
  <2>1. n \in Nat /\ n + 1 \in DOMAIN p /\ n + 1 > 2 /\ (n + 1) - 1 = n
    BY <1>2, <1>4, <1>8
  <2> QED BY <1>6, <2>1
<1>9. 1 \in DOMAIN p /\ 2 \in DOMAIN p
  BY <1>2, <1>4
<1> QED BY <1>2, <1>3, <1>4, <1>5, <1>6, <1>7, <1>8, <1>9 DEF p

LEMMA AppendRow ==
  ASSUME NEW S, NEW s \in Seq(S), NEW e \in S
  PROVE  /\ Append(s, e) \in Seq(S) /\ Len(Append(s, e)) = Len(s) + 1
         /\ Len(s) \in Nat
         /\ DOMAIN s = 1 .. Len(s) /\ DOMAIN Append(s, e) = 1 .. Len(s) + 1
         /\ Append(s, e)[Len(s) + 1] = e
         /\ \A k \in DOMAIN s : Append(s, e)[k] = s[k]
         /\ \A k \in DOMAIN Append(s, e) : k \in DOMAIN s \/ k = Len(s) + 1
<1>1. Len(s) \in Nat /\ DOMAIN s = 1 .. Len(s)
  BY LenProperties
<1>2. Append(s, e) \in Seq(S) /\ Len(Append(s, e)) = Len(s) + 1
  OBVIOUS
<1>3. DOMAIN Append(s, e) = 1 .. Len(s) + 1
  BY <1>2, LenProperties
<1> QED BY <1>1, <1>2, <1>3

----------------------------------------------------------------------------
\* Facts of the state that the invariant gives.
LEMMA EntryFacts ==
  ASSUME TypeOK
  PROVE  /\ Len(index) \in Nat /\ Entries = 1 .. Len(index)
         /\ \A i \in Entries : i \in Nat /\ i > 0 /\ index[i] \in Numeric /\ KeyOf(i) \in Key
<1>1. index \in Seq(Numeric)
  BY DEF TypeOK
<1>2. Len(index) \in Nat /\ Entries = 1 .. Len(index)
  BY <1>1, LenProperties DEF Entries
<1>3. \A i \in Entries : index[i] \in Numeric
  BY <1>1, <1>2, ElementOfSeq
<1> QED BY <1>2, <1>3 DEF KeyOf, Numeric

LEMMA QueueFacts ==
  ASSUME TypeOK
  PROVE  /\ Len(queue) \in Nat /\ DOMAIN queue = 1 .. Len(queue)
         /\ \A n \in DOMAIN queue :
              /\ n \in Nat /\ n > 0 /\ queue[n] \in SubQuery
              /\ queue[n].low \in Key /\ queue[n].high \in Key
         /\ queue # << >> => 1 \in DOMAIN queue
<1>1. queue \in Seq(SubQuery)
  BY DEF TypeOK
<1>2. Len(queue) \in Nat /\ DOMAIN queue = 1 .. Len(queue)
  BY <1>1, LenProperties
<1>3. \A n \in DOMAIN queue : queue[n] \in SubQuery
  BY <1>1, <1>2, ElementOfSeq
<1>4. queue # << >> => Len(queue) > 0
  BY <1>1, <1>2, EmptySeq
<1> QED BY <1>2, <1>3, <1>4 DEF SubQuery

LEMMA RowFacts ==
  ASSUME TypeOK
  PROVE  /\ Len(rows) \in Nat /\ DOMAIN rows = 1 .. Len(rows)
         /\ \A k \in DOMAIN rows : rows[k] \in Row /\ rows[k].tid \in Nat
<1>1. rows \in Seq(Row)
  BY DEF TypeOK
<1>2. Len(rows) \in Nat /\ DOMAIN rows = 1 .. Len(rows)
  BY <1>1, LenProperties
<1>3. \A k \in DOMAIN rows : rows[k] \in Row
  BY <1>1, <1>2, ElementOfSeq
<1> QED BY <1>2, <1>3 DEF Row

----------------------------------------------------------------------------
(***************************************************************************)
(* Whatever the points are: the types, the nodes, the fresh keys and the   *)
(* chain of the queue.                                                     *)
(***************************************************************************)

\* Popping the head, or pushing two halves that have fewer bits left, keeps the
\* nodes within those that the bits given up allow.
LEMMA NodesPop ==
  ASSUME TypeOK, NodesInv, queue # << >>, releaseSubQuery
  PROVE  NodesInv'
<1>1. /\ queue' \in Seq(SubQuery) /\ Len(queue') = Len(queue) - 1
      /\ Len(queue) \in Nat /\ Len(queue) > 0
      /\ \A n \in DOMAIN queue' :
           n \in Nat /\ n > 0 /\ n + 1 \in DOMAIN queue /\ queue'[n] = queue[n + 1]
  BY Pop DEF releaseSubQuery, TypeOK
<1>2. free \in Nat /\ free' = free + 1
  BY DEF TypeOK, releaseSubQuery
<1>3. Len(queue') + free' <= KeyBits + 1
  BY <1>1, <1>2, KeyBitsRange DEF NodesInv
<1>4. ASSUME NEW n \in DOMAIN queue'
      PROVE  Len(queue') - n + 1 <= KeyBits - Left(queue'[n])
  <2>1. /\ n \in Nat /\ n + 1 \in DOMAIN queue /\ queue'[n] = queue[n + 1]
        /\ queue[n + 1] \in SubQuery
    BY <1>1, QueueFacts
  <2>2. Left(queue[n + 1]) \in Int
    BY <2>1, LeftRange
  <2>3. Len(queue) - (n + 1) + 1 <= KeyBits - Left(queue[n + 1])
    BY <2>1 DEF NodesInv
  <2>4. Len(queue') - n + 1 = Len(queue) - (n + 1) + 1
    BY <1>1, <2>1
  <2> QED BY <2>1, <2>3, <2>4
<1> QED BY <1>3, <1>4 DEF NodesInv, Left

LEMMA NodesPush ==
  ASSUME TypeOK, NodesInv, queue # << >>, NEW s \in SubQuery, NEW r \in SubQuery,
         queue' = <<s, r>> \o Tail(queue), free' = createQuery(free),
         Left(queryHead) >= 0, Left(s) < Left(queryHead), Left(r) < Left(queryHead)
  PROVE  NodesInv'
<1>1. /\ queue' \in Seq(SubQuery) /\ Len(queue') = Len(queue) + 1
      /\ queue'[1] = s /\ queue'[2] = r
      /\ \A n \in DOMAIN queue' :
           n \in Nat /\ n > 0 /\ (n > 2 => n - 1 \in DOMAIN queue /\ queue'[n] = queue[n - 1])
  BY PushTwo DEF TypeOK
<1>2. \A n \in DOMAIN queue' : n = 1 \/ n = 2 \/ n > 2
  BY <1>1
<1>3. /\ 1 \in DOMAIN queue /\ queryHead \in SubQuery /\ queryHead = queue[1]
      /\ Left(queryHead) \in Int /\ Left(s) \in Int /\ Left(r) \in Int
      /\ \A n \in DOMAIN queue : Left(queue[n]) \in Int
  BY QueueFacts, LeftRange DEF queryHead
<1>4. /\ Len(queue) \in Nat /\ free \in Nat /\ KeyBits \in Nat
      /\ free' = (IF free > 0 THEN free - 1 ELSE 0)
  BY QueueFacts, KeyBitsRange DEF TypeOK, createQuery
<1>5. /\ Len(queue) + free <= KeyBits + 1
      /\ \A n \in DOMAIN queue : Len(queue) - n + 1 <= KeyBits - Left(queue[n])
  BY DEF NodesInv
<1>6. Len(queue) <= KeyBits - Left(queryHead)
  <2>1. Len(queue) - 1 + 1 <= KeyBits - Left(queryHead)
    BY <1>3, <1>5
  <2> QED BY <1>4, <2>1
<1>7. Len(queue') + free' <= KeyBits + 1
  BY <1>1, <1>3, <1>4, <1>5, <1>6
<1>8. ASSUME NEW n \in DOMAIN queue'
      PROVE  Len(queue') - n + 1 <= KeyBits - Left(queue'[n])
  <2>1. CASE n = 1
    BY <1>1, <1>3, <1>4, <1>6, <2>1
  <2>2. CASE n = 2
    BY <1>1, <1>3, <1>4, <1>6, <2>2
  <2>3. CASE n > 2
    <3>1. n - 1 \in DOMAIN queue /\ queue'[n] = queue[n - 1] /\ n \in Nat
      BY <1>1, <2>3
    <3>2. Len(queue) - (n - 1) + 1 <= KeyBits - Left(queue[n - 1])
      BY <1>5, <3>1
    <3>3. Left(queue[n - 1]) \in Int
      BY <1>3, <3>1
    <3> QED BY <1>1, <1>4, <3>1, <3>2, <3>3
  <2> QED BY <1>2, <2>1, <2>2, <2>3
<1> QED BY <1>7, <1>8 DEF NodesInv, Left

LEMMA EntriesKept ==
  ASSUME TypeOK, EntriesInv, UNCHANGED store
  PROVE  /\ index' \in Seq(Numeric) /\ pageEnds' \subseteq Entries'
         /\ extent' \in [min : Point, max : Point]
         /\ EntriesInv' /\ index' = index /\ pageEnds' = pageEnds /\ Entries' = Entries
BY DEF TypeOK, EntriesInv, store, Entries

\* What is read of an entry is a key.
LEMMA EntryKey ==
  ASSUME TypeOK, EntriesInv, NEW i \in Entries
  PROVE  bitKey_fromLong(index[i]) \in Key
BY EntryFacts, FromLongKey DEF EntriesInv

LEMMA ShapeInit ==
  ASSUME Init
  PROVE  ShapeInv
<1>1. \A m \in Stored : m \in Numeric /\ (m.neg => WordBits - 1 \in Bits)
  <2> TAKE m \in Stored
  <2>1. PICK p \in Points : \E k \in bitKey_fromCoords(p) : m = bitKey_toLong(k)
    BY DEF Stored
  <2> QED BY <2>1, FromCoordsKey, ToLongNumeric
<1>2. PICK n \in 0 .. MaxEntries : index \in [1 .. n -> Stored]
  BY DEF Init
<1>3. /\ n \in Nat /\ Entries = 1 .. n
      /\ \A i \in Entries : index[i] \in Numeric /\ (index[i].neg => WordBits - 1 \in Bits)
  BY <1>1, <1>2, QueryAssumption DEF Entries
<1>4. index \in Seq(Numeric) /\ Len(index) = n
  <2>1. index \in [1 .. n -> Numeric]
    BY <1>2, <1>3 DEF Entries
  <2>2. index \in Seq(Numeric)
    BY <1>3, <2>1, SeqDef
  <2> QED BY <1>3, <2>2, LenProperties DEF Entries
<1>5. TypeOK
  <2>1. extent \in [min : Point, max : Point] /\ pageEnds \subseteq Entries
    BY QueryAssumption DEF Init, Entries
  <2>2. queue \in Seq(SubQuery) /\ rows \in Seq(Row)
    BY EmptySeq DEF Init
  <2>3. coords \in Point /\ currentKey \in Key /\ lastKey \in Key
    BY <2>1 DEF Init, Key
  <2> QED BY <1>4, <2>1, <2>2, <2>3 DEF TypeOK, Init, Pcs
<1>6. EntriesInv
  <2>1. ASSUME NEW i \in Entries, i + 1 \notin Entries PROVE i \in pageEnds
    <3>1. i = n /\ index # << >>
      BY <1>3, <1>4, <2>1, EmptySeq
    <3> QED BY <1>4, <3>1 DEF Init
  <2> QED BY <1>3, <2>1 DEF EntriesInv
<1>7. /\ Len(queue) = 0 /\ DOMAIN queue = {} /\ queue = << >> /\ free = 0 /\ rows = << >>
      /\ pc = "start"
  BY DEF Init
<1>8. LinkInv /\ NodesInv /\ FreshInv
  BY <1>7, KeyBitsRange DEF LinkInv, NodesInv, FreshInv, Searching, Placed
<1> QED BY <1>5, <1>6, <1>7, <1>8 DEF ShapeInv

LEMMA ShapeKept ==
  ASSUME ShapeInv, UNCHANGED <<store, queue, free>>
  PROVE  LinkInv' /\ NodesInv'
BY DEF ShapeInv, LinkInv, NodesInv, Agree, Link, Left, DifferAt

LEMMA ShapeRelease ==
  ASSUME ShapeInv, pc \in {"match", "next"}, releaseSubQuery, UNCHANGED store,
         pos' \in Nat, currentKey' \in Key, lastKey' \in Key
  PROVE  ShapeInv'
<1>1. queue # << >> /\ queue \in Seq(SubQuery) /\ TypeOK /\ EntriesInv /\ NodesInv
  BY DEF TypeOK, ShapeInv
<1>2. /\ queue' \in Seq(SubQuery)
      /\ \A n \in DOMAIN queue' :
           n \in Nat /\ n > 0 /\ n + 1 \in DOMAIN queue /\ queue'[n] = queue[n + 1]
  BY <1>1, Pop DEF releaseSubQuery
<1>3. rows' = rows /\ coords' = coords /\ opened' = opened /\ pc' = "find"
      /\ free' = free + 1 /\ subQueryFinished' = TRUE
  BY DEF releaseSubQuery
<1>4. TypeOK' /\ EntriesInv'
  BY <1>1, <1>2, <1>3, EntriesKept DEF TypeOK, Pcs
<1>5. LinkInv'
  <2>1. ASSUME NEW m \in DOMAIN queue', NEW n \in DOMAIN queue', m < n
        PROVE  Link(queue'[m], queue'[n])
    <3>1. /\ m + 1 \in DOMAIN queue /\ n + 1 \in DOMAIN queue /\ m + 1 < n + 1
          /\ queue'[m] = queue[m + 1] /\ queue'[n] = queue[n + 1]
      BY <1>2, <2>1
    <3> QED BY <3>1 DEF ShapeInv, LinkInv
  <2>2. ASSUME NEW n \in DOMAIN queue'
        PROVE  Agree(queue'[n]) \/ Link(queue'[n], queue'[n])
    <3>1. n + 1 \in DOMAIN queue /\ queue'[n] = queue[n + 1]
      BY <1>2, <2>2
    <3> QED BY <3>1 DEF ShapeInv, LinkInv
  <2> QED BY <2>1, <2>2 DEF LinkInv, Agree, Link, Left, DifferAt
<1>6. NodesInv'
  BY <1>1, NodesPop
<1>7. FreshInv'
  BY <1>3 DEF FreshInv, Searching, Placed
<1> QED BY <1>3, <1>4, <1>5, <1>6, <1>7 DEF ShapeInv

LEMMA ShapeClose ==
  ASSUME ShapeInv, UNCHANGED store, queue' = << >>, free' = 0, pc' = "done",
         subQueryFinished' \in BOOLEAN, opened' = FALSE,
         UNCHANGED <<pos, currentKey, lastKey, coords, rows>>
  PROVE  ShapeInv'
<1>1. TypeOK' /\ EntriesInv'
  BY EntriesKept, EmptySeq DEF ShapeInv, TypeOK, Pcs
<1>2. DOMAIN queue' = {} /\ Len(queue') = 0
  OBVIOUS
<1>3. LinkInv' /\ NodesInv' /\ FreshInv'
  BY <1>2, KeyBitsRange DEF LinkInv, NodesInv, FreshInv, Searching, Placed
<1> QED BY <1>1, <1>3 DEF ShapeInv

LEMMA ShapeReturn ==
  ASSUME ShapeInv, pc \in {"match", "next"}, UNCHANGED store,
         NEW i \in Entries, NEW xy \in Point, ReturnRow(i, xy), pos' = i,
         currentKey' \in Key, lastKey' \in Key,
         ~ queryHead.solid =>
           /\ currentKey' = bitKey_fromLong(index[i])
           /\ \E e \in Entries : LastOfPage(i, e) /\ lastKey' = bitKey_fromLong(index[e])
  PROVE  ShapeInv'
<1> DEFINE row == [tid |-> i, coords |-> xy, raw |-> queryHead.solid]
<1>1. /\ rows' = Append(rows, row) /\ pc' = "row" /\ coords' = xy
      /\ UNCHANGED <<queue, free, subQueryFinished, opened>>
  BY DEF ReturnRow
<1>2. TypeOK /\ EntriesInv /\ queue # << >> /\ 1 \in DOMAIN queue /\ queryHead \in SubQuery
  BY QueueFacts DEF ShapeInv, TypeOK, queryHead
<1>3. row \in Row /\ i \in Nat
  BY <1>2, EntryFacts DEF Row, SubQuery
<1> HIDE DEF row
<1>4. rows' \in Seq(Row)
  BY <1>1, <1>2, <1>3, AppendRow DEF TypeOK
<1>5. TypeOK' /\ EntriesInv'
  BY <1>1, <1>2, <1>3, <1>4, EntriesKept DEF TypeOK, Pcs
<1>6. FreshInv'
  BY <1>1, <1>2, EntriesKept DEF FreshInv, queryHead, LastOfPage
<1> QED BY <1>1, <1>5, <1>6, ShapeKept DEF ShapeInv

\* A step to the next entry keeps the keys fresh.
LEMMA AnyAdvance ==
  ASSUME ShapeInv, pc \in {"match", "next"}, ~ queryHead.solid,
         checkNextPage, zcurve_scan_move_next(FALSE)
  PROVE  /\ pos + 1 \in Entries /\ pos' = pos + 1
         /\ currentKey' = bitKey_fromLong(index[pos + 1])
         /\ \E e \in Entries :
              LastOfPage(pos + 1, e) /\ lastKey' = bitKey_fromLong(index[e])
<1>1. pos \in Entries /\ pageEnds \subseteq Entries /\ TypeOK /\ EntriesInv
  BY DEF ShapeInv, TypeOK
<1>2. pos + 1 \in Entries
  BY <1>1 DEF checkNextPage, EntriesInv
<1>3. \A e \in Entries : e \in Nat
  BY <1>1, EntryFacts
<1>4. CASE pos \in pageEnds
  BY <1>2, <1>4 DEF zcurve_scan_move_next, ToPage
<1>5. CASE pos \notin pageEnds
  <2>1. /\ pos' = pos + 1 /\ currentKey' = bitKey_fromLong(index[pos + 1])
        /\ lastKey' = lastKey
    BY <1>5 DEF zcurve_scan_move_next
  <2>2. PICK e \in Entries : LastOfPage(pos, e) /\ lastKey = bitKey_fromLong(index[e])
    BY DEF ShapeInv, FreshInv, Searching, Placed
  <2>3. LastOfPage(pos + 1, e)
    BY <1>1, <1>3, <1>5, <2>2 DEF LastOfPage
  <2> QED BY <1>2, <2>1, <2>2, <2>3
<1> QED BY <1>4, <1>5

LEMMA ShapeWalk ==
  ASSUME ShapeInv, pc \in {"match", "next"}, ~ queryHead.solid,
         checkNextPage, zcurve_scan_move_next(FALSE), Continue(pc), UNCHANGED store
  PROVE  ShapeInv'
<1>1. /\ pos + 1 \in Entries /\ pos' = pos + 1
      /\ currentKey' = bitKey_fromLong(index[pos + 1])
      /\ \E e \in Entries :
           LastOfPage(pos + 1, e) /\ lastKey' = bitKey_fromLong(index[e])
  BY AnyAdvance
<1>2. TypeOK /\ EntriesInv
  BY DEF ShapeInv
<1>3. pos' \in Nat /\ currentKey' \in Key /\ lastKey' \in Key
  BY <1>1, <1>2, EntryFacts, EntryKey
<1>4. /\ pc' = pc
      /\ UNCHANGED <<queue, free, subQueryFinished, opened, coords, rows>>
  BY DEF Continue
<1>5. TypeOK' /\ EntriesInv'
  BY <1>1, <1>2, <1>3, <1>4, EntriesKept DEF TypeOK
<1>6. FreshInv'
  BY <1>1, <1>2, <1>4, EntriesKept DEF FreshInv, queryHead, LastOfPage
<1> QED BY <1>4, <1>5, <1>6, ShapeKept DEF ShapeInv

LEMMA ShapeMoveFirst ==
  ASSUME ShapeInv, MoveFirst
  PROVE  ShapeInv'
<1>1. PICK low \in bitKey_fromCoords(extent.min), high \in bitKey_fromCoords(extent.max) :
        queue' = <<NewSubQuery(low, high, KeyBits - 1)>>
  BY DEF MoveFirst
<1> DEFINE q == NewSubQuery(low, high, KeyBits - 1)
<1>2. low \in Key /\ high \in Key
  BY FromCoordsKey
<1>3. KeyBits - 1 \in Bits /\ KeyBits - 1 # CurBitMax
  BY KeyBitsRange DEF Bits, CurBitMax
<1>4. q \in SubQuery /\ q.curBitNum = KeyBits - 1 /\ queue' = <<q>>
  BY <1>1, <1>2, <1>3, NewSubQueryType
<1> HIDE DEF q
<1>5. Left(q) = KeyBits - 1 /\ Agree(q)
  BY <1>3, <1>4, KeyBitsRange DEF Left, Agree, Bits
<1>6. queue' \in Seq(SubQuery) /\ Len(queue') = 1 /\ DOMAIN queue' = {1} /\ queue'[1] = q
  BY <1>4
<1>7. /\ pc' = "find" /\ TypeOK /\ EntriesInv /\ free = 0
      /\ UNCHANGED <<store, free, subQueryFinished, opened, pos, currentKey, lastKey, coords,
                     rows>>
  BY DEF MoveFirst, ShapeInv
<1>8. TypeOK' /\ EntriesInv'
  BY <1>6, <1>7, EntriesKept DEF TypeOK, Pcs
<1>9. LinkInv'
  BY <1>5, <1>6 DEF LinkInv, Agree, Link, Left, DifferAt
<1>10. NodesInv'
  BY <1>5, <1>6, <1>7, KeyBitsRange DEF NodesInv, Left
<1>11. FreshInv'
  BY <1>7 DEF FreshInv, Searching, Placed
<1> QED BY <1>7, <1>8, <1>9, <1>10, <1>11 DEF ShapeInv

LEMMA ShapeFind ==
  ASSUME ShapeInv, QueryFind
  PROVE  ShapeInv'
<1>1. PICK i \in Entries : ToPage(i, queryHead.solid)
  BY DEF QueryFind
<1>2. /\ pc = "find" /\ queue # << >> /\ pc' = "split" /\ subQueryFinished' = FALSE
      /\ UNCHANGED <<store, queue, free, opened, coords, rows>>
  BY DEF QueryFind
<1>3. TypeOK /\ EntriesInv /\ i \in Nat /\ \A e \in Entries : bitKey_fromLong(index[e]) \in Key
  BY EntryFacts, EntryKey DEF ShapeInv
<1>4. /\ pos' = i /\ currentKey' \in Key /\ lastKey' \in Key
      /\ ~ queryHead.solid =>
           /\ currentKey' = bitKey_fromLong(index[i])
           /\ \E e \in Entries : LastOfPage(i, e) /\ lastKey' = bitKey_fromLong(index[e])
  BY <1>1, <1>3 DEF ToPage, TypeOK
<1>5. TypeOK' /\ EntriesInv'
  BY <1>2, <1>3, <1>4, EntriesKept DEF TypeOK, Pcs
<1>6. FreshInv'
  BY <1>2, <1>3, <1>4, EntriesKept DEF FreshInv, queryHead, LastOfPage
<1> QED BY <1>2, <1>5, <1>6, ShapeKept DEF ShapeInv

LEMMA ShapeSplit ==
  ASSUME ShapeInv, SplitQuery
  PROVE  ShapeInv'
<1>1. PICK b \in Bits :
        /\ SplitBit(queryHead, b)
        /\ queue' = <<LowerHalf(queryHead, b), UpperHalf(queryHead, b)>> \o Tail(queue)
  BY DEF SplitQuery
<1>2. /\ pc = "split" /\ pc' = pc /\ ~ queryHead.solid
      /\ free' = createQuery(free) /\ subQueryFinished' = FALSE
      /\ UNCHANGED <<store, opened, pos, currentKey, lastKey, coords, rows>>
  BY DEF SplitQuery, MustSplit
<1>3. TypeOK /\ EntriesInv /\ LinkInv /\ NodesInv /\ FreshInv
  BY DEF ShapeInv
<1>4. /\ queue # << >> /\ 1 \in DOMAIN queue /\ queryHead \in SubQuery /\ queryHead = queue[1]
      /\ queryHead.curBitNum \in Bits
  BY <1>1, <1>2, <1>3, QueueFacts DEF TypeOK, queryHead, SplitBit
<1>5. Agree(queryHead) \/ Link(queryHead, queryHead)
  BY <1>3, <1>4 DEF LinkInv
<1> DEFINE s == LowerHalf(queryHead, b)
           r == UpperHalf(queryHead, b)
<1>6. /\ s \in SubQuery /\ r \in SubQuery /\ Left(s) = b - 1 /\ Left(r) = b - 1
      /\ b <= Left(queryHead)
  BY <1>1, <1>4, HalfBounds
<1>7. /\ Link(s, r) /\ (Agree(s) \/ Link(s, s)) /\ (Agree(r) \/ Link(r, r))
      /\ \A p : Link(queryHead, p) => Link(s, p) /\ Link(r, p)
  BY <1>1, <1>4, <1>5, LinkHalves
<1>8. queue' = <<s, r>> \o Tail(queue)
  BY <1>1
<1> HIDE DEF s, r
<1>9. /\ queue' \in Seq(SubQuery) /\ queue' # << >> /\ queue'[1] = s /\ queue'[2] = r
      /\ \A n \in DOMAIN queue' :
           n \in Nat /\ n > 0 /\ (n > 2 => n - 1 \in DOMAIN queue /\ queue'[n] = queue[n - 1])
  BY <1>3, <1>4, <1>6, <1>8, PushTwo DEF TypeOK
<1>10. \A n \in DOMAIN queue' : n = 1 \/ n = 2 \/ n > 2
  BY <1>9
<1>11. TypeOK' /\ EntriesInv'
  <2>1. free' \in Nat
    BY <1>2, <1>3 DEF TypeOK, createQuery
  <2> QED BY <1>2, <1>3, <1>9, <2>1, EntriesKept DEF TypeOK
<1>12. LinkInv'
  <2>1. ASSUME NEW n \in DOMAIN queue'
        PROVE  Agree(queue'[n]) \/ Link(queue'[n], queue'[n])
    <3>1. CASE n > 2
      BY <1>3, <1>9, <3>1 DEF LinkInv
    <3> QED BY <1>7, <1>9, <1>10, <3>1
  <2>2. ASSUME NEW m \in DOMAIN queue', NEW n \in DOMAIN queue', m < n
        PROVE  Link(queue'[m], queue'[n])
    <3>1. CASE m = 1 /\ n = 2
      BY <1>7, <1>9, <3>1
    <3>2. CASE m \in {1, 2} /\ n > 2
      <4>1. n - 1 \in DOMAIN queue /\ n - 1 > 1 /\ queue'[n] = queue[n - 1]
        BY <1>9, <3>2
      <4>2. Link(queryHead, queue[n - 1])
        BY <1>3, <1>4, <4>1 DEF LinkInv
      <4> QED BY <1>7, <1>9, <3>2, <4>1, <4>2
    <3>3. CASE m > 2
      <4>1. /\ n - 1 \in DOMAIN queue /\ queue'[n] = queue[n - 1]
            /\ m - 1 \in DOMAIN queue /\ queue'[m] = queue[m - 1] /\ m - 1 < n - 1
        BY <1>9, <2>2, <3>3
      <4> QED BY <1>3, <4>1 DEF LinkInv
    <3> QED BY <1>9, <1>10, <2>2, <3>1, <3>2, <3>3
  <2> QED BY <2>1, <2>2 DEF LinkInv, Agree, Link, Left, DifferAt
<1>13. NodesInv'
  <2>1. Left(queryHead) >= 0 /\ Left(s) < Left(queryHead) /\ Left(r) < Left(queryHead)
    BY <1>4, <1>6, KeyBitsRange DEF Left, CurBitMax, Bits
  <2> QED BY <1>2, <1>3, <1>4, <1>6, <1>8, <2>1, NodesPush
<1>14. FreshInv'
  <2>1. /\ currentKey = bitKey_fromLong(index[pos])
        /\ \E e \in Entries : LastOfPage(pos, e) /\ lastKey = bitKey_fromLong(index[e])
    BY <1>2, <1>3 DEF FreshInv, Searching
  <2> QED BY <1>2, <1>3, <2>1, EntriesKept DEF FreshInv, LastOfPage
<1> QED BY <1>2, <1>11, <1>12, <1>13, <1>14 DEF ShapeInv

\* A step that only changes pc, to where the cursor still is in use or to
\* nowhere.
LEMMA ShapeGoesOn ==
  ASSUME ShapeInv, pc # "start", pc' \in Pcs \ {"start"},
         pc' \in Searching \cup Placed => pc \in Searching \cup Placed,
         subQueryFinished' \in BOOLEAN,
         UNCHANGED <<store, queue, free, opened, pos, currentKey, lastKey, coords, rows>>
  PROVE  ShapeInv'
<1>1. TypeOK /\ EntriesInv /\ FreshInv
  BY DEF ShapeInv
<1>2. TypeOK' /\ EntriesInv'
  BY <1>1, EntriesKept DEF TypeOK, Searching, Placed
<1>3. FreshInv'
  BY <1>1, EntriesKept DEF FreshInv, queryHead, LastOfPage
<1> QED BY <1>2, <1>3, ShapeKept DEF ShapeInv

LEMMA ShapeMatchSolid ==
  ASSUME ShapeInv, MatchSolid
  PROVE  ShapeInv'
<1>1. /\ pc = "match" /\ queryHead.solid /\ UNCHANGED <<store, pos, currentKey, lastKey>>
      /\ pos \in Entries /\ pos \in Nat /\ currentKey \in Key /\ lastKey \in Key
      /\ coords \in Point
  BY DEF MatchSolid, ShapeInv, TypeOK
<1>2. ReturnRow(pos, coords) \/ releaseSubQuery
  BY DEF MatchSolid
<1> QED BY <1>1, <1>2, ShapeReturn, ShapeRelease

LEMMA ShapeMatchKey ==
  ASSUME ShapeInv, MatchKey
  PROVE  ShapeInv'
<1>1. /\ pc = "match" /\ ~ queryHead.solid /\ UNCHANGED <<store, pos, currentKey, lastKey>>
      /\ pos \in Entries /\ currentKey \in Key /\ lastKey \in Key
      /\ ReturnRow(pos, bitKey_toCoords(currentKey))
  BY DEF MatchKey, ShapeInv, TypeOK
<1>2. /\ currentKey = bitKey_fromLong(index[pos])
      /\ \E e \in Entries : LastOfPage(pos, e) /\ lastKey = bitKey_fromLong(index[e])
  BY <1>1 DEF ShapeInv, FreshInv, Searching
<1> QED BY <1>1, <1>2, CoordsArePoint, ShapeReturn

LEMMA ShapeNextSolid ==
  ASSUME ShapeInv, NextSolid
  PROVE  ShapeInv'
<1>1. /\ pc = "next" /\ queryHead.solid /\ UNCHANGED store /\ pos + 1 \in Entries
      /\ currentKey \in Key /\ lastKey \in Key /\ coords \in Point /\ TypeOK
      /\ zcurve_scan_move_next(TRUE)
  BY DEF NextSolid, ShapeInv, TypeOK
<1>2. pos' = pos + 1 /\ currentKey' = currentKey /\ lastKey' = lastKey /\ pos + 1 \in Nat
  BY <1>1, EntryFacts DEF zcurve_scan_move_next, ToPage
<1>3. ReturnRow(pos + 1, coords) \/ releaseSubQuery
  BY DEF NextSolid
<1> QED BY <1>1, <1>2, <1>3, ShapeReturn, ShapeRelease

LEMMA ShapeNextKey ==
  ASSUME ShapeInv, NextKey
  PROVE  ShapeInv'
<1>1. /\ pc = "next" /\ ~ queryHead.solid /\ UNCHANGED store /\ TypeOK /\ EntriesInv
      /\ checkNextPage /\ zcurve_scan_move_next(FALSE)
  BY DEF NextKey, ShapeInv
<1>2. /\ pos + 1 \in Entries /\ pos' = pos + 1
      /\ currentKey' = bitKey_fromLong(index[pos + 1])
      /\ \E e \in Entries :
           LastOfPage(pos + 1, e) /\ lastKey' = bitKey_fromLong(index[e])
  BY <1>1, AnyAdvance
<1>3. pos' \in Nat /\ currentKey' \in Key /\ lastKey' \in Key
  BY <1>1, <1>2, EntryFacts, EntryKey
<1>4. releaseSubQuery \/ ReturnRow(pos + 1, bitKey_toCoords(currentKey')) \/ Continue(pc)
  BY <1>1 DEF NextKey
<1>5. CASE ReturnRow(pos + 1, bitKey_toCoords(currentKey'))
  BY <1>1, <1>2, <1>3, <1>5, CoordsArePoint, ShapeReturn
<1> QED BY <1>1, <1>3, <1>4, <1>5, ShapeRelease, ShapeWalk

LEMMA ShapeRun ==
  ASSUME ShapeInv, Run
  PROVE  ShapeInv'
<1>1. /\ subQueryFinished \in BOOLEAN /\ pos \in Nat
      /\ currentKey \in Key /\ lastKey \in Key
  BY DEF ShapeInv, TypeOK
<1>2. CASE QueryFind
  BY <1>2, ShapeFind
<1>3. CASE QueryFindFails \/ QueueEmpty \/ NextFails
  BY <1>1, <1>3, ShapeClose DEF QueryFindFails, QueueEmpty, NextFails, closeQuery
<1>4. CASE SplitQuery
  BY <1>4, ShapeSplit
<1>5. CASE SplitDone
  BY <1>1, <1>5, ShapeGoesOn DEF SplitDone, Continue, Pcs, Searching
<1>6. CASE MatchSolid
  BY <1>6, ShapeMatchSolid
<1>7. CASE MatchKey
  BY <1>7, ShapeMatchKey
<1>8. CASE MatchSkips
  BY <1>8, ShapeWalk DEF MatchSkips
<1>9. CASE MatchExhausted \/ NextPageExhausted
  BY <1>1, <1>9, ShapeRelease DEF MatchExhausted, NextPageExhausted
<1>10. CASE NextSolid
  BY <1>10, ShapeNextSolid
<1>11. CASE NextKey
  BY <1>11, ShapeNextKey
<1> QED BY <1>2, <1>3, <1>4, <1>5, <1>6, <1>7, <1>8, <1>9, <1>10, <1>11
        DEF Run, FindStep, SplitStep, MatchStep, NextStep

LEMMA ShapeNext ==
  ASSUME ShapeInv, [Next]_vars
  PROVE  ShapeInv'
<1>1. CASE UNCHANGED vars
  <2>1. /\ UNCHANGED <<store, queue, free, opened, pos, currentKey, lastKey, coords, rows>>
        /\ UNCHANGED <<subQueryFinished, pc, index, pageEnds>>
    BY <1>1 DEF vars, store
  <2>2. TypeOK' /\ EntriesInv' /\ FreshInv'
    BY <2>1, EntriesKept DEF ShapeInv, TypeOK, FreshInv, queryHead, LastOfPage, Entries
  <2> QED BY <2>1, <2>2, ShapeKept DEF ShapeInv
<1>2. CASE MoveFirst
  BY <1>2, ShapeMoveFirst
<1>3. CASE Run
  BY <1>3, ShapeRun
<1>4. CASE MoveNext
  <2>1. subQueryFinished \in BOOLEAN
    BY DEF ShapeInv, TypeOK
  <2> QED BY <1>4, <2>1, ShapeGoesOn DEF MoveNext, Continue, Pcs, Searching, Placed
<1>5. CASE SplitRunsAway
  <2>1. subQueryFinished \in BOOLEAN
    BY DEF ShapeInv, TypeOK
  <2> QED BY <1>5, <2>1, ShapeGoesOn DEF SplitRunsAway, Pcs, Searching, Placed
<1> QED BY <1>1, <1>2, <1>3, <1>4, <1>5 DEF Next

\* The types, the fresh keys and the chain of links hold of every lookup.
THEOREM ShapeInvariance == Spec => []ShapeInv
<1>1. Init => ShapeInv
  BY ShapeInit
<1>2. ShapeInv /\ [Next]_vars => ShapeInv'
  BY ShapeNext
<1> QED BY <1>1, <1>2, PTL DEF Spec

\* Variables keep their types, and the loops never work on an empty queue or
\* off the index, whatever the points, the extent and the index are.
THEOREM TypeCorrect == Spec => []TypeOK
<1>1. ShapeInv => TypeOK
  BY DEF ShapeInv
<1> QED BY <1>1, ShapeInvariance, PTL

\* A lookup holds at most one queue node for each bit of a key, and one more.
THEOREM NodesSuffice == Spec => []NodesBounded
<1>1. ShapeInv => NodesBounded
  BY DEF ShapeInv, NodesInv, NodesBounded
<1> QED BY <1>1, ShapeInvariance, PTL

\* The keys the automaton compares are those the cursor stands on, whatever
\* raw fetches came before.
THEOREM KeysAreFresh == Spec => []KeysFresh
<1>1. ShapeInv => KeysFresh
  BY DEF ShapeInv, FreshInv, KeysFresh, Searching, Placed
<1> QED BY <1>1, ShapeInvariance, PTL

----------------------------------------------------------------------------
(***************************************************************************)
(* No entry is returned twice, also where the btree and the automaton      *)
(* order the keys differently: what has been returned lies under the low   *)
(* keys of the subqueries still to come, and the cursor, which follows the *)
(* btree, does not leave the head's interval as long as the numerics of    *)
(* the head's bounds are the right way round.                              *)
(***************************************************************************)

LEMMA OnceInit ==
  ASSUME KeysReadBack, Init
  PROVE  OnceInv
<1>1. PICK n \in 0 .. MaxEntries : index \in [1 .. n -> Stored]
  BY DEF Init
<1>2. ASSUME NEW i \in Entries
      PROVE  /\ FullKey(i) \in Key /\ index[i] = bitKey_toLong(FullKey(i))
             /\ bitKey_fromLong(index[i]) = FullKey(i)
  <2>1. index[i] \in Stored
    BY <1>1 DEF Entries
  <2>2. PICK p \in Points : \E k \in bitKey_fromCoords(p) : index[i] = bitKey_toLong(k)
    BY <2>1 DEF Stored
  <2>3. PICK k \in bitKey_fromCoords(p) : index[i] = bitKey_toLong(k)
    BY <2>2
  <2>4. k \in Key /\ FullKey(i) = k
    BY <2>3, FromCoordsKey, KeyInNumeric DEF FullKey
  <2>5. bitKey_fromLong(bitKey_toLong(k)) = k
    BY <2>3, <2>4, ReadStored, WidthAssumption DEF KeysReadBack
  <2> QED BY <2>3, <2>4, <2>5
<1>3. StoredInv
  BY <1>2 DEF StoredInv, Init
<1>4. DOMAIN queue = {} /\ DOMAIN rows = {} /\ pc = "start"
  BY DEF Init
<1>5. StraightInv
  BY <1>4 DEF StraightInv, PlaceInv, UnderInv, NoneTwice, Searching, Placed
<1> QED BY <1>3, <1>5, ShapeInit DEF OnceInv

LEMMA StoredKept ==
  ASSUME StoredInv, UNCHANGED store
  PROVE  /\ StoredInv' /\ (Straight' <=> Straight)
         /\ index' = index /\ Entries' = Entries
<1>1. index' = index /\ extent' = extent /\ Entries' = Entries
  BY DEF store, Entries
<1>2. StoredInv'
  BY <1>1 DEF StoredInv, FullKey, Entries
<1> QED BY <1>1, <1>2 DEF Straight

\* The head of a queue in use, and the entry the cursor is on.
LEMMA HeadInUse ==
  ASSUME ShapeInv, pc \in Searching \cup Placed
  PROVE  /\ TypeOK /\ queue # << >> /\ 1 \in DOMAIN queue /\ queryHead \in SubQuery
         /\ queryHead = queue[1] /\ queryHead.low \in Key /\ queryHead.high \in Key
         /\ Agree(queryHead) \/ Link(queryHead, queryHead)
         /\ pos \in Entries /\ pos \in Nat
<1>1. TypeOK /\ queue # << >> /\ pos \in Entries
  BY DEF ShapeInv, TypeOK, Searching, Placed
<1>2. 1 \in DOMAIN queue
  BY <1>1, QueueFacts
<1> QED BY <1>1, <1>2, QueueFacts DEF ShapeInv, LinkInv, TypeOK, queryHead

\* In straight subqueries an entry that matches lies between the head's bounds,
\* whether its key or its numeric is compared.
LEMMA MatchInside ==
  ASSUME ShapeInv, StoredInv, PlaceInv, pc \in Searching \cup Placed, NEW i \in Entries,
         numeric_cmp(bitKey_toLong(queryHead.low), index[i]) <= 0,
         RawMatches(i) \/ InBox(queryHead, FullKey(i))
  PROVE  LessEq(queryHead.low, FullKey(i)) /\ LessEq(FullKey(i), queryHead.high)
<1>1. /\ queryHead \in SubQuery /\ queryHead.low \in Key /\ queryHead.high \in Key
      /\ Unturned(queryHead.low, queryHead.high)
  BY HeadInUse DEF PlaceInv
<1>2. FullKey(i) \in Key /\ index[i] = bitKey_toLong(FullKey(i))
  BY DEF StoredInv
<1>3. CASE InBox(queryHead, FullKey(i))
  BY <1>1, <1>2, <1>3, InBoxBetween
<1>4. CASE RawMatches(i)
  BY <1>1, <1>2, <1>4, NumericBetween DEF RawMatches
<1> QED BY <1>3, <1>4

\* The entry after the cursor's is not before the head's low key either.
LEMMA NextInPlace ==
  ASSUME ShapeInv, StoredInv, PlaceInv, pc \in Searching \cup Placed, pos + 1 \in Entries
  PROVE  numeric_cmp(bitKey_toLong(queryHead.low), index[pos + 1]) <= 0
<1>1. pos \in Entries /\ pos \in Nat /\ TypeOK /\ queryHead.low \in Key
  BY HeadInUse
<1>2. numeric_cmp(bitKey_toLong(queryHead.low), index[pos]) <= 0
  BY DEF PlaceInv
<1>3. numeric_cmp(index[pos], index[pos + 1]) <= 0
  BY <1>1 DEF StoredInv, Sorted, Entries
<1>4. index[pos] \in Numeric /\ index[pos + 1] \in Numeric
  BY <1>1, EntryFacts
<1> QED BY <1>1, <1>2, <1>3, <1>4, KeyInNumeric, NumericTransitive

LEMMA OnceRelease ==
  ASSUME ShapeInv, StoredInv, StraightInv, pc \in {"match", "next"}, releaseSubQuery,
         UNCHANGED store
  PROVE  StraightInv'
<1>1. queue # << >> /\ queue \in Seq(SubQuery)
  BY DEF ShapeInv, TypeOK
<1>2. \A n \in DOMAIN queue' :
        n \in Nat /\ n > 0 /\ n + 1 \in DOMAIN queue /\ queue'[n] = queue[n + 1]
  BY <1>1, Pop DEF releaseSubQuery
<1>3. rows' = rows /\ pc' = "find" /\ index' = index /\ Entries' = Entries
  BY StoredKept DEF releaseSubQuery
<1>4. PlaceInv'
  BY <1>2, <1>3 DEF StraightInv, PlaceInv, Unturned, Searching, Placed
<1>5. UnderInv'
  <2>1. ASSUME NEW k \in DOMAIN rows', NEW n \in DOMAIN queue'
        PROVE  Under(FullKey(rows[k].tid), queue'[n])
    <3>1. n + 1 \in DOMAIN queue /\ n + 1 > 1 /\ queue'[n] = queue[n + 1]
      BY <1>2
    <3> QED BY <1>3, <3>1 DEF StraightInv, UnderInv
  <2>2. \A k \in DOMAIN rows' : rows'[k].tid \in Entries'
    BY <1>3 DEF StraightInv, UnderInv
  <2> QED BY <1>3, <2>1, <2>2 DEF UnderInv, Placed, FullKey, Under, Left, DifferAt
<1>6. NoneTwice'
  BY <1>3 DEF StraightInv, NoneTwice
<1> QED BY <1>4, <1>5, <1>6 DEF StraightInv

LEMMA OnceClose ==
  ASSUME StoredInv, StraightInv, UNCHANGED <<store, rows>>, queue' = << >>, pc' = "done"
  PROVE  StraightInv'
<1>1. DOMAIN queue' = {} /\ index' = index /\ Entries' = Entries
  BY StoredKept
<1>2. PlaceInv' /\ UnderInv' /\ NoneTwice'
  BY <1>1 DEF StraightInv, PlaceInv, UnderInv, NoneTwice, Searching, Placed
<1> QED BY <1>2 DEF StraightInv

\* An entry between the head's bounds is new, and lies under the others.
LEMMA OnceReturn ==
  ASSUME ShapeInv, StoredInv, StraightInv, pc \in {"match", "next"}, UNCHANGED store,
         NEW i \in Entries, NEW xy, ReturnRow(i, xy), pos' = i,
         numeric_cmp(bitKey_toLong(queryHead.low), index[i]) <= 0,
         RawMatches(i) \/ InBox(queryHead, FullKey(i)),
         \A k \in DOMAIN rows : rows[k].tid < i \/ Under(FullKey(rows[k].tid), queryHead)
  PROVE  StraightInv'
<1> DEFINE row == [tid |-> i, coords |-> xy, raw |-> queryHead.solid]
<1>1. /\ rows' = Append(rows, row) /\ pc' = "row" /\ queue' = queue
      /\ subQueryFinished' = subQueryFinished
  BY DEF ReturnRow
<1>2. index' = index /\ Entries' = Entries
  BY StoredKept
<1>3. /\ pc \in Searching \cup Placed /\ PlaceInv /\ UnderInv /\ NoneTwice /\ TypeOK
  BY DEF Searching, Placed, StraightInv, ShapeInv
<1>4. /\ queryHead \in SubQuery /\ queryHead.low \in Key /\ queryHead.high \in Key
      /\ Agree(queryHead) \/ Link(queryHead, queryHead)
      /\ 1 \in DOMAIN queue /\ queryHead = queue[1]
  BY <1>3, HeadInUse
<1>5. FullKey(i) \in Key /\ LessEq(queryHead.low, FullKey(i)) /\ LessEq(FullKey(i), queryHead.high)
  BY <1>3, MatchInside DEF StoredInv
<1>6. i \in Nat /\ row.tid = i
  BY <1>3, EntryFacts
<1> HIDE DEF row
<1>7. /\ Len(rows) \in Nat /\ DOMAIN rows = 1 .. Len(rows)
      /\ rows'[Len(rows) + 1] = row
      /\ \A k \in DOMAIN rows : rows'[k] = rows[k] /\ rows[k].tid \in Nat
      /\ \A k \in DOMAIN rows' : k \in DOMAIN rows \/ k = Len(rows) + 1
  <2>1. /\ Len(rows) \in Nat /\ DOMAIN rows = 1 .. Len(rows)
        /\ \A k \in DOMAIN rows : rows[k] \in Row /\ rows[k].tid \in Nat
    BY <1>3, RowFacts
  <2>2. rows \in Seq(Row \cup {row})
    <3>1. \A s \in Seq(Row) : s \in Seq(Row \cup {row})
      OBVIOUS
    <3> QED BY <1>3, <3>1 DEF TypeOK
  <2> QED BY <1>1, <2>1, <2>2, AppendRow
<1>8. ASSUME NEW k \in DOMAIN rows PROVE rows[k].tid # i
  <2>1. CASE rows[k].tid < i
    BY <1>6, <1>7, <2>1
  <2>2. CASE Under(FullKey(rows[k].tid), queryHead)
    <3>1. FullKey(rows[k].tid) \in Key
      BY <1>3 DEF UnderInv, StoredInv
    <3>2. Less(FullKey(rows[k].tid), queryHead.low)
      BY <1>4, <2>2, <3>1, UnderLess
    <3> QED BY <1>5, <3>2 DEF LessEq
  <2> QED BY <2>1, <2>2
<1>9. NoneTwice'
  <2> SUFFICES ASSUME NEW j \in DOMAIN rows', NEW k \in DOMAIN rows',
                      rows'[j].tid = rows'[k].tid
               PROVE  j = k
    BY DEF NoneTwice
  <2>1. CASE j \in DOMAIN rows /\ k \in DOMAIN rows
    BY <1>3, <1>7, <2>1 DEF NoneTwice
  <2>2. CASE j \in DOMAIN rows /\ k = Len(rows) + 1
    BY <1>6, <1>7, <1>8, <2>2
  <2>3. CASE k \in DOMAIN rows /\ j = Len(rows) + 1
    BY <1>6, <1>7, <1>8, <2>3
  <2> QED BY <1>7, <2>1, <2>2, <2>3
<1>10. PlaceInv'
  <2>1. \A n \in DOMAIN queue' : Unturned(queue'[n].low, queue'[n].high)
    BY <1>1, <1>3 DEF PlaceInv
  <2> QED BY <1>1, <1>2, <1>3, <2>1 DEF PlaceInv, queryHead, Unturned
<1>11. UnderInv'
  <2>1. \A k \in DOMAIN rows' : rows'[k].tid \in Entries
    BY <1>3, <1>6, <1>7 DEF UnderInv
  <2>2. ASSUME NEW k \in DOMAIN rows', NEW n \in DOMAIN queue, n > 1
        PROVE  Under(FullKey(rows'[k].tid), queue[n])
    <3>1. CASE k \in DOMAIN rows
      BY <1>3, <1>7, <2>2, <3>1 DEF UnderInv
    <3>2. CASE k = Len(rows) + 1
      <4>1. queue[n] \in SubQuery /\ Link(queryHead, queue[n])
        BY <1>3, <1>4, <2>2, QueueFacts DEF ShapeInv, LinkInv
      <4> QED BY <1>4, <1>5, <1>6, <1>7, <3>2, <4>1, LinkUnder
    <3> QED BY <1>7, <3>1, <3>2
  <2>3. ASSUME NEW k \in DOMAIN rows'
        PROVE  rows'[k].tid <= i \/ Under(FullKey(rows'[k].tid), queryHead)
    <3>1. CASE k \in DOMAIN rows
      BY <1>6, <1>7, <3>1
    <3>2. CASE k = Len(rows) + 1
      BY <1>6, <1>7, <3>2
    <3> QED BY <1>7, <3>1, <3>2
  <2> QED BY <1>1, <1>2, <2>1, <2>2, <2>3
       DEF UnderInv, Placed, FullKey, queryHead, Under, Left, DifferAt
<1> QED BY <1>9, <1>10, <1>11 DEF StraightInv

\* The rows returned before a match is looked for, or before the next entry.
LEMMA RowsBefore ==
  ASSUME ShapeInv, StraightInv, pc \in Searching \cup Placed
  PROVE  \A k \in DOMAIN rows :
           /\ pc \in Searching => Under(FullKey(rows[k].tid), queryHead)
           /\ rows[k].tid < pos + 1 \/ Under(FullKey(rows[k].tid), queryHead)
<1> TAKE k \in DOMAIN rows
<1>1. 1 \in DOMAIN queue /\ queryHead = queue[1] /\ pos \in Nat /\ TypeOK
  BY HeadInUse
<1>2. rows[k].tid \in Nat
  BY <1>1, RowFacts
<1>3. pc \in Searching => Under(FullKey(rows[k].tid), queryHead)
  BY <1>1 DEF StraightInv, UnderInv, Searching, Placed
<1>4. pc \in Placed => rows[k].tid <= pos \/ Under(FullKey(rows[k].tid), queryHead)
  BY DEF StraightInv, UnderInv
<1> QED BY <1>1, <1>2, <1>3, <1>4

LEMMA OnceWalk ==
  ASSUME ShapeInv, StoredInv, StraightInv, pc \in {"match", "next"}, ~ queryHead.solid,
         checkNextPage, zcurve_scan_move_next(FALSE), Continue(pc), UNCHANGED store
  PROVE  StraightInv'
<1>1. pos + 1 \in Entries /\ pos' = pos + 1
  BY AnyAdvance
<1>2. /\ pc' = pc /\ queue' = queue /\ rows' = rows /\ subQueryFinished' = subQueryFinished
      /\ index' = index /\ Entries' = Entries
  BY StoredKept DEF Continue
<1>3. pc \in Searching \cup Placed /\ PlaceInv /\ UnderInv /\ NoneTwice
  BY DEF Searching, Placed, StraightInv
<1>4. numeric_cmp(bitKey_toLong(queryHead.low), index[pos + 1]) <= 0
  BY <1>1, <1>3, NextInPlace
<1>5. PlaceInv'
  BY <1>1, <1>2, <1>3, <1>4 DEF PlaceInv, queryHead, Unturned
<1>6. UnderInv'
  <2>1. ASSUME NEW k \in DOMAIN rows
        PROVE  rows[k].tid <= pos + 1 \/ Under(FullKey(rows[k].tid), queryHead)
    <3>1. rows[k].tid < pos + 1 \/ Under(FullKey(rows[k].tid), queryHead)
      BY <1>3, RowsBefore
    <3>2. rows[k].tid \in Nat /\ pos \in Nat
      BY <1>3, HeadInUse, RowFacts
    <3> QED BY <3>1, <3>2
  <2> QED BY <1>1, <1>2, <1>3, <2>1 DEF UnderInv, FullKey, queryHead, Under, Left, DifferAt
<1>7. NoneTwice'
  BY <1>2, <1>3 DEF NoneTwice
<1> QED BY <1>5, <1>6, <1>7 DEF StraightInv

LEMMA OnceMoveFirst ==
  ASSUME ShapeInv, StoredInv, Straight, StraightInv, MoveFirst
  PROVE  StraightInv'
<1>1. PICK low \in bitKey_fromCoords(extent.min), high \in bitKey_fromCoords(extent.max) :
        queue' = <<NewSubQuery(low, high, KeyBits - 1)>>
  BY DEF MoveFirst
<1> DEFINE q == NewSubQuery(low, high, KeyBits - 1)
<1>2. q.low = low /\ q.high = high /\ Unturned(low, high) /\ queue' = <<q>>
  BY <1>1 DEF NewSubQuery, Straight
<1> HIDE DEF q
<1>3. DOMAIN queue' = {1} /\ queue'[1] = q
  BY <1>2
<1>4. /\ pc' = "find" /\ rows' = rows /\ rows = << >>
  BY DEF MoveFirst, ShapeInv
<1>5. DOMAIN rows' = {}
  BY <1>4
<1>6. PlaceInv'
  BY <1>2, <1>3, <1>4 DEF PlaceInv, Unturned, Searching, Placed
<1>7. UnderInv' /\ NoneTwice'
  BY <1>4, <1>5 DEF UnderInv, NoneTwice, Placed
<1> QED BY <1>6, <1>7 DEF StraightInv

LEMMA OnceFind ==
  ASSUME ShapeInv, StoredInv, StraightInv, QueryFind
  PROVE  StraightInv'
<1>1. PICK i \in Entries :
        FirstFrom(bitKey_toLong(queryHead.low), i) /\ ToPage(i, queryHead.solid)
  BY DEF QueryFind
<1>2. /\ pc = "find" /\ pc' = "split" /\ subQueryFinished' = FALSE /\ queue' = queue
      /\ rows' = rows /\ UNCHANGED store
  BY DEF QueryFind
<1>3. pos' = i /\ numeric_cmp(bitKey_toLong(queryHead.low), index[i]) <= 0
  BY <1>1 DEF ToPage, FirstFrom
<1>4. index' = index /\ Entries' = Entries
  BY <1>2, StoredKept
<1>5. PlaceInv'
  BY <1>2, <1>3, <1>4 DEF StraightInv, PlaceInv, queryHead, Unturned
<1>6. UnderInv'
  BY <1>2, <1>4 DEF StraightInv, UnderInv, FullKey, Placed, Under, Left, DifferAt
<1>7. NoneTwice'
  BY <1>2 DEF StraightInv, NoneTwice
<1> QED BY <1>5, <1>6, <1>7 DEF StraightInv

\* Halves of a straight subquery are straight.
LEMMA HalvesUnturned ==
  ASSUME NEW q \in SubQuery, NEW b \in Bits, SplitBit(q, b), Unturned(q.low, q.high)
  PROVE  /\ Unturned(LowerHalf(q, b).low, LowerHalf(q, b).high)
         /\ Unturned(UpperHalf(q, b).low, UpperHalf(q, b).high)
<1> SUFFICES ASSUME Dims = 2, WordBits - 1 \in Bits
             PROVE  /\ Unturned(LowerHalf(q, b).low, LowerHalf(q, b).high)
                    /\ Unturned(UpperHalf(q, b).low, UpperHalf(q, b).high)
  <2>1. CASE Dims # 2
    BY <2>1 DEF Unturned
  <2>2. CASE WordBits - 1 \notin Bits
    <3>1. LowerHalf(q, b).low \in Key /\ UpperHalf(q, b).low \in Key
      BY HalfBounds DEF SubQuery
    <3> QED BY <2>2, <3>1 DEF Unturned, Key
  <2> QED BY <2>1, <2>2
<1> DEFINE top == WordBits - 1
           s == LowerHalf(q, b)
           r == UpperHalf(q, b)
<1>1. /\ s.low = q.low /\ r.high = q.high /\ b \notin s.high /\ b \in r.low
      /\ \A j \in Bits : j > b => /\ j \in s.high <=> j \in q.high
                                  /\ j \in r.low <=> j \in q.low
  BY HalfBounds
<1> HIDE DEF s, r
<1>2. b \in Int /\ top \in Int /\ b <= top /\ \A j \in Bits : j >= top => j = top
  BY KeyBitsRange, WidthAssumption DEF Bits, KeyBits
<1>3. top \in q.low => top \in q.high
  BY DEF Unturned
<1>4. b = top => top \notin q.low /\ top \in q.high
  <2> SUFFICES ASSUME b = top, top \in q.low <=> top \in q.high PROVE FALSE
    BY <1>3
  <2>1. q.low \in Key /\ q.high \in Key /\ top \in Bits
    BY DEF SubQuery
  <2>2. \A j \in Bits : j >= top => (j \in q.low <=> j \in q.high)
    BY <1>2
  <2>3. bitKey_getBit(q.low, top) = bitKey_getBit(q.high, top)
    BY <2>1, <2>2, AnyWindow
  <2> QED BY <2>3 DEF SplitBit
<1> HIDE DEF top
<1>5. CASE b = top
  BY <1>1, <1>4, <1>5 DEF Unturned, top, s, r
<1>6. CASE b < top
  <2>1. (top \in s.high <=> top \in q.high) /\ (top \in r.low <=> top \in q.low)
    BY <1>1, <1>6 DEF top
  <2> QED BY <1>1, <1>3, <2>1 DEF Unturned, top, s, r
<1> QED BY <1>2, <1>5, <1>6

LEMMA OnceSplit ==
  ASSUME ShapeInv, StoredInv, StraightInv, SplitQuery
  PROVE  StraightInv'
<1>1. PICK b \in Bits :
        /\ SplitBit(queryHead, b)
        /\ queue' = <<LowerHalf(queryHead, b), UpperHalf(queryHead, b)>> \o Tail(queue)
  BY DEF SplitQuery
<1>2. /\ pc = "split" /\ pc' = pc /\ subQueryFinished' = FALSE
      /\ UNCHANGED <<store, pos, rows>>
  BY DEF SplitQuery
<1>3. /\ TypeOK /\ queue # << >> /\ queryHead \in SubQuery /\ queryHead = queue[1]
      /\ 1 \in DOMAIN queue /\ queue \in Seq(SubQuery)
      /\ PlaceInv /\ UnderInv /\ NoneTwice
  BY <1>2, HeadInUse DEF Searching, TypeOK, StraightInv
<1> DEFINE s == LowerHalf(queryHead, b)
           r == UpperHalf(queryHead, b)
<1>4. s \in SubQuery /\ r \in SubQuery /\ s.low = queryHead.low
  BY <1>1, <1>3, HalfBounds
<1>5. Unturned(s.low, s.high) /\ Unturned(r.low, r.high)
  BY <1>1, <1>3, HalvesUnturned DEF PlaceInv
<1>6. \A k : Under(k, queryHead) => Under(k, s) /\ Under(k, r)
  BY <1>1, <1>3, UnderHalves
<1>7. queue' = <<s, r>> \o Tail(queue)
  BY <1>1
<1> HIDE DEF s, r
<1>8. /\ queue'[1] = s /\ queue'[2] = r
      /\ \A n \in DOMAIN queue' :
           n \in Nat /\ n > 0 /\ (n > 2 => n - 1 \in DOMAIN queue /\ queue'[n] = queue[n - 1])
  BY <1>3, <1>4, <1>7, PushTwo
<1>9. \A n \in DOMAIN queue' : n = 1 \/ n = 2 \/ n > 2
  BY <1>8
<1>10. index' = index /\ Entries' = Entries
  BY <1>2, StoredKept
<1>11. PlaceInv'
  <2>1. \A n \in DOMAIN queue' : Unturned(queue'[n].low, queue'[n].high)
    BY <1>3, <1>5, <1>8, <1>9 DEF PlaceInv
  <2>2. numeric_cmp(bitKey_toLong(s.low), index[pos]) <= 0
    BY <1>2, <1>3, <1>4 DEF PlaceInv, Searching
  <2> QED BY <1>2, <1>8, <1>10, <2>1, <2>2 DEF PlaceInv, queryHead, Unturned
<1>12. UnderInv'
  <2>1. ASSUME NEW k \in DOMAIN rows, NEW n \in DOMAIN queue'
        PROVE  Under(FullKey(rows[k].tid), queue'[n])
    <3>1. \A m \in DOMAIN queue : Under(FullKey(rows[k].tid), queue[m])
      BY <1>2, <1>3 DEF UnderInv, Placed
    <3>2. Under(FullKey(rows[k].tid), s) /\ Under(FullKey(rows[k].tid), r)
      BY <1>3, <1>6, <3>1
    <3> QED BY <1>8, <1>9, <3>1, <3>2
  <2>2. \A k \in DOMAIN rows : rows[k].tid \in Entries
    BY <1>3 DEF UnderInv
  <2> QED BY <1>2, <1>10, <2>1, <2>2 DEF UnderInv, FullKey, Placed, Under, Left, DifferAt
<1>13. NoneTwice'
  BY <1>2, <1>3 DEF NoneTwice
<1> QED BY <1>11, <1>12, <1>13 DEF StraightInv

\* A step that only changes pc, from row to next or without a row.
LEMMA OnceGoesOn ==
  ASSUME ShapeInv, StoredInv, StraightInv,
         pc' \in Searching \cup Placed => pc \in Searching \cup Placed,
         pc \in Placed <=> pc' \in Placed,
         UNCHANGED <<store, queue, subQueryFinished, pos, rows>>
  PROVE  StraightInv'
<1>1. index' = index /\ Entries' = Entries /\ PlaceInv /\ UnderInv /\ NoneTwice
  BY StoredKept DEF StraightInv
<1>2. PlaceInv'
  BY <1>1 DEF PlaceInv, queryHead, Unturned
<1>3. UnderInv'
  <2>1. \A k \in DOMAIN rows : rows[k].tid \in Entries
    BY <1>1 DEF UnderInv
  <2>2. \A k \in DOMAIN rows, n \in DOMAIN queue :
          n > 1 \/ pc' \notin Placed => Under(FullKey(rows[k].tid), queue[n])
    BY <1>1 DEF UnderInv
  <2>3. pc' \in Placed => \A k \in DOMAIN rows :
          rows[k].tid <= pos \/ Under(FullKey(rows[k].tid), queryHead)
    BY <1>1 DEF UnderInv
  <2> QED BY <1>1, <2>1, <2>2, <2>3 DEF UnderInv, FullKey, queryHead, Under, Left, DifferAt
<1>4. NoneTwice'
  BY <1>1 DEF NoneTwice
<1> QED BY <1>2, <1>3, <1>4 DEF StraightInv

LEMMA OnceMatchSolid ==
  ASSUME ShapeInv, StoredInv, StraightInv, MatchSolid
  PROVE  StraightInv'
<1>1. /\ pc = "match" /\ UNCHANGED <<store, pos>> /\ pc \in Searching
  BY DEF MatchSolid, Searching
<1>2. CASE RawMatches(pos)
  <2>1. ReturnRow(pos, coords)
    BY <1>2 DEF MatchSolid
  <2>2. pos \in Entries /\ numeric_cmp(bitKey_toLong(queryHead.low), index[pos]) <= 0
    BY <1>1, HeadInUse DEF StraightInv, PlaceInv
  <2> QED BY <1>1, <1>2, <2>1, <2>2, RowsBefore, OnceReturn
<1>3. CASE ~ RawMatches(pos)
  BY <1>1, <1>3, OnceRelease DEF MatchSolid
<1> QED BY <1>2, <1>3

LEMMA OnceMatchKey ==
  ASSUME ShapeInv, StoredInv, StraightInv, MatchKey
  PROVE  StraightInv'
<1>1. /\ pc = "match" /\ UNCHANGED <<store, pos>> /\ pc \in Searching /\ ~ queryHead.solid
      /\ KeyMatches /\ ReturnRow(pos, bitKey_toCoords(currentKey))
  BY DEF MatchKey, Searching
<1>2. pos \in Entries /\ numeric_cmp(bitKey_toLong(queryHead.low), index[pos]) <= 0
  BY <1>1, HeadInUse DEF StraightInv, PlaceInv
<1>3. InBox(queryHead, FullKey(pos))
  <2>1. currentKey = FullKey(pos)
    BY <1>1, <1>2 DEF ShapeInv, FreshInv, StoredInv
  <2> QED BY <1>1, <2>1 DEF KeyMatches, InBox
<1> QED BY <1>1, <1>2, <1>3, RowsBefore, OnceReturn

LEMMA OnceNextSolid ==
  ASSUME ShapeInv, StoredInv, StraightInv, NextSolid
  PROVE  StraightInv'
<1>1. /\ pc = "next" /\ UNCHANGED store /\ pos + 1 \in Entries /\ pc \in Searching \cup Placed
      /\ pos' = pos + 1
  BY DEF NextSolid, Placed, zcurve_scan_move_next, ToPage
<1>2. CASE RawMatches(pos + 1)
  <2>1. ReturnRow(pos + 1, coords)
    BY <1>2 DEF NextSolid
  <2>2. numeric_cmp(bitKey_toLong(queryHead.low), index[pos + 1]) <= 0
    BY <1>1, NextInPlace DEF StraightInv
  <2> QED BY <1>1, <1>2, <2>1, <2>2, RowsBefore, OnceReturn
<1>3. CASE ~ RawMatches(pos + 1)
  BY <1>1, <1>3, OnceRelease DEF NextSolid
<1> QED BY <1>2, <1>3

LEMMA OnceNextKey ==
  ASSUME ShapeInv, StoredInv, StraightInv, NextKey
  PROVE  StraightInv'
<1>1. /\ pc = "next" /\ ~ queryHead.solid /\ UNCHANGED store
      /\ checkNextPage /\ zcurve_scan_move_next(FALSE) /\ pc \in Searching \cup Placed
  BY DEF NextKey, Placed
<1>2. pos + 1 \in Entries /\ pos' = pos + 1 /\ currentKey' = bitKey_fromLong(index[pos + 1])
  BY <1>1, AnyAdvance
<1>3. numeric_cmp(bitKey_toLong(queryHead.low), index[pos + 1]) <= 0
  BY <1>1, <1>2, NextInPlace DEF StraightInv
<1>4. currentKey' = FullKey(pos + 1)
  BY <1>2 DEF StoredInv
<1>5. \/ releaseSubQuery
      \/ /\ bitKey_between(currentKey', queryHead.low, queryHead.high)
         /\ ReturnRow(pos + 1, bitKey_toCoords(currentKey'))
      \/ Continue(pc)
  BY <1>1 DEF NextKey
<1>6. CASE /\ bitKey_between(currentKey', queryHead.low, queryHead.high)
           /\ ReturnRow(pos + 1, bitKey_toCoords(currentKey'))
  <2>1. InBox(queryHead, FullKey(pos + 1))
    BY <1>4, <1>6 DEF InBox
  <2> QED BY <1>1, <1>2, <1>3, <1>6, <2>1, RowsBefore, OnceReturn
<1> QED BY <1>1, <1>5, <1>6, OnceRelease, OnceWalk

LEMMA OnceStep ==
  ASSUME ShapeInv, StoredInv, Straight, StraightInv, Next
  PROVE  StraightInv'
<1>1. CASE MoveFirst
  BY <1>1, OnceMoveFirst
<1>2. CASE MoveNext
  <2>1. pc = "row" /\ ~ subQueryFinished
    BY <1>2 DEF MoveNext, StraightInv, PlaceInv, Placed
  <2> QED BY <1>2, <2>1, OnceGoesOn DEF MoveNext, Continue, Placed
<1>3. CASE SplitRunsAway
  BY <1>3, OnceGoesOn DEF SplitRunsAway, Searching, Placed
<1>4. CASE QueryFind
  BY <1>4, OnceFind
<1>5. CASE QueryFindFails \/ QueueEmpty \/ NextFails
  BY <1>5, OnceClose DEF QueryFindFails, QueueEmpty, NextFails, closeQuery
<1>6. CASE SplitQuery
  BY <1>6, OnceSplit
<1>7. CASE SplitDone
  BY <1>7, OnceGoesOn DEF SplitDone, Continue, Searching, Placed
<1>8. CASE MatchSolid
  BY <1>8, OnceMatchSolid
<1>9. CASE MatchKey
  BY <1>9, OnceMatchKey
<1>10. CASE MatchSkips
  BY <1>10, OnceWalk DEF MatchSkips
<1>11. CASE MatchExhausted \/ NextPageExhausted
  BY <1>11, OnceRelease DEF MatchExhausted, NextPageExhausted
<1>12. CASE NextSolid
  BY <1>12, OnceNextSolid
<1>13. CASE NextKey
  BY <1>13, OnceNextKey
<1> QED BY <1>1, <1>2, <1>3, <1>4, <1>5, <1>6, <1>7, <1>8, <1>9, <1>10, <1>11, <1>12, <1>13
        DEF Next, Run, FindStep, SplitStep, MatchStep, NextStep

LEMMA OnceNext ==
  ASSUME OnceInv, [Next]_vars
  PROVE  OnceInv'
<1>1. ShapeInv /\ StoredInv /\ ShapeInv'
  BY ShapeNext DEF OnceInv
<1>2. UNCHANGED store
  <2>1. CASE UNCHANGED vars
    BY <2>1 DEF vars, store
  <2>2. CASE Next
    BY <2>2 DEF Next, MoveFirst, MoveNext, Run, FindStep, SplitStep, MatchStep, NextStep,
         QueryFind, QueryFindFails, QueueEmpty, SplitQuery, SplitRunsAway, SplitDone,
         MatchSolid, MatchKey, MatchSkips, MatchExhausted,
         NextFails, NextSolid, NextPageExhausted, NextKey
  <2> QED BY <2>1, <2>2
<1>3. StoredInv' /\ (Straight' <=> Straight)
  BY <1>1, <1>2, StoredKept
<1>4. ASSUME Straight PROVE StraightInv'
  <2>1. StraightInv
    BY <1>4 DEF OnceInv
  <2>2. CASE UNCHANGED vars
    <3>1. UNCHANGED <<store, queue, subQueryFinished, pos, rows, pc>>
      BY <2>2 DEF vars, store
    <3> QED BY <1>1, <2>1, <3>1, OnceGoesOn
  <2>3. CASE Next
    BY <1>1, <1>4, <2>1, <2>3, OnceStep
  <2> QED BY <2>2, <2>3
<1> QED BY <1>1, <1>3, <1>4 DEF OnceInv

\* The invariant holds of every lookup for which the keys stored are read back,
\* as they always are in two dimensions.
THEOREM OnceInvariance == ASSUME KeysReadBack PROVE Spec => []OnceInv
<1>1. Init => OnceInv
  BY OnceInit
<1>2. OnceInv /\ [Next]_vars => OnceInv'
  BY OnceNext
<1> QED BY <1>1, <1>2, PTL DEF Spec

\* So they are in three dimensions where they are int8 values, as those of
\* coordinates below 2^21 are.
LEMMA Int8KeysReadBack ==
  ASSUME Dims = 3 => \A p \in Points : \A k \in bitKey_fromCoords(p) :
                       \A b \in k : b < WordBits - 1
  PROVE  KeysReadBack
BY FromCoordsKey, Int8Keys DEF KeysReadBack, bitKey_fromLong, bitKey_toLong

\* The sign bit of a key is the top bit of a coordinate.
LEMMA OrderedStraight ==
  ASSUME ExtentsOrdered
  PROVE  ExtentsStraight
<1> SUFFICES ASSUME NEW e \in Extents, NEW low \in bitKey_fromCoords(e.min),
                    NEW high \in bitKey_fromCoords(e.max),
                    Dims = 2, WordBits - 1 \in low, WordBits - 1 \notin high
             PROVE  FALSE
  BY DEF ExtentsStraight, Unturned
<1> DEFINE top == WordBits - 1
           d   == Axis(top)
           c   == top \div Dims
<1>1. e.min \in Point /\ e.max \in Point
  BY QueryAssumption
<1>2. low = KeyOfPoint(e.min) /\ high = KeyOfPoint(e.max)
  BY <1>1, MadeKey DEF Fits
<1>3. top \in Bits /\ c \in e.min[d] /\ c \notin e.max[d]
  BY <1>2 DEF KeyOfPoint
<1>4. top = 2 * CoordBits - 1 /\ c = CoordBits - 1 /\ CoordBits \in Nat
  BY <1>3, WidthAssumption DEF Bits, KeyBits
<1>5. d \in 1 .. Dims
  BY <1>3, BitPlaces
<1> HIDE DEF top, d, c
<1>6. \A j \in e.max[d] \cup e.min[d] : j \in 0 .. CoordBits - 1
  BY <1>1, <1>5 DEF Point, Coord
<1>7. Less(e.max[d], e.min[d])
  BY <1>3, <1>4, <1>6 DEF Less
<1> QED BY <1>5, <1>7 DEF ExtentsOrdered

\* No entry is returned twice, negative coordinates or not, if no extent's low
\* key has its sign bit alone.
THEOREM RowsOnce == ASSUME KeysReadBack, ExtentsStraight PROVE Spec => []NoneTwice
<1>1. OnceInv => NoneTwice
  <2> SUFFICES ASSUME OnceInv PROVE NoneTwice
    OBVIOUS
  <2>1. Straight
    BY DEF OnceInv, StoredInv, ExtentsStraight, Straight
  <2> QED BY <2>1 DEF OnceInv, StraightInv
<1> QED BY <1>1, OnceInvariance, PTL

----------------------------------------------------------------------------
\* Initially.
LEMMA ExtentKeys ==
  ASSUME SmallPoints, NEW p \in Points
  PROVE  bitKey_fromCoords(p) = {KeyOfPoint(p)} /\ Unsigned(KeyOfPoint(p))
<1>1. Fits(p)
  <2> SUFFICES ASSUME Dims = 3 PROVE Fits(p)
    BY DEF Fits
  <2>1. bit3Key_fromCoords(p, FALSE) = KeyOfPoint(p)
    <3>1. (UNION {Spread(p, j) : j \in Turns}) \cup {} = KeyOfPoint(p)
      BY TurnsTakeAll
    <3> QED BY <3>1 DEF bit3Key_fromCoords
  <2>2. KeyOfPoint(p) \in bitKey_fromCoords(p)
    <3>1. bitKey_fromCoords(p) = {bit3Key_fromCoords(p, w) : w \in BOOLEAN}
      BY DEF bitKey_fromCoords
    <3>2. FALSE \in BOOLEAN
      OBVIOUS
    <3> QED BY <2>1, <3>1, <3>2
  <2>3. Unsigned(KeyOfPoint(p))
    BY <2>2 DEF SmallPoints
  <2>4. \A b \in KeyOfPoint(p) : b \in Int /\ b < Room
    BY <2>3, UnsignedKey, KeyIsIntSet
  <2>5. \A b \in KeyOfPoint(p) : b < WordBits
    BY <2>4, RoomRange, WidthAssumption
  <2> QED BY <2>5, LowKeyFits
<1>2. bitKey_fromCoords(p) = {KeyOfPoint(p)}
  BY <1>1, MadeKey, QueryAssumption
<1> QED BY <1>2 DEF SmallPoints

LEMMA StoredNumerics ==
  ASSUME SmallPoints
  PROVE  \A n \in Stored : /\ n \in Numeric /\ n.neg = FALSE /\ Unsigned(n.bits)
                           /\ bitKey_fromLong(n) = n.bits
<1> TAKE n \in Stored
<1>1. PICK p \in Points : n = bitKey_toLong(KeyOfPoint(p))
  BY ExtentKeys DEF Stored
<1>2. Unsigned(KeyOfPoint(p))
  BY ExtentKeys
<1>3. n = [neg |-> FALSE, bits |-> KeyOfPoint(p)]
  BY <1>1, <1>2, NumericOfKey
<1>4. n \in Numeric /\ n.neg = FALSE /\ Unsigned(n.bits)
  BY <1>2, <1>3, UnsignedKey DEF Numeric
<1>5. bitKey_fromLong(n) = n.bits
  <2>1. CASE Dims = 2
    BY <1>4, <2>1 DEF bitKey_fromLong, bit2Key_fromLong, numeric_int8
  <2>2. CASE Dims = 3
    <3>1. \A b \in KeyOfPoint(p) : b < HalfBits
      BY <1>2, <2>2, UnsignedKey, RoomRange
    <3> QED BY <1>3, <2>2, <3>1, HalfKeys, DecodeEncode, QueryAssumption
         DEF bitKey_fromLong, bitKey_toLong, bit3Key_toLong
  <2> QED BY <2>1, <2>2, WidthAssumption
<1> QED BY <1>4, <1>5

LEMMA InitInv ==
  ASSUME SmallPoints, Init
  PROVE  IInv
<1>1. PICK n \in 0 .. MaxEntries : index \in [1 .. n -> Stored]
  BY DEF Init
<1>2. n \in Nat /\ Entries = 1 .. n /\ \A i \in Entries : index[i] \in Stored
  BY <1>1, QueryAssumption DEF Entries
<1>3. \A i \in Entries : /\ index[i] \in Numeric /\ index[i].neg = FALSE
                         /\ Unsigned(KeyOf(i)) /\ bitKey_fromLong(index[i]) = KeyOf(i)
  BY <1>2, StoredNumerics DEF KeyOf
<1>4. index \in Seq(Numeric)
  <2>1. index \in [1 .. n -> Numeric]
    BY <1>1, <1>2, <1>3 DEF Entries
  <2> QED BY <1>2, <2>1, SeqDef
<1>5. Len(index) = n
  BY <1>2, <1>4, LenProperties DEF Entries
<1>6. TypeOK
  <2>1. extent \in [min : Point, max : Point]
    BY QueryAssumption DEF Init
  <2>2. pageEnds \subseteq Entries
    BY DEF Init, Entries
  <2>3. queue \in Seq(SubQuery) /\ rows \in Seq(Row)
    BY EmptySeq DEF Init
  <2>4. coords \in Point
    BY <2>1 DEF Init
  <2>5. currentKey \in Key /\ lastKey \in Key
    BY DEF Init, Key
  <2> QED BY <1>4, <2>1, <2>2, <2>3, <2>4, <2>5 DEF TypeOK, Init, Pcs
<1>7. IndexInv
  <2>1. \A i, j \in Entries : i <= j => LessEq(KeyOf(i), KeyOf(j))
    <3> SUFFICES ASSUME NEW i \in Entries, NEW j \in Entries, i <= j
                 PROVE  LessEq(KeyOf(i), KeyOf(j))
      OBVIOUS
    <3>1. numeric_cmp(index[i], index[j]) <= 0
      BY DEF Init, Sorted, Entries
    <3>2. numeric_cmp(index[i], index[j]) = Compare(KeyOf(i), KeyOf(j))
      BY <1>3 DEF numeric_cmp, KeyOf
    <3>3. KeyOf(i) \in Key /\ KeyOf(j) \in Key
      BY <1>3, UnsignedKey
    <3> QED BY <3>1, <3>2, <3>3, CompareKeys
  <2>2. ASSUME NEW i \in Entries, i + 1 \notin Entries PROVE i \in pageEnds
    <3>1. i = n /\ index # << >>
      BY <1>2, <1>4, <1>5, <2>2, EmptySeq
    <3> QED BY <1>5, <3>1 DEF Init
  <2> QED BY <1>3, <2>1, <2>2 DEF IndexInv, Init
<1>8. Len(queue) = 0 /\ DOMAIN queue = {} /\ DOMAIN rows = {} /\ free = 0 /\ pc = "start"
  BY DEF Init
<1>9. BoundsInv /\ ChainInv /\ CursorInv /\ RowsInv /\ RowsAscend /\ NoRunaway
  BY <1>8 DEF BoundsInv, ChainInv, CursorInv, RowsInv, RowsAscend, NoRunaway,
              Searching, Placed, Init
<1>10. NodesInv
  BY <1>8, KeyBitsRange DEF NodesInv
<1> QED BY <1>6, <1>7, <1>9, <1>10 DEF IInv

----------------------------------------------------------------------------
\* The index stays what it is.
LEMMA StoreKept ==
  ASSUME TypeOK, IndexInv, UNCHANGED store
  PROVE  /\ index' \in Seq(Numeric) /\ pageEnds' \subseteq Entries'
         /\ extent' \in [min : Point, max : Point]
         /\ IndexInv'
BY DEF TypeOK, IndexInv, store, Entries, KeyOf

\* Popping the head leaves a chain above the rows.
LEMMA ReleaseInv ==
  ASSUME IInv, pc \in {"match", "next"}, releaseSubQuery, UNCHANGED store,
         pos' \in Nat, currentKey' \in Key, lastKey' \in Key
  PROVE  IInv'
<1> USE DEF IInv
<1>1. queue # << >> /\ queue \in Seq(SubQuery)
  BY DEF TypeOK
<1>2. /\ queue' \in Seq(SubQuery) /\ Len(queue') = Len(queue) - 1
      /\ Len(queue) \in Nat /\ Len(queue) > 0
      /\ \A n \in DOMAIN queue' :
           n \in Nat /\ n > 0 /\ n + 1 \in DOMAIN queue /\ queue'[n] = queue[n + 1]
  BY <1>1, Pop DEF releaseSubQuery
<1>3. rows' = rows /\ coords' = coords /\ opened' = opened /\ pc' = "find"
      /\ free' = free + 1 /\ subQueryFinished' = TRUE
  BY DEF releaseSubQuery
<1>4. TypeOK'
  BY <1>2, <1>3, StoreKept DEF TypeOK, Pcs
<1>5. IndexInv' /\ index' = index
  BY StoreKept DEF store
<1>6. BoundsInv'
  BY <1>2 DEF BoundsInv, Agree, Left
<1>7. ChainInv'
  BY <1>2 DEF ChainInv
<1>8. CursorInv' /\ NoRunaway'
  BY <1>3 DEF CursorInv, NoRunaway, Searching, Placed
<1>9. RowsInv'
  <2>1. \A k \in DOMAIN rows' : rows'[k].tid \in Entries'
    BY <1>3, <1>5 DEF RowsInv, Entries
  <2>2. ASSUME NEW k \in DOMAIN rows', NEW n \in DOMAIN queue'
        PROVE  Less(index'[rows'[k].tid].bits, queue'[n].low)
    <3>1. n + 1 \in DOMAIN queue /\ n + 1 > 1 /\ queue'[n] = queue[n + 1]
      BY <1>2
    <3>2. Less(KeyOf(rows[k].tid), queue[n + 1].low)
      BY <1>3, <3>1 DEF RowsInv
    <3> QED BY <1>3, <1>5, <3>1, <3>2 DEF KeyOf
  <2> QED BY <1>3, <2>1, <2>2 DEF RowsInv, Placed, KeyOf, Entries
<1>10. RowsAscend'
  BY <1>3 DEF RowsAscend
<1>11. NodesInv'
  BY <1>1, NodesPop
<1> QED BY <1>4, <1>5, <1>6, <1>7, <1>8, <1>9, <1>10, <1>11

\* Closing the query leaves nothing to hold of the queue.
LEMMA CloseInv ==
  ASSUME IInv, UNCHANGED store, queue' = << >>, free' = 0, pc' = "done",
         subQueryFinished' \in BOOLEAN, opened' = FALSE,
         UNCHANGED <<pos, currentKey, lastKey, coords, rows>>
  PROVE  IInv'
<1> USE DEF IInv
<1>1. TypeOK' /\ IndexInv' /\ index' = index
  BY StoreKept, EmptySeq DEF TypeOK, Pcs, store
<1>2. DOMAIN queue' = {} /\ Len(queue') = 0
  OBVIOUS
<1>3. BoundsInv' /\ ChainInv' /\ CursorInv' /\ NoRunaway'
  BY <1>2 DEF BoundsInv, ChainInv, CursorInv, NoRunaway, Searching, Placed
<1>4. RowsInv' /\ RowsAscend'
  BY <1>1, <1>2 DEF RowsInv, RowsAscend, Placed, Entries, KeyOf
<1>5. NodesInv'
  BY <1>2, KeyBitsRange DEF NodesInv
<1> QED BY <1>1, <1>3, <1>4, <1>5

\* While the queue and the rows stay, so does what is said of them alone.
LEMMA QueueKept ==
  ASSUME IInv, UNCHANGED <<store, queue, free, rows>>
  PROVE  BoundsInv' /\ ChainInv' /\ NodesInv' /\ RowsAscend' /\ IndexInv' /\ index' = index
<1>1. BoundsInv' /\ ChainInv'
  BY DEF IInv, BoundsInv, ChainInv, Agree, Left
<1>2. NodesInv' /\ RowsAscend'
  BY DEF IInv, NodesInv, RowsAscend, Left
<1> QED BY <1>1, <1>2, StoreKept DEF IInv, store

\* A row the cursor is put on, beyond those returned, is returned in order.
LEMMA ReturnInv ==
  ASSUME IInv, pc \in {"match", "next"}, UNCHANGED store,
         NEW i \in Entries, NEW xy \in Point, ReturnRow(i, xy), pos' = i,
         \A k \in DOMAIN rows : rows[k].tid < i,
         LessEq(queryHead.low, KeyOf(i)), LessEq(KeyOf(i), queryHead.high),
         currentKey' \in Key, lastKey' \in Key,
         ~ queryHead.solid =>
           /\ currentKey' = KeyOf(i)
           /\ \E e \in Entries : LastOfPage(i, e) /\ lastKey' = KeyOf(e)
  PROVE  IInv'
<1> DEFINE row == [tid |-> i, coords |-> xy, raw |-> queryHead.solid]
<1>1. /\ rows' = Append(rows, row) /\ pc' = "row" /\ coords' = xy
      /\ UNCHANGED <<queue, free, subQueryFinished, opened>>
  BY DEF ReturnRow
<1>2. TypeOK /\ queue # << >> /\ 1 \in DOMAIN queue /\ queryHead \in SubQuery
  BY QueueFacts DEF IInv, TypeOK, queryHead
<1>3. row \in Row /\ row.tid = i /\ i \in Nat /\ i > 0
  BY <1>2, EntryFacts DEF Row, SubQuery
<1>4. rows \in Seq(Row)
  BY <1>2 DEF TypeOK
<1> HIDE DEF row
<1>5. /\ rows' \in Seq(Row) /\ Len(rows) \in Nat
      /\ DOMAIN rows = 1 .. Len(rows) /\ DOMAIN rows' = 1 .. Len(rows) + 1
      /\ rows'[Len(rows) + 1] = row
      /\ \A k \in DOMAIN rows : rows'[k] = rows[k]
      /\ \A k \in DOMAIN rows' : k \in DOMAIN rows \/ k = Len(rows) + 1
  BY <1>1, <1>3, <1>4, AppendRow
<1>6. IndexInv' /\ index' = index /\ pageEnds' = pageEnds
  BY StoreKept DEF store, IInv
<1>7. TypeOK'
  <2>1. pos' \in Nat /\ pos' \in Entries' /\ queue' # << >>
    BY <1>1, <1>2, <1>3, <1>6 DEF Entries
  <2>2. /\ index' \in Seq(Numeric) /\ pageEnds' \subseteq Entries'
        /\ extent' \in [min : Point, max : Point]
    BY <1>2, StoreKept DEF IInv
  <2>3. /\ queue' \in Seq(SubQuery) /\ free' \in Nat
        /\ subQueryFinished' \in BOOLEAN /\ opened' \in BOOLEAN
    BY <1>1, <1>2 DEF TypeOK
  <2> QED BY <1>1, <1>5, <2>1, <2>2, <2>3 DEF TypeOK, Pcs
<1>8. BoundsInv' /\ ChainInv'
  BY <1>1 DEF IInv, BoundsInv, ChainInv, Agree, Left
<1>9. NodesInv'
  BY <1>1 DEF IInv, NodesInv, Left
<1>10. CursorInv'
  BY <1>1, <1>6 DEF IInv, Searching, Placed, CursorInv, queryHead, KeyOf, LastOfPage, Entries
<1>11. RowsInv'
  <2>1. \A k \in DOMAIN rows : rows[k].tid \in Entries /\ rows[k].tid \in Nat
    BY <1>2, RowFacts DEF RowsInv, IInv
  <2>2. ASSUME NEW k \in DOMAIN rows'
        PROVE  rows'[k].tid \in Entries' /\ rows'[k].tid <= pos'
    <3>1. CASE k \in DOMAIN rows
      BY <1>3, <1>5, <1>6, <2>1, <3>1 DEF Entries
    <3>2. CASE k = Len(rows) + 1
      BY <1>3, <1>5, <1>6, <3>2 DEF Entries
    <3> QED BY <1>5, <3>1, <3>2
  <2>3. ASSUME NEW k \in DOMAIN rows', NEW n \in DOMAIN queue', n > 1
        PROVE  Less(index'[rows'[k].tid].bits, queue'[n].low)
    <3>1. n \in DOMAIN queue /\ queue'[n] = queue[n] /\ queue[n].low \in Key
      BY <1>1, <1>2, QueueFacts
    <3>2. CASE k \in DOMAIN rows
      <4>1. Less(KeyOf(rows[k].tid), queue[n].low)
        BY <2>3, <3>1, <3>2 DEF RowsInv, IInv
      <4> QED BY <1>5, <1>6, <3>1, <3>2, <4>1 DEF KeyOf
    <3>3. CASE k = Len(rows) + 1
      <4>1. Less(queryHead.high, queue[n].low)
        BY <1>2, <2>3, <3>1 DEF ChainInv, IInv, queryHead
      <4>2. KeyOf(i) \in Key /\ queryHead.high \in Key
        BY <1>2, EntryFacts DEF SubQuery
      <4>3. Less(KeyOf(i), queue[n].low)
        BY <3>1, <4>1, <4>2, LessEqLess
      <4> QED BY <1>3, <1>5, <1>6, <3>1, <3>3, <4>3 DEF KeyOf
    <3> QED BY <1>5, <3>2, <3>3
  <2> QED BY <1>1, <2>2, <2>3 DEF RowsInv, Placed, KeyOf
<1>12. RowsAscend'
  <2> SUFFICES ASSUME NEW j \in DOMAIN rows', NEW k \in DOMAIN rows', j < k
               PROVE  rows'[j].tid < rows'[k].tid
    BY DEF RowsAscend
  <2>1. j \in DOMAIN rows
    BY <1>5
  <2>2. CASE k \in DOMAIN rows
    BY <1>5, <2>1, <2>2 DEF RowsAscend, IInv
  <2>3. CASE k = Len(rows) + 1
    BY <1>3, <1>5, <2>1, <2>3
  <2> QED BY <1>5, <2>2, <2>3
<1>13. NoRunaway'
  BY <1>1 DEF NoRunaway
<1> QED BY <1>6, <1>7, <1>8, <1>9, <1>10, <1>11, <1>12, <1>13 DEF IInv

----------------------------------------------------------------------------
\* The cursor.
LEMMA HeadFacts ==
  ASSUME IInv, pc \in Searching \cup Placed
  PROVE  /\ queue # << >> /\ 1 \in DOMAIN queue /\ queryHead \in SubQuery
         /\ queryHead.low \in Key /\ queryHead.high \in Key
         /\ Agree(queryHead) /\ Unsigned(queryHead.low) /\ Unsigned(queryHead.high)
         /\ pos \in Entries /\ LessEq(queryHead.low, KeyOf(pos))
<1>1. queue # << >> /\ TypeOK
  BY DEF IInv, TypeOK, Searching, Placed
<1>2. 1 \in DOMAIN queue
  BY <1>1, QueueFacts
<1> QED BY <1>1, <1>2, QueueFacts DEF IInv, CursorInv, BoundsInv, queryHead

\* While a match is looked for, the cursor is past what has been returned.
LEMMA RowsBehind ==
  ASSUME IInv, pc \in {"find", "split", "match"}, queue # << >>,
         NEW i \in Entries, LessEq(queryHead.low, KeyOf(i))
  PROVE  \A k \in DOMAIN rows : rows[k].tid < i
<1> TAKE k \in DOMAIN rows
<1>1. TypeOK /\ IndexInv /\ RowsInv
  BY DEF IInv
<1>2. 1 \in DOMAIN queue /\ queryHead.low \in Key
  BY <1>1, QueueFacts DEF queryHead
<1>3. rows[k].tid \in Entries /\ Less(KeyOf(rows[k].tid), queryHead.low)
  BY <1>1, <1>2 DEF RowsInv, Placed, queryHead
<1>4. KeyOf(i) \in Key /\ KeyOf(rows[k].tid) \in Key /\ i \in Nat /\ rows[k].tid \in Nat
  BY <1>1, <1>3, EntryFacts
<1>5. Less(KeyOf(rows[k].tid), KeyOf(i))
  BY <1>2, <1>3, <1>4, LessLessEq
<1>6. i <= rows[k].tid => LessEq(KeyOf(i), KeyOf(rows[k].tid))
  BY <1>1, <1>3 DEF IndexInv
<1> QED BY <1>4, <1>5, <1>6 DEF LessEq

\* The key of a page's last entry is not below that of the others on it.
LEMMA NextEntryAbove ==
  ASSUME IInv, pc \in Searching \cup Placed, pos + 1 \in Entries
  PROVE  LessEq(queryHead.low, KeyOf(pos + 1)) /\ pos < pos + 1
<1>1. pos \in Entries /\ LessEq(queryHead.low, KeyOf(pos)) /\ queryHead.low \in Key
  BY HeadFacts
<1>2. pos \in Nat /\ KeyOf(pos) \in Key /\ KeyOf(pos + 1) \in Key
  BY <1>1, EntryFacts DEF IInv
<1>3. LessEq(KeyOf(pos), KeyOf(pos + 1))
  BY <1>1, <1>2 DEF IInv, IndexInv
<1> QED BY <1>1, <1>2, <1>3, LessEqTransitive

\* Entries of the index and keys compare as their bits do.
LEMMA EntryCompares ==
  ASSUME SmallPoints, IInv, NEW i \in Entries, NEW k, Unsigned(k)
  PROVE  /\ numeric_cmp(bitKey_toLong(k), index[i]) <= 0 <=> LessEq(k, KeyOf(i))
         /\ numeric_cmp(bitKey_toLong(k), index[i]) > 0 <=> Less(KeyOf(i), k)
         /\ numeric_cmp(index[i], bitKey_toLong(k)) <= 0 <=> LessEq(KeyOf(i), k)
         /\ bitKey_fromLong(index[i]) = KeyOf(i)
<1>1. index[i] \in Numeric /\ index[i].neg = FALSE /\ KeyOf(i) \in Key
  BY EntryFacts DEF IInv, IndexInv
<1>2. k \in Key
  BY UnsignedKey
<1>3. /\ numeric_cmp(bitKey_toLong(k), index[i]) = Compare(k, KeyOf(i))
      /\ numeric_cmp(index[i], bitKey_toLong(k)) = Compare(KeyOf(i), k)
  BY <1>1, NumericCompare DEF KeyOf
<1>4. bitKey_fromLong(index[i]) = KeyOf(i)
  BY DEF IInv, IndexInv
<1> QED BY <1>1, <1>2, <1>3, <1>4, CompareKeys

\* A step to the next entry keeps the keys fresh.
LEMMA Advance ==
  ASSUME SmallPoints, IInv, pc \in {"match", "next"}, ~ queryHead.solid,
         checkNextPage, zcurve_scan_move_next(FALSE)
  PROVE  /\ pos + 1 \in Entries /\ pos' = pos + 1
         /\ currentKey' = KeyOf(pos + 1)
         /\ \E e \in Entries : LastOfPage(pos + 1, e) /\ lastKey' = KeyOf(e)
<1>1. pc \in Searching \cup Placed
  BY DEF Searching, Placed
<1>2. pos \in Entries /\ Unsigned(queryHead.high)
  BY <1>1, HeadFacts
<1>3. pos + 1 \in Entries
  BY <1>2 DEF checkNextPage, IInv, IndexInv
<1>4. /\ pos \in Nat /\ pageEnds \subseteq Entries
      /\ \A e \in Entries : e \in Nat /\ bitKey_fromLong(index[e]) = KeyOf(e)
  BY <1>2, EntryFacts, EntryCompares DEF IInv, TypeOK
<1>5. CASE pos \in pageEnds
  BY <1>3, <1>4, <1>5 DEF zcurve_scan_move_next, ToPage
<1>6. CASE pos \notin pageEnds
  <2>1. pos' = pos + 1 /\ currentKey' = KeyOf(pos + 1) /\ lastKey' = lastKey
    BY <1>3, <1>4, <1>6 DEF zcurve_scan_move_next
  <2>2. PICK e \in Entries : LastOfPage(pos, e) /\ lastKey = KeyOf(e)
    BY <1>1 DEF IInv, CursorInv
  <2>3. LastOfPage(pos + 1, e)
    BY <1>4, <1>6, <2>2 DEF LastOfPage
  <2> QED BY <1>3, <2>1, <2>2, <2>3
<1> QED BY <1>5, <1>6

\* The walk goes on, past what is not in the box.
LEMMA WalkInv ==
  ASSUME SmallPoints, IInv, pc \in {"match", "next"}, ~ queryHead.solid,
         checkNextPage, zcurve_scan_move_next(FALSE), Continue(pc), UNCHANGED store
  PROVE  IInv'
<1>1. /\ pos + 1 \in Entries /\ pos' = pos + 1 /\ currentKey' = KeyOf(pos + 1)
      /\ \E e \in Entries : LastOfPage(pos + 1, e) /\ lastKey' = KeyOf(e)
  BY Advance
<1>2. BoundsInv' /\ ChainInv' /\ NodesInv' /\ RowsAscend' /\ IndexInv' /\ index' = index
  BY QueueKept DEF Continue
<1>3. LessEq(queryHead.low, KeyOf(pos + 1)) /\ pos < pos + 1
  BY <1>1, NextEntryAbove DEF Searching, Placed
<1>4. /\ \A e \in Entries : KeyOf(e) \in Key /\ e \in Nat
      /\ TypeOK
  BY EntryFacts DEF IInv
<1>5. TypeOK'
  BY <1>1, <1>2, <1>4, StoreKept DEF TypeOK, Continue, IInv, Entries
<1>6. pageEnds' = pageEnds /\ queue' = queue /\ pc' = pc /\ rows' = rows
  BY DEF store, Continue
<1>7. CursorInv'
  BY <1>1, <1>2, <1>3, <1>6 DEF IInv, Continue, Searching, Placed, CursorInv, queryHead, KeyOf, LastOfPage, Entries
<1>8. RowsInv'
  <2>1. \A k \in DOMAIN rows : rows[k].tid \in Entries /\ rows[k].tid \in Nat
    BY <1>4 DEF IInv, RowsInv
  <2>2. ASSUME pc \in Placed, NEW k \in DOMAIN rows PROVE rows[k].tid <= pos + 1
    <3>1. rows[k].tid <= pos
      BY <2>2 DEF IInv, RowsInv
    <3>2. pos \in Nat /\ rows[k].tid \in Nat
      BY <1>4, <2>1 DEF TypeOK
    <3> QED BY <3>1, <3>2
  <2> QED BY <1>1, <1>2, <1>6, <2>1, <2>2 DEF RowsInv, IInv, KeyOf, Entries, Placed
<1>9. NoRunaway'
  BY <1>6 DEF NoRunaway
<1> QED BY <1>2, <1>5, <1>7, <1>8, <1>9 DEF IInv

----------------------------------------------------------------------------
\* The steps of the loops.
LEMMA MoveFirstInv ==
  ASSUME SmallPoints, IInv, MoveFirst
  PROVE  IInv'
<1>1. extent.min \in Points /\ extent.max \in Points
  BY QueryAssumption DEF IInv, IndexInv
<1> DEFINE low == KeyOfPoint(extent.min)
           high == KeyOfPoint(extent.max)
           q == NewSubQuery(low, high, KeyBits - 1)
<1>2. Unsigned(low) /\ Unsigned(high) /\ queue' = <<q>>
  BY <1>1, ExtentKeys DEF MoveFirst
<1>3. KeyBits - 1 \in Bits /\ KeyBits - 1 # CurBitMax
  BY KeyBitsRange DEF Bits, CurBitMax
<1> HIDE DEF low, high
<1>4. q \in SubQuery /\ q.low = low /\ q.high = high /\ q.curBitNum = KeyBits - 1
  BY <1>2, <1>3, NewSubQueryType, UnsignedKey
<1> HIDE DEF q
<1>5. Left(q) = KeyBits - 1 /\ Agree(q)
  BY <1>3, <1>4, KeyBitsRange DEF Left, Agree, Bits
<1>6. queue' \in Seq(SubQuery) /\ Len(queue') = 1 /\ DOMAIN queue' = {1} /\ queue'[1] = q
  BY <1>2, <1>4
<1>7. /\ pc' = "find" /\ rows = << >> /\ queue = << >>
      /\ UNCHANGED <<store, free, subQueryFinished, opened, pos, currentKey, lastKey, coords,
                     rows>>
  BY DEF MoveFirst, IInv, RowsInv
<1>8. IndexInv' /\ TypeOK'
  BY <1>6, <1>7, StoreKept DEF IInv, TypeOK, Pcs
<1>9. BoundsInv'
  BY <1>2, <1>4, <1>5, <1>6 DEF BoundsInv, Agree, Left
<1>10. ChainInv'
  BY <1>6 DEF ChainInv
<1>11. CursorInv' /\ NoRunaway' /\ RowsInv' /\ RowsAscend'
  BY <1>7 DEF CursorInv, NoRunaway, RowsInv, RowsAscend, Searching, Placed
<1>12. NodesInv'
  <2>1. free' = 0
    BY <1>7 DEF IInv, RowsInv, MoveFirst
  <2> QED BY <1>5, <1>6, <2>1, KeyBitsRange DEF NodesInv, Left
<1> QED BY <1>8, <1>9, <1>10, <1>11, <1>12 DEF IInv

\* QueryFind: the first entry from the head's low key on.
LEMMA QueryFindInv ==
  ASSUME SmallPoints, IInv, QueryFind
  PROVE  IInv'
<1>1. PICK i \in Entries : FirstFrom(bitKey_toLong(queryHead.low), i) /\ ToPage(i, queryHead.solid)
  BY DEF QueryFind
<1>2. /\ pc = "find" /\ queue # << >> /\ pc' = "split" /\ subQueryFinished' = FALSE
      /\ UNCHANGED <<store, queue, free, opened, coords, rows>>
  BY DEF QueryFind
<1>3. /\ TypeOK /\ 1 \in DOMAIN queue /\ queryHead \in SubQuery
      /\ Unsigned(queryHead.low) /\ queryHead.low \in Key
  BY <1>2, QueueFacts DEF IInv, BoundsInv, queryHead
<1>4. LessEq(queryHead.low, KeyOf(i))
  BY <1>1, <1>3, EntryCompares DEF FirstFrom
<1>5. BoundsInv' /\ ChainInv' /\ NodesInv' /\ RowsAscend' /\ IndexInv' /\ index' = index
  BY <1>2, QueueKept
<1>6. /\ pageEnds' = pageEnds /\ queue' = queue /\ rows' = rows /\ pos' = i
      /\ \A e \in Entries : e \in Nat /\ KeyOf(e) \in Key /\ bitKey_fromLong(index[e]) = KeyOf(e)
  BY <1>1, <1>2, <1>3, EntryFacts, EntryCompares DEF store, ToPage
<1>7. ~ queryHead.solid =>
        /\ currentKey' = KeyOf(i)
        /\ \E e \in Entries : LastOfPage(i, e) /\ lastKey' = KeyOf(e)
  BY <1>1, <1>6 DEF ToPage
<1>8. currentKey' \in Key /\ lastKey' \in Key
  BY <1>1, <1>3, <1>6, <1>7 DEF ToPage, TypeOK
<1>9. TypeOK'
  BY <1>2, <1>3, <1>5, <1>6, <1>8, StoreKept DEF TypeOK, IInv, Entries, Pcs
<1>10. CursorInv'
  BY <1>2, <1>4, <1>5, <1>6, <1>7 DEF CursorInv, queryHead, KeyOf, LastOfPage, Entries
<1>11. RowsInv' /\ NoRunaway'
  BY <1>2, <1>5, <1>6 DEF IInv, RowsInv, NoRunaway, KeyOf, Entries, Placed
<1> QED BY <1>5, <1>9, <1>10, <1>11 DEF IInv

\* A head that must be split has bounds in order, so a bit to split at.
LEMMA MustSplitFacts ==
  ASSUME SmallPoints, IInv, pc = "split", MustSplit
  PROVE  Less(queryHead.low, queryHead.high)
<1>1. /\ pos \in Entries /\ LessEq(queryHead.low, KeyOf(pos))
      /\ queryHead.low \in Key /\ queryHead.high \in Key /\ Unsigned(queryHead.high)
  BY HeadFacts DEF Searching
<1>2. PICK e \in Entries : LastOfPage(pos, e) /\ lastKey = KeyOf(e)
  BY DEF IInv, CursorInv, Searching, MustSplit
<1>3. KeyOf(e) \in Key /\ KeyOf(pos) \in Key /\ Unsigned(KeyOf(e))
  BY <1>1, <1>2, EntryFacts DEF IInv, IndexInv
<1>4. Less(KeyOf(e), queryHead.high)
  BY <1>1, <1>2, <1>3, CompareSmall DEF MustSplit
<1>5. LessEq(KeyOf(pos), KeyOf(e))
  BY <1>1, <1>2 DEF IInv, IndexInv, LastOfPage
<1>6. LessEq(queryHead.low, KeyOf(e))
  BY <1>1, <1>3, <1>5, LessEqTransitive
<1> QED BY <1>1, <1>3, <1>4, <1>6, LessEqLess

LEMMA NeverRunsAway ==
  ASSUME SmallPoints, IInv PROVE ~ SplitRunsAway
<1> SUFFICES ASSUME pc = "split", MustSplit PROVE \E b \in Bits : SplitBit(queryHead, b)
  BY DEF SplitRunsAway
<1>1. /\ queryHead \in SubQuery /\ Agree(queryHead)
      /\ Unsigned(queryHead.low) /\ Unsigned(queryHead.high)
  BY HeadFacts DEF Searching
<1>2. Less(queryHead.low, queryHead.high)
  BY MustSplitFacts
<1> QED BY <1>1, <1>2, TopBitExists, SplitBitIsTop

\* The halves take the head's place in the chain.
LEMMA SplitQueryInv ==
  ASSUME SmallPoints, IInv, SplitQuery
  PROVE  IInv'
<1>1. PICK b \in Bits :
        /\ SplitBit(queryHead, b)
        /\ queue' = <<LowerHalf(queryHead, b), UpperHalf(queryHead, b)>> \o Tail(queue)
  BY DEF SplitQuery
<1>2. /\ pc = "split" /\ MustSplit /\ pc' = pc /\ ~ queryHead.solid
      /\ free' = (IF free > 0 THEN free - 1 ELSE 0) /\ subQueryFinished' = FALSE
      /\ UNCHANGED <<store, opened, pos, currentKey, lastKey, coords, rows>>
  BY DEF SplitQuery, MustSplit, createQuery
<1>3. /\ queue # << >> /\ 1 \in DOMAIN queue /\ queryHead \in SubQuery /\ queryHead = queue[1]
      /\ queryHead.low \in Key /\ queryHead.high \in Key
      /\ Agree(queryHead) /\ Unsigned(queryHead.low) /\ Unsigned(queryHead.high)
      /\ queryHead.curBitNum \in Bits
  BY <1>1, <1>2, HeadFacts DEF Searching, queryHead, SplitBit
<1>4. Less(queryHead.low, queryHead.high)
  BY <1>2, MustSplitFacts
<1> DEFINE s == LowerHalf(queryHead, b)
           r == UpperHalf(queryHead, b)
<1>5. /\ s \in SubQuery /\ Agree(s) /\ Unsigned(s.low) /\ Unsigned(s.high)
      /\ r \in SubQuery /\ Agree(r) /\ Unsigned(r.low) /\ Unsigned(r.high)
      /\ s.low = queryHead.low /\ r.high = queryHead.high
      /\ Less(s.high, r.low) /\ Less(queryHead.low, r.low) /\ Less(s.high, queryHead.high)
      /\ Left(s) < Left(queryHead) /\ Left(r) < Left(queryHead)
  BY <1>1, <1>3, <1>4, Halves
<1>6. queue' = <<s, r>> \o Tail(queue)
  BY <1>1
<1> HIDE DEF s, r
<1>7. TypeOK /\ queue \in Seq(SubQuery)
  BY DEF IInv, TypeOK
<1>8. /\ queue' \in Seq(SubQuery) /\ Len(queue') = Len(queue) + 1 /\ queue' # << >>
      /\ queue'[1] = s /\ queue'[2] = r
      /\ \A n \in DOMAIN queue' :
           n \in Nat /\ n > 0 /\ (n > 2 => n - 1 \in DOMAIN queue /\ queue'[n] = queue[n - 1])
  BY <1>3, <1>5, <1>6, <1>7, PushTwo
<1>9. \A n \in DOMAIN queue' : n = 1 \/ n = 2 \/ n > 2
  BY <1>8
<1>10. IndexInv' /\ index' = index /\ pageEnds' = pageEnds
  BY <1>2, StoreKept DEF IInv, store
<1>11. TypeOK'
  <2>1. free' \in Nat
    BY <1>2, <1>7 DEF TypeOK
  <2>2. /\ index' \in Seq(Numeric) /\ pageEnds' \subseteq Entries'
        /\ extent' \in [min : Point, max : Point]
    BY <1>2, <1>7, StoreKept DEF IInv
  <2>3. pos' \in Nat /\ pos' \in Entries'
    BY <1>2, <1>7, <1>10 DEF TypeOK, Entries
  <2> QED BY <1>2, <1>7, <1>8, <2>1, <2>2, <2>3 DEF TypeOK
<1>12. BoundsInv'
  <2> SUFFICES ASSUME NEW n \in DOMAIN queue'
               PROVE  Agree(queue'[n]) /\ Unsigned(queue'[n].low) /\ Unsigned(queue'[n].high)
    BY DEF BoundsInv, Agree, Left
  <2> QED BY <1>5, <1>8, <1>9 DEF BoundsInv, IInv
<1>13. ASSUME NEW n \in DOMAIN queue, n > 1
       PROVE  Less(r.high, queue[n].low) /\ Less(s.high, queue[n].low) /\ queue[n].low \in Key
  <2>1. Less(queryHead.high, queue[n].low) /\ queue[n].low \in Key
    BY <1>3, <1>7, <1>13, QueueFacts DEF ChainInv, IInv
  <2>2. Less(s.high, queue[n].low)
    BY <1>3, <1>5, <2>1, KeyTransitive, UnsignedKey
  <2> QED BY <1>5, <2>1, <2>2
<1>14. ChainInv'
  <2> SUFFICES ASSUME NEW m \in DOMAIN queue', NEW n \in DOMAIN queue', m < n
               PROVE  Less(queue'[m].high, queue'[n].low)
    BY DEF ChainInv
  <2>1. CASE m = 1 /\ n = 2
    BY <1>5, <1>8, <2>1
  <2>2. CASE m \in {1, 2} /\ n > 2
    <3>1. n - 1 \in DOMAIN queue /\ n - 1 > 1 /\ queue'[n] = queue[n - 1]
      BY <1>8, <2>2
    <3> QED BY <1>8, <1>13, <2>2, <3>1
  <2>3. CASE m > 2
    <3>1. /\ n - 1 \in DOMAIN queue /\ queue'[n] = queue[n - 1]
          /\ m - 1 \in DOMAIN queue /\ queue'[m] = queue[m - 1] /\ m - 1 < n - 1
      BY <1>8, <2>3
    <3> QED BY <3>1 DEF ChainInv, IInv
  <2> QED BY <1>8, <1>9, <2>1, <2>2, <2>3
<1>15. CursorInv'
  <2>1. LessEq(s.low, KeyOf(pos)) /\ pos \in Entries /\ currentKey = KeyOf(pos)
        /\ \E e \in Entries : LastOfPage(pos, e) /\ lastKey = KeyOf(e)
    BY <1>2, <1>5 DEF IInv, CursorInv, Searching
  <2> QED BY <1>2, <1>8, <1>10, <2>1 DEF CursorInv, queryHead, KeyOf, LastOfPage, Entries
<1>16. RowsInv'
  <2>1. \A k \in DOMAIN rows : rows[k].tid \in Entries
    BY DEF IInv, RowsInv
  <2>2. ASSUME NEW k \in DOMAIN rows, NEW n \in DOMAIN queue'
        PROVE  Less(KeyOf(rows[k].tid), queue'[n].low)
    <3>1. /\ \A m \in DOMAIN queue : Less(KeyOf(rows[k].tid), queue[m].low)
          /\ KeyOf(rows[k].tid) \in Key
      BY <1>2, <1>7, <2>1, EntryFacts DEF IInv, RowsInv, Placed
    <3>2. Less(KeyOf(rows[k].tid), queryHead.low)
      BY <1>3, <3>1
    <3>3. Less(KeyOf(rows[k].tid), r.low)
      BY <1>3, <1>5, <3>1, <3>2, KeyTransitive, UnsignedKey
    <3> QED BY <1>5, <1>8, <1>9, <3>1, <3>2, <3>3
  <2> QED BY <1>2, <1>10, <2>1, <2>2 DEF RowsInv, KeyOf, Entries, Placed
<1>17. NodesInv'
  <2>1. Left(queryHead) >= 0
    BY <1>3, KeyBitsRange DEF Left, CurBitMax, Bits
  <2>2. queue # << >> /\ NodesInv /\ free' = createQuery(free)
    BY <1>3 DEF IInv, SplitQuery
  <2> QED BY <1>5, <1>6, <1>7, <2>1, <2>2, NodesPush
<1>18. RowsAscend' /\ NoRunaway'
  BY <1>2 DEF IInv, RowsAscend, NoRunaway
<1> QED BY <1>10, <1>11, <1>12, <1>14, <1>15, <1>16, <1>17, <1>18 DEF IInv

LEMMA SplitDoneInv ==
  ASSUME IInv, SplitDone
  PROVE  IInv'
<1>1. /\ pc = "split" /\ pc' = "match" /\ pos' = pos /\ currentKey' = currentKey
      /\ lastKey' = lastKey
      /\ UNCHANGED <<store, queue, free, subQueryFinished, opened, coords, rows>>
  BY DEF SplitDone, Continue
<1>2. BoundsInv' /\ ChainInv' /\ NodesInv' /\ RowsAscend' /\ IndexInv' /\ index' = index
      /\ pageEnds' = pageEnds
  BY <1>1, QueueKept DEF store
<1>3. TypeOK'
  BY <1>1, <1>2, StoreKept DEF TypeOK, IInv, Entries, Pcs
<1>4. CursorInv'
  BY <1>1, <1>2 DEF IInv, CursorInv, queryHead, KeyOf, LastOfPage, Entries, Searching
<1>5. RowsInv' /\ NoRunaway'
  BY <1>1, <1>2 DEF IInv, RowsInv, NoRunaway, KeyOf, Entries, Placed
<1> QED BY <1>2, <1>3, <1>4, <1>5 DEF IInv

LEMMA MoveNextInv ==
  ASSUME IInv, MoveNext
  PROVE  IInv'
<1>1. /\ pc = "row" /\ pc' = "next" /\ pos' = pos /\ currentKey' = currentKey
      /\ lastKey' = lastKey
      /\ UNCHANGED <<store, queue, free, subQueryFinished, opened, coords, rows>>
  BY DEF MoveNext, Continue, IInv, CursorInv, Placed
<1>2. BoundsInv' /\ ChainInv' /\ NodesInv' /\ RowsAscend' /\ IndexInv' /\ index' = index
      /\ pageEnds' = pageEnds
  BY <1>1, QueueKept DEF store
<1>3. TypeOK'
  BY <1>1, <1>2, StoreKept DEF TypeOK, IInv, Entries, Pcs
<1>4. CursorInv'
  BY <1>1, <1>2 DEF IInv, CursorInv, queryHead, KeyOf, LastOfPage, Entries, Placed
<1>5. RowsInv' /\ NoRunaway'
  BY <1>1, <1>2 DEF IInv, RowsInv, NoRunaway, KeyOf, Entries, Placed
<1> QED BY <1>2, <1>3, <1>4, <1>5 DEF IInv

----------------------------------------------------------------------------
LEMMA MatchSolidInv ==
  ASSUME SmallPoints, IInv, MatchSolid
  PROVE  IInv'
<1>1. /\ pc = "match" /\ queryHead.solid /\ pos' = pos /\ currentKey' = currentKey
      /\ lastKey' = lastKey /\ UNCHANGED store
  BY DEF MatchSolid
<1>2. /\ queue # << >> /\ pos \in Entries /\ LessEq(queryHead.low, KeyOf(pos))
      /\ Unsigned(queryHead.high)
  BY <1>1, HeadFacts DEF Searching
<1>3. /\ pos' \in Nat /\ currentKey' \in Key /\ lastKey' \in Key /\ coords \in Point
  BY <1>1 DEF IInv, TypeOK
<1>4. CASE RawMatches(pos)
  <2>1. ReturnRow(pos, coords)
    BY <1>4 DEF MatchSolid
  <2>2. LessEq(KeyOf(pos), queryHead.high)
    BY <1>2, <1>4, EntryCompares DEF RawMatches
  <2>3. \A k \in DOMAIN rows : rows[k].tid < pos
    BY <1>1, <1>2, RowsBehind
  <2> QED BY <1>1, <1>2, <1>3, <2>1, <2>2, <2>3, ReturnInv
<1>5. CASE ~ RawMatches(pos)
  <2>1. releaseSubQuery
    BY <1>5 DEF MatchSolid
  <2> QED BY <1>1, <1>3, <2>1, ReleaseInv
<1> QED BY <1>4, <1>5

LEMMA MatchKeyInv ==
  ASSUME SmallPoints, IInv, MatchKey
  PROVE  IInv'
<1>1. /\ pc = "match" /\ ~ queryHead.solid /\ pos' = pos /\ currentKey' = currentKey
      /\ lastKey' = lastKey /\ UNCHANGED store
      /\ bitKey_cmp(currentKey, queryHead.high) <= 0
      /\ ReturnRow(pos, bitKey_toCoords(currentKey))
  BY DEF MatchKey
<1>2. /\ queue # << >> /\ pos \in Entries /\ LessEq(queryHead.low, KeyOf(pos))
      /\ Unsigned(queryHead.high) /\ Unsigned(KeyOf(pos))
  BY <1>1, HeadFacts DEF Searching, IInv, IndexInv
<1>3. /\ currentKey' = KeyOf(pos)
      /\ \E e \in Entries : LastOfPage(pos, e) /\ lastKey' = KeyOf(e)
  BY <1>1 DEF IInv, CursorInv, Searching
<1>4. currentKey' \in Key /\ lastKey' \in Key
  BY <1>1 DEF IInv, TypeOK
<1>5. LessEq(KeyOf(pos), queryHead.high)
  BY <1>1, <1>2, <1>3, <1>4, CompareSmall
<1>6. \A k \in DOMAIN rows : rows[k].tid < pos
  BY <1>1, <1>2, RowsBehind
<1>7. bitKey_toCoords(currentKey) \in Point
  BY CoordsArePoint
<1> QED BY <1>1, <1>2, <1>3, <1>4, <1>5, <1>6, <1>7, ReturnInv

LEMMA NextSolidInv ==
  ASSUME SmallPoints, IInv, NextSolid
  PROVE  IInv'
<1>1. /\ pc = "next" /\ queryHead.solid /\ pos + 1 \in Entries /\ UNCHANGED store
      /\ zcurve_scan_move_next(TRUE)
  BY DEF NextSolid
<1>2. pos' = pos + 1 /\ currentKey' = currentKey /\ lastKey' = lastKey
  BY <1>1 DEF zcurve_scan_move_next, ToPage
<1>3. /\ queue # << >> /\ pos \in Entries /\ Unsigned(queryHead.high)
  BY <1>1, HeadFacts DEF Placed
<1>4. LessEq(queryHead.low, KeyOf(pos + 1)) /\ pos < pos + 1
  BY <1>1, NextEntryAbove DEF Placed
<1>5. /\ pos' \in Nat /\ currentKey' \in Key /\ lastKey' \in Key /\ coords \in Point
  BY <1>1, <1>2, EntryFacts DEF IInv, TypeOK
<1>6. CASE RawMatches(pos + 1)
  <2>1. ReturnRow(pos + 1, coords)
    BY <1>6 DEF NextSolid
  <2>2. LessEq(KeyOf(pos + 1), queryHead.high)
    BY <1>1, <1>3, <1>6, EntryCompares DEF RawMatches
  <2>3. ASSUME NEW k \in DOMAIN rows PROVE rows[k].tid < pos + 1
    <3>1. rows[k].tid <= pos /\ rows[k].tid \in Nat /\ pos \in Nat
      BY <1>1, RowFacts DEF IInv, RowsInv, Placed, TypeOK
    <3> QED BY <3>1
  <2> QED BY <1>1, <1>2, <1>4, <1>5, <2>1, <2>2, <2>3, ReturnInv
<1>7. CASE ~ RawMatches(pos + 1)
  <2>1. releaseSubQuery
    BY <1>7 DEF NextSolid
  <2> QED BY <1>1, <1>5, <2>1, ReleaseInv
<1> QED BY <1>6, <1>7

LEMMA NextKeyInv ==
  ASSUME SmallPoints, IInv, NextKey
  PROVE  IInv'
<1>1. /\ pc = "next" /\ ~ queryHead.solid /\ UNCHANGED store
      /\ checkNextPage /\ zcurve_scan_move_next(FALSE)
  BY DEF NextKey
<1>2. /\ pos + 1 \in Entries /\ pos' = pos + 1 /\ currentKey' = KeyOf(pos + 1)
      /\ \E e \in Entries : LastOfPage(pos + 1, e) /\ lastKey' = KeyOf(e)
  BY <1>1, Advance
<1>3. /\ queue # << >> /\ Unsigned(queryHead.high) /\ Unsigned(KeyOf(pos + 1))
  BY <1>1, <1>2, HeadFacts DEF Placed, IInv, IndexInv
<1>4. LessEq(queryHead.low, KeyOf(pos + 1))
  BY <1>1, <1>2, NextEntryAbove DEF Placed
<1>5. /\ pos' \in Nat /\ currentKey' \in Key /\ lastKey' \in Key
  BY <1>2, EntryFacts DEF IInv
<1>6. CASE bitKey_cmp(currentKey', queryHead.high) > 0
  <2>1. releaseSubQuery
    BY <1>6 DEF NextKey
  <2> QED BY <1>1, <1>5, <2>1, ReleaseInv
<1>7. CASE /\ ~ bitKey_cmp(currentKey', queryHead.high) > 0
           /\ bitKey_between(currentKey', queryHead.low, queryHead.high)
  <2>1. ReturnRow(pos + 1, bitKey_toCoords(currentKey'))
    BY <1>7 DEF NextKey
  <2>2. LessEq(KeyOf(pos + 1), queryHead.high)
    BY <1>2, <1>3, <1>5, <1>7, CompareSmall DEF LessEq
  <2>3. ASSUME NEW k \in DOMAIN rows PROVE rows[k].tid < pos + 1
    <3>1. rows[k].tid <= pos /\ rows[k].tid \in Nat /\ pos \in Nat
      BY <1>1, RowFacts DEF IInv, RowsInv, Placed, TypeOK
    <3> QED BY <3>1
  <2>4. bitKey_toCoords(currentKey') \in Point
    BY CoordsArePoint
  <2> QED BY <1>1, <1>2, <1>4, <1>5, <2>1, <2>2, <2>3, <2>4, ReturnInv
<1>8. CASE /\ ~ bitKey_cmp(currentKey', queryHead.high) > 0
           /\ ~ bitKey_between(currentKey', queryHead.low, queryHead.high)
  <2>1. Continue(pc)
    BY <1>1, <1>8 DEF NextKey
  <2> QED BY <1>1, <2>1, WalkInv
<1> QED BY <1>6, <1>7, <1>8

----------------------------------------------------------------------------
LEMMA RunInv ==
  ASSUME SmallPoints, IInv, Run
  PROVE  IInv'
<1>1. CASE QueryFind
  BY <1>1, QueryFindInv
<1>2. CASE QueryFindFails
  BY <1>2, CloseInv DEF QueryFindFails
<1>3. CASE QueueEmpty
  <2>1. subQueryFinished \in BOOLEAN
    BY DEF IInv, TypeOK
  <2> QED BY <1>3, <2>1, CloseInv DEF QueueEmpty, closeQuery
<1>4. CASE SplitQuery
  BY <1>4, SplitQueryInv
<1>5. CASE SplitDone
  BY <1>5, SplitDoneInv
<1>6. CASE MatchSolid
  BY <1>6, MatchSolidInv
<1>7. CASE MatchKey
  BY <1>7, MatchKeyInv
<1>8. CASE MatchSkips
  BY <1>8, WalkInv DEF MatchSkips
<1>9. CASE MatchExhausted
  BY <1>9, ReleaseInv DEF MatchExhausted, IInv, TypeOK
<1>10. CASE NextFails
  <2>1. subQueryFinished \in BOOLEAN
    BY DEF IInv, TypeOK
  <2> QED BY <1>10, <2>1, CloseInv DEF NextFails, closeQuery
<1>11. CASE NextSolid
  BY <1>11, NextSolidInv
<1>12. CASE NextPageExhausted
  BY <1>12, ReleaseInv DEF NextPageExhausted, IInv, TypeOK
<1>13. CASE NextKey
  BY <1>13, NextKeyInv
<1> QED BY <1>1, <1>2, <1>3, <1>4, <1>5, <1>6, <1>7, <1>8, <1>9, <1>10, <1>11, <1>12, <1>13
        DEF Run, FindStep, SplitStep, MatchStep, NextStep

LEMMA NextInv ==
  ASSUME SmallPoints, IInv, [Next]_vars
  PROVE  IInv'
<1>1. CASE UNCHANGED vars
  <2>1. UNCHANGED <<store, queue, free, rows>> /\ UNCHANGED <<pageEnds, pos, pc>>
        /\ UNCHANGED <<currentKey, lastKey, coords, opened, subQueryFinished>>
    BY <1>1 DEF vars, store
  <2>2. BoundsInv' /\ ChainInv' /\ NodesInv' /\ RowsAscend' /\ IndexInv' /\ index' = index
    BY <2>1, QueueKept
  <2>3. TypeOK'
    BY <2>1, <2>2, StoreKept DEF IInv, TypeOK, Entries
  <2>4. CursorInv' /\ RowsInv' /\ NoRunaway'
    BY <2>1, <2>2
       DEF IInv, CursorInv, RowsInv, NoRunaway, queryHead, KeyOf, LastOfPage, Entries
  <2> QED BY <2>2, <2>3, <2>4 DEF IInv
<1>2. CASE Next
  BY <1>2, MoveFirstInv, MoveNextInv, RunInv, NeverRunsAway DEF Next
<1> QED BY <1>1, <1>2

\* The inductive invariant holds of every lookup, in two or three dimensions,
\* whose points have small keys.
THEOREM Invariance == ASSUME SmallPoints PROVE Spec => []IInv
<1>1. Init => IInv
  BY InitInv
<1>2. IInv /\ [Next]_vars => IInv'
  BY NextInv
<1> QED BY <1>1, <1>2, PTL DEF Spec

\* The loop over curBitNum_ in findNextMatch always finds a bit to split at.
THEOREM SplittingEnds == ASSUME SmallPoints PROVE Spec => []NoRunaway
<1>1. IInv => NoRunaway
  BY DEF IInv
<1> QED BY <1>1, Invariance, PTL

\* The subqueries in the queue are disjoint intervals in key order: in two
\* dimensions whatever the points are, in three those of small keys.
THEOREM QueueIsChain == ASSUME Dims = 2 \/ SmallPoints PROVE Spec => []QueueOrdered
<1>1. CASE Dims = 2
  <2>1. ShapeInv => QueueOrdered
    <3> SUFFICES ASSUME ShapeInv, NEW i \in DOMAIN queue, NEW j \in DOMAIN queue, i < j
                 PROVE  bitKey_cmp(queue[i].high, queue[j].low) < 0
      BY DEF QueueOrdered
    <3>1. /\ queue[i] \in SubQuery /\ queue[j] \in SubQuery
          /\ queue[i].high \in Key /\ queue[j].low \in Key
      BY QueueFacts DEF ShapeInv
    <3>2. Less(queue[i].high, queue[j].low)
      BY <3>1, LinkLess DEF ShapeInv, LinkInv
    <3> QED BY <1>1, <3>1, <3>2, CompareKeys DEF bitKey_cmp, bit2Key_cmp
  <2> QED BY <2>1, ShapeInvariance, PTL
<1>2. CASE SmallPoints
  <2>1. IInv => QueueOrdered
    <3> SUFFICES ASSUME IInv, NEW i \in DOMAIN queue, NEW j \in DOMAIN queue, i < j
                 PROVE  bitKey_cmp(queue[i].high, queue[j].low) < 0
      BY DEF QueueOrdered
    <3>1. Less(queue[i].high, queue[j].low)
      BY DEF IInv, ChainInv
    <3>2. Unsigned(queue[i].high) /\ Unsigned(queue[j].low)
      BY DEF IInv, BoundsInv
    <3> QED BY <3>1, <3>2, CompareSmall
  <2>2. Spec => []IInv
    BY <1>2, Invariance
  <2> QED BY <2>1, <2>2, PTL
<1> QED BY <1>1, <1>2

\* No entry is returned twice, and rows come in index order.
THEOREM RowsInOrder == ASSUME SmallPoints PROVE Spec => []RowsAscend
<1>1. IInv => RowsAscend
  BY DEF IInv
<1> QED BY <1>1, Invariance, PTL
====
