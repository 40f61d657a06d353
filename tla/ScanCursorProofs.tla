---- MODULE ScanCursorProofs ----
(***************************************************************************)
(* The cursor among writers, for any entries, any keys, any number of      *)
(* blocks and any size of a page: ScanInv holds, and with it everything    *)
(* the runs check of the walk but that calls return.                       *)
(***************************************************************************)
EXTENDS ScanCursorInv, SequenceTheorems, WellFoundedInduction, TLAPS

-----------------------------------------------------------------------------
(* Numbers and sequences.                                                  *)

LEMMA LeastNat ==
  ASSUME NEW T \in SUBSET Nat, T # {}
  PROVE  \E t \in T : \A s \in T : t <= s
<1>1. PICK t \in T : \A s \in T : ~ (<<s, t>> \in OpToRel(<, Nat))
  BY WFMin, NatLessThanWellFounded
<1>2. ASSUME NEW s \in T PROVE t <= s
  <2>1. s \in Nat /\ t \in Nat
    BY <1>1
  <2>2. ~ (<<s, t>> \in OpToRel(<, Nat))
    BY <1>1
  <2>3. ~ (s < t)
    BY <2>1, <2>2 DEF OpToRel
  <2> QED BY <2>1, <2>3
<1> QED BY <1>2

LEMMA GreatestBelow ==
  ASSUME NEW n \in Nat, NEW T \in SUBSET (1 .. n), T # {}
  PROVE  \E t \in T : \A s \in T : s <= t
<1> DEFINE U == {m \in Nat : n - m \in T}
<1>1. U # {}
  <2>1. PICK t \in T : TRUE
    OBVIOUS
  <2>2. n - t \in Nat /\ n - (n - t) = t
    BY <2>1
  <2> QED BY <2>1, <2>2
<1>2. PICK m \in U : \A k \in U : m <= k
  <2> HIDE DEF U
  <2>1. U \in SUBSET Nat
    BY DEF U
  <2> QED BY <1>1, <2>1, LeastNat
<1>3. ASSUME NEW s \in T PROVE s <= n - m
  <2>1. n - s \in Nat /\ n - (n - s) = s /\ m \in Nat
    BY <1>2
  <2>2. n - s \in U
    BY <2>1
  <2>3. m <= n - s
    BY <1>2, <2>2
  <2> QED BY <2>1, <2>3
<1> QED BY <1>2, <1>3

\* What a concatenation of la and lc elements holds.
Joins(S, a, la, c, lc) ==
  \E r \in Seq(S) :
    /\ r = a \o c
    /\ DOMAIN r = 1 .. la + lc
    /\ \A k \in 1 .. la : r[k] = a[k]
    /\ \A k \in 1 .. lc : r[la + k] = c[k]

LEMMA Joined ==
  ASSUME NEW S, NEW a \in Seq(S), NEW c \in Seq(S), NEW la, la = Len(a), NEW lc, lc = Len(c)
  PROVE  Joins(S, a, la, c, lc)
<1> DEFINE r == a \o c
<1>1. la \in Nat /\ lc \in Nat
  BY LenProperties
<1>2. /\ r \in Seq(S) /\ Len(r) = la + lc
      /\ \A i \in 1 .. la + lc : r[i] = IF i <= la THEN a[i] ELSE c[i - la]
  BY ConcatProperties
<1> HIDE DEF r
<1>4. ASSUME NEW k \in 1 .. la PROVE r[k] = a[k]
  <2>1. k \in 1 .. la + lc /\ k <= la
    BY <1>1
  <2> QED BY <1>2, <2>1
<1>5. ASSUME NEW k \in 1 .. lc PROVE r[la + k] = c[k]
  <2>1. la + k \in 1 .. la + lc /\ ~ (la + k <= la) /\ (la + k) - la = k
    BY <1>1
  <2>2. r[la + k] = c[(la + k) - la]
    BY <1>2, <2>1
  <2> QED BY <2>1, <2>2
<1>6. DOMAIN r = 1 .. Len(r)
  BY <1>2, LenProperties
<1>7. r = a \o c
  BY DEF r
<1> QED BY <1>2, <1>4, <1>5, <1>6, <1>7 DEF Joins

\* The two parts of a sequence on either side of a place in it.
LEMMA Parts ==
  ASSUME NEW S, NEW s \in Seq(S), NEW l \in Nat, NEW i \in Nat, l = Len(s), i <= l
  PROVE  /\ SubSeq(s, 1, i) \in Seq(S) /\ Len(SubSeq(s, 1, i)) = i
         /\ \A k \in 1 .. i : SubSeq(s, 1, i)[k] = s[k]
         /\ SubSeq(s, i + 1, l) \in Seq(S) /\ Len(SubSeq(s, i + 1, l)) = l - i
         /\ \A k \in 1 .. l - i : SubSeq(s, i + 1, l)[k] = s[i + k]
<1>1. \A k \in 1 .. l : s[k] \in S
  BY LenProperties
<1>2. /\ SubSeq(s, 1, i) \in Seq(S)
      /\ Len(SubSeq(s, 1, i)) = IF 1 <= i THEN i - 1 + 1 ELSE 0
      /\ \A k \in 1 .. i - 1 + 1 : SubSeq(s, 1, i)[k] = s[1 + k - 1]
  <2>1. \A k \in 1 .. i : s[k] \in S
    BY <1>1
  <2> QED BY <2>1, SubSeqProperties
<1>3. /\ SubSeq(s, i + 1, l) \in Seq(S)
      /\ Len(SubSeq(s, i + 1, l)) = IF i + 1 <= l THEN l - (i + 1) + 1 ELSE 0
      /\ \A k \in 1 .. l - (i + 1) + 1 : SubSeq(s, i + 1, l)[k] = s[i + 1 + k - 1]
  <2>1. \A k \in i + 1 .. l : s[k] \in S
    BY <1>1
  <2> QED BY <2>1, SubSeqProperties
<1> DEFINE a == SubSeq(s, 1, i)
           c == SubSeq(s, i + 1, l)
<1> HIDE DEF a, c
<1>4. Len(a) = i /\ \A k \in 1 .. i : a[k] = s[k]
  <2>1. Len(a) = IF 1 <= i THEN i - 1 + 1 ELSE 0
    BY <1>2 DEF a
  <2>2. \A k \in 1 .. i - 1 + 1 : a[k] = s[1 + k - 1]
    BY <1>2 DEF a
  <2>3. \A k \in 1 .. i : k \in 1 .. i - 1 + 1 /\ 1 + k - 1 = k
    OBVIOUS
  <2> QED BY <2>1, <2>2, <2>3
<1>5. Len(c) = l - i /\ \A k \in 1 .. l - i : c[k] = s[i + k]
  <2>1. Len(c) = IF i + 1 <= l THEN l - (i + 1) + 1 ELSE 0
    BY <1>3 DEF c
  <2>2. \A k \in 1 .. l - (i + 1) + 1 : c[k] = s[i + 1 + k - 1]
    BY <1>3 DEF c
  <2>3. \A k \in 1 .. l - i : k \in 1 .. l - (i + 1) + 1 /\ i + 1 + k - 1 = i + k
    OBVIOUS
  <2> QED BY <2>1, <2>2, <2>3
<1> QED BY <1>2, <1>3, <1>4, <1>5 DEF a, c

\* What a sequence of l elements holds without its i-th.
Removes(S, s, l, i) ==
  \E r \in Seq(S) :
    /\ r = RemoveAt(s, i) /\ l \in Nat /\ DOMAIN s = 1 .. l
    /\ DOMAIN r = 1 .. l - 1
    /\ \A j \in 1 .. l - 1 : r[j] = IF j < i THEN s[j] ELSE s[j + 1]

LEMMA RemovedAt ==
  ASSUME NEW S, NEW s \in Seq(S), NEW i \in DOMAIN s, NEW l, l = Len(s)
  PROVE  Removes(S, s, l, i)
<1>1. l \in Nat /\ i \in 1 .. l /\ DOMAIN s = 1 .. l
  BY LenProperties
<1> DEFINE a == SubSeq(s, 1, i - 1)
           c == SubSeq(s, i + 1, l)
<1>2. /\ a \in Seq(S) /\ Len(a) = i - 1 /\ \A k \in 1 .. i - 1 : a[k] = s[k]
  BY <1>1, Parts
<1>3. /\ c \in Seq(S) /\ Len(c) = l - i /\ \A k \in 1 .. l - i : c[k] = s[i + k]
  BY <1>1, Parts
<1>4. RemoveAt(s, i) = a \o c
  BY DEF RemoveAt
<1> HIDE DEF a, c
<1>5. PICK r \in Seq(S) :
        /\ r = a \o c
        /\ DOMAIN r = 1 .. (i - 1) + (l - i)
        /\ \A k \in 1 .. i - 1 : r[k] = a[k]
        /\ \A k \in 1 .. l - i : r[(i - 1) + k] = c[k]
  <2> DEFINE la == i - 1
             lc == l - i
  <2>1. a \in Seq(S) /\ c \in Seq(S) /\ la = Len(a) /\ lc = Len(c)
    BY <1>2, <1>3
  <2> HIDE DEF la, lc
  <2>2. Joins(S, a, la, c, lc)
    BY <2>1, Joined
  <2> QED BY <2>2 DEF Joins, la, lc
<1>6. r = RemoveAt(s, i)
  BY <1>4, <1>5
<1>7. DOMAIN r = 1 .. l - 1
  <2>1. \A n \in Nat : \A k \in 1 .. n : (k - 1) + (n - k) = n - 1
    OBVIOUS
  <2> QED BY <1>1, <1>5, <2>1
<1>8. ASSUME NEW j \in 1 .. l - 1 PROVE r[j] = IF j < i THEN s[j] ELSE s[j + 1]
  <2>1. CASE j < i
    <3>1. j \in 1 .. i - 1
      BY <1>1, <2>1
    <3> QED BY <1>2, <1>5, <2>1, <3>1
  <2>2. CASE ~ (j < i)
    <3>1. PICK k \in 1 .. l - i : j = (i - 1) + k /\ i + k = j + 1
      <4>1. j - (i - 1) \in 1 .. l - i /\ j = (i - 1) + (j - (i - 1)) /\ i + (j - (i - 1)) = j + 1
        BY <1>1, <2>2
      <4> QED BY <4>1
    <3>2. r[j] = c[k] /\ c[k] = s[j + 1]
      BY <1>3, <1>5, <3>1
    <3> QED BY <2>2, <3>2
  <2> QED BY <2>1, <2>2
<1> QED BY <1>1, <1>6, <1>7, <1>8 DEF Removes

\* What a sequence of l elements holds with e put in after its i-th.
Inserts(S, s, l, i, e) ==
  \E r \in Seq(S) :
    /\ r = InsertAt(s, i + 1, e) /\ l \in Nat /\ DOMAIN s = 1 .. l
    /\ DOMAIN r = 1 .. l + 1
    /\ \A j \in 1 .. l + 1 :
         r[j] = IF j <= i THEN s[j] ELSE IF j = i + 1 THEN e ELSE s[j - 1]

LEMMA InsertedAt ==
  ASSUME NEW S, NEW s \in Seq(S), NEW e \in S, NEW i \in DOMAIN s, NEW l, l = Len(s)
  PROVE  Inserts(S, s, l, i, e)
<1>1. l \in Nat /\ i \in 1 .. l /\ DOMAIN s = 1 .. l
  BY LenProperties
<1> DEFINE a == SubSeq(s, 1, i)
           c == SubSeq(s, i + 1, l)
           o == <<e>>
<1>2. /\ a \in Seq(S) /\ Len(a) = i /\ \A k \in 1 .. i : a[k] = s[k]
  BY <1>1, Parts
<1>3. /\ c \in Seq(S) /\ Len(c) = l - i /\ \A k \in 1 .. l - i : c[k] = s[i + k]
  BY <1>1, Parts
<1>4. InsertAt(s, i + 1, e) = (a \o o) \o c
  <2>1. (i + 1) - 1 = i
    BY <1>1
  <2> QED BY <2>1 DEF InsertAt
<1>5. o \in Seq(S) /\ Len(o) = 1 /\ o[1] = e
  OBVIOUS
<1> HIDE DEF a, c, o
<1>6. PICK m \in Seq(S) :
        /\ m = a \o o
        /\ DOMAIN m = 1 .. i + 1
        /\ \A k \in 1 .. i : m[k] = a[k]
        /\ \A k \in 1 .. 1 : m[i + k] = o[k]
  <2> DEFINE one == 1
  <2>1. a \in Seq(S) /\ o \in Seq(S) /\ i = Len(a) /\ one = Len(o)
    BY <1>2, <1>5
  <2> HIDE DEF one
  <2>2. Joins(S, a, i, o, one)
    BY <2>1, Joined
  <2> QED BY <2>2 DEF Joins, one
<1>7. Len(m) = i + 1
  <2>1. Len(m) \in Nat /\ DOMAIN m = 1 .. Len(m)
    BY LenProperties
  <2> QED BY <1>1, <1>6, <2>1
<1>8. PICK r \in Seq(S) :
        /\ r = m \o c
        /\ DOMAIN r = 1 .. (i + 1) + (l - i)
        /\ \A k \in 1 .. i + 1 : r[k] = m[k]
        /\ \A k \in 1 .. l - i : r[(i + 1) + k] = c[k]
  <2> DEFINE lm == i + 1
             lc == l - i
  <2>1. m \in Seq(S) /\ c \in Seq(S) /\ lm = Len(m) /\ lc = Len(c)
    BY <1>3, <1>7
  <2> HIDE DEF lm, lc
  <2>2. Joins(S, m, lm, c, lc)
    BY <2>1, Joined
  <2> QED BY <2>2 DEF Joins, lm, lc
<1>9. r = InsertAt(s, i + 1, e)
  BY <1>4, <1>6, <1>8
<1>10. DOMAIN r = 1 .. l + 1
  BY <1>1, <1>8
<1>11. ASSUME NEW j \in 1 .. l + 1
       PROVE  r[j] = IF j <= i THEN s[j] ELSE IF j = i + 1 THEN e ELSE s[j - 1]
  <2>1. CASE j <= i
    <3>1. j \in 1 .. i /\ j \in 1 .. i + 1
      BY <1>1, <2>1
    <3> QED BY <1>2, <1>6, <1>8, <2>1, <3>1
  <2>2. CASE j = i + 1
    <3>1. j \in 1 .. i + 1 /\ 1 \in 1 .. 1 /\ ~ (j <= i)
      BY <1>1, <2>2
    <3> QED BY <1>5, <1>6, <1>8, <2>2, <3>1
  <2>3. CASE j > i + 1
    <3>1. PICK k \in 1 .. l - i : j = (i + 1) + k /\ i + k = j - 1
      <4>1. \A n \in Nat : \A d \in 1 .. n, x \in 1 .. n + 1 : x > d + 1 =>
              /\ x - (d + 1) \in 1 .. n - d
              /\ x = (d + 1) + (x - (d + 1)) /\ d + (x - (d + 1)) = x - 1
        OBVIOUS
      <4> QED BY <1>1, <2>3, <4>1
    <3>2. r[j] = c[k] /\ c[k] = s[j - 1]
      BY <1>3, <1>8, <3>1
    <3>3. ~ (j <= i) /\ j # i + 1
      BY <1>1, <2>3
    <3> QED BY <3>2, <3>3
  <2> QED BY <1>1, <2>1, <2>2, <2>3
<1> QED BY <1>1, <1>9, <1>10, <1>11 DEF Inserts

-----------------------------------------------------------------------------
(* What a writer does, told to the cursor.                                 *)

TreeTypes ==
  /\ items \in [Blocks -> SUBSET Entry]
  /\ low \in [Blocks -> Keys \cup {0}]
  /\ next \in [Blocks -> Blocks \cup {NoBlock}]
  /\ kind \in [Blocks -> Kinds]
  /\ parent \in Seq(Blocks)

\* A writer keeps the order of the pages, and moves an entry only from a page
\* that the cursor has not locked to one on its right.
Carried(left, left2) ==
  /\ \A b \in Blocks : left[b] \subseteq left2[b]
  /\ \A p \in Blocks : \A e \in items'[p] : e \in stable' =>
       \E q \in Blocks : e \in items[q] /\ (p = q \/ (Unlocked(q) /\ q \in left2[p]))
  /\ \A b \in Blocks : kind[b] # "free" => kind'[b] # "free"

\* The numbers among the types.
LEMMA Numbers ==
  ASSUME TreeTypes
  PROVE  /\ \A b \in Blocks : low[b] \in Nat /\ b # NoBlock
         /\ \A e \in Entry : Key(e) \in Nat /\ e \in Nat
         /\ \A d, e \in Entry : d <= e => Key(d) <= Key(e)
<1>1. \A e \in Entry : Key(e) \in Nat /\ e \in Nat
  BY EntryAssumption
<1>2. ASSUME NEW d \in Entry, NEW e \in Entry, d <= e PROVE Key(d) <= Key(e)
  <2>1. CASE d = e
    BY <1>1, <2>1
  <2>2. CASE d # e
    <3>1. d < e
      BY <1>1, <1>2, <2>2
    <3> QED BY <3>1, EntryAssumption
  <2> QED BY <2>1, <2>2
<1>3. ASSUME NEW b \in Blocks PROVE low[b] \in Nat /\ b # NoBlock
  <2>1. b # NoBlock
    BY BlocksAssumption DEF NoBlock
  <2>2. low[b] \in Keys \cup {0}
    BY DEF TreeTypes
  <2> QED BY <1>1, <2>1, <2>2 DEF Keys
<1> QED BY <1>1, <1>2, <1>3

LEMMA FreeBlock ==
  ASSUME HasRoom
  PROVE  NewBlock \in Blocks /\ kind[NewBlock] = "free"
BY DEF HasRoom, NewBlock

\* Entries can be on any page; what is on the pages is what there is.
LEMMA OnAPage ==
  ASSUME NEW e \in Present
  PROVE  \E p \in Blocks : e \in items[p]
BY DEF Present

LEMMA VacuumKeepsTree ==
  ASSUME NEW left \in [Blocks -> SUBSET Blocks], TreeTypes, TreeInv(left), stable \subseteq Present,
         NEW b \in Blocks, NEW e \in Entry, Vacuum(b, e)
  PROVE  /\ TreeTypes' /\ (stable \subseteq Present)'
         /\ TreeInv(left)' /\ Carried(left, left)
<1>1. /\ items' = [items EXCEPT ![b] = @ \ {e}]
      /\ low' = low /\ next' = next /\ kind' = kind /\ parent' = parent
      /\ stable' = stable \ {e}
  BY DEF Vacuum, Written
<1>2. \A p \in Blocks : items'[p] \subseteq items[p] /\ (items[p] \ {e}) \subseteq items'[p]
  BY <1>1 DEF TreeTypes
<1>3. TreeTypes'
  BY <1>1 DEF TreeTypes
<1>4. (stable \subseteq Present)'
  BY <1>1, <1>2 DEF Present
<1>5. Ordered(left)' /\ ChainInv(left)' /\ ParentInv(left)'
  BY <1>1 DEF TreeInv, Ordered, StrictOrder, ChainInv, ParentInv, Used, InChain, Ignored, Live
<1>6. RangeInv(left)'
  <2>1. \A p \in Blocks : \A d \in items'[p] : d \in items[p]
    BY <1>2
  <2> QED BY <1>1, <2>1 DEF TreeInv, RangeInv, Used, InChain, Live
<1>7. Carried(left, left)
  BY <1>1, <1>2 DEF Carried
<1> QED BY <1>3, <1>4, <1>5, <1>6, <1>7 DEF TreeInv

LEMMA InsertKeepsTree ==
  ASSUME NEW left \in [Blocks -> SUBSET Blocks], TreeTypes, TreeInv(left), stable \subseteq Present,
         NEW b \in Blocks, NEW e \in Entry, Insert(b, e)
  PROVE  /\ TreeTypes' /\ (stable \subseteq Present)'
         /\ TreeInv(left)' /\ Carried(left, left)
<1>1. /\ items' = [items EXCEPT ![b] = @ \cup {e}]
      /\ low' = low /\ next' = next /\ kind' = kind /\ parent' = parent
      /\ stable' = stable
  BY DEF Insert, Written
<1>2. /\ \A p \in Blocks : items[p] \subseteq items'[p]
      /\ \A p \in Blocks : \A d \in items'[p] : d \in items[p] \/ (p = b /\ d = e)
  BY <1>1 DEF TreeTypes
<1>3. \A p \in Blocks : e \notin items[p]
  BY DEF Insert, Present
<1>4. TreeTypes'
  BY <1>1 DEF TreeTypes
<1>5. (stable \subseteq Present)'
  BY <1>1, <1>2 DEF Present
<1>6. Ordered(left)' /\ ChainInv(left)' /\ ParentInv(left)'
  BY <1>1 DEF TreeInv, Ordered, StrictOrder, ChainInv, ParentInv, Used, InChain, Ignored, Live
<1>7. RangeInv(left)'
  <2>1. \A p \in Blocks : \A d \in items'[p] : Live(p) /\ low[p] <= Key(d)
    BY <1>2 DEF TreeInv, RangeInv, Insert
  <2>2. \A p, q \in Blocks : \A d \in items'[p] : d \in items'[q] => p = q
    BY <1>2, <1>3 DEF TreeInv, RangeInv
  <2>3. ASSUME NEW q \in InChain, b \in left[q] PROVE Key(e) <= low[q]
    <3>1. b \in Used /\ b \in Blocks /\ q \in Blocks
      BY DEF Insert, Live, Used, InChain
    <3>2. /\ next[b] # NoBlock /\ (q = next[b] \/ next[b] \in left[q])
          /\ next[b] \in InChain
      BY <2>3, <3>1 DEF TreeInv, ChainInv, Insert, Live, InChain
    <3>3. low[next[b]] <= low[q]
      <4>1. low[q] \in Nat
        BY <3>1, Numbers
      <4> QED BY <3>2, <4>1 DEF TreeInv, RangeInv
    <3>4. Key(e) <= low[next[b]]
      BY <3>2 DEF Insert
    <3>5. Key(e) \in Nat /\ low[q] \in Nat /\ low[next[b]] \in Nat
      BY <3>1, <3>2, Numbers DEF InChain
    <3> QED BY <3>3, <3>4, <3>5
  <2>4. \A p, q \in InChain :
          p \in left[q] => low[p] <= low[q] /\ \A d \in items'[p] : Key(d) <= low[q]
    BY <1>2, <2>3 DEF TreeInv, RangeInv, InChain
  <2>5. \A p \in Blocks \ Used : next[p] = NoBlock /\ low[p] = 0
    BY DEF TreeInv, RangeInv
  <2> QED BY <1>1, <2>1, <2>2, <2>4, <2>5 DEF RangeInv, Used, InChain, Live
<1>8. Carried(left, left)
  <2>1. \A p \in Blocks : \A d \in items'[p] : d \in stable' => d \in items[p]
    BY <1>1, <1>2, <1>3 DEF Present
  <2> QED BY <1>1, <2>1 DEF Carried
<1> QED BY <1>4, <1>5, <1>6, <1>7, <1>8 DEF TreeInv

LEMMA CreateKeepsTree ==
  ASSUME NEW left \in [Blocks -> SUBSET Blocks], TreeTypes, TreeInv(left), stable \subseteq Present,
         NEW e \in Entry, Create(e)
  PROVE  /\ TreeTypes' /\ (stable \subseteq Present)'
         /\ TreeInv(left)' /\ Carried(left, left)
<1> DEFINE n == NewBlock
<1>1. /\ items' = [items EXCEPT ![n] = {e}]
      /\ kind' = [kind EXCEPT ![n] = "leaf"]
      /\ parent' = <<n>>
      /\ low' = low /\ next' = next
      /\ stable' = stable
      /\ parent = <<>> /\ n \in Blocks /\ kind[n] = "free"
  BY FreeBlock DEF Create, Written
<1> HIDE DEF n
<1>2. Used = {}
  BY <1>1 DEF TreeInv, ParentInv
<1>3. \A b \in Blocks : kind[b] = "free" /\ left[b] = {} /\ items[b] = {} /\ next[b] = NoBlock /\ low[b] = 0
  <2>1. \A b \in Blocks : kind[b] = "free"
    BY <1>2 DEF Used
  <2>2. \A b \in Blocks : left[b] = {} /\ next[b] = NoBlock /\ low[b] = 0
    BY <1>2 DEF TreeInv, Ordered, StrictOrder, RangeInv
  <2>3. \A b \in Blocks : items[b] = {}
    BY <2>1 DEF TreeInv, RangeInv, Live
  <2> QED BY <2>1, <2>2, <2>3
<1>4. stable = {}
  BY <1>3 DEF Present
<1>5. /\ \A b \in Blocks : kind'[b] = IF b = n THEN "leaf" ELSE "free"
      /\ \A b \in Blocks : items'[b] = IF b = n THEN {e} ELSE {}
  BY <1>1, <1>3 DEF TreeTypes
<1>6. Used' = {n} /\ InChain' = {n}
  BY <1>1, <1>5 DEF Used, InChain
<1>7. \A b \in Blocks : ~ Ignored(b)' /\ (Live(b)' <=> b = n)
  BY <1>5 DEF Ignored, Live
<1>8. TreeTypes'
  BY <1>1 DEF TreeTypes, Kinds
<1>9. DOMAIN parent' = {1} /\ parent'[1] = n
  BY <1>1
<1>10. Ordered(left)'
  BY <1>1, <1>3, <1>6 DEF Ordered, StrictOrder
<1>11. ChainInv(left)'
  BY <1>1, <1>3, <1>6, <1>7 DEF ChainInv
<1>12. RangeInv(left)'
  <2>1. 0 <= Key(e)
    BY Numbers
  <2>2. \A b \in Blocks : \A d \in items'[b] : b = n /\ d = e
    BY <1>5
  <2> QED BY <1>1, <1>3, <1>6, <1>7, <2>1, <2>2 DEF RangeInv
<1>13. ParentInv(left)'
  BY <1>1, <1>5, <1>6, <1>7, <1>9 DEF ParentInv
<1>14. Carried(left, left)
  BY <1>1, <1>4, <1>5 DEF Carried
<1> QED BY <1>1, <1>4, <1>8, <1>10, <1>11, <1>12, <1>13, <1>14 DEF TreeInv

LEMMA UnlinkKeepsTree ==
  ASSUME NEW left \in [Blocks -> SUBSET Blocks], TreeTypes, TreeInv(left), stable \subseteq Present,
         NEW b \in Blocks, Unlink(b)
  PROVE  /\ TreeTypes' /\ (stable \subseteq Present)'
         /\ TreeInv(left)' /\ Carried(left, left)
<1> DEFINE L == {l \in Blocks : next[l] = b /\ kind[l] # "deleted"}
           c == next[b]
<1>1. /\ next' = [l \in Blocks |-> IF l \in L THEN c ELSE next[l]]
      /\ kind' = [kind EXCEPT ![b] = "deleted"]
      /\ items' = items /\ low' = low /\ parent' = parent
      /\ stable' = stable
      /\ kind[b] = "half"
  BY DEF Unlink, Written
<1>2. c # NoBlock /\ c \in Blocks /\ b \in left[c] /\ c \in InChain /\ c # b /\ b \in Used
  BY <1>1 DEF TreeInv, ChainInv, Ordered, StrictOrder, Used, InChain, Ignored
<1>3. b # NoBlock
  BY Numbers
<1>4. /\ \A x \in Blocks : kind'[x] = IF x = b THEN "deleted" ELSE kind[x]
      /\ \A x \in Blocks : x \in L => next[x] = b /\ next'[x] = c
      /\ \A x \in Blocks : x \notin L => next'[x] = next[x]
      /\ \A x \in InChain : next[x] = b => x \in L
  BY <1>1 DEF TreeTypes, InChain
<1> HIDE DEF L, c
<1>5. Used' = Used /\ InChain' = InChain \ {b}
  BY <1>1, <1>4 DEF Used, InChain
<1>6. \A x \in Blocks : (Ignored(x)' <=> Ignored(x)) /\ (Live(x)' <=> Live(x)) /\ (kind'[x] = "leaf" <=> kind[x] = "leaf")
  BY <1>1, <1>4 DEF Ignored, Live
<1>7. TreeTypes'
  BY <1>1, <1>2 DEF TreeTypes, Kinds
<1>8. Ordered(left)'
  BY <1>5 DEF TreeInv, Ordered, StrictOrder
<1>9. ChainInv(left)'
  <2> SUFFICES ASSUME NEW y \in Used
               PROVE  /\ next'[y] # NoBlock => y \in left[next'[y]]
                      /\ \A x \in InChain \ {b} :
                           y \in left[x] => next'[y] # NoBlock /\ (x = next'[y] \/ next'[y] \in left[x])
                      /\ y \in InChain \ {b} /\ next'[y] # NoBlock => next'[y] \in InChain \ {b}
                      /\ Ignored(y) => next'[y] # NoBlock
    BY <1>5, <1>6 DEF ChainInv, Used
  <2>1. y \in Blocks /\ Used \subseteq Blocks /\ InChain \subseteq Blocks
    BY DEF Used, InChain
  <2>2. CASE y \in L
    <3>1. next[y] = b /\ next'[y] = c
      BY <1>4, <2>1, <2>2
    <3>2. y \in left[b]
      BY <1>3, <3>1 DEF TreeInv, ChainInv
    <3>3. y \in left[c]
      BY <1>2, <2>1, <3>2 DEF TreeInv, Ordered, StrictOrder
    <3>4. ASSUME NEW x \in InChain \ {b}, y \in left[x] PROVE x = c \/ c \in left[x]
      <4>1. b \in left[x]
        BY <3>1, <3>4 DEF TreeInv, ChainInv
      <4> QED BY <1>2, <4>1 DEF TreeInv, ChainInv, c
    <3> QED BY <1>2, <3>1, <3>3, <3>4
  <2>3. CASE y \notin L
    <3>1. next'[y] = next[y]
      BY <1>4, <2>1, <2>3
    <3>2. y \in InChain => next[y] # b
      BY <1>4, <2>3
    <3> QED BY <3>1, <3>2 DEF TreeInv, ChainInv
  <2> QED BY <2>2, <2>3
<1>10. RangeInv(left)'
  <2>1. \A x \in Blocks \ Used : x \notin L
    BY <1>3, <1>4 DEF TreeInv, RangeInv
  <2> QED BY <1>1, <1>4, <1>5, <1>6, <2>1 DEF TreeInv, RangeInv, Used
<1>11. ParentInv(left)'
  BY <1>1, <1>5, <1>6 DEF TreeInv, ParentInv
<1>12. Carried(left, left)
  BY <1>1, <1>4 DEF Carried
<1> QED BY <1>1, <1>7, <1>8, <1>9, <1>10, <1>11, <1>12 DEF TreeInv, Present

\* Two pages of the chain do not have the same right sibling.
LEMMA OneBefore ==
  ASSUME NEW left \in [Blocks -> SUBSET Blocks], TreeInv(left),
         NEW a \in InChain, NEW b \in InChain, NEW x \in InChain,
         next[b] = x, a \in left[x], a # b
  PROVE  a \in left[b]
<1>1. a \in Used /\ b \in Used /\ a \in Blocks /\ b \in Blocks /\ x \in Blocks
  BY DEF InChain, Used
<1>2. CASE b \in left[a]
  <2>1. a = x \/ x \in left[a]
    BY <1>1, <1>2 DEF TreeInv, ChainInv
  <2>2. a \notin left[a] /\ (x \in left[a] => left[x] \subseteq left[a])
    BY <1>1 DEF TreeInv, Ordered, StrictOrder
  <2> QED BY <2>1, <2>2
<1> QED BY <1>1, <1>2 DEF TreeInv, Ordered, StrictOrder

\* What taking one downlink away leaves of the internal page.
LEMMA ParentWithout ==
  ASSUME NEW left \in [Blocks -> SUBSET Blocks], TreeTypes, TreeInv(left),
         NEW i \in DOMAIN parent, parent' = RemoveAt(parent, i),
         next[parent[i]] # NoBlock, kind[next[parent[i]]] = "leaf"
  PROVE  /\ parent' \in Seq(Blocks) /\ parent' # <<>>
         /\ \A x \in Blocks : (\E j \in DOMAIN parent' : parent'[j] = x)
                              <=> x # parent[i] /\ kind[x] = "leaf"
         /\ \A j, k \in DOMAIN parent' : j < k => parent'[j] \in left[parent'[k]]
         /\ \A x \in Blocks : Live(x) /\ x # parent[i] => x = parent'[1] \/ parent'[1] \in left[x]
<1> DEFINE l == Len(parent)
           b == parent[i]
           c == next[b]
<1>1. PICK r \in Seq(Blocks) :
        /\ r = RemoveAt(parent, i) /\ l \in Nat /\ DOMAIN parent = 1 .. l
        /\ DOMAIN r = 1 .. l - 1
        /\ \A j \in 1 .. l - 1 : r[j] = IF j < i THEN parent[j] ELSE parent[j + 1]
  <2>1. parent \in Seq(Blocks) /\ i \in DOMAIN parent /\ l = Len(parent)
    BY DEF TreeTypes
  <2> HIDE DEF l
  <2>2. Removes(Blocks, parent, l, i)
    BY <2>1, RemovedAt
  <2> QED BY <2>2 DEF Removes
<1>2. parent' = r /\ DOMAIN parent' = 1 .. l - 1
  BY <1>1
<1>3. \A j \in 1 .. l : parent[j] \in Blocks
  BY <1>1 DEF TreeTypes
<1>4. \A j \in 1 .. l - 1 : \/ j < i /\ j \in 1 .. l /\ parent'[j] = parent[j]
                            \/ ~ (j < i) /\ j + 1 \in 1 .. l /\ parent'[j] = parent[j + 1]
  BY <1>1, <1>2
<1> HIDE DEF l
<1>5. i \in 1 .. l /\ l \in Nat
  BY <1>1
<1>6. /\ \A x \in Blocks : kind[x] = "leaf" <=> \E j \in 1 .. l : parent[j] = x
      /\ \A j, k \in 1 .. l : j < k => parent[j] \in left[parent[k]]
      /\ \A x \in Blocks : Live(x) => x = parent[1] \/ parent[1] \in left[x]
      /\ \A x \in Blocks : x \notin left[x]
      /\ \A x, y \in Blocks : x \in left[y] => left[x] \subseteq left[y]
  BY <1>1 DEF TreeInv, ParentInv, Ordered, StrictOrder
<1>7. b \in Blocks /\ c \in Blocks /\ b \in left[c]
  <2>1. b \in Blocks
    BY <1>3, <1>5
  <2>2. c \in Blocks
    BY <2>1 DEF TreeTypes
  <2>3. kind[b] = "leaf"
    BY <1>5, <1>6, <2>1
  <2> QED BY <2>1, <2>2, <2>3 DEF TreeInv, ChainInv, Used
<1>8. PICK m \in 1 .. l : parent[m] = c
  BY <1>6, <1>7
<1>9. m # i
  BY <1>6, <1>7, <1>8
<1>10. l >= 2 /\ 1 \in 1 .. l - 1
  BY <1>5, <1>8, <1>9
<1>11. parent' # <<>>
  <2>1. DOMAIN <<>> = {}
    OBVIOUS
  <2>2. 1 \in DOMAIN parent'
    BY <1>2, <1>10
  <2> QED BY <2>1, <2>2
<1>12. \A j, k \in 1 .. l : parent[j] = parent[k] => j = k
  <2> TAKE j, k \in 1 .. l
  <2>1. ~ (j < k) /\ parent[j] = parent[k] => ~ (k < j)
    BY <1>3, <1>6
  <2>2. parent[j] = parent[k] => ~ (j < k)
    BY <1>3, <1>6
  <2> QED BY <2>1, <2>2
<1>13. ASSUME NEW x \in Blocks
       PROVE  (\E j \in DOMAIN parent' : parent'[j] = x) <=> x # b /\ kind[x] = "leaf"
  <2>1. ASSUME NEW j \in 1 .. l - 1, parent'[j] = x PROVE x # b /\ kind[x] = "leaf"
    <3>1. PICK k \in 1 .. l : k # i /\ x = parent[k]
      BY <1>4, <1>5, <2>1
    <3> QED BY <1>5, <1>6, <1>12, <3>1
  <2>2. ASSUME x # b, kind[x] = "leaf" PROVE \E j \in 1 .. l - 1 : parent'[j] = x
    <3>1. PICK k \in 1 .. l : parent[k] = x
      BY <1>6, <2>2
    <3>2. k # i
      BY <2>2, <3>1
    <3>3. CASE k < i
      <4>1. k \in 1 .. l - 1
        BY <1>5, <3>3
      <4>2. parent'[k] = x
        BY <1>1, <1>2, <3>1, <3>3, <4>1
      <4> QED BY <4>1, <4>2
    <3>4. CASE k > i
      <4>1. k - 1 \in 1 .. l - 1 /\ ~ (k - 1 < i) /\ (k - 1) + 1 = k
        BY <1>5, <3>4
      <4>2. parent'[k - 1] = x
        BY <1>1, <1>2, <3>1, <4>1
      <4> QED BY <4>1, <4>2
    <3> QED BY <1>5, <3>2, <3>3, <3>4
  <2> QED BY <1>2, <2>1, <2>2
<1>14. ASSUME NEW j \in 1 .. l - 1, NEW k \in 1 .. l - 1, j < k PROVE parent'[j] \in left[parent'[k]]
  <2>1. PICK u \in 1 .. l, v \in 1 .. l : u < v /\ parent'[j] = parent[u] /\ parent'[k] = parent[v]
    BY <1>4, <1>5, <1>14
  <2> QED BY <1>6, <2>1
<1>15. ASSUME NEW x \in Blocks, Live(x), x # b PROVE x = parent'[1] \/ parent'[1] \in left[x]
  <2>1. CASE 1 < i
    <3>1. parent'[1] = parent[1]
      BY <1>1, <1>2, <1>10, <2>1
    <3> QED BY <1>6, <1>15, <3>1
  <2>2. CASE ~ (1 < i)
    <3>1. i = 1 /\ 1 + 1 = 2 /\ 2 \in 1 .. l
      BY <1>5, <1>10, <2>2
    <3>2. parent'[1] = parent[2]
      BY <1>1, <1>2, <1>10, <3>1
    <3>3. b = parent[1] /\ b \in left[x]
      BY <1>6, <1>15, <3>1
    <3>4. x = c \/ c \in left[x]
      BY <1>7, <1>15, <3>3 DEF TreeInv, ChainInv, Used, InChain, Live, Ordered, StrictOrder
    <3>5. m = 2 \/ 2 < m
      BY <1>8, <1>9, <3>1
    <3>6. c = parent'[1] \/ parent'[1] \in left[c]
      BY <1>6, <1>8, <3>1, <3>2, <3>5
    <3> QED BY <1>6, <1>7, <3>4, <3>6
  <2> QED BY <2>1, <2>2
<1> QED BY <1>2, <1>11, <1>13, <1>14, <1>15

LEMMA HalfDeadKeepsTree ==
  ASSUME NEW left \in [Blocks -> SUBSET Blocks], TreeTypes, TreeInv(left), stable \subseteq Present,
         NEW b \in Blocks, HalfDead(b)
  PROVE  /\ TreeTypes' /\ (stable \subseteq Present)'
         /\ TreeInv(left)' /\ Carried(left, left)
<1> DEFINE c == next[b]
<1>1. /\ low' = [low EXCEPT ![c] = low[b]]
      /\ kind' = [kind EXCEPT ![b] = "half"]
      /\ items' = items /\ next' = next
      /\ stable' = stable
      /\ kind[b] = "leaf" /\ items[b] = {} /\ c # NoBlock /\ kind[c] = "leaf"
  BY DEF HalfDead, Written
<1>2. PICK i \in DOMAIN parent : parent[i] = b /\ parent' = RemoveAt(parent, i)
  BY DEF HalfDead
<1>3. /\ parent' \in Seq(Blocks) /\ parent' # <<>>
      /\ \A x \in Blocks : (\E j \in DOMAIN parent' : parent'[j] = x) <=> x # b /\ kind[x] = "leaf"
      /\ \A j, k \in DOMAIN parent' : j < k => parent'[j] \in left[parent'[k]]
      /\ \A x \in Blocks : Live(x) /\ x # b => x = parent'[1] \/ parent'[1] \in left[x]
  BY <1>1, <1>2, ParentWithout
<1>4. c \in Blocks /\ b \in left[c] /\ b \in InChain /\ c \in InChain /\ c # b
  BY <1>1 DEF TreeTypes, TreeInv, ChainInv, Ordered, StrictOrder, Used, InChain
<1>5. /\ \A x \in Blocks : kind'[x] = IF x = b THEN "half" ELSE kind[x]
      /\ \A x \in Blocks : low'[x] = IF x = c THEN low[b] ELSE low[x]
  BY <1>1 DEF TreeTypes
<1> HIDE DEF c
<1>6. Used' = Used /\ InChain' = InChain
  BY <1>1, <1>5 DEF Used, InChain
<1>7. \A x \in Blocks : /\ Ignored(x)' <=> (Ignored(x) \/ x = b)
                        /\ Live(x)' <=> (Live(x) /\ x # b)
                        /\ kind'[x] = "leaf" <=> (kind[x] = "leaf" /\ x # b)
  BY <1>1, <1>5 DEF Ignored, Live
<1>8. TreeTypes'
  BY <1>1, <1>3, <1>4 DEF TreeTypes, Kinds
<1>9. Ordered(left)'
  BY <1>6 DEF TreeInv, Ordered, StrictOrder
<1>10. ChainInv(left)'
  BY <1>1, <1>6, <1>7 DEF TreeInv, ChainInv, Used, c
<1>11. \A x \in Blocks : low[x] \in Nat
  BY Numbers
<1>12. low[b] <= low[c]
  BY <1>4 DEF TreeInv, RangeInv
<1>13. RangeInv(left)'
  <2>1. \A x \in Blocks : \A d \in items[x] : Live(x)' /\ low'[x] <= Key(d)
    <3> SUFFICES ASSUME NEW x \in Blocks, NEW d \in items[x] PROVE Live(x)' /\ low'[x] <= Key(d)
      OBVIOUS
    <3>1. Live(x) /\ low[x] <= Key(d) /\ x # b /\ Key(d) \in Nat
      BY <1>1, Numbers DEF TreeInv, RangeInv, TreeTypes
    <3>2. low'[x] <= Key(d)
      BY <1>4, <1>5, <1>11, <1>12, <3>1
    <3> QED BY <1>7, <3>1, <3>2
  <2>2. ASSUME NEW y \in InChain, NEW x \in InChain, y \in left[x]
        PROVE  low'[y] <= low'[x] /\ \A d \in items[y] : Key(d) <= low'[x]
    <3>1. y \in Blocks /\ x \in Blocks /\ y # x
      BY <2>2 DEF InChain, TreeInv, Ordered, StrictOrder
    <3>2. low[y] <= low[x] /\ \A d \in items[y] : Key(d) <= low[x]
      BY <2>2 DEF TreeInv, RangeInv
    <3>3. CASE x = c /\ y = b
      BY <1>1, <1>4, <1>5, <1>11, <3>3
    <3>4. CASE x = c /\ y # b
      <4>1. y \in left[b]
        BY <1>4, <2>2, <3>4, OneBefore DEF c
      <4>2. low[y] <= low[b] /\ \A d \in items[y] : Key(d) <= low[b]
        BY <1>4, <4>1 DEF TreeInv, RangeInv
      <4> QED BY <1>5, <3>1, <3>4, <4>2
    <3>5. CASE x # c /\ y = c
      <4>1. b \in left[x]
        BY <1>4, <2>2, <3>1, <3>5 DEF TreeInv, Ordered, StrictOrder
      <4>2. low[b] <= low[x]
        BY <1>4, <4>1 DEF TreeInv, RangeInv
      <4> QED BY <1>5, <3>1, <3>2, <3>5, <4>2
    <3>6. CASE x # c /\ y # c
      BY <1>5, <3>1, <3>2, <3>6
    <3> QED BY <3>3, <3>4, <3>5, <3>6
  <2>3. \A x \in Blocks \ Used : next[x] = NoBlock /\ low'[x] = 0
    BY <1>4, <1>5 DEF TreeInv, RangeInv, InChain, Used
  <2>4. \A p, q \in Blocks : \A d \in items[p] : d \in items[q] => p = q
    BY DEF TreeInv, RangeInv
  <2> QED BY <1>1, <1>6, <2>1, <2>2, <2>3, <2>4 DEF RangeInv
<1>14. ParentInv(left)'
  BY <1>3, <1>7 DEF ParentInv
<1>15. Carried(left, left)
  BY <1>1, <1>5 DEF Carried
<1> QED BY <1>1, <1>8, <1>9, <1>10, <1>13, <1>14, <1>15 DEF TreeInv, Present

\* What following its left sibling's downlink makes of the internal page.
LEMMA ParentWith ==
  ASSUME NEW left \in [Blocks -> SUBSET Blocks], TreeTypes, TreeInv(left),
         NEW n \in Blocks, kind[n] = "fresh",
         NEW i \in DOMAIN parent, next[parent[i]] = n, parent' = InsertAt(parent, i + 1, n)
  PROVE  /\ parent' \in Seq(Blocks) /\ parent' # <<>>
         /\ \A x \in Blocks : (\E j \in DOMAIN parent' : parent'[j] = x)
                              <=> x = n \/ kind[x] = "leaf"
         /\ \A j, k \in DOMAIN parent' : j < k => parent'[j] \in left[parent'[k]]
         /\ parent'[1] = parent[1]
<1> DEFINE l == Len(parent)
           b == parent[i]
<1>1. PICK r \in Seq(Blocks) :
        /\ r = InsertAt(parent, i + 1, n) /\ l \in Nat /\ DOMAIN parent = 1 .. l
        /\ DOMAIN r = 1 .. l + 1
        /\ \A j \in 1 .. l + 1 :
             r[j] = IF j <= i THEN parent[j] ELSE IF j = i + 1 THEN n ELSE parent[j - 1]
  <2>1. parent \in Seq(Blocks)
    BY DEF TreeTypes
  <2>2. Inserts(Blocks, parent, l, i, n)
    BY <2>1, InsertedAt
  <2> HIDE DEF l
  <2> QED BY <2>2 DEF Inserts
<1>2. parent' = r /\ DOMAIN parent' = 1 .. l + 1
  BY <1>1
<1>3. \A j \in 1 .. l : parent[j] \in Blocks
  BY <1>1 DEF TreeTypes
<1> HIDE DEF l
<1>4. i \in 1 .. l /\ l \in Nat
  BY <1>1
<1>5. \A j \in 1 .. l + 1 : \/ j <= i /\ j \in 1 .. l /\ parent'[j] = parent[j]
                            \/ j = i + 1 /\ parent'[j] = n
                            \/ j > i + 1 /\ j - 1 \in 1 .. l /\ j - 1 > i /\ parent'[j] = parent[j - 1]
  <2> TAKE j \in 1 .. l + 1
  <2>1. parent'[j] = IF j <= i THEN parent[j] ELSE IF j = i + 1 THEN n ELSE parent[j - 1]
    BY <1>1, <1>2
  <2> QED BY <1>4, <2>1
<1>6. /\ \A x \in Blocks : kind[x] = "leaf" <=> \E j \in 1 .. l : parent[j] = x
      /\ \A j, k \in 1 .. l : j < k => parent[j] \in left[parent[k]]
      /\ \A x, y \in Blocks : x \in left[y] => left[x] \subseteq left[y]
  BY <1>1 DEF TreeInv, ParentInv, Ordered, StrictOrder
<1>7. b \in Blocks /\ kind[b] = "leaf" /\ next[b] = n /\ n # NoBlock
  BY <1>3, <1>4, <1>6, Numbers
<1> HIDE DEF b
<1>8. b \in left[n]
  BY <1>7 DEF TreeInv, ChainInv, Used
<1>9. ASSUME NEW j \in 1 .. l, j <= i PROVE parent[j] \in left[n]
  <2>1. j = i \/ j < i
    BY <1>4, <1>9
  <2>2. parent[j] = b \/ parent[j] \in left[b]
    BY <1>4, <1>6, <2>1 DEF b
  <2> QED BY <1>6, <1>7, <1>8, <2>2
<1>10. ASSUME NEW k \in 1 .. l, k > i PROVE n \in left[parent[k]]
  <2>1. i < k
    BY <1>4, <1>10
  <2>2. b \in left[parent[k]] /\ parent[k] \in Blocks /\ kind[parent[k]] = "leaf"
    BY <1>3, <1>4, <1>6, <2>1 DEF b
  <2>3. parent[k] \in InChain /\ b \in Used
    BY <1>7, <2>2 DEF InChain, Used
  <2>4. parent[k] = n \/ n \in left[parent[k]]
    BY <1>7, <2>2, <2>3 DEF TreeInv, ChainInv
  <2> QED BY <2>2, <2>4
<1>11. ASSUME NEW x \in Blocks
       PROVE  (\E j \in DOMAIN parent' : parent'[j] = x) <=> x = n \/ kind[x] = "leaf"
  <2>1. ASSUME NEW j \in 1 .. l + 1, parent'[j] = x PROVE x = n \/ kind[x] = "leaf"
    BY <1>5, <1>6, <2>1
  <2>2. ASSUME x = n PROVE \E j \in 1 .. l + 1 : parent'[j] = x
    <3>1. i + 1 \in 1 .. l + 1 /\ ~ (i + 1 <= i)
      BY <1>4
    <3> QED BY <1>1, <1>2, <2>2, <3>1
  <2>3. ASSUME kind[x] = "leaf" PROVE \E j \in 1 .. l + 1 : parent'[j] = x
    <3>1. PICK k \in 1 .. l : parent[k] = x
      BY <1>6, <2>3
    <3>2. CASE k <= i
      <4>1. k \in 1 .. l + 1
        BY <1>4
      <4>2. parent'[k] = x
        BY <1>1, <1>2, <3>1, <3>2, <4>1
      <4> QED BY <4>1, <4>2
    <3>3. CASE k > i
      <4>1. k + 1 \in 1 .. l + 1 /\ ~ (k + 1 <= i) /\ k + 1 # i + 1 /\ (k + 1) - 1 = k
        BY <1>4, <3>3
      <4>2. parent'[k + 1] = x
        BY <1>1, <1>2, <3>1, <4>1
      <4> QED BY <4>1, <4>2
    <3> QED BY <1>4, <3>2, <3>3
  <2> QED BY <1>2, <2>1, <2>2, <2>3
<1>12. ASSUME NEW j \in 1 .. l + 1, NEW k \in 1 .. l + 1, j < k PROVE parent'[j] \in left[parent'[k]]
  <2>1. CASE k <= i
    <3>1. j \in 1 .. l /\ k \in 1 .. l /\ parent'[j] = parent[j] /\ parent'[k] = parent[k]
      BY <1>4, <1>5, <1>12, <2>1
    <3> QED BY <1>6, <1>12, <3>1
  <2>2. CASE k = i + 1
    <3>1. j \in 1 .. l /\ j <= i /\ parent'[j] = parent[j] /\ parent'[k] = n
      BY <1>4, <1>5, <1>12, <2>2
    <3> QED BY <1>9, <3>1
  <2>3. CASE k > i + 1
    <3>1. k - 1 \in 1 .. l /\ k - 1 > i /\ parent'[k] = parent[k - 1]
      BY <1>4, <1>5, <2>3
    <3>2. CASE j <= i
      <4>1. j \in 1 .. l /\ parent'[j] = parent[j] /\ j < k - 1
        BY <1>4, <1>5, <2>3, <3>2
      <4> QED BY <1>6, <3>1, <4>1
    <3>3. CASE j = i + 1
      <4>1. parent'[j] = n
        BY <1>4, <1>5, <3>3
      <4> QED BY <1>10, <3>1, <4>1
    <3>4. CASE j > i + 1
      <4>1. j - 1 \in 1 .. l /\ parent'[j] = parent[j - 1] /\ j - 1 < k - 1
        BY <1>4, <1>5, <1>12, <3>4
      <4> QED BY <1>6, <3>1, <4>1
    <3> QED BY <1>4, <3>2, <3>3, <3>4
  <2> QED BY <1>4, <2>1, <2>2, <2>3
<1>13. 1 \in 1 .. l + 1 /\ 1 <= i
  BY <1>4
<1>14. parent'[1] = parent[1]
  BY <1>1, <1>2, <1>13
<1>15. parent' # <<>>
  <2>1. DOMAIN <<>> = {}
    OBVIOUS
  <2> QED BY <1>2, <1>13, <2>1
<1> QED BY <1>2, <1>11, <1>12, <1>14, <1>15

LEMMA LinkKeepsTree ==
  ASSUME NEW left \in [Blocks -> SUBSET Blocks], TreeTypes, TreeInv(left), stable \subseteq Present,
         NEW n \in Blocks, Link(n)
  PROVE  /\ TreeTypes' /\ (stable \subseteq Present)'
         /\ TreeInv(left)' /\ Carried(left, left)
<1>1. /\ kind' = [kind EXCEPT ![n] = "leaf"]
      /\ items' = items /\ low' = low /\ next' = next
      /\ stable' = stable
      /\ kind[n] = "fresh"
  BY DEF Link, Written
<1>2. PICK i \in DOMAIN parent : next[parent[i]] = n /\ parent' = InsertAt(parent, i + 1, n)
  BY DEF Link
<1>3. /\ parent' \in Seq(Blocks) /\ parent' # <<>>
      /\ \A x \in Blocks : (\E j \in DOMAIN parent' : parent'[j] = x) <=> x = n \/ kind[x] = "leaf"
      /\ \A j, k \in DOMAIN parent' : j < k => parent'[j] \in left[parent'[k]]
      /\ parent'[1] = parent[1]
  BY <1>1, <1>2, ParentWith
<1>4. \A x \in Blocks : kind'[x] = IF x = n THEN "leaf" ELSE kind[x]
  BY <1>1 DEF TreeTypes
<1>5. Used' = Used /\ InChain' = InChain
  BY <1>1, <1>4 DEF Used, InChain
<1>6. \A x \in Blocks : /\ Ignored(x)' <=> Ignored(x)
                        /\ Live(x)' <=> Live(x)
                        /\ kind'[x] = "leaf" <=> (kind[x] = "leaf" \/ x = n)
  BY <1>1, <1>4 DEF Ignored, Live
<1>7. TreeTypes'
  BY <1>1, <1>3 DEF TreeTypes, Kinds
<1>8. Ordered(left)' /\ ChainInv(left)' /\ RangeInv(left)'
  BY <1>1, <1>5, <1>6 DEF TreeInv, Ordered, StrictOrder, ChainInv, RangeInv, Used
<1>9. ParentInv(left)'
  BY <1>3, <1>6 DEF TreeInv, ParentInv
<1>10. Carried(left, left)
  BY <1>1, <1>4 DEF Carried
<1> QED BY <1>1, <1>7, <1>8, <1>9, <1>10 DEF TreeInv, Present

\* The order of the pages with n put in directly to the right of b.
After(left, b, n) ==
  [x \in Blocks |-> IF x = n THEN left[b] \cup {b}
                    ELSE IF b \in left[x] THEN left[x] \cup {n} ELSE left[x]]

LEMMA AfterMembers ==
  ASSUME NEW left \in [Blocks -> SUBSET Blocks], NEW b \in Blocks, NEW n \in Blocks
  PROVE  /\ After(left, b, n) \in [Blocks -> SUBSET Blocks]
         /\ \A a, x \in Blocks :
              a \in After(left, b, n)[x]
              <=> IF x = n THEN a = b \/ a \in left[b]
                           ELSE a \in left[x] \/ (a = n /\ b \in left[x])
BY DEF After

LEMMA SplitKeepsTree ==
  ASSUME NEW left \in [Blocks -> SUBSET Blocks], TreeTypes, TreeInv(left), stable \subseteq Present,
         NEW b \in Blocks, NEW e \in Entry, Split(b, e)
  PROVE  /\ TreeTypes' /\ (stable \subseteq Present)'
         /\ \E left2 \in [Blocks -> SUBSET Blocks] : TreeInv(left2)' /\ Carried(left, left2)
<1>0. PICK n \in Blocks : n = NewBlock /\ kind[n] = "free"
  BY FreeBlock DEF Split
<1> DEFINE upper == {d \in items[b] : d >= e}
<1>1. /\ items' = [items EXCEPT ![b] = @ \ upper, ![n] = upper]
      /\ low' = [low EXCEPT ![n] = Key(e)]
      /\ next' = [next EXCEPT ![b] = n, ![n] = next[b]]
      /\ kind' = [kind EXCEPT ![n] = "fresh"]
      /\ parent' = parent /\ stable' = stable
      /\ n \in Blocks /\ kind[n] = "free" /\ kind[b] = "leaf" /\ Unlocked(b) /\ e \in items[b]
  BY <1>0 DEF Split, Written
<1>2. PICK left2 \in [Blocks -> SUBSET Blocks] : left2 = After(left, b, n)
  BY <1>1, AfterMembers
<1>3. \A a, x \in Blocks : a \in left2[x] <=> IF x = n THEN a = b \/ a \in left[b]
                                                       ELSE a \in left[x] \/ (a = n /\ b \in left[x])
  BY <1>1, <1>2, AfterMembers
<1>4. \A d \in items[b] : d \in upper <=> d >= e
  OBVIOUS
<1>5. upper \subseteq items[b]
  OBVIOUS
<1> HIDE DEF upper
<1>6. n # b
  BY <1>1
<1>7. /\ \A x \in Blocks : items'[x] = IF x = n THEN upper ELSE IF x = b THEN items[b] \ upper ELSE items[x]
      /\ \A x \in Blocks : low'[x] = IF x = n THEN Key(e) ELSE low[x]
      /\ \A x \in Blocks : next'[x] = IF x = n THEN next[b] ELSE IF x = b THEN n ELSE next[x]
      /\ \A x \in Blocks : kind'[x] = IF x = n THEN "fresh" ELSE kind[x]
  BY <1>1, <1>6 DEF TreeTypes
<1>8. Used' = Used \cup {n} /\ InChain' = InChain \cup {n} /\ n \notin Used /\ n \notin InChain
  BY <1>1, <1>7 DEF Used, InChain
<1>9. /\ b \in Used /\ b \in InChain /\ Live(b) /\ Used \subseteq Blocks /\ InChain \subseteq Used
  BY <1>1 DEF Used, InChain, Live
<1>10. \A x \in Blocks : /\ Ignored(x)' <=> Ignored(x)
                         /\ Live(x)' <=> (Live(x) \/ x = n)
                         /\ kind'[x] = "leaf" <=> kind[x] = "leaf"
  BY <1>1, <1>7 DEF Ignored, Live
<1>11. ~ Ignored(n) /\ ~ Live(n) /\ ~ Ignored(b) /\ kind[n] # "leaf"
  BY <1>1 DEF Ignored, Live
<1>12. left[n] = {} /\ \A x \in Blocks : n \notin left[x]
  BY <1>1, <1>8 DEF TreeInv, Ordered, StrictOrder
<1>13. \A x \in Used : next[x] # n
  BY <1>1, <1>12, Numbers DEF TreeInv, ChainInv
<1>14. items[n] = {}
  BY <1>1, <1>11 DEF TreeInv, RangeInv
<1>15. next[b] \in Blocks \cup {NoBlock} /\ n # NoBlock
  BY <1>1, Numbers DEF TreeTypes
<1>16. TreeTypes'
  <2>1. items' \in [Blocks -> SUBSET Entry]
    BY <1>1, <1>5 DEF TreeTypes
  <2>2. low' \in [Blocks -> Keys \cup {0}]
    BY <1>1 DEF TreeTypes, Keys
  <2>3. next' \in [Blocks -> Blocks \cup {NoBlock}]
    BY <1>1, <1>15 DEF TreeTypes
  <2>4. kind' \in [Blocks -> Kinds]
    BY <1>1 DEF TreeTypes, Kinds
  <2> QED BY <1>1, <2>1, <2>2, <2>3, <2>4 DEF TreeTypes
<1>17. (stable \subseteq Present)'
  <2>1. ASSUME NEW x \in Blocks, NEW d \in items[x] PROVE \E y \in Blocks : d \in items'[y]
    <3>1. CASE x = b /\ d \in upper
      BY <1>7, <3>1
    <3>2. CASE x = b /\ d \notin upper
      BY <1>6, <1>7, <2>1, <3>2
    <3>3. CASE x # b
      BY <1>7, <1>14, <2>1, <3>3
    <3> QED BY <3>1, <3>2, <3>3
  <2>2. Present \subseteq Present'
    BY <2>1 DEF Present
  <2> QED BY <1>1, <2>2
<1>18. Ordered(left2)'
  <2>1. \A x \in Blocks : left2[x] \subseteq Used \cup {n} /\ x \notin left2[x]
    <3> TAKE x \in Blocks
    <3>1. left2[x] \subseteq Blocks
      BY <1>2
    <3>2. \A y \in Blocks : left[y] \subseteq Used /\ y \notin left[y]
      BY DEF TreeInv, Ordered, StrictOrder
    <3> QED BY <1>1, <1>3, <1>6, <1>9, <1>12, <3>1, <3>2
  <2>2. \A x \in Blocks \ (Used \cup {n}) : left2[x] = {}
    <3> TAKE x \in Blocks \ (Used \cup {n})
    <3>1. left[x] = {} /\ left2[x] \subseteq Blocks
      BY <1>2 DEF TreeInv, Ordered, StrictOrder
    <3> QED BY <1>3, <3>1
  <2>3. ASSUME NEW a \in Blocks, NEW x \in Blocks, a \in left2[x], NEW y \in Blocks, y \in left2[a]
        PROVE  y \in left2[x]
    <3>1. \A u, v, w \in Blocks : u \in left[v] /\ v \in left[w] => u \in left[w]
      BY DEF TreeInv, Ordered, StrictOrder
    <3>2. \A v \in Blocks : v \notin left[v]
      BY DEF TreeInv, Ordered, StrictOrder
    <3>3. CASE x = n
      <4>1. a # n /\ (a = b \/ a \in left[b])
        BY <1>3, <1>6, <1>12, <2>3, <3>3
      <4>2. y \in left[a] \/ (y = n /\ b \in left[a])
        BY <1>3, <2>3, <4>1
      <4>3. b \notin left[a]
        BY <3>1, <3>2, <4>1
      <4>4. y \in left[b]
        BY <3>1, <4>1, <4>2, <4>3
      <4> QED BY <1>3, <3>3, <4>4
    <3>4. CASE x # n /\ a # n
      <4>1. a \in left[x] /\ (y \in left[a] \/ (y = n /\ b \in left[a]))
        BY <1>3, <2>3, <3>4
      <4>2. y \in left[x] \/ (y = n /\ b \in left[x])
        BY <3>1, <4>1
      <4> QED BY <1>3, <3>4, <4>2
    <3>5. CASE x # n /\ a = n
      <4>1. b \in left[x] /\ (y = b \/ y \in left[b])
        BY <1>3, <1>12, <2>3, <3>5
      <4>2. y \in left[x]
        BY <3>1, <4>1
      <4> QED BY <1>3, <3>5, <4>2
    <3> QED BY <3>3, <3>4, <3>5
  <2>4. \A a, x \in Used \cup {n} : a = x \/ a \in left2[x] \/ x \in left2[a]
    <3>1. \A a, x \in Used : a = x \/ a \in left[x] \/ x \in left[a]
      BY DEF TreeInv, Ordered, StrictOrder
    <3> QED BY <1>1, <1>3, <1>8, <1>9, <3>1
  <2>5. \A a, x \in Blocks : a \in left2[x] => left2[a] \subseteq left2[x]
    BY <1>2, <2>3
  <2> QED BY <1>8, <2>1, <2>2, <2>4, <2>5 DEF Ordered, StrictOrder
<1>19. ChainInv(left2)'
  <2> SUFFICES ASSUME NEW y \in Used \cup {n}
               PROVE  /\ next'[y] # NoBlock => y \in left2[next'[y]]
                      /\ \A x \in InChain \cup {n} :
                           y \in left2[x] => next'[y] # NoBlock /\ (x = next'[y] \/ next'[y] \in left2[x])
                      /\ y \in InChain \cup {n} /\ next'[y] # NoBlock => next'[y] \in InChain \cup {n}
                      /\ Ignored(y) => next'[y] # NoBlock
    BY <1>8, <1>9, <1>10 DEF ChainInv
  <2>1. /\ next[b] # NoBlock => b \in left[next[b]] /\ next[b] \in InChain
        /\ \A x \in InChain : b \in left[x] => next[b] # NoBlock /\ (x = next[b] \/ next[b] \in left[x])
    BY <1>9 DEF TreeInv, ChainInv
  <2>2. CASE y = b
    <3>1. next'[y] = n /\ b \in left2[n]
      BY <1>1, <1>3, <1>6, <1>7, <2>2
    <3>2. ASSUME NEW x \in InChain, b \in left2[x] PROVE n \in left2[x]
      <4>1. x # n /\ x \in Blocks
        BY <1>8, <1>9
      <4> QED BY <1>1, <1>3, <1>6, <3>2, <4>1
    <3> QED BY <1>11, <1>15, <2>2, <3>1, <3>2
  <2>3. CASE y = n
    <3>1. next'[y] = next[b]
      BY <1>1, <1>7, <2>3
    <3>2. next[b] # NoBlock => next[b] # n /\ next[b] \in Blocks
      BY <1>9, <1>13, <1>15
    <3>3. next[b] # NoBlock => n \in left2[next[b]]
      BY <1>1, <1>3, <2>1, <3>2
    <3>4. ASSUME NEW x \in InChain \cup {n}, n \in left2[x]
          PROVE  next[b] # NoBlock /\ (x = next[b] \/ next[b] \in left2[x])
      <4>1. x \in Blocks /\ x # n /\ x \in InChain
        BY <1>1, <1>3, <1>6, <1>9, <1>12, <3>4
      <4>2. b \in left[x]
        BY <1>1, <1>3, <1>12, <3>4, <4>1
      <4>3. next[b] # NoBlock /\ (x = next[b] \/ next[b] \in left[x])
        BY <2>1, <4>1, <4>2
      <4> QED BY <1>3, <3>2, <4>1, <4>3
    <3> QED BY <1>11, <2>1, <2>3, <3>1, <3>3, <3>4
  <2>4. CASE y # b /\ y # n
    <3>1. y \in Used /\ next'[y] = next[y] /\ y \in Blocks /\ next[y] # n
      BY <1>7, <1>9, <1>13, <2>4
    <3>2. /\ next[y] # NoBlock => y \in left[next[y]]
          /\ \A x \in InChain : y \in left[x] => next[y] # NoBlock /\ (x = next[y] \/ next[y] \in left[x])
          /\ y \in InChain /\ next[y] # NoBlock => next[y] \in InChain
          /\ Ignored(y) => next[y] # NoBlock
      BY <3>1 DEF TreeInv, ChainInv
    <3>3. next[y] # NoBlock => next[y] \in Blocks
      BY <3>1 DEF TreeTypes
    <3>4. next[y] # NoBlock => y \in left2[next[y]]
      BY <1>3, <3>1, <3>2, <3>3
    <3>5. ASSUME NEW x \in InChain \cup {n}, y \in left2[x]
          PROVE  next[y] # NoBlock /\ (x = next[y] \/ next[y] \in left2[x])
      <4>1. CASE x = n
        <5>1. y \in left[b]
          BY <1>1, <1>3, <2>4, <3>1, <3>5, <4>1
        <5>2. next[y] # NoBlock /\ (b = next[y] \/ next[y] \in left[b])
          BY <1>9, <3>2, <5>1
        <5> QED BY <1>1, <1>3, <3>3, <4>1, <5>2
      <4>2. CASE x # n
        <5>1. x \in Blocks /\ x \in InChain /\ y \in left[x]
          BY <1>3, <1>9, <2>4, <3>1, <3>5, <4>2
        <5>2. next[y] # NoBlock /\ (x = next[y] \/ next[y] \in left[x])
          BY <3>2, <5>1
        <5> QED BY <1>3, <3>3, <4>2, <5>1, <5>2
      <4> QED BY <4>1, <4>2
    <3> QED BY <2>4, <3>1, <3>2, <3>4, <3>5
  <2> QED BY <2>2, <2>3, <2>4
<1>20. RangeInv(left2)'
  <2>1. \A x \in Blocks : \A d \in items[x] :
          Live(x) /\ low[x] <= Key(d) /\ d \in Entry /\ Key(d) \in Nat /\ low[x] \in Nat /\ d \in Nat
    BY Numbers DEF TreeInv, RangeInv, TreeTypes
  <2>2. e \in Nat /\ Key(e) \in Nat /\ e \in items[b]
    BY <1>1, <2>1
  <2>3. \A d \in upper : d \in items[b] /\ Key(e) <= Key(d)
    BY <1>4, <1>5, <2>1, <2>2, Numbers
  <2>4. \A d \in items[b] \ upper : Key(d) <= Key(e)
    <3> TAKE d \in items[b] \ upper
    <3>1. d <= e
      BY <1>4, <2>1, <2>2
    <3> QED BY <2>1, <3>1, Numbers
  <2>5. low[b] <= Key(e) /\ low[b] \in Nat
    BY <2>1, <2>2
  <2>6. ASSUME NEW x \in Blocks, NEW d \in items'[x] PROVE Live(x)' /\ low'[x] <= Key(d)
    BY <1>5, <1>7, <1>10, <2>1, <2>3, <2>6
  <2>7. ASSUME NEW x \in Blocks, NEW y \in Blocks, NEW d \in items'[x], d \in items'[y] PROVE x = y
    <3>1. \A u, v \in Blocks : \A w \in items[u] : w \in items[v] => u = v
      BY DEF TreeInv, RangeInv
    <3>2. /\ d \in items'[n] <=> d \in upper
          /\ d \in items'[b] => d \in items[b] /\ d \notin upper
          /\ \A u \in Blocks : u # n /\ u # b => items'[u] = items[u]
      BY <1>6, <1>7
    <3>3. d \in upper => d \in items[b]
      BY <1>5
    <3> QED BY <2>7, <3>1, <3>2, <3>3
  <2>8. ASSUME NEW y \in InChain \cup {n}, NEW x \in InChain \cup {n}, y \in left2[x]
        PROVE  low'[y] <= low'[x] /\ \A d \in items'[y] : Key(d) <= low'[x]
    <3>1. \A u, v \in InChain : u \in left[v] => low[u] <= low[v] /\ \A d \in items[u] : Key(d) <= low[v]
      BY DEF TreeInv, RangeInv
    <3>2. x \in Blocks /\ y \in Blocks
      BY <1>1, <1>9
    <3>3. \A u \in Blocks : low[u] \in Nat
      BY Numbers
    <3>4. CASE x = n
      <4>1. low'[x] = Key(e) /\ y # n /\ low'[y] = low[y] /\ y \in InChain /\ (y = b \/ y \in left[b])
        BY <1>1, <1>3, <1>6, <1>7, <1>12, <2>8, <3>2, <3>4
      <4>2. CASE y = b
        <5>1. items'[y] = items[b] \ upper
          BY <1>6, <1>7, <3>2, <4>2
        <5> QED BY <2>4, <2>5, <4>1, <4>2, <5>1
      <4>3. CASE y # b
        <5>1. items'[y] = items[y]
          BY <1>7, <3>2, <4>1, <4>3
        <5>2. low[y] <= low[b] /\ \A d \in items[y] : Key(d) <= low[b]
          BY <1>9, <3>1, <4>1, <4>3
        <5>3. \A d \in items[y] : Key(d) <= Key(e)
          BY <2>1, <2>2, <2>5, <3>2, <5>2
        <5>4. low[y] <= Key(e)
          BY <2>2, <2>5, <3>2, <3>3, <5>2
        <5> QED BY <4>1, <5>1, <5>3, <5>4
      <4> QED BY <4>2, <4>3
    <3>5. CASE x # n /\ y = n
      <4>1. b \in left[x] /\ low'[x] = low[x] /\ low'[y] = Key(e) /\ x \in InChain /\ items'[y] = upper
        BY <1>1, <1>3, <1>7, <1>12, <2>8, <3>2, <3>5
      <4>2. \A d \in items[b] : Key(d) <= low[x]
        BY <1>9, <3>1, <4>1
      <4> QED BY <1>5, <2>2, <4>1, <4>2
    <3>6. CASE x # n /\ y # n
      <4>1. y \in left[x] /\ low'[x] = low[x] /\ low'[y] = low[y] /\ x \in InChain /\ y \in InChain
        BY <1>3, <1>7, <2>8, <3>2, <3>6
      <4>2. items'[y] \subseteq items[y]
        BY <1>7, <3>2, <3>6
      <4> QED BY <3>1, <4>1, <4>2
    <3> QED BY <3>4, <3>5, <3>6
  <2>9. \A x \in Blocks \ (Used \cup {n}) : next'[x] = NoBlock /\ low'[x] = 0
    BY <1>7, <1>9 DEF TreeInv, RangeInv
  <2> QED BY <1>8, <2>6, <2>7, <2>8, <2>9 DEF RangeInv
<1>21. ParentInv(left2)'
  <2>1. \A a, x \in Blocks : a \in left[x] => a \in left2[x]
    BY <1>3, <1>12
  <2>2. parent # <<>>
    BY <1>9 DEF TreeInv, ParentInv
  <2>3. \A i \in DOMAIN parent : parent[i] \in Blocks
    BY DEF TreeTypes
  <2>4. \A i, j \in DOMAIN parent : i < j => parent[i] \in left2[parent[j]]
    BY <2>1, <2>3 DEF TreeInv, ParentInv
  <2>5. ASSUME NEW x \in Blocks, Live(x) \/ x = n PROVE x = parent[1] \/ parent[1] \in left2[x]
    <3>1. \A y \in Blocks : Live(y) => y = parent[1] \/ parent[1] \in left[y]
      BY DEF TreeInv, ParentInv
    <3>2. \A y \in Blocks : left[y] \subseteq Blocks
      BY DEF TreeInv, Ordered, StrictOrder, Used
    <3>3. CASE x = n
      BY <1>1, <1>3, <1>9, <3>1, <3>2, <3>3
    <3>4. CASE x # n
      BY <1>3, <2>5, <3>1, <3>2, <3>4
    <3> QED BY <3>3, <3>4
  <2>6. \A x \in Blocks : kind'[x] = "leaf" <=> \E i \in DOMAIN parent : parent[i] = x
    BY <1>10 DEF TreeInv, ParentInv
  <2> QED BY <1>1, <1>10, <2>2, <2>4, <2>5, <2>6 DEF ParentInv
<1>22. Carried(left, left2)
  <2>1. \A x \in Blocks : left[x] \subseteq left2[x]
    BY <1>3, <1>12 DEF TreeInv, Ordered, StrictOrder, Used
  <2>2. ASSUME NEW p \in Blocks, NEW d \in items'[p]
        PROVE  \E q \in Blocks : d \in items[q] /\ (p = q \/ (Unlocked(q) /\ q \in left2[p]))
    <3>1. CASE p = n
      <4>1. d \in items[b] /\ b \in left2[p]
        BY <1>3, <1>5, <1>7, <2>2, <3>1
      <4> QED BY <1>1, <4>1
    <3>2. CASE p # n
      BY <1>7, <2>2, <3>2
    <3> QED BY <3>1, <3>2
  <2> QED BY <1>7, <2>1, <2>2 DEF Carried
<1> QED BY <1>2, <1>16, <1>17, <1>18, <1>19, <1>20, <1>21, <1>22 DEF TreeInv

-----------------------------------------------------------------------------
(* What lies ahead.                                                        *)

CursorTypes ==
  /\ pc \in {"idle", "down", "step", "back", "on", "end"}
  /\ buf \in Blocks \cup {NoBlock}
  /\ buf = NoBlock => pc \in {"idle", "end"}
  /\ old \in Blocks \cup {NoBlock}
  /\ cur \in Entry \cup {NoItem}
  /\ more \in BOOLEAN
  /\ ahead \in Entry \cup {NoItem}
  /\ start \in Keys \cup {0}
  /\ seen \subseteq Entry
  /\ calm \in BOOLEAN
  /\ walk \in Seq(Entry)

LEMMA Types == TypeOK <=> TreeTypes /\ CursorTypes /\ stable \subseteq Present
BY DEF TypeOK, TreeTypes, CursorTypes

LEMMA RightOf ==
  ASSUME NEW left \in [Blocks -> SUBSET Blocks], TreeInv(left),
         NEW b \in Used, NEW p \in Blocks, NEW e \in items[p], b \in left[p]
  PROVE  next[b] # NoBlock /\ (p = next[b] \/ next[b] \in left[p])
<1>1. p \in InChain
  BY DEF TreeInv, RangeInv, Live, InChain
<1> QED BY <1>1 DEF TreeInv, ChainInv

LEMMA NextUsed ==
  ASSUME NEW left \in [Blocks -> SUBSET Blocks], TreeTypes, TreeInv(left),
         NEW b \in Used, next[b] # NoBlock
  PROVE  next[b] \in Used
<1>1. b \in left[next[b]] /\ next[b] \in Blocks
  BY DEF TreeInv, ChainInv, TreeTypes, Used
<1> QED BY <1>1 DEF TreeInv, Ordered, StrictOrder

LEMMA KeysAscend ==
  ASSUME NEW left \in [Blocks -> SUBSET Blocks], TreeTypes, TreeInv(left),
         NEW b \in Blocks, NEW e \in items[b], NEW p \in Blocks, NEW d \in items[p],
         b \in left[p] \/ e <= d
  PROVE  Key(e) <= Key(d)
<1>1. e \in Entry /\ d \in Entry
  BY DEF TreeTypes
<1>2. CASE b \in left[p]
  <2>1. b \in InChain /\ p \in InChain /\ low[p] <= Key(d)
    BY DEF TreeInv, RangeInv, Live, InChain
  <2>2. Key(e) <= low[p]
    BY <1>2, <2>1 DEF TreeInv, RangeInv
  <2> QED BY <1>1, <2>1, <2>2, Numbers
<1> QED BY <1>1, <1>2, Numbers

LEMMA ReadGrows ==
  ASSUME walk \in Seq(Entry), NEW e \in Entry, walk' = Append(walk, e)
  PROVE  /\ walk' \in Seq(Entry) /\ Walked' = Walked \cup {e}
         /\ Len(walk) \in Nat /\ DOMAIN walk = 1 .. Len(walk)
         /\ DOMAIN walk' = 1 .. Len(walk) + 1
         /\ \A i \in 1 .. Len(walk) : walk'[i] = walk[i]
         /\ walk'[Len(walk) + 1] = e
         /\ walk' # <<>> /\ Last(walk') = e
<1> DEFINE l == Len(walk)
<1>1. l \in Nat /\ DOMAIN walk = 1 .. l
  BY LenProperties
<1>2. /\ walk' \in Seq(Entry) /\ Len(walk') = l + 1
      /\ \A i \in 1 .. l : walk'[i] = walk[i]
      /\ walk'[l + 1] = e
  BY AppendProperties
<1>3. DOMAIN walk' = 1 .. l + 1
  BY <1>2, LenProperties
<1>5. walk' # <<>> /\ Last(walk') = e
  BY <1>1, <1>2, EmptySeq DEF Last
<1> HIDE DEF l
<1>4. Walked' = Walked \cup {e}
  <2>1. ASSUME NEW x \in Walked' PROVE x \in Walked \cup {e}
    <3>1. PICK i \in 1 .. l + 1 : x = walk'[i]
      BY <1>3 DEF Walked
    <3>2. i \in 1 .. l \/ i = l + 1
      BY <1>1
    <3> QED BY <1>1, <1>2, <3>1, <3>2 DEF Walked
  <2>2. ASSUME NEW x \in Walked PROVE x \in Walked'
    <3>1. PICK i \in 1 .. l : x = walk[i]
      BY <1>1 DEF Walked
    <3>2. i \in 1 .. l + 1
      BY <1>1
    <3> QED BY <1>2, <1>3, <3>1, <3>2 DEF Walked
  <2>3. e \in Walked'
    <3>1. l + 1 \in 1 .. l + 1
      BY <1>1
    <3> QED BY <1>2, <1>3, <3>1 DEF Walked
  <2> QED BY <2>1, <2>2, <2>3
<1> QED BY <1>1, <1>2, <1>3, <1>4, <1>5 DEF l

\* Whoever is due is on a page.
LEMMA UnseenSomewhere ==
  ASSUME TypeOK, NEW e \in Unseen
  PROVE  e \in Entry /\ \E p \in Blocks : e \in items[p]
<1>1. \E p \in Blocks : e \in items[p]
  BY DEF Unseen, TypeOK, Present
<1> QED BY <1>1 DEF TypeOK

\* The cursor reads e on the page it has locked.
LEMMA ReadAhead ==
  ASSUME NEW left \in [Blocks -> SUBSET Blocks], TypeOK, TreeInv(left),
         buf \in Used, old = NoBlock, NEW e \in items[buf], Read(e),
         UNCHANGED <<tree, buf, old, ahead, start, stable, calm>>,
         \A p \in Blocks : \A d \in items[p] : d \in Unseen => buf \in left[p] \/ (p = buf /\ e <= d)
  PROVE  TypeOK' /\ PlaceInv' /\ TreeInv(left)' /\ AheadInv(left)'
<1>1. /\ pc' = "on" /\ cur' = e /\ more' = (\E d \in items[buf] : d > e)
      /\ seen' = seen \cup {e} /\ walk' = Append(walk, e)
      /\ items' = items /\ low' = low /\ next' = next /\ kind' = kind /\ parent' = parent
      /\ buf' = buf /\ old' = old /\ start' = start /\ stable' = stable
  BY DEF Read, tree
<1>2. e \in Entry /\ buf \in Blocks
  BY DEF TypeOK, Used
<1>3. walk' \in Seq(Entry) /\ seen' \subseteq Entry /\ seen' = seen \cup {e}
  BY <1>1, <1>2, ReadGrows DEF TypeOK
<1>4. TypeOK'
  <2>1. more' \in BOOLEAN
    BY Zenon DEF Read
  <2>2. TreeTypes' /\ (stable \subseteq Present)'
    BY <1>1, Types DEF TreeTypes, Present
  <2>3. buf # NoBlock
    BY <1>2, BlocksAssumption DEF NoBlock
  <2>4. CursorTypes'
    BY <1>1, <1>2, <1>3, <2>1, <2>3 DEF TypeOK, CursorTypes
  <2>5. TypeOK'
    BY <2>2, <2>4 DEF TypeOK, TreeTypes, CursorTypes
  <2> QED BY <2>5
<1>5. TreeInv(left)'
  BY <1>1 DEF TreeInv, Ordered, StrictOrder, ChainInv, RangeInv, ParentInv, Used, InChain, Ignored, Live
<1>6. PlaceInv'
  BY <1>1 DEF PlaceInv, Peeking, Used
<1>7. \A d \in Unseen' : d \in Unseen /\ d # e
  BY <1>1, <1>3 DEF Unseen
<1>8. ASSUME NEW p \in Blocks, NEW d \in items[p], d \in Unseen'
      PROVE  /\ buf \in left[p] \/ (more' /\ p = buf /\ d > e)
             /\ Key(d) >= Key(e)
  <2>1. d \in Unseen /\ d # e /\ d \in Entry
    BY <1>7, <1>8 DEF TypeOK
  <2>2. buf \in left[p] \/ (p = buf /\ e <= d)
    BY <2>1
  <2>3. d \in Nat /\ e \in Nat /\ Key(d) \in Nat /\ Key(e) \in Nat
    BY <1>2, <2>1, Numbers, Types
  <2>4. Key(e) <= Key(d)
    BY <1>2, <2>2, KeysAscend, Types
  <2> QED BY <1>1, <2>1, <2>2, <2>3, <2>4
<1>9. \A d \in Unseen' : Key(d) >= Key(e)
  <2> TAKE d \in Unseen'
  <2>1. \E p \in Blocks : d \in items[p]
    BY <1>7, UnseenSomewhere
  <2> QED BY <1>8, <2>1
<1>10. AheadInv(left)'
  BY <1>1, <1>8, <1>9 DEF AheadInv, Peeking
<1> QED BY <1>4, <1>5, <1>6, <1>10

\* Nothing that is due is left on the page, and the cursor goes on from it.
LEMMA ForwardAhead ==
  ASSUME NEW left \in [Blocks -> SUBSET Blocks], TypeOK, TreeInv(left),
         buf \in Used, old = NoBlock, Forward,
         UNCHANGED <<tree, old, ahead, start, stable, calm>>,
         \A p \in Blocks : \A d \in items[p] : d \in Unseen => buf \in left[p]
  PROVE  TypeOK' /\ PlaceInv' /\ TreeInv(left)' /\ AheadInv(left)'
<1>1. /\ items' = items /\ low' = low /\ next' = next /\ kind' = kind /\ parent' = parent
      /\ old' = old /\ start' = start /\ stable' = stable /\ seen' = seen /\ walk' = walk
      /\ cur' = cur /\ more' = more
  BY DEF Forward, tree
<1>2. buf \in Blocks /\ next[buf] \in Blocks \cup {NoBlock}
  BY DEF TypeOK, Used
<1>3. TreeInv(left)'
  BY <1>1 DEF TreeInv, Ordered, StrictOrder, ChainInv, RangeInv, ParentInv, Used, InChain, Ignored, Live
<1>4. Unseen' = Unseen
  BY <1>1 DEF Unseen
<1>5. CASE next[buf] = NoBlock
  <2>1. pc' = "end" /\ buf' = buf
    BY <1>5 DEF Forward
  <2>2. TypeOK'
    BY <1>1, <2>1 DEF TypeOK, Present
  <2>3. PlaceInv'
    BY <1>1, <2>1 DEF PlaceInv, Peeking
  <2>4. Unseen = {}
    <3> SUFFICES ASSUME NEW d \in Unseen PROVE FALSE
      OBVIOUS
    <3>1. PICK p \in Blocks : d \in items[p]
      BY UnseenSomewhere
    <3>2. buf \in left[p]
      BY <3>1
    <3> QED BY <1>5, <3>1, <3>2, RightOf
  <2>5. AheadInv(left)'
    BY <1>1, <1>4, <2>1, <2>4 DEF AheadInv, Peeking
  <2> QED BY <1>3, <2>2, <2>3, <2>5
<1>6. CASE next[buf] # NoBlock
  <2>1. pc' = "step" /\ buf' = next[buf]
    BY <1>6 DEF Forward
  <2>2. next[buf] \in Used
    BY <1>6, NextUsed, Types
  <2>3. TypeOK'
    BY <1>1, <1>2, <1>6, <2>1 DEF TypeOK, Present
  <2>4. PlaceInv'
    BY <1>1, <2>1, <2>2 DEF PlaceInv, Peeking, Used
  <2>5. \A p \in Blocks : \A d \in items[p] : d \in Unseen => p = next[buf] \/ next[buf] \in left[p]
    BY RightOf
  <2>6. AheadInv(left)'
    BY <1>1, <1>4, <2>1, <2>5 DEF AheadInv, Peeking
  <2> QED BY <1>3, <2>3, <2>4, <2>6
<1> QED BY <1>5, <1>6

-----------------------------------------------------------------------------
(* The steps of the cursor.                                                *)

WalkInv(left) == TypeOK /\ PlaceInv /\ TreeInv(left) /\ AheadInv(left)

\* The internal page leads to a leaf, left of which no key is s or above, and
\* right of which no downlink is below s.
LEMMA DownlinkRight ==
  ASSUME NEW left \in [Blocks -> SUBSET Blocks], TreeTypes, TreeInv(left),
         NEW s \in Keys, parent # <<>>
  PROVE  /\ Downlink(s) \in Blocks /\ kind[Downlink(s)] = "leaf"
         /\ \A p \in Blocks : \A e \in items[p] :
              Key(e) >= s => p = Downlink(s) \/ Downlink(s) \in left[p]
         /\ \A p \in Blocks : kind[p] = "leaf" /\ Downlink(s) \in left[p] => s <= low[p]
<1> DEFINE l == Len(parent)
           T == {i \in DOMAIN parent : i = 1 \/ low[parent[i]] < s}
<1>1. /\ l \in Nat /\ DOMAIN parent = 1 .. l /\ l # 0
      /\ \A i \in 1 .. l : parent[i] \in Blocks
  <2>1. parent \in Seq(Blocks)
    BY DEF TreeTypes
  <2>2. l \in Nat /\ DOMAIN parent = 1 .. l /\ \A i \in 1 .. l : parent[i] \in Blocks
    BY <2>1, LenProperties
  <2>3. l # 0
    BY <2>1, EmptySeq
  <2> QED BY <2>2, <2>3
<1> HIDE DEF l
<1>2. PICK m \in T : \A i \in T : i <= m
  <2>1. T \in SUBSET (1 .. l)
    BY <1>1
  <2>2. 1 \in T
    BY <1>1
  <2> HIDE DEF T
  <2> QED BY <1>1, <2>1, <2>2, GreatestBelow
<1> DEFINE P(i) == /\ i = 1 \/ low[parent[i]] < s
                   /\ \A j \in DOMAIN parent : low[parent[j]] < s => j <= i
<1>3. m \in DOMAIN parent /\ P(m)
  BY <1>2
<1>4. PICK i \in DOMAIN parent : P(i) /\ Downlink(s) = parent[i]
  <2> DEFINE c == CHOOSE i \in DOMAIN parent : P(i)
  <2>1. Downlink(s) = parent[c]
    BY DEF Downlink
  <2> HIDE DEF P
  <2>2. c \in DOMAIN parent /\ P(c)
    BY <1>3
  <2> QED BY <2>1, <2>2
<1> DEFINE D == parent[i]
<1>5. i \in 1 .. l /\ D \in Blocks /\ kind[D] = "leaf" /\ D = Downlink(s)
  BY <1>1, <1>4 DEF TreeInv, ParentInv
<1>6. /\ \A x \in Blocks : low[x] \in Nat
      /\ s \in Nat
  BY Numbers DEF Keys
<1>7. /\ \A j \in 1 .. l : i < j => s <= low[parent[j]]
      /\ \A j \in 1 .. l : j < i => parent[j] \in left[D]
      /\ i = 1 \/ low[D] < s
  <2>1. /\ \A j \in 1 .. l : low[parent[j]] < s => j <= i
        /\ i = 1 \/ low[parent[i]] < s
    BY <1>1, <1>4
  <2>2. \A j \in 1 .. l : i < j => ~ (low[parent[j]] < s)
    BY <1>5, <2>1
  <2>3. \A j \in 1 .. l : i < j => s <= low[parent[j]]
    BY <1>1, <1>6, <2>2
  <2>4. \A j \in 1 .. l : j < i => parent[j] \in left[parent[i]]
    BY <1>1, <1>5 DEF TreeInv, ParentInv
  <2> QED BY <2>1, <2>3, <2>4
<1> HIDE DEF P, T
<1>8. ASSUME NEW p \in Blocks, NEW e \in items[p], Key(e) >= s PROVE p = D \/ D \in left[p]
  <2>1. Live(p) /\ p \in InChain /\ D \in InChain /\ p \in Used /\ D \in Used
    BY <1>5 DEF TreeInv, RangeInv, Live, InChain, Used
  <2>2. SUFFICES ASSUME p \in left[D] PROVE FALSE
    BY <2>1 DEF TreeInv, Ordered, StrictOrder
  <2>3. CASE low[D] < s
    <3>1. Key(e) <= low[D]
      BY <2>1, <2>2 DEF TreeInv, RangeInv
    <3>2. Key(e) \in Nat /\ low[D] \in Nat
      BY <1>5, Numbers DEF TreeTypes
    <3> QED BY <1>6, <1>8, <2>3, <3>1, <3>2
  <2>4. CASE i = 1
    <3>1. p = D \/ D \in left[p]
      BY <2>1, <2>4 DEF TreeInv, ParentInv
    <3> QED BY <1>5, <2>2, <3>1 DEF TreeInv, Ordered, StrictOrder
  <2> QED BY <1>7, <2>3, <2>4
<1>9. ASSUME NEW p \in Blocks, kind[p] = "leaf", D \in left[p] PROVE s <= low[p]
  <2>1. PICK j \in 1 .. l : parent[j] = p
    BY <1>1, <1>9 DEF TreeInv, ParentInv
  <2>2. p # D /\ p \notin left[D]
    BY <1>5, <1>9 DEF TreeInv, Ordered, StrictOrder
  <2>3. ~ (j < i) /\ j # i
    BY <1>7, <2>1, <2>2
  <2>4. i < j
    BY <1>5, <2>3
  <2> QED BY <1>7, <2>1, <2>4
<1> QED BY <1>5, <1>8, <1>9

LEMMA MoveFirstAhead ==
  ASSUME NEW left \in [Blocks -> SUBSET Blocks], WalkInv(left), NEW s \in Keys, MoveFirst(s)
  PROVE  WalkInv(left)'
<1>1. /\ items' = items /\ low' = low /\ next' = next /\ kind' = kind /\ parent' = parent
      /\ old' = old /\ ahead' = ahead /\ start' = s /\ stable' = Present /\ calm' = Settled
      /\ seen' = {} /\ walk' = <<>> /\ cur' = NoItem /\ more' = FALSE
      /\ pc \in {"idle", "on", "end"}
  BY DEF MoveFirst, tree
<1>2. old = NoBlock
  BY <1>1 DEF WalkInv, PlaceInv, Peeking
<1>3. TreeInv(left)'
  BY <1>1 DEF WalkInv, TreeInv, Ordered, StrictOrder, ChainInv, RangeInv, ParentInv, Used, InChain, Ignored, Live
<1>4. TreeTypes /\ TreeTypes' /\ (stable \subseteq Present)'
  BY <1>1, Types DEF WalkInv, TreeTypes, Present
<1>5. walk' \in Seq(Entry) /\ calm' \in BOOLEAN /\ start' \in Keys \cup {0}
  <2>1. calm' \in BOOLEAN
    BY Zenon DEF MoveFirst, Settled
  <2> QED BY <1>1, <2>1
<1>6. CASE parent = <<>>
  <2>1. pc' = "end" /\ buf' = NoBlock
    BY <1>6 DEF MoveFirst
  <2>2. CursorTypes'
    BY <1>1, <1>5, <2>1 DEF WalkInv, TypeOK, CursorTypes
  <2>3. PlaceInv'
    BY <1>1, <1>2, <2>1 DEF PlaceInv, Peeking
  <2>4. Unseen' = {}
    <3>1. \A p \in Blocks : items[p] = {}
      BY <1>6 DEF WalkInv, TreeInv, ParentInv, RangeInv, Live, Used
    <3>2. stable' = {}
      BY <1>1, <3>1 DEF Present
    <3> QED BY <3>2 DEF Unseen
  <2>5. AheadInv(left)'
    BY <1>1, <1>2, <2>1, <2>4 DEF AheadInv, Peeking
  <2> QED BY <1>3, <1>4, <2>2, <2>3, <2>5 DEF WalkInv, TypeOK, TreeTypes, CursorTypes
<1>7. CASE parent # <<>>
  <2>1. pc' = "down" /\ buf' = Downlink(s)
    BY <1>7 DEF MoveFirst
  <2>2. /\ buf' \in Blocks /\ kind[buf'] = "leaf"
        /\ \A p \in Blocks : \A e \in items[p] : Key(e) >= s => p = buf' \/ buf' \in left[p]
    <3>1. /\ Downlink(s) \in Blocks /\ kind[Downlink(s)] = "leaf"
          /\ \A p \in Blocks : \A e \in items[p] :
               Key(e) >= s => p = Downlink(s) \/ Downlink(s) \in left[p]
      BY <1>4, <1>7, DownlinkRight DEF WalkInv
    <3> QED BY <2>1, <3>1
  <2>3. buf' # NoBlock
    BY <2>2, BlocksAssumption DEF NoBlock
  <2>4. CursorTypes'
    BY <1>1, <1>5, <2>1, <2>2, <2>3 DEF WalkInv, TypeOK, CursorTypes
  <2>5. PlaceInv'
    BY <1>1, <1>2, <2>1, <2>2 DEF PlaceInv, Peeking, Used
  <2>6. \A p \in Blocks : \A e \in items[p] : e \in Unseen' => p = buf' \/ buf' \in left[p]
    BY <1>1, <2>2 DEF Unseen
  <2>7. AheadInv(left)'
    BY <1>1, <1>2, <2>1, <2>6 DEF AheadInv, Peeking
  <2> QED BY <1>3, <1>4, <2>4, <2>5, <2>7 DEF WalkInv, TypeOK, TreeTypes, CursorTypes
<1> QED BY <1>6, <1>7

\* An ignored page is passed without passing anything by.
LEMMA PassIgnoredAhead ==
  ASSUME NEW left \in [Blocks -> SUBSET Blocks], WalkInv(left), pc \in {"down", "step"}, PassIgnored,
         UNCHANGED <<tree, pc, old, cur, more, ahead, start, seen, walk, stable, calm>>
  PROVE  WalkInv(left)'
<1>1. /\ items' = items /\ low' = low /\ next' = next /\ kind' = kind /\ parent' = parent
      /\ Ignored(buf) /\ buf' = next[buf]
  BY DEF PassIgnored, tree
<1>2. buf \in Used /\ buf \in Blocks
  BY DEF WalkInv, PlaceInv, Used
<1>3. next[buf] # NoBlock /\ next[buf] \in Blocks /\ next[buf] \in Used
  <2>1. next[buf] # NoBlock
    BY <1>1, <1>2 DEF WalkInv, TreeInv, ChainInv
  <2> QED BY <1>2, <2>1, NextUsed, Types DEF WalkInv, Used
<1>4. items[buf] = {}
  BY <1>1, <1>2 DEF WalkInv, TreeInv, RangeInv, Ignored, Live
<1>5. Unseen' = Unseen
  BY DEF Unseen
<1>6. TreeInv(left)'
  BY <1>1 DEF WalkInv, TreeInv, Ordered, StrictOrder, ChainInv, RangeInv, ParentInv, Used, InChain, Ignored, Live
<1>7. TypeOK'
  BY <1>1, <1>3 DEF WalkInv, TypeOK, Present, tree
<1>8. PlaceInv'
  BY <1>1, <1>3 DEF WalkInv, PlaceInv, Peeking, Used
<1>9. ASSUME NEW p \in Blocks, NEW e \in items[p], buf \in left[p]
      PROVE  p = next[buf] \/ next[buf] \in left[p]
  BY <1>2, <1>9, RightOf DEF WalkInv
<1>10. AheadInv(left)'
  BY <1>1, <1>4, <1>5, <1>9 DEF WalkInv, AheadInv, Peeking
<1> QED BY <1>6, <1>7, <1>8, <1>10 DEF WalkInv

LEMMA LandAhead ==
  ASSUME NEW left \in [Blocks -> SUBSET Blocks], WalkInv(left), Land
  PROVE  WalkInv(left)'
<1>1. pc = "down" /\ UNCHANGED <<tree, old, ahead, start, stable, calm>>
  BY DEF Land
<1>2. old = NoBlock /\ buf \in Used /\ buf \in Blocks
  BY <1>1 DEF WalkInv, PlaceInv, Peeking, Used
<1>3. \A p \in Blocks : \A d \in items[p] : d \in Unseen => p = buf \/ buf \in left[p]
  BY <1>1, <1>2 DEF WalkInv, AheadInv, Peeking
<1>4. CASE PassIgnored /\ UNCHANGED <<pc, cur, more, seen, walk>>
  BY <1>1, <1>4, PassIgnoredAhead
<1>5. ASSUME NEW e \in items[buf], Binsrch(buf, start, e), Read(e), UNCHANGED buf
      PROVE  WalkInv(left)'
  <2>1. \A d \in items[buf] : d \in Unseen => e <= d
    BY <1>5 DEF Binsrch, Unseen
  <2>2. \A p \in Blocks : \A d \in items[p] : d \in Unseen => buf \in left[p] \/ (p = buf /\ e <= d)
    BY <1>3, <2>1
  <2> QED BY <1>1, <1>2, <1>5, <2>2, ReadAhead DEF WalkInv
<1>6. CASE ~ (\E e \in items[buf] : Binsrch(buf, start, e)) /\ Forward
  <2>1. \A d \in items[buf] : ~ (Key(d) >= start)
    <3> DEFINE T == {d \in items[buf] : Key(d) >= start}
    <3> SUFFICES ASSUME T # {} PROVE FALSE
      OBVIOUS
    <3>1. T \in SUBSET Nat
      BY <1>2, Numbers, Types DEF WalkInv, TreeTypes
    <3>2. \E e \in T : \A d \in T : e <= d
      <4> HIDE DEF T
      <4> QED BY <3>1, LeastNat
    <3> QED BY <1>6, <3>2 DEF Binsrch
  <2>2. \A p \in Blocks : \A d \in items[p] : d \in Unseen => buf \in left[p]
    BY <1>3, <2>1 DEF Unseen
  <2> QED BY <1>1, <1>2, <1>6, <2>2, ForwardAhead DEF WalkInv
<1> QED BY <1>4, <1>5, <1>6 DEF Land

\* The tree is as it was, and so is what may be read from it.
LEMMA SameTree ==
  ASSUME NEW left \in [Blocks -> SUBSET Blocks], TypeOK, TreeInv(left),
         UNCHANGED tree, stable' = stable \/ stable' = {}
  PROVE  TreeTypes' /\ TreeInv(left)' /\ (stable \subseteq Present)' /\ Used' = Used
<1>1. items' = items /\ low' = low /\ next' = next /\ kind' = kind /\ parent' = parent
  BY DEF tree
<1>2. TreeInv(left)'
  BY <1>1 DEF TreeInv, Ordered, StrictOrder, ChainInv, RangeInv, ParentInv, Used, InChain, Ignored, Live
<1> QED BY <1>1, <1>2 DEF TypeOK, TreeTypes, Present, Used

LEMMA StepAhead ==
  ASSUME NEW left \in [Blocks -> SUBSET Blocks], WalkInv(left), Step
  PROVE  WalkInv(left)'
<1>1. pc = "step" /\ UNCHANGED <<tree, old, start, stable, calm>>
  BY DEF Step
<1>2. buf \in Used /\ buf \in Blocks
  BY <1>1 DEF WalkInv, PlaceInv, Used
<1>3. TreeTypes' /\ TreeInv(left)' /\ (stable \subseteq Present)' /\ Used' = Used
  BY <1>1, SameTree DEF WalkInv
<1>4. CASE PassIgnored /\ UNCHANGED <<pc, cur, more, ahead, seen, walk>>
  BY <1>1, <1>4, PassIgnoredAhead
<1>5. ASSUME old = NoBlock
      PROVE  \A p \in Blocks : \A d \in items[p] : d \in Unseen => p = buf \/ buf \in left[p]
  BY <1>1, <1>5 DEF WalkInv, AheadInv, Peeking
<1>6. ASSUME old = NoBlock, NEW e \in items[buf], FirstItem(buf, e), Read(e), UNCHANGED <<buf, ahead>>
      PROVE  WalkInv(left)'
  <2>1. \A p \in Blocks : \A d \in items[p] : d \in Unseen => buf \in left[p] \/ (p = buf /\ e <= d)
    BY <1>5, <1>6 DEF FirstItem
  <2> QED BY <1>1, <1>2, <1>6, <2>1, ReadAhead DEF WalkInv
<1>7. CASE /\ old = NoBlock /\ items[buf] = {}
           /\ pc' = "on" /\ cur' = NoItem /\ more' = FALSE
           /\ UNCHANGED <<seen, walk, buf, ahead>>
  <2>1. CursorTypes'
    BY <1>1, <1>2, <1>7, BlocksAssumption DEF WalkInv, TypeOK, CursorTypes, NoBlock
  <2>2. PlaceInv'
    BY <1>1, <1>2, <1>3, <1>7 DEF PlaceInv, Peeking
  <2>3. Unseen' = Unseen /\ items' = items
    BY <1>1, <1>7 DEF Unseen, tree
  <2>4. \A p \in Blocks : \A d \in items[p] : d \in Unseen => buf \in left[p]
    BY <1>5, <1>7
  <2>5. AheadInv(left)'
    BY <1>1, <1>7, <2>3, <2>4 DEF AheadInv, Peeking
  <2> QED BY <1>3, <2>1, <2>2, <2>5 DEF WalkInv, TypeOK, TreeTypes, CursorTypes
<1>8. ASSUME old # NoBlock, ahead' \in Entry \cup {NoItem},
             pc' = "back", buf' = old, UNCHANGED <<cur, more, seen, walk>>
      PROVE  WalkInv(left)'
  <2>1. CursorTypes'
    BY <1>1, <1>8 DEF WalkInv, TypeOK, CursorTypes
  <2>2. PlaceInv'
    BY <1>1, <1>3, <1>8 DEF WalkInv, PlaceInv, Peeking
  <2>3. Unseen' = Unseen /\ items' = items
    BY <1>1, <1>8 DEF Unseen, tree
  <2>4. AheadInv(left)'
    BY <1>1, <1>8, <2>3 DEF WalkInv, AheadInv, Peeking
  <2> QED BY <1>3, <2>1, <2>2, <2>4 DEF WalkInv, TypeOK, TreeTypes, CursorTypes
<1>9. items[buf] \subseteq Entry
  BY <1>2 DEF WalkInv, TypeOK
<1>10. \/ PassIgnored /\ UNCHANGED <<pc, cur, more, ahead, seen, walk>>
       \/ old = NoBlock /\ (\E e \in items[buf] : FirstItem(buf, e) /\ Read(e)) /\ UNCHANGED <<buf, ahead>>
       \/ /\ old = NoBlock /\ items[buf] = {}
          /\ pc' = "on" /\ cur' = NoItem /\ more' = FALSE
          /\ UNCHANGED <<seen, walk, buf, ahead>>
       \/ /\ old # NoBlock /\ ahead' \in items[buf] \cup {NoItem}
          /\ pc' = "back" /\ buf' = old /\ UNCHANGED <<cur, more, seen, walk>>
  BY DEF Step, FirstItem
<1> QED BY <1>4, <1>6, <1>7, <1>8, <1>9, <1>10

LEMMA MoveNextAhead ==
  ASSUME NEW left \in [Blocks -> SUBSET Blocks], WalkInv(left), MoveNext
  PROVE  WalkInv(left)'
<1>1. pc = "on" /\ UNCHANGED <<tree, old, ahead, start, stable, calm>>
  BY DEF MoveNext
<1>2. old = NoBlock /\ buf \in Used /\ buf \in Blocks
  BY <1>1 DEF WalkInv, PlaceInv, Peeking, Used
<1>3. \A p \in Blocks : \A d \in items[p] :
        d \in Unseen => buf \in left[p] \/ (more /\ p = buf /\ d > cur)
  BY <1>1, <1>2 DEF WalkInv, AheadInv
<1>4. ASSUME NEW e \in items[buf], e > cur, \A d \in items[buf] : d > cur => e <= d, Read(e), UNCHANGED buf
      PROVE  WalkInv(left)'
  <2>1. \A p \in Blocks : \A d \in items[p] : d \in Unseen => buf \in left[p] \/ (p = buf /\ e <= d)
    BY <1>3, <1>4
  <2> QED BY <1>1, <1>2, <1>4, <2>1, ReadAhead DEF WalkInv
<1>5. CASE ~ more /\ Forward
  <2>1. \A p \in Blocks : \A d \in items[p] : d \in Unseen => buf \in left[p]
    BY <1>3, <1>5
  <2> QED BY <1>1, <1>2, <1>5, <2>1, ForwardAhead DEF WalkInv
<1> QED BY <1>4, <1>5 DEF MoveNext

LEMMA PeekAhead ==
  ASSUME NEW left \in [Blocks -> SUBSET Blocks], WalkInv(left), Peek
  PROVE  WalkInv(left)'
<1>1. /\ pc = "on" /\ ~ more /\ old' = buf
      /\ UNCHANGED <<tree, cur, more, ahead, start, seen, walk, stable, calm>>
  BY DEF Peek, past
<1>2. buf \in Used /\ buf \in Blocks
  BY <1>1 DEF WalkInv, PlaceInv, Used
<1>3. TreeTypes' /\ TreeInv(left)' /\ (stable \subseteq Present)' /\ Used' = Used
  BY <1>1, SameTree DEF WalkInv
<1>4. buf # NoBlock
  BY <1>2, BlocksAssumption DEF NoBlock
<1>5. \A p \in Blocks : \A d \in items[p] : d \in Unseen => buf \in left[p]
  BY <1>1 DEF WalkInv, AheadInv
<1>6. Unseen' = Unseen /\ items' = items
  BY <1>1 DEF Unseen, tree
<1>7. \/ pc' = "back" /\ buf' = buf
      \/ pc' = "step" /\ buf' = next[buf] /\ next[buf] \in Used /\ next[buf] \in Blocks /\ next[buf] # NoBlock
  <2>1. next[buf] # NoBlock => next[buf] \in Used
    BY <1>2, NextUsed, Types DEF WalkInv
  <2> QED BY <2>1 DEF Peek, Used
<1>8. CursorTypes'
  BY <1>1, <1>2, <1>4, <1>7 DEF WalkInv, TypeOK, CursorTypes
<1>9. PlaceInv'
  BY <1>1, <1>2, <1>3, <1>7 DEF PlaceInv, Peeking
<1>10. AheadInv(left)'
  BY <1>1, <1>4, <1>5, <1>6, <1>7 DEF WalkInv, AheadInv, Peeking
<1> QED BY <1>3, <1>8, <1>9, <1>10 DEF WalkInv, TypeOK, TreeTypes, CursorTypes

LEMMA BackAhead ==
  ASSUME NEW left \in [Blocks -> SUBSET Blocks], WalkInv(left), Back
  PROVE  WalkInv(left)'
<1>1. /\ pc = "back" /\ pc' = "on" /\ old' = NoBlock /\ ahead' = NoItem
      /\ UNCHANGED <<tree, buf, cur, more, start, seen, walk, stable, calm>>
  BY DEF Back, past
<1>2. buf \in Used /\ buf \in Blocks /\ buf = old
  BY <1>1 DEF WalkInv, PlaceInv, Used
<1>3. TreeTypes' /\ TreeInv(left)' /\ (stable \subseteq Present)' /\ Used' = Used
  BY <1>1, SameTree DEF WalkInv
<1>4. buf # NoBlock
  BY <1>2, BlocksAssumption DEF NoBlock
<1>5. Unseen' = Unseen /\ items' = items
  BY <1>1 DEF Unseen, tree
<1>6. CursorTypes'
  BY <1>1, <1>2, <1>4 DEF WalkInv, TypeOK, CursorTypes
<1>7. PlaceInv'
  BY <1>1, <1>2, <1>3 DEF PlaceInv, Peeking
<1>8. AheadInv(left)'
  BY <1>1, <1>2, <1>4, <1>5 DEF WalkInv, AheadInv, Peeking
<1> QED BY <1>3, <1>6, <1>7, <1>8 DEF WalkInv, TypeOK, TreeTypes, CursorTypes

LEMMA CloseAhead ==
  ASSUME NEW left \in [Blocks -> SUBSET Blocks], WalkInv(left), Close
  PROVE  WalkInv(left)'
<1>1. /\ pc \in {"on", "end"} /\ pc' = "idle" /\ buf' = NoBlock /\ start' = 0
      /\ cur' = NoItem /\ more' = FALSE /\ seen' = {} /\ walk' = <<>> /\ stable' = {} /\ calm' = TRUE
      /\ UNCHANGED <<tree, old, ahead>>
  BY DEF Close
<1>2. TreeTypes' /\ TreeInv(left)' /\ (stable \subseteq Present)'
  BY <1>1, SameTree DEF WalkInv
<1>3. old = NoBlock
  BY <1>1 DEF WalkInv, PlaceInv, Peeking
<1>4. CursorTypes'
  <2>1. <<>> \in Seq(Entry)
    OBVIOUS
  <2> QED BY <1>1, <2>1 DEF WalkInv, TypeOK, CursorTypes
<1>5. PlaceInv'
  BY <1>1, <1>3 DEF PlaceInv, Peeking
<1>6. Unseen' = {}
  BY <1>1 DEF Unseen
<1>7. AheadInv(left)'
  BY <1>1, <1>3, <1>6 DEF AheadInv, Peeking
<1> QED BY <1>2, <1>4, <1>5, <1>7 DEF WalkInv, TypeOK, TreeTypes, CursorTypes

LEMMA WritersAhead ==
  ASSUME NEW left \in [Blocks -> SUBSET Blocks], WalkInv(left), Writers
  PROVE  /\ UNCHANGED <<cursor, seen>> /\ calm' = (pc = "idle") /\ walk' = <<>>
         /\ \E left2 \in [Blocks -> SUBSET Blocks] : WalkInv(left2)'
<1>1. PICK gone \in SUBSET Entry : Written(gone)
  <2>1. {} \in SUBSET Entry /\ \A e \in Entry : {e} \in SUBSET Entry
    OBVIOUS
  <2> QED BY <2>1 DEF Writers, Create, Insert, Split, Link, Vacuum, HalfDead, Unlink
<1>2. /\ UNCHANGED <<cursor, seen>> /\ calm' = (pc = "idle") /\ walk' = <<>> /\ stable' \subseteq stable
      /\ pc' = pc /\ buf' = buf /\ old' = old /\ cur' = cur /\ more' = more
      /\ ahead' = ahead /\ start' = start /\ seen' = seen
  BY <1>1 DEF Written, cursor
<1>3. TreeTypes /\ CursorTypes /\ TreeInv(left) /\ stable \subseteq Present
  BY Types DEF WalkInv
<1>4. /\ TreeTypes' /\ (stable \subseteq Present)'
      /\ \E left2 \in [Blocks -> SUBSET Blocks] : TreeInv(left2)' /\ Carried(left, left2)
  <2>1. ASSUME NEW e \in Entry, Create(e)
        PROVE  TreeTypes' /\ (stable \subseteq Present)' /\ TreeInv(left)' /\ Carried(left, left)
    BY <1>3, <2>1, CreateKeepsTree
  <2>2. ASSUME NEW b \in Blocks, NEW e \in Entry, Insert(b, e)
        PROVE  TreeTypes' /\ (stable \subseteq Present)' /\ TreeInv(left)' /\ Carried(left, left)
    BY <1>3, <2>2, InsertKeepsTree
  <2>3. ASSUME NEW b \in Blocks, NEW e \in Entry, Vacuum(b, e)
        PROVE  TreeTypes' /\ (stable \subseteq Present)' /\ TreeInv(left)' /\ Carried(left, left)
    BY <1>3, <2>3, VacuumKeepsTree
  <2>4. ASSUME NEW b \in Blocks, Link(b)
        PROVE  TreeTypes' /\ (stable \subseteq Present)' /\ TreeInv(left)' /\ Carried(left, left)
    BY <1>3, <2>4, LinkKeepsTree
  <2>5. ASSUME NEW b \in Blocks, HalfDead(b)
        PROVE  TreeTypes' /\ (stable \subseteq Present)' /\ TreeInv(left)' /\ Carried(left, left)
    BY <1>3, <2>5, HalfDeadKeepsTree
  <2>6. ASSUME NEW b \in Blocks, Unlink(b)
        PROVE  TreeTypes' /\ (stable \subseteq Present)' /\ TreeInv(left)' /\ Carried(left, left)
    BY <1>3, <2>6, UnlinkKeepsTree
  <2>7. ASSUME NEW b \in Blocks, NEW e \in Entry, Split(b, e)
        PROVE  /\ TreeTypes' /\ (stable \subseteq Present)'
               /\ \E left2 \in [Blocks -> SUBSET Blocks] : TreeInv(left2)' /\ Carried(left, left2)
    BY <1>3, <2>7, SplitKeepsTree
  <2> QED BY <2>1, <2>2, <2>3, <2>4, <2>5, <2>6, <2>7 DEF Writers
<1>5. PICK left2 \in [Blocks -> SUBSET Blocks] : TreeInv(left2)' /\ Carried(left, left2)
  BY <1>4
<1>6. CursorTypes'
  <2>1. calm' \in BOOLEAN /\ walk' \in Seq(Entry)
    BY <1>2
  <2> QED BY <1>2, <1>3, <2>1 DEF CursorTypes
<1>7. Used \subseteq Used'
  BY <1>5 DEF Carried, Used
<1>8. PlaceInv'
  BY <1>2, <1>7 DEF WalkInv, PlaceInv, Peeking
<1>9. Unseen' \subseteq Unseen /\ Unseen' \subseteq stable'
  BY <1>2 DEF Unseen
<1>10. \A b \in Blocks : left[b] \subseteq left2[b]
  BY <1>5 DEF Carried
<1>11. \A a, b \in Blocks : a \in left2[b] => left2[a] \subseteq left2[b]
  BY <1>5 DEF TreeInv, Ordered, StrictOrder
<1>12. ASSUME NEW p \in Blocks, NEW e \in items'[p], e \in Unseen'
       PROVE  \E q \in Blocks : /\ e \in items[q] /\ e \in Unseen
                                /\ p = q \/ (Unlocked(q) /\ q \in left2[p])
                                /\ left[q] \subseteq left2[p]
  <2>1. PICK q \in Blocks : e \in items[q] /\ (p = q \/ (Unlocked(q) /\ q \in left2[p]))
    BY <1>5, <1>9, <1>12 DEF Carried
  <2>2. left[q] \subseteq left2[p]
    BY <1>10, <1>11, <2>1
  <2> QED BY <1>9, <1>12, <2>1, <2>2
<1>13. AheadInv(left2)'
  <2>1. ASSUME NEW p \in Blocks, NEW e \in items'[p], e \in Unseen'
        PROVE  /\ pc \in {"down", "step"} /\ ~ Peeking => p = buf \/ buf \in left2[p]
               /\ pc = "on" => buf \in left2[p] \/ (more /\ p = buf /\ e > cur)
               /\ Peeking => old \in left2[p]
    <3>1. PICK q \in Blocks : /\ e \in items[q] /\ e \in Unseen
                              /\ p = q \/ (Unlocked(q) /\ q \in left2[p])
                              /\ left[q] \subseteq left2[p]
      BY <1>12, <2>1
    <3>2. /\ pc \in {"down", "step"} /\ ~ Peeking => q = buf \/ buf \in left[q]
          /\ pc = "on" => buf \in left[q] \/ (more /\ q = buf /\ e > cur)
          /\ Peeking => old \in left[q]
      BY <3>1 DEF WalkInv, AheadInv
    <3> QED BY <3>1, <3>2 DEF Unlocked
  <2>2. (pc = "on" \/ Peeking) /\ cur # NoItem => \A e \in Unseen' : Key(e) >= Key(cur)
    BY <1>9 DEF WalkInv, AheadInv
  <2>3. pc = "end" => Unseen' = {}
    BY <1>9 DEF WalkInv, AheadInv
  <2>4. Peeking' <=> Peeking
    BY <1>2 DEF Peeking
  <2> QED BY <1>2, <2>1, <2>2, <2>3, <2>4 DEF AheadInv
<1>14. WalkInv(left2)'
  BY <1>4, <1>5, <1>6, <1>8, <1>13 DEF WalkInv, TypeOK, TreeTypes, CursorTypes
<1> QED BY <1>2, <1>14

-----------------------------------------------------------------------------
(* While nobody writes.                                                    *)

\* What the walk is, where it stands and what the peek saw.
Calmly(left) ==
  /\ Settled /\ stable = Present /\ seen = Walked
  /\ BehindInv(left) /\ BeyondInv(left) /\ Ascending(left)
  /\ PeekTrue

\* The part of CalmInv that writers do not take away.
Steady ==
  /\ pc \in {"idle", "down"} => walk = <<>> /\ seen = {}
  /\ pc # "back" => ahead = NoItem
  /\ cur = NoItem => ~ more

LEMMA CalmParts ==
  ASSUME NEW left
  PROVE  CalmInv(left) <=> Steady /\ (calm /\ pc # "idle" => Calmly(left))
BY DEF CalmInv, Steady, Calmly

\* An entry is on one page, and no page is right of itself.
LEMMA OnePage ==
  ASSUME NEW left \in [Blocks -> SUBSET Blocks], TreeInv(left),
         NEW b \in Blocks, NEW p \in Blocks, NEW e \in items[b], e \in items[p]
  PROVE  b = p /\ b \notin left[p]
BY DEF TreeInv, RangeInv, Ordered, StrictOrder

LEMMA Transitive ==
  ASSUME NEW left \in [Blocks -> SUBSET Blocks], TreeInv(left),
         NEW a \in Blocks, NEW b \in Blocks, NEW c \in Blocks, a \in left[b], b \in left[c]
  PROVE  a \in left[c]
BY DEF TreeInv, Ordered, StrictOrder

\* Where the cursor's sibling is.
LEMMA SiblingRight ==
  ASSUME NEW left \in [Blocks -> SUBSET Blocks], TreeTypes, TreeInv(left),
         NEW b \in Used, next[b] # NoBlock
  PROVE  next[b] \in Blocks /\ b \in Blocks /\ b \in left[next[b]]
BY DEF TreeInv, ChainInv, TreeTypes, Used

LEMMA ReadCalm ==
  ASSUME NEW left \in [Blocks -> SUBSET Blocks], WalkInv(left), Calmly(left),
         pc \in {"down", "step", "on"}, old = NoBlock, NEW e \in items[buf], Read(e),
         UNCHANGED <<tree, buf, old, ahead, start, stable, calm>>,
         Key(e) >= start,
         \A i \in DOMAIN walk : \E p \in Used : /\ walk[i] \in items[p]
                                                /\ p \in left[buf] \/ (p = buf /\ walk[i] < e),
         \A x \in {b \in Blocks : Live(b)} : buf \in left[x] => start <= low[x]
  PROVE  Calmly(left)'
<1> DEFINE l == Len(walk)
<1>1. /\ pc' = "on" /\ cur' = e /\ walk' = Append(walk, e)
      /\ items' = items /\ low' = low /\ kind' = kind
      /\ buf' = buf /\ old' = old /\ start' = start /\ stable' = stable
  BY DEF Read, tree
<1>2. buf \in Used /\ buf \in Blocks /\ e \in Entry /\ walk \in Seq(Entry)
  BY DEF WalkInv, PlaceInv, Used, TypeOK
<1>3. /\ l \in Nat /\ DOMAIN walk = 1 .. l /\ DOMAIN walk' = 1 .. l + 1
      /\ \A i \in 1 .. l : walk'[i] = walk[i] /\ walk[i] \in Entry
      /\ walk'[l + 1] = e
  <2>1. \A i \in DOMAIN walk : walk[i] \in Entry
    BY <1>2, LenProperties
  <2> QED BY <1>1, <1>2, <2>1, ReadGrows
<1> HIDE DEF l
<1>4. \A i \in 1 .. l + 1 : i \in 1 .. l \/ i = l + 1
  BY <1>3
<1>11. (seen = Walked)'
  BY <1>1, <1>2, ReadGrows DEF Calmly, Read
<1>5. Used' = Used /\ Settled' /\ (stable = Present)' /\ \A b \in Blocks : Live(b)' <=> Live(b)
  BY <1>1 DEF Calmly, Used, Settled, Present, Live
<1>6. Place' = buf /\ ~ Peeking'
  BY <1>1 DEF Place, Peeking
<1>7. BehindInv(left)'
  <2>1. ASSUME NEW i \in 1 .. l + 1
        PROVE  \E p \in Used : walk'[i] \in items[p] /\ (p \in left[buf] \/ (p = buf /\ walk'[i] <= e))
    <3>1. CASE i \in 1 .. l
      <4>1. PICK p \in Used : walk[i] \in items[p] /\ (p \in left[buf] \/ (p = buf /\ walk[i] < e))
        BY <1>3, <3>1
      <4>2. walk[i] < e => walk[i] <= e
        BY <1>2, <1>3, <3>1, Numbers, Types DEF WalkInv
      <4> QED BY <1>3, <3>1, <4>1, <4>2
    <3>2. CASE i = l + 1
      <4>1. e <= e
        BY <1>2, Numbers, Types DEF WalkInv
      <4> QED BY <1>2, <1>3, <3>2, <4>1
    <3> QED BY <1>4, <3>1, <3>2
  <2>2. cur' \in items'[buf] /\ walk' # <<>> /\ cur' = Last(walk')
    BY <1>1, <1>2, ReadGrows
  <2> QED BY <1>1, <1>3, <1>5, <1>6, <2>1, <2>2 DEF BehindInv
<1>8. BeyondInv(left)'
  BY <1>1, <1>5, <1>6 DEF BeyondInv
<1>9. Ascending(left)'
  <2>1. ASSUME NEW i \in 1 .. l PROVE LeftOf(left, walk[i], e)
    <3>1. PICK p \in Used : walk[i] \in items[p] /\ (p \in left[buf] \/ (p = buf /\ walk[i] < e))
      BY <1>3
    <3> QED BY <1>2, <3>1 DEF LeftOf, Used
  <2>2. /\ \A i \in 1 .. l : Key(walk[i]) >= start
        /\ \A i, j \in 1 .. l : i < j => LeftOf(left, walk[i], walk[j])
    BY <1>3 DEF Calmly, Ascending
  <2>3. \A i \in 1 .. l + 1 : Key(walk'[i]) >= start
    BY <1>3, <1>4, <2>2
  <2>4. ASSUME NEW i \in 1 .. l + 1, NEW j \in 1 .. l + 1, i < j
        PROVE  LeftOf(left, walk'[i], walk'[j])
    <3>1. i \in 1 .. l
      BY <1>3, <2>4
    <3>2. CASE j \in 1 .. l
      BY <1>3, <2>2, <2>4, <3>1, <3>2
    <3>3. CASE j = l + 1
      BY <1>3, <2>1, <3>1, <3>3
    <3> QED BY <1>4, <3>2, <3>3
  <2>5. \A i, j \in 1 .. l + 1 : i < j => LeftOf(left, walk[i], walk[j])'
    BY <1>1, <2>4 DEF LeftOf
  <2> QED BY <1>1, <1>3, <2>3, <2>5 DEF Ascending
<1>10. PeekTrue'
  BY <1>1 DEF PeekTrue
<1> QED BY <1>5, <1>7, <1>8, <1>9, <1>10, <1>11 DEF Calmly

LEMMA ReadSteady ==
  ASSUME TypeOK, Steady, NEW e \in Entry, Read(e), pc # "back", UNCHANGED <<ahead, old>>
  PROVE  Steady'
<1>1. pc' = "on" /\ cur' = e /\ walk' = Append(walk, e) /\ ahead' = ahead /\ old' = old
  BY DEF Read
<1>2. e # NoItem
  BY EntryAssumption DEF NoItem
<1> QED BY <1>1, <1>2 DEF Steady

LEMMA ForwardCalm ==
  ASSUME NEW left \in [Blocks -> SUBSET Blocks], WalkInv(left), Calmly(left), Steady,
         pc \in {"down", "on"}, old = NoBlock, Forward,
         UNCHANGED <<tree, old, ahead, start, stable, calm>>
  PROVE  Calmly(left)'
<1>1. /\ items' = items /\ low' = low /\ next' = next /\ kind' = kind
      /\ old' = old /\ start' = start /\ stable' = stable /\ seen' = seen /\ walk' = walk /\ cur' = cur
  BY DEF Forward, tree
<1>2. Used' = Used /\ Settled' /\ (stable = Present)' /\ (seen = Walked)' /\ Ascending(left)'
      /\ \A b \in Blocks : Live(b)' <=> Live(b)
  BY <1>1 DEF Calmly, Used, Settled, Present, Live, Ascending, LeftOf, Walked
<1>3. buf \in Used /\ buf \in Blocks
  BY DEF WalkInv, PlaceInv, Used
<1>4. \/ pc' = "end" /\ buf' = buf
      \/ pc' = "step" /\ buf' = next[buf] /\ next[buf] # NoBlock
  BY DEF Forward
<1>5. ~ Peeking /\ ~ Peeking' /\ Place = buf
  BY <1>1 DEF Peeking, Place
<1>6. PeekTrue'
  BY <1>4 DEF PeekTrue
<1>7. next[buf] # NoBlock => next[buf] \in Blocks /\ buf \in left[next[buf]]
  BY <1>3, SiblingRight, Types DEF WalkInv
<1>8. BehindInv(left)'
  <2>1. CASE pc = "down"
    <3>1. walk = <<>>
      BY <2>1 DEF Steady
    <3>2. DOMAIN walk' = {}
      BY <1>1, <3>1
    <3> QED BY <1>4, <1>5, <3>2 DEF BehindInv
  <2>2. CASE pc = "on"
    <3>1. ASSUME NEW i \in DOMAIN walk
          PROVE  \E p \in Used : walk[i] \in items[p] /\ (pc' = "step" => p \in left[buf'])
      <4>1. PICK p \in Used : walk[i] \in items[p] /\ (p \in left[buf] \/ p = buf)
        BY <1>5, <2>2 DEF Calmly, BehindInv
      <4>2. pc' = "step" => p \in left[buf']
        BY <1>3, <1>4, <1>7, <4>1, Transitive DEF WalkInv, Used
      <4> QED BY <4>1, <4>2
    <3>2. pc' # "on"
      BY <1>4
    <3> QED BY <1>1, <1>2, <1>5, <3>1, <3>2 DEF BehindInv
  <2> QED BY <2>1, <2>2
<1>9. BeyondInv(left)'
  <2>1. \A x \in {b \in Blocks : Live(b)} : buf \in left[x] => start <= low[x]
    BY DEF Calmly, BeyondInv
  <2>2. ASSUME NEW x \in {b \in Blocks : Live(b)}, pc' = "step", x = buf' \/ buf' \in left[x]
        PROVE  start <= low[x]
    <3>1. buf \in left[x]
      BY <1>3, <1>4, <1>7, <2>2, Transitive DEF WalkInv
    <3> QED BY <2>1, <3>1
  <2> QED BY <1>1, <1>2, <1>4, <1>5, <2>2 DEF BeyondInv
<1> QED BY <1>2, <1>6, <1>8, <1>9 DEF Calmly

LEMMA ForwardSteady ==
  ASSUME Steady, pc # "back", ~ Peeking, Forward, UNCHANGED <<ahead, old>>
  PROVE  Steady'
<1>1. pc' \in {"end", "step"} /\ UNCHANGED <<cur, more, seen, walk>> /\ ahead' = ahead /\ old' = old
  BY DEF Forward
<1> QED BY <1>1 DEF Steady, Peeking

LEMMA PassIgnoredCalm ==
  ASSUME NEW left \in [Blocks -> SUBSET Blocks], WalkInv(left), Calmly(left), Steady,
         pc \in {"down", "step"}, PassIgnored,
         UNCHANGED <<tree, pc, old, cur, more, ahead, start, seen, walk, stable, calm>>
  PROVE  Calmly(left)'
<1>1. /\ items' = items /\ low' = low /\ next' = next /\ kind' = kind
      /\ Ignored(buf) /\ buf' = next[buf]
      /\ pc' = pc /\ old' = old /\ start' = start /\ stable' = stable /\ seen' = seen /\ walk' = walk /\ cur' = cur
  BY DEF PassIgnored, tree
<1>2. Used' = Used /\ Settled' /\ (stable = Present)' /\ (seen = Walked)' /\ Ascending(left)'
      /\ \A b \in Blocks : Live(b)' <=> Live(b)
  BY <1>1 DEF Calmly, Used, Settled, Present, Live, Ascending, LeftOf, Walked
<1>3. buf \in Used /\ buf \in Blocks
  BY DEF WalkInv, PlaceInv, Used
<1>4. next[buf] # NoBlock /\ next[buf] \in Blocks /\ buf \in left[next[buf]]
  <2>1. next[buf] # NoBlock
    BY <1>1, <1>3 DEF WalkInv, TreeInv, ChainInv
  <2> QED BY <1>3, <2>1, SiblingRight, Types DEF WalkInv
<1>5. items[buf] = {}
  BY <1>1, <1>3 DEF WalkInv, TreeInv, RangeInv, Ignored, Live
<1>6. (Peeking' <=> Peeking) /\ (Peeking => Place' = Place /\ old \in Blocks)
  BY <1>1 DEF Peeking, Place, WalkInv, PlaceInv, Used
<1>7. PeekTrue'
  BY <1>1 DEF PeekTrue
<1>8. \A p \in Blocks : p \in left[buf] => p \in left[next[buf]]
  BY <1>3, <1>4, Transitive DEF WalkInv
<1>9. \A x \in Blocks : x = next[buf] \/ next[buf] \in left[x] => buf \in left[x]
  BY <1>3, <1>4, Transitive DEF WalkInv
<1>10. BehindInv(left)'
  <2>1. CASE pc = "down"
    <3>1. walk = <<>>
      BY <2>1 DEF Steady
    <3>2. DOMAIN walk' = {} /\ pc' = "down"
      BY <1>1, <2>1, <3>1
    <3>3. ~ Peeking'
      BY <1>6, <2>1 DEF WalkInv, PlaceInv
    <3> QED BY <3>2, <3>3 DEF BehindInv
  <2>2. CASE pc = "step" /\ ~ Peeking
    <3>1. \A i \in DOMAIN walk : \E p \in Used : walk[i] \in items[p] /\ p \in left[next[buf]]
      BY <1>8, <2>2 DEF Calmly, BehindInv, Used
    <3> QED BY <1>1, <1>2, <1>6, <2>2, <3>1 DEF BehindInv
  <2>3. CASE pc = "step" /\ Peeking
    <3>1. /\ \A i \in DOMAIN walk : \E p \in Used :
               walk[i] \in items[p] /\ (p \in left[Place] \/ (p = Place /\ walk[i] <= cur))
          /\ old \in left[next[buf]]
      BY <1>6, <1>8, <2>3 DEF Calmly, BehindInv
    <3>2. IF items[Place] = {} THEN cur = NoItem
          ELSE cur \in items[Place] /\ walk # <<>> /\ cur = Last(walk)
      BY <2>3 DEF Calmly, BehindInv
    <3> QED BY <1>1, <1>2, <1>6, <2>3, <3>1, <3>2 DEF BehindInv
  <2> QED BY <2>1, <2>2, <2>3
<1>11. BeyondInv(left)'
  <2>1. ASSUME NEW x \in Blocks, Live(x)
        PROVE  /\ pc \in {"down", "on"} /\ next[buf] \in left[x] => start <= low[x]
               /\ pc = "step" /\ ~ Peeking /\ (x = next[buf] \/ next[buf] \in left[x]) => start <= low[x]
               /\ Peeking /\ old \in left[x] => start <= low[x]
               /\ Peeking /\ pc = "step" /\ old \in left[x] /\ items[x] # {} =>
                    x = next[buf] \/ next[buf] \in left[x]
    <3>1. /\ pc \in {"down", "on"} /\ buf \in left[x] => start <= low[x]
          /\ pc = "step" /\ ~ Peeking /\ (x = buf \/ buf \in left[x]) => start <= low[x]
          /\ Peeking /\ old \in left[x] => start <= low[x]
          /\ Peeking /\ pc = "step" /\ old \in left[x] /\ items[x] # {} => x = buf \/ buf \in left[x]
      BY <2>1 DEF Calmly, BeyondInv
    <3>2. ASSUME items[x] # {}, buf \in left[x] PROVE x = next[buf] \/ next[buf] \in left[x]
      <4>1. PICK e \in items[x] : TRUE
        BY <3>2
      <4> QED BY <1>3, <3>2, <4>1, RightOf DEF WalkInv
    <3>3. items[x] # {} => x # buf
      BY <1>5
    <3> QED BY <1>9, <3>1, <3>2, <3>3
  <2> QED BY <1>1, <1>2, <1>6, <2>1 DEF BeyondInv
<1> QED BY <1>2, <1>7, <1>10, <1>11 DEF Calmly

LEMMA LandCalm ==
  ASSUME NEW left \in [Blocks -> SUBSET Blocks], WalkInv(left), Steady, Land
  PROVE  Steady' /\ (Calmly(left) => Calmly(left)')
<1>1. pc = "down" /\ UNCHANGED <<tree, old, ahead, start, stable, calm>>
  BY DEF Land
<1>2. old = NoBlock /\ ~ Peeking /\ buf \in Blocks
  BY <1>1 DEF WalkInv, PlaceInv, Peeking, Used
<1>3. walk = <<>> /\ DOMAIN walk = {}
  BY <1>1 DEF Steady
<1>4. CASE PassIgnored /\ UNCHANGED <<pc, cur, more, seen, walk>>
  <2>1. Steady'
    BY <1>1, <1>4 DEF Steady, Peeking
  <2> QED BY <1>1, <1>4, <2>1, PassIgnoredCalm
<1>5. ASSUME NEW e \in items[buf], Binsrch(buf, start, e), Read(e), UNCHANGED buf
      PROVE  Steady' /\ (Calmly(left) => Calmly(left)')
  <2>1. e \in Entry
    BY <1>2 DEF WalkInv, TypeOK
  <2>2. Steady'
    BY <1>1, <1>5, <2>1, ReadSteady DEF WalkInv
  <2>3. Key(e) >= start
    BY <1>5 DEF Binsrch
  <2>4. ASSUME Calmly(left) PROVE \A x \in {b \in Blocks : Live(b)} : buf \in left[x] => start <= low[x]
    BY <1>1, <2>4 DEF Calmly, BeyondInv
  <2>5. \A i \in DOMAIN walk : \E p \in Used : walk[i] \in items[p] /\ (p \in left[buf] \/ (p = buf /\ walk[i] < e))
    BY <1>3
  <2> QED BY <1>1, <1>2, <1>5, <2>2, <2>3, <2>4, <2>5, ReadCalm
<1>6. CASE Forward
  BY <1>1, <1>2, <1>6, ForwardCalm, ForwardSteady
<1> QED BY <1>4, <1>5, <1>6 DEF Land

LEMMA MoveNextCalm ==
  ASSUME NEW left \in [Blocks -> SUBSET Blocks], WalkInv(left), Steady, MoveNext
  PROVE  Steady' /\ (Calmly(left) => Calmly(left)')
<1>1. pc = "on" /\ UNCHANGED <<tree, old, ahead, start, stable, calm>>
  BY DEF MoveNext
<1>2. old = NoBlock /\ ~ Peeking /\ Place = buf /\ buf \in Blocks
  BY <1>1 DEF WalkInv, PlaceInv, Peeking, Place, Used
<1>3. ASSUME more, NEW e \in items[buf], e > cur, Read(e), UNCHANGED buf
      PROVE  Steady' /\ (Calmly(left) => Calmly(left)')
  <2>1. e \in Entry
    BY <1>2 DEF WalkInv, TypeOK
  <2>2. Steady'
    BY <1>1, <1>3, <2>1, ReadSteady DEF WalkInv
  <2>3. cur # NoItem /\ cur \in Entry
    BY <1>1, <1>3 DEF Steady, WalkInv, TypeOK
  <2>5. cur \in Nat /\ e \in Nat /\ Key(cur) \in Nat /\ Key(e) \in Nat /\ start \in Nat
    <3>1. start \in Keys \cup {0}
      BY DEF WalkInv, TypeOK
    <3> QED BY <2>1, <2>3, <3>1, Numbers, Types DEF WalkInv, Keys
  <2>6. Key(cur) <= Key(e)
    BY <1>3, <2>1, <2>3, <2>5, Numbers, Types DEF WalkInv
  <2>7. ASSUME Calmly(left) PROVE Key(e) >= start
    <3>1. walk # <<>> /\ cur = Last(walk)
      BY <1>1, <1>2, <1>3, <2>7 DEF Calmly, BehindInv
    <3>2. Len(walk) \in DOMAIN walk /\ walk[Len(walk)] = cur
      <4>1. walk \in Seq(Entry)
        BY DEF WalkInv, TypeOK
      <4>2. Len(walk) \in Nat /\ Len(walk) # 0 /\ DOMAIN walk = 1 .. Len(walk)
        BY <3>1, <4>1, EmptySeq, LenProperties
      <4> QED BY <3>1, <4>2 DEF Last
    <3>3. Key(cur) >= start
      BY <2>7, <3>2 DEF Calmly, Ascending
    <3> QED BY <2>5, <2>6, <3>3
  <2>8. ASSUME Calmly(left) PROVE \A x \in {b \in Blocks : Live(b)} : buf \in left[x] => start <= low[x]
    BY <1>1, <2>8 DEF Calmly, BeyondInv
  <2>9. ASSUME Calmly(left), NEW i \in DOMAIN walk
        PROVE  \E p \in Used : walk[i] \in items[p] /\ (p \in left[buf] \/ (p = buf /\ walk[i] < e))
    <3>1. PICK p \in Used : walk[i] \in items[p] /\ (p \in left[buf] \/ (p = buf /\ walk[i] <= cur))
      BY <1>1, <1>2, <2>9 DEF Calmly, BehindInv
    <3>2. walk[i] \in Entry
      BY <3>1 DEF WalkInv, TypeOK, Used
    <3>3. walk[i] \in Nat
      BY <3>2, Numbers, Types DEF WalkInv
    <3>4. walk[i] <= cur => walk[i] < e
      BY <1>3, <2>5, <3>3
    <3> QED BY <3>1, <3>4
  <2> QED BY <1>1, <1>2, <1>3, <2>2, <2>7, <2>8, <2>9, ReadCalm
<1>4. CASE Forward
  BY <1>1, <1>2, <1>4, ForwardCalm, ForwardSteady
<1> QED BY <1>3, <1>4 DEF MoveNext

LEMMA BackCalm ==
  ASSUME NEW left \in [Blocks -> SUBSET Blocks], WalkInv(left), Steady, Back
  PROVE  Steady' /\ (Calmly(left) => Calmly(left)')
<1>1. /\ pc = "back" /\ pc' = "on" /\ old' = NoBlock /\ ahead' = NoItem
      /\ items' = items /\ low' = low /\ kind' = kind
      /\ buf' = buf /\ cur' = cur /\ more' = more /\ start' = start
      /\ seen' = seen /\ walk' = walk /\ stable' = stable
  BY DEF Back, past, tree
<1>2. old = buf /\ buf \in Blocks /\ buf # NoBlock
  BY <1>1, BlocksAssumption DEF WalkInv, PlaceInv, TypeOK, NoBlock
<1>3. Peeking /\ ~ Peeking' /\ Place = buf /\ Place' = buf
  BY <1>1, <1>2 DEF Peeking, Place
<1>4. Steady'
  BY <1>1, <1>3 DEF Steady
<1>5. ASSUME Calmly(left) PROVE Calmly(left)'
  <2>1. Used' = Used /\ Settled' /\ (stable = Present)' /\ (seen = Walked)' /\ Ascending(left)'
        /\ \A b \in Blocks : Live(b)' <=> Live(b)
    BY <1>1, <1>5 DEF Calmly, Used, Settled, Present, Live, Ascending, LeftOf, Walked
  <2>2. BehindInv(left)'
    BY <1>1, <1>3, <1>5, <2>1 DEF Calmly, BehindInv
  <2>3. BeyondInv(left)'
    BY <1>1, <1>2, <1>3, <1>5, <2>1 DEF Calmly, BeyondInv
  <2>4. PeekTrue'
    BY <1>1 DEF PeekTrue
  <2> QED BY <2>1, <2>2, <2>3, <2>4 DEF Calmly
<1> QED BY <1>4, <1>5

LEMMA PeekCalm ==
  ASSUME NEW left \in [Blocks -> SUBSET Blocks], WalkInv(left), Steady, Peek
  PROVE  Steady' /\ (Calmly(left) => Calmly(left)')
<1>1. /\ pc = "on" /\ ~ more /\ old' = buf
      /\ items' = items /\ low' = low /\ next' = next /\ kind' = kind
      /\ cur' = cur /\ more' = more /\ ahead' = ahead /\ start' = start
      /\ seen' = seen /\ walk' = walk /\ stable' = stable
  BY DEF Peek, past, tree
<1>2. buf \in Used /\ buf \in Blocks /\ buf # NoBlock
  BY <1>1, BlocksAssumption DEF WalkInv, PlaceInv, Used, NoBlock
<1>3. \/ pc' = "back" /\ buf' = buf /\ next[buf] = NoBlock
      \/ pc' = "step" /\ buf' = next[buf] /\ next[buf] # NoBlock
  BY DEF Peek
<1>4. ~ Peeking /\ Peeking' /\ Place = buf /\ Place' = buf
  BY <1>1, <1>2 DEF WalkInv, PlaceInv, Peeking, Place
<1>5. ahead = NoItem
  BY <1>1 DEF Steady
<1>6. Steady'
  <2>1. pc' \notin {"idle", "down"}
    BY <1>3
  <2> QED BY <1>1, <1>5, <2>1 DEF Steady
<1>7. ASSUME Calmly(left) PROVE Calmly(left)'
  <2>1. Used' = Used /\ Settled' /\ (stable = Present)' /\ (seen = Walked)' /\ Ascending(left)' /\ Present' = Present
        /\ Unseen' = Unseen /\ \A b \in Blocks : Live(b)' <=> Live(b)
    BY <1>1, <1>7 DEF Calmly, Used, Settled, Present, Live, Ascending, LeftOf, Walked, Unseen
  <2>2. pc' = "step" => buf' \in Blocks /\ buf \in left[buf']
    BY <1>2, <1>3, SiblingRight, Types DEF WalkInv
  <2>3. BehindInv(left)'
    <3>1. \A i \in DOMAIN walk : \E p \in Used :
            walk[i] \in items[p] /\ (p \in left[buf] \/ (p = buf /\ walk[i] <= cur))
      BY <1>1, <1>4, <1>7 DEF Calmly, BehindInv
    <3>2. IF items[buf] = {} THEN cur = NoItem
          ELSE cur \in items[buf] /\ walk # <<>> /\ cur = Last(walk)
      BY <1>1, <1>4, <1>7 DEF Calmly, BehindInv
    <3> QED BY <1>1, <1>3, <1>4, <2>1, <2>2, <3>1, <3>2 DEF BehindInv
  <2>4. BeyondInv(left)'
    <3>1. \A x \in {b \in Blocks : Live(b)} : buf \in left[x] => start <= low[x]
      BY <1>1, <1>7 DEF Calmly, BeyondInv
    <3>2. ASSUME NEW x \in Blocks, buf \in left[x], items[x] # {}, pc' = "step"
          PROVE  x = buf' \/ buf' \in left[x]
      <4>1. PICK e \in items[x] : TRUE
        BY <3>2
      <4> QED BY <1>2, <1>3, <3>2, <4>1, RightOf DEF WalkInv
    <3> QED BY <1>1, <1>3, <1>4, <2>1, <3>1, <3>2 DEF BeyondInv
  <2>5. PeekTrue'
    <3> SUFFICES ASSUME pc' = "back" PROVE PeekTrue'
      BY DEF PeekTrue
    <3>1. next[buf] = NoBlock /\ ahead' = NoItem
      BY <1>1, <1>3, <1>5
    <3>2. Unseen = {}
      <4> SUFFICES ASSUME NEW d \in Unseen PROVE FALSE
        OBVIOUS
      <4>1. PICK p \in Blocks : d \in items[p]
        BY UnseenSomewhere DEF WalkInv
      <4>2. buf \in left[p]
        BY <1>1, <4>1 DEF WalkInv, AheadInv
      <4> QED BY <1>2, <3>1, <4>1, <4>2, RightOf DEF WalkInv
    <3>3. {e \in Present : Key(e) >= start} \ seen = Unseen
      BY <1>7 DEF Calmly, Unseen
    <3>4. ({e \in Present : Key(e) >= start} \ seen)' = {}
      BY <1>1, <2>1, <3>2, <3>3
    <3> QED BY <3>1, <3>4 DEF PeekTrue
  <2> QED BY <2>1, <2>3, <2>4, <2>5 DEF Calmly
<1> QED BY <1>6, <1>7

\* What a peek sees on the page it has come to.
LEMMA PeekSees ==
  ASSUME NEW left \in [Blocks -> SUBSET Blocks], WalkInv(left), Calmly(left),
         pc = "step", Peeking, NEW e \in items[buf], FirstItem(buf, e)
  PROVE  /\ e \in Unseen
         /\ \A d \in Unseen : /\ Key(e) <= Key(d)
                              /\ \A b \in Blocks : {e, d} \subseteq items[b] => e <= d
<1>1. /\ buf \in Used /\ buf \in Blocks /\ old \in Used /\ old \in Blocks /\ Place = old
      /\ old \in left[buf] /\ e \in Entry
  BY DEF WalkInv, PlaceInv, Used, Calmly, BehindInv, Place, TypeOK
<1>2. e \in Unseen
  <2>1. e \in stable
    BY <1>1 DEF Calmly, Present
  <2>2. Live(buf) /\ low[buf] <= Key(e)
    BY <1>1 DEF WalkInv, TreeInv, RangeInv
  <2>3. start <= low[buf]
    BY <1>1, <2>2 DEF Calmly, BeyondInv
  <2>4. Key(e) >= start
    <3>1. start \in Nat /\ low[buf] \in Nat /\ Key(e) \in Nat
      <4>1. start \in Keys \cup {0}
        BY DEF WalkInv, TypeOK
      <4> QED BY <1>1, <4>1, Numbers, Types DEF WalkInv, Keys
    <3> QED BY <2>2, <2>3, <3>1
  <2>5. e \notin seen
    <3> SUFFICES ASSUME e \in seen PROVE FALSE
      OBVIOUS
    <3>1. PICK i \in DOMAIN walk : walk[i] = e
      BY DEF Calmly, Walked
    <3>2. PICK p \in Used : walk[i] \in items[p] /\ (p \in left[old] \/ p = old)
      BY <1>1 DEF Calmly, BehindInv
    <3>3. p = buf
      BY <1>1, <3>1, <3>2, OnePage DEF WalkInv, Used
    <3>4. buf \in left[buf]
      BY <1>1, <3>2, <3>3, Transitive DEF WalkInv
    <3> QED BY <1>1, <3>4 DEF WalkInv, TreeInv, Ordered, StrictOrder
  <2> QED BY <2>1, <2>4, <2>5 DEF Unseen
<1>3. ASSUME NEW d \in Unseen PROVE \E p \in Blocks : d \in items[p] /\ (p = buf \/ buf \in left[p])
  <2>1. PICK p \in Blocks : d \in items[p]
    BY UnseenSomewhere DEF WalkInv
  <2>2. old \in left[p]
    BY <2>1 DEF WalkInv, AheadInv
  <2>3. Live(p)
    BY <2>1 DEF WalkInv, TreeInv, RangeInv
  <2> QED BY <2>1, <2>2, <2>3 DEF Calmly, BeyondInv
<1>4. ASSUME NEW d \in Unseen
      PROVE  /\ Key(e) <= Key(d)
             /\ \A b \in Blocks : {e, d} \subseteq items[b] => e <= d
  <2>1. PICK p \in Blocks : d \in items[p] /\ (p = buf \/ buf \in left[p])
    BY <1>3
  <2>2. p = buf => e <= d
    BY <2>1 DEF FirstItem
  <2>3. Key(e) <= Key(d)
    BY <1>1, <2>1, <2>2, KeysAscend, Types DEF WalkInv
  <2>4. ASSUME NEW b \in Blocks, e \in items[b], d \in items[b] PROVE e <= d
    <3>1. b = buf /\ p = b
      BY <1>1, <2>1, <2>4, OnePage DEF WalkInv
    <3> QED BY <2>2, <3>1
  <2> QED BY <2>3, <2>4
<1> QED BY <1>2, <1>4

LEMMA StepCalm ==
  ASSUME NEW left \in [Blocks -> SUBSET Blocks], WalkInv(left), Steady, Step
  PROVE  Steady' /\ (Calmly(left) => Calmly(left)')
<1>1. pc = "step" /\ UNCHANGED <<tree, old, start, stable, calm>>
  BY DEF Step
<1>2. /\ items' = items /\ low' = low /\ next' = next /\ kind' = kind
      /\ old' = old /\ start' = start /\ stable' = stable
  BY <1>1 DEF tree
<1>3. buf \in Used /\ buf \in Blocks
  BY <1>1 DEF WalkInv, PlaceInv, Used
<1>4. CASE PassIgnored /\ UNCHANGED <<pc, cur, more, ahead, seen, walk>>
  <2>1. Steady'
    BY <1>1, <1>4 DEF Steady, Peeking
  <2> QED BY <1>1, <1>4, <2>1, PassIgnoredCalm
<1>5. ASSUME old = NoBlock, NEW e \in items[buf], FirstItem(buf, e), Read(e), UNCHANGED <<buf, ahead>>
      PROVE  Steady' /\ (Calmly(left) => Calmly(left)')
  <2>1. e \in Entry /\ ~ Peeking
    BY <1>3, <1>5 DEF WalkInv, TypeOK, Peeking
  <2>2. Steady'
    BY <1>1, <1>5, <2>1, ReadSteady DEF WalkInv
  <2>3. Live(buf) /\ low[buf] <= Key(e)
    BY <1>3 DEF WalkInv, TreeInv, RangeInv
  <2>4. ASSUME Calmly(left)
        PROVE  Key(e) >= start /\ \A x \in {b \in Blocks : Live(b)} : buf \in left[x] => start <= low[x]
    <3>1. \A x \in {b \in Blocks : Live(b)} : x = buf \/ buf \in left[x] => start <= low[x]
      BY <1>1, <2>1, <2>4 DEF Calmly, BeyondInv
    <3>2. start <= low[buf]
      BY <1>3, <2>3, <3>1
    <3>3. start \in Nat /\ low[buf] \in Nat /\ Key(e) \in Nat
      <4>1. start \in Keys \cup {0}
        BY DEF WalkInv, TypeOK
      <4> QED BY <1>3, <2>1, <4>1, Numbers, Types DEF WalkInv, Keys
    <3> QED BY <2>3, <3>1, <3>2, <3>3
  <2>5. ASSUME Calmly(left)
        PROVE  \A i \in DOMAIN walk : \E p \in Used :
                 walk[i] \in items[p] /\ (p \in left[buf] \/ (p = buf /\ walk[i] < e))
    BY <1>1, <2>1, <2>5 DEF Calmly, BehindInv
  <2> QED BY <1>1, <1>5, <2>2, <2>4, <2>5, ReadCalm
<1>6. CASE /\ old = NoBlock /\ items[buf] = {}
           /\ pc' = "on" /\ cur' = NoItem /\ more' = FALSE
           /\ UNCHANGED <<seen, walk, buf, ahead>>
  <2>1. ~ Peeking /\ ~ Peeking' /\ Place' = buf
    BY <1>2, <1>6 DEF Peeking, Place
  <2>2. Steady'
    BY <1>1, <1>6, <2>1 DEF Steady
  <2>3. ASSUME Calmly(left) PROVE Calmly(left)'
    <3>1. Used' = Used /\ Settled' /\ (stable = Present)' /\ (seen = Walked)' /\ Ascending(left)'
          /\ \A b \in Blocks : Live(b)' <=> Live(b)
      BY <1>2, <1>6, <2>3 DEF Calmly, Used, Settled, Present, Live, Ascending, LeftOf, Walked
    <3>2. BehindInv(left)'
      <4>1. \A i \in DOMAIN walk : \E p \in Used : walk[i] \in items[p] /\ p \in left[buf]
        BY <1>1, <2>1, <2>3 DEF Calmly, BehindInv
      <4> QED BY <1>2, <1>6, <2>1, <3>1, <4>1 DEF BehindInv
    <3>3. BeyondInv(left)'
      <4>1. \A x \in {b \in Blocks : Live(b)} : buf \in left[x] => start <= low[x]
        BY <1>1, <2>1, <2>3 DEF Calmly, BeyondInv
      <4> QED BY <1>2, <1>6, <2>1, <3>1, <4>1 DEF BeyondInv
    <3>4. PeekTrue'
      BY <1>6 DEF PeekTrue
    <3> QED BY <3>1, <3>2, <3>3, <3>4 DEF Calmly
  <2> QED BY <2>2, <2>3
<1>7. CASE /\ ~ Ignored(buf) /\ old # NoBlock
           /\ \/ \E e \in items[buf] : FirstItem(buf, e) /\ ahead' = e
              \/ items[buf] = {} /\ ahead' = NoItem
           /\ pc' = "back" /\ buf' = old /\ UNCHANGED <<cur, more, seen, walk>>
  <2>1. Peeking /\ Peeking' /\ Place = old /\ Place' = old
    BY <1>2, <1>7 DEF Peeking, Place
  <2>2. Steady'
    BY <1>1, <1>7, <2>1 DEF Steady
  <2>3. ASSUME Calmly(left) PROVE Calmly(left)'
    <3>1. Used' = Used /\ Settled' /\ (stable = Present)' /\ (seen = Walked)' /\ Ascending(left)' /\ Present' = Present
          /\ seen' = seen /\ \A b \in Blocks : Live(b)' <=> Live(b)
      BY <1>2, <1>7, <2>3 DEF Calmly, Used, Settled, Present, Live, Ascending, LeftOf, Walked
    <3>2. BehindInv(left)'
      <4>1. \A i \in DOMAIN walk : \E p \in Used :
              walk[i] \in items[p] /\ (p \in left[old] \/ (p = old /\ walk[i] <= cur))
        BY <2>1, <2>3 DEF Calmly, BehindInv
      <4>2. IF items[old] = {} THEN cur = NoItem
            ELSE cur \in items[old] /\ walk # <<>> /\ cur = Last(walk)
        BY <2>1, <2>3 DEF Calmly, BehindInv
      <4> QED BY <1>2, <1>7, <2>1, <3>1, <4>1, <4>2 DEF BehindInv
    <3>3. BeyondInv(left)'
      <4>1. \A x \in {b \in Blocks : Live(b)} : old \in left[x] => start <= low[x]
        BY <2>1, <2>3 DEF Calmly, BeyondInv
      <4> QED BY <1>2, <1>7, <2>1, <3>1, <4>1 DEF BeyondInv
    <3>4. {e \in Present : Key(e) >= start} \ seen = Unseen
      BY <2>3 DEF Calmly, Unseen
    <3>5. ({e \in Present : Key(e) >= start} \ seen)' = Unseen
      BY <1>2, <3>1, <3>4
    <3>6. PeekTrue'
      <4>1. CASE items[buf] = {} /\ ahead' = NoItem
        <5>1. Live(buf)
          BY <1>3, <1>7 DEF WalkInv, TypeOK, Kinds, Used, Ignored, Live
        <5>2. \E b \in Blocks : Live(b)' /\ items'[b] = {}
          BY <1>2, <1>3, <3>1, <4>1, <5>1
        <5> QED BY <4>1, <5>2 DEF PeekTrue
      <4>2. ASSUME NEW e \in items[buf], FirstItem(buf, e), ahead' = e PROVE PeekTrue'
        <5>1. /\ e \in Unseen
              /\ \A d \in Unseen : /\ Key(e) <= Key(d)
                                   /\ \A b \in Blocks : {e, d} \subseteq items[b] => e <= d
          BY <1>1, <2>1, <2>3, <4>2, PeekSees
        <5>2. e # NoItem
          BY <1>3, EntryAssumption DEF WalkInv, TypeOK, NoItem
        <5> QED BY <1>2, <3>5, <4>2, <5>1, <5>2 DEF PeekTrue
      <4> QED BY <1>7, <4>1, <4>2
    <3> QED BY <3>1, <3>2, <3>3, <3>6 DEF Calmly
  <2> QED BY <2>2, <2>3
<1> QED BY <1>4, <1>5, <1>6, <1>7 DEF Step

LEMMA MoveFirstCalm ==
  ASSUME NEW left \in [Blocks -> SUBSET Blocks], WalkInv(left), Steady, NEW s \in Keys, MoveFirst(s)
  PROVE  Steady' /\ (calm' => Calmly(left)')
<1>1. /\ items' = items /\ low' = low /\ next' = next /\ kind' = kind /\ parent' = parent
      /\ old' = old /\ ahead' = ahead /\ start' = s /\ stable' = Present
      /\ seen' = {} /\ walk' = <<>> /\ cur' = NoItem /\ more' = FALSE
      /\ pc \in {"idle", "on", "end"}
  BY DEF MoveFirst, tree
<1>2. calm' = Settled
  BY DEF MoveFirst
<1>3. old = NoBlock /\ ~ Peeking /\ ~ Peeking'
  BY <1>1 DEF WalkInv, PlaceInv, Peeking
<1>4. \/ pc' = "end"
      \/ pc' = "down" /\ parent # <<>> /\ buf' = Downlink(s)
  BY DEF MoveFirst
<1>5. Steady'
  BY <1>1, <1>3, <1>4 DEF Steady
<1>6. ASSUME Settled PROVE Calmly(left)'
  <2>1. Settled' /\ (stable = Present)' /\ \A b \in Blocks : Live(b)' <=> Live(b)
    BY <1>1, <1>6 DEF Settled, Present, Live
  <2>2. DOMAIN walk' = {}
    BY <1>1
  <2>3. BehindInv(left)' /\ Ascending(left)' /\ (seen = Walked)'
    BY <1>1, <1>3, <1>4, <2>2 DEF BehindInv, Ascending, Walked
  <2>4. ASSUME pc' = "down", NEW x \in Blocks, Live(x), buf' \in left[x] PROVE s <= low[x]
    <3>1. kind[x] = "leaf"
      BY <1>6, <2>4 DEF Settled, Live
    <3>2. TreeTypes /\ TreeInv(left)
      BY Types DEF WalkInv
    <3>3. parent # <<>> /\ buf' = Downlink(s)
      BY <1>4, <2>4
    <3>4. Downlink(s) \in left[x]
      BY <2>4, <3>3
    <3>5. \A p \in Blocks : kind[p] = "leaf" /\ Downlink(s) \in left[p] => s <= low[p]
      BY <3>2, <3>3, DownlinkRight
    <3> QED BY <3>1, <3>4, <3>5
  <2>5. BeyondInv(left)'
    BY <1>1, <1>3, <1>4, <2>1, <2>4 DEF BeyondInv
  <2>6. PeekTrue'
    BY <1>4 DEF PeekTrue
  <2> QED BY <2>1, <2>3, <2>5, <2>6 DEF Calmly
<1> QED BY <1>2, <1>5, <1>6

LEMMA CloseCalm ==
  ASSUME NEW left, WalkInv(left), Steady, Close
  PROVE  Steady' /\ pc' = "idle"
<1>1. /\ pc \in {"on", "end"} /\ pc' = "idle" /\ cur' = NoItem /\ more' = FALSE
      /\ seen' = {} /\ walk' = <<>> /\ old' = old /\ ahead' = ahead
  BY DEF Close
<1>2. ~ Peeking'
  BY <1>1 DEF WalkInv, PlaceInv, Peeking
<1> QED BY <1>1, <1>2 DEF Steady

-----------------------------------------------------------------------------
(* The invariant, and what follows from it.                                *)

LEMMA ScanParts ==
  ScanInv <=> \E left \in [Blocks -> SUBSET Blocks] : WalkInv(left) /\ CalmInv(left)
BY DEF ScanInv, WalkInv, TreeInv, Ordered, Orders

LEMMA InitScan == Init => ScanInv
<1> SUFFICES ASSUME Init PROVE ScanInv
  OBVIOUS
<1> DEFINE left == [b \in Blocks |-> {}]
<1>1. left \in [Blocks -> SUBSET Blocks] /\ \A b \in Blocks : left[b] = {}
  OBVIOUS
<1> HIDE DEF left
<1>2. /\ items = [b \in Blocks |-> {}] /\ low = [b \in Blocks |-> 0]
      /\ next = [b \in Blocks |-> NoBlock] /\ kind = [b \in Blocks |-> "free"]
      /\ parent = <<>> /\ DOMAIN parent = {} /\ walk = <<>> /\ seen = {}
      /\ pc = "idle" /\ buf = NoBlock /\ old = NoBlock /\ cur = NoItem /\ more = FALSE
      /\ ahead = NoItem /\ start = 0 /\ stable = {} /\ calm = TRUE
  BY DEF Init
<1>3. Used = {} /\ InChain = {} /\ \A b \in Blocks : ~ Live(b) /\ kind[b] # "leaf"
  BY <1>2 DEF Used, InChain, Live
<1>4. TreeInv(left)
  BY <1>1, <1>2, <1>3 DEF TreeInv, Ordered, StrictOrder, ChainInv, RangeInv, ParentInv
<1>5. TypeOK
  <2>1. <<>> \in Seq(Blocks) /\ <<>> \in Seq(Entry)
    OBVIOUS
  <2> QED BY <1>2, <2>1 DEF TypeOK, Kinds
<1>6. PlaceInv /\ AheadInv(left)
  BY <1>2 DEF PlaceInv, AheadInv, Peeking, Unseen
<1>7. CalmInv(left)
  BY <1>2, CalmParts DEF Steady, Peeking
<1> QED BY <1>1, <1>4, <1>5, <1>6, <1>7 DEF ScanInv, Orders, TreeInv, Ordered

\* A step of the cursor leaves the order of the pages alone.
LEMMA CursorStep ==
  ASSUME NEW left \in [Blocks -> SUBSET Blocks], WalkInv(left), CalmInv(left),
         Calls \/ Running
  PROVE  WalkInv(left)' /\ CalmInv(left)'
<1>1. Steady /\ (calm /\ pc # "idle" => Calmly(left))
  BY CalmParts
<1>2. SUFFICES WalkInv(left)' /\ Steady' /\ (calm' /\ pc' # "idle" => Calmly(left)')
  BY <1>2 DEF CalmInv, Steady, Calmly
<1>3. ASSUME NEW s \in Keys, MoveFirst(s)
      PROVE  WalkInv(left)' /\ Steady' /\ (calm' => Calmly(left)')
  BY <1>1, <1>3, MoveFirstAhead, MoveFirstCalm
<1>4. CASE MoveNext
  <2>1. calm' = calm /\ pc = "on"
    BY <1>4 DEF MoveNext
  <2> QED BY <1>1, <1>4, <2>1, MoveNextAhead, MoveNextCalm
<1>5. CASE Peek
  <2>1. calm' = calm /\ pc = "on"
    BY <1>5 DEF Peek, past
  <2> QED BY <1>1, <1>5, <2>1, PeekAhead, PeekCalm
<1>6. CASE Close
  BY <1>1, <1>6, CloseAhead, CloseCalm
<1>7. CASE Land
  <2>1. calm' = calm /\ pc = "down"
    BY <1>7 DEF Land
  <2> QED BY <1>1, <1>7, <2>1, LandAhead, LandCalm
<1>8. CASE Step
  <2>1. calm' = calm /\ pc = "step"
    BY <1>8 DEF Step
  <2> QED BY <1>1, <1>8, <2>1, StepAhead, StepCalm
<1>9. CASE Back
  <2>1. calm' = calm /\ pc = "back"
    BY <1>9 DEF Back, past
  <2> QED BY <1>1, <1>9, <2>1, BackAhead, BackCalm
<1> QED BY <1>3, <1>4, <1>5, <1>6, <1>7, <1>8, <1>9 DEF Calls, Running

LEMMA NextScan == ScanInv /\ [Next]_vars => ScanInv'
<1> SUFFICES ASSUME ScanInv, [Next]_vars PROVE ScanInv'
  OBVIOUS
<1>1. PICK left \in [Blocks -> SUBSET Blocks] : WalkInv(left) /\ CalmInv(left)
  BY ScanParts
<1>2. SUFFICES \E left2 \in [Blocks -> SUBSET Blocks] : WalkInv(left2)' /\ CalmInv(left2)'
  BY <1>2 DEF ScanInv, WalkInv, TreeInv, Ordered, Orders
<1>3. CASE Calls \/ Running
  BY <1>1, <1>3, CursorStep
<1>4. CASE Writers
  <2>1. PICK left2 \in [Blocks -> SUBSET Blocks] : WalkInv(left2)'
    BY <1>1, <1>4, WritersAhead
  <2>2. UNCHANGED <<cursor, seen>> /\ calm' = (pc = "idle")
    BY <1>1, <1>4, WritersAhead
  <2>3. Steady'
    <3>1. Steady /\ walk' = <<>>
      BY <1>1, <1>4, CalmParts, WritersAhead
    <3> QED BY <2>2, <3>1 DEF Steady, cursor
  <2>4. ~ (calm' /\ pc' # "idle")
    BY <2>2 DEF cursor
  <2>5. CalmInv(left2)'
    BY <2>3, <2>4 DEF CalmInv, Steady
  <2> QED BY <2>1, <2>5
<1>5. CASE UNCHANGED vars
  <2>1. /\ items' = items /\ low' = low /\ next' = next /\ kind' = kind /\ parent' = parent
        /\ pc' = pc /\ buf' = buf /\ old' = old /\ cur' = cur /\ more' = more /\ ahead' = ahead
        /\ start' = start /\ seen' = seen /\ walk' = walk /\ stable' = stable /\ calm' = calm
    BY <1>5 DEF vars, tree, cursor, past
  <2>2. TypeOK' /\ PlaceInv'
    BY <1>1, <2>1 DEF WalkInv, TypeOK, Present, PlaceInv, Peeking, Used
  <2>3. TreeInv(left)'
    BY <1>1, <2>1 DEF WalkInv, TreeInv, Ordered, StrictOrder, ChainInv, RangeInv, ParentInv, Used, InChain, Ignored, Live
  <2>4. AheadInv(left)'
    BY <1>1, <2>1 DEF WalkInv, AheadInv, Peeking, Unseen
  <2>5. CalmInv(left)'
    BY <1>1, <2>1 DEF CalmInv, Peeking, Settled, Present, BehindInv, BeyondInv, Place, Used, Live,
                      Ascending, LeftOf, Walked, PeekTrue
  <2> QED BY <2>2, <2>3, <2>4, <2>5 DEF WalkInv
<1> QED BY <1>3, <1>4, <1>5 DEF Next

\* The inductive invariant holds: there is always an order of the pages in
\* which chain, downlinks and ranges agree, with all that the walk still owes
\* to the right of where it stands.
THEOREM ScanInvariance == Spec => []ScanInv
<1>1. Init => ScanInv
  BY InitScan
<1>2. ScanInv /\ [Next]_vars => ScanInv'
  BY NextScan
<1> QED BY <1>1, <1>2, PTL DEF Spec

\* The pages the cursor comes to exist and its values are entries.
THEOREM CursorTyped == Spec => []TypeOK
<1>1. ScanInv => TypeOK
  BY DEF ScanInv, Orders
<1> QED BY <1>1, ScanInvariance, PTL

\* No entry that stays is passed by, whatever the writers do between two pages.
THEOREM NoneSkippedAmongWriters == Spec => []NothingSkipped
<1>1. ScanInv => NothingSkipped
  <2> SUFFICES ASSUME ScanInv PROVE NothingSkipped
    OBVIOUS
  <2>1. PICK left \in [Blocks -> SUBSET Blocks] : AheadInv(left) /\ TypeOK /\ TreeTypes
    BY Types DEF ScanInv, Orders
  <2>2. ASSUME pc = "on", cur # NoItem, NEW e \in stable, Key(e) >= start, Key(e) < Key(cur)
        PROVE  e \in seen
    <3>1. SUFFICES ASSUME e \notin seen PROVE FALSE
      OBVIOUS
    <3>2. e \in Unseen
      BY <2>2, <3>1 DEF Unseen
    <3>3. Key(e) >= Key(cur)
      BY <2>1, <2>2, <3>2 DEF AheadInv
    <3>4. e \in Entry /\ cur \in Entry
      BY <2>1, <2>2, <3>2, UnseenSomewhere DEF TypeOK
    <3> QED BY <2>1, <2>2, <3>3, <3>4, Numbers
  <2>3. ASSUME pc = "end", NEW e \in stable, Key(e) >= start PROVE e \in seen
    BY <2>1, <2>3 DEF AheadInv, Unseen
  <2> QED BY <2>2, <2>3 DEF NothingSkipped
<1> QED BY <1>1, ScanInvariance, PTL

\* A live page of a settled tree has its place in the parent, and the order of
\* the pages is the order there.
LEMMA LeftBefore ==
  ASSUME NEW left \in [Blocks -> SUBSET Blocks], WalkInv(left), Settled,
         NEW d, NEW e, LeftOf(left, d, e)
  PROVE  Before(d, e)
<1>1. PICK p \in Blocks, q \in Blocks :
        /\ d \in items[p] /\ e \in items[q]
        /\ p \in left[q] \/ (p = q /\ d < e)
  BY DEF LeftOf
<1>2. kind[p] = "leaf" /\ kind[q] = "leaf"
  BY <1>1 DEF WalkInv, TreeInv, RangeInv, Live, Settled
<1>3. PICK i \in DOMAIN parent, j \in DOMAIN parent : parent[i] = p /\ parent[j] = q
  BY <1>2 DEF WalkInv, TreeInv, ParentInv
<1>4. i \in Int /\ j \in Int
  <2>1. parent \in Seq(Blocks)
    BY DEF WalkInv, TypeOK
  <2> QED BY <2>1, LenProperties
<1>5. ~ (j < i /\ p \in left[q])
  <2>1. j < i => q \in left[p]
    BY <1>3 DEF WalkInv, TreeInv, ParentInv
  <2> QED BY <2>1, Transitive DEF WalkInv, TreeInv, Ordered, StrictOrder
<1>6. ~ (p = q /\ p \in left[q])
  BY DEF WalkInv, TreeInv, Ordered, StrictOrder
<1>7. CASE p \in left[q]
  <2>1. i < j
    BY <1>3, <1>4, <1>5, <1>6, <1>7
  <2> QED BY <1>1, <1>3, <2>1 DEF Before
<1>8. CASE p = q /\ d < e
  <2>1. d \in items[parent[i]] /\ e \in items[parent[i]]
    BY <1>1, <1>3, <1>8
  <2> QED BY <1>8, <2>1 DEF Before
<1> QED BY <1>1, <1>7, <1>8

\* What has been read lies to the left of all that has not.
LEMMA ReadIsLeft ==
  ASSUME NEW left \in [Blocks -> SUBSET Blocks], WalkInv(left), Calmly(left), Steady,
         NEW i \in DOMAIN walk, NEW e \in Unseen
  PROVE  LeftOf(left, walk[i], e)
<1>1. PICK q \in Blocks : e \in items[q] /\ e \in items[q] \cap Unseen
  BY UnseenSomewhere DEF WalkInv
<1>2. PICK p \in Used :
        /\ walk[i] \in items[p]
        /\ pc = "step" /\ ~ Peeking => p \in left[buf]
        /\ pc = "on" \/ Peeking => p \in left[Place] \/ (p = Place /\ walk[i] <= cur)
  BY DEF Calmly, BehindInv
<1>3. p \in Blocks
  BY <1>2 DEF Used
<1>4. CASE pc \in {"idle", "down"}
  <2>1. DOMAIN walk = {}
    BY <1>4 DEF Steady
  <2> QED BY <2>1
<1>5. CASE pc = "end"
  BY <1>5 DEF WalkInv, AheadInv
<1>6. CASE pc = "step" /\ ~ Peeking
  <2>1. p \in left[buf] /\ (q = buf \/ buf \in left[q]) /\ buf \in Blocks
    BY <1>1, <1>2, <1>6 DEF WalkInv, AheadInv, PlaceInv, Used
  <2>2. p \in left[q]
    BY <1>3, <2>1, Transitive DEF WalkInv
  <2> QED BY <1>1, <1>2, <1>3, <2>2 DEF LeftOf
<1>7. CASE Peeking
  <2>1. /\ p \in left[old] \/ p = old
        /\ old \in left[q] /\ old \in Blocks
    BY <1>1, <1>2, <1>7 DEF WalkInv, AheadInv, PlaceInv, Place, Used
  <2>2. p \in left[q]
    BY <1>3, <2>1, Transitive DEF WalkInv
  <2> QED BY <1>1, <1>2, <1>3, <2>2 DEF LeftOf
<1>8. CASE pc = "on" /\ ~ Peeking
  <2>1. /\ p \in left[buf] \/ (p = buf /\ walk[i] <= cur)
        /\ buf \in left[q] \/ (more /\ q = buf /\ e > cur)
        /\ buf \in Blocks
    BY <1>1, <1>2, <1>8 DEF WalkInv, AheadInv, PlaceInv, Place, Used
  <2>2. CASE p \in left[buf] \/ buf \in left[q]
    <3>1. p \in left[q]
      BY <1>3, <2>1, <2>2, Transitive DEF WalkInv
    <3> QED BY <1>1, <1>2, <1>3, <3>1 DEF LeftOf
  <2>3. CASE p = buf /\ walk[i] <= cur /\ more /\ q = buf /\ e > cur
    <3>1. walk[i] \in Nat /\ cur \in Nat /\ e \in Nat
      <4>1. cur \in Entry /\ e \in Entry /\ walk[i] \in Entry
        BY <1>1, <1>2, <1>3, <2>3 DEF WalkInv, TypeOK, Steady
      <4> QED BY <4>1, Numbers, Types DEF WalkInv
    <3>2. walk[i] < e
      BY <2>3, <3>1
    <3> QED BY <1>1, <1>2, <1>3, <2>3, <3>2 DEF LeftOf
  <2> QED BY <2>1, <2>2, <2>3
<1>9. pc = "back" => Peeking
  BY BlocksAssumption DEF WalkInv, PlaceInv, Peeking, Used, NoBlock
<1> QED BY <1>4, <1>5, <1>6, <1>7, <1>8, <1>9 DEF WalkInv, TypeOK

\* Without writers the walk is what SpQuery's atomic steps assume: what has
\* been read are the first entries of the index from the start on, in its
\* order, none left out, and all of them at the end; only on an empty page does
\* the cursor stop with no entry.
THEOREM WalkIsExact == Spec => []ExactWalk
<1>1. ScanInv => ExactWalk
  <2> SUFFICES ASSUME ScanInv, calm PROVE ExactWalk
    BY DEF ExactWalk
  <2>1. PICK left \in [Blocks -> SUBSET Blocks] : WalkInv(left) /\ CalmInv(left)
    BY ScanParts
  <2>2. CASE pc = "idle"
    <3>1. DOMAIN walk = {}
      BY <2>1, <2>2 DEF CalmInv
    <3> QED BY <2>2, <3>1 DEF ExactWalk
  <2>3. CASE pc # "idle"
    <3> DEFINE due  == {e \in Present : Key(e) >= start}
               rest == {e \in due : \A i \in DOMAIN walk : walk[i] # e}
    <3>1. Steady /\ Calmly(left)
      BY <2>1, <2>3, CalmParts
    <3>2. rest = Unseen
      BY <3>1 DEF Calmly, Unseen, Walked
    <3>3. ASSUME NEW i \in DOMAIN walk PROVE walk[i] \in due
      <4>1. walk[i] \in Present
        BY <3>1 DEF Calmly, BehindInv, Present, Used
      <4> QED BY <3>1, <4>1 DEF Calmly, Ascending
    <3>4. ASSUME NEW i \in DOMAIN walk, NEW j \in DOMAIN walk, i < j
          PROVE  Before(walk[i], walk[j])
      BY <2>1, <3>1, <3>4, LeftBefore DEF Calmly, Ascending
    <3>5. ASSUME NEW i \in DOMAIN walk, NEW e \in rest
          PROVE  Before(walk[i], e)
      <4>1. LeftOf(left, walk[i], e)
        BY <2>1, <3>1, <3>2, ReadIsLeft
      <4> QED BY <2>1, <3>1, <4>1, LeftBefore DEF Calmly
    <3>6. pc = "end" => rest = {}
      BY <2>1, <3>2 DEF WalkInv, AheadInv
    <3>7. pc = "on" => IF items[buf] = {} THEN cur = NoItem
                       ELSE cur \in items[buf] /\ cur = Last(walk)
      <4>1. pc = "on" => Place = buf
        BY <2>1 DEF WalkInv, PlaceInv, Place
      <4> QED BY <3>1, <4>1 DEF Calmly, BehindInv
    <3> QED BY <3>3, <3>4, <3>5, <3>6, <3>7 DEF ExactWalk
  <2> QED BY <2>2, <2>3
<1> QED BY <1>1, ScanInvariance, PTL

\* Without writers a peek sees the next entry to be read, or an empty page.
THEOREM PeekIsTrue == Spec => []PeekTrue
<1>1. ScanInv => PeekTrue
  <2> SUFFICES ASSUME ScanInv PROVE PeekTrue
    OBVIOUS
  <2>1. PICK left \in [Blocks -> SUBSET Blocks] : CalmInv(left)
    BY DEF ScanInv, Orders
  <2>2. CASE pc = "back" /\ calm
    BY <2>1, <2>2 DEF CalmInv
  <2>3. CASE ~ (pc = "back" /\ calm)
    BY <2>3 DEF PeekTrue
  <2> QED BY <2>2, <2>3
<1> QED BY <1>1, ScanInvariance, PTL
====
