---- MODULE SortProofs ----
(***************************************************************************)
(* list_sort sorts, and loses no row: any number of rows in any order,     *)
(* through any sequence of merges.  With that a lookup is a scan of the    *)
(* automaton's rows, in the order of the table if it makes a list of them. *)
(***************************************************************************)
EXTENDS LookupProofs, FiniteSetTheorems, SequenceTheorems

----------------------------------------------------------------------------
(* The order of the table.                                                 *)

Word == 2 ^ 16

LEMMA WordPositive == Word \in Nat /\ Word > 0
BY SMT DEF Word

\* A row pointer as one number.
Spot(t) == (t.bi_hi * Word + t.bi_lo) * Word + t.ip_posid

LEMMA PairOrder ==
  ASSUME NEW W \in Nat, W > 0, NEW a \in Nat, NEW b \in 0 .. W - 1,
         NEW d \in Nat, NEW e \in 0 .. W - 1
  PROVE  /\ a * W + b \in Nat
         /\ a * W + b < d * W + e <=> a < d \/ (a = d /\ b < e)
         /\ a * W + b = d * W + e <=> a = d /\ b = e
<1>1. a * W + b \in Nat
  BY SMT
<1>2. a * W + b < d * W + e <=> a < d \/ (a = d /\ b < e)
  BY SMT
<1>3. d * W + e < a * W + b <=> d < a \/ (d = a /\ e < b)
  BY SMT
<1>4. d * W + e \in Nat
  BY SMT
<1> DEFINE x == a * W + b
           y == d * W + e
<1>5. x = y <=> ~ (x < y) /\ ~ (y < x)
  <2> HIDE DEF x, y
  <2> QED BY <1>1, <1>4 DEF x, y
<1> QED BY <1>1, <1>2, <1>3, <1>5

\* s stands before t in the order of the table.
SpotLess(s, t) ==
  \/ s.bi_hi < t.bi_hi
  \/ s.bi_hi = t.bi_hi /\ (s.bi_lo < t.bi_lo \/ (s.bi_lo = t.bi_lo /\ s.ip_posid < t.ip_posid))

LEMMA TidParts ==
  ASSUME NEW s \in Tids
  PROVE  /\ s.bi_hi \in Nat /\ s.bi_lo \in 0 .. Word - 1 /\ s.ip_posid \in 0 .. Word - 1
         /\ \A t \in Tids : s.bi_hi = t.bi_hi /\ s.bi_lo = t.bi_lo /\ s.ip_posid = t.ip_posid => s = t
<1>1. Tids \subseteq [bi_hi : 0 .. Word - 1, bi_lo : 0 .. Word - 1, ip_posid : 1 .. Word - 1]
  BY TidsAssumption DEF Word
<1>2. s.bi_hi \in 0 .. Word - 1 /\ s.bi_lo \in 0 .. Word - 1 /\ s.ip_posid \in 1 .. Word - 1
  BY <1>1
<1>3. \A t \in Tids : s.bi_hi = t.bi_hi /\ s.bi_lo = t.bi_lo /\ s.ip_posid = t.ip_posid => s = t
  BY <1>1
<1> QED BY <1>2, <1>3, WordPositive

LEMMA SpotOrder ==
  ASSUME NEW s \in Tids, NEW t \in Tids
  PROVE  /\ Spot(s) \in Nat
         /\ Spot(s) < Spot(t) <=> SpotLess(s, t)
         /\ Spot(s) = Spot(t) => s = t
<1> DEFINE a == s.bi_hi * Word + s.bi_lo
           d == t.bi_hi * Word + t.bi_lo
<1>1. /\ a \in Nat /\ d \in Nat
      /\ a < d <=> s.bi_hi < t.bi_hi \/ (s.bi_hi = t.bi_hi /\ s.bi_lo < t.bi_lo)
      /\ a = d <=> s.bi_hi = t.bi_hi /\ s.bi_lo = t.bi_lo
  BY TidParts, WordPositive, PairOrder
<1> HIDE DEF a, d
<1>2. /\ a * Word + s.ip_posid \in Nat
      /\ a * Word + s.ip_posid < d * Word + t.ip_posid
         <=> a < d \/ (a = d /\ s.ip_posid < t.ip_posid)
      /\ a * Word + s.ip_posid = d * Word + t.ip_posid
         <=> a = d /\ s.ip_posid = t.ip_posid
  BY <1>1, TidParts, WordPositive, PairOrder
<1>3. Spot(s) = a * Word + s.ip_posid /\ Spot(t) = d * Word + t.ip_posid
  BY DEF Spot, a, d
<1> QED BY <1>1, <1>2, <1>3, TidParts DEF SpotLess

LEMMA CompareSpots ==
  ASSUME NEW s \in Tids, NEW t \in Tids, NEW l, NEW r, l.iptr = s, r.iptr = t
  PROVE  /\ res_item_compare_proc(l, r) < 0 <=> Spot(s) < Spot(t)
         /\ res_item_compare_proc(l, r) <= 0 <=> Spot(s) <= Spot(t)
<1> DEFINE c == res_item_compare_proc(l, r)
<1>1. /\ s.bi_hi \in Int /\ s.bi_lo \in Int /\ s.ip_posid \in Int
      /\ t.bi_hi \in Int /\ t.bi_lo \in Int /\ t.ip_posid \in Int
  BY TidParts
<1>2. /\ c \in Int
      /\ c < 0 <=> SpotLess(s, t)
      /\ c > 0 <=> SpotLess(t, s)
  BY <1>1 DEF res_item_compare_proc, SpotLess
<1> HIDE DEF c
<1>3. /\ Spot(s) \in Nat /\ Spot(t) \in Nat
      /\ SpotLess(s, t) <=> Spot(s) < Spot(t)
      /\ SpotLess(t, s) <=> Spot(t) < Spot(s)
  BY SpotOrder
<1> QED BY <1>2, <1>3 DEF c

\* Where the n-th node stands.
At(n) == Spot(data[n].iptr)

LEMMA NodeRows == ASSUME LInv PROVE \A n \in Listed : data[n].iptr = answer[n]
<1> SUFFICES ASSUME NEW n \in Listed PROVE data[n].iptr = answer[n]
  OBVIOUS
<1>1. data[n] = [iptr |-> answer[n], coords |-> Reported(n)]
  BY Zenon DEF LInv, DataInv
<1>2. \E c : data[n] = [iptr |-> answer[n], coords |-> c]
  BY <1>1
<1> QED BY <1>2

LEMMA NodeOrder ==
  ASSUME LInv
  PROVE  \A m, n \in Listed :
           /\ At(m) \in Nat
           /\ Before(m, n) <=> At(m) < At(n)
           /\ At(m) = At(n) => m = n
<1> SUFFICES ASSUME NEW m \in Listed, NEW n \in Listed
             PROVE  /\ At(m) \in Nat
                    /\ Before(m, n) <=> At(m) < At(n)
                    /\ At(m) = At(n) => m = n
  OBVIOUS
<1>1. /\ answer \in Seq(Tids) /\ IsInjective(answer) /\ Len(answer) \in Nat
      /\ Len(data) \in {0, fetched} /\ fetched \in 0 .. Len(answer)
  BY AnswersAssumption DEF LInv, TypeOK, DataInv
<1>2. /\ m \in DOMAIN answer /\ n \in DOMAIN answer
  BY <1>1 DEF Listed
<1>3. data[m].iptr = answer[m] /\ data[n].iptr = answer[n]
  BY NodeRows
<1>4. answer[m] \in Tids /\ answer[n] \in Tids
  BY <1>1, <1>2
<1>5. answer[m] = answer[n] => m = n
  BY <1>1, <1>2 DEF IsInjective
<1> QED BY <1>3, <1>4, <1>5, SpotOrder, CompareSpots DEF At, Before, TakesFirst

LEMMA BeforeKept ==
  ASSUME data' = data
  PROVE  \A m, n : Before(m, n)' <=> Before(m, n)
BY DEF Before, TakesFirst

----------------------------------------------------------------------------
(* The steps of the sort.                                                  *)

\* Nodes are as they were, and so is their order.
LEMMA SortKeeps ==
  ASSUME Sort
  PROVE  /\ data' = data /\ Listed' = Listed
         /\ \A m, n : Before(m, n)' <=> Before(m, n)
         /\ \A n : (Before(n, next[n]))' <=> Before(n, next'[n])
         /\ \A n : (Before(pcur_item, n))' <=> Before(pcur_item', n)
<1>1. data' = data
  BY DEF Sort, rows
<1> QED BY <1>1, BeforeKept DEF Listed, Before, TakesFirst

LEMMA PushOnce ==
  ASSUME LInv, OnceInv, AscendInv, Sort, Push
  PROVE  OnceInv' /\ AscendInv'
<1> DEFINE L == Len(stack)
<1>1. /\ sorting = "runs" /\ sorting' = "runs" /\ p # Null /\ p' = next[p]
      /\ p1 = Null /\ p2 = Null /\ pcur_item = Null /\ res = Null
      /\ p1' = Null /\ p2' = Null /\ pcur_item' = Null /\ res' = Null
      /\ stack' = Append(stack, [level |-> 1, item |-> p, first |-> p])
      /\ next' = [next EXCEPT ![p] = Null]
  BY DEF Push, OnceInv, merging
<1>2. /\ p \in Nat /\ p > 0 /\ p \in Listed /\ p \in Node /\ p' = p - 1
      /\ Linking = Listed /\ Listed \subseteq Node
      /\ \A n \in Listed : n \in Nat /\ n > 0
  <2>1. p \in Node /\ p \in Listed
    BY <1>1, SortFacts DEF Listed, Null
  <2>2. next[p] = p - 1
    BY <1>1, <2>1, SortFacts DEF LInv, SortInv
  <2>3. DOMAIN data = Listed /\ Null \notin Listed
    BY SortFacts DEF Listed, Null
  <2> QED BY <1>1, <2>1, <2>2, <2>3, SortFacts DEF Linking
<1>3. \A n \in Node : next'[n] = IF n = p THEN Null ELSE next[n]
  BY <1>1, <1>2, SortFacts
<1>4. /\ L \in Nat /\ DOMAIN stack' = 1 .. L + 1 /\ Len(stack') = L + 1
      /\ \A i \in 1 .. L : stack'[i] = stack[i]
      /\ stack'[L + 1].item = p
  BY <1>1, SortFacts
<1> HIDE DEF L
<1>5. Whole = 1 .. L /\ Whole' = 1 .. L + 1
  BY <1>1, <1>4 DEF Whole, L
<1>6. data' = data /\ Listed' = Listed /\ Linking' = Linking
      /\ \A m, n : Before(m, n)' <=> Before(m, n)
  BY <1>1, SortKeeps DEF Linking
<1>7. /\ \A n \in Listed : next[n] # p
      /\ \A i \in 1 .. L : stack[i].item > p /\ stack[i].item \in Listed
  <2>1. /\ \A n \in Node : n <= p => next[n] = n - 1
        /\ \A n \in Node : n > p => next[n] = Null \/ next[n] > p
        /\ \A i \in DOMAIN stack : stack[i].item > p /\ stack[i].item \in Listed
    BY <1>1 DEF LInv, SortInv, LinkInv
  <2>2. ASSUME NEW n \in Listed PROVE next[n] # p
    <3>1. n <= p \/ n > p
      BY <1>2
    <3> QED BY <1>1, <1>2, <2>1, <3>1
  <2> QED BY <2>1, <2>2, SortFacts DEF L
<1>8. Roots = {stack[i].item : i \in 1 .. L} /\ Roots' = {stack'[i].item : i \in 1 .. L + 1}
  BY <1>1, <1>5 DEF Roots
<1>9. \A x : x \in Roots' <=> x \in Roots \/ x = p
  BY <1>4, <1>8
<1>10. /\ \A m, n \in Linking : next[m] = next[n] /\ next[m] # Null => m = n
       /\ \A i, j \in Whole : stack[i].item = stack[j].item => i = j
       /\ \A m \in Linking : next[m] \notin Roots
       /\ \A n \in Listed : n > p => n \in Roots \/ \E m \in Linking : next[m] = n
  BY <1>1 DEF OnceInv
<1>11. Null \notin Roots' /\ p # Null
  <2>1. \A x \in Roots : x # Null
    BY <1>2, <1>7, <1>8 DEF Null
  <2> QED BY <1>1, <1>9, <2>1
<1>12. \A m, n \in Linking' : next'[m] = next'[n] /\ next'[m] # Null => m = n
  BY <1>2, <1>3, <1>6, <1>10
<1>13. \A i, j \in Whole' : stack'[i].item = stack'[j].item => i = j
  <2>1. \A i \in Whole' : i = L + 1 \/ (i \in 1 .. L /\ stack'[i].item = stack[i].item /\ stack[i].item # p)
    BY <1>2, <1>4, <1>5, <1>7
  <2> QED BY <1>4, <1>5, <1>10, <2>1
<1>14. \A i \in Whole' : stack'[i].item \notin {res', p1', p2'}
  BY <1>1, <1>8, <1>11, <1>5
<1>15. \A m \in Linking' : next'[m] \notin Roots'
  BY <1>2, <1>3, <1>6, <1>7, <1>9, <1>10, <1>11
<1>16. ASSUME NEW n \in Listed, n > p' PROVE n \in Roots' \/ \E m \in Linking' : next'[m] = n
  <2>1. n = p \/ n > p
    BY <1>2, <1>16
  <2>2. ASSUME NEW m \in Linking, next[m] = n, n # p, n > p PROVE m \in Linking' /\ next'[m] = n
    <3>1. m # p /\ m \in Node
      <4>1. next[p] = p - 1
        BY <1>1, <1>2
      <4> QED BY <1>2, <2>2, <4>1
    <3> QED BY <1>3, <1>6, <2>2, <3>1
  <2> QED BY <1>2, <1>9, <1>10, <2>1, <2>2
<1>17. OnceInv'
  BY <1>1, <1>6, <1>12, <1>13, <1>14, <1>15, <1>16 DEF OnceInv
<1>18. AscendInv'
  <2>1. \A n \in Linking : n > p /\ next[n] # Null => Before(n, next[n])
    BY <1>1 DEF AscendInv
  <2>2. ASSUME NEW n \in Linking', n > p', next'[n] # Null PROVE Before(n, next'[n])
    <3>1. n \in Listed /\ n \in Node /\ n \in Nat
      BY <1>2, <1>6
    <3>2. n # p /\ next'[n] = next[n]
      BY <1>3, <2>2, <3>1
    <3>3. n > p
      BY <1>2, <2>2, <3>1, <3>2
    <3> QED BY <1>2, <2>1, <2>2, <3>1, <3>2, <3>3
  <2>3. {p1', p2'} \ {Null} = {}
    BY <1>1
  <2> QED BY <1>1, <2>2, <2>3, SortKeeps DEF AscendInv
<1> QED BY <1>17, <1>18

LEMMA MergeBeginOnce ==
  ASSUME LInv, OnceInv, AscendInv, Sort, MergeBegin
  PROVE  OnceInv' /\ AscendInv'
<1> DEFINE L == Len(stack)
           a == stack[L - 1].item
           b == stack[L].item
<1>1. /\ sorting = "runs" /\ sorting' = "merge" /\ next' = next /\ p' = p /\ stack' = stack
      /\ p1 = Null /\ p2 = Null /\ pcur_item = Null /\ res = Null
      /\ \/ /\ Before(a, b)
            /\ pcur_item' = a /\ res' = a /\ p1' = next[a] /\ p2' = b
         \/ /\ ~ Before(a, b)
            /\ pcur_item' = b /\ res' = b /\ p1' = a /\ p2' = next[b]
  <2>1. /\ sorting = "runs" /\ sorting' = "merge" /\ next' = next /\ p' = p /\ stack' = stack
        /\ pcur_item' = (IF TakesFirst(a, b) THEN a ELSE b)
        /\ p1' = (IF TakesFirst(a, b) THEN next[a] ELSE a)
        /\ p2' = (IF TakesFirst(a, b) THEN b ELSE next[b])
        /\ res' = pcur_item'
    BY DEF MergeBegin
  <2> HIDE DEF L, a, b
  <2>2. p1 = Null /\ p2 = Null /\ pcur_item = Null /\ res = Null
    <3>1. sorting # "merge" => {p1, p2, pcur_item, res} = {Null}
      BY Zenon DEF OnceInv
    <3>2. {p1, p2, pcur_item, res} = {Null}
      BY <2>1, <3>1
    <3> QED BY <3>2
  <2>3. CASE TakesFirst(a, b)
    BY <2>1, <2>2, <2>3 DEF Before
  <2>4. CASE ~ TakesFirst(a, b)
    BY <2>1, <2>2, <2>4 DEF Before
  <2> QED BY <2>3, <2>4
<1>2. /\ L \in Nat /\ L > 1 /\ L - 1 \in 1 .. L /\ L \in 1 .. L
      /\ Whole = 1 .. L /\ Whole' = 1 .. L - 2 /\ 1 .. L - 2 \subseteq 1 .. L
  <2>1. L \in Nat /\ L > 1
    BY SortFacts DEF MergeBegin, MustMerge
  <2> HIDE DEF L
  <2>2. Whole = 1 .. L /\ Whole' = 1 .. L - 2
    BY <1>1 DEF Whole, L
  <2> QED BY <2>1, <2>2
<1>3. \A n \in Listed : n \in Nat /\ n # Null
  BY SortFacts DEF Listed, Null
<1>4. /\ a \in Listed /\ b \in Listed /\ a > p /\ b > p
      /\ \A i \in 1 .. L : stack[i].item \in Listed
  BY <1>1, <1>2, SortFacts DEF LInv, LinkInv, SortInv
<1>5. /\ a # b /\ \A i \in 1 .. L - 2 : stack[i].item # a /\ stack[i].item # b
      /\ \A i, j \in 1 .. L - 2 : stack[i].item = stack[j].item => i = j
  <2>1. \A i, j \in 1 .. L : stack[i].item = stack[j].item => i = j
    BY <1>1, <1>2 DEF OnceInv
  <2>2. L - 1 # L /\ \A i \in 1 .. L - 2 : i # L /\ i # L - 1 /\ i \in 1 .. L
    BY <1>2
  <2> QED BY <1>2, <2>1, <2>2
<1>6. /\ Linking = Listed /\ Linking' = Listed \ {pcur_item'}
      /\ data' = data /\ Listed' = Listed
  <2>1. DOMAIN data = Listed
    BY SortFacts DEF Listed
  <2> QED BY <1>1, <1>3, <2>1, SortKeeps DEF Linking
<1>7. /\ Roots = {stack[i].item : i \in 1 .. L}
      /\ Roots' = {stack[i].item : i \in 1 .. L - 2} \cup ({res', p1', p2'} \ {Null})
  BY <1>1, <1>2 DEF Roots
<1>8. /\ \A m, n \in Listed : next[m] = next[n] /\ next[m] # Null => m = n
      /\ \A m \in Listed, i \in 1 .. L : next[m] # stack[i].item
      /\ \A n \in Listed : n > p =>
           (\E i \in 1 .. L : n = stack[i].item) \/ \E m \in Listed : next[m] = n
  BY <1>1, <1>6, <1>7 DEF OnceInv
<1>9. /\ next[a] \notin {a, b} /\ next[b] \notin {a, b}
      /\ \A m \in Listed : next[m] # a /\ next[m] # b
      /\ \A m \in Listed, i \in 1 .. L - 2 : next[m] # stack[i].item
  <2>1. \A m \in Listed : next[m] # a /\ next[m] # b
    BY <1>2, <1>8
  <2> QED BY <1>2, <1>4, <1>8, <2>1
<1>10. \A i \in 1 .. L : i \in 1 .. L - 2 \/ i = L - 1 \/ i = L
  BY <1>2
<1>11. \A n \in Listed : n > p =>
         \/ \E i \in 1 .. L - 2 : n = stack[i].item
         \/ n = a \/ n = b
         \/ \E m \in Listed : next[m] = n
  <2> SUFFICES ASSUME NEW n \in Listed, n > p, NEW i \in 1 .. L, n = stack[i].item
               PROVE  \/ \E j \in 1 .. L - 2 : n = stack[j].item
                      \/ n = a \/ n = b
    BY <1>8
  <2> QED BY <1>10
<1>12. /\ \A n \in Listed : n > p /\ next[n] # Null => Before(n, next[n])
       /\ ~ Before(a, b) => Before(b, a)
  <2>1. \A n \in Linking : n > p /\ next[n] # Null => Before(n, next[n])
    BY <1>1 DEF AscendInv
  <2>2. At(a) \in Nat /\ At(b) \in Nat /\ At(a) # At(b)
        /\ (Before(a, b) <=> At(a) < At(b)) /\ (Before(b, a) <=> At(b) < At(a))
    BY <1>4, <1>5, NodeOrder
  <2> QED BY <1>6, <2>1, <2>2
<1> HIDE DEF L, a, b
<1>13. AscendInv'
  <2>1. \A n \in Linking' : n > p' /\ next'[n] # Null => Before(n, next'[n])
    BY <1>1, <1>6, <1>12
  <2>2. \A n \in {p1', p2'} \ {Null} : Before(pcur_item', n)
    BY <1>1, <1>4, <1>12
  <2> QED BY <1>1, <2>1, <2>2, SortKeeps DEF AscendInv
<1>14. \A m \in Linking' : next'[m] \notin Roots'
  <2>1. \A m \in Linking' : next[m] \notin {res', p1', p2'} \ {Null}
    BY <1>1, <1>4, <1>6, <1>8, <1>9
  <2> QED BY <1>1, <1>6, <1>7, <1>9, <2>1
<1>15. \A n \in Listed : n > p => n \in Roots' \/ \E m \in Linking' : next'[m] = n
  <2>1. a \in Roots' /\ b \in Roots'
    BY <1>1, <1>3, <1>4, <1>7
  <2>2. \A i \in 1 .. L - 2 : stack[i].item \in Roots'
    BY <1>7
  <2>3. ASSUME NEW m \in Listed, NEW n \in Listed, next[m] = n
        PROVE  n \in Roots' \/ m \in Linking'
    BY <1>1, <1>3, <1>6, <1>7, <2>3
  <2> QED BY <1>1, <1>11, <2>1, <2>2, <2>3
<1>16. /\ \A i \in Whole' : stack'[i].item \notin {res', p1', p2'}
       /\ res' \notin {p1', p2'} /\ (p1' # Null => p1' # p2')
  <2>1. \A i \in 1 .. L - 2 : stack[i].item # next[a] /\ stack[i].item # next[b]
    BY <1>4, <1>9
  <2> QED BY <1>1, <1>2, <1>5, <1>9, <2>1
<1>17. /\ \A m, n \in Linking' : next'[m] = next'[n] /\ next'[m] # Null => m = n
       /\ \A i, j \in Whole' : stack'[i].item = stack'[j].item => i = j
  BY <1>1, <1>2, <1>5, <1>6, <1>8
<1>18. OnceInv'
  BY <1>1, <1>6, <1>14, <1>15, <1>16, <1>17 DEF OnceInv
<1> QED BY <1>13, <1>18

\* While two runs are being merged: the part merged so far, from res to
\* pcur_item, comes before the rest of either run.
LEMMA MergeFacts ==
  ASSUME LInv, OnceInv, AscendInv, sorting = "merge"
  PROVE  /\ Len(stack) \in Nat /\ Len(stack) > 1 /\ Whole = 1 .. Len(stack) - 2
         /\ pcur_item \in Listed /\ pcur_item > p /\ res \in Listed
         /\ Linking = Listed \ {pcur_item} /\ Listed \subseteq Node /\ Null \notin Listed
         /\ Roots = {stack[i].item : i \in Whole} \cup ({res, p1, p2} \ {Null})
         /\ {stack[i].item : i \in Whole} \subseteq Listed
         /\ \A n \in {p1, p2} \ {Null} :
              n \in Linking /\ n > p /\ Before(pcur_item, n) /\ next[n] \notin Roots
         /\ \A m, n \in Linking : next[m] = next[n] /\ next[m] # Null => m = n
         /\ \A i, j \in Whole : stack[i].item = stack[j].item => i = j
         /\ \A i \in Whole : stack[i].item \notin {res, p1, p2}
         /\ res \notin {p1, p2} /\ (p1 # Null => p1 # p2)
         /\ \A m \in Linking : next[m] \notin Roots
         /\ \A n \in Listed : n > p => n \in Roots \/ \E m \in Linking : next[m] = n
         /\ \A n \in Linking : n > p /\ next[n] # Null => Before(n, next[n])
<1>1. /\ Len(stack) \in Nat /\ Len(stack) > 1
      /\ pcur_item > p /\ res > p
      /\ p1 # Null => p1 > p
      /\ p2 # Null => p2 > p
  BY SortFacts DEF LInv, SortInv, MustMerge
<1>2. /\ pcur_item \in Listed /\ res \in Listed
      /\ p1 # Null => p1 \in Listed
      /\ p2 # Null => p2 \in Listed
      /\ Listed \subseteq Node /\ Null \notin Listed /\ DOMAIN data = Listed
  BY <1>1, SortFacts DEF Listed, Null
<1>3. Linking = Listed \ {pcur_item} /\ Whole = 1 .. Len(stack) - 2
  BY <1>2 DEF Linking, Whole
<1>4. {stack[i].item : i \in Whole} \subseteq Listed
  <2>1. \A i \in Whole : i \in DOMAIN stack
    BY <1>1, <1>3, SortFacts
  <2> QED BY <2>1 DEF LInv, LinkInv
<1>5. \A m, n \in Listed :
        /\ At(m) \in Nat
        /\ Before(m, n) <=> At(m) < At(n)
  BY NodeOrder
<1>6. \A n \in {p1, p2} \ {Null} : Before(pcur_item, n) /\ n \in Listed /\ n > p
  BY <1>1, <1>2 DEF AscendInv
<1>7. \A n \in {p1, p2} \ {Null} : n \in Linking
  <2>1. ~ Before(pcur_item, pcur_item)
    BY <1>2, <1>5
  <2> QED BY <1>3, <1>6, <2>1
<1>8. /\ \A m, n \in Linking : next[m] = next[n] /\ next[m] # Null => m = n
      /\ \A i, j \in Whole : stack[i].item = stack[j].item => i = j
      /\ \A i \in Whole : stack[i].item \notin {res, p1, p2}
      /\ res \notin {p1, p2} /\ (p1 # Null => p1 # p2)
      /\ \A m \in Linking : next[m] \notin Roots
      /\ \A n \in Listed : n > p => n \in Roots \/ \E m \in Linking : next[m] = n
  BY DEF OnceInv
<1>9. \A n \in Linking : n > p /\ next[n] # Null => Before(n, next[n])
  BY DEF AscendInv
<1>10. Roots = {stack[i].item : i \in Whole} \cup ({res, p1, p2} \ {Null})
  BY DEF Roots
<1> QED BY <1>1, <1>2, <1>3, <1>4, <1>6, <1>7, <1>8, <1>9, <1>10

\* The lesser of the two nodes that come next is linked and passed.
LEMMA MergeStepOnce ==
  ASSUME LInv, OnceInv, AscendInv, Sort, MergeStep
  PROVE  OnceInv' /\ AscendInv'
<1> DEFINE Heads == {stack[i].item : i \in Whole}
<1>1. sorting = "merge" /\ sorting' = "merge" /\ p' = p /\ stack' = stack /\ res' = res
  BY DEF MergeStep
<1>2. PICK n, q :
        /\ n # q /\ n # Null /\ q # Null /\ {n, q} = {p1, p2}
        /\ Before(n, q)
        /\ next' = [next EXCEPT ![pcur_item] = n] /\ pcur_item' = n
        /\ \/ p1' = next[n] /\ p2' = q
           \/ p1' = q /\ p2' = next[n]
  <2>1. /\ p1 # Null /\ p2 # Null /\ p1 # p2 /\ p1 \in Listed /\ p2 \in Listed
    BY <1>1, MergeFacts DEF MergeStep
  <2>2. ~ Before(p1, p2) => Before(p2, p1)
    BY <2>1, NodeOrder
  <2>3. CASE Before(p1, p2)
    <3>1. /\ next' = [next EXCEPT ![pcur_item] = p1] /\ pcur_item' = p1
          /\ p1' = next[p1] /\ p2' = p2
      BY <2>1, <2>3 DEF MergeStep, Before
    <3> QED BY <2>1, <2>3, <3>1
  <2>4. CASE ~ Before(p1, p2)
    <3>1. /\ next' = [next EXCEPT ![pcur_item] = p2] /\ pcur_item' = p2
          /\ p2' = next[p2] /\ p1' = p1
      BY <2>1, <2>4 DEF MergeStep, Before
    <3> QED BY <2>1, <2>2, <2>4, <3>1
  <2> QED BY <2>3, <2>4
<1>3. /\ {p1', p2'} = {next[n], q}
      /\ n \in Linking /\ q \in Linking /\ n > p /\ n \in Listed
      /\ Before(pcur_item, n) /\ n \in Roots /\ q \in Roots
      /\ next[n] \notin Roots
  <2>1. {p1', p2'} = {next[n], q}
    BY <1>2
  <2>2. n \in {p1, p2} \ {Null} /\ q \in {p1, p2} \ {Null}
    BY <1>2
  <2>3. \A x \in {p1, p2} \ {Null} :
          x \in Linking /\ x > p /\ Before(pcur_item, x) /\ next[x] \notin Roots
    BY <1>1, MergeFacts
  <2>4. Linking \subseteq Listed /\ {p1, p2} \ {Null} \subseteq Roots
    BY SortFacts DEF Linking, Listed, Roots
  <2> QED BY <2>1, <2>2, <2>3, <2>4
<1>4. /\ data' = data /\ Listed' = Listed /\ Linking' = Listed \ {n}
      /\ Whole' = Whole
      /\ Roots' = Heads \cup ({res, next[n], q} \ {Null})
  <2>1. data' = data /\ Listed' = Listed /\ DOMAIN data = Listed
    BY SortKeeps, SortFacts DEF Listed
  <2>2. Whole' = Whole
    BY <1>1 DEF Whole
  <2>3. {res, p1', p2'} = {res, next[n], q}
    BY <1>3
  <2> QED BY <1>1, <1>2, <2>1, <2>2, <2>3 DEF Linking, Roots
<1>5. /\ pcur_item \in Listed /\ pcur_item > p /\ pcur_item # n /\ Linking = Listed \ {pcur_item}
      /\ pcur_item \in Linking' /\ Null \notin Listed
      /\ Roots = Heads \cup ({res, n, q} \ {Null})
      /\ n \notin Heads /\ q \notin Heads /\ n # res /\ q # res
      /\ next[n] # n /\ next[n] # q /\ next[n] # res /\ next[n] \notin Heads
  <2>1. {res, p1, p2} = {res, n, q}
    BY <1>2
  <2>2. /\ pcur_item \in Listed /\ pcur_item > p /\ Linking = Listed \ {pcur_item} /\ Null \notin Listed
        /\ Roots = Heads \cup ({res, p1, p2} \ {Null})
        /\ n \notin Heads /\ q \notin Heads /\ n # res /\ q # res /\ res # Null
    BY <1>1, <1>2, MergeFacts
  <2> HIDE DEF Heads
  <2> QED BY <1>2, <1>3, <1>4, <2>1, <2>2
<1>6. \A x \in Node : next'[x] = IF x = pcur_item THEN n ELSE next[x]
  BY <1>2, SortFacts
<1>7. /\ pcur_item \in Node /\ next'[pcur_item] = n
      /\ \A x \in Linking' : x = pcur_item \/ (x \in Linking /\ x # n /\ next'[x] = next[x])
      /\ \A x \in Linking : x = n \/ (x \in Linking' /\ next'[x] = next[x])
  <2>1. Listed \subseteq Node
    BY SortFacts
  <2> QED BY <1>4, <1>5, <1>6, <2>1
<1>8. /\ \A x, y \in Linking : next[x] = next[y] /\ next[x] # Null => x = y
      /\ \A x \in Linking : next[x] \notin Roots
      /\ \A x \in Listed : x > p => x \in Roots \/ \E m \in Linking : next[m] = x
      /\ \A x \in Linking : x > p /\ next[x] # Null => Before(x, next[x])
  BY <1>1, MergeFacts
<1>9. /\ \A i, j \in Whole' : stack'[i].item = stack'[j].item => i = j
      /\ \A i \in Whole' : stack'[i].item \notin {res', p1', p2'}
  <2>1. /\ \A i, j \in Whole : stack[i].item = stack[j].item => i = j
        /\ \A i \in Whole : stack[i].item # res
    BY <1>1, MergeFacts
  <2>2. \A i \in Whole : stack[i].item \in Heads
    OBVIOUS
  <2> HIDE DEF Heads
  <2> QED BY <1>1, <1>3, <1>4, <1>5, <2>1, <2>2
<1> HIDE DEF Heads
<1>10. res' \notin {p1', p2'} /\ (p1' # Null => p1' # p2')
  BY <1>1, <1>2, <1>3, <1>5
<1>11. \A x, y \in Linking' : next'[x] = next'[y] /\ next'[x] # Null => x = y
  BY <1>3, <1>7, <1>8
<1>12. ASSUME NEW x \in Linking' PROVE next'[x] \notin Roots'
  <2>1. CASE x = pcur_item
    BY <1>2, <1>4, <1>5, <1>7, <2>1
  <2>2. CASE x \in Linking /\ x # n /\ next'[x] = next[x]
    <3>1. next[x] \notin Roots /\ (next[x] # Null => next[x] # next[n])
      BY <1>3, <1>8, <2>2
    <3> QED BY <1>4, <1>5, <2>2, <3>1
  <2> QED BY <1>7, <2>1, <2>2
<1>13. ASSUME NEW x \in Listed, x > p PROVE x \in Roots' \/ \E m \in Linking' : next'[m] = x
  <2>1. CASE x \in Roots
    <3>1. x = n \/ x \in Roots'
      BY <1>4, <1>5, <2>1
    <3> QED BY <1>5, <1>7, <3>1
  <2>2. ASSUME NEW m \in Linking, next[m] = x PROVE x \in Roots' \/ \E k \in Linking' : next'[k] = x
    <3>1. CASE m = n
      BY <1>4, <1>5, <1>13, <2>2, <3>1
    <3>2. CASE m # n
      BY <1>7, <2>2, <3>2
    <3> QED BY <3>1, <3>2
  <2> QED BY <1>8, <1>13, <2>1, <2>2
<1>14. OnceInv'
  BY <1>1, <1>4, <1>9, <1>10, <1>11, <1>12, <1>13 DEF OnceInv
<1>15. AscendInv'
  <2>1. ASSUME NEW x \in Linking', x > p', next'[x] # Null PROVE Before(x, next'[x])
    BY <1>1, <1>3, <1>7, <1>8, <2>1
  <2>2. \A x \in {p1', p2'} \ {Null} : Before(pcur_item', x)
    BY <1>2, <1>3, <1>8
  <2> QED BY <1>1, <2>1, <2>2, SortKeeps DEF AscendInv
<1> QED BY <1>14, <1>15

\* The rest of the run that is left is linked, and the two are one.
LEMMA MergeEndOnce ==
  ASSUME LInv, OnceInv, AscendInv, Sort, MergeEnd
  PROVE  OnceInv' /\ AscendInv'
<1> DEFINE Heads == {stack[i].item : i \in Whole}
           L == Len(stack)
<1>1. /\ sorting = "merge" /\ sorting' = "runs" /\ p' = p
      /\ p1' = Null /\ p2' = Null /\ pcur_item' = Null /\ res' = Null
      /\ next' = [next EXCEPT ![pcur_item] = MergeRest]
  BY DEF MergeEnd
<1>2. {MergeRest} \ {Null} = {p1, p2} \ {Null}
  BY DEF MergeEnd, MergeRest
<1>3. PICK r : r = MergeRest
  OBVIOUS
<1>4. /\ L \in Nat /\ L > 1 /\ DOMAIN stack' = 1 .. L - 1 /\ Len(stack') = L - 1
      /\ \A i \in 1 .. L - 2 : stack'[i] = stack[i]
      /\ stack'[L - 1].item = res
  BY MergeEndStack
<1> HIDE DEF L
<1>5. /\ Whole = 1 .. L - 2 /\ Whole' = 1 .. L - 1
      /\ \A i \in Whole' : (i \in Whole /\ stack'[i].item = stack[i].item) \/ (i = L - 1 /\ stack'[i].item = res)
      /\ \A i \in Whole : i \in Whole' /\ stack'[i].item = stack[i].item
      /\ L - 1 \in Whole'
  <2>1. Whole = 1 .. L - 2 /\ Whole' = 1 .. L - 1
    BY <1>1, <1>4 DEF Whole, L
  <2>2. \A i \in 1 .. L - 1 : i \in 1 .. L - 2 \/ i = L - 1
    BY <1>4
  <2>3. L - 1 \in 1 .. L - 1 /\ \A i \in 1 .. L - 2 : i \in 1 .. L - 1
    BY <1>4
  <2> QED BY <1>4, <2>1, <2>2, <2>3
<1>6. /\ data' = data /\ Listed' = Listed /\ Linking' = Listed /\ Null \notin Listed
      /\ Roots' = Heads \cup {res}
  <2>1. data' = data /\ Listed' = Listed /\ DOMAIN data = Listed /\ Null \notin Listed
    BY SortKeeps, SortFacts DEF Listed, Null
  <2>2. Roots' = {stack'[i].item : i \in Whole'}
    BY <1>1 DEF Roots
  <2>3. \A x : x \in {stack'[i].item : i \in Whole'} <=> x \in Heads \cup {res}
    BY <1>4, <1>5
  <2> QED BY <1>1, <2>1, <2>2, <2>3 DEF Linking
<1>7. /\ pcur_item \in Listed /\ pcur_item > p /\ Linking = Listed \ {pcur_item}
      /\ Heads \subseteq Listed /\ res \in Listed
      /\ Roots = Heads \cup ({res, p1, p2} \ {Null})
      /\ \A i \in Whole : stack[i].item \notin {res, p1, p2}
      /\ res \notin {p1, p2}
  BY <1>1, MergeFacts
<1>8. /\ Roots = Heads \cup {res} \cup ({r} \ {Null})
      /\ r # res /\ r \notin Heads /\ res \notin Heads
      /\ r # Null => Before(pcur_item, r)
  <2>1. {res, p1, p2} \ {Null} = {res} \cup ({r} \ {Null})
    BY <1>2, <1>3, <1>6, <1>7
  <2>2. r \in {p1, p2}
    BY <1>3 DEF MergeRest
  <2>3. Heads \cap {res, p1, p2} = {}
    BY <1>7
  <2>4. \A x \in {p1, p2} \ {Null} : Before(pcur_item, x)
    BY <1>1 DEF AscendInv
  <2> HIDE DEF Heads
  <2> QED BY <1>7, <2>1, <2>2, <2>3, <2>4
<1>9. /\ \A x, y \in Linking : next[x] = next[y] /\ next[x] # Null => x = y
      /\ \A i, j \in Whole : stack[i].item = stack[j].item => i = j
      /\ \A x \in Linking : next[x] \notin Roots
      /\ \A x \in Listed : x > p => x \in Roots \/ \E m \in Linking : next[m] = x
      /\ \A x \in Linking : x > p /\ next[x] # Null => Before(x, next[x])
  BY <1>1, MergeFacts
<1>10. \A i, j \in Whole' : stack'[i].item = stack'[j].item => i = j
  <2>1. \A i \in Whole : stack[i].item # res
    BY <1>7
  <2> QED BY <1>5, <1>9, <2>1
<1>11. \A i \in Whole' : stack'[i].item # Null
  <2>1. \A i \in Whole : stack[i].item \in Heads
    OBVIOUS
  <2>2. \A i \in Whole : stack[i].item # Null
    BY <1>6, <1>7, <2>1
  <2> QED BY <1>5, <1>6, <1>7, <2>2
<1> HIDE DEF Heads
<1>12. /\ pcur_item \in Linking' /\ next'[pcur_item] = r
       /\ \A x \in Linking' : x = pcur_item \/ (x \in Linking /\ next'[x] = next[x])
       /\ \A x \in Linking : x \in Linking' /\ next'[x] = next[x]
  <2>1. \A x \in Node : next'[x] = IF x = pcur_item THEN r ELSE next[x]
    BY <1>1, <1>3, SortFacts
  <2>2. Listed \subseteq Node
    BY SortFacts
  <2> QED BY <1>6, <1>7, <2>1, <2>2
<1>13. \A x, y \in Linking' : next'[x] = next'[y] /\ next'[x] # Null => x = y
  <2>1. \A x \in Linking : next[x] = r => r = Null
    BY <1>8, <1>9
  <2> QED BY <1>9, <1>12, <2>1
<1>14. \A x \in Linking' : next'[x] \notin Roots'
  BY <1>6, <1>7, <1>8, <1>9, <1>12
<1>15. ASSUME NEW x \in Listed, x > p PROVE x \in Roots' \/ \E m \in Linking' : next'[m] = x
  <2>1. x \in Roots => x \in Roots' \/ x = r
    BY <1>6, <1>8
  <2> QED BY <1>9, <1>12, <1>15, <2>1
<1>16. OnceInv'
  <2>1. \A i \in Whole' : stack'[i].item \notin {res', p1', p2'}
    BY <1>1, <1>11
  <2> QED BY <1>1, <1>6, <1>10, <1>13, <1>14, <1>15, <2>1 DEF OnceInv
<1>17. AscendInv'
  <2>1. ASSUME NEW x \in Linking', x > p', next'[x] # Null PROVE Before(x, next'[x])
    BY <1>1, <1>8, <1>9, <1>12, <2>1
  <2>2. {p1', p2'} \ {Null} = {}
    BY <1>1
  <2> QED BY <1>1, <2>1, <2>2, SortKeeps DEF AscendInv
<1> QED BY <1>16, <1>17

\* The list is as it was built: each node leads to the one before it.
LEMMA StartSortOnce ==
  ASSUME LInv, OnceInv, StartSort
  PROVE  OnceInv' /\ AscendInv'
<1>1. /\ UNCHANGED <<rows, next>> /\ kind = "listed" /\ pc = "scan"
      /\ p1' = p1 /\ p2' = p2 /\ pcur_item' = pcur_item /\ res' = res
      /\ sorting' = "runs" /\ p' = list /\ stack' = << >>
  BY DEF StartSort, Exhausted, SortStart, merging
<1>2. p1 = Null /\ p2 = Null /\ pcur_item = Null /\ res = Null
  <2>1. sorting # "merge"
    BY <1>1 DEF LInv, TypeOK
  <2>2. {p1, p2, pcur_item, res} = {Null}
    BY <2>1 DEF OnceInv
  <2> QED BY <2>2
<1>3. /\ data' = data /\ next' = next /\ Listed' = Listed /\ list = Len(data)
      /\ \A n \in Listed : next[n] = n - 1
      /\ \A n \in Listed : n \in Nat /\ n <= list
      /\ Linking' = Listed
  <2>1. data' = data /\ next' = next /\ DOMAIN data = Listed /\ Null \notin Listed
    BY <1>1, SortFacts DEF rows, Listed, Null
  <2>2. Linking' = Listed
    BY <1>1, <1>2, <2>1 DEF Linking
  <2>3. list = Len(data) /\ \A n \in Listed : next[n] = n - 1
    BY <1>1 DEF LInv, LinkInv
  <2>4. \A n \in Listed : n \in Nat /\ n <= Len(data)
    BY SortFacts DEF Listed
  <2> QED BY <2>1, <2>2, <2>3, <2>4, SortKeeps DEF Listed
<1>4. Whole' = {} /\ Roots' = {}
  <2>1. Whole' = {}
    BY <1>1 DEF Whole
  <2> QED BY <1>1, <1>2, <2>1 DEF Roots
<1>5. OnceInv'
  BY <1>1, <1>2, <1>3, <1>4 DEF OnceInv
<1>6. AscendInv'
  <2>1. \A n \in Linking' : ~ (n > p')
    BY <1>1, <1>3
  <2>2. {p1', p2'} \ {Null} = {}
    BY <1>1, <1>2
  <2> QED BY <2>1, <2>2 DEF AscendInv
<1> QED BY <1>5, <1>6

\* Steps that leave list_sort alone.
LEMMA OnceFrame ==
  ASSUME OnceInv, AscendInv, UNCHANGED <<data, links>>
  PROVE  OnceInv' /\ AscendInv'
<1>1. /\ next' = next /\ sorting' = sorting /\ p' = p /\ stack' = stack
      /\ p1' = p1 /\ p2' = p2 /\ pcur_item' = pcur_item /\ res' = res /\ data' = data
  BY DEF links, stk
<1>2. Linking' = Linking /\ Whole' = Whole /\ Roots' = Roots /\ Listed' = Listed
  BY <1>1 DEF Linking, Whole, Roots, Listed
<1>3. OnceInv'
  BY <1>1, <1>2 DEF OnceInv
<1>4. AscendInv'
  <2>1. \A m, n : Before(m, n)' <=> Before(m, n)
    BY <1>1, BeforeKept
  <2>2. /\ \A n : (Before(n, next[n]))' <=> Before(n, next[n])
        /\ \A n : (Before(pcur_item, n))' <=> Before(pcur_item, n)
    BY <1>1 DEF Before, TakesFirst
  <2> QED BY <1>1, <1>2, <2>2 DEF AscendInv
<1> QED BY <1>3, <1>4

\* Steps outside list_sort keep it so.
LEMMA OnceOff ==
  ASSUME OnceInv, sorting' = "off", UNCHANGED merging, sorting # "merge"
  PROVE  OnceInv' /\ AscendInv'
<1>1. {p1, p2, pcur_item, res} = {Null}
  BY DEF OnceInv
<1>2. {p1', p2', pcur_item', res'} = {Null}
  BY <1>1 DEF merging
<1> QED BY <1>2 DEF OnceInv, AscendInv

----------------------------------------------------------------------------
(* The sorted list.                                                        *)

\* m stands behind n, and n's link leads past it or nowhere.
Jumped(n, m) == Before(n, m) /\ (next[n] = Null \/ Before(m, next[n]))

\* What the sort's invariant comes to when one run is left: it begins with the
\* first row in the order of the table, and no link leads past a row.
LEMMA SortedChain ==
  ASSUME LInv, OnceInv, AscendInv, sorting = "runs", p = Null, ~ MustMerge
  PROVE  /\ Listed = {} => SortedList(list) = Null
         /\ Listed # {} => SortedList(list) \in Listed
         /\ \A n \in Listed : ~ Before(n, SortedList(list))
         /\ \A m, n \in Listed :
              Before(n, m) <=> next[n] # Null /\ (m = next[n] \/ Before(next[n], m))
<1>1. /\ Len(stack) \in Nat /\ Len(stack) <= 1 /\ Whole = 1 .. Len(stack)
  BY SortFacts DEF MustMerge, Whole
<1>2. p1 = Null /\ p2 = Null /\ pcur_item = Null /\ res = Null
  <2>1. {p1, p2, pcur_item, res} = {Null}
    BY DEF OnceInv
  <2> QED BY <2>1
<1>3. /\ Linking = Listed /\ Listed \subseteq Node /\ Null \notin Listed
      /\ \A n \in Listed : n \in Nat /\ n > p
      /\ \A n \in Listed : next[n] # Null => next[n] \in Listed
  <2>1. DOMAIN data = Listed /\ Null \notin Listed /\ Listed \subseteq Node
    BY SortFacts DEF Listed, Null
  <2>2. ASSUME NEW n \in Listed PROVE n \in Nat /\ n > p /\ next[n] \in 0 .. Len(data)
    BY <2>1, <2>2, SortFacts DEF Null, LInv, LinkInv
  <2>3. \A x \in 0 .. Len(data) : x # Null => x \in Listed
    BY SortFacts DEF Listed, Null
  <2> QED BY <1>2, <2>1, <2>2, <2>3 DEF Linking
<1>4. \A m, n \in Listed :
        /\ At(m) \in Nat
        /\ Before(m, n) <=> At(m) < At(n)
        /\ At(m) = At(n) => m = n
  BY NodeOrder
<1>5. \A x \in Roots : stack # << >> /\ x = stack[1].item
  <2>1. \A i \in Whole : i = 1 /\ stack # << >>
    BY <1>1, SortFacts
  <2>2. Roots = {stack[i].item : i \in Whole}
    BY <1>2 DEF Roots
  <2> QED BY <2>1, <2>2
<1>6. /\ \A n \in Listed : n \in Roots \/ \E m \in Listed : next[m] = n
      /\ \A n \in Listed : next[n] # Null => Before(n, next[n])
  BY <1>3 DEF OnceInv, AscendInv
<1>7. ASSUME Listed # {}
      PROVE  /\ SortedList(list) \in Listed
             /\ \A n \in Listed : At(SortedList(list)) <= At(n)
             /\ \A x \in Roots : x = SortedList(list)
  <2>1. PICK h \in Listed : \A n \in Listed : At(h) <= At(n)
    <3> DEFINE T == {At(n) : n \in Listed}
    <3>1. T \subseteq Nat /\ T # {}
      BY <1>4, <1>7
    <3>2. PICK t \in T : \A s \in T : t <= s
      BY <3>1, LeastOne
    <3> QED BY <3>2
  <2>2. ASSUME NEW m \in Listed, next[m] = h PROVE FALSE
    <3>1. At(m) < At(h)
      BY <1>3, <1>4, <1>6, <2>2
    <3> QED BY <1>4, <2>1, <3>1
  <2>3. h \in Roots
    BY <1>6, <2>2
  <2>4. h = SortedList(list)
    BY <1>5, <2>3 DEF SortedList
  <2>5. \A x \in Roots : x = h
    BY <1>5, <2>3
  <2> QED BY <2>1, <2>4, <2>5
<1>8. ASSUME Listed = {} PROVE SortedList(list) = Null
  <2>1. Len(data) = 0
    BY <1>8, SortFacts DEF Listed
  <2>2. list = 0
    BY <2>1 DEF LInv, LinkInv
  <2>3. stack = << >>
    <3>1. \A i \in DOMAIN stack : FALSE
      BY <1>8 DEF LInv, LinkInv
    <3> QED BY <3>1, SortFacts
  <2> QED BY <2>2, <2>3 DEF SortedList, Null
<1>9. ASSUME NEW m \in Listed, NEW n \in Listed PROVE ~ Jumped(n, m)
  <2> DEFINE T == {At(x) : x \in {x \in Listed : \E y \in Listed : Jumped(y, x)}}
  <2> SUFFICES ASSUME Jumped(n, m) PROVE FALSE
    OBVIOUS
  <2>1. T \subseteq Nat /\ T # {}
    BY <1>4
  <2>2. PICK t \in T : \A s \in T : t <= s
    BY <2>1, LeastOne
  <2>3. PICK x \in Listed, y \in Listed : t = At(x) /\ Jumped(y, x)
    BY <2>2
  <2>4. \A u, v \in Listed : Jumped(v, u) => At(x) <= At(u)
    BY <2>2, <2>3
  <2> HIDE DEF T
  <2>5. /\ At(y) < At(x) /\ next[y] # x
        /\ next[y] # Null => At(x) < At(next[y])
    BY <1>3, <1>4, <2>3 DEF Jumped
  <2>6. x \notin Roots
    BY <1>4, <1>7, <2>5
  <2>7. PICK k \in Listed : next[k] = x
    BY <1>6, <2>6
  <2>8. At(k) < At(x) /\ k # y
    BY <1>3, <1>4, <1>6, <2>5, <2>7
  <2>9. CASE At(y) < At(k)
    <3>1. Jumped(y, k)
      BY <1>3, <1>4, <2>5, <2>8, <2>9 DEF Jumped
    <3> QED BY <1>4, <2>4, <2>8, <3>1
  <2>10. CASE At(k) < At(y)
    <3>1. Jumped(k, y)
      BY <1>3, <1>4, <2>5, <2>7, <2>10 DEF Jumped
    <3> QED BY <1>4, <2>4, <2>5, <3>1
  <2> QED BY <1>4, <2>8, <2>9, <2>10
<1>10. ASSUME NEW n \in Listed PROVE ~ Before(n, SortedList(list))
  BY <1>4, <1>7, <1>10
<1>11. ASSUME NEW m \in Listed, NEW n \in Listed
       PROVE  Before(n, m) <=> next[n] # Null /\ (m = next[n] \/ Before(next[n], m))
  <2>1. CASE next[n] = Null
    BY <1>9, <2>1 DEF Jumped
  <2>2. CASE next[n] # Null
    <3>1. next[n] \in Listed /\ Before(n, next[n]) /\ ~ (Before(n, m) /\ Before(m, next[n]))
      BY <1>3, <1>6, <1>9, <2>2 DEF Jumped
    <3> QED BY <1>4, <2>2, <3>1
  <2> QED BY <2>1, <2>2
<1> QED BY <1>7, <1>8, <1>10, <1>11

LEMMA OrderFrame ==
  ASSUME OrderInv, data' = data, next' = next, kind' = kind,
         kind = "listed" /\ pc' \in {"emit", "row"} => pc \in {"emit", "row"}
  PROVE  OrderInv'
<1>1. /\ Listed' = Listed
      /\ \A m, n : Before(m, n)' <=> Before(m, n)
      /\ \A m, n : (Before(next[n], m))' <=> Before(next[n], m)
  BY DEF Listed, Before, TakesFirst
<1> QED BY <1>1 DEF OrderInv

\* Steps that neither fetch rows, nor sort them, nor hand them out.
Passing ==
  FirstCall \/ NextCall \/ NoRow \/ EmitNothing \/ CloseIndex \/ CloseQuery
    \/ Stop \/ Abort \/ WriterComes \/ WriterGets \/ UNCHANGED vars

LEMMA PassingS == ASSUME LInv, SInv, Passing PROVE OnceInv' /\ AscendInv' /\ OrderInv' /\ HandedInv'
<1>1. /\ UNCHANGED <<kind, answer, fetched, data, handed, links>>
      /\ \/ pc' = pc
         \/ pc' \in {"stopped", "aborted"}
         \/ pc = "idle" /\ pc' = "scan"
         \/ pc = "row" /\ kind = "tidonly" /\ pc' = "scan"
         \/ pc = "row" /\ kind # "tidonly" /\ pc' = "emit"
         \/ pc = "scan" /\ kind = "tidonly" /\ pc' = "closing" /\ fetched = Len(answer)
         \/ pc = "emit" /\ cur = Null /\ pc' = "closing"
         \/ pc = "closing" /\ pc' = "done"
      /\ \/ cur' = cur
         \/ cur' = Null /\ pc = "closing"
  BY DEF Passing, FirstCall, NextCall, NoRow, Exhausted, EmitNothing, CloseIndex, CloseQuery,
         Stop, Abort, WriterComes, WriterGets, vars, held, query, rows
<1>2. /\ OnceInv /\ AscendInv /\ OrderInv /\ HandedInv /\ kind \in {"tidonly", "listed"}
      /\ pc = "emit" => kind = "listed"
  BY DEF SInv, LInv, TypeOK, HeldInv
<1>3. next' = next /\ data' = data /\ Listed' = Listed
  BY <1>1 DEF links, Listed
<1>4. OnceInv' /\ AscendInv'
  BY <1>1, <1>2, OnceFrame
<1>5. OrderInv'
  BY <1>1, <1>2, <1>3, OrderFrame
<1>6. kind = "listed" /\ pc = "closing" => cur = Null
  BY <1>2 DEF HandedInv
<1>7. cur' = cur \/ kind # "listed"
  BY <1>1, <1>2, <1>6
<1>8. kind = "listed" =>
        \A n \in Listed :
          /\ (cur = Null \/ Before(n, cur))' <=> cur = Null \/ Before(n, cur)
          /\ (handed # << >> /\ res_item_compare_proc(data[n], handed[Len(handed)]) <= 0)'
               <=> handed # << >> /\ res_item_compare_proc(data[n], handed[Len(handed)]) <= 0
  BY <1>1, <1>3, <1>7 DEF Before, TakesFirst
<1>9. HandedInv'
  <2>1. kind = "tidonly" =>
          Len(handed) = fetched /\ \A i \in 1 .. fetched : handed[i].iptr = answer[i]
    BY <1>2 DEF HandedInv
  <2>2. kind = "listed" /\ pc' \in {"idle", "scan", "sort"} => handed = << >>
    BY <1>1, <1>2 DEF HandedInv
  <2>3. kind = "listed" /\ pc' \in {"emit", "row", "closing", "done"} =>
          /\ pc \in {"emit", "row", "closing", "done"}
          /\ \A n \in Listed :
               cur = Null \/ Before(n, cur) <=>
                 handed # << >> /\ res_item_compare_proc(data[n], handed[Len(handed)]) <= 0
    BY <1>1, <1>2 DEF HandedInv
  <2>4. kind = "listed" /\ pc' \in {"closing", "done"} => cur' = Null
    BY <1>1, <1>2 DEF HandedInv
  <2>5. pc' \in {"sort", "emit", "closing", "done"} \/ (kind = "listed" /\ pc' = "row") =>
          fetched = Len(answer)
    BY <1>1, <1>2 DEF HandedInv
  <2> QED BY <1>1, <1>3, <1>8, <2>1, <2>2, <2>3, <2>4, <2>5 DEF HandedInv
<1> QED BY <1>4, <1>5, <1>9

LEMMA FetchRowS == ASSUME SInv, FetchRow PROVE OnceInv' /\ AscendInv' /\ OrderInv' /\ HandedInv'
<1> DEFINE row == [iptr |-> answer[fetched'], coords |-> Corner]
<1>1. /\ Found /\ UNCHANGED <<query, data, links>> /\ kind = "tidonly" /\ pc' = "row"
      /\ handed' = Append(handed, row)
  BY DEF FetchRow
<1>2. LInv /\ OnceInv /\ AscendInv /\ OrderInv /\ HandedInv
  BY DEF SInv
<1>3. /\ fetched \in Nat /\ fetched' = fetched + 1 /\ kind' = "tidonly" /\ answer' = answer
      /\ handed \in Seq(Rows) /\ Len(handed) \in Nat
  BY <1>1, <1>2, FoundL DEF query, LInv, TypeOK
<1>4. row.iptr = answer[fetched']
  OBVIOUS
<1> HIDE DEF row
<1>5. /\ Len(handed') = Len(handed) + 1
      /\ handed'[Len(handed) + 1] = row
      /\ \A i \in 1 .. Len(handed) : handed'[i] = handed[i]
  BY <1>1, <1>3
<1>6. Len(handed) = fetched /\ \A i \in 1 .. fetched : handed[i].iptr = answer[i]
  BY <1>1, <1>2 DEF HandedInv
<1>7. Len(handed') = fetched' /\ \A i \in 1 .. fetched' : handed'[i].iptr = answer[i]
  <2>1. \A i \in 1 .. fetched' : i \in 1 .. fetched \/ i = fetched'
    BY <1>3
  <2> QED BY <1>3, <1>4, <1>5, <1>6, <2>1
<1>8. HandedInv'
  BY <1>1, <1>3, <1>7 DEF HandedInv
<1>9. OrderInv'
  BY <1>3 DEF OrderInv
<1> QED BY <1>1, <1>2, <1>8, <1>9, OnceFrame

LEMMA FetchItemS == ASSUME SInv, FetchItem PROVE OnceInv' /\ AscendInv' /\ OrderInv' /\ HandedInv'
<1>1. /\ UNCHANGED <<query, handed, stk>> /\ kind = "listed" /\ pc = "scan" /\ pc' = "scan"
  BY DEF FetchItem, Found
<1>2. OnceInv /\ HandedInv /\ sorting = "off"
  BY <1>1 DEF SInv, LInv, TypeOK
<1>3. sorting' = "off" /\ UNCHANGED merging /\ kind' = "listed"
  BY <1>1, <1>2 DEF stk, merging, query
<1>4. OnceInv' /\ AscendInv'
  BY <1>2, <1>3, OnceOff
<1>5. handed' = << >>
  BY <1>1, <1>2 DEF HandedInv
<1> QED BY <1>1, <1>3, <1>4, <1>5 DEF OrderInv, HandedInv

LEMMA StartSortS == ASSUME SInv, StartSort PROVE OnceInv' /\ AscendInv' /\ OrderInv' /\ HandedInv'
<1>1. /\ UNCHANGED <<query, rows, handed>> /\ kind = "listed" /\ pc = "scan" /\ pc' = "sort"
      /\ fetched = Len(answer)
  BY DEF StartSort, Exhausted
<1>2. kind' = "listed" /\ fetched' = Len(answer') /\ handed' = << >>
  BY <1>1 DEF SInv, HandedInv, query, rows
<1>3. OnceInv' /\ AscendInv'
  BY StartSortOnce DEF SInv
<1> QED BY <1>1, <1>2, <1>3 DEF OrderInv, HandedInv

LEMMA SortS == ASSUME SInv, Sort PROVE OnceInv' /\ AscendInv' /\ OrderInv' /\ HandedInv'
<1>1. /\ UNCHANGED <<query, rows, handed>> /\ pc = "sort" /\ pc' = "sort"
  BY DEF Sort
<1>2. kind' = "listed" /\ fetched' = Len(answer') /\ handed' = << >>
  BY <1>1 DEF SInv, LInv, HeldInv, HandedInv, query, rows
<1>3. OnceInv' /\ AscendInv'
  BY PushOnce, MergeBeginOnce, MergeStepOnce, MergeEndOnce DEF Sort, SortStep, SInv
<1> QED BY <1>1, <1>2, <1>3 DEF OrderInv, HandedInv

\* The first row in the order of the table is the first to be handed out.
LEMMA SortedS == ASSUME SInv, Sorted PROVE OnceInv' /\ AscendInv' /\ OrderInv' /\ HandedInv'
<1>1. /\ UNCHANGED <<query, rows, handed, next, merging>> /\ pc = "sort" /\ pc' = "emit"
      /\ sorting = "runs" /\ p = Null /\ ~ MustMerge /\ sorting' = "off"
      /\ cur' = SortedList(list)
  BY DEF Sorted, SortDone
<1>2. LInv /\ OnceInv /\ AscendInv /\ HandedInv /\ kind = "listed"
  BY <1>1 DEF SInv, LInv, HeldInv
<1>3. /\ data' = data /\ next' = next /\ kind' = "listed" /\ handed' = << >>
      /\ fetched' = Len(answer') /\ Listed' = Listed /\ Null \notin Listed
  BY <1>1, <1>2, SortFacts DEF HandedInv, query, rows, Listed, Null
<1>4. OnceInv' /\ AscendInv'
  BY <1>1, <1>2, OnceOff
<1>5. /\ \A n \in Listed : cur' # Null /\ ~ Before(n, cur')
      /\ \A m, n \in Listed :
           Before(n, m) <=> next[n] # Null /\ (m = next[n] \/ Before(next[n], m))
  BY <1>1, <1>2, <1>3, SortedChain
<1>6. OrderInv'
  <2>1. /\ \A m, n : Before(m, n)' <=> Before(m, n)
        /\ \A m, n : (Before(next[n], m))' <=> Before(next[n], m)
    BY <1>3 DEF Before, TakesFirst
  <2> QED BY <1>3, <1>5, <2>1 DEF OrderInv
<1>7. HandedInv'
  <2>1. \A n : (Before(n, cur))' <=> Before(n, cur')
    BY <1>3 DEF Before, TakesFirst
  <2> QED BY <1>1, <1>3, <1>5, <2>1 DEF HandedInv
<1> QED BY <1>4, <1>6, <1>7

\* After the row at cur comes the one its link leads to.
LEMMA EmitS == ASSUME SInv, Emit PROVE OnceInv' /\ AscendInv' /\ OrderInv' /\ HandedInv'
<1>1. /\ UNCHANGED <<query, rows, links>> /\ pc = "emit" /\ pc' = "row" /\ cur # Null
      /\ handed' = Append(handed, data[cur]) /\ cur' = next[cur]
  BY DEF Emit
<1>2. LInv /\ OnceInv /\ AscendInv /\ OrderInv /\ HandedInv /\ kind = "listed"
  BY <1>1 DEF SInv, LInv, HeldInv
<1>3. /\ data' = data /\ next' = next /\ kind' = kind /\ Listed' = Listed
      /\ fetched' = fetched /\ answer' = answer
  BY <1>1 DEF query, rows, links, Listed
<1>4. /\ cur \in Listed /\ (next[cur] # Null => next[cur] \in Listed)
      /\ handed \in Seq(Rows) /\ Len(handed) \in Nat
  <2>1. cur \in 0 .. Len(data) /\ \A n \in Node : next[n] \in 0 .. Len(data)
    BY <1>2 DEF LInv, LinkInv
  <2>2. \A n \in 0 .. Len(data) : n # Null => n \in Listed
    BY <1>2, SortFacts DEF Listed, Null
  <2>3. cur \in Listed /\ cur \in Node
    BY <1>1, <1>2, <2>1, <2>2, SortFacts
  <2>4. next[cur] # Null => next[cur] \in Listed
    BY <2>1, <2>2, <2>3
  <2> QED BY <1>2, <2>3, <2>4 DEF LInv, TypeOK
<1>5. handed' # << >> /\ handed'[Len(handed')] = data[cur]
  BY <1>1, <1>4
<1>6. ASSUME NEW n \in Listed
      PROVE  next[cur] = Null \/ Before(n, next[cur])
               <=> res_item_compare_proc(data[n], data[cur]) <= 0
  <2>1. /\ At(n) \in Nat /\ At(cur) \in Nat
        /\ Before(cur, n) <=> At(cur) < At(n)
        /\ next[cur] # Null =>
             /\ At(next[cur]) \in Nat
             /\ Before(n, next[cur]) <=> At(n) < At(next[cur])
             /\ Before(next[cur], n) <=> At(next[cur]) < At(n)
             /\ At(n) = At(next[cur]) => n = next[cur]
    BY <1>2, <1>4, NodeOrder
  <2>2. res_item_compare_proc(data[n], data[cur]) <= 0 <=> At(n) <= At(cur)
    <3>1. data[n].iptr = answer[n] /\ data[cur].iptr = answer[cur]
      BY <1>2, <1>4, NodeRows
    <3>2. \A m \in Listed : answer[m] \in Tids
      <4>1. answer \in Seq(Tids) /\ \A m \in Listed : m \in 1 .. Len(answer)
        BY <1>2 DEF LInv, TypeOK, Listed
      <4> QED BY <4>1
    <3> QED BY <1>4, <3>1, <3>2, CompareSpots DEF At
  <2>3. Before(cur, n) <=> next[cur] # Null /\ (n = next[cur] \/ Before(next[cur], n))
    BY <1>1, <1>2, <1>4 DEF OrderInv
  <2>4. At(n) <= At(cur) <=> ~ Before(cur, n)
    BY <2>1
  <2> QED BY <2>1, <2>2, <2>3, <2>4
<1>7. \A n \in Listed :
        cur' = Null \/ (Before(n, cur))' <=>
          handed' # << >> /\ (res_item_compare_proc(data[n], handed[Len(handed)]))' <= 0
  <2>1. \A n : (Before(n, cur))' <=> Before(n, next[cur])
    BY <1>1, <1>3 DEF Before, TakesFirst
  <2>2. \A n : (res_item_compare_proc(data[n], handed[Len(handed)]))'
                 = res_item_compare_proc(data[n], data[cur])
    BY <1>3, <1>5
  <2> QED BY <1>1, <1>5, <1>6, <2>1, <2>2
<1>8. fetched' = Len(answer')
  BY <1>1, <1>2, <1>3 DEF HandedInv
<1>9. HandedInv'
  BY <1>1, <1>2, <1>3, <1>7, <1>8 DEF HandedInv
<1> QED BY <1>1, <1>2, <1>3, <1>9, OnceFrame, OrderFrame

----------------------------------------------------------------------------
LEMMA InitS == ASSUME Init PROVE SInv
<1>1. LInv
  BY InitL
<1>2. OnceInv /\ AscendInv
  BY DEF Init, OnceInv, AscendInv
<1>3. OrderInv /\ HandedInv
  <2>1. /\ pc = "idle" /\ handed = << >> /\ fetched = 0 /\ Len(handed) = 0
    BY DEF Init
  <2>2. \A i \in 1 .. 0 : FALSE
    OBVIOUS
  <2> QED BY <2>1, <2>2 DEF OrderInv, HandedInv
<1> QED BY <1>1, <1>2, <1>3 DEF SInv

LEMMA NextS == ASSUME SInv, [Next]_vars PROVE SInv'
<1>1. LInv /\ LInv'
  BY NextL DEF SInv
<1>2. OnceInv' /\ AscendInv' /\ OrderInv' /\ HandedInv'
  BY <1>1, PassingS, FetchRowS, FetchItemS, StartSortS, SortS, SortedS, EmitS
     DEF Next, Run, Passing
<1> QED BY <1>1, <1>2 DEF SInv

\* SInv holds throughout: list_sort keeps each node on one way, its links ascend,
\* and the list is handed out in the order of the table.
THEOREM SortInvariance == Spec => []SInv
<1>1. Init => SInv
  BY InitS
<1>2. SInv /\ [Next]_vars => SInv'
  BY NextS
<1> QED BY <1>1, <1>2, PTL DEF Spec

----------------------------------------------------------------------------
(* No row is lost.                                                         *)

\* Where the rest of the list begins is no part of a run.
LEMMA RestFacts ==
  ASSUME LInv, OnceInv, sorting # "off"
  PROVE  /\ p \in Nat /\ Null = 0 /\ DOMAIN data = Listed /\ Null \notin Listed
         /\ \A n \in Listed : n \in Nat
         /\ pcur_item = Null \/ pcur_item > p
         /\ \A x \in {res, p1, p2} : x = Null \/ x > p
         /\ \A i \in Whole : stack[i].item > p
         /\ \A m \in Listed : m <= p => next[m] = m - 1
         /\ \A m \in Listed : m > p => next[m] = Null \/ next[m] > p
<1>1. /\ p \in Nat /\ Null = 0 /\ DOMAIN data = Listed /\ Null \notin Listed
      /\ Listed \subseteq Node /\ \A n \in Listed : n \in Nat
  BY SortFacts DEF Listed, Null
<1>2. /\ \A m \in Node : m <= p => next[m] = m - 1
      /\ \A m \in Node : m > p => next[m] = Null \/ next[m] > p
      /\ \A i \in DOMAIN stack : stack[i].item > p
  BY DEF LInv, SortInv
<1>3. \A i \in Whole : i \in DOMAIN stack
  BY SortFacts DEF Whole, LInv, SortInv, MustMerge
<1>4. /\ pcur_item = Null \/ pcur_item > p
      /\ \A x \in {res, p1, p2} : x = Null \/ x > p
  <2>1. CASE sorting = "merge"
    BY <2>1 DEF LInv, SortInv
  <2>2. CASE sorting # "merge"
    <3>1. {p1, p2, pcur_item, res} = {Null}
      BY <2>2 DEF OnceInv
    <3> QED BY <3>1
  <2> QED BY <2>1, <2>2
<1> QED BY <1>1, <1>2, <1>3, <1>4

\* At least one way leads to each node.
LEMMA SomeWay ==
  ASSUME LInv, OnceInv, sorting # "off", NEW n \in Listed
  PROVE  \E w : w \in WaysTo(n)
<1>1. ASSUME NEW m \in Linking, next[m] = n PROVE <<"link", m>> \in WaysTo(n)
  BY <1>1 DEF WaysTo
<1>2. ASSUME NEW i \in Whole, stack[i].item = n PROVE <<"run", i>> \in WaysTo(n)
  BY <1>2 DEF WaysTo
<1>3. /\ n = p => <<"rest", 1>> \in WaysTo(n)
      /\ n = res => <<"rest", 2>> \in WaysTo(n)
      /\ n = p1 => <<"rest", 3>> \in WaysTo(n)
      /\ n = p2 => <<"rest", 4>> \in WaysTo(n)
  BY DEF WaysTo
<1>4. CASE n > p
  <2>1. n \in Roots \/ \E m \in Linking : next[m] = n
    BY <1>4 DEF OnceInv
  <2>2. n \in Roots => n \in {res, p1, p2} \/ \E i \in Whole : stack[i].item = n
    BY DEF Roots
  <2> QED BY <1>1, <1>2, <1>3, <2>1, <2>2
<1>5. CASE n < p
  <2>1. n + 1 \in Listed /\ n + 1 <= p
    BY <1>5, RestFacts, SortFacts DEF Listed
  <2>2. next[n + 1] = n
    BY <2>1, RestFacts
  <2>3. n + 1 \in Linking
    BY <2>1, RestFacts DEF Linking
  <2> QED BY <1>1, <2>2, <2>3
<1> QED BY <1>3, <1>4, <1>5, RestFacts

\* There is no other.
LEMMA OneWay ==
  ASSUME LInv, OnceInv, sorting # "off", NEW n \in Listed,
         NEW v \in WaysTo(n), NEW w \in WaysTo(n)
  PROVE  v = w
<1> DEFINE Link(x) == \E m \in Linking : x = <<"link", m>> /\ next[m] = n
           Begins(x) == \E i \in Whole : x = <<"run", i>> /\ stack[i].item = n
           Rest(x, i) == x = <<"rest", i>> /\ n = <<p, res, p1, p2>>[i]
           Part(x) == Rest(x, 2) \/ Rest(x, 3) \/ Rest(x, 4)
<1>1. \A x \in WaysTo(n) : Link(x) \/ Begins(x) \/ Rest(x, 1) \/ Part(x)
  <2>1. \A i \in 1 .. 4 : i = 1 \/ i = 2 \/ i = 3 \/ i = 4
    OBVIOUS
  <2> SUFFICES ASSUME NEW x \in WaysTo(n), NEW i \in 1 .. 4, x = <<"rest", i>>,
                      <<p, res, p1, p2>>[i] = n
               PROVE  Rest(x, 1) \/ Part(x)
    BY DEF WaysTo
  <2> QED BY <2>1
<1>2. n # Null
  BY RestFacts
<1>3. /\ \A m \in Linking : next[m] = n => n \notin Roots /\ n # p
      /\ \A i \in Whole : stack[i].item = n => n \in Roots /\ n # p /\ n \notin {res, p1, p2}
      /\ n \in {res, p1, p2} => n \in Roots /\ n # p
  <2>1. ASSUME NEW m \in Linking, next[m] = n PROVE n \notin Roots /\ n # p
    <3>1. m \in Listed /\ next[m] # p
      BY RestFacts, <1>2, <2>1 DEF Linking
    <3> QED BY <2>1, <3>1 DEF OnceInv
  <2>2. ASSUME NEW i \in Whole, stack[i].item = n
        PROVE  n \in Roots /\ n # p /\ n \notin {res, p1, p2}
    BY <2>2, RestFacts DEF Roots, OnceInv
  <2>3. n \in {res, p1, p2} => n \in Roots /\ n # p
    BY <1>2, RestFacts DEF Roots
  <2> QED BY <2>1, <2>2, <2>3
<1>4. \A x : Part(x) => n \in {res, p1, p2}
  OBVIOUS
<1>5. \A x : Rest(x, 1) => n = p
  OBVIOUS
<1>6. \A x, y : Link(x) /\ Link(y) => x = y
  BY <1>2 DEF OnceInv
<1>7. \A x, y : Begins(x) /\ Begins(y) => x = y
  BY DEF OnceInv
<1>8. \A x, y : Rest(x, 1) /\ Rest(y, 1) => x = y
  OBVIOUS
<1>9. \A x, y : Part(x) /\ Part(y) => x = y
  <2>1. /\ ~ (n = res /\ n = p1)
        /\ ~ (n = res /\ n = p2)
        /\ ~ (n = p1 /\ n = p2)
    BY <1>2 DEF OnceInv
  <2>2. \A x : /\ Rest(x, 2) <=> x = <<"rest", 2>> /\ n = res
               /\ Rest(x, 3) <=> x = <<"rest", 3>> /\ n = p1
               /\ Rest(x, 4) <=> x = <<"rest", 4>> /\ n = p2
    OBVIOUS
  <2> HIDE DEF Rest
  <2> QED BY <2>1, <2>2
<1>10. \A x : /\ Link(x) => n \notin Roots /\ n # p
              /\ Begins(x) => n \in Roots /\ n # p /\ n \notin {res, p1, p2}
  BY <1>3
<1> HIDE DEF Link, Begins, Rest, Part
<1> QED BY <1>1, <1>3, <1>4, <1>5, <1>6, <1>7, <1>8, <1>9, <1>10

\* Links do not go round in a circle: those pushed ascend, those not pushed
\* descend by number.
LEMMA NoCircle ==
  ASSUME LInv, OnceInv, AscendInv, sorting # "off", NEW S, S \subseteq Listed, S # {}
  PROVE  \E n \in S : \A m \in S \cap Linking : next[m] # n
<1>1. \A m, n \in Listed : At(m) \in Nat /\ (Before(m, n) <=> At(m) < At(n))
  BY NodeOrder
<1>2. CASE \E x \in S : x > p
  <2> DEFINE T == {At(x) : x \in {x \in S : x > p}}
  <2>1. T \subseteq Nat /\ T # {}
    BY <1>1, <1>2
  <2>2. PICK t \in T : \A s \in T : t <= s
    BY <2>1, LeastOne
  <2>3. PICK n \in S : n > p /\ \A x \in S : x > p => At(n) <= At(x)
    BY <2>2
  <2>4. ASSUME NEW m \in S, m \in Linking, next[m] = n PROVE FALSE
    <3>1. m > p
      BY <2>3, <2>4, RestFacts
    <3>2. Before(m, n)
      BY <2>3, <2>4, <3>1, RestFacts DEF AscendInv
    <3> QED BY <1>1, <2>3, <3>1, <3>2
  <2> QED BY <2>4
<1>3. CASE \A x \in S : x <= p
  <2> DEFINE T == {p - x : x \in S}
  <2>1. T \subseteq Nat /\ T # {}
    BY <1>3, RestFacts
  <2>2. PICK t \in T : \A s \in T : t <= s
    BY <2>1, LeastOne
  <2>3. PICK n \in S : \A x \in S : p - n <= p - x
    BY <2>2
  <2>4. ASSUME NEW m \in S, next[m] = n PROVE FALSE
    <3>1. next[m] = m - 1 /\ m \in Nat /\ n \in Nat /\ p \in Nat /\ p - n <= p - m
      BY <1>3, <2>3, RestFacts
    <3> QED BY <2>4, <3>1
  <2> QED BY <2>4
<1> QED BY <1>2, <1>3, RestFacts

\* Whatever runs list_sort has pushed and merged, it comes to each row of the
\* list on exactly one way, and no links go round in a circle.
THEOREM NothingLost == Spec => []NoneLost
<1>1. SInv => NoneLost
  <2> SUFFICES ASSUME LInv, OnceInv, AscendInv, sorting # "off" PROVE NoneLost
    BY DEF SInv, NoneLost
  <2>1. ASSUME NEW n \in DOMAIN data PROVE Cardinality(WaysTo(n)) = 1
    <3>1. n \in Listed
      BY RestFacts
    <3>2. PICK w : w \in WaysTo(n)
      BY <3>1, SomeWay
    <3>3. WaysTo(n) = {w}
      BY <3>1, <3>2, OneWay
    <3> QED BY <3>3, FS_Singleton
  <2>2. ASSUME NEW S \in (SUBSET DOMAIN data) \ {{}}
        PROVE  \E n \in S : \A m \in S \cap Linking : next[m] # n
    <3>1. S \subseteq Listed /\ S # {}
      BY RestFacts
    <3> QED BY <3>1, NoCircle
  <2> QED BY <2>1, <2>2 DEF NoneLost
<1> QED BY <1>1, SortInvariance, PTL

----------------------------------------------------------------------------
(* A lookup is a scan of the automaton's rows.                             *)

LEMMA AnswerFacts ==
  ASSUME LInv
  PROVE  /\ answer \in Seq(Tids) /\ Len(answer) \in Nat /\ DOMAIN answer = 1 .. Len(answer)
         /\ IsInjective(answer)
         /\ \A i \in 1 .. Len(answer) : answer[i] \in Tids /\ answer[i] \in Range(answer)
         /\ \A t \in Range(answer) : t \in Tids /\ \E i \in 1 .. Len(answer) : answer[i] = t
         /\ IsFiniteSet(Range(answer)) /\ Cardinality(Range(answer)) <= Len(answer)
         /\ fetched \in 0 .. Len(answer)
<1>1. /\ answer \in Seq(Tids) /\ Len(answer) \in Nat /\ DOMAIN answer = 1 .. Len(answer)
      /\ IsInjective(answer) /\ fetched \in 0 .. Len(answer)
  BY AnswersAssumption DEF LInv, DataInv, TypeOK
<1>2. \A i \in 1 .. Len(answer) : answer[i] \in Tids /\ answer[i] \in Range(answer)
  BY <1>1 DEF Range
<1>3. \A t \in Range(answer) : t \in Tids /\ \E i \in 1 .. Len(answer) : answer[i] = t
  BY <1>1, <1>2 DEF Range
<1>4. answer \in Surjection(1 .. Len(answer), Range(answer))
  <2>1. answer \in [1 .. Len(answer) -> Range(answer)]
    <3>1. answer = [i \in 1 .. Len(answer) |-> answer[i]]
      BY <1>1
    <3> QED BY <1>2, <3>1
  <2> QED BY <1>3, <2>1 DEF Surjection
<1>5. IsFiniteSet(1 .. Len(answer)) /\ Cardinality(1 .. Len(answer)) = Len(answer)
  <2>1. 1 \in Int /\ Len(answer) \in Int
    BY <1>1
  <2>2. /\ IsFiniteSet(1 .. Len(answer))
        /\ Cardinality(1 .. Len(answer)) = IF 1 > Len(answer) THEN 0 ELSE Len(answer) - 1 + 1
    BY <2>1, FS_Interval
  <2> QED BY <1>1, <2>2
<1>6. IsFiniteSet(Range(answer)) /\ Cardinality(Range(answer)) <= Len(answer)
  BY <1>4, <1>5, FS_Surjection
<1> QED BY <1>1, <1>2, <1>3, <1>6

\* Place counts the rows that stand no further back.
LEMMA UpToSpots ==
  ASSUME LInv, NEW t \in Tids
  PROVE  UpTo(t) = {u \in Range(answer) : Spot(u) <= Spot(t)}
<1> SUFFICES ASSUME NEW u \in Tids
             PROVE  Block(u) < Block(t) \/ (Block(u) = Block(t) /\ u.ip_posid <= t.ip_posid)
                      <=> Spot(u) <= Spot(t)
  BY AnswerFacts DEF UpTo
<1>1. /\ Block(u) = u.bi_hi * Word + u.bi_lo /\ Block(t) = t.bi_hi * Word + t.bi_lo
      /\ Spot(u) = Block(u) * Word + u.ip_posid /\ Spot(t) = Block(t) * Word + t.ip_posid
  BY DEF Block, Spot, Word
<1>2. Block(u) \in Nat /\ Block(t) \in Nat
  BY <1>1, TidParts, WordPositive, PairOrder
<1>3. u.ip_posid \in 0 .. Word - 1 /\ t.ip_posid \in 0 .. Word - 1
  BY TidParts
<1>4. /\ Spot(u) < Spot(t) <=> Block(u) < Block(t) \/ (Block(u) = Block(t) /\ u.ip_posid < t.ip_posid)
      /\ Spot(u) = Spot(t) <=> Block(u) = Block(t) /\ u.ip_posid = t.ip_posid
      /\ Spot(u) \in Nat /\ Spot(t) \in Nat
  BY <1>1, <1>2, <1>3, WordPositive, PairOrder
<1>5. u.ip_posid \in Nat /\ t.ip_posid \in Nat
  BY <1>3, WordPositive
<1> HIDE DEF Spot, Block
<1> QED BY <1>4, <1>5

\* The places of a list's rows are the numbers from 1 on, in the order of the
\* table.
LEMMA PlaceOrder ==
  ASSUME LInv, kind = "listed"
  PROVE  /\ \A s \in Range(answer) : Place(s) \in 1 .. Len(answer)
         /\ \A s, t \in Range(answer) : Place(s) < Place(t) <=> Spot(s) < Spot(t)
         /\ \A j \in 1 .. Len(answer) : \E i \in 1 .. Len(answer) : Place(answer[i]) = j
<1> DEFINE N == Len(answer)
           All == Range(answer)
<1>1. /\ \A t \in All : t \in Tids /\ Place(t) = Cardinality(UpTo(t))
      /\ IsFiniteSet(All) /\ Cardinality(All) <= N /\ N \in Nat /\ Cardinality(All) \in Nat
  BY AnswerFacts, FS_CardinalityType DEF Place
<1>2. \A t \in All : /\ Spot(t) \in Nat
                     /\ UpTo(t) = {u \in All : Spot(u) <= Spot(t)}
                     /\ t \in UpTo(t)
  BY <1>1, SpotOrder, UpToSpots
<1> HIDE DEF N, All
<1>3. ASSUME NEW s \in All
      PROVE  /\ IsFiniteSet(UpTo(s)) /\ Place(s) \in Nat /\ Place(s) \in 1 .. N
  <2>1. UpTo(s) \in SUBSET All /\ UpTo(s) # {}
    BY <1>2
  <2>2. IsFiniteSet(UpTo(s)) /\ Cardinality(UpTo(s)) <= Cardinality(All)
    BY <1>1, <2>1, FS_Subset
  <2>3. Cardinality(UpTo(s)) \in Nat /\ Cardinality(UpTo(s)) # 0
    BY <2>1, <2>2, FS_CardinalityType, FS_EmptySet
  <2> QED BY <1>1, <2>2, <2>3
<1>4. ASSUME NEW s \in All, NEW t \in All, Spot(s) < Spot(t) PROVE Place(s) < Place(t)
  <2>1. UpTo(s) \in SUBSET UpTo(t)
    BY <1>2, <1>4
  <2>2. t \in UpTo(t) /\ t \notin UpTo(s)
    BY <1>2, <1>4
  <2>3. Cardinality(UpTo(s)) <= Cardinality(UpTo(t)) /\ Cardinality(UpTo(s)) # Cardinality(UpTo(t))
    BY <1>3, <2>1, <2>2, FS_Subset
  <2> QED BY <1>1, <1>3, <2>3
<1>5. \A s, t \in All : Spot(s) = Spot(t) => s = t
  BY <1>1, SpotOrder
<1>6. \A s, t \in All : Place(s) < Place(t) <=> Spot(s) < Spot(t)
  BY <1>2, <1>3, <1>4, <1>5
<1>7. \A i, j \in 1 .. N : answer[i] \in All /\ (answer[i] = answer[j] => i = j)
  BY AnswerFacts DEF IsInjective, N, All
<1> DEFINE f == [i \in 1 .. N |-> Place(answer[i])]
<1>8. f \in Injection(1 .. N, 1 .. N)
  <2>1. f \in [1 .. N -> 1 .. N]
    BY <1>3, <1>7
  <2>2. ASSUME NEW i \in 1 .. N, NEW j \in 1 .. N, f[i] = f[j] PROVE i = j
    <3>1. Place(answer[i]) = Place(answer[j])
      BY <2>2
    <3>2. ~ Spot(answer[i]) < Spot(answer[j]) /\ ~ Spot(answer[j]) < Spot(answer[i])
      BY <1>3, <1>6, <1>7, <3>1
    <3>3. answer[i] = answer[j]
      BY <1>2, <1>5, <1>7, <3>2
    <3> QED BY <1>7, <3>3
  <2> QED BY <2>1, <2>2 DEF Injection, IsInjective
<1>9. f \in Surjection(1 .. N, 1 .. N)
  <2>1. 1 \in Int /\ N \in Int
    BY <1>1
  <2>2. IsFiniteSet(1 .. N)
    BY <2>1, FS_Interval
  <2> QED BY <1>8, <2>2, FS_Injection
<1>10. \A j \in 1 .. N : \E i \in 1 .. N : Place(answer[i]) = j
  <2>1. \A j \in 1 .. N : \E i \in 1 .. N : f[i] = j
    BY <1>9 DEF Surjection
  <2> QED BY <2>1
<1> QED BY <1>3, <1>6, <1>10 DEF N, All

\* The place of a row that is handed out as it is found is its number.
LEMMA PlaceFound ==
  ASSUME LInv, kind = "tidonly", NEW i \in 1 .. Len(answer)
  PROVE  Place(answer[i]) = i
<1>1. \A j \in DOMAIN answer : answer[j] = answer[i] <=> j = i
  BY AnswerFacts DEF IsInjective
<1>2. i \in DOMAIN answer /\ answer[i] = answer[i]
  BY AnswerFacts
<1>3. (CHOOSE j \in DOMAIN answer : answer[j] = answer[i]) = i
  BY <1>1, <1>2
<1>4. kind # "listed"
  OBVIOUS
<1> QED BY <1>3, <1>4 DEF Place

LEMMA PlaceNumber ==
  ASSUME LInv, NEW t \in Range(answer)
  PROVE  Place(t) \in 1 .. Len(answer) /\ Place(t) \in Nat
<1>1. Len(answer) \in Nat /\ (kind = "listed" \/ kind = "tidonly")
  BY AnswerFacts DEF LInv, TypeOK
<1>2. PICK i \in 1 .. Len(answer) : answer[i] = t
  BY AnswerFacts
<1>3. CASE kind = "listed"
  <2>1. \A s \in Range(answer) : Place(s) \in 1 .. Len(answer)
    BY <1>3, PlaceOrder
  <2>2. Place(t) \in 1 .. Len(answer)
    BY <2>1
  <2> QED BY <1>1, <2>2
<1>4. CASE kind = "tidonly"
  <2>1. Place(t) = i
    BY <1>2, <1>4, PlaceFound
  <2> QED BY <1>1, <1>2, <2>1
<1> QED BY <1>1, <1>3, <1>4

\* The places of what has been handed out.
Places(s) == [i \in DOMAIN s |-> Place(s[i].iptr)]

LEMMA PlacesSeq ==
  ASSUME NEW s \in Seq(Rows), \A i \in DOMAIN s : Place(s[i].iptr) \in Nat
  PROVE  /\ Places(s) \in Seq(Nat) /\ Len(Places(s)) = Len(s) /\ Len(s) \in Nat
         /\ DOMAIN s = 1 .. Len(s)
         /\ \A i \in 1 .. Len(s) : Places(s)[i] = Place(s[i].iptr)
         /\ Places(s) = << >> <=> s = << >>
         /\ s # << >> => Len(s) \in DOMAIN s
<1>1. Len(s) \in Nat /\ DOMAIN s = 1 .. Len(s)
  BY LenProperties
<1>2. Places(s) = [i \in 1 .. Len(s) |-> Place(s[i].iptr)]
  BY <1>1 DEF Places
<1>3. Places(s) \in [1 .. Len(s) -> Nat]
  BY <1>1, <1>2
<1>4. Places(s) \in Seq(Nat)
  BY <1>1, <1>3, SeqDef
<1>5. Len(Places(s)) = Len(s)
  BY <1>1, <1>2, <1>4, LenProperties
<1>6. Places(s) = << >> <=> s = << >>
  BY <1>1, <1>4, <1>5, EmptySeq
<1>7. s # << >> => Len(s) \in DOMAIN s
  BY <1>1, EmptySeq
<1> QED BY <1>1, <1>2, <1>4, <1>5, <1>6, <1>7

LEMMA PlacesAppend ==
  ASSUME NEW s \in Seq(Rows), NEW row \in Rows,
         \A i \in DOMAIN s : Place(s[i].iptr) \in Nat, Place(row.iptr) \in Nat
  PROVE  Places(Append(s, row)) = Append(Places(s), Place(row.iptr))
<1> DEFINE a == Append(s, row)
<1>1. /\ a \in Seq(Rows) /\ Len(s) \in Nat /\ Len(a) = Len(s) + 1
      /\ a[Len(s) + 1] = row
      /\ \A i \in 1 .. Len(s) : a[i] = s[i]
  BY AppendProperties, LenProperties
<1> HIDE DEF a
<1>2. DOMAIN a = 1 .. Len(s) + 1
  BY <1>1, LenProperties
<1>3. \A i \in 1 .. Len(s) + 1 : i \in 1 .. Len(s) \/ i = Len(s) + 1
  BY <1>1
<1>4. \A i \in DOMAIN a : Place(a[i].iptr) \in Nat
  <2>1. DOMAIN s = 1 .. Len(s)
    BY LenProperties
  <2> QED BY <1>1, <1>2, <1>3, <2>1
<1>5. /\ Places(a) \in Seq(Nat) /\ Len(Places(a)) = Len(s) + 1
      /\ \A i \in 1 .. Len(s) + 1 : Places(a)[i] = Place(a[i].iptr)
  BY <1>1, <1>4, PlacesSeq
<1> DEFINE b == Append(Places(s), Place(row.iptr))
<1>6. /\ Places(s) \in Seq(Nat) /\ Len(Places(s)) = Len(s)
      /\ \A i \in 1 .. Len(s) : Places(s)[i] = Place(s[i].iptr)
  BY PlacesSeq
<1>7. /\ b \in Seq(Nat) /\ Len(b) = Len(s) + 1
      /\ b[Len(s) + 1] = Place(row.iptr)
      /\ \A i \in 1 .. Len(s) : b[i] = Places(s)[i]
  BY <1>6, AppendProperties
<1> HIDE DEF b
<1>8. \A i \in 1 .. Len(s) + 1 : Places(a)[i] = b[i]
  BY <1>1, <1>3, <1>5, <1>6, <1>7
<1>9. Places(a) = b
  BY <1>5, <1>7, <1>8, SeqEqual
<1> QED BY <1>9 DEF a, b

\* What has been handed out has places.
LEMMA HandedPlaces ==
  ASSUME SInv
  PROVE  /\ handed \in Seq(Rows) /\ Len(handed) \in Nat /\ DOMAIN handed = 1 .. Len(handed)
         /\ \A i \in DOMAIN handed :
              /\ handed[i].iptr \in Range(answer)
              /\ Place(handed[i].iptr) \in Nat
<1>1. LInv /\ handed \in Seq(Rows) /\ Len(handed) \in Nat /\ DOMAIN handed = 1 .. Len(handed)
  BY LenProperties DEF SInv, LInv, TypeOK
<1>2. ASSUME NEW i \in DOMAIN handed
      PROVE  /\ handed[i].iptr \in Range(answer)
             /\ Place(handed[i].iptr) \in Nat
  <2>1. handed[i] \in Range(handed)
    BY DEF Range
  <2>2. PICK k \in 1 .. fetched : handed[i].iptr = answer[k]
    BY <1>1, <2>1 DEF LInv, DataInv
  <2>3. k \in 1 .. Len(answer) /\ answer[k] \in Range(answer) /\ k \in Nat
    BY <1>1, <2>2, AnswerFacts
  <2>4. Place(answer[k]) \in Nat
    BY <1>1, <2>3, PlaceNumber
  <2> QED BY <2>2, <2>3, <2>4
<1> QED BY <1>1, <1>2

\* The place of the last row handed out, 0 before the first.
LEMMA LastPlace ==
  ASSUME SInv
  PROVE  /\ handed = << >> => Scan!Last = 0
         /\ handed # << >> =>
              /\ Len(handed) \in DOMAIN handed
              /\ Scan!Last = Place(handed[Len(handed)].iptr)
         /\ Scan!Last \in Nat
<1>1. /\ Places(handed) = [i \in DOMAIN handed |-> Place(handed[i].iptr)]
      /\ handed \in Seq(Rows) /\ \A i \in DOMAIN handed : Place(handed[i].iptr) \in Nat
  BY HandedPlaces DEF Places
<1>2. Scan!Last = IF Places(handed) = << >> THEN 0 ELSE Places(handed)[Len(Places(handed))]
  BY <1>1 DEF Scan!Last
<1>3. /\ Len(Places(handed)) = Len(handed) /\ DOMAIN handed = 1 .. Len(handed)
      /\ \A i \in 1 .. Len(handed) : Places(handed)[i] = Place(handed[i].iptr)
      /\ Places(handed) = << >> <=> handed = << >>
      /\ handed # << >> => Len(handed) \in DOMAIN handed
  BY <1>1, PlacesSeq
<1> QED BY <1>1, <1>2, <1>3

\* A row handed out is a step of the scan if it follows the last one and no place
\* is left out between them.
LEMMA HandOut ==
  ASSUME SInv, UNCHANGED query, pc # "done", pc' # "done",
         NEW row \in Rows, handed' = Append(handed, row),
         Place(row.iptr) \in 1 .. Len(answer), Place(row.iptr) > Scan!Last,
         \A j \in 1 .. Len(answer) : ~ (Scan!Last < j /\ j < Place(row.iptr))
  PROVE  Scan!Next
<1>1. kind' = kind /\ answer' = answer
  BY DEF query
<1>2. /\ handed \in Seq(Rows) /\ \A i \in DOMAIN handed : Place(handed[i].iptr) \in Nat
      /\ DOMAIN answer = 1 .. Len(answer) /\ Len(answer) \in Nat
      /\ Place(row.iptr) \in Nat
  BY HandedPlaces, AnswerFacts DEF SInv
<1>3. \A t : Place(t)' = Place(t)
  BY <1>1 DEF Place, UpTo, Block
<1>4. ([i \in DOMAIN handed |-> Place(handed[i].iptr)])' = Places(handed')
  BY <1>3 DEF Places
<1>5. Places(handed') = Append(Places(handed), Place(row.iptr))
  BY <1>2, PlacesAppend
<1>6. Scan!Return(Place(row.iptr))
  BY <1>1, <1>2, <1>4, <1>5 DEF Scan!Return, Places
<1> QED BY <1>6 DEF Scan!Next

LEMMA FetchRowScans == ASSUME SInv, FetchRow PROVE Scan!Next
<1> DEFINE row == [iptr |-> answer[fetched'], coords |-> Corner]
<1>1. /\ Found /\ UNCHANGED query /\ kind = "tidonly" /\ pc = "scan" /\ pc' = "row"
      /\ handed' = Append(handed, row)
  BY DEF FetchRow, Found
<1>2. LInv /\ HandedInv
  BY DEF SInv
<1>3. /\ fetched \in Nat /\ fetched' = fetched + 1 /\ fetched' \in 1 .. Len(answer)
      /\ answer[fetched'] \in Tids
  BY <1>1, <1>2, FoundL
<1>4. row \in Rows /\ row.iptr = answer[fetched']
  BY <1>3 DEF Rows
<1>5. Place(row.iptr) = fetched + 1
  BY <1>1, <1>2, <1>3, <1>4, PlaceFound
<1> HIDE DEF row
<1>6. Len(handed) = fetched /\ \A i \in 1 .. fetched : handed[i].iptr = answer[i]
  BY <1>1, <1>2 DEF HandedInv
<1>7. Scan!Last = fetched
  <2>1. CASE handed = << >>
    BY <1>6, <2>1, LastPlace
  <2>2. CASE handed # << >>
    <3>1. fetched \in 1 .. fetched /\ fetched \in 1 .. Len(answer)
      BY <1>3, <1>6, <2>2, HandedPlaces, LastPlace
    <3> QED BY <1>1, <1>2, <1>6, <2>2, <3>1, LastPlace, PlaceFound
  <2> QED BY <2>1, <2>2
<1>8. \A j \in 1 .. Len(answer) : ~ (fetched < j /\ j < fetched + 1)
  BY <1>3
<1> QED BY <1>1, <1>3, <1>4, <1>5, <1>7, <1>8, HandOut

\* The rows of a list, their nodes and their places.
LEMMA ListPlaces ==
  ASSUME SInv, kind = "listed", pc \in {"emit", "row", "closing", "done"}
  PROVE  /\ \A n \in Listed : data[n].iptr \in Range(answer)
         /\ \A j \in 1 .. Len(answer) : \E n \in Listed : Place(data[n].iptr) = j
         /\ \A n \in Listed :
              cur = Null \/ Before(n, cur) <=>
                handed # << >> /\ Place(data[n].iptr) <= Scan!Last
<1>1. LInv /\ HandedInv /\ Len(data) = fetched /\ fetched = Len(answer)
  BY DEF SInv, LInv, TypeOK, HandedInv
<1>2. /\ Listed = 1 .. Len(answer)
      /\ \A n \in Listed : data[n].iptr = answer[n] /\ answer[n] \in Range(answer)
  BY <1>1, NodeRows, AnswerFacts DEF Listed
<1>3. \A j \in 1 .. Len(answer) : \E n \in Listed : Place(data[n].iptr) = j
  BY <1>1, <1>2, PlaceOrder
<1>4. ASSUME NEW n \in Listed, handed # << >>
      PROVE  res_item_compare_proc(data[n], handed[Len(handed)]) <= 0
               <=> Place(data[n].iptr) <= Scan!Last
  <2> DEFINE s == data[n].iptr
             t == handed[Len(handed)].iptr
  <2>1. s \in Range(answer) /\ t \in Range(answer) /\ Scan!Last = Place(t)
    BY <1>2, <1>4, HandedPlaces, LastPlace
  <2>2. s \in Tids /\ t \in Tids
    BY <1>1, <2>1, AnswerFacts
  <2>3. res_item_compare_proc(data[n], handed[Len(handed)]) <= 0 <=> Spot(s) <= Spot(t)
    BY <2>2, CompareSpots
  <2> HIDE DEF s, t
  <2>4. Place(t) < Place(s) <=> Spot(t) < Spot(s)
    BY <1>1, <2>1, PlaceOrder
  <2>5. Spot(s) \in Nat /\ Spot(t) \in Nat /\ Place(s) \in Nat /\ Place(t) \in Nat
    BY <1>1, <2>1, <2>2, SpotOrder, PlaceNumber
  <2>6. Spot(s) <= Spot(t) <=> Place(s) <= Place(t)
    BY <2>4, <2>5
  <2> QED BY <2>1, <2>3, <2>6 DEF s
<1>5. \A n \in Listed :
        cur = Null \/ Before(n, cur) <=>
          handed # << >> /\ res_item_compare_proc(data[n], handed[Len(handed)]) <= 0
  BY <1>1 DEF HandedInv
<1> QED BY <1>2, <1>3, <1>4, <1>5

LEMMA EmitScans == ASSUME SInv, Emit PROVE Scan!Next
<1>1. /\ UNCHANGED query /\ pc = "emit" /\ pc' = "row" /\ cur # Null
      /\ handed' = Append(handed, data[cur])
  BY DEF Emit
<1>2. LInv /\ kind = "listed"
  BY <1>1 DEF SInv, LInv, HeldInv
<1>3. cur \in Listed /\ data[cur] \in Rows
  <2>1. cur \in 0 .. Len(data)
    BY <1>2 DEF LInv, LinkInv
  <2>2. cur \in Listed
    BY <1>1, <1>2, <2>1, SortFacts DEF Listed, Null
  <2> QED BY <1>2, <2>2, SortFacts DEF Listed
<1> DEFINE i == Place(data[cur].iptr)
<1>4. /\ i \in 1 .. Len(answer)
      /\ \A n \in Listed : /\ data[n].iptr \in Range(answer)
                           /\ cur = Null \/ Before(n, cur) <=>
                                handed # << >> /\ Place(data[n].iptr) <= Scan!Last
      /\ \A j \in 1 .. Len(answer) : \E n \in Listed : Place(data[n].iptr) = j
  BY <1>1, <1>2, <1>3, ListPlaces, PlaceOrder
<1>5. ASSUME NEW n \in Listed PROVE Before(n, cur) <=> Place(data[n].iptr) < i
  <2>1. /\ Before(n, cur) <=> At(n) < At(cur)
        /\ data[n].iptr \in Range(answer) /\ data[cur].iptr \in Range(answer)
    BY <1>2, <1>3, <1>4, NodeOrder
  <2> QED BY <1>2, <2>1, PlaceOrder DEF At
<1>6. Scan!Last \in Nat /\ i \in Nat /\ (handed = << >> => Scan!Last = 0)
  BY <1>4, LastPlace
<1> HIDE DEF i
<1>7. i > Scan!Last
  <2>1. ~ Before(cur, cur)
    BY <1>3, <1>5, <1>6 DEF i
  <2>2. ~ (handed # << >> /\ i <= Scan!Last)
    BY <1>1, <1>3, <1>4, <2>1 DEF i
  <2> QED BY <1>4, <1>6, <2>2
<1>8. ASSUME NEW j \in 1 .. Len(answer), Scan!Last < j, j < i PROVE FALSE
  <2>1. PICK n \in Listed : Place(data[n].iptr) = j
    BY <1>4
  <2>2. Place(data[n].iptr) <= Scan!Last
    BY <1>4, <1>5, <1>8, <2>1
  <2> QED BY <1>6, <1>8, <2>1, <2>2
<1> QED BY <1>1, <1>3, <1>4, <1>7, <1>8, HandOut DEF i

\* The lookup ends when everything has been handed out.
LEMMA CloseScans == ASSUME SInv, CloseQuery PROVE Scan!Next
<1>1. /\ UNCHANGED <<query, handed>> /\ pc = "closing" /\ pc' = "done"
  BY DEF CloseQuery
<1>2. /\ LInv /\ HandedInv /\ fetched = Len(answer) /\ kind \in {"tidonly", "listed"}
      /\ DOMAIN answer = 1 .. Len(answer) /\ Len(answer) \in Nat
  BY <1>1, AnswerFacts DEF SInv, LInv, TypeOK, HandedInv
<1>3. ASSUME NEW j \in 1 .. Len(answer) PROVE j <= Scan!Last
  <2>1. CASE kind = "listed"
    <3>1. PICK n \in Listed : Place(data[n].iptr) = j
      BY <1>1, <2>1, ListPlaces
    <3>2. cur = Null
      BY <1>1, <1>2, <2>1 DEF HandedInv
    <3> QED BY <1>1, <2>1, <3>1, <3>2, ListPlaces
  <2>2. CASE kind = "tidonly"
    <3>1. Len(handed) = Len(answer) /\ \A i \in 1 .. Len(answer) : handed[i].iptr = answer[i]
      BY <1>2, <2>2 DEF HandedInv
    <3>2. handed # << >> /\ Len(answer) \in 1 .. Len(answer)
      BY <1>2, <3>1
    <3>3. Scan!Last = Len(answer)
      BY <1>2, <2>2, <3>1, <3>2, LastPlace, PlaceFound
    <3> QED BY <1>2, <3>3
  <2> QED BY <1>2, <2>1, <2>2
<1>4. kind' = kind /\ answer' = answer /\ handed' = handed
  BY <1>1 DEF query
<1>5. ([i \in DOMAIN handed |-> Place(handed[i].iptr)])' = [i \in DOMAIN handed |-> Place(handed[i].iptr)]
  BY <1>4 DEF Place, UpTo, Block
<1>6. Scan!Finish
  BY <1>1, <1>2, <1>3, <1>4, <1>5 DEF Scan!Finish
<1> QED BY <1>6 DEF Scan!Next

LEMMA ScanStays ==
  ASSUME UNCHANGED <<query, handed>>, (pc' = "done") = (pc = "done")
  PROVE  UNCHANGED Scan!vars
<1>1. kind' = kind /\ answer' = answer /\ handed' = handed
  BY DEF query
<1>2. ([i \in DOMAIN handed |-> Place(handed[i].iptr)])' = [i \in DOMAIN handed |-> Place(handed[i].iptr)]
  BY <1>1 DEF Place, UpTo, Block
<1> QED BY <1>1, <1>2 DEF Scan!vars

LEMMA ScanStarts == ASSUME SInv, Init PROVE Scan!Init
<1>1. handed = << >> /\ pc = "idle"
  BY DEF Init
<1>2. DOMAIN answer = 1 .. Len(answer) /\ Len(answer) \in Nat
  BY AnswerFacts DEF SInv
<1>3. Places(handed) = << >>
  BY <1>1, HandedPlaces, PlacesSeq
<1> QED BY <1>1, <1>2, <1>3 DEF Scan!Init, Places

\* Both kinds of lookup hand out all of the automaton's rows, each once and in
\* their order, those of a list in the order of the table, and end only then.
THEOREM LookupScans == Spec => ImplementsScan
<1>1. SInv /\ Init => Scan!Init
  BY ScanStarts
<1>2. SInv /\ [Next]_vars => [Scan!Next]_Scan!vars
  <2> SUFFICES ASSUME SInv, [Next]_vars PROVE [Scan!Next]_Scan!vars
    OBVIOUS
  <2>1. CASE FetchRow \/ Emit \/ CloseQuery
    BY <2>1, FetchRowScans, EmitScans, CloseScans
  <2>2. CASE ~ (FetchRow \/ Emit \/ CloseQuery)
    <3>1. UNCHANGED <<query, handed>> /\ (pc' = "done") = (pc = "done")
      BY <2>2 DEF Next, Run, FetchItem, Found, NoRow, Exhausted, StartSort, Sort, Sorted,
                  EmitNothing, CloseIndex, FirstCall, NextCall, Stop, Abort,
                  WriterComes, WriterGets, vars
    <3> QED BY <3>1, ScanStays
  <2> QED BY <2>1, <2>2
<1> QED BY <1>1, <1>2, SortInvariance, PTL DEF Spec, ImplementsScan, Scan!Spec
====
