---- MODULE LookupProofs ----
(***************************************************************************)
(* Proofs about the set-returning functions, for any rows, any order of    *)
(* them and any size of the stack of runs.                                 *)
(***************************************************************************)
EXTENDS LookupInv, WellFoundedInduction, TLAPS

Levels == 1 .. 2 * MaxSortStack

----------------------------------------------------------------------------
(* Sizes of runs.                                                          *)

LEMMA LeastOne ==
  ASSUME NEW T \in SUBSET Nat, T # {}
  PROVE  \E t \in T : \A s \in T : t <= s
<1>1. PICK t \in T : \A s \in T : ~ (<<s, t>> \in OpToRel(<, Nat))
  BY WFMin, NatLessThanWellFounded
<1>2. ASSUME NEW s \in T PROVE t <= s
  <2>1. s \in Nat /\ t \in Nat
    BY <1>1
  <2>2. ~ (<<s, t>> \in OpToRel(<, Nat))
    BY <1>1
  <2>3. ~ (s < t)
    BY <2>1, <2>2 DEF OpToRel
  <2> QED BY <2>1, <2>3
<1> QED BY <1>2

LEMMA RunSizeDoubles ==
  /\ MaxSortStack \in Nat /\ MaxSortStack > 1 /\ RunSize[1] = 1
  /\ \A l \in Levels : RunSize[l] \in Nat /\ l \in Nat /\ l > 0
  /\ \A l \in Levels : l + 1 \in Levels => RunSize[l + 1] = 2 * RunSize[l]
<1>1. MaxSortStack \in Nat /\ MaxSortStack > 1 /\ RunSize[1] = 1
  BY RunSizeAssumption, SizesAssumption
<1>2. \A l \in Levels : RunSize[l] \in Nat /\ l \in Nat /\ l > 0
  BY RunSizeAssumption DEF Levels
<1>3. ASSUME NEW l \in Levels, l + 1 \in Levels
      PROVE  RunSize[l + 1] = 2 * RunSize[l]
  <2>1. l \in 1 .. 2 * MaxSortStack - 1
    BY <1>1, <1>3 DEF Levels
  <2> QED BY <2>1, RunSizeAssumption
<1> QED BY <1>1, <1>2, <1>3

LEMMA RunSizeAscends ==
  ASSUME NEW c \in Levels, NEW a \in Levels, a >= c
  PROVE  RunSize[a] >= RunSize[c]
<1> DEFINE Bad == {b \in Levels : b >= c /\ ~ (RunSize[b] >= RunSize[c])}
<1> SUFFICES ASSUME Bad # {} PROVE FALSE
  OBVIOUS
<1>1. Bad \subseteq Nat
  BY DEF Levels
<1>2. PICK b \in Bad : \A e \in Bad : b <= e
  <2> HIDE DEF Bad
  <2> QED BY <1>1, LeastOne
<1>3. /\ b \in Levels /\ b \in Nat /\ c \in Nat /\ b >= c /\ c > 0
      /\ RunSize[b] \in Nat /\ RunSize[c] \in Nat /\ RunSize[b] < RunSize[c]
  BY RunSizeDoubles
<1>4. b # c
  BY <1>3
<1>5. b - 1 \in Levels /\ b - 1 >= c /\ (b - 1) + 1 = b /\ b - 1 < b
  BY <1>3, <1>4, RunSizeDoubles DEF Levels
<1>6. b - 1 \notin Bad
  BY <1>2, <1>3, <1>5
<1>7. RunSize[b - 1] >= RunSize[c]
  BY <1>5, <1>6
<1>8. RunSize[b] = 2 * RunSize[b - 1] /\ RunSize[b - 1] \in Nat
  BY <1>3, <1>5, RunSizeDoubles
<1> QED BY <1>3, <1>7, <1>8

\* Runs k levels higher than a are longer than those of level a, and by more
\* the higher a is.
LEMMA RunSizeSpreads ==
  ASSUME NEW c \in Levels, NEW a \in Levels, a >= c,
         NEW k \in Nat, a + k \in Levels
  PROVE  RunSize[a + k] - RunSize[a] >= RunSize[c + k] - RunSize[c]
<1> DEFINE
    Good(b) == RunSize[b + k] - RunSize[b] >= RunSize[c + k] - RunSize[c]
    Bad == {b \in Levels : b >= c /\ b + k \in Levels /\ ~ Good(b)}
<1> SUFFICES ASSUME Bad # {} PROVE FALSE
  OBVIOUS
<1>1. Bad \subseteq Nat
  BY DEF Levels
<1>2. PICK b \in Bad : \A e \in Bad : b <= e
  <2> HIDE DEF Bad
  <2> QED BY <1>1, LeastOne
<1>3. /\ b \in Levels /\ b \in Nat /\ c \in Nat /\ b >= c /\ c > 0
      /\ b + k \in Levels /\ ~ Good(b)
  BY RunSizeDoubles
<1>4. c + k \in Levels /\ RunSize[c + k] \in Nat /\ RunSize[c] \in Nat
  BY <1>3, RunSizeDoubles DEF Levels
<1>5. b # c
  BY <1>3, <1>4
<1>6. /\ b - 1 \in Levels /\ b - 1 >= c /\ (b - 1) + 1 = b /\ b - 1 < b
      /\ (b - 1) + k \in Levels /\ ((b - 1) + k) + 1 = b + k
  BY <1>3, <1>5, RunSizeDoubles DEF Levels
<1>7. Good(b - 1)
  BY <1>2, <1>3, <1>6
<1>8. /\ RunSize[b] = 2 * RunSize[b - 1] /\ RunSize[b - 1] \in Nat
      /\ RunSize[b + k] = 2 * RunSize[(b - 1) + k]
      /\ RunSize[(b - 1) + k] \in Nat
  BY <1>3, <1>6, RunSizeDoubles
<1>9. RunSize[(b - 1) + k] >= RunSize[b - 1]
  BY <1>6, RunSizeAscends, RunSizeDoubles DEF Levels
<1> QED BY <1>3, <1>4, <1>7, <1>8, <1>9

----------------------------------------------------------------------------
(* What the actions leave alone.                                           *)

LEMMA SortFrame ==
  ASSUME SortInv, RunInv, StackFits, UNCHANGED <<data, links>>
  PROVE  SortInv' /\ RunInv' /\ StackFits'
<1>1. /\ next' = next /\ sorting' = sorting /\ p' = p /\ stack' = stack
      /\ p1' = p1 /\ p2' = p2 /\ pcur_item' = pcur_item /\ res' = res /\ data' = data
  BY DEF links, stk
<1>2. SortInv'
  BY <1>1 DEF SortInv, MustMerge
<1>3. RunInv'
  BY <1>1 DEF RunInv, After, Listed
<1>4. StackFits'
  BY <1>1 DEF StackFits
<1> QED BY <1>2, <1>3, <1>4

LEMMA DataFrame ==
  ASSUME DataInv, UNCHANGED <<query, rows, handed>>
  PROVE  DataInv'
<1>1. /\ kind' = kind /\ answer' = answer /\ fetched' = fetched /\ coords' = coords
      /\ data' = data /\ handed' = handed
  BY DEF query, rows
<1>2. \A i : Reported(i)' = Reported(i)
  BY <1>1 DEF Reported
<1>3. (Reported(fetched))' = Reported(fetched)
  BY <1>1 DEF Reported
<1> QED BY <1>1, <1>2, <1>3 DEF DataInv, Listed

LEMMA LinkFrame ==
  ASSUME LinkInv, UNCHANGED <<data, links, list, cur>>,
         pc' = pc \/ pc' \notin {"idle", "scan"}
  PROVE  LinkInv'
BY DEF LinkInv, Listed, links, stk

\* Types that only the sort changes.
LEMMA TypeFrame ==
  ASSUME TypeOK, UNCHANGED <<query, links>>,
         pc' = pc \/ (pc # "sort" /\ pc' # "sort"),
         pc' \in {"idle", "scan", "sort", "emit", "row", "closing",
                  "done", "stopped", "aborted"},
         fetched' \in 0 .. Len(answer), coords' \in Tids \cup {Corner},
         relation' \in BOOLEAN, page' \in 0 .. Pages, waits' \in 0 .. Pages,
         data' \in Seq(Rows), Len(data') = IF kind = "listed" THEN fetched' ELSE 0,
         handed' \in Seq(Rows), {list', cur'} \subseteq Node \cup {Null}
  PROVE  TypeOK'
BY DEF TypeOK, links, stk, query

----------------------------------------------------------------------------
LEMMA InitL == ASSUME Init PROVE LInv
<1>1. /\ answer \in Answers /\ answer \in Seq(Tids) /\ Len(answer) \in Nat
      /\ MaxSortStack \in Nat /\ MaxSortStack > 1 /\ Pages \in Nat
      /\ fetched = 0 /\ data = << >> /\ handed = << >> /\ stack = << >>
  BY AnswersAssumption, SizesAssumption DEF Init
<1>2. TypeOK
  <2>1. next \in [Node -> Node \cup {Null}]
    BY DEF Init
  <2>2. data \in Seq(Rows) /\ handed \in Seq(Rows) /\ stack \in Seq(Runs) /\ Len(data) = 0
    BY <1>1
  <2>3. {list, cur, p, p1, p2, pcur_item, res} \subseteq Node \cup {Null}
    BY DEF Init
  <2>4. page \in 0 .. Pages /\ waits \in 0 .. Pages /\ fetched \in 0 .. Len(answer)
    BY <1>1 DEF Init, NoPage
  <2>5. /\ kind \in {"tidonly", "listed"} /\ pc = "idle" /\ sorting = "off"
        /\ coords \in Tids \cup {Corner} /\ relation \in BOOLEAN
    BY DEF Init
  <2> QED BY <1>1, <2>1, <2>2, <2>3, <2>4, <2>5 DEF TypeOK
<1>3. HeldInv
  BY DEF Init, HeldInv
<1>4. DataInv
  <2>1. Reported(0) = Corner
    BY DEF Reported
  <2>2. DOMAIN data = {} /\ Range(handed) = {} /\ Len(data) = 0
    BY <1>1 DEF Range
  <2> QED BY <1>1, <2>1, <2>2 DEF Init, DataInv, Listed
<1>5. LinkInv
  BY <1>1 DEF Init, LinkInv, Null, Listed
<1>6. SortInv /\ RunInv /\ StackFits
  BY <1>1 DEF Init, SortInv, RunInv, StackFits
<1> QED BY <1>2, <1>3, <1>4, <1>5, <1>6 DEF LInv

LEMMA FirstCallL == ASSUME LInv, FirstCall PROVE LInv'
<1> USE DEF LInv
<1>1. TypeOK'
  BY TypeFrame DEF FirstCall, TypeOK, held, rows, links, stk, query
<1>2. HeldInv'
  BY DEF FirstCall, HeldInv, query, NoPage
<1>3. DataInv' /\ SortInv' /\ RunInv' /\ StackFits'
  BY DataFrame, SortFrame DEF FirstCall, rows
<1>4. LinkInv'
  BY DEF FirstCall, LinkInv, links, stk, rows, Listed, Null
<1> QED BY <1>1, <1>2, <1>3, <1>4

\* Steps that move on between calls or end the lookup, and other backends' steps.
Ending ==
  NoRow \/ EmitNothing \/ CloseIndex \/ CloseQuery \/ Stop \/ Abort
    \/ WriterComes \/ WriterGets \/ UNCHANGED vars

LEMMA EndingL == ASSUME LInv, Ending PROVE LInv'
<1> USE DEF LInv
<1>1. /\ UNCHANGED <<query, rows, handed, links>>
      /\ pc' = pc \/ (pc # "sort" /\ pc' \in {"closing", "done", "stopped", "aborted"})
      /\ \/ UNCHANGED <<list, cur>>
         \/ list' = Null /\ cur' = Null /\ pc' = "closing"
  BY DEF Ending, NoRow, Exhausted, EmitNothing, CloseIndex, CloseQuery, Stop, Abort,
         WriterComes, WriterGets, vars, held
<1>2. TypeOK'
  <2>1. relation' \in BOOLEAN /\ page' \in 0 .. Pages /\ waits' \in 0 .. Pages
    <3>1. /\ relation \in BOOLEAN /\ page \in 0 .. Pages /\ waits \in 0 .. Pages
          /\ NoPage \in 0 .. Pages /\ 1 .. Pages \subseteq 0 .. Pages
      BY SizesAssumption DEF TypeOK, NoPage
    <3> QED BY <3>1 DEF Ending, NoRow, Exhausted, EmitNothing, CloseIndex, CloseQuery,
              Stop, Abort, WriterComes, WriterGets, vars, held
  <2> QED BY <1>1, <2>1, TypeFrame DEF TypeOK, rows, query
<1>3. HeldInv'
  BY DEF Ending, NoRow, Exhausted, EmitNothing, CloseIndex, CloseQuery, Stop, Abort,
         WriterComes, WriterGets, vars, held, query, HeldInv
<1>4. DataInv' /\ SortInv' /\ RunInv' /\ StackFits'
  BY <1>1, DataFrame, SortFrame DEF rows
<1>5. LinkInv'
  <2>1. data \in Seq(Rows) /\ Len(data) \in Nat
    BY DEF TypeOK
  <2> QED BY <1>1, <2>1 DEF LinkInv, Listed, links, stk, rows, Null
<1> QED BY <1>2, <1>3, <1>4, <1>5

LEMMA NextCallL == ASSUME LInv, NextCall PROVE LInv'
<1> USE DEF LInv
<1>1. TypeOK'
  BY TypeFrame DEF NextCall, TypeOK, held, rows, links, stk, query
<1>2. HeldInv'
  BY DEF NextCall, HeldInv, query, held, TypeOK
<1>3. DataInv' /\ SortInv' /\ RunInv' /\ StackFits'
  BY DataFrame, SortFrame DEF NextCall, rows
<1>4. LinkInv'
  <2>1. kind = "tidonly" => Len(data) = 0 /\ Listed = {} /\ list = 0
    BY DEF TypeOK, LinkInv, Listed
  <2> QED BY <2>1 DEF NextCall, LinkInv, links, stk, rows, Listed, Null
<1> QED BY <1>1, <1>2, <1>3, <1>4

----------------------------------------------------------------------------
(* Rows: fetched, put on the list, handed out.                             *)

\* A decoded row is reported with its own coordinates, a solid one with those
\* reported before.
LEMMA ReportedNext ==
  ASSUME NEW i \in Nat
  PROVE  Reported(i + 1) = IF answer[i + 1] \in Solid THEN Reported(i)
                           ELSE answer[i + 1]
<1> DEFINE D(n) == {j \in 1 .. n : answer[j] \notin Solid}
<1> DEFINE last(S) == IF S = {} THEN Corner
                      ELSE answer[CHOOSE j \in S : \A k \in S : k <= j]
<1>0. \A n : Reported(n) = last(D(n))
  BY DEF Reported
<1>1. CASE answer[i + 1] \in Solid
  <2>1. D(i + 1) = D(i)
    BY <1>1
  <2> HIDE DEF last, D
  <2> QED BY <1>0, <1>1, <2>1
<1>2. CASE answer[i + 1] \notin Solid
  <2>1. i + 1 \in D(i + 1) /\ \A k \in D(i + 1) : k <= i + 1
    BY <1>2
  <2>2. \A j \in D(i + 1) : (\A k \in D(i + 1) : k <= j) => j = i + 1
    BY <2>1
  <2>3. i + 1 = CHOOSE j \in D(i + 1) : \A k \in D(i + 1) : k <= j
    <3> HIDE DEF D
    <3> QED BY <2>1, <2>2
  <2> QED BY <1>2, <2>1, <2>3 DEF Reported
<1> QED BY <1>1, <1>2

\* What a fetch does, whatever becomes of the row.
LEMMA FoundL ==
  ASSUME LInv, Found, UNCHANGED query
  PROVE  /\ fetched \in Nat /\ fetched' = fetched + 1 /\ fetched' \in 1 .. Len(answer)
         /\ answer[fetched'] \in Tids
         /\ page' \in 0 .. Pages /\ page' # NoPage
         /\ \A i : Reported(i)' = Reported(i)
<1> USE DEF LInv
<1>1. /\ fetched \in Nat /\ fetched' = fetched + 1 /\ fetched' \in 1 .. Len(answer)
      /\ answer \in Seq(Tids) /\ answer' = answer
  BY DEF Found, TypeOK, query
<1>2. answer[fetched'] \in Tids
  BY <1>1
<1>3. page' \in 0 .. Pages /\ page' # NoPage
  BY SizesAssumption DEF Found, TypeOK, NoPage
<1>4. \A i : Reported(i)' = Reported(i)
  BY <1>1 DEF Reported
<1> QED BY <1>1, <1>2, <1>3, <1>4

LEMMA FetchRowL == ASSUME LInv, FetchRow PROVE LInv'
<1> USE DEF LInv
<1> DEFINE row == [iptr |-> answer[fetched'], coords |-> Corner]
<1>1. Found /\ UNCHANGED <<query, relation, coords, data, list, cur, waits, links>>
      /\ kind = "tidonly" /\ pc = "scan" /\ pc' = "row" /\ handed' = Append(handed, row)
  BY DEF FetchRow, Found
<1>2. /\ fetched \in Nat /\ fetched' = fetched + 1 /\ fetched' \in 1 .. Len(answer)
      /\ page' \in 0 .. Pages /\ row \in Rows /\ \A i : Reported(i)' = Reported(i)
      /\ row.iptr = answer[fetched']
  BY <1>1, FoundL DEF Rows
<1> HIDE DEF row
<1>3. handed \in Seq(Rows) /\ handed' \in Seq(Rows) /\ data \in Seq(Rows)
  BY <1>1, <1>2 DEF TypeOK
<1>4. TypeOK'
  BY <1>1, <1>2, <1>3, TypeFrame DEF TypeOK, query
<1>5. HeldInv'
  BY <1>1 DEF HeldInv, query
<1>6. DataInv'
  <2>1. \A n \in Listed : data'[n] = [iptr |-> answer'[n], coords |-> Reported(n)]
    BY <1>1 DEF DataInv, query
  <2>2. ASSUME NEW h \in Range(handed')
        PROVE  \E i \in 1 .. fetched' : h.iptr = answer'[i]
    <3>1. h \in Range(handed) \/ h = row
      BY <1>1, <1>3 DEF Range
    <3>2. row.iptr = answer'[fetched']
      BY <1>1, <1>2 DEF query
    <3>3. fetched' \in 1 .. fetched' /\ 1 .. fetched \subseteq 1 .. fetched'
      BY <1>2
    <3>4. CASE h \in Range(handed)
      BY <1>1, <3>3, <3>4 DEF DataInv, query
    <3> QED BY <3>1, <3>2, <3>3, <3>4
  <2> QED BY <1>1, <1>2, <2>1, <2>2 DEF DataInv, query, Listed
<1>7. LinkInv'
  BY <1>1, LinkFrame
<1>8. SortInv' /\ RunInv' /\ StackFits'
  BY <1>1, SortFrame
<1> QED BY <1>4, <1>5, <1>6, <1>7, <1>8

LEMMA FetchItemL == ASSUME LInv, FetchItem PROVE LInv'
<1> USE DEF LInv
<1>1. Found /\ UNCHANGED <<query, relation, pc, cur, handed, waits, stk>>
      /\ kind = "listed" /\ pc = "scan" /\ data' = Append(data, Item)
      /\ next' = [next EXCEPT ![Len(data')] = list] /\ list' = Len(data')
  BY DEF FetchItem, Found
<1>2. /\ fetched \in Nat /\ fetched' = fetched + 1 /\ fetched' \in 1 .. Len(answer)
      /\ coords' = Reported(fetched') /\ coords' \in Tids \cup {Corner}
      /\ page' \in 0 .. Pages /\ Item \in Rows /\ \A i : Reported(i)' = Reported(i)
  <2>1. /\ fetched \in Nat /\ fetched' = fetched + 1 /\ fetched' \in 1 .. Len(answer)
        /\ answer[fetched'] \in Tids /\ page' \in 0 .. Pages
        /\ \A i : Reported(i)' = Reported(i)
    BY <1>1, FoundL
  <2>2. coords = Reported(fetched) /\ coords \in Tids \cup {Corner}
    BY <1>1 DEF DataInv, TypeOK
  <2>3. coords' = IF answer[fetched'] \in Solid THEN coords ELSE answer[fetched']
    BY DEF FetchItem
  <2>4. coords' = Reported(fetched')
    BY <2>1, <2>2, <2>3, ReportedNext
  <2> QED BY <2>1, <2>2, <2>3, <2>4 DEF Item, Rows
<1>3. /\ data \in Seq(Rows) /\ Len(data) = fetched /\ sorting = "off" /\ answer \in Answers
      /\ next \in [Node -> Node \cup {Null}] /\ list = Len(data)
      /\ \A n \in Listed : next[n] = n - 1
  BY <1>1 DEF TypeOK, LinkInv, DataInv
<1>4. data' \in Seq(Rows) /\ Len(data') = fetched' /\ fetched' \in Node /\ Len(data) \in Nat
  <2>1. fetched' <= MaxRows /\ MaxRows \in Nat /\ Len(answer) \in Nat
    BY <1>2, <1>3, AnswersAssumption, SizesAssumption DEF TypeOK
  <2> QED BY <1>1, <1>2, <1>3, <2>1 DEF Node
<1>5. /\ answer' = answer /\ kind' = kind /\ sorting' = "off" /\ stack' = stack
      /\ handed' = handed
      /\ {cur', p', p1', p2', pcur_item', res'} = {cur, p, p1, p2, pcur_item, res}
      /\ cur' = cur /\ p' = p /\ p1' = p1 /\ p2' = p2 /\ pcur_item' = pcur_item /\ res' = res
  BY <1>1, <1>3 DEF query, stk
<1>6. TypeOK'
  <2>1. next' \in [Node -> Node \cup {Null}]
    BY <1>1, <1>3, <1>4 DEF TypeOK
  <2>2. {list', cur', p', p1', p2', pcur_item', res'} \subseteq Node \cup {Null}
    BY <1>1, <1>4, <1>5 DEF TypeOK
  <2> QED BY <1>1, <1>2, <1>4, <1>5, <2>1, <2>2 DEF TypeOK, query
<1>7. HeldInv'
  BY <1>1, <1>5 DEF HeldInv
<1>8. DataInv'
  <2>1. ASSUME NEW n \in Listed'
        PROVE  data'[n] = [iptr |-> answer[n], coords |-> Reported(n)]
    <3>1. CASE n = fetched'
      BY <1>1, <1>2, <1>3, <1>4, <3>1 DEF Item
    <3>2. CASE n # fetched'
      <4>1. n \in Listed /\ data'[n] = data[n]
        BY <1>1, <1>2, <1>3, <1>4, <3>2 DEF Listed
      <4> QED BY <4>1 DEF DataInv
    <3> QED BY <3>1, <3>2
  <2>2. ASSUME NEW h \in Range(handed)
        PROVE  \E i \in 1 .. fetched' : h.iptr = answer[i] /\ h.coords = Reported(i)
    <3>1. 1 .. fetched \subseteq 1 .. fetched'
      BY <1>2
    <3> QED BY <1>1, <3>1 DEF DataInv
  <2>3. coords' = (Reported(fetched))' /\ answer' \in Answers
    BY <1>2, <1>3, <1>5 DEF Reported
  <2> QED BY <1>2, <1>5, <2>1, <2>2, <2>3 DEF DataInv
<1>9. LinkInv'
  <2>1. \A n \in Node : next'[n] = IF n = fetched' THEN fetched ELSE next[n]
    BY <1>1, <1>3, <1>4
  <2>2. 0 .. Len(data) \subseteq 0 .. Len(data') /\ Listed \subseteq Listed'
    BY <1>2, <1>3, <1>4 DEF Listed
  <2>3. \A n \in Node : next'[n] \in 0 .. Len(data')
    BY <1>2, <1>3, <1>4, <2>1, <2>2 DEF LinkInv
  <2>4. ASSUME NEW n \in Node, n > Len(data') PROVE next'[n] = Null
    <3>1. n \in Nat /\ n # fetched' /\ n > Len(data)
      BY <1>2, <1>3, <1>4, <2>4 DEF Node
    <3> QED BY <2>1, <3>1 DEF LinkInv
  <2>5. {list', cur', p', p1', p2', pcur_item', res'} \subseteq 0 .. Len(data')
    BY <1>1, <1>2, <1>4, <1>5, <2>2 DEF LinkInv
  <2>6. ASSUME NEW n \in Listed' PROVE next'[n] = n - 1
    <3>1. n \in Nat /\ n > 0 /\ n <= fetched' /\ MaxRows \in Nat
      BY <1>2, <1>4, SizesAssumption DEF Listed
    <3>2. n \in Node /\ (n # fetched' => n \in Listed)
      BY <1>2, <1>3, <1>4, <3>1 DEF Listed, Node
    <3> QED BY <1>2, <1>3, <2>1, <3>1, <3>2
  <2> QED BY <1>1, <1>5, <2>2, <2>3, <2>4, <2>5, <2>6 DEF LinkInv
<1>10. SortInv' /\ RunInv' /\ StackFits'
  BY <1>5 DEF SortInv, RunInv, StackFits
<1> QED BY <1>6, <1>7, <1>8, <1>9, <1>10

LEMMA EmitL == ASSUME LInv, Emit PROVE LInv'
<1> USE DEF LInv
<1>1. /\ UNCHANGED <<query, held, rows, list, waits, links>> /\ cur # Null
      /\ pc = "emit" /\ pc' = "row" /\ cur' = next[cur] /\ handed' = Append(handed, data[cur])
  BY DEF Emit
<1>2. /\ data \in Seq(Rows) /\ handed \in Seq(Rows) /\ cur \in Node /\ cur \in Listed
      /\ kind = "listed" /\ Len(data) = fetched /\ next \in [Node -> Node \cup {Null}]
      /\ next[cur] \in 0 .. Len(data)
  <2>1. /\ data \in Seq(Rows) /\ handed \in Seq(Rows) /\ kind = "listed"
        /\ Len(data) = fetched /\ next \in [Node -> Node \cup {Null}]
        /\ cur \in Node \cup {Null} /\ cur \in 0 .. Len(data)
    BY <1>1 DEF TypeOK, HeldInv, LinkInv
  <2>2. cur \in Node
    BY <1>1, <2>1
  <2>3. cur \in Listed
    BY <1>1, <2>1 DEF Listed, Null
  <2> QED BY <2>1, <2>2, <2>3 DEF LinkInv
<1>3. data[cur] \in Rows /\ handed' \in Seq(Rows)
  BY <1>1, <1>2 DEF Listed
<1>4. TypeOK'
  BY <1>1, <1>2, <1>3, TypeFrame DEF TypeOK, query, held, rows
<1>5. HeldInv'
  BY <1>1 DEF HeldInv, query, held
<1>6. DataInv'
  <2>1. /\ answer' = answer /\ fetched' = fetched /\ coords' = coords /\ data' = data
        /\ kind' = kind /\ (Reported(fetched))' = Reported(fetched)
        /\ \A i : Reported(i)' = Reported(i)
    BY <1>1 DEF query, rows, Reported
  <2>2. ASSUME NEW h \in Range(handed')
        PROVE  \E i \in 1 .. fetched : h.iptr = answer[i] /\ h.coords = Reported(i)
    <3>1. h \in Range(handed) \/ h = data[cur]
      BY <1>1, <1>2, <1>3 DEF Range
    <3>2. cur \in 1 .. fetched /\ data[cur] = [iptr |-> answer[cur], coords |-> Reported(cur)]
      BY <1>2 DEF DataInv, Listed
    <3> QED BY <1>2, <3>1, <3>2 DEF DataInv
  <2> QED BY <2>1, <2>2 DEF DataInv, Listed
<1>7. LinkInv'
  BY <1>1, <1>2 DEF LinkInv, links, stk, rows, Listed
<1>8. SortInv' /\ RunInv' /\ StackFits'
  BY <1>1, SortFrame DEF rows
<1> QED BY <1>4, <1>5, <1>6, <1>7, <1>8

----------------------------------------------------------------------------
(* The sort.                                                               *)

LEMMA SortFacts ==
  ASSUME LInv
  PROVE  /\ data \in Seq(Rows) /\ Len(data) \in Nat /\ Len(data) <= MaxRows /\ MaxRows \in Nat
         /\ Listed \subseteq Node /\ \A n \in 0 .. Len(data) : n \in Node \cup {Null}
         /\ next \in [Node -> Node \cup {Null}] /\ \A n \in Node : n \in Nat /\ n > 0
         /\ stack \in Seq(Runs) /\ Len(stack) \in Nat /\ DOMAIN stack = 1 .. Len(stack)
         /\ p \in 0 .. Len(data) /\ p1 \in 0 .. Len(data) /\ p2 \in 0 .. Len(data)
         /\ pcur_item \in 0 .. Len(data) /\ res \in 0 .. Len(data)
<1>1. /\ answer \in Seq(Tids) /\ Len(answer) <= MaxRows /\ fetched \in 0 .. Len(answer)
      /\ MaxRows \in Nat
  BY AnswersAssumption, SizesAssumption DEF LInv, DataInv, TypeOK
<1>2. data \in Seq(Rows) /\ Len(data) \in {0, fetched}
  BY DEF LInv, TypeOK
<1>3. Len(data) \in Nat /\ Len(data) <= MaxRows
  BY <1>1, <1>2
<1>4. /\ Listed \subseteq Node /\ \A n \in 0 .. Len(data) : n \in Node \cup {Null}
      /\ \A n \in Node : n \in Nat /\ n > 0
  BY <1>1, <1>3 DEF Listed, Node, Null
<1>5. next \in [Node -> Node \cup {Null}] /\ stack \in Seq(Runs)
  BY DEF LInv, TypeOK
<1>6. {p, p1, p2, pcur_item, res} \subseteq 0 .. Len(data)
  BY DEF LInv, LinkInv
<1> QED BY <1>1, <1>2, <1>3, <1>4, <1>5, <1>6

LEMMA StartSortL == ASSUME LInv, StartSort PROVE LInv'
<1>1. /\ UNCHANGED <<query, relation, rows, list, cur, handed, waits, next>>
      /\ p1' = p1 /\ p2' = p2 /\ pcur_item' = pcur_item /\ res' = res
      /\ kind = "listed" /\ pc = "scan" /\ pc' = "sort" /\ page' = NoPage
      /\ sorting' = "runs" /\ p' = list /\ stack' = << >>
  BY DEF StartSort, Exhausted, SortStart, merging
<1>2. /\ data' = data /\ kind' = kind /\ answer' = answer /\ next' = next
      /\ Len(data) \in Nat /\ Listed \subseteq Node /\ list = Len(data) /\ data \in Seq(Rows)
      /\ \A n \in Listed : next[n] = n - 1
  BY <1>1, SortFacts DEF LInv, LinkInv, query, rows
<1>3. TypeOK'
  <2>1. page' \in 0 .. Pages /\ stack' \in Seq(Runs)
    BY <1>1, SizesAssumption DEF NoPage
  <2> QED BY <1>1, <1>2, <2>1 DEF LInv, TypeOK, query, rows
<1>4. HeldInv'
  BY <1>1, <1>2 DEF LInv, HeldInv
<1>5. DataInv'
  BY <1>1, DataFrame DEF LInv
<1>6. LinkInv'
  BY <1>1, <1>2 DEF LInv, LinkInv, Listed
<1>7. SortInv'
  <2>1. ASSUME NEW n \in Node, n <= p' PROVE next'[n] = n - 1
    <3>1. n \in Listed
      BY <1>1, <1>2, <2>1 DEF Listed, Node
    <3> QED BY <1>2, <3>1
  <2>2. ASSUME NEW n \in Node, n > p' PROVE next'[n] = Null
    BY <1>1, <1>2, <2>2 DEF LInv, LinkInv
  <2> QED BY <1>1, <2>1, <2>2 DEF SortInv
<1>8. RunInv' /\ StackFits'
  BY <1>1, RunSizeDoubles DEF RunInv, StackFits
<1> QED BY <1>3, <1>4, <1>5, <1>6, <1>7, <1>8 DEF LInv

\* A step of the sort keeps the rest of the invariant if its links and pointers
\* stay among the nodes allocated.
LEMMA SortStepFrame ==
  ASSUME LInv, Sort, sorting' \in {"runs", "merge"},
         next' \in [Node -> 0 .. Len(data)],
         \A n \in Node : n > Len(data) => next'[n] = Null,
         stack' \in Seq(Runs),
         \A i \in DOMAIN stack' : stack'[i].item \in Listed,
         {p', p1', p2', pcur_item', res'} \subseteq 0 .. Len(data)
  PROVE  TypeOK' /\ HeldInv' /\ DataInv' /\ LinkInv'
<1>1. /\ UNCHANGED <<query, held, rows, pc, list, cur, handed, waits>> /\ pc = "sort"
  BY DEF Sort
<1>2. /\ data' = data /\ kind' = kind /\ answer' = answer
      /\ relation' = relation /\ page' = page /\ fetched' = fetched /\ coords' = coords
  BY <1>1 DEF query, held, rows
<1>3. TypeOK'
  <2>1. 0 .. Len(data) \subseteq Node \cup {Null}
    BY SortFacts
  <2>2. next' \in [Node -> Node \cup {Null}]
    BY <2>1
  <2>3. {list', cur', p', p1', p2', pcur_item', res'} \subseteq Node \cup {Null}
    BY <1>1, <2>1 DEF LInv, TypeOK
  <2> QED BY <1>1, <1>2, <2>2, <2>3 DEF LInv, TypeOK
<1>4. HeldInv'
  BY <1>1, <1>2 DEF LInv, HeldInv
<1>5. DataInv'
  BY <1>1, DataFrame DEF LInv
<1>6. LinkInv'
  <2>1. {list', cur'} \subseteq 0 .. Len(data)
    BY <1>1 DEF LInv, LinkInv
  <2> QED BY <1>1, <1>2, <2>1 DEF LinkInv, Listed
<1> QED BY <1>3, <1>4, <1>5, <1>6

\* Merging leaves the stack alone until it is done.
LEMMA RunFrame ==
  ASSUME LInv, Sort, sorting # "off", stack' = stack, p' = p
  PROVE  RunInv' /\ StackFits'
<1>1. data' = data
  BY DEF Sort, rows
<1> QED BY <1>1 DEF LInv, RunInv, After, Listed, StackFits

LEMMA MergeBeginL == ASSUME LInv, Sort, MergeBegin PROVE LInv'
<1> DEFINE a == stack[Len(stack) - 1].item
           b == stack[Len(stack)].item
<1>1. /\ sorting = "runs" /\ sorting' = "merge" /\ MustMerge
      /\ next' = next /\ p' = p /\ stack' = stack
      /\ pcur_item' \in {a, b} /\ res' = pcur_item'
      /\ p1' \in {next[a], a} /\ p2' \in {b, next[b]}
  BY DEF MergeBegin
<1>2. /\ a \in Listed /\ b \in Listed /\ a > p /\ b > p /\ a \in Node /\ b \in Node
      /\ a \in 0 .. Len(data) /\ b \in 0 .. Len(data)
  <2>1. Len(stack) - 1 \in DOMAIN stack /\ Len(stack) \in DOMAIN stack
    BY <1>1, SortFacts DEF MustMerge
  <2> QED BY <1>1, <2>1, SortFacts DEF LInv, LinkInv, SortInv, Listed
<1> HIDE DEF a, b
<1>3. next[a] \in 0 .. Len(data) /\ next[b] \in 0 .. Len(data)
  BY <1>2 DEF LInv, LinkInv
<1>4. (next[a] = Null \/ next[a] > p) /\ (next[b] = Null \/ next[b] > p)
  BY <1>1, <1>2 DEF LInv, SortInv
<1>5. {p', p1', p2', pcur_item', res'} \subseteq 0 .. Len(data)
  BY <1>1, <1>2, <1>3, SortFacts
<1>6. next' \in [Node -> 0 .. Len(data)]
  BY <1>1, SortFacts DEF LInv, LinkInv
<1>7. TypeOK' /\ HeldInv' /\ DataInv' /\ LinkInv'
  <2>1. stack' \in Seq(Runs) /\ \A i \in DOMAIN stack' : stack'[i].item \in Listed
    BY <1>1, SortFacts DEF LInv, LinkInv
  <2>2. \A n \in Node : n > Len(data) => next'[n] = Null
    BY <1>1 DEF LInv, LinkInv
  <2> QED BY <1>1, <1>5, <1>6, <2>1, <2>2, SortStepFrame
<1>8. SortInv'
  <2>1. MustMerge'
    BY <1>1 DEF MustMerge
  <2>2. /\ pcur_item' > p /\ res' > p
        /\ p1' # Null => p1' > p
        /\ p2' # Null => p2' > p
    BY <1>1, <1>2, <1>4
  <2> QED BY <1>1, <2>1, <2>2 DEF LInv, SortInv
<1> QED BY <1>1, <1>7, <1>8, RunFrame DEF LInv

LEMMA MergeStepL == ASSUME LInv, Sort, MergeStep PROVE LInv'
<1> DEFINE n == IF TakesFirst(p1, p2) THEN p1 ELSE p2
<1>1. /\ sorting = "merge" /\ sorting' = "merge" /\ p1 # Null /\ p2 # Null
      /\ next' = [next EXCEPT ![pcur_item] = n] /\ pcur_item' = n
      /\ p' = p /\ stack' = stack /\ res' = res
      /\ p1' \in {p1, next[p1]} /\ p2' \in {p2, next[p2]} /\ n \in {p1, p2}
  BY DEF MergeStep
<1> HIDE DEF n
<1>2. /\ MustMerge /\ pcur_item > p /\ res > p /\ p1 > p /\ p2 > p /\ n > p
      /\ \A m \in Node : m <= p => next[m] = m - 1
      /\ \A m \in Node : m > p => next[m] = Null \/ next[m] > p
      /\ \A i \in DOMAIN stack : stack[i].item > p
  BY <1>1 DEF LInv, SortInv
<1>3. /\ p1 \in Listed /\ p2 \in Listed /\ n \in Listed /\ pcur_item \in Listed
      /\ Listed \subseteq Node /\ Listed \subseteq 0 .. Len(data)
  BY <1>1, <1>2, SortFacts DEF Listed
<1>4. /\ next[p1] \in 0 .. Len(data) /\ next[p2] \in 0 .. Len(data)
      /\ next[p1] = Null \/ next[p1] > p
      /\ next[p2] = Null \/ next[p2] > p
  BY <1>2, <1>3 DEF LInv, LinkInv
<1>5. \A m \in Node : next'[m] = IF m = pcur_item THEN n ELSE next[m]
  BY <1>1, SortFacts
<1>6. TypeOK' /\ HeldInv' /\ DataInv' /\ LinkInv'
  <2>1. {p', p1', p2', pcur_item', res'} \subseteq 0 .. Len(data)
    BY <1>1, <1>3, <1>4, SortFacts
  <2>2. next' \in [Node -> 0 .. Len(data)]
    BY <1>1, <1>3, SortFacts DEF LInv, LinkInv
  <2>3. stack' \in Seq(Runs) /\ \A i \in DOMAIN stack' : stack'[i].item \in Listed
    BY <1>1, SortFacts DEF LInv, LinkInv
  <2>4. ASSUME NEW m \in Node, m > Len(data) PROVE next'[m] = Null
    <3>1. m # pcur_item /\ next[m] = Null
      BY <2>4, SortFacts DEF LInv, LinkInv
    <3> QED BY <1>5, <3>1
  <2> QED BY <1>1, <2>1, <2>2, <2>3, <2>4, SortStepFrame
<1>7. SortInv'
  <2>1. MustMerge'
    BY <1>1, <1>2 DEF MustMerge
  <2>2. ASSUME NEW m \in Node, m <= p PROVE next'[m] = m - 1
    <3>1. m # pcur_item
      BY <1>2, <2>2, SortFacts
    <3> QED BY <1>2, <1>5, <2>2, <3>1
  <2>3. ASSUME NEW m \in Node, m > p PROVE next'[m] = Null \/ next'[m] > p
    BY <1>2, <1>5, <2>3
  <2> QED BY <1>1, <1>2, <1>4, <2>1, <2>2, <2>3 DEF SortInv
<1> QED BY <1>1, <1>6, <1>7, RunFrame DEF LInv

\* Room for k more runs above one of level c, and twice as much for k + 1.
LEMMA SpreadStep ==
  ASSUME NEW c \in Levels, NEW a \in Levels, c < a, a < MaxSortStack,
         NEW k \in Nat, k < MaxSortStack
  PROVE  /\ c + (k + 1) \in Levels /\ RunSize[c + (k + 1)] \in Nat
         /\ a + k \in Levels /\ RunSize[a + k] \in Nat
         /\ (RunSize[a + k] - RunSize[a]) + RunSize[c]
              >= RunSize[c + (k + 1)] - RunSize[c]
<1>1. /\ MaxSortStack \in Nat /\ a \in Nat /\ c \in Nat /\ c > 0
      /\ c + 1 \in Levels /\ a + k \in Levels /\ c + (k + 1) \in Levels
      /\ (c + 1) + k = c + (k + 1) /\ a >= c + 1
  <2>1. MaxSortStack \in Nat /\ a \in Nat /\ c \in Nat /\ c > 0
    BY RunSizeDoubles
  <2> QED BY <2>1 DEF Levels
<1>2. RunSize[c + 1] = 2 * RunSize[c]
  BY <1>1, RunSizeDoubles
<1>3. RunSize[a + k] - RunSize[a] >= RunSize[(c + 1) + k] - RunSize[c + 1]
  BY <1>1, RunSizeSpreads
<1>4. /\ RunSize[a + k] \in Nat /\ RunSize[a] \in Nat /\ RunSize[c] \in Nat
      /\ RunSize[c + (k + 1)] \in Nat
  BY <1>1, RunSizeDoubles
<1> QED BY <1>1, <1>2, <1>3, <1>4

\* RunInv with the types of what it is about.
Level(i) == stack[i].level
First(i) == stack[i].first

LEMMA RunFacts ==
  ASSUME LInv, sorting # "off", p # Null
  PROVE  /\ p \in Nat /\ p > 0 /\ p \in Listed
         /\ \A i \in 1 .. Len(stack) :
              /\ Level(i) \in Levels /\ Level(i) \in Nat /\ Level(i) > 0
              /\ Level(i) < MaxSortStack
              /\ First(i) \in Listed /\ First(i) \in Nat /\ First(i) <= MaxRows
              /\ RunSize[Level(i)] \in Nat /\ First(i) - After(i) = RunSize[Level(i)]
         /\ \A i \in 1 .. Len(stack) - 1 :
              /\ Level(i) >= Level(i + 1)
              /\ i < Len(stack) - 1 => Level(i) > Level(i + 1)
         /\ \A i, j \in 1 .. Len(stack) : i < j =>
              First(i) - First(j) >= RunSize[Level(j - 1) + j - i] - RunSize[Level(j - 1)]
<1>1. p \in Nat /\ p > 0 /\ p \in Listed
  BY SortFacts DEF Null, Listed
<1>2. /\ stack \in Seq(Runs) /\ DOMAIN stack = 1 .. Len(stack) /\ Len(stack) \in Nat
      /\ Len(data) \in Nat /\ Len(data) <= MaxRows /\ MaxRows \in Nat
  BY SortFacts
<1>3. RunInv
  BY DEF LInv
<1>4. ASSUME NEW i \in 1 .. Len(stack)
      PROVE  /\ Level(i) \in Levels /\ Level(i) \in Nat /\ Level(i) > 0
             /\ Level(i) < MaxSortStack
             /\ First(i) \in Listed /\ First(i) \in Nat /\ First(i) <= MaxRows
             /\ RunSize[Level(i)] \in Nat /\ First(i) - After(i) = RunSize[Level(i)]
  <2>1. stack[i] \in Runs /\ i \in DOMAIN stack
    BY <1>2
  <2>2. Level(i) \in Nat /\ Level(i) > 0
    BY <2>1 DEF Runs, Level
  <2>3. /\ Level(i) < MaxSortStack /\ First(i) - After(i) = RunSize[Level(i)]
        /\ First(i) \in Listed
    BY <1>3, <2>1 DEF RunInv, Level, First
  <2>4. Level(i) \in Levels
    BY <2>2, <2>3, RunSizeDoubles DEF Levels
  <2>5. First(i) \in Nat /\ First(i) <= MaxRows
    BY <1>2, <2>3 DEF Listed
  <2> QED BY <2>2, <2>3, <2>4, <2>5, RunSizeDoubles
<1>5. \A i \in 1 .. Len(stack) - 1 :
        /\ Level(i) >= Level(i + 1)
        /\ i < Len(stack) - 1 => Level(i) > Level(i + 1)
  BY <1>3 DEF RunInv, Level
<1>6. \A i, j \in 1 .. Len(stack) : i < j =>
        First(i) - First(j) >= RunSize[Level(j - 1) + j - i] - RunSize[Level(j - 1)]
  BY <1>2, <1>3 DEF RunInv, Level, First
<1> QED BY <1>1, <1>4, <1>5, <1>6

\* The arithmetic of a push: one run more, of one node.
LEMMA PushRuns ==
  ASSUME LInv, Sort, Push
  PROVE  RunInv' /\ StackFits'
<1> DEFINE L == Len(stack)
<1>0. /\ data' = data /\ stack \in Seq(Runs) /\ sorting # "off" /\ p # Null /\ ~ MustMerge
      /\ stack' = Append(stack, [level |-> 1, item |-> p, first |-> p]) /\ p' = next[p]
  BY SortFacts DEF Sort, rows, Push
<1>1. L \in Nat /\ Len(data) <= MaxRows /\ Len(data) \in Nat /\ MaxRows \in Nat
  BY SortFacts
<1>2. /\ p \in Nat /\ p > 0 /\ p \in Listed
      /\ \A i \in 1 .. L :
           /\ Level(i) \in Levels /\ Level(i) \in Nat /\ Level(i) > 0
           /\ Level(i) < MaxSortStack
           /\ First(i) \in Listed /\ First(i) \in Nat /\ First(i) <= MaxRows
           /\ RunSize[Level(i)] \in Nat /\ First(i) - After(i) = RunSize[Level(i)]
  BY <1>0, RunFacts
<1>3. /\ \A i \in 1 .. L - 1 : Level(i) > Level(i + 1)
      /\ \A i, j \in 1 .. L : i < j =>
           First(i) - First(j) >= RunSize[Level(j - 1) + j - i] - RunSize[Level(j - 1)]
  <2>1. L > 1 => Level(L) # Level(L - 1)
    BY <1>0 DEF MustMerge, Level
  <2>2. ASSUME NEW i \in 1 .. L - 1 PROVE Level(i) > Level(i + 1)
    <3>1. /\ i \in 1 .. L /\ i + 1 \in 1 .. L
          /\ Level(i) >= Level(i + 1) /\ (i < L - 1 => Level(i) > Level(i + 1))
      BY <1>0, <1>1, RunFacts
    <3>2. CASE i = L - 1
      <4>1. i + 1 = L /\ L > 1
        BY <1>1, <3>2
      <4> QED BY <1>2, <2>1, <3>1, <3>2, <4>1
    <3>3. CASE i # L - 1
      BY <1>1, <3>1, <3>3
    <3> QED BY <3>2, <3>3
  <2> QED BY <1>0, <2>2, RunFacts
<1>4. L < MaxSortStack /\ MaxSortStack \in Nat /\ MaxSortStack > 1
  BY RunSizeDoubles DEF LInv, StackFits
<1>5. /\ Len(stack') = L + 1 /\ DOMAIN stack' = 1 .. L + 1
      /\ stack'[L + 1].level = 1 /\ stack'[L + 1].first = p
      /\ \A i \in 1 .. L : stack'[i].level = Level(i) /\ stack'[i].first = First(i)
      /\ p' = p - 1
  <2>1. p \in Node /\ p <= p
    BY <1>2, SortFacts
  <2>2. p' = p - 1
    BY <1>0, <2>1 DEF LInv, SortInv
  <2>3. \A i \in 1 .. L : stack'[i] = stack[i]
    BY <1>0
  <2> QED BY <1>0, <2>2, <2>3 DEF Level, First
<1>6. /\ \A i \in 1 .. L : After(i)' = After(i)
      /\ \A i \in 1 .. L + 1 : i = L + 1 => After(i)' = p - 1
      /\ L \in 1 .. L => After(L) = p
  <2>1. \A i \in 1 .. L : i # L => i + 1 \in 1 .. L
    BY <1>1
  <2>2. After(L) = p
    BY DEF After
  <2>4. ASSUME NEW i \in 1 .. L + 1, i = L + 1 PROVE After(i)' = p - 1
    <3>1. i = Len(stack')
      BY <1>5, <2>4
    <3>2. After(i)' = p'
      BY <3>1 DEF After
    <3> QED BY <1>5, <3>2
  <2>3. ASSUME NEW i \in 1 .. L PROVE After(i)' = After(i)
    <3>1. CASE i = L
      <4>1. After(i)' = stack'[L + 1].first
        BY <1>1, <1>5, <3>1 DEF After
      <4> QED BY <1>5, <2>2, <3>1, <4>1
    <3>2. CASE i # L
      <4>1. After(i)' = stack'[i + 1].first /\ After(i) = First(i + 1)
        BY <1>1, <1>5, <3>2 DEF After, First
      <4> QED BY <1>5, <2>1, <3>2, <4>1
    <3> QED BY <3>1, <3>2
  <2> QED BY <2>2, <2>3, <2>4
<1> HIDE DEF L
\* The runs from i to the top, and one more would be twice the top's.
<1>7. ASSUME NEW i \in 1 .. L
      PROVE  /\ Level(L) + ((L - i) + 1) \in Levels
             /\ RunSize[Level(L) + ((L - i) + 1)] \in Nat
             /\ First(i) - p >= RunSize[Level(L) + ((L - i) + 1)] - RunSize[Level(L)]
  <2>1. /\ L \in 1 .. L /\ Level(L) \in Levels /\ Level(L) \in Nat /\ Level(L) > 0
        /\ Level(L) < MaxSortStack /\ First(L) \in Nat /\ First(i) \in Nat
        /\ First(L) - p = RunSize[Level(L)] /\ RunSize[Level(L)] \in Nat
    BY <1>1, <1>2, <1>6
  <2>2. CASE i = L
    <3>1. Level(L) + ((L - i) + 1) = Level(L) + 1 /\ Level(L) + 1 \in Levels
      BY <1>1, <1>4, <2>1, <2>2 DEF Levels
    <3>2. RunSize[Level(L) + 1] = 2 * RunSize[Level(L)]
      BY <2>1, <3>1, RunSizeDoubles
    <3> QED BY <2>1, <2>2, <3>1, <3>2
  <2>3. CASE i # L
    <3> DEFINE a == Level(L - 1)
               k == L - i
    <3>1. L - 1 \in 1 .. L - 1 /\ L - 1 \in 1 .. L /\ (L - 1) + 1 = L /\ i < L
      BY <1>1, <2>3
    <3>2. a \in Levels /\ a \in Nat /\ a < MaxSortStack /\ Level(L) < a /\ RunSize[a] \in Nat
      <4>1. Level(L - 1) > Level((L - 1) + 1)
        BY <1>3, <3>1
      <4> QED BY <1>2, <2>1, <3>1, <4>1
    <3>3. k \in Nat /\ k < MaxSortStack
      BY <1>1, <1>4, <3>1
    <3>4. First(i) - First(L) >= RunSize[a + k] - RunSize[a]
      <4>1. (Level(L - 1) + L) - i = Level(L - 1) + (L - i)
        BY <1>1, <3>2
      <4> QED BY <1>3, <2>1, <3>1, <4>1
    <3> HIDE DEF a, k
    <3>5. /\ Level(L) + (k + 1) \in Levels /\ RunSize[Level(L) + (k + 1)] \in Nat
          /\ RunSize[a + k] \in Nat
          /\ (RunSize[a + k] - RunSize[a]) + RunSize[Level(L)]
                >= RunSize[Level(L) + (k + 1)] - RunSize[Level(L)]
      BY <2>1, <3>2, <3>3, SpreadStep
    <3>6. First(i) - p >= RunSize[Level(L) + (k + 1)] - RunSize[Level(L)]
      BY <1>2, <2>1, <3>2, <3>4, <3>5
    <3> QED BY <3>5, <3>6 DEF k
  <2> QED BY <2>2, <2>3
\* Hence a full stack would hold more nodes than there are.
<1>8. L + 1 < MaxSortStack
  <2> SUFFICES ASSUME L + 1 = MaxSortStack PROVE FALSE
    BY <1>1, <1>4
  <2>1. 1 \in 1 .. L /\ L \in 1 .. L /\ (L - 1) + 1 = L /\ 1 + L = MaxSortStack
    BY <1>1, <1>4
  <2>2. /\ Level(L) + L \in Levels /\ RunSize[Level(L) + L] \in Nat
        /\ First(1) - p >= RunSize[Level(L) + L] - RunSize[Level(L)]
    BY <1>7, <2>1
  <2>3. /\ Level(L) \in Levels /\ Level(L) \in Nat /\ Level(L) > 0 /\ RunSize[Level(L)] \in Nat
        /\ First(1) \in Nat /\ First(1) <= MaxRows
    BY <1>2, <2>1
  <2>4. 1 \in Levels /\ 1 + L \in Levels
    BY <1>4, <2>1 DEF Levels
  <2>5. RunSize[Level(L) + L] - RunSize[Level(L)] >= RunSize[1 + L] - RunSize[1]
    BY <1>1, <2>2, <2>3, <2>4, RunSizeSpreads
  <2>6. RunSize[1] = 1 /\ MaxRows < RunSize[1 + L] /\ RunSize[1 + L] \in Nat
    BY <2>1, <2>4, RunSizeAssumption, RunSizeDoubles
  <2>7. First(1) - p >= RunSize[1 + L] - 1
    BY <1>2, <2>2, <2>3, <2>5, <2>6
  <2> QED BY <1>1, <1>2, <2>3, <2>6, <2>7
<1>9. StackFits'
  BY <1>5, <1>8 DEF StackFits
<1>10. RunInv'
  <2>1. ASSUME NEW i \in 1 .. L + 1
        PROVE  /\ stack'[i].level < MaxSortStack
               /\ stack'[i].first - After(i)' = RunSize[stack'[i].level]
               /\ stack'[i].first \in Listed
    <3>1. CASE i = L + 1
      <4>1. p - (p - 1) = RunSize[1] /\ p \in Listed
        BY <1>2, RunSizeDoubles
      <4>2. /\ stack'[i].level = 1 /\ stack'[i].first = p
            /\ After(i)' = p - 1 /\ 1 < MaxSortStack
        BY <1>4, <1>5, <1>6, <3>1
      <4> QED BY <4>1, <4>2
    <3>2. CASE i # L + 1
      <4>1. i \in 1 .. L
        BY <1>1, <3>2
      <4> QED BY <1>2, <1>5, <1>6, <4>1
    <3> QED BY <3>1, <3>2
  <2>2. ASSUME NEW i \in 1 .. L
        PROVE  /\ stack'[i].level >= stack'[i + 1].level
               /\ i < L => stack'[i].level > stack'[i + 1].level
    <3>1. CASE i = L
      <4>1. Level(i) >= 1
        BY <1>2
      <4> QED BY <1>1, <1>5, <3>1, <4>1
    <3>2. CASE i # L
      <4>1. i \in 1 .. L - 1 /\ i + 1 \in 1 .. L
        BY <1>1, <3>2
      <4>2. Level(i) > Level(i + 1) /\ Level(i) \in Nat /\ Level(i + 1) \in Nat
        BY <1>2, <1>3, <4>1
      <4>3. stack'[i].level = Level(i) /\ stack'[i + 1].level = Level(i + 1)
        BY <1>5, <4>1
      <4> QED BY <4>2, <4>3
    <3> QED BY <3>1, <3>2
  <2>3. ASSUME NEW i \in 1 .. L + 1, NEW j \in 1 .. L + 1, i < j
        PROVE  stack'[i].first - stack'[j].first
                 >= RunSize[stack'[j - 1].level + j - i] - RunSize[stack'[j - 1].level]
    <3>1. i \in 1 .. L /\ j - 1 \in 1 .. L
      BY <1>1, <2>3
    <3>2. stack'[i].first = First(i) /\ stack'[j - 1].level = Level(j - 1)
      BY <1>5, <3>1
    <3>3. CASE j = L + 1
      <4>1. j - 1 = L /\ L \in 1 .. L
        BY <1>1, <3>1, <3>3
      <4>2. Level(L) + j - i = Level(L) + ((L - i) + 1)
        BY <1>1, <1>2, <3>3, <4>1
      <4> QED BY <1>5, <1>7, <3>1, <3>2, <3>3, <4>1, <4>2
    <3>4. CASE j # L + 1
      <4>1. j \in 1 .. L
        BY <1>1, <3>4
      <4>2. stack'[j].first = First(j)
        BY <1>5, <4>1
      <4> QED BY <1>3, <2>3, <3>1, <3>2, <4>1, <4>2
    <3> QED BY <3>3, <3>4
  <2>4. Listed' = Listed /\ (L + 1) - 1 = L
    BY <1>0, <1>1 DEF Listed
  <2>5. Len(stack') = L + 1 /\ DOMAIN stack' = 1 .. L + 1 /\ Len(stack') - 1 = L
    BY <1>5, <2>4
  <2> QED BY <2>1, <2>2, <2>3, <2>4, <2>5 DEF RunInv
<1> QED BY <1>9, <1>10

\* A node more for a run, while there is a place on the stack for it.
LEMMA PushL == ASSUME LInv, Sort, Push PROVE LInv'
<1> DEFINE L == Len(stack)
           run == [level |-> 1, item |-> p, first |-> p]
<1>1. /\ sorting = "runs" /\ sorting' = "runs" /\ p # Null /\ ~ MustMerge
      /\ stack' = Append(stack, run) /\ p' = next[p] /\ next' = [next EXCEPT ![p] = Null]
      /\ p1' = p1 /\ p2' = p2 /\ pcur_item' = pcur_item /\ res' = res
  BY DEF Push, merging
<1>2. /\ p \in Nat /\ p > 0 /\ p \in Node /\ p \in Listed /\ p' = p - 1 /\ L \in Nat
      /\ p' \in 0 .. Len(data) /\ stack \in Seq(Runs)
  <2>1. p \in Nat /\ p > 0 /\ p \in Node /\ p \in Listed
    BY <1>1, SortFacts DEF Null, Listed
  <2>2. p' = p - 1
    BY <1>1, <2>1 DEF LInv, SortInv
  <2> QED BY <2>1, <2>2, SortFacts
<1>3. run \in Runs /\ run.level = 1 /\ run.item = p /\ run.first = p
  BY <1>2 DEF Runs
<1> HIDE DEF run
<1>4. /\ stack' \in Seq(Runs) /\ Len(stack') = L + 1 /\ DOMAIN stack' = 1 .. L + 1
      /\ stack'[L + 1] = run /\ \A i \in 1 .. L : stack'[i] = stack[i]
  BY <1>1, <1>2, <1>3
<1>5. \A m \in Node : next'[m] = IF m = p THEN Null ELSE next[m]
  BY <1>1, SortFacts
<1>6. TypeOK' /\ HeldInv' /\ DataInv' /\ LinkInv'
  <2>1. {p', p1', p2', pcur_item', res'} \subseteq 0 .. Len(data)
    BY <1>1, <1>2, SortFacts
  <2>2. next' \in [Node -> 0 .. Len(data)]
    BY <1>1, <1>5, SortFacts DEF LInv, LinkInv, Null
  <2>3. ASSUME NEW i \in DOMAIN stack' PROVE stack'[i].item \in Listed
    <3>1. i = L + 1 \/ (i \in 1 .. L /\ i \in DOMAIN stack)
      BY <1>2, <1>4, SortFacts
    <3> QED BY <1>2, <1>3, <1>4, <3>1 DEF LInv, LinkInv
  <2>4. \A m \in Node : m > Len(data) => next'[m] = Null
    BY <1>5 DEF LInv, LinkInv
  <2> QED BY <1>1, <1>4, <2>1, <2>2, <2>3, <2>4, SortStepFrame
<1>7. SortInv'
  <2>1. ASSUME NEW m \in Node, m <= p' PROVE next'[m] = m - 1
    BY <1>1, <1>2, <1>5, <2>1, SortFacts DEF LInv, SortInv
  <2>2. ASSUME NEW m \in Node, m > p' PROVE next'[m] = Null \/ next'[m] > p'
    <3>1. CASE m = p
      BY <1>5, <3>1
    <3>2. CASE m # p
      <4>1. next[m] = Null \/ next[m] > p
        BY <1>1, <1>2, <2>2, <3>2, SortFacts DEF LInv, SortInv
      <4>2. next'[m] = next[m] /\ next[m] \in Nat
        BY <1>5, <3>2, SortFacts DEF Null
      <4> QED BY <1>2, <4>1, <4>2
    <3> QED BY <3>1, <3>2
  <2>3. ASSUME NEW i \in DOMAIN stack' PROVE stack'[i].item > p'
    <3>1. CASE i = L + 1
      BY <1>2, <1>3, <1>4, <3>1
    <3>2. CASE i # L + 1
      <4>1. i \in DOMAIN stack /\ stack'[i] = stack[i]
        BY <1>2, <1>4, <3>2, SortFacts
      <4>3. stack[i].item \in Nat
        BY <4>1, SortFacts DEF LInv, LinkInv
      <4>2. stack[i].item > p
        BY <1>1, <4>1 DEF LInv, SortInv
      <4> QED BY <1>2, <4>1, <4>2, <4>3
    <3> QED BY <3>1, <3>2
  <2> QED BY <1>1, <2>1, <2>2, <2>3 DEF SortInv
<1>8. RunInv' /\ StackFits'
  BY PushRuns
<1> QED BY <1>6, <1>7, <1>8 DEF LInv

\* What the end of a merge makes of the stack.
LEMMA MergeEndStack ==
  ASSUME LInv, Sort, MergeEnd
  PROVE  /\ Len(stack) \in Nat /\ Len(stack) > 1 /\ MustMerge /\ stack' \in Seq(Runs)
         /\ Len(stack') = Len(stack) - 1 /\ DOMAIN stack' = 1 .. Len(stack) - 1
         /\ \A i \in 1 .. Len(stack) - 2 : stack'[i] = stack[i]
         /\ stack'[Len(stack) - 1].item = res
         /\ stack'[Len(stack) - 1].level = Level(Len(stack) - 1) + 1
         /\ stack'[Len(stack) - 1].first = First(Len(stack) - 1)
<1> DEFINE L == Len(stack)
           below == stack[L - 1]
           run == [below EXCEPT !.item = res, !.level = @ + 1]
           low == SubSeq(stack, 1, L - 2)
<1>1. sorting = "merge" /\ stack' = Append(low, run)
  BY DEF MergeEnd
<1>2. /\ L \in Nat /\ L > 1 /\ MustMerge /\ res > p /\ res \in 0 .. Len(data)
      /\ stack \in Seq(Runs) /\ p \in Nat
  BY <1>1, SortFacts DEF LInv, SortInv, MustMerge
<1>3. res \in Node
  BY <1>2, SortFacts DEF Null
<1>4. below \in Runs /\ L - 1 \in 1 .. L
  BY <1>2
<1>5. run \in Runs /\ run.item = res /\ run.level = Level(L - 1) + 1 /\ run.first = First(L - 1)
  <2>1. /\ below.level \in Nat /\ below.first \in Node
        /\ below = [level |-> below.level, item |-> below.item, first |-> below.first]
    <3> HIDE DEF below
    <3> QED BY <1>4 DEF Runs
  <2>2. run = [level |-> below.level + 1, item |-> res, first |-> below.first]
    <3>1. PICK l, n, f : below = [level |-> l, item |-> n, first |-> f]
      <4> HIDE DEF below
      <4> QED BY <2>1
    <3>2. below.level = l /\ below.item = n /\ below.first = f
      <4> HIDE DEF below
      <4> QED BY <3>1
    <3>3. run = [[level |-> l, item |-> n, first |-> f] EXCEPT !.item = res, !.level = l + 1]
      <4> HIDE DEF below
      <4> QED BY <3>1, <3>2 DEF run
    <3> HIDE DEF below, run
    <3> QED BY <3>2, <3>3
  <2>3. below.level = Level(L - 1) /\ below.first = First(L - 1)
    BY DEF Level, First
  <2>4. below.level + 1 \in Nat \ {0}
    <3> HIDE DEF below
    <3> QED BY <2>1
  <2> HIDE DEF below, run, L
  <2> QED BY <1>3, <2>1, <2>2, <2>3, <2>4 DEF Runs
<1>6. low \in Seq(Runs) /\ Len(low) = L - 2 /\ \A i \in 1 .. L - 2 : low[i] = stack[i]
  <2>1. 1 \in Int /\ L - 2 \in Int /\ L - 2 >= 0
    BY <1>2
  <2>2. \A i \in 1 .. L - 2 : 1 + i - 1 = i
    BY <1>2
  <2>3. \A i \in 1 .. L - 2 : i \in 1 .. L
    BY <1>2
  <2>4. (L - 2) - 1 + 1 = L - 2
    BY <1>2
  <2>5. low = [i \in 1 .. L - 2 |-> stack[i]]
    <3> HIDE DEF L
    <3> QED BY <1>2, <2>1, <2>2, <2>4
  <2>6. \A i \in 1 .. L - 2 : stack[i] \in Runs
    BY <1>2, <2>3
  <2> HIDE DEF low, L
  <2> QED BY <2>1, <2>5, <2>6
<1> HIDE DEF run, low, L
<1>7. /\ stack' \in Seq(Runs) /\ Len(stack') = (L - 2) + 1 /\ DOMAIN stack' = 1 .. (L - 2) + 1
      /\ \A i \in 1 .. L - 2 : stack'[i] = low[i]
      /\ stack'[(L - 2) + 1] = run
  BY <1>1, <1>2, <1>5, <1>6
<1>8. (L - 2) + 1 = L - 1
  BY <1>2
<1> QED BY <1>2, <1>5, <1>6, <1>7, <1>8 DEF L

\* The arithmetic of a merge: one run of the next level in place of two.
LEMMA MergeRuns ==
  ASSUME LInv, Sort, MergeEnd
  PROVE  RunInv' /\ StackFits'
<1> DEFINE L == Len(stack)
<1>1. /\ L \in Nat /\ L > 1 /\ MustMerge
      /\ Len(stack') = L - 1 /\ DOMAIN stack' = 1 .. L - 1
      /\ \A i \in 1 .. L - 2 : stack'[i] = stack[i]
      /\ stack'[L - 1].level = Level(L - 1) + 1
      /\ stack'[L - 1].first = First(L - 1)
  BY MergeEndStack
<1>2. p' = p /\ data' = data /\ sorting = "merge" /\ MaxSortStack \in Nat
  BY RunSizeDoubles DEF MergeEnd, Sort, rows
<1>3. StackFits'
  BY <1>1, <1>2 DEF LInv, StackFits
<1>4. ASSUME p # Null PROVE RunInv'
  <2>1. /\ p \in Nat /\ p > 0 /\ p \in Listed
        /\ \A i \in 1 .. L :
             /\ Level(i) \in Levels /\ Level(i) \in Nat /\ Level(i) > 0
             /\ Level(i) < MaxSortStack
             /\ First(i) \in Listed /\ First(i) \in Nat /\ First(i) <= MaxRows
             /\ RunSize[Level(i)] \in Nat /\ First(i) - After(i) = RunSize[Level(i)]
    BY <1>2, <1>4, RunFacts
  <2>2. /\ \A i \in 1 .. L - 1 :
             /\ Level(i) >= Level(i + 1)
             /\ i < L - 1 => Level(i) > Level(i + 1)
        /\ \A i, j \in 1 .. L : i < j =>
             First(i) - First(j) >= RunSize[Level(j - 1) + j - i] - RunSize[Level(j - 1)]
    BY <1>2, <1>4, RunFacts
  <2>3. /\ L \in 1 .. L /\ L - 1 \in 1 .. L /\ (L - 1) + 1 = L /\ L - 1 # L
        /\ Level(L) = Level(L - 1)
    BY <1>1, <1>4 DEF MustMerge, Level
  <2>4. /\ After(L) = p /\ After(L - 1) = First(L)
        /\ \A i \in 1 .. L - 2 : After(i) = First(i + 1)
    <3>1. \A i \in 1 .. L - 2 : i # L
      BY <1>1
    <3> QED BY <2>3, <3>1 DEF After, First
  \* The two runs had as many nodes as one of the next level has.
  <2>5. /\ First(L - 1) - p = RunSize[Level(L - 1) + 1]
        /\ Level(L - 1) + 1 \in Levels /\ RunSize[Level(L - 1) + 1] \in Nat
    <3>1. Level(L - 1) + 1 \in Levels
      <4>1. Level(L - 1) \in Nat /\ Level(L - 1) < MaxSortStack
        BY <2>1, <2>3
      <4> HIDE DEF L
      <4> QED BY <1>2, <4>1 DEF Levels
    <3>2. /\ RunSize[Level(L - 1) + 1] = 2 * RunSize[Level(L - 1)]
          /\ RunSize[Level(L - 1) + 1] \in Nat
      BY <2>1, <2>3, <3>1, RunSizeDoubles
    <3>3. /\ First(L - 1) - First(L) = RunSize[Level(L - 1)]
          /\ First(L) - p = RunSize[Level(L - 1)]
      BY <2>1, <2>3, <2>4
    <3>4. /\ First(L - 1) \in Nat /\ First(L) \in Nat /\ RunSize[Level(L - 1)] \in Nat
          /\ p \in Nat
      BY <2>1, <2>3
    <3>5. First(L - 1) - p = 2 * RunSize[Level(L - 1)]
      <4> HIDE DEF L
      <4> QED BY <3>3, <3>4
    <3> QED BY <3>1, <3>2, <3>5
  <2>6. Level(L - 1) + 1 < MaxSortStack
    <3>1. RunSize[Level(L - 1) + 1] < RunSize[MaxSortStack] /\ RunSize[MaxSortStack] \in Nat
      <4>1. MaxSortStack \in Levels /\ RunSize[MaxSortStack] \in Nat
        BY RunSizeDoubles DEF Levels
      <4>2. MaxRows < RunSize[MaxSortStack] /\ MaxRows \in Nat
        BY RunSizeAssumption, SizesAssumption
      <4>3. First(L - 1) \in Nat /\ First(L - 1) <= MaxRows
        BY <2>1, <2>3
      <4> QED BY <2>1, <2>5, <4>1, <4>2, <4>3
    <3>2. Level(L - 1) \in Nat /\ Level(L - 1) < MaxSortStack
      BY <2>1, <2>3
    <3> QED BY <1>2, <2>5, <3>1, <3>2
  <2>7. /\ \A i \in 1 .. L - 2 : stack'[i].level = Level(i) /\ stack'[i].first = First(i)
        /\ \A i \in 1 .. L - 1 : stack'[i].first = First(i)
    <3>1. \A i \in 1 .. L - 2 : stack'[i].level = Level(i) /\ stack'[i].first = First(i)
      BY <1>1 DEF Level, First
    <3>2. \A i \in 1 .. L - 1 : i \in 1 .. L - 2 \/ i = L - 1
      BY <1>1
    <3> QED BY <1>1, <3>1, <3>2
  <2>8. ASSUME NEW i \in 1 .. L - 1
        PROVE  /\ stack'[i].level < MaxSortStack
               /\ stack'[i].first - After(i)' = RunSize[stack'[i].level]
               /\ stack'[i].first \in Listed
    <3>1. CASE i = L - 1
      <4>1. After(i)' = p
        BY <1>1, <1>2, <3>1 DEF After
      <4> QED BY <1>1, <2>1, <2>3, <2>5, <2>6, <3>1, <4>1
    <3>2. CASE i # L - 1
      <4>1. i \in 1 .. L - 2 /\ i \in 1 .. L /\ i + 1 \in 1 .. L - 1
        BY <1>1, <3>2
      <4>2. After(i)' = stack'[i + 1].first
        BY <1>1, <3>2 DEF After
      <4>3. After(i)' = After(i)
        BY <2>4, <2>7, <4>1, <4>2
      <4> QED BY <2>1, <2>7, <4>1, <4>3
    <3> QED BY <3>1, <3>2
  <2>9. ASSUME NEW i \in 1 .. L - 2
        PROVE  /\ stack'[i].level >= stack'[i + 1].level
               /\ i < L - 2 => stack'[i].level > stack'[i + 1].level
    <3>1. /\ i \in 1 .. L - 1 /\ i \in 1 .. L /\ i + 1 \in 1 .. L /\ i < L - 1
          /\ stack'[i].level = Level(i)
      BY <1>1, <2>7
    <3>2. Level(i) > Level(i + 1) /\ Level(i) \in Nat /\ Level(i + 1) \in Nat
      BY <2>1, <2>2, <3>1
    <3>3. CASE i = L - 2
      <4>1. i + 1 = L - 1
        BY <1>1, <3>3
      <4>2. stack'[i + 1].level = Level(i + 1) + 1
        BY <1>1, <4>1
      <4> QED BY <3>1, <3>2, <3>3, <4>2
    <3>4. CASE i # L - 2
      <4>1. i + 1 \in 1 .. L - 2
        BY <1>1, <3>4
      <4> QED BY <2>7, <3>1, <3>2, <4>1
    <3> QED BY <3>3, <3>4
  <2>10. ASSUME NEW i \in 1 .. L - 1, NEW j \in 1 .. L - 1, i < j
         PROVE  stack'[i].first - stack'[j].first
                  >= RunSize[stack'[j - 1].level + j - i] - RunSize[stack'[j - 1].level]
    <3>1. i \in 1 .. L /\ j \in 1 .. L /\ j - 1 \in 1 .. L - 2
      BY <1>1, <2>10
    <3>2. /\ stack'[i].first = First(i) /\ stack'[j].first = First(j)
          /\ stack'[j - 1].level = Level(j - 1)
      BY <2>7, <3>1
    <3> QED BY <2>2, <2>10, <3>1, <3>2
  <2>11. /\ Len(stack') = L - 1 /\ DOMAIN stack' = 1 .. L - 1 /\ Len(stack') - 1 = L - 2
         /\ Listed' = Listed
    BY <1>1, <1>2 DEF Listed
  <2> HIDE DEF L
  <2> QED BY <2>8, <2>9, <2>10, <2>11 DEF RunInv
<1>5. ASSUME p = Null PROVE RunInv'
  <2>1. p' = 0
    BY <1>2, <1>5 DEF Null
  <2> QED BY <2>1 DEF RunInv, Null
<1> QED BY <1>3, <1>4, <1>5

\* Two runs have become one.
LEMMA MergeEndL == ASSUME LInv, Sort, MergeEnd PROVE LInv'
<1> DEFINE L == Len(stack)
<1>1. /\ sorting = "merge" /\ sorting' = "runs"
      /\ next' = [next EXCEPT ![pcur_item] = MergeRest]
      /\ p1' = Null /\ p2' = Null /\ pcur_item' = Null /\ res' = Null /\ p' = p
  BY DEF MergeEnd
<1>2. /\ L \in Nat /\ L > 1 /\ stack' \in Seq(Runs) /\ DOMAIN stack' = 1 .. L - 1
      /\ \A i \in 1 .. L - 2 : stack'[i] = stack[i]
      /\ stack'[L - 1].item = res
  BY MergeEndStack
<1>3. /\ pcur_item > p /\ res > p /\ p \in Nat /\ MergeRest \in {p1, p2}
      /\ MergeRest = Null \/ MergeRest > p
      /\ MergeRest \in 0 .. Len(data)
      /\ pcur_item \in Listed /\ res \in Listed
  <2>1. pcur_item > p /\ res > p /\ p \in Nat /\ MergeRest \in {p1, p2}
    BY <1>1, SortFacts DEF LInv, SortInv, MergeRest
  <2>2. MergeRest = Null \/ MergeRest > p
    BY <1>1, <2>1 DEF LInv, SortInv
  <2> QED BY <2>1, <2>2, SortFacts DEF Listed
<1>4. \A m \in Node : next'[m] = IF m = pcur_item THEN MergeRest ELSE next[m]
  BY <1>1, SortFacts
<1>5. \A i \in DOMAIN stack' :
        i = L - 1 \/ (i \in 1 .. L - 2 /\ i \in DOMAIN stack /\ stack'[i] = stack[i])
  <2>1. L \in Nat /\ L > 1 /\ DOMAIN stack = 1 .. L
    BY <1>2, SortFacts
  <2>2. \A i \in 1 .. L - 1 : i = L - 1 \/ (i \in 1 .. L - 2 /\ i \in 1 .. L)
    <3> HIDE DEF L
    <3> QED BY <2>1
  <2> HIDE DEF L
  <2> QED BY <1>2, <2>1, <2>2
<1>6. TypeOK' /\ HeldInv' /\ DataInv' /\ LinkInv'
  <2>1. {p', p1', p2', pcur_item', res'} \subseteq 0 .. Len(data)
    BY <1>1, SortFacts DEF Null
  <2>2. next' \in [Node -> 0 .. Len(data)]
    BY <1>1, <1>3, SortFacts DEF LInv, LinkInv
  <2>3. \A i \in DOMAIN stack' : stack'[i].item \in Listed
    BY <1>2, <1>3, <1>5 DEF LInv, LinkInv
  <2>4. ASSUME NEW m \in Node, m > Len(data) PROVE next'[m] = Null
    <3>1. m # pcur_item /\ next[m] = Null
      BY <1>3, <2>4, SortFacts DEF LInv, LinkInv, Listed
    <3> QED BY <1>4, <3>1
  <2> QED BY <1>1, <1>2, <2>1, <2>2, <2>3, <2>4, SortStepFrame
<1>7. SortInv'
  <2>0. /\ \A m \in Node : m <= p => next[m] = m - 1
        /\ \A m \in Node : m > p => next[m] = Null \/ next[m] > p
        /\ \A i \in DOMAIN stack : stack[i].item > p
    BY <1>1 DEF LInv, SortInv
  <2>1. ASSUME NEW m \in Node, m <= p PROVE next'[m] = m - 1
    <3>1. m # pcur_item
      BY <1>3, <2>1, SortFacts DEF Listed
    <3> QED BY <1>4, <2>0, <2>1, <3>1
  <2>2. ASSUME NEW m \in Node, m > p PROVE next'[m] = Null \/ next'[m] > p
    BY <1>3, <1>4, <2>0, <2>2
  <2>3. \A i \in DOMAIN stack' : stack'[i].item > p
    BY <1>2, <1>3, <1>5, <2>0
  <2> QED BY <1>1, <2>1, <2>2, <2>3 DEF SortInv
<1>8. RunInv' /\ StackFits'
  BY MergeRuns
<1> QED BY <1>6, <1>7, <1>8 DEF LInv

\* The list becomes the one run left, or stays the empty list it was.
LEMMA SortedL == ASSUME LInv, Sorted PROVE LInv'
<1>1. /\ UNCHANGED <<query, held, rows, handed, waits, next>>
      /\ p' = p /\ p1' = p1 /\ p2' = p2 /\ pcur_item' = pcur_item /\ res' = res
      /\ pc = "sort" /\ pc' = "emit" /\ list' = SortedList(list) /\ cur' = list'
      /\ sorting = "runs" /\ sorting' = "off" /\ stack' = << >>
  BY DEF Sorted, SortDone, merging
<1>2. /\ data' = data /\ kind' = kind /\ answer' = answer /\ fetched' = fetched
      /\ coords' = coords /\ relation' = relation /\ page' = page
  BY <1>1 DEF query, rows, held
<1>3. list' \in 0 .. Len(data)
  <2>1. CASE stack = << >>
    BY <1>1, <2>1 DEF LInv, LinkInv, SortedList
  <2>2. CASE stack # << >>
    <3>1. 1 \in DOMAIN stack
      BY <2>2, SortFacts
    <3> QED BY <1>1, <2>2, <3>1, SortFacts DEF LInv, LinkInv, SortedList, Listed
  <2> QED BY <2>1, <2>2
<1>4. TypeOK'
  <2>1. {list', cur'} \subseteq Node \cup {Null}
    BY <1>1, <1>3, SortFacts
  <2> QED BY <1>1, <1>2, <2>1 DEF LInv, TypeOK
<1>5. HeldInv'
  BY <1>1, <1>2 DEF LInv, HeldInv
<1>6. DataInv'
  BY <1>1, DataFrame DEF LInv
<1>7. LinkInv'
  BY <1>1, <1>2, <1>3 DEF LInv, LinkInv, Listed
<1>8. SortInv' /\ RunInv' /\ StackFits'
  BY <1>1, RunSizeDoubles DEF SortInv, RunInv, StackFits
<1> QED BY <1>4, <1>5, <1>6, <1>7, <1>8 DEF LInv

LEMMA NextL == ASSUME LInv, [Next]_vars PROVE LInv'
<1>1. CASE Run
  <2>1. CASE FetchRow
    BY <2>1, FetchRowL
  <2>2. CASE FetchItem
    BY <2>2, FetchItemL
  <2>3. CASE StartSort
    BY <2>3, StartSortL
  <2>4. CASE Sort
    <3>1. Push \/ MergeBegin \/ MergeStep \/ MergeEnd
      BY <2>4 DEF Sort, SortStep
    <3> QED BY <2>4, <3>1, PushL, MergeBeginL, MergeStepL, MergeEndL
  <2>5. CASE Sorted
    BY <2>5, SortedL
  <2>6. CASE Emit
    BY <2>6, EmitL
  <2>7. CASE NoRow \/ EmitNothing \/ CloseIndex \/ CloseQuery
    BY <2>7, EndingL DEF Ending
  <2> QED BY <1>1, <2>1, <2>2, <2>3, <2>4, <2>5, <2>6, <2>7 DEF Run
<1>2. CASE FirstCall
  BY <1>2, FirstCallL
<1>3. CASE NextCall
  BY <1>3, NextCallL
<1>4. CASE Stop \/ Abort \/ WriterComes \/ WriterGets \/ UNCHANGED vars
  BY <1>4, EndingL DEF Ending
<1> QED BY <1>1, <1>2, <1>3, <1>4 DEF Next

----------------------------------------------------------------------------
(* The theorems.                                                           *)

\* LInv holds throughout: the functions keep locks, rows, links and the runs of
\* list_sort as it says.
THEOREM LookupInvariant == Spec => []LInv
<1>1. Init => LInv
  BY InitL
<1>2. LInv /\ [Next]_vars => LInv'
  BY NextL
<1> QED BY <1>1, <1>2, PTL DEF Spec

\* Types; the list is as long as the rows fetched for it, and list_sort runs
\* in the first call only.
THEOREM TypeCorrect == Spec => []TypeOK
<1>1. LInv => TypeOK
  BY DEF LInv
<1> QED BY <1>1, LookupInvariant, PTL

\* The stack of list_sort.c:84 never fills up, whatever its size, as long as
\* there are fewer rows than a run of as many levels as it has places has.
THEOREM StackSuffices == Spec => []StackFits
<1>1. LInv => StackFits
  BY DEF LInv
<1> QED BY <1>1, LookupInvariant, PTL

\* No page is locked in an index that is closed, except by a query that the
\* executor has given up.
THEOREM LocksNested == Spec => []PageUnderRelation
<1>1. LInv => PageUnderRelation
  BY DEF LInv, HeldInv, TypeOK, PageUnderRelation
<1> QED BY <1>1, LookupInvariant, PTL

\* A lookup that has ended holds nothing, and a listed one holds no page when
\* the executor has control.
THEOREM NothingStaysHeld == Spec => []NothingHeld
<1>1. LInv => NothingHeld
  BY DEF LInv, HeldInv, TypeOK, NothingHeld
<1> QED BY <1>1, LookupInvariant, PTL

\* Through list and sort a row keeps the coordinates the automaton reported.
THEOREM CoordinatesKept == Spec => []RowsKeepCoords
<1>1. LInv => RowsKeepCoords
  <2> SUFFICES ASSUME LInv, kind = "listed", NEW h \in Range(handed), NEW i \in DOMAIN answer,
                      answer[i] = h.iptr
               PROVE  h.coords = Reported(i)
    BY DEF RowsKeepCoords
  <2>1. PICK k \in 1 .. fetched : h.iptr = answer[k] /\ h.coords = Reported(k)
    BY DEF LInv, DataInv
  <2>2. k \in DOMAIN answer /\ IsInjective(answer)
    BY AnswersAssumption DEF LInv, DataInv, TypeOK
  <2>3. answer[i] = answer[k]
    BY <2>1
  <2>4. i = k
    BY <2>2, <2>3 DEF IsInjective
  <2> QED BY <2>1, <2>4
<1> QED BY <1>1, LookupInvariant, PTL
====
