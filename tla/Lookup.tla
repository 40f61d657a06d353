---- MODULE Lookup ----
(***************************************************************************)
(* The set-returning functions of zcurve.c: the sequence of calls by which *)
(* PostgreSQL's executor fetches the rows of one lookup.                   *)
(*                                                                         *)
(* The functions of kind "tidonly" return the rows one by one as the       *)
(* automaton finds them.  Those of kind "listed" make a list of all rows   *)
(* in the first call, sort it by row pointer and hand it out.              *)
(*                                                                         *)
(* The automaton is taken for what SpQuery shows of it: it returns the     *)
(* rows of "answer", keeps a leaf page locked from row to row, and has     *)
(* none locked once it has returned 0.  The executor, the transaction and  *)
(* the other backends are external.                                        *)
(***************************************************************************)
EXTENDS Integers, FiniteSets, Sequences, Functions

CONSTANTS
  Tids,          \* row pointers: records of bi_hi, bi_lo and ip_posid
  Solid,         \* rows the automaton finds in solid subqueries
  Answers,       \* the sequences of rows the automaton may return
  MaxRows,       \* rows of a lookup, at most
  MaxSortStack,  \* MAX_SORT_STACK, 32
  RunSize,       \* the nodes of a run of a level
  Pages          \* leaf pages a lookup passes over, at most

\* The parts of a row pointer are uint16, the last one not zero.
ASSUME TidsAssumption ==
  /\ Tids \subseteq [bi_hi : 0 .. 2 ^ 16 - 1, bi_lo : 0 .. 2 ^ 16 - 1, ip_posid : 1 .. 2 ^ 16 - 1]
  /\ IsFiniteSet(Tids)
  /\ Solid \subseteq Tids

\* The automaton returns no row twice.
ASSUME AnswersAssumption ==
  \A s \in Answers :
    s \in Seq(Tids) /\ Len(s) <= MaxRows /\ IsInjective(s)

ASSUME SizesAssumption ==
  /\ MaxRows \in Nat
  /\ MaxSortStack \in Nat \ {0, 1}
  /\ Pages \in Nat \ {0}

\* The stack suffices: it takes 2^31 rows to fill its 32 places.
ASSUME RunSizeAssumption ==
  /\ RunSize \in [1 .. 2 * MaxSortStack -> Nat]
  /\ RunSize[1] = 1
  /\ \A l \in 1 .. 2 * MaxSortStack - 1 : RunSize[l + 1] = 2 * RunSize[l]
  /\ MaxRows < RunSize[MaxSortStack]

VARIABLES
  kind,       \* which of the functions it is
  answer,     \* the rows the automaton has to return, in its order
  pc,         \* where the calls are
  fetched,    \* how many of them it has returned
  coords,     \* coords[] of a listed lookup: the row whose coordinates it holds
  relation,   \* relation_ is open
  page,       \* the leaf the automaton has locked
  list,       \* result_
  cur,        \* cur_
  handed,     \* history: the rows handed to the executor
  waits,      \* the leaf another backend waits for to write to
  data, next, sorting, p, stack, p1, p2, pcur_item, res    \* see ListSort

\* Mutant of res_item_compare_proc: the offset within the page comes first.
res_item_compare_proc_posid(l, r) ==
  IF l.iptr.ip_posid # r.iptr.ip_posid THEN l.iptr.ip_posid - r.iptr.ip_posid
  ELSE IF l.iptr.bi_hi # r.iptr.bi_hi THEN l.iptr.bi_hi - r.iptr.bi_hi
  ELSE l.iptr.bi_lo - r.iptr.bi_lo

res_item_compare_proc(l, r) ==
  IF l.iptr.bi_hi # r.iptr.bi_hi THEN l.iptr.bi_hi - r.iptr.bi_hi
  ELSE IF l.iptr.bi_lo # r.iptr.bi_lo THEN l.iptr.bi_lo - r.iptr.bi_lo
  ELSE l.iptr.ip_posid - r.iptr.ip_posid

INSTANCE ListSort WITH compare_proc <- res_item_compare_proc

query == <<kind, answer>>
held  == <<relation, page>>
rows  == <<fetched, coords, data>>
stk   == <<sorting, p, stack, p1, p2, pcur_item, res>>
links == <<next, stk>>
vars  == <<query, held, rows, pc, list, cur, handed, waits, links>>

NoPage == 0

\* coords[] as it begins, with the corner of the extent: that of no row.
Corner == [bi_hi |-> 0, bi_lo |-> 0, ip_posid |-> 0]

-----------------------------------------------------------------------------
(* A call.                                                                 *)

\* The first call: the constructor opens the index.
FirstCall ==
  /\ pc = "idle"
  /\ relation' = TRUE
  /\ pc' = "scan"
  /\ UNCHANGED <<query, page, rows, list, cur, handed, waits, links>>

\* moveFirst or moveNext returns 1: the cursor is on the same leaf or on one
\* further right.
Found ==
  /\ pc = "scan"
  /\ fetched < Len(answer)
  /\ fetched' = fetched + 1
  /\ page' \in (page .. Pages) \ {NoPage}

\* The row's pointer goes to the executor, its coordinates do not.
FetchRow ==
  /\ kind = "tidonly"
  /\ Found
  /\ handed' = Append(handed, [iptr |-> answer[fetched'], coords |-> Corner])
  /\ pc' = "row"
  /\ UNCHANGED <<query, relation, coords, data, list, cur, waits, links>>

\* Mutant of Item: what was in coords[] before the fetch.
Item_before == [iptr |-> answer[fetched'], coords |-> coords]

Item == [iptr |-> answer[fetched'], coords |-> coords']

\* The row goes to the front of the list, with what is in coords[] now: a solid
\* subquery leaves that alone.
FetchItem ==
  /\ kind = "listed"
  /\ Found
  /\ coords' = IF answer[fetched'] \in Solid THEN coords ELSE answer[fetched']
  /\ data' = Append(data, Item)
  /\ next' = [next EXCEPT ![Len(data')] = list]
  /\ list' = Len(data')
  /\ UNCHANGED <<query, relation, pc, cur, handed, waits, stk>>

\* Mutant of Exhausted: the automaton keeps its page.
Exhausted_keepsPage ==
  /\ pc = "scan"
  /\ fetched = Len(answer)
  /\ UNCHANGED page

\* moveFirst or moveNext returns 0: the automaton has closed its cursor.
Exhausted ==
  /\ pc = "scan"
  /\ fetched = Len(answer)
  /\ page' = NoPage

NoRow ==
  /\ kind = "tidonly"
  /\ Exhausted
  /\ pc' = "closing"
  /\ UNCHANGED <<query, relation, rows, list, cur, handed, waits, links>>

StartSort ==
  /\ kind = "listed"
  /\ Exhausted
  /\ SortStart(list)
  /\ pc' = "sort"
  /\ UNCHANGED <<query, relation, rows, list, cur, handed, waits>>

Sort ==
  /\ pc = "sort"
  /\ SortStep
  /\ UNCHANGED <<query, held, rows, pc, list, cur, handed, waits>>

Sorted ==
  /\ pc = "sort"
  /\ SortDone
  /\ list' = SortedList(list)
  /\ cur' = list'
  /\ pc' = "emit"
  /\ UNCHANGED <<query, held, rows, handed, waits>>

\* A call hands out the current item of the list.
Emit ==
  /\ pc = "emit"
  /\ cur # Null
  /\ handed' = Append(handed, data[cur])
  /\ cur' = next[cur]
  /\ pc' = "row"
  /\ UNCHANGED <<query, held, rows, list, waits, links>>

\* Mutant of EmitNothing: the lookup is not destroyed.
EmitNothing_keeps ==
  /\ pc = "emit"
  /\ cur = Null
  /\ pc' = "done"
  /\ UNCHANGED <<query, held, rows, list, cur, handed, waits, links>>

EmitNothing ==
  /\ pc = "emit"
  /\ cur = Null
  /\ pc' = "closing"
  /\ UNCHANGED <<query, held, rows, list, cur, handed, waits, links>>

\* The destructor closes the index, then the query, whose own destructor
\* unlocks a page that is still locked.
CloseIndex ==
  /\ pc = "closing"
  /\ relation
  /\ relation' = FALSE
  /\ list' = Null
  /\ cur' = Null
  /\ UNCHANGED <<query, page, rows, pc, handed, waits, links>>

CloseQuery ==
  /\ pc = "closing"
  /\ ~ relation
  /\ page' = NoPage
  /\ pc' = "done"
  /\ UNCHANGED <<query, relation, rows, list, cur, handed, waits, links>>

-----------------------------------------------------------------------------
(* The executor, the transaction and another backend.                      *)

\* The executor asks for another row.
NextCall ==
  /\ pc = "row"
  /\ pc' = IF kind = "tidonly" THEN "scan" ELSE "emit"
  /\ UNCHANGED <<query, held, rows, list, cur, handed, waits, links>>

\* It does not, and the query ends: its resource owner closes the relation,
\* and nobody unlocks a page.
Stop ==
  /\ pc = "row"
  /\ relation' = FALSE
  /\ pc' = "stopped"
  /\ UNCHANGED <<query, page, rows, list, cur, handed, waits, links>>

\* An error, in the function or elsewhere in the transaction, ends it all.
Abort ==
  /\ pc \in {"scan", "emit", "row", "stopped"}
  /\ relation' = FALSE
  /\ page' = NoPage
  /\ pc' = "aborted"
  /\ UNCHANGED <<query, rows, list, cur, handed, waits, links>>

\* Another backend wants to write to a leaf, and waits while it is locked.
WriterComes ==
  /\ waits = NoPage
  /\ waits' \in 1 .. Pages
  /\ UNCHANGED <<query, held, rows, pc, list, cur, handed, links>>

WriterGets ==
  /\ waits # NoPage
  /\ waits # page
  /\ waits' = NoPage
  /\ UNCHANGED <<query, held, rows, pc, list, cur, handed, links>>

-----------------------------------------------------------------------------
Init ==
  /\ kind \in {"tidonly", "listed"}
  /\ answer \in Answers
  /\ pc = "idle"
  /\ fetched = 0
  /\ coords = Corner
  /\ relation = FALSE
  /\ page = NoPage
  /\ list = Null
  /\ cur = Null
  /\ handed = << >>
  /\ waits = NoPage
  /\ data = << >>
  /\ next = [n \in Node |-> Null]
  /\ sorting = "off"
  /\ p = Null
  /\ stack = << >>
  /\ p1 = Null /\ p2 = Null /\ pcur_item = Null /\ res = Null

\* The steps of a call that has been made.
Run ==
  \/ FetchRow \/ FetchItem \/ NoRow
  \/ StartSort \/ Sort \/ Sorted
  \/ Emit \/ EmitNothing \/ CloseIndex \/ CloseQuery

Next ==
  \/ Run
  \/ FirstCall \/ NextCall \/ Stop \/ Abort
  \/ WriterComes \/ WriterGets

Spec == Init /\ [][Next]_vars

\* C code runs until it returns, and a lock that is free is granted.
Fairness == WF_vars(Run) /\ WF_vars(WriterGets)

FairSpec == Spec /\ Fairness

-----------------------------------------------------------------------------
(* Properties.                                                             *)

Rows == [iptr : Tids, coords : Tids \cup {Corner}]
Runs == [level : Nat \ {0}, item : Node, first : Node]

\* Types; the list is as long as the rows fetched for it, and list_sort runs
\* in the first call only.
TypeOK ==
  /\ kind \in {"tidonly", "listed"}
  /\ answer \in Seq(Tids)
  /\ pc \in {"idle", "scan", "sort", "emit", "row", "closing",
             "done", "stopped", "aborted"}
  /\ fetched \in 0 .. Len(answer)
  /\ coords \in Tids \cup {Corner}
  /\ relation \in BOOLEAN
  /\ page \in 0 .. Pages
  /\ waits \in 0 .. Pages
  /\ data \in Seq(Rows)
  /\ Len(data) = IF kind = "listed" THEN fetched ELSE 0
  /\ handed \in Seq(Rows)
  /\ next \in [Node -> Node \cup {Null}]
  /\ {list, cur, p, p1, p2, pcur_item, res} \subseteq Node \cup {Null}
  /\ stack \in Seq(Runs)
  /\ sorting \in {"off", "runs", "merge"}
  /\ sorting # "off" <=> pc = "sort"

\* list_sort.c:84 asserts after a push that the stack of runs has a place left:
\* runs are merged early enough that it never fills up.
StackFits == Len(stack) < MaxSortStack

\* Runs that are not being merged.
Whole == 1 .. IF sorting = "merge" THEN Len(stack) - 2 ELSE Len(stack)

\* Nodes whose link list_sort still follows: what the last node of the merged
\* part leads to is p1 or p2, or will be.
Linking == DOMAIN data \ {pcur_item}

\* The ways on which list_sort comes to node n: from another node, at the head
\* of a run, or as the rest of the list, the merged part or a rest of the runs
\* that are being merged.
WaysTo(n) ==
  {<<"link", m>> : m \in {m \in Linking : next[m] = n}}
  \cup {<<"run", i>> : i \in {i \in Whole : stack[i].item = n}}
  \cup {<<"rest", i>> : i \in {i \in 1 .. 4 : <<p, res, p1, p2>>[i] = n}}

\* Whatever links have been moved, list_sort comes to each row of the list on
\* exactly one way, and no links go round in a circle, with no way into it from
\* outside: it loses no row, repeats none and makes no cycle.
NoneLost ==
  sorting # "off" =>
    /\ \A n \in DOMAIN data : Cardinality(WaysTo(n)) = 1
    /\ \A S \in (SUBSET DOMAIN data) \ {{}} :
         \E n \in S : \A m \in S \cap Linking : next[m] # n

\* A page is locked only while the index is open, unless the executor has given
\* the query up.  The destructor closes the index before the query, so this
\* needs the automaton to have closed its cursor before any call gets there.
PageUnderRelation == page # NoPage /\ pc # "stopped" => relation

\* Nothing is held once the lookup has ended, and of a listed lookup the
\* executor never sees a locked page: it may go on to write to the index
\* itself, or stop asking, between any two rows.
NothingHeld ==
  /\ pc \in {"done", "stopped", "aborted"} => ~ relation
  /\ pc \in {"done", "aborted"} => page = NoPage
  /\ kind = "listed" /\ pc \in {"row", "stopped"} => page = NoPage

\* What the automaton had in coords[] when it returned its i-th row.
Reported(i) ==
  LET decoded == {j \in 1 .. i : answer[j] \notin Solid}
  IN  IF decoded = {} THEN Corner
      ELSE answer[CHOOSE j \in decoded : \A k \in decoded : k <= j]

\* In a listed lookup a row keeps, through the list and its sort, the coordinates
\* the automaton reported with it.
RowsKeepCoords ==
  kind = "listed" => \A h \in Range(handed) : \A i \in DOMAIN answer :
    answer[i] = h.iptr => h.coords = Reported(i)

\* Where a row stands: among all of them by block and offset in a listed lookup,
\* among the automaton's otherwise.
Block(t) == t.bi_hi * 2 ^ 16 + t.bi_lo

UpTo(t) ==
  {u \in Range(answer) :
     \/ Block(u) < Block(t)
     \/ Block(u) = Block(t) /\ u.ip_posid <= t.ip_posid}

Place(t) ==
  IF kind = "listed"
    THEN Cardinality(UpTo(t))
    ELSE CHOOSE i \in DOMAIN answer : answer[i] = t

\* Each kind of lookup is a scan of the automaton's rows: all of them are handed
\* to the executor, each once, those of a list in the order of the table, and
\* the lookup ends only when all have been.
Scan ==
  INSTANCE ExtentScan WITH
    exact    <- TRUE,
    size     <- Len(answer),
    wanted   <- DOMAIN answer,
    returned <- [i \in DOMAIN handed |-> Place(handed[i].iptr)],
    done     <- pc = "done"

ImplementsScan == Scan!Spec

\* A backend that waits for a leaf gets it in the end while a listed lookup
\* runs, even if the executor never calls again.
WriterProceeds == kind = "listed" /\ waits # NoPage ~> waits = NoPage

\* A call that has been made returns or fails.
LookupReturns ==
  pc \in {"scan", "sort", "emit", "closing"}
    ~> pc \in {"row", "done", "aborted"}
====
