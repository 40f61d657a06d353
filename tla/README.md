# A verification of zcurve

zcurve is a PostgreSQL extension for spatial lookups. It interleaves the bits
of two or three 32-bit coordinates into one key (the Z-curve), stores the key
as a `numeric` in an ordinary btree index, and finds the rows of a box by
walking the parts of the index the box is made of. This directory holds TLA+
models of it, TLC runs over small instances, and proofs for instances of any
size.

Line numbers are those of the C sources beside this directory.

## 1. The system

| part | state | operations | interacts with |
|---|---|---|---|
| key operations, `bitkey.c` | none (values of `bitKey_t`) | compare, `between`, `getBit`, `setLowBits`, `clearLowBits`, to and from coordinates, to and from numeric; one table of functions per number of coordinates | `numeric` of PostgreSQL, whose private storage format `ex_numeric.h` copies |
| query automaton, `sp_query.c` | queue of subqueries, free list, copies of the cursor's keys, flags | `moveFirst`, `moveNext`, both ending in `findNextMatch` | key operations; the cursor, by calls |
| btree cursor, `sp_tree.c` | buffer (locked and pinned page), offset, last offset, keys, row pointer | `move_first`, `move_next`, `try_move_next`, constructor, destructor | pages of the index, shared with every other backend and with vacuum |
| SQL functions that make keys, `zcurve.c` | none | `zcurve_val_from_xy`, `zcurve_num_from_xy`, `zcurve_num_from_xyz` | key operations; the btree that indexes the result |
| set returning functions, `zcurve.c` | a context that survives from call to call, the list of results | one call per row (`*_tidonly`), or all rows on the first call, sorted by row pointer | automaton, list sort, the executor that calls them |
| list merge sort, `list_sort.c` | a stack of sorted runs | `list_sort` | the result list |

What is hard here is not in one function. The automaton decides from three
sources that must agree: the order of the numerics in the index, the order of
the keys in C (`bitKey_cmp`) and the partial order of boxes
(`bitKey_between`). Its loops end only because splitting uses up bits. It keeps
copies of cursor fields which some fetches refresh and others do not. The
cursor releases and takes page locks between two of its own instructions. The
executor may stop calling at any time. `PROJECT.json` lists these hazards
line by line, with the properties that cover them or the reason none does.

Correctness, part by part:

* keys: coordinates come back as they went in; different points have different
  keys; index order and key order are one order;
* automaton: a lookup returns every row of the box, none twice, in index order,
  with its own coordinates, and none outside the box; every call returns; memory
  is bounded by the width of a key;
* cursor: it visits the entries of the index in order, whatever other backends
  do to the pages; it holds at most one page;
* set returning functions: whatever the executor does, resources are released
  and the result is what the automaton found;
* list sort: a sorted permutation, within the 32 places of its stack.

## 2. The modules

    ZKey ── Bit2Key, Bit3Key ── BitKey ──┬── SpQuery ── SpQueryProps ── SpQueryInv
                                         │                 │ INSTANCE ExtentScan
                                         └── KeyPath
    ScanCursor ── ScanCursorInv
    Lookup ── LookupInv      (Lookup: INSTANCE ListSort, INSTANCE ExtentScan)

    proofs:  KeyProofs ──┬── SubQueryProofs ── SpQueryProofs ── CoverProofs
                         └── KeyPathProofs
             ScanCursorProofs
             LookupProofs ── SortProofs
    TLC:     MCGrid ── MCSpQuery, MCKeyPath;  MCScanCursor;  MCLookup

**ZKey, Bit2Key, Bit3Key, BitKey** model `bitkey.c`. A word is the set of the
positions of its one-bits: masks and shifts become set operations, and the order
of two words is decided by the highest bit they differ in (`Less`). So nothing
is lost of what the code does to bits, and the proofs about the automaton need no
arithmetic of powers. Only the digits of a numeric do: `Num` is the number a word
stands for, added up bit by bit with the powers of two (`NumBelow`, `Power`).
`Dims`, `CoordBits` (32 in the code) and `WordBits` (64) are constants; the
ratios that matter are kept in every instance: a plane's key fills a word, a
space's key fills a word and a half and is cut into two halves by `between`.
Kept with care:

* `getBit` returns not a bit but the word shifted right and cut to an `int`, so
  the splitting loop compares windows of half a word;
* `setLowBits` and `clearLowBits` work on the bits of one coordinate only;
* `bit3Key_fromCoords` shifts a 64-bit word by 72 and 84. That is undefined; the
  processor takes the count modulo 64, a compiler that folds it may give zero.
  `WrapsShift` is either, and the actions choose;
* `bit3Key_fromLong` reads the stored digits of a numeric, of which trailing zero
  digits have been dropped, and does not look at the weight; with fewer than five
  digits it calls `numeric_int8`, which raises an error for a wide value.

PostgreSQL's `numeric_cmp`, `int8_numeric` and `numeric_int8` are not part of the
repository and are modelled from how they are used (`external` in the map).

**SpQuery** models `sp_query.c` and, as far as the automaton can see it on an
index that does not change, the cursor of `sp_tree.c`. One step is one iteration
of one of its loops:

| `pc` | the code | actions |
|---|---|---|
| `start` | before `moveFirst` | `MoveFirst` |
| `find` | head of the loop of `findNextMatch` (313) | `QueryFind`, `QueryFindFails`, `QueueEmpty` |
| `split` | splitting loop (324-356) | `SplitQuery`, `SplitDone`, `SplitRunsAway` |
| `match` | matching loop (358-390) | `MatchSolid`, `MatchKey`, `MatchSkips`, `MatchExhausted` |
| `row` | the last call returned 1 | `MoveNext` |
| `next` | loop of `moveNext` (219-263) | `NextSolid`, `NextFails`, `NextKey`, `NextPageExhausted` |
| `done` | the last call returned 0 | none |
| `lost` | the loop over `curBitNum_` passed bit 0 | none |

`index` is the index in its order, `pageEnds` says where its leaf pages end
(`offset_ == max_offset_`), `pos` is the entry the cursor is on. `currentKey`
and `lastKey` are the automaton's copies. They are refreshed exactly where the
cursor decodes the keys: raw moves leave both, a move within a page leaves
`lastKey`. `free` is the length of the free list. `rows` is a history
variable: what the calls have returned, with the contents of `coords[]` and
whether the row came from a solid subquery.

The branch of `moveNext` for a finished subquery (line 214) is dead code: a call
never returns a row with `subQueryFinished_` set. This is part of the invariant
(`CursorInv`) and proved.

**SpQueryProps** states the properties, **SpQueryInv** the inductive invariants: those
of lookups with small keys (`IInv`, `CInv`, `XInv`) and those of every lookup
(`ShapeInv`, `OnceInv`).
**ExtentScan** is the abstract specification: a lookup returns entries by
ascending number, passes over no wanted one, ends when none is left, and, if
`exact`, returns only wanted ones.

**ScanCursor** models `sp_tree.c` at the grain at which other backends see it. The
cursor locks one page at a time; each action is what happens from the moment a page
is locked to its release, or to the return of the call:

| `pc` | the code | actions | page locked |
|---|---|---|---|
| `idle` | constructed, or destroyed | `MoveFirst` | none |
| `down` | `zcurve_search_2d` has read a downlink (327) | `Land` | none |
| `step` | `step_forward` has released a page (395) | `Step` | none |
| `back` | it has looked at the next page (430) | `Back` | none |
| `on` | the last call returned 1 | `MoveNext`, `Peek`, `MoveFirst`, `Close` | `buf` |
| `end` | the last call returned 0 | `MoveFirst`, `Close` | `buf` |

The writers are PostgreSQL's and external: insertion, the two steps of a split (the
new page, then its downlink; a crash may leave the second undone), vacuum's removal
of entries, and the two steps of a page deletion. They wait for the page the cursor
has locked and for no other. Of the tree there is one internal page. A deeper tree
has the same race on each level, with the same outcome, a leaf too far to the left.
Entries are numbers in the order of a page, several of which may have one key. The
offset is abstracted to the entry it points to and to whether it is the last one
(`more`); what `step_forward` reads on an empty page is `NoItem`. `seen`, `stable`,
`calm` and `walk` are history: what has been read, what was there all along, whether
anybody wrote since the walk began, and what was read, in its order, since somebody
last did.

SpQuery's atomic cursor is justified by `ExactWalk` and `PeekTrue`, which hold while
`calm`. `ExactWalk` says that at any moment what has been read are the first of the
entries from the start on, in the order in which the index has them (`Before`), with
none between them left out, that at the end they are all of them, and that the cursor
is on the one read last. One thing SpQuery's cursor never does: on a page that vacuum
has emptied this one stops with no entry, reading a slot that is not there
(`sp_tree.c:409`). `ExactWalk` says so and `PeekTrue` excepts such pages. With writers,
what remains is `NothingSkipped`.

**ScanCursorInv** is the cursor's inductive invariant `ScanInv`: there is an order of
all pages ever used (`Ordered`) with which the chain of pages (`ChainInv`), their
ranges of keys (`RangeInv`) and the downlinks (`ParentInv`) agree, the cursor is on a
used page (`PlaceInv`), what is due and unseen lies ahead of it (`AheadInv`), and while
nobody has written nothing else does (`CalmInv`). No variable keeps the order.

**KeyPath** follows rows from `zcurve_num_from_xy(z)` through the numeric in the
index and the cursor's key back to coordinates.

**Lookup** models the set-returning functions: what one lookup does over all the
calls the executor makes. `kind` is which functions it stands for. "tidonly"
(`zcurve_2d_lookup_tidonly`, `zcurve_3d_lookup_tidonly`) returns each row pointer as
the automaton finds it; "listed" (`zcurve_2d_lookup`, `zcurve_3d_lookup`) collects all
rows in its first call, sorts them and hands them out.

| `pc` | the code | actions | index open | page locked |
|---|---|---|---|---|
| `idle` | before the first call | `FirstCall` | no | no |
| `scan` | about to call `moveFirst` or `moveNext` | `FetchRow` and `NoRow`, `FetchItem` and `StartSort` | yes | perhaps |
| `sort` | in `list_sort` | `Sort`, `Sorted` | yes | no |
| `emit` | at `if (pctx->cur_)` (350) | `Emit`, `EmitNothing` | yes | no |
| `row` | a row has been returned | `NextCall`, `Stop` | yes | tidonly |
| `closing` | in the destructor | `CloseIndex`, `CloseQuery` | until closed | no |
| `done` | no more rows | none | no | no |
| `stopped` | the executor gave the query up | none | no | tidonly |
| `aborted` | an error ended the transaction | none | no | no |

The automaton is taken for what SpQuery and ScanCursor show of it: it returns the rows
of `answer` in its order, none twice, keeps a leaf locked from row to row, moves to the
right only, and has none locked once it has returned 0. `coords` is the buffer it fills
for decoded rows and leaves alone for those of solid subqueries (`Solid`), so the model
has the disagreement `stale_coords` shows; `RowsKeepCoords` says that list and sort add
none of their own. Outside are the executor (`NextCall`, `Stop`), an error anywhere in
the transaction (`Abort`), and another backend that wants to write to a leaf
(`WriterComes`, `WriterGets`). The tidonly functions keep a content lock while the
executor has control, and when the executor gives the query up nobody releases it. That
is the code's way of working and not contradicted by any of its comments, so it is not
listed as a finding; `NothingHeld`, `PageUnderRelation` and `WriterProceeds` name the
cases they leave out. A function in FROM is run to its end by the executor, so a query
is given up only when the function stands in the target list or in a cursor.

**ListSort** models `list_sort.c` link by link. A node is a number, in order of
allocation, `next` its link. The loop of `list_sort` is `Push`, `MergeBegin`,
`SortDone`; that of `intersect_sorted` is `MergeStep`, and `MergeEnd` links the rest and
pops the stack. Both loops that merge have one guard, `MustMerge`. `first` is a history
field of a run: the node it was begun with. The comparison is a parameter, which Lookup
binds to `res_item_compare_proc`.

`NoneLost` says that the runs, the parts under the merge and the list not yet pushed
hold every node once: each node is where one of them begins or the target of one link,
not both and not twice, and no set of nodes is a circle.

**LookupInv** is the inductive invariant of the calls, in two layers. `LInv` is enough
for locks and stack: the locks (`HeldInv`), what nodes hold (`DataInv`), where links
lead (`LinkInv`, `SortInv`), how long runs are (`RunInv`). `SInv` adds what the sort is
for: each node is reached in one way (`OnceInv`), links of what is pushed ascend
(`AscendInv`), each link of a list that is handed out leads to the next row of the
table (`OrderInv`), and what has been handed out is all that comes before `cur`
(`HandedInv`).

## 3. The runs

| run | instance | result |
|---|---|---|
| `plane` | 4x4 points of 3-bit coordinates; 64 extents, aligned, unaligned, inverted; up to 2 entries, all pagings | all of SpQueryProps that holds in the plane, the proofs' invariant `XInv`, that rows come without gaps (`PrefixReturned`), the abstract scans, `CallReturns` |
| `signed` | coordinates 0, 1, 6 of 3 bits: with and without the top bit; all extents; up to 3 entries | the order of the queue, the bound of nodes, fresh keys and no repetition hold even so; the proofs' invariant `OnceInv` |
| `cube` | three 4-bit coordinates below 3 | the automaton is right in space while keys fit half of a key; the proofs' invariant `IInv` |
| `key_space` | two rows in space, keys from 0 to two words | types, round trip, distinct keys, order among int8 values, errors only beyond them |
| `writers` | one cursor, three pages of two entries, three entries of which two share a key, two starts | nothing that was there all along is passed by; without writers the walk is exact, empty pages apart; the proofs' invariant `ScanInv`; calls return |
| `lookup` | up to 7 rows, 4 places for runs, 2 pages, one writer | both kinds of lookup hand out what they should, and implement the abstract scan by the order their rows come in; the sort loses no row and its stack does not fill; the proofs' invariant `SInv`; locks are given back; calls return and the writer gets its page |
| `outside`, `stale_coords`, `runaway`, `column`, `weight`, `moveright` | small instances; `moveright` is `writers` with three different keys | each shows one thing a comment says and the code does not do |

*Bounds.* `MaxEntries` is the only bound on behaviour (a lookup does not add
entries). Two entries are the least number with a page boundary between them, an
entry before the subquery and one in it, and equal entries on two pages; the
theorems cover every number. `signed` has three: what it is about, rows that are found
in another order than the index has them in, takes a negative row, one that is not, and
a third to come back to (with two, rows still ascend). Three-bit coordinates with the top bit clear give
squares of side 1, 2 and 4, two levels of splitting above the last bit, and
cubes that are aligned and that are not. In three dimensions `NBase` and
`FewDigits` keep the code's relations (10000, 5 and 64 bits there): half a key is at
most `NBase^(FewDigits-1)`, an int8 is below `NBase^FewDigits`
(`NumericAssumption`), so that errors and dropped digits happen where they do in the
code. `Points` and `Extents` come from `MCSpQuery`.
Deadlock is not checked for SpQuery: a lookup ends. For the cursor, three pages
let it leave one page for a second while a third is put between them or the second
is deleted; two entries fill a page, and the two that share a key come to lie on
both sides of a page boundary. Deadlock is checked there: a call is never stuck
among the pages.

For the calls, seven rows are the most a stack of four places takes
(`MaxRows < RunSize[MaxSortStack]`, 8): they make three runs of 4, 2 and 1 nodes. All
orders of up to four of five rows are tried, and 42 orders of all seven; the row
pointers are such that each of their three parts decides some comparison against the
others. Deadlock is not checked there: a lookup ends.

The plane has no run of its own for the way of keys into the index and back: what it
would check is proved for every width (section 4), and `plane` decodes keys.

*Fairness.* `FairSpec` asks weak fairness of `Run`, the steps of a call that has
been made: sequential C code runs until it returns. Neither `MoveFirst` nor
`MoveNext` is fair, since nothing makes the executor call again. In ScanCursor the
same is asked of `Running`, a call under way; writers hold their locks for one step,
as content locks are held, and are not fair. In Lookup `Run` is again the steps of a
call, and `WriterGets` is fair because a waiter on a lock that is free is granted it;
the executor's `NextCall`, `Stop` and `Abort` are not. `CallReturns`, `FetchReturns` and
`LookupReturns` start from every place a call can be at, the loop of `moveNext` included,
and end where it has returned. `WriterProceeds` therefore holds
even for an executor that never calls again.

*What the violations show.*

* `outside`: `testSolidity` asks for equal sides that are a power of two, not for
  an aligned corner. The square from (1,0) to (2,1) is "solid", and the interval
  of keys between its corners holds points outside it.
* `stale_coords`: rows of solid subqueries leave `coords[]` alone, so the 2D and 3D
  lookups report them with the coordinates of an earlier row.
* `runaway`: with the top bit set in a key (a negative coordinate), signed order in
  the index and unsigned order in `bit2Key_cmp` disagree, the splitting loop finds no
  bit to split at and does not end.
* `column`: `bit3Key_between` compares the two halves of each coordinate separately
  and rejects rows whose coordinate is between the bounds while one half is not.
* `moveright`: the scan key carries a procedure that answers yes or no where
  `_bt_moveright` expects less, equal or greater, so a leaf that splits after its
  downlink was read is not followed to the right. In the run the walk is asked to start
  at the greatest of three different keys, and the leaf with the two others splits
  between the downlink's read and the leaf's lock. Its left half has nothing from the
  start on, so `step_forward` takes the first entry of the right half, which lies below
  the start. `StartRespected` speaks of indexes in which no page has been deleted, where
  only a missed move to the right can bring this about. `NothingSkipped` shows that
  nothing is lost by it, and the automaton compares keys with the subquery's box,
  but a solid subquery does not.
* `weight`: a key that is a multiple of 10000 loses its trailing zero digits.

More is known and listed as hazards. `bit3Key_cmp` compares the low word first: keys
beyond 64 bits are out of order, the reason why `OrderKept` speaks of int8 values and
`cube` stays in one word, so no property covers it. The undefined shifts of
`bit3Key_fromCoords` corrupt coordinates from 2^24 on. The cursor stops on empty pages,
and a tidonly lookup keeps its page locked between two rows and after its executor has
stopped: the models do both, and the properties name them as what they leave out.

*Mutants.* Each property of each passing run is paired in `PROJECT.json` with a
changed definition (marked "Mutant" in the modules) that makes TLC find it
violated under the same configuration.

## 4. What is proved

By TLAPS. The first three items are for every width of words, number of points, set of
extents and length of index; the fourth for every set of entries and keys, every number
of blocks and every size of a page; the last for every set of rows, every order of them
and every size of the stack.

* **Automaton, any keys**. `SpQueryProofs!ShapeInvariance` proves `ShapeInv` of every
  lookup, whatever its points, extent and index are, and from it type correctness,
  `NodesBounded` and `KeysFresh`, and in the plane `QueueOrdered`. `OnceInvariance` and
  `RowsOnce` prove that no row is returned twice (`OnceInv`, `NoneTwice`), also among
  negative coordinates, where rows do not come in index order. They have two
  hypotheses. Keys are read back from their numerics as they were stored
  (`KeysReadBack`), which is so in the plane, and in space for keys that are int8 values
  (`Int8KeysReadBack`; coordinates below 2^21). And the low key of an extent does not
  have the sign bit alone (`ExtentsStraight`), which is so for every extent that is not
  turned round when its coordinates are compared as unsigned ones, as the code does
  (`OrderedStraight`). An extent in SQL from y = -1 to y = 1 is turned round.
* **Automaton, small keys** (`SmallPoints`). In the plane no point sets the top bit of
  the word, that is y < 2^31; in space every key fits half a key, that is coordinates
  are below 2^16. `SpQueryProofs!Invariance` proves the inductive
  invariant `IInv`, and from it `NoRunaway`, `RowsAscend` and, in space, `QueueOrdered`.
  `CoverProofs` proves the invariants
  `CInv` and `XInv`, from the first `Complete`, `PrefixReturned` and `DecodedRowsExact`
  and that the automaton implements the covering scan, and from the second that it
  implements the exact scan when the extent starts at the origin (`Anchored`).
* **The way of keys into the index and back**. `KeyPathProofs`, with no hypothesis on
  the coordinates: types, `Readable` (an error comes only from a key wider than an int8)
  and `OrderKept` (among int8 values the btree's order is the automaton's). For any
  coordinates in the plane, and in space for those below 2^24 (`CoordsFit`: beyond,
  `bit3Key_fromCoords` shifts by more than a word): `KeysDistinct`, and `RoundTrip` if
  the numerics of their keys lose no zero digits that are read (`CoordsKeepDigits`), a
  condition run `weight` shows to be needed. For coordinates below 2^21 in space, and
  all in the plane, `RoundTrip` holds with no word on digits, and nothing ends in an
  error (`SmallCoordsComeBack`).
* **Cursor among writers**. `ScanCursorProofs`: `ScanInv`, and from it type
  correctness, `NothingSkipped` whatever the writers do, and `ExactWalk` and `PeekTrue`
  while they do nothing.
* **Calls and sort**. `LookupProofs`: `LInv`, and from it type correctness,
  `StackFits`, `PageUnderRelation`, `NothingHeld` and `RowsKeepCoords`. `SortProofs`:
  `SInv`, and from it `NoneLost` and that a lookup of either kind implements the exact
  scan of its rows, in the automaton's order or in that of the row pointers.

The argument. None of the properties is inductive alone. `NoRunaway` needs that
the head's bounds agree above `curBitNum_` (`BoundsInv`), so that as long as
`lastKey < high` and the cursor is at or after `low` (`CursorInv`: the cursor's
key is fresh and `low <= current <= last`), the bounds differ and do so in a bit
not yet used: `low < high`. `CursorInv` is kept by a split because the lower half
keeps `low`, and by a release because the next thing that happens is `QueryFind`.
In space `QueueOrdered` follows from `SplitParts`: the halves of an interval split at the
highest differing bit are intervals one after the other. `RowsAscend` needs that
what was returned lies before what the queue stands for (`RowsInv`).
`NodesBounded` counts one node for each bit given up (`NodesInv`).

None of this can be said of keys with their top bit set, since the bounds of a subquery
and the cursor are then in no common order, and of turned extents not even that a
subquery's bounds agree. What remains is in the queue itself. `ShapeInv` says of two
subqueries not that the one ends below the other but by which bit it does (`Link`): one
that splitting no longer changes in either. A split at bit b changes bits up to b alone
and sets the two halves apart at b, which then is used up, so every link stays. The
bounds of one subquery agree above the bits left, as before, or have such a link the
wrong way round and keep it for good. The bound of nodes, the fresh keys and, in the
plane, the order of the queue follow without a word on the index.

`OnceInv` applies the same to the rows that have been returned: each is below every
subquery still queued by a bit splitting no longer changes (`Under`) or, for the
subquery the cursor is in, not after the cursor in the btree's order (`UnderInv`). What is
returned next is at or after the low key of the head in the btree's order (`PlaceInv`)
and is compared with its high key in the same order, or with both as words. The two
orders disagree in the sign bit alone. If both bounds have it, or neither, or the high
key only, either comparison puts the row between them as words (`MatchInside`), and so
it is below the rest of the queue, by the links, and not under the head, as a row returned
before its turn would be. The case left is the low key that has it alone (`Unturned`),
with an interval of the btree that is not empty, in which a solid subquery may
match; run `signed` checks `NoneTwice` for such extents, too.

Completeness adds `CoverInv`: each wanted entry has been returned, or is ahead of
the cursor in the head's box, or in the box of a later subquery. The one fact of
geometry it needs is `BoxSplit`: a point in a box of keys is in the box of exactly
the half its bit `b` puts it in, together with `BoxInterval` (a box lies between
its corners in key order) and, for extents that want anything at all, that no
subquery's box is empty (`ProperInv`), so that a solid subquery's interval holds
its box. For `DecodedRowsExact` the other half of `BoxSplit` is needed: the boxes of both
halves lie in the box that was split (`HalvesWithin`), so that every subquery's box lies
in the extent (`WithinInv`). It says nothing of solid subqueries, whose rows the code
compares with the high key only (run `outside`).

For an extent that starts at the origin they are exact all the same. Splitting keeps
boxes aligned (`Aligned`): where the corners differ in a bit of a coordinate, the low one
has no bits at or below it; the upper half of a split gets its low corner by clearing
just these (`HalvesAligned`). Without such bits the subtraction of the corners never
borrows (`NoBorrow`), so equal words of ones as differences say that the corners have
the same high bits, and below them one has all zeros and the other all ones
(`SolidBits`). The keys between two such corners are those of the box (`SolidBox`). That
`testSolidity` asks for one length of all sides is what makes the low bits of the key
whole; its mutant accepts 2 by 4, and XInv fails.

Both dimensions have one proof. What the automaton needs of the operation table is
stated by dimension-free lemmas: `CompareSmall` (keys of `SmallKeys` compare as words),
`BoxSplit`, `BoxInterval` and `SplitParts`. In space the first holds because a small
key has no high word for `bit3Key_cmp` to put second, and `between` sees such a key in
its low half alone. For that half a key must fit a word, which is the
assumption that two words hold a key of three coordinates (`WidthAssumption`).

`KeyProofs` holds the theory of words as sets: two different sets of positions have
a highest difference (by well-founded choice of a maximum of a bounded set), `Less`
is a strict total order, decoding inverts encoding. It also proves that words are
numbers: `Less` is the order of `Num` (`NumOrder`), the word of a word's number is the
word (`WordOfNum`), and the processor's subtraction, which the model states bit by bit
(`Minus`), is subtraction modulo the width (`MinusSubtracts`). This takes powers and
digits by induction. The library's induction theorems have an operator as parameter,
so `Induction` is stated for subsets of the naturals instead, proved by the choice of
a least counterexample; and `Recursion`, that a recursive function over the
naturals satisfies its equation, is proved from it for each step function over a set of
values. From there: a number below a power of `NBase` has no more digits than that
power (`DigitsFit`), none of them is dropped unless the base divides it
(`NothingDropped`), so a key comes back from its numeric if it loses no digits
(`KeptDigits`), if it is an int8 value (`Int8Keys`) or fits half a key (`HalfKeys`).
`WordsAreNumbers` in MCGrid has TLC evaluate what is left outside the proofs, the
instances' own `Word`.

`StackFits` is the theorem of LookupProofs with an argument of its own. Sizes of runs
are a constant function `RunSize` assumed to begin with 1 and to double from level to
level, and to be larger than `MaxRows` at level `MaxSortStack`: 2^31 rows for the 32
places. As long as nodes are left to push, a run of level l has exactly `RunSize[l]`
nodes, which is stated without counting a chain: nodes are pushed in descending order of
their numbers, so the difference of the `first` of two neighbouring runs is the length
of the upper one (`RunInv`). Levels descend strictly but for the two topmost, so the runs
from i to j hold at least what runs of successive levels would (`SpreadStep`,
`RunSizeSpreads`), and a full stack would hold more nodes than there are. A run that
grows to level `MaxSortStack` is excluded in the same way. For the pointers, what has
been pushed is above `p` and never leads back below it (`SortInv`), so no merge touches
the rest of the list.

`SInv` does without chains, whose definition would be recursive. A merge moves one node
at a time, and what it must keep is that each node has one way in (LookupInv's `OnceInv`) and that
links ascend (`AscendInv`); what a run or a part holds is never named. That no nodes are
a circle then follows, since a circle would have a member that comes first in the order
of the table and a link leads to it from one that comes before. When the sort is over
there is one root. By minimal counterexample, no link jumps over a row: the first row
that is jumped over is either the root or the target of a link from a row before it,
which is not jumped over and has but one link (`SortedChain`). `OrderInv` says this. For
`ImplementsScan` the abstract scan takes a row's place in the order of the table, the
number of rows that do not come after it, for its key. That places are a bijection onto
`1 .. Len(answer)` follows from the theorems of the library on finite injections.

The cursor's theorems rest on the order of pages. A split puts the new page directly to
the right of the old one in it; a deleted page keeps its place, and its link still leads
to the right and over no page in the chain. So a cursor on a page that has been split,
emptied or deleted finds to its right everything that was to the right of its place when
it came there, and what a split moves, it moves to the right (`AheadInv`). That the
descent may land too far left (run `moveright`) does no harm to this, and that is all
the code has to offer against it. `calm` walks need in addition that what was read lies
behind the place of the walk (`BehindInv`), that no page ahead of it holds a key below
the start (`BeyondInv`) and that each entry read is left of the next (`Ascending`). For
`ExactWalk`, what was read is then left of what is due and was not (`ReadIsLeft`), in the
order of the pages. In a tree with no split half done that is the order of the downlinks
(`LeftBefore`), which no longer mentions the order no variable keeps.

Only model-checked: liveness (`CallReturns`, `FetchReturns`, `LookupReturns`,
`WriterProceeds`; out of reach of the prover), and `NoneTwice` for turned extents across the sign (run `signed`).
In space `XInv` is proved but no run checks it: TLC enumerates the keys of each solid
interval and takes too long. `IInv` is checked in both dimensions, `OnceInv` in the plane.

## 5. Not modelled, and the plan

Not modelled: error wording, `toStr`, memory contexts (but for the free list),
`max_calls` (set and never read), the forming of tuples, a rescan (the executor then
starts a lookup of its own), the installation scripts, tuple visibility (the extension
does not test it), reuse of deleted index pages (PostgreSQL defers it past the
transactions that may still be on their way to them), `zcurve_val_from_xy` (its bigint
is read by nothing here), the `#if 0` code and the build without `WITH_HACKED_NUMERIC`
(`bitkey.c:16` defines it). That the tidonly functions build their query for three
coordinates whatever the index has (`zcurve.c:216`) is seen by reading: an instance of
BitKey has one number of coordinates for index and query.

Still to do:

1. The lookups of `Lookup` over the automaton of SpQuery itself instead of over what its
   theorems say of it.
2. A proof of `NoneTwice` for extents whose low key alone has the sign bit.
