---- MODULE ScanCursor ----
(***************************************************************************)
(* The index cursor of sp_tree.c, page by page.  The cursor read-locks one *)
(* page at a time and releases it before it locks the next one, so between *)
(* two pages the server's other backends insert, split, vacuum and delete  *)
(* pages.  SpQuery takes the cursor for one atomic step over a fixed tree; *)
(* here is what that step really is.                                       *)
(*                                                                         *)
(* The tree belongs to PostgreSQL and its writers are external: a chain of *)
(* leaf pages, and one internal level that holds their downlinks.  Pages   *)
(* that are deleted are not reused, as the backend's own transaction keeps *)
(* them from it.                                                           *)
(***************************************************************************)
EXTENDS Integers, FiniteSets, Sequences, SequencesExt

CONSTANTS
  Entry,      \* the index entries that may exist, in the order of a page
  Key(_),     \* the key of an entry; entries may share one
  Blocks,     \* the blocks the index may use
  PageSize    \* the entries a leaf page holds

ASSUME EntryAssumption ==
  /\ Entry \subseteq Nat \ {0}
  /\ IsFiniteSet(Entry)
  /\ \A e \in Entry : Key(e) \in Nat \ {0}
  /\ \A d, e \in Entry : d < e => Key(d) <= Key(e)

ASSUME BlocksAssumption ==
  /\ Blocks \subseteq Nat \ {0}
  /\ IsFiniteSet(Blocks)
  /\ PageSize \in Nat \ {0}

VARIABLES
  items,      \* the entries on each block
  low,        \* the key of the downlink to a block: none smaller is on it
  next,       \* btpo_next
  kind,       \* what each block is
  parent,     \* the internal level: the blocks with a downlink, in order
  pc,         \* where the cursor's code is
  buf,        \* buf_: locked when pc is "on" or "end", else the one to lock
  old,        \* old_block_num while a peek is under way
  cur,        \* cur_val_ and iptr_: the entry read last
  more,       \* offset_ < max_offset_
  ahead,      \* next_val_, as a peek reads it
  start,      \* init_zv_: the key the walk starts from
  seen,       \* history: the entries read since MoveFirst
  stable,     \* history: the entries that were there at MoveFirst and still are
  calm,       \* history: no writer since MoveFirst, and no split half done then
  walk        \* history: what was read, in its order, since somebody last wrote

tree   == <<items, low, next, kind, parent>>
cursor == <<pc, buf, old, cur, more, ahead, start>>
past   == <<seen, stable, calm, walk>>
vars   == <<tree, cursor, past>>

NoBlock == 0    \* P_NONE, InvalidBuffer
NoItem  == 0    \* no entry, or what lies past the last one of an empty page

Kinds == {"free", "leaf", "fresh", "half", "deleted"}
Keys  == {Key(e) : e \in Entry}

-----------------------------------------------------------------------------
(* The tree.                                                               *)

Present == UNION {items[b] : b \in Blocks}

\* P_IGNORE.
Ignored(b) == kind[b] \in {"half", "deleted"}
Live(b)    == kind[b] \in {"leaf", "fresh"}

\* Every live leaf has its downlink: no split is half done.
Settled == \A b \in Blocks : kind[b] # "fresh"

\* Mutant of FirstItem: the last entry of the page.
FirstItem_last(b, e) == e \in items[b] /\ \A d \in items[b] : d <= e

\* The first entry of a page.
FirstItem(b, e) == e \in items[b] /\ \A d \in items[b] : e <= d

\* The leaf's binary search: the first entry of the page at s or above.
Binsrch(b, s, e) ==
  /\ e \in items[b]
  /\ Key(e) >= s
  /\ \A d \in items[b] : Key(d) >= s => e <= d

\* Mutant of Downlink: the last downlink not above s.
Downlink_upTo(s) ==
  parent[CHOOSE i \in DOMAIN parent :
           /\ i = 1 \/ low[parent[i]] <= s
           /\ \A j \in DOMAIN parent : low[parent[j]] <= s => j <= i]

\* The internal page's: its last downlink below s, the first one counting as
\* below everything.
Downlink(s) ==
  parent[CHOOSE i \in DOMAIN parent :
           /\ i = 1 \/ low[parent[i]] < s
           /\ \A j \in DOMAIN parent : low[parent[j]] < s => j <= i]

-----------------------------------------------------------------------------
(* The cursor.                                                             *)

\* The cursor is on the entry e of the page it has locked.
Read(e) ==
  /\ pc' = "on"
  /\ cur' = e
  /\ more' = (\E d \in items[buf] : d > e)
  /\ seen' = seen \cup {e} /\ walk' = Append(walk, e)

\* Mutant of Forward: no test for the rightmost page.
Forward_noEnd ==
  /\ pc' = "step" /\ buf' = next[buf]
  /\ UNCHANGED <<cur, more, seen, walk>>

\* The page is exhausted: release it and go for its right sibling.
Forward ==
  /\ IF next[buf] = NoBlock
       THEN pc' = "end" /\ UNCHANGED buf
       ELSE pc' = "step" /\ buf' = next[buf]
  /\ UNCHANGED <<cur, more, seen, walk>>

\* Mutant of PassIgnored: the same page is looked at again.
PassIgnored_stays == Ignored(buf) /\ buf' = buf

\* The page that was locked is out of use: on to its right sibling.
PassIgnored == Ignored(buf) /\ buf' = next[buf]

\* zcurve_scan_move_first, to the point where the internal page is released.
\* What the cursor keeps of its last walk is never read again.
MoveFirst(s) ==
  /\ pc \in {"idle", "on", "end"}
  /\ IF parent = <<>>
       THEN pc' = "end"  /\ buf' = NoBlock
       ELSE pc' = "down" /\ buf' = Downlink(s)
  /\ start' = s
  /\ cur' = NoItem /\ more' = FALSE
  /\ seen' = {} /\ stable' = Present /\ calm' = Settled /\ walk' = <<>>
  /\ UNCHANGED <<tree, old, ahead>>

\* The leaf is locked.  _bt_moveright passes ignored pages and no others: it
\* takes the scan key's F_INT8LE for a three-way comparison, and its answers,
\* 0 and 1, never read as "greater".
Land ==
  /\ pc = "down"
  /\ \/ /\ PassIgnored
        /\ UNCHANGED <<pc, cur, more, seen, walk>>
     \/ /\ ~Ignored(buf)
        /\ \E e \in items[buf] : Binsrch(buf, start, e) /\ Read(e)
        /\ UNCHANGED buf
     \/ /\ ~Ignored(buf)
        /\ ~\E e \in items[buf] : Binsrch(buf, start, e)
        /\ Forward
  /\ UNCHANGED <<tree, old, ahead, start, stable, calm>>

\* A sibling is locked, for good or, when old is set, to look at.  Its first
\* slot is read without a test that there is one.
Step ==
  /\ pc = "step"
  /\ \/ /\ PassIgnored
        /\ UNCHANGED <<pc, cur, more, ahead, seen, walk>>
     \/ /\ ~Ignored(buf) /\ old = NoBlock
        /\ \/ \E e \in items[buf] : FirstItem(buf, e) /\ Read(e)
           \/ /\ items[buf] = {}
              /\ pc' = "on" /\ cur' = NoItem /\ more' = FALSE
              /\ UNCHANGED <<seen, walk>>
        /\ UNCHANGED <<buf, ahead>>
     \/ /\ ~Ignored(buf) /\ old # NoBlock
        /\ \/ \E e \in items[buf] : FirstItem(buf, e) /\ ahead' = e
           \/ items[buf] = {} /\ ahead' = NoItem
        /\ pc' = "back" /\ buf' = old
        /\ UNCHANGED <<cur, more, seen, walk>>
  /\ UNCHANGED <<tree, old, start, stable, calm>>

\* zcurve_scan_move_next.
MoveNext ==
  /\ pc = "on"
  /\ \/ /\ more
        /\ \E e \in items[buf] :
             /\ e > cur /\ \A d \in items[buf] : d > cur => e <= d
             /\ Read(e)
        /\ UNCHANGED buf
     \/ ~more /\ Forward
  /\ UNCHANGED <<tree, old, ahead, start, stable, calm>>

\* zcurve_scan_try_move_next on the last entry of a page; elsewhere it changes
\* nothing.  The page is released all the same when it is the rightmost one.
Peek ==
  /\ pc = "on" /\ ~more
  /\ old' = buf
  /\ IF next[buf] = NoBlock
       THEN pc' = "back" /\ UNCHANGED buf
       ELSE pc' = "step" /\ buf' = next[buf]
  /\ UNCHANGED <<tree, cur, more, ahead, start, past>>

\* The page left for the peek is locked again, and the cursor's position on
\* it taken up as it was, whatever became of the page.
Back ==
  /\ pc = "back"
  /\ pc' = "on"
  /\ old' = NoBlock /\ ahead' = NoItem
  /\ UNCHANGED <<tree, buf, cur, more, start, past>>

\* zcurve_scan_ctx_DTOR.
Close ==
  /\ pc \in {"on", "end"}
  /\ pc' = "idle" /\ buf' = NoBlock /\ start' = 0
  /\ cur' = NoItem /\ more' = FALSE
  /\ seen' = {} /\ stable' = {} /\ calm' = TRUE /\ walk' = <<>>
  /\ UNCHANGED <<tree, old, ahead>>

-----------------------------------------------------------------------------
(* The writers, external.  Each locks the pages it changes, and so waits   *)
(* for the one the cursor has locked.                                      *)

Unlocked(b) == ~(pc \in {"on", "end"} /\ buf = b)

NewBlock == CHOOSE b \in Blocks : kind[b] = "free"
HasRoom  == \E b \in Blocks : kind[b] = "free"

Written(gone) ==
  /\ stable' = stable \ gone
  /\ calm' = (pc = "idle") /\ walk' = <<>>
  /\ UNCHANGED <<cursor, seen>>

\* The first entry makes the root.
Create(e) ==
  /\ parent = <<>> /\ HasRoom
  /\ LET b == NewBlock IN
       /\ items' = [items EXCEPT ![b] = {e}]
       /\ kind' = [kind EXCEPT ![b] = "leaf"]
       /\ parent' = <<b>>
  /\ UNCHANGED <<low, next>>
  /\ Written({})

\* An entry goes to a page whose range its key is in; either of two when it
\* equals the key between them.
Insert(b, e) ==
  /\ Live(b) /\ Unlocked(b)
  /\ e \notin Present /\ Cardinality(items[b]) < PageSize
  /\ low[b] <= Key(e)
  /\ next[b] # NoBlock => Key(e) <= low[next[b]]
  /\ items' = [items EXCEPT ![b] = @ \cup {e}]
  /\ UNCHANGED <<low, next, kind, parent>>
  /\ Written({})

\* A full page splits: its upper part moves to a new right sibling.
Split(b, e) ==
  /\ kind[b] = "leaf" /\ Unlocked(b) /\ HasRoom
  /\ Cardinality(items[b]) = PageSize
  /\ next[b] # NoBlock => kind[next[b]] # "fresh" /\ Unlocked(next[b])
  /\ e \in items[b] /\ \E d \in items[b] : d < e
  /\ LET n     == NewBlock
         upper == {d \in items[b] : d >= e} IN
       /\ items' = [items EXCEPT ![b] = @ \ upper, ![n] = upper]
       /\ low' = [low EXCEPT ![n] = Key(e)]
       /\ next' = [next EXCEPT ![b] = n, ![n] = next[b]]
       /\ kind' = [kind EXCEPT ![n] = "fresh"]
  /\ UNCHANGED parent
  /\ Written({})

\* Its downlink follows that of its left sibling.
Link(n) ==
  /\ kind[n] = "fresh"
  /\ \E i \in DOMAIN parent :
       /\ next[parent[i]] = n
       /\ parent' = InsertAt(parent, i + 1, n)
  /\ kind' = [kind EXCEPT ![n] = "leaf"]
  /\ UNCHANGED <<items, low, next>>
  /\ Written({})

\* VACUUM removes an entry.
Vacuum(b, e) ==
  /\ e \in items[b] /\ Unlocked(b)
  /\ items' = [items EXCEPT ![b] = @ \ {e}]
  /\ UNCHANGED <<low, next, kind, parent>>
  /\ Written({e})

\* It takes an empty page's downlink away: its range falls to the right
\* sibling.
HalfDead(b) ==
  /\ kind[b] = "leaf" /\ items[b] = {} /\ Unlocked(b)
  /\ next[b] # NoBlock /\ kind[next[b]] = "leaf"
  /\ \E i \in DOMAIN parent : parent[i] = b /\ parent' = RemoveAt(parent, i)
  /\ low' = [low EXCEPT ![next[b]] = low[b]]
  /\ kind' = [kind EXCEPT ![b] = "half"]
  /\ UNCHANGED <<items, next>>
  /\ Written({})

\* And then it takes the page out of the chain.  The page still points right.
Unlink(b) ==
  /\ kind[b] = "half" /\ Unlocked(b) /\ Unlocked(next[b])
  /\ LET left == {l \in Blocks : next[l] = b /\ kind[l] # "deleted"} IN
       /\ \A l \in left : Unlocked(l)
       /\ next' = [l \in Blocks |-> IF l \in left THEN next[b] ELSE next[l]]
  /\ kind' = [kind EXCEPT ![b] = "deleted"]
  /\ UNCHANGED <<items, low, parent>>
  /\ Written({})

-----------------------------------------------------------------------------

Init ==
  /\ items = [b \in Blocks |-> {}]
  /\ low = [b \in Blocks |-> 0]
  /\ next = [b \in Blocks |-> NoBlock]
  /\ kind = [b \in Blocks |-> "free"]
  /\ parent = <<>>
  /\ pc = "idle" /\ buf = NoBlock /\ old = NoBlock
  /\ cur = NoItem /\ more = FALSE /\ ahead = NoItem /\ start = 0
  /\ seen = {} /\ stable = {} /\ calm = TRUE /\ walk = <<>>

Calls ==
  \/ \E s \in Keys : MoveFirst(s)
  \/ MoveNext
  \/ Peek
  \/ Close

Running == Land \/ Step \/ Back

Writers ==
  \/ \E e \in Entry : Create(e)
  \/ \E b \in Blocks, e \in Entry : Insert(b, e) \/ Split(b, e) \/ Vacuum(b, e)
  \/ \E b \in Blocks : Link(b) \/ HalfDead(b) \/ Unlink(b)

Next == Calls \/ Running \/ Writers

Spec == Init /\ [][Next]_vars

\* A call that runs is scheduled; nobody need make another, or write.
FairSpec == Spec /\ WF_vars(Running)

-----------------------------------------------------------------------------

\* Every variable has its type; the pages the cursor may be at exist.
TypeOK ==
  /\ items \in [Blocks -> SUBSET Entry]
  /\ low \in [Blocks -> Keys \cup {0}]
  /\ next \in [Blocks -> Blocks \cup {NoBlock}]
  /\ kind \in [Blocks -> Kinds]
  /\ parent \in Seq(Blocks)
  /\ pc \in {"idle", "down", "step", "back", "on", "end"}
  /\ buf \in Blocks \cup {NoBlock}
  /\ buf = NoBlock => pc \in {"idle", "end"}
  /\ old \in Blocks \cup {NoBlock}
  /\ cur \in Entry \cup {NoItem}
  /\ more \in BOOLEAN
  /\ ahead \in Entry \cup {NoItem}
  /\ start \in Keys \cup {0}
  /\ seen \subseteq Entry
  /\ stable \subseteq Present
  /\ calm \in BOOLEAN
  /\ walk \in Seq(Entry)

\* Whatever splits, insertions and page deletions happen while the cursor has
\* no page locked, it passes no entry by that was there when the walk began
\* and still is: each is read before one with a greater key is, and all of
\* them before the walk ends.
NothingSkipped ==
  LET due == {e \in stable : Key(e) >= start} IN
    /\ pc = "on" /\ cur # NoItem =>
         \A e \in due : Key(e) < Key(cur) => e \in seen
    /\ pc = "end" => due \subseteq seen

\* The index has d before e, once every page has its downlink.
Before(d, e) ==
  \E i, j \in DOMAIN parent :
    /\ d \in items[parent[i]] /\ e \in items[parent[j]]
    /\ i < j \/ (i = j /\ d < e)

\* While nobody writes, the walk is what SpQuery takes it for: at any moment
\* the entries read are the first ones, in the order of the index, of those
\* with keys from the start on, with none between them left out; at the end
\* they are all of them.  Where the page has entries the cursor is on the one
\* read last.  On a page that VACUUM left empty, which is the one place where
\* SpQuery's cursor never is, it stops all the same, with no entry.
ExactWalk ==
  calm =>
    LET due  == {e \in Present : Key(e) >= start}
        rest == {e \in due : \A i \in DOMAIN walk : walk[i] # e} IN
      /\ \A i \in DOMAIN walk : walk[i] \in due
      /\ \A i, j \in DOMAIN walk : i < j => Before(walk[i], walk[j])
      /\ \A i \in DOMAIN walk : \A e \in rest : Before(walk[i], e)
      /\ pc = "end" => rest = {}
      /\ pc = "on" => IF items[buf] = {} THEN cur = NoItem
                      ELSE cur \in items[buf] /\ cur = Last(walk)

\* While nobody writes, a peek sees the entry that the next step will read, or
\* nothing when there is none left.  A page that VACUUM left empty is the
\* exception: what the peek reads there is no entry.
PeekTrue ==
  pc = "back" /\ calm =>
    LET rest == {e \in Present : Key(e) >= start} \ seen IN
      IF ahead = NoItem
        THEN rest = {} \/ \E b \in Blocks : Live(b) /\ items[b] = {}
        ELSE /\ ahead \in rest
             /\ \A e \in rest :
                  /\ Key(ahead) <= Key(e)
                  /\ \A b \in Blocks : {ahead, e} \subseteq items[b] => ahead <= e

\* A call returns: it is not led in circles by pages being deleted.
FetchReturns == pc \in {"down", "step", "back"} ~> pc \in {"on", "end"}

\* As long as no page has been deleted, the first entry a walk comes to is not
\* below its start: when the leaf split before the search had it locked, the
\* search has moved right, to the page the start belongs on.
StartRespected ==
  (\A b \in Blocks : ~ Ignored(b)) =>
    (pc = "on" /\ seen = {cur} => Key(cur) >= start)
====
