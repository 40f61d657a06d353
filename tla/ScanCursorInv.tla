---- MODULE ScanCursorInv ----
(***************************************************************************)
(* The inductive invariant of the cursor among writers.  Everything hangs  *)
(* on one order of all pages the index has ever used, which no variable    *)
(* keeps: a page that is split off stands directly to the right of the one *)
(* it came from, and a deleted page keeps the place it had.  left[b] is    *)
(* the set of the pages left of b in it.                                   *)
(***************************************************************************)
EXTENDS ScanCursor

Used    == {b \in Blocks : kind[b] # "free"}
InChain == {b \in Blocks : kind[b] \in {"leaf", "fresh", "half"}}

StrictOrder(left) ==
  /\ \A b \in Blocks : b \notin left[b]
  /\ \A a, b \in Blocks : a \in left[b] => left[a] \subseteq left[b]

\* A constant, so that TLC enumerates the orders once.
Orders == {left \in [Blocks -> SUBSET Blocks] : StrictOrder(left)}

\* left is a strict total order of the pages used.
Ordered(left) ==
  /\ \A a, b \in Used : a = b \/ a \in left[b] \/ b \in left[a]
  /\ \A b \in Blocks \ Used : left[b] = {}
  /\ \A b \in Blocks : left[b] \subseteq Used
  /\ StrictOrder(left)

\* A page points to the right, to the first page there that is still in the
\* chain or was when this one left it; none in the chain is passed over.
ChainInv(left) ==
  \A b \in Used :
    /\ next[b] # NoBlock => b \in left[next[b]]
    /\ \A x \in InChain :
         b \in left[x] => next[b] # NoBlock /\ (x = next[b] \/ next[b] \in left[x])
    /\ b \in InChain /\ next[b] # NoBlock => next[b] \in InChain
    /\ Ignored(b) => next[b] # NoBlock

\* Entries are on live pages, one page each, in the page's range; ranges
\* ascend along the chain.
RangeInv(left) ==
  /\ \A b \in Blocks : \A e \in items[b] : Live(b) /\ low[b] <= Key(e)
  /\ \A a, b \in Blocks : \A e \in items[a] : e \in items[b] => a = b
  /\ \A a, b \in InChain :
       a \in left[b] => low[a] <= low[b] /\ \A e \in items[a] : Key(e) <= low[b]
  /\ \A b \in Blocks \ Used : next[b] = NoBlock /\ low[b] = 0

\* The downlinks are those of the settled leaves, in order, and the leftmost
\* live page has one.
ParentInv(left) ==
  /\ parent = <<>> => Used = {}
  /\ \A b \in Blocks : kind[b] = "leaf" <=> \E i \in DOMAIN parent : parent[i] = b
  /\ \A i, j \in DOMAIN parent : i < j => parent[i] \in left[parent[j]]
  /\ \A b \in Blocks : Live(b) => b = parent[1] \/ parent[1] \in left[b]

TreeInv(left) ==
  Ordered(left) /\ ChainInv(left) /\ RangeInv(left) /\ ParentInv(left)

\* The page the walk has come to: while a peek is under way, the one it left.
Peeking == old # NoBlock
Place   == IF Peeking THEN old ELSE buf

\* What is due and has not been read.
Unseen == {e \in stable : Key(e) >= start /\ e \notin seen}

\* Where the cursor may be; a peek begins with the page exhausted.
PlaceInv ==
  /\ pc \notin {"idle", "end"} => buf \in Used
  /\ pc = "back" => buf = old
  /\ Peeking => old \in Used /\ pc \in {"step", "back"} /\ ~ more

\* What is unseen lies where the walk has still to come, and none of it has a
\* key less than the one read last.
AheadInv(left) ==
  /\ \A p \in Blocks : \A e \in items[p] \cap Unseen :
       /\ pc \in {"down", "step"} /\ ~ Peeking => p = buf \/ buf \in left[p]
       /\ pc = "on" => buf \in left[p] \/ (more /\ p = buf /\ e > cur)
       /\ Peeking => old \in left[p]
  /\ (pc = "on" \/ Peeking) /\ cur # NoItem =>
       \A e \in Unseen : Key(e) >= Key(cur)
  /\ pc = "end" => Unseen = {}

-----------------------------------------------------------------------------
(* What a walk is while nobody writes.                                     *)

Walked == {walk[i] : i \in DOMAIN walk}

\* d lies to the left of e, on another page or on the same.
LeftOf(left, d, e) ==
  \E p, q \in Blocks :
    /\ d \in items[p] /\ e \in items[q]
    /\ p \in left[q] \/ (p = q /\ d < e)

\* The entries read are from the start on, and in order.
Ascending(left) ==
  /\ \A i \in DOMAIN walk : Key(walk[i]) >= start
  /\ \A i, j \in DOMAIN walk : i < j => LeftOf(left, walk[i], walk[j])

\* What has been read lies behind the place the walk has come to; a peek looks
\* further on.  The cursor has an entry where the page has one, the one read
\* last.
BehindInv(left) ==
  /\ \A i \in DOMAIN walk : \E p \in Used :
       /\ walk[i] \in items[p]
       /\ pc = "step" /\ ~ Peeking => p \in left[buf]
       /\ pc = "on" \/ Peeking => p \in left[Place] \/ (p = Place /\ walk[i] <= cur)
  /\ pc = "step" /\ Peeking => old \in left[buf]
  /\ pc = "on" \/ Peeking =>
       IF items[Place] = {} THEN cur = NoItem
       ELSE cur \in items[Place] /\ walk # <<>> /\ cur = Last(walk)

\* Pages beyond the place of the walk have no key below its start; a peek
\* passes no entry.
BeyondInv(left) ==
  \A x \in {b \in Blocks : Live(b)} :
    /\ pc \in {"down", "on"} /\ buf \in left[x] => start <= low[x]
    /\ pc = "step" /\ ~ Peeking /\ (x = buf \/ buf \in left[x]) => start <= low[x]
    /\ Peeking /\ old \in left[x] => start <= low[x]
    /\ Peeking /\ pc = "step" /\ old \in left[x] /\ items[x] # {} =>
         x = buf \/ buf \in left[x]

CalmInv(left) ==
  /\ pc \in {"idle", "down"} => walk = <<>> /\ seen = {}
  /\ pc # "back" => ahead = NoItem
  /\ cur = NoItem => ~ more
  /\ calm /\ pc # "idle" =>
       /\ Settled /\ stable = Present
       /\ seen = Walked
       /\ BehindInv(left)
       /\ BeyondInv(left)
       /\ Ascending(left)
       /\ PeekTrue

ScanInv ==
  /\ TypeOK
  /\ PlaceInv
  /\ \E left \in Orders :
       TreeInv(left) /\ AheadInv(left) /\ CalmInv(left)
====
