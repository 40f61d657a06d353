---- MODULE MCScanCursor ----
(***************************************************************************)
(* A small index for TLC: two entries on a page and two under a key, so    *)
(* that one key's entries come to lie on both sides of a page boundary.    *)
(***************************************************************************)
EXTENDS ScanCursorInv

MCEntry  == 1 .. 3
MCKey(e) == (e + 2) \div 2

\* For the search after a split: three keys, so that one can lie above all
\* that the left half of the split keeps and may get.
MCOwnKey(e) == e
MCBlocks == 1 .. 3
====
