------------------------------ MODULE MCBTree -------------------------------
(* An instance of BTree for TLC.  Keys are inserted from below, from above   *)
(* and from both ends, so that nodes are split on either side, and are then  *)
(* left to the free calls or deleted first, so that the tree shrinks again.  *)
EXTENDS BTree

CONSTANT N   (* the number of keys                                           *)

Up   == [i \in 1 .. N |-> i]
Down == Reverse(Up)
Ends == [i \in 1 .. N |-> IF i % 2 = 0 THEN N + 1 - i \div 2 ELSE (i + 1) \div 2]

All(c, keys) == [i \in 1 .. N |-> <<c, keys[i]>>]

McKeys    == 1 .. N
McNodes   == 1 .. N
McScripts ==
  {All("insert", s) : s \in {Up, Down, Ends}}
    \cup {All("insert", s) \o All("delete", t) : s, t \in {Up, Down, Ends}}
=============================================================================
