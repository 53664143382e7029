------------------------------- MODULE KeySet -------------------------------
(***************************************************************************)
(* What the B-tree of BTree.cpp promises: it is a set of keys.  An         *)
(* insertion succeeds if the key is new, a deletion if it is there, a      *)
(* search finds what is there.  How the keys are kept is left open.        *)
(***************************************************************************)

CONSTANT Keys

VARIABLES keys,   (* the keys in the set                                    *)
          ret     (* the last call, its key and what it returned            *)

vars == <<keys, ret>>

Init == keys = {} /\ ret = <<>>

Insert(k) ==
  /\ ret' = <<"insert", k, k \notin keys>>
  /\ keys' = keys \cup {k}

Delete(k) ==
  /\ ret' = <<"delete", k, k \in keys>>
  /\ keys' = keys \ {k}

Search(k) ==
  /\ ret' = <<"search", k, k \in keys>>
  /\ UNCHANGED keys

Next == \E k \in Keys : Insert(k) \/ Delete(k) \/ Search(k)

Spec == Init /\ [][Next]_vars
=============================================================================
