------------------------------- MODULE BTree --------------------------------
(***************************************************************************)
(* The B-tree of BTree.cpp: search, insertion with splits, deletion with   *)
(* rotations and merges.  One step is one node visited by a search, or one *)
(* call of vector_insert, split_insert, rotate_... or merge_..., so that   *)
(* the tree is seen between the calls of one operation as well.            *)
(*                                                                         *)
(* A node's element 0, which has a subtree and no key, is zero[n]; the     *)
(* others are elems[n], with the indices of the code.  So m_count is       *)
(* Len(elems[n]) + 1, and key_count() is Len(elems[n]).  Payloads go where *)
(* their keys go and are left out; keys are numbers, for their order.      *)
(*                                                                         *)
(* The caller makes the calls of one of the Scripts, as main() inserts and *)
(* then deletes all keys, and then up to MaxCalls calls as it likes.       *)
(***************************************************************************)
EXTENDS Integers, SequencesExt

CONSTANTS
  Keys,         (* numbers                                                   *)
  Nodes,        (* the addresses `new Node' may return                       *)
  None,         (* the null pointer                                          *)
  Size,         (* m_vector.size()                                           *)
  Scripts,      (* sequences of calls <<c, k>>                               *)
  MaxCalls      (* bound: calls after the script                             *)

\* The constructor takes at most nine elements, and never fewer than six.
ASSUME BTreeAssumption ==
  /\ Keys \subseteq Int
  /\ Nodes # {} /\ None \notin Nodes
  /\ Size \in 6 .. 9
  /\ Scripts \subseteq Seq({"insert", "delete"} \X Keys)
  /\ MaxCalls \in Nat

VARIABLES
  root,         (* RootTracker's mp_root                                     *)
  live,         (* the nodes that are allocated                              *)
  zero, elems,  (* m_vector                                                  *)
  parent,       (* mp_parent                                                 *)
  pc,           (* where the call is                                         *)
  call, want,   (* the call, and its key                                     *)
  key,          (* the key it looks for at present                           *)
  cur,          (* the node it is at                                         *)
  carry,        (* the element to be inserted there                          *)
  ret,          (* the last call, its key and what it returns                *)
  script, calls (* calls of the script still to make, and calls made since   *)

tree == <<root, live, zero, elems, parent>>
vars == <<root, live, zero, elems, parent, pc, call, want, key, cur, carry, ret, script, calls>>

Elem(k, n) == [key |-> k, sub |-> n]

\* A new node is any that is not in use.  Where there is none, `new' throws, which nobody
\* catches.
NewNode == CHOOSE n \in Nodes : n \notin live

Init ==
  /\ root = CHOOSE n \in Nodes : TRUE
  /\ live = {root}
  /\ zero = [n \in Nodes |-> None]
  /\ elems = [n \in Nodes |-> <<>>]
  /\ parent = [n \in Nodes |-> None]
  /\ pc = "idle" /\ call = None /\ want = None /\ key = None
  /\ cur = None /\ carry = None
  /\ ret = <<>>
  /\ script \in Scripts /\ calls = 0

IsLeaf(n) == zero[n] = None

\* Mutant: the slot kept for a split is used.
Room_OffByOne(s) == Len(s) < Size - 1

\* vector_insert needs a slot besides the one that is kept for a split.
Room(s) == Len(s) < Size - 2

\* Mutant: a key too many, so that what is merged does not fit one node.
MinKeys_OneMore == Size \div 2

\* minimum_keys: half of what fits, rounded up, less one
MinKeys == Size \div 2 - 1

Child(n, i) == IF i = 0 THEN zero[n] ELSE elems[n][i].sub

\* The nodes below a zeroth subtree z and the elements s.
Subtrees(z, s) == ({z} \cup {s[i].sub : i \in 1 .. Len(s)}) \ {None}

\* The binary search between two indices: it ends with neighbours.
Bisect(s, k, first, last) ==
  LET b[p \in (first .. last) \X (first .. last)] ==
        LET mid == p[1] + (p[2] - p[1]) \div 2
        IN  IF p[2] - p[1] <= 1 THEN p
            ELSE IF k >= s[mid].key THEN b[<<mid, p[2]>>] ELSE b[<<p[1], mid>>]
  IN  b[<<first, last>>]

\* Where a search for k goes on below n; if k is in n, it is the key at this index.
Gap(n, k) ==
  LET s == elems[n]
      b == Bisect(s, k, 1, Len(s))
  IN  IF s = <<>> \/ k < s[1].key THEN 0
      ELSE IF k > s[Len(s)].key THEN Len(s)
      ELSE IF s[b[2]].key > k THEN b[1] ELSE b[2]

Hit(n, k) == Gap(n, k) # 0 /\ elems[n][Gap(n, k)].key = k

\* vector_insert and vector_insert_for_split: behind the last key that is not greater
Put(s, e) == InsertAt(s, SelectLastInSeq(s, LAMBDA x : x.key <= e.key) + 1, e)

\* The node with z and s below it is n: the code sets mp_parent as it inserts.
Adopt(par, n, z, s) == [m \in Nodes |-> IF m \in Subtrees(z, s) THEN n ELSE par[m]]

Result(r) == ret' = <<call, want, r>>

Return(r) ==
  /\ Result(r)
  /\ pc' = "idle"
  /\ call' = None /\ want' = None /\ key' = None
  /\ cur' = None /\ carry' = None

-----------------------------------------------------------------------------
(* The caller.                                                              *)

Start(c, k) ==
  /\ pc = "idle"
  /\ pc' = "search"
  /\ call' = c /\ want' = k /\ key' = k /\ cur' = root
  /\ UNCHANGED <<tree, carry, ret>>

Scripted ==
  /\ script # <<>>
  /\ Start(Head(script)[1], Head(script)[2])
  /\ script' = Tail(script)
  /\ UNCHANGED calls

Call(c, k) ==
  /\ script = <<>>
  /\ calls < MaxCalls
  /\ Start(c, k)
  /\ calls' = calls + 1
  /\ UNCHANGED script

-----------------------------------------------------------------------------
(* search, and what insertion and deletion do with its result               *)

Descend ==
  /\ pc = "search"
  /\ ~Hit(cur, key)
  /\ Child(cur, Gap(cur, key)) # None
  /\ cur' = Child(cur, Gap(cur, key))
  /\ UNCHANGED <<tree, pc, call, want, key, carry, ret, script, calls>>

\* Not there.  tree_insert inserts it at the node visited last, and will succeed.
Miss ==
  /\ pc = "search"
  /\ ~Hit(cur, key)
  /\ Child(cur, Gap(cur, key)) = None
  /\ IF call = "insert"
       THEN /\ pc' = "insert"
            /\ carry' = Elem(key, None)
            /\ Result(TRUE)
            /\ UNCHANGED <<call, want, key, cur>>
       ELSE Return(FALSE)
  /\ UNCHANGED <<tree, script, calls>>

HitKey ==
  /\ pc = "search"
  /\ Hit(cur, key)
  /\ call \in {"insert", "search"}
  /\ Return(call = "search")
  /\ UNCHANGED <<tree, script, calls>>

\* delete_element at a leaf: a node that has too few keys left is repaired.
DeleteFromLeaf ==
  /\ pc = "search" /\ call = "delete"
  /\ Hit(cur, key)
  /\ IsLeaf(cur)
  /\ elems' = [elems EXCEPT ![cur] = RemoveAt(@, Gap(cur, key))]
  /\ IF Len(elems[cur]) > MinKeys
       THEN Return(TRUE)
       ELSE pc' = "repair" /\ Result(TRUE) /\ UNCHANGED <<call, want, key, cur, carry>>
  /\ UNCHANGED <<root, live, zero, parent, script, calls>>

\* Mutant: the smallest key of the node, not of its subtree.
Smallest_Here(n) == elems[n][1].key

\* smallest_key_in_subtree
Smallest(n) ==
  LET least[m \in Nodes] == IF IsLeaf(m) THEN elems[m][1].key ELSE least[zero[m]]
  IN  least[n]

\* delete_element above: the smallest key below takes the key's place, and is then
\* deleted from the subtree.
DeleteFromInner ==
  /\ pc = "search" /\ call = "delete"
  /\ Hit(cur, key)
  /\ ~IsLeaf(cur)
  /\ LET i == Gap(cur, key)
         n == elems[cur][i].sub
     IN  /\ elems' = [elems EXCEPT ![cur][i].key = Smallest(n)]
         /\ key' = Smallest(n)
         /\ cur' = n
  /\ Result(TRUE)
  /\ UNCHANGED <<root, live, zero, parent, pc, call, want, carry, script, calls>>

-----------------------------------------------------------------------------
(* Insertion.                                                               *)

\* vector_insert
VectorInsert ==
  /\ pc = "insert"
  /\ cur # None
  /\ Room(elems[cur])
  /\ elems' = [elems EXCEPT ![cur] = Put(@, carry)]
  /\ parent' = Adopt(parent, cur, None, <<carry>>)
  /\ Return(TRUE)
  /\ UNCHANGED <<root, live, zero, script, calls>>

\* split_insert: the right half goes to a new node, whose first key goes up with it.
SplitInsert ==
  /\ pc = "insert"
  /\ cur # None
  /\ ~Room(elems[cur])
  /\ live # Nodes
  /\ LET all   == Put(elems[cur], carry)
         point == (Len(all) + 2) \div 2
         new   == NewNode
         right == SubSeq(all, point + 1, Len(all))
     IN  /\ live' = live \cup {new}
         /\ zero' = [zero EXCEPT ![new] = all[point].sub]
         /\ elems' = [elems EXCEPT ![cur] = SubSeq(all, 1, point - 1), ![new] = right]
         /\ parent' = [Adopt(Adopt(parent, cur, None, <<carry>>), new, all[point].sub, right)
                         EXCEPT ![new] = parent[cur]]
         /\ carry' = Elem(all[point].key, new)
  /\ cur' = parent[cur]
  /\ UNCHANGED <<root, pc, call, want, key, ret, script, calls>>

\* ... if the node was the root, into a new one
NewRoot ==
  /\ pc = "insert"
  /\ cur = None
  /\ live # Nodes
  /\ LET new == NewNode
     IN  /\ root' = new
         /\ live' = live \cup {new}
         /\ zero' = [zero EXCEPT ![new] = root]
         /\ elems' = [elems EXCEPT ![new] = <<carry>>]
         /\ parent' = [Adopt(parent, new, root, <<carry>>) EXCEPT ![new] = None]
  /\ Return(TRUE)
  /\ UNCHANGED <<script, calls>>

-----------------------------------------------------------------------------
(* The repair loop of delete_element, for a node with a key too few.        *)

\* Mutant: only one of the two elements the search ends at is looked at.
Index_FirstOnly(n) ==
  Bisect(elems[parent[n]], elems[n][1].key, 0, Len(elems[parent[n]]))[1]

\* index_has_subtree
Index(n) ==
  LET b == Bisect(elems[parent[n]], elems[n][1].key, 0, Len(elems[parent[n]]))
  IN  IF Child(parent[n], b[1]) = n THEN b[1] ELSE b[2]

Right(n) == IF Index(n) = Len(elems[parent[n]]) THEN None ELSE Child(parent[n], Index(n) + 1)
Left(n)  == IF Index(n) = 0 THEN None ELSE Child(parent[n], Index(n) - 1)

\* Mutant: a sibling gives away a key it needs.
CanLend_AtMinimum(n) == n # None /\ Len(elems[n]) >= MinKeys

\* A sibling has a key to spare.
CanLend(n) == n # None /\ Len(elems[n]) > MinKeys

\* The node to repair is not the root, and its parent has it where it is looked for.
\* Where the code would throw, or loop for lack of a sibling, no step is possible.
Repairing ==
  /\ pc = "repair"
  /\ cur # root
  /\ Child(parent[cur], Index(cur)) = cur

\* The root may have as few keys as it likes.
RepairRoot ==
  /\ pc = "repair"
  /\ cur = root
  /\ IsLeaf(cur)
  /\ Return(TRUE)
  /\ UNCHANGED <<tree, script, calls>>

\* rotate_from_right: the parent's key comes down, the right sibling's first goes up.
RotateFromRight ==
  /\ Repairing
  /\ CanLend(Right(cur))
  /\ LET up     == parent[cur]
         i      == Index(cur) + 1
         right  == Right(cur)
         filler == Elem(elems[up][i].key, zero[right])
     IN  /\ elems' = [elems EXCEPT ![up][i]  = Elem(elems[right][1].key, right),
                                   ![cur]   = Put(@, filler),
                                   ![right] = Tail(@)]
         /\ zero' = [zero EXCEPT ![right] = elems[right][1].sub]
         /\ parent' = Adopt(parent, cur, None, <<filler>>)
  /\ Return(TRUE)
  /\ UNCHANGED <<root, live, script, calls>>

\* rotate_from_left, if the right sibling has none to spare
RotateFromLeft ==
  /\ Repairing
  /\ ~CanLend(Right(cur))
  /\ CanLend(Left(cur))
  /\ LET up     == parent[cur]
         i      == Index(cur)
         left   == Left(cur)
         last   == elems[left][Len(elems[left])]
         filler == Elem(elems[up][i].key, zero[cur])
     IN  /\ elems' = [elems EXCEPT ![up][i] = Elem(last.key, cur),
                                   ![cur]   = Put(@, filler),
                                   ![left]  = Front(@)]
         /\ zero' = [zero EXCEPT ![cur] = last.sub]
         /\ parent' = Adopt(parent, cur, last.sub, <<filler>>)
  /\ Return(TRUE)
  /\ UNCHANGED <<root, live, script, calls>>

\* What vector_insert makes of one element after the other: what has no room is lost.
PutAll(s, more) ==
  LET r[i \in 0 .. Len(more)] ==
        IF i = 0 THEN s
        ELSE LET t == r[i - 1] IN IF Room(t) THEN Put(t, more[i]) ELSE t
  IN  r[Len(more)]

\* What merge_right and merge_left share: the parent's element i and all of the node gone
\* are moved to n.  A root without keys makes way for n; a parent with too few is next.
MergeInto(n, gone, i) ==
  LET up    == parent[cur]
      moved == <<Elem(elems[up][i].key, zero[gone])>> \o elems[gone]
      rest  == RemoveAt(elems[up], i)
      dead  == IF up = root /\ rest = <<>> THEN {gone, up} ELSE {gone}
      kept  == [elems EXCEPT ![n] = PutAll(@, moved), ![up] = rest]
      par   == Adopt(parent, n, None, moved)
  IN  /\ live' = live \ dead
      /\ root' = IF up \in dead THEN n ELSE root
      /\ elems' = [m \in Nodes |-> IF m \in dead THEN <<>> ELSE kept[m]]
      /\ zero' = [m \in Nodes |-> IF m \in dead THEN None ELSE zero[m]]
      /\ parent' = [m \in Nodes |->
                      IF m \in dead \/ (m = n /\ up \in dead) THEN None ELSE par[m]]
      /\ IF up = root \/ Len(rest) >= MinKeys
           THEN Return(TRUE)
           ELSE cur' = up /\ UNCHANGED <<pc, call, want, key, carry, ret>>

MergeRight ==
  /\ Repairing
  /\ ~CanLend(Right(cur)) /\ ~CanLend(Left(cur))
  /\ Right(cur) # None
  /\ MergeInto(cur, Right(cur), Index(cur) + 1)
  /\ UNCHANGED <<script, calls>>

MergeLeft ==
  /\ Repairing
  /\ ~CanLend(Left(cur))
  /\ Right(cur) = None /\ Left(cur) # None
  /\ MergeInto(Left(cur), cur, Index(cur))
  /\ UNCHANGED <<script, calls>>

-----------------------------------------------------------------------------
Step ==
  \/ Descend \/ Miss \/ HitKey \/ DeleteFromLeaf \/ DeleteFromInner
  \/ VectorInsert \/ SplitInsert \/ NewRoot
  \/ RepairRoot \/ RotateFromRight \/ RotateFromLeft \/ MergeRight \/ MergeLeft

Next ==
  \/ Scripted
  \/ \E c \in {"insert", "delete", "search"}, k \in Keys : Call(c, k)
  \/ Step

Spec == Init /\ [][Next]_vars

-----------------------------------------------------------------------------
(* Properties.                                                              *)

Link == Nodes \cup {None}
Elems == [key : Keys, sub : Link]

Children(n) == Subtrees(zero[n], elems[n])

\* No pointer of the tree, and none that a call uses, leads to a node that was deleted.
NoDangling ==
  /\ \A n \in live : Children(n) \subseteq live
  /\ \A n \in live \ {root} : parent[n] \in live \/ (pc = "insert" /\ n = carry.sub)
  /\ cur \in live \cup {None}
  /\ pc = "insert" => carry.sub \in live \cup {None}

\* Every variable has its type; in particular no node holds more than vector_insert allows,
\* and no pointer dangles.
TypeOK ==
  /\ NoDangling
  /\ root \in live /\ live \subseteq Nodes
  /\ zero \in [Nodes -> Link] /\ parent \in [Nodes -> Link]
  /\ elems \in [Nodes -> Seq(Elems)]
  /\ \A n \in Nodes : Len(elems[n]) <= Size - 2
  /\ pc \in {"idle", "search", "insert", "repair"}
  /\ call \in {"insert", "delete", "search", None}
  /\ want \in Keys \cup {None} /\ key \in Keys \cup {None}
  /\ cur \in Link /\ carry \in Elems \cup {None}
  /\ script \in Seq({"insert", "delete"} \X Keys) /\ calls \in 0 .. MaxCalls

\* Between two calls the keys of a node go up, and all keys below its i-th subtree lie
\* between its i-th key and the next: splits, rotations and merges move elements with the
\* subtrees that belong to them.
Ordered ==
  LET below[n \in Link] ==
        IF n = None THEN {}
        ELSE {n} \cup UNION {below[Child(n, i)] : i \in 0 .. Len(elems[n])}
  IN  pc = "idle" =>
        \A n \in live :
          /\ \A i, j \in 1 .. Len(elems[n]) : i < j => elems[n][i].key < elems[n][j].key
          /\ \A i \in 0 .. Len(elems[n]) :
               \A m \in below[Child(n, i)] : \A j \in 1 .. Len(elems[m]) :
                 /\ i > 0 => elems[n][i].key < elems[m][j].key
                 /\ i < Len(elems[n]) => elems[m][j].key < elems[n][i + 1].key

\* Between two calls the tree is a B-tree: all leaves are on one level, no node but the
\* root has fewer than the minimum of keys, every node is where its parent has it, and
\* climbing from it ends at the tracker's root.
Balanced ==
  LET level[n \in live] == IF n = root THEN 0 ELSE level[parent[n]] + 1
  IN  pc = "idle" =>
        /\ parent[root] = None
        /\ \A n \in live \ {root} : Len(elems[n]) >= MinKeys /\ n \in Children(parent[n])
        /\ Cardinality({level[n] : n \in {m \in live : IsLeaf(m)}}) = 1

\* The repair loop never throws and never spins: above a leaf it does not reach the root,
\* index_has_subtree finds the node below its parent, although both have changed their
\* keys, and there is a sibling to take from or to merge with.
RepairGoesOn ==
  pc = "repair" =>
    IF cur = root THEN IsLeaf(cur)
    ELSE /\ parent[cur] # None
         /\ Child(parent[cur], Index(cur)) = cur
         /\ Right(cur) # None \/ Left(cur) # None

\* The tree is a set of keys, and its calls return what those of a set would.  An element
\* on its way up belongs to the tree.
Set == INSTANCE KeySet WITH
         keys <- (UNION {{elems[n][i].key : i \in 1 .. Len(elems[n])} : n \in live})
                   \cup (IF pc = "insert" THEN {carry.key} ELSE {})

ImplementsKeySet == Set!Spec
=============================================================================
