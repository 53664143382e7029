---------------------------- MODULE BTreeProofs -----------------------------
(***************************************************************************)
(* Proofs about BTree.                                                     *)
(*                                                                         *)
(* The inductive invariant is Inv(C, H): beside the variables it speaks of *)
(* the keys below each node, C, and of its height, H, which are given as   *)
(* functions and not computed, so that no step needs an induction over the *)
(* tree: each lemma on a step says which values of C and H change.         *)
(*                                                                         *)
(* First come the lemmas on one node: what inserting, removing, joining    *)
(* and splitting its elements does to its order, its keys and its          *)
(* subtrees; what the binary search finds.  Then one lemma for each step,  *)
(* and at the end the theorems.                                            *)
(***************************************************************************)
EXTENDS BTree, SequenceTheorems, FiniteSetTheorems, TLAPS

-----------------------------------------------------------------------------
(* A node, given by its zeroth subtree z and its elements s.  C tells which *)
(* keys are in the tree below a node and H how high it is; C[None] = {} and *)
(* H[None] = -1 spare the leaves a case of their own.                       *)

Slots(s) == 0 .. Len(s)

Sub(z, s, i) == IF i = 0 THEN z ELSE s[i].sub

KeysIn(s) == {s[i].key : i \in 1 .. Len(s)}

Sorted(s) == \A i, j \in 1 .. Len(s) : i < j => s[i].key < s[j].key

\* Where k belongs: not before the i-th key, and before the next.
InGap(s, i, k) == /\ i > 0 => s[i].key <= k
                  /\ i < Len(s) => k < s[i + 1].key

Distinct(z, s) ==
  \A i, j \in Slots(s) : Sub(z, s, i) = Sub(z, s, j) /\ Sub(z, s, i) # None => i = j

\* The keys of a node, and those below it
Content(z, s, C) == KeysIn(s) \cup UNION {C[Sub(z, s, i)] : i \in Slots(s)}

\* A node is in order, and its subtrees have one height.
Good(z, s, l, C, H) ==
  /\ Sorted(s)
  /\ Distinct(z, s)
  /\ \A i \in Slots(s) : H[Sub(z, s, i)] = l
  /\ \A i \in Slots(s) : \A k \in C[Sub(z, s, i)] : InGap(s, i, k)

-----------------------------------------------------------------------------
(* The tree.                                                                *)

\* The element that is on its way up, and what is below it, belong to the node it has come to.
Rising(n, C) == IF pc = "insert" /\ n = cur THEN {carry.key} \cup C[carry.sub] ELSE {}

\* While a key that took another's place is searched for, it is there twice: in a leaf too.
Twice(k) == pc = "search" /\ key # want /\ k = key

Tree(C, H) ==
  /\ C \in [Link -> SUBSET Keys] /\ C[None] = {}
  /\ H \in [Link -> Int] /\ H[None] = -1
  /\ \A n \in Nodes : H[n] \in 0 .. H[root]
  /\ \A n \in Nodes : Good(zero[n], elems[n], H[n] - 1, C, H)
  /\ \A n \in Nodes : C[n] = Content(zero[n], elems[n], C) \cup Rising(n, C)
  /\ \A n \in Nodes \ live : zero[n] = None /\ elems[n] = <<>>
  /\ \A n \in live : C[n] \subseteq C[root] \cup Rising(None, C)

Links ==
  /\ \A n \in live : \A i \in Slots(elems[n]) :
       Child(n, i) # None => Child(n, i) \in live /\ parent[Child(n, i)] = n
  /\ parent[root] = None
  /\ \A n \in live \ {root} :
       \/ parent[n] \in live /\ \E i \in Slots(elems[parent[n]]) : Child(parent[n], i) = n
       \/ pc = "insert" /\ n = carry.sub

KeyOnce ==
  /\ \A m, n \in live : m # n => \A k \in KeysIn(elems[m]) \cap KeysIn(elems[n]) :
                                    Twice(k) /\ (IsLeaf(m) <=> ~IsLeaf(n))
  /\ pc = "insert" => \A n \in live : carry.key \notin KeysIn(elems[n])

Fill ==
  /\ \A n \in Nodes : Len(elems[n]) <= Size - 2
  /\ \A n \in live \ {root} : Len(elems[n]) >= MinKeys \/ (pc = "repair" /\ n = cur)
  /\ IsLeaf(root) \/ elems[root] # <<>>

-----------------------------------------------------------------------------
(* The call.                                                                *)

\* The nodes from one the search began at down to cur
Path(P, top) ==
  /\ P \subseteq live /\ top \in P /\ cur \in P
  /\ \A m \in P \ {top} : parent[m] \in P
  /\ \A m \in P \ {cur} : \E i \in Slots(elems[m]) : Child(m, i) \in P
  /\ \A m \in P : \A i \in Slots(elems[m]) : Child(m, i) \in P => InGap(elems[m], i, key)

Searching(C, H) ==
  pc = "search" =>
    \E P \in SUBSET Nodes, top \in live :
      /\ Path(P, top)
      /\ \A m \in P : H[cur] <= H[m] /\ H[m] <= H[top]
      /\ key = want => top = root /\ (key \in C[root] => key \in C[cur])
      /\ key # want => /\ call = "delete" /\ ret = <<call, want, TRUE>>
                       /\ H[top] > H[cur]
                       /\ key \in KeysIn(elems[top])
                       /\ key \in C[cur]

\* Where the element on its way up goes in cur: beside the node that was split
Fits(q, C) ==
  /\ InGap(elems[cur], q, carry.key)
  /\ \A k \in C[Child(cur, q)] : k < carry.key
  /\ \A k \in C[carry.sub] : carry.key <= k /\ InGap(elems[cur], q, k)

Inserting(C, H) ==
  pc = "insert" =>
    /\ call = "insert" /\ ret = <<call, want, TRUE>>
    /\ carry \in Elems
    /\ carry.sub # None => /\ carry.sub \in live \ {root} /\ parent[carry.sub] = cur
                           /\ \A n \in live : \A i \in Slots(elems[n]) : Child(n, i) # carry.sub
    /\ cur # None => /\ H[carry.sub] = H[cur] - 1
                     /\ \E q \in Slots(elems[cur]) : Fits(q, C)
    /\ cur = None => /\ carry.sub # None /\ H[carry.sub] = H[root]
                     /\ Len(elems[root]) >= MinKeys
                     /\ \A k \in C[root] : k < carry.key
                     /\ \A k \in C[carry.sub] : carry.key <= k

Repair ==
  pc = "repair" =>
    /\ call = "delete" /\ ret = <<call, want, TRUE>>
    /\ IF cur = root THEN IsLeaf(cur) ELSE Len(elems[cur]) = MinKeys - 1

\* What the variables are
Types ==
  /\ root \in live /\ live \subseteq Nodes
  /\ zero \in [Nodes -> Link] /\ parent \in [Nodes -> Link]
  /\ elems \in [Nodes -> Seq(Elems)]
  /\ pc \in {"idle", "search", "insert", "repair"}
  /\ IF pc = "idle" THEN call = None /\ want = None /\ key = None
                    ELSE call \in {"insert", "delete", "search"} /\ want \in Keys /\ key \in Keys
  /\ IF pc \in {"search", "repair"} THEN cur \in live ELSE cur \in live \cup {None}
  /\ carry \in Elems \cup {None}
  /\ script \in Seq({"insert", "delete"} \X Keys) /\ calls \in 0 .. MaxCalls

Inv(C, H) ==
  /\ Types /\ Links /\ KeyOnce /\ Fill /\ Repair
  /\ Tree(C, H) /\ Searching(C, H) /\ Inserting(C, H)

IInv == \E C, H : Inv(C, H)

-----------------------------------------------------------------------------
(* Induction, as facts about sets of numbers, and recursion along a rank.   *)

LEMMA NatSet ==
  ASSUME NEW S \in SUBSET Nat, 0 \in S, \A n \in S : n + 1 \in S
  PROVE  S = Nat
<1> SUFFICES ASSUME Nat \ S # {} PROVE FALSE
  OBVIOUS
<1> DEFINE R == OpToRel(<, Nat)
<1>1. \A x, y \in Nat : <<y, x>> \in R <=> y < x
  BY DEF OpToRel
<1>2. IsWellFoundedOn(R, Nat)
  BY NatLessThanWellFounded
<1> HIDE DEF R
<1>3. PICK x \in Nat \ S : \A y \in Nat \ S : ~ (<<y, x>> \in R)
  BY <1>2, WFMin
<1>4. x # 0 /\ x \in Nat /\ x - 1 \in Nat
  BY <1>3
<1>5. x - 1 \in S
  <2>1. <<x - 1, x>> \in R
    BY <1>1, <1>4
  <2> QED
    BY <1>3, <1>4, <2>1
<1> QED
  BY <1>3, <1>4, <1>5

\* F makes the value of a function at x of its values of lower rank.
Ranked(D, V, top, R, F) ==
  /\ V # {} /\ top \in Nat /\ R \in [D -> 0 .. top]
  /\ F \in [[D -> V] \X D -> V]
  /\ \A g, h \in [D -> V], x \in D :
       (\A y \in D : R[y] < R[x] => g[y] = h[y]) => F[<<g, x>>] = F[<<h, x>>]

\* Then there is a function with these values.
LEMMA Recursion ==
  ASSUME NEW D, NEW V, NEW top, NEW R, NEW F, Ranked(D, V, top, R, F)
  PROVE  \E g \in [D -> V] : g = [x \in D |-> F[<<g, x>>]]
<1> USE DEF Ranked
<1> DEFINE S == {k \in Nat : \E g \in [D -> V] : \A x \in D : R[x] < k => g[x] = F[<<g, x>>]}
<1>1. 0 \in S
  <2> PICK v \in V : TRUE
    OBVIOUS
  <2> DEFINE g == [x \in D |-> v]
  <2>1. g \in [D -> V]
    OBVIOUS
  <2>2. \A x \in D : ~(R[x] < 0)
    <3>1. \A x \in D : R[x] \in 0 .. top
      OBVIOUS
    <3> QED
      BY <3>1
  <2> QED
    BY <2>1, <2>2
<1>2. ASSUME NEW k \in S PROVE k + 1 \in S
  <2>1. PICK g \in [D -> V] : \A x \in D : R[x] < k => g[x] = F[<<g, x>>]
    OBVIOUS
  <2> DEFINE h == [x \in D |-> IF R[x] < k THEN g[x] ELSE F[<<g, x>>]]
  <2>2. h \in [D -> V]
    OBVIOUS
  <2>3. \A x \in D : R[x] < k => h[x] = g[x]
    OBVIOUS
  <2>4. \A x \in D : R[x] < k + 1 => h[x] = F[<<g, x>>]
    BY <2>1
  <2> HIDE DEF h
  <2>5. ASSUME NEW x \in D, R[x] < k + 1 PROVE h[x] = F[<<h, x>>]
    <3>1. \A y \in D : R[y] < R[x] => g[y] = h[y]
      BY <2>3, <2>5
    <3>2. F[<<g, x>>] = F[<<h, x>>]
      BY <2>2, <3>1
    <3> QED
      BY <2>4, <2>5, <3>2
  <2> QED
    BY <2>2, <2>5
<1>3. S = Nat
  <2> HIDE DEF S
  <2> SUFFICES S \in SUBSET Nat
    BY <1>1, <1>2, NatSet
  <2> QED
    BY DEF S
<1>4. top + 1 \in S
  BY <1>3, top + 1 \in Nat
<1>5. PICK g \in [D -> V] : \A x \in D : R[x] < top + 1 => g[x] = F[<<g, x>>]
  BY <1>4
<1>6. \A x \in D : g[x] = F[<<g, x>>]
  <2>1. \A x \in D : R[x] \in 0 .. top
    OBVIOUS
  <2>2. \A x \in D : R[x] < top + 1
    BY <2>1
  <2> QED
    BY <1>5, <2>2
<1> HIDE DEF S
<1>7. g = [x \in D |-> F[<<g, x>>]]
  BY <1>6
<1> QED
  BY <1>7

-----------------------------------------------------------------------------
(* Sequences of elements.                                                   *)

\* s is s1, then an element of key p and subtree z, then s2.
Joins(s, s1, p, z, s2) ==
  /\ Len(s) = Len(s1) + 1 + Len(s2)
  /\ \A i \in 1 .. Len(s1) : s[i] = s1[i]
  /\ s[Len(s1) + 1].key = p /\ s[Len(s1) + 1].sub = z
  /\ \A i \in 1 .. Len(s2) : s[Len(s1) + 1 + i] = s2[i]

\* t is s with e behind the first q elements.
Inserts(t, s, q, e) ==
  /\ Len(t) = Len(s) + 1
  /\ \A i \in 1 .. q : t[i] = s[i]
  /\ t[q + 1] = e
  /\ \A i \in q + 1 .. Len(s) : t[i + 1] = s[i]

LEMMA SeqLen == \A s \in Seq(Elems) : Len(s) \in Nat
  OBVIOUS

LEMMA ElemIs ==
  ASSUME NEW s \in Seq(Elems), NEW i \in 1 .. Len(s)
  PROVE  /\ s[i] \in Elems /\ s[i].key \in Keys /\ s[i].sub \in Link
         /\ s[i].key \in Int
<1>1. s[i] \in Elems
  OBVIOUS
<1>2. Keys \subseteq Int
  BY BTreeAssumption
<1> QED
  BY <1>1, <1>2 DEF Elems

LEMMA SubIs ==
  ASSUME NEW z \in Link, NEW s \in Seq(Elems), NEW i \in Slots(s)
  PROVE  Sub(z, s, i) \in Link
<1>1. CASE i = 0
  BY <1>1 DEF Sub
<1>2. CASE i # 0
  <2>1. i \in 1 .. Len(s)
    BY <1>2, SeqLen DEF Slots
  <2> QED
    BY <1>2, <2>1, ElemIs DEF Sub
<1> QED
  BY <1>1, <1>2

LEMMA ChildIs ==
  ASSUME NEW n \in Nodes
  PROVE  \A i : Child(n, i) = Sub(zero[n], elems[n], i)
  BY DEF Child, Sub

\* One gap is the place of a key.
LEMMA GapUnique ==
  ASSUME NEW s \in Seq(Elems), Sorted(s), NEW i \in Slots(s), NEW j \in Slots(s), NEW k \in Int,
         InGap(s, i, k), InGap(s, j, k)
  PROVE  i = j
<1>1. ASSUME NEW a \in Slots(s), NEW b \in Slots(s), InGap(s, a, k), InGap(s, b, k), a < b
      PROVE  FALSE
  <2>1. a \in Int /\ a + 1 \in 1 .. Len(s) /\ b \in 1 .. Len(s) /\ a < Len(s) /\ b > 0
    BY <1>1, SeqLen DEF Slots
  <2>2. k < s[a + 1].key /\ s[b].key <= k
    BY <1>1, <2>1 DEF InGap
  <2>3. s[a + 1].key \in Int /\ s[b].key \in Int
    BY <2>1, ElemIs
  <2>4. s[a + 1].key <= s[b].key
    <3>1. CASE a + 1 = b
      BY <2>3, <3>1
    <3>2. CASE a + 1 < b
      BY <2>1, <2>3, <3>2 DEF Sorted
    <3> QED
      BY <1>1, <2>1, <3>1, <3>2
  <2> QED
    BY <2>2, <2>3, <2>4
<1>2. i \in Int /\ j \in Int
  BY SeqLen DEF Slots
<1> QED
  BY <1>1, <1>2

LEMMA ConcatIs ==
  ASSUME NEW a \in Seq(Elems), NEW b \in Seq(Elems)
  PROVE  /\ a \o b \in Seq(Elems) /\ Len(a \o b) = Len(a) + Len(b)
         /\ \A i \in 1 .. Len(a) : (a \o b)[i] = a[i]
         /\ \A i \in 1 .. Len(b) : (a \o b)[Len(a) + i] = b[i]
<1> DEFINE t == a \o b
<1>1. Len(a) \in Nat /\ Len(b) \in Nat
  BY SeqLen
<1>2. /\ t \in Seq(Elems) /\ Len(t) = Len(a) + Len(b)
      /\ \A i \in 1 .. Len(a) + Len(b) : t[i] = IF i <= Len(a) THEN a[i] ELSE b[i - Len(a)]
  BY ConcatProperties
<1> HIDE DEF t
<1>3. ASSUME NEW i \in 1 .. Len(a) PROVE t[i] = a[i]
  <2>1. i \in 1 .. Len(a) + Len(b) /\ i <= Len(a)
    BY <1>1
  <2> QED
    BY <1>2, <2>1
<1>4. ASSUME NEW i \in 1 .. Len(b) PROVE t[Len(a) + i] = b[i]
  <2>1. /\ Len(a) + i \in 1 .. Len(a) + Len(b) /\ ~(Len(a) + i <= Len(a))
        /\ Len(a) + i - Len(a) = i
    BY <1>1
  <2> QED
    BY <1>2, <2>1
<1> QED
  BY <1>2, <1>3, <1>4 DEF t

LEMMA JoinIs ==
  ASSUME NEW s1 \in Seq(Elems), NEW s2 \in Seq(Elems), NEW p \in Keys, NEW z \in Link
  PROVE  LET s == s1 \o (<<Elem(p, z)>> \o s2)
         IN  s \in Seq(Elems) /\ Joins(s, s1, p, z, s2)
<1> DEFINE e == Elem(p, z)
           t == <<e>> \o s2
           s == s1 \o t
<1>1. e \in Elems /\ e.key = p /\ e.sub = z
  BY DEF Elem, Elems
<1> HIDE DEF e
<1>2. <<e>> \in Seq(Elems) /\ Len(<<e>>) = 1 /\ <<e>>[1] = e
  BY <1>1
<1> DEFINE u == <<e>>
<1> HIDE DEF u
<1>3. u \in Seq(Elems) /\ Len(u) = 1 /\ u[1] = e
  BY <1>2 DEF u
<1>4. u \o s2 = t
  BY DEF u
<1>5. /\ t \in Seq(Elems) /\ Len(t) = 1 + Len(s2) /\ t[1] = e
      /\ \A i \in 1 .. Len(s2) : t[1 + i] = s2[i]
  <2>1. 1 \in 1 .. Len(u)
    BY <1>3
  <2> QED
    BY <1>3, <1>4, <2>1, ConcatIs
<1> HIDE DEF t
<1>6. /\ s \in Seq(Elems) /\ Len(s) = Len(s1) + Len(t)
      /\ \A i \in 1 .. Len(s1) : s[i] = s1[i]
      /\ \A i \in 1 .. Len(t) : s[Len(s1) + i] = t[i]
  BY <1>5, ConcatIs
<1> HIDE DEF s
<1>7. Len(s1) \in Nat /\ Len(s2) \in Nat
  BY SeqLen
<1>8. Len(s) = Len(s1) + 1 + Len(s2)
  BY <1>5, <1>6, <1>7
<1>9. s[Len(s1) + 1] = e
  <2>1. 1 \in 1 .. Len(t)
    BY <1>5, <1>7
  <2> QED
    BY <1>5, <1>6, <2>1
<1>10. ASSUME NEW i \in 1 .. Len(s2) PROVE s[Len(s1) + 1 + i] = s2[i]
  <2>1. 1 + i \in 1 .. Len(t) /\ Len(s1) + (1 + i) = Len(s1) + 1 + i
    BY <1>5, <1>7
  <2> QED
    BY <1>5, <1>6, <2>1
<1> QED
  BY <1>1, <1>6, <1>8, <1>9, <1>10 DEF Joins, s, t, e

LEMMA CutIs ==
  ASSUME NEW s \in Seq(Elems), NEW q \in 1 .. Len(s)
  PROVE  /\ SubSeq(s, 1, q - 1) \in Seq(Elems) /\ SubSeq(s, q + 1, Len(s)) \in Seq(Elems)
         /\ Len(SubSeq(s, 1, q - 1)) = q - 1 /\ Len(SubSeq(s, q + 1, Len(s))) = Len(s) - q
         /\ Joins(s, SubSeq(s, 1, q - 1), s[q].key, s[q].sub, SubSeq(s, q + 1, Len(s)))
<1> DEFINE a == SubSeq(s, 1, q - 1)
           b == SubSeq(s, q + 1, Len(s))
<1>1. Len(s) \in Nat /\ q \in Nat /\ q >= 1 /\ q <= Len(s)
  BY SeqLen
<1>2. \A i \in 1 .. Len(s) : s[i] \in Elems
  OBVIOUS
<1>3. /\ a \in Seq(Elems) /\ Len(a) = q - 1
      /\ \A i \in 1 .. q - 1 : a[i] = s[i]
  <2>1. \A i \in 1 .. q - 1 : s[i] \in Elems
    BY <1>1, <1>2
  <2>2. /\ a \in Seq(Elems)
        /\ Len(a) = IF 1 <= q - 1 THEN q - 1 - 1 + 1 ELSE 0
        /\ \A i \in 1 .. q - 1 - 1 + 1 : a[i] = s[1 + i - 1]
    BY <1>1, <2>1, SubSeqProperties
  <2> HIDE DEF a
  <2> QED
    BY <1>1, <2>2
<1>4. /\ b \in Seq(Elems) /\ Len(b) = Len(s) - q
      /\ \A i \in 1 .. Len(s) - q : b[i] = s[q + i]
  <2>1. \A i \in q + 1 .. Len(s) : s[i] \in Elems
    BY <1>1, <1>2
  <2>2. /\ b \in Seq(Elems)
        /\ Len(b) = IF q + 1 <= Len(s) THEN Len(s) - (q + 1) + 1 ELSE 0
        /\ \A i \in 1 .. Len(s) - (q + 1) + 1 : b[i] = s[q + 1 + i - 1]
    BY <1>1, <2>1, SubSeqProperties
  <2> HIDE DEF b
  <2> QED
    BY <1>1, <2>2
<1> HIDE DEF a, b
<1>5. Joins(s, a, s[q].key, s[q].sub, b)
  BY <1>1, <1>3, <1>4 DEF Joins
<1> QED
  BY <1>3, <1>4, <1>5 DEF a, b

LEMMA InsertIs ==
  ASSUME NEW s \in Seq(Elems), NEW q \in Slots(s), NEW e \in Elems
  PROVE  InsertAt(s, q + 1, e) \in Seq(Elems) /\ Inserts(InsertAt(s, q + 1, e), s, q, e)
<1> DEFINE a == SubSeq(s, 1, q)
           b == SubSeq(s, q + 1, Len(s))
           u == <<e>>
           au == a \o u
           t == au \o b
<1>1. Len(s) \in Nat /\ q \in Nat /\ q <= Len(s) /\ q + 1 - 1 = q
  BY SeqLen DEF Slots
<1>2. \A i \in 1 .. Len(s) : s[i] \in Elems
  OBVIOUS
<1>3. /\ a \in Seq(Elems) /\ Len(a) = q
      /\ \A i \in 1 .. q : a[i] = s[i]
  <2>1. \A i \in 1 .. q : s[i] \in Elems
    BY <1>1, <1>2
  <2>2. /\ a \in Seq(Elems)
        /\ Len(a) = IF 1 <= q THEN q - 1 + 1 ELSE 0
        /\ \A i \in 1 .. q - 1 + 1 : a[i] = s[1 + i - 1]
    BY <1>1, <2>1, SubSeqProperties
  <2> HIDE DEF a
  <2> QED
    BY <1>1, <2>2
<1>4. /\ b \in Seq(Elems) /\ Len(b) = Len(s) - q
      /\ \A i \in 1 .. Len(s) - q : b[i] = s[q + i]
  <2>1. \A i \in q + 1 .. Len(s) : s[i] \in Elems
    BY <1>1, <1>2
  <2>2. /\ b \in Seq(Elems)
        /\ Len(b) = IF q + 1 <= Len(s) THEN Len(s) - (q + 1) + 1 ELSE 0
        /\ \A i \in 1 .. Len(s) - (q + 1) + 1 : b[i] = s[q + 1 + i - 1]
    BY <1>1, <2>1, SubSeqProperties
  <2> HIDE DEF b
  <2> QED
    BY <1>1, <2>2
<1> HIDE DEF a, b
<1>5. u \in Seq(Elems) /\ Len(u) = 1 /\ u[1] = e
  OBVIOUS
<1> HIDE DEF u
<1>6. /\ au \in Seq(Elems) /\ Len(au) = q + 1 /\ au[q + 1] = e
      /\ \A i \in 1 .. q : au[i] = s[i]
  <2>1. 1 \in 1 .. Len(u)
    BY <1>5
  <2>2. /\ au \in Seq(Elems) /\ Len(au) = Len(a) + Len(u) /\ au[Len(a) + 1] = u[1]
        /\ \A i \in 1 .. Len(a) : au[i] = a[i]
    BY <1>3, <1>5, <2>1, ConcatIs
  <2> HIDE DEF au
  <2> QED
    BY <1>3, <1>5, <2>2
<1> HIDE DEF au
<1>7. /\ t \in Seq(Elems) /\ Len(t) = Len(au) + Len(b)
      /\ \A i \in 1 .. Len(au) : t[i] = au[i]
      /\ \A i \in 1 .. Len(b) : t[Len(au) + i] = b[i]
  BY <1>4, <1>6, ConcatIs
<1> HIDE DEF t
<1>8. Len(t) = Len(s) + 1 /\ t[q + 1] = e /\ \A i \in 1 .. q : t[i] = s[i]
  <2>1. /\ q + 1 \in 1 .. Len(au)
        /\ \A i \in 1 .. q : i \in 1 .. Len(au)
    BY <1>1, <1>6
  <2>2. Len(t) = Len(s) + 1
    BY <1>1, <1>4, <1>6, <1>7
  <2> QED
    BY <1>6, <1>7, <2>1, <2>2
<1>9. ASSUME NEW i \in q + 1 .. Len(s) PROVE t[i + 1] = s[i]
  <2>1. i - q \in 1 .. Len(b) /\ Len(au) + (i - q) = i + 1 /\ q + (i - q) = i
    BY <1>1, <1>4, <1>6
  <2>2. i - q \in 1 .. Len(s) - q
    BY <1>4, <2>1
  <2>3. b[i - q] = s[i]
    BY <1>4, <2>1, <2>2
  <2>4. t[i + 1] = b[i - q]
    BY <1>7, <2>1
  <2> QED
    BY <1>1, <2>3, <2>4
<1>10. InsertAt(s, q + 1, e) = t
  <2>1. SubSeq(s, 1, (q + 1) - 1) = a
    BY <1>1 DEF a
  <2>2. InsertAt(s, q + 1, e) = SubSeq(s, 1, (q + 1) - 1) \o <<e>> \o SubSeq(s, q + 1, Len(s))
    BY DEF InsertAt
  <2> QED
    BY <2>1, <2>2 DEF t, au, b, u
<1> QED
  BY <1>7, <1>8, <1>9, <1>10 DEF Inserts

LEMMA RemoveIs ==
  ASSUME NEW s \in Seq(Elems), NEW q \in 1 .. Len(s)
  PROVE  RemoveAt(s, q) \in Seq(Elems) /\ Inserts(s, RemoveAt(s, q), q - 1, s[q])
<1> DEFINE a == SubSeq(s, 1, q - 1)
           b == SubSeq(s, q + 1, Len(s))
           t == a \o b
<1>1. Len(s) \in Nat /\ q \in Nat /\ q >= 1 /\ q <= Len(s)
  BY SeqLen
<1>2. /\ a \in Seq(Elems) /\ b \in Seq(Elems) /\ Len(a) = q - 1 /\ Len(b) = Len(s) - q
      /\ Joins(s, a, s[q].key, s[q].sub, b)
  BY CutIs
<1> HIDE DEF a, b
<1>3. /\ t \in Seq(Elems) /\ Len(t) = Len(a) + Len(b)
      /\ \A i \in 1 .. Len(a) : t[i] = a[i]
      /\ \A i \in 1 .. Len(b) : t[Len(a) + i] = b[i]
  BY <1>2, ConcatIs
<1> HIDE DEF t
<1>4. Len(s) = Len(t) + 1 /\ \A i \in 1 .. q - 1 : s[i] = t[i]
  BY <1>1, <1>2, <1>3 DEF Joins
<1>5. ASSUME NEW i \in q - 1 + 1 .. Len(t) PROVE s[i + 1] = t[i]
  <2>1. /\ i - (q - 1) \in 1 .. Len(b) /\ Len(a) + (i - (q - 1)) = i
        /\ Len(a) + 1 + (i - (q - 1)) = i + 1
    BY <1>1, <1>2, <1>3
  <2>2. s[i + 1] = b[i - (q - 1)]
    BY <1>2, <2>1 DEF Joins
  <2> QED
    BY <1>3, <2>1, <2>2
<1>6. s[q - 1 + 1] = s[q]
  BY <1>1
<1>7. RemoveAt(s, q) = t
  BY Zenon DEF RemoveAt, t, a, b
<1> QED
  BY <1>3, <1>4, <1>5, <1>6, <1>7 DEF Inserts

LEMMA JoinSlots ==
  ASSUME NEW s \in Seq(Elems), NEW s1 \in Seq(Elems), NEW s2 \in Seq(Elems), NEW p, NEW z2 \in Link,
         Joins(s, s1, p, z2, s2), NEW z \in Link
  PROVE  /\ \A i \in Slots(s1) : i \in Slots(s) /\ Sub(z, s, i) = Sub(z, s1, i)
         /\ \A i \in Slots(s2) : /\ Len(s1) + 1 + i \in Slots(s)
                                 /\ Sub(z, s, Len(s1) + 1 + i) = Sub(z2, s2, i)
         /\ \A i \in Slots(s) \ Slots(s1) : i - (Len(s1) + 1) \in Slots(s2)
<1>1. Len(s) = Len(s1) + 1 + Len(s2) /\ Len(s1) \in Nat /\ Len(s2) \in Nat
  BY SeqLen DEF Joins
<1>2. ASSUME NEW i \in Slots(s1) PROVE i \in Slots(s) /\ Sub(z, s, i) = Sub(z, s1, i)
  <2>1. i \in Slots(s)
    BY <1>1 DEF Slots
  <2>2. i = 0 \/ i \in 1 .. Len(s1)
    BY <1>1 DEF Slots
  <2> QED
    BY <2>1, <2>2 DEF Sub, Joins
<1>3. ASSUME NEW i \in Slots(s2)
      PROVE  Len(s1) + 1 + i \in Slots(s) /\ Sub(z, s, Len(s1) + 1 + i) = Sub(z2, s2, i)
  <2>1. Len(s1) + 1 + i \in Slots(s) /\ Len(s1) + 1 + i # 0
    BY <1>1 DEF Slots
  <2>2. CASE i = 0
    BY <1>1, <2>1, <2>2 DEF Sub, Joins
  <2>3. CASE i # 0
    <3>1. i \in 1 .. Len(s2)
      BY <1>1, <2>3 DEF Slots
    <3>2. s[Len(s1) + 1 + i] = s2[i]
      BY <3>1 DEF Joins
    <3> QED
      BY <2>1, <2>3, <3>2 DEF Sub
  <2> QED
    BY <2>1, <2>2, <2>3
<1>4. ASSUME NEW i \in Slots(s) \ Slots(s1) PROVE i - (Len(s1) + 1) \in Slots(s2)
  BY <1>1 DEF Slots
<1> QED
  BY <1>2, <1>3, <1>4

LEMMA JoinKeys ==
  ASSUME NEW s \in Seq(Elems), NEW s1 \in Seq(Elems), NEW s2 \in Seq(Elems), NEW p, NEW z2 \in Link,
         Joins(s, s1, p, z2, s2)
  PROVE  KeysIn(s) = KeysIn(s1) \cup {p} \cup KeysIn(s2)
<1>1. Len(s) = Len(s1) + 1 + Len(s2) /\ Len(s1) \in Nat /\ Len(s2) \in Nat
  BY SeqLen DEF Joins
<1>2. ASSUME NEW i \in 1 .. Len(s) PROVE s[i].key \in KeysIn(s1) \cup {p} \cup KeysIn(s2)
  <2>1. CASE i <= Len(s1)
    <3>1. i \in 1 .. Len(s1)
      BY <1>1, <2>1
    <3> QED
      BY <3>1 DEF Joins, KeysIn
  <2>2. CASE i = Len(s1) + 1
    BY <2>2 DEF Joins
  <2>3. CASE i > Len(s1) + 1
    <3>1. /\ i - (Len(s1) + 1) \in 1 .. Len(s2)
          /\ Len(s1) + 1 + (i - (Len(s1) + 1)) = i
      BY <1>1, <2>3
    <3>2. s[i] = s2[i - (Len(s1) + 1)]
      BY <3>1 DEF Joins
    <3> QED
      BY <3>1, <3>2 DEF KeysIn
  <2> QED
    BY <1>1, <2>1, <2>2, <2>3
<1>3. ASSUME NEW i \in 1 .. Len(s1) PROVE s1[i].key \in KeysIn(s)
  <2>1. i \in 1 .. Len(s) /\ s[i] = s1[i]
    BY <1>1 DEF Joins
  <2> QED
    BY <2>1 DEF KeysIn
<1>4. ASSUME NEW i \in 1 .. Len(s2) PROVE s2[i].key \in KeysIn(s)
  <2>1. Len(s1) + 1 + i \in 1 .. Len(s) /\ s[Len(s1) + 1 + i] = s2[i]
    BY <1>1 DEF Joins
  <2> QED
    BY <2>1 DEF KeysIn
<1>5. p \in KeysIn(s)
  <2>1. Len(s1) + 1 \in 1 .. Len(s) /\ s[Len(s1) + 1].key = p
    BY <1>1 DEF Joins
  <2> QED
    BY <2>1 DEF KeysIn
<1>6. KeysIn(s) \subseteq KeysIn(s1) \cup {p} \cup KeysIn(s2)
  BY <1>2 DEF KeysIn
<1>7. KeysIn(s1) \subseteq KeysIn(s) /\ KeysIn(s2) \subseteq KeysIn(s)
  BY <1>3, <1>4 DEF KeysIn
<1> QED
  BY <1>5, <1>6, <1>7

LEMMA JoinContent ==
  ASSUME NEW s \in Seq(Elems), NEW s1 \in Seq(Elems), NEW s2 \in Seq(Elems), NEW p, NEW z2 \in Link,
         Joins(s, s1, p, z2, s2), NEW z \in Link, NEW C
  PROVE  Content(z, s, C) = Content(z, s1, C) \cup {p} \cup Content(z2, s2, C)
<1> DEFINE U(y, t) == UNION {C[Sub(y, t, i)] : i \in Slots(t)}
<1>1. U(z, s) \subseteq U(z, s1) \cup U(z2, s2)
  <2> SUFFICES ASSUME NEW i \in Slots(s) PROVE C[Sub(z, s, i)] \subseteq U(z, s1) \cup U(z2, s2)
    OBVIOUS
  <2>1. CASE i \in Slots(s1)
    BY <2>1, JoinSlots
  <2>2. CASE i \notin Slots(s1)
    <3> DEFINE j == i - (Len(s1) + 1)
    <3>1. j \in Slots(s2) /\ i = Len(s1) + 1 + j
      <4>1. j \in Slots(s2)
        BY <2>2, JoinSlots
      <4>2. i \in Int /\ Len(s1) \in Int
        BY SeqLen DEF Slots
      <4> QED
        BY <4>1, <4>2
    <3> HIDE DEF j
    <3>2. Sub(z, s, i) = Sub(z2, s2, j)
      BY <3>1, JoinSlots
    <3> QED
      BY <3>1, <3>2
  <2> QED
    BY <2>1, <2>2
<1>2. U(z, s1) \subseteq U(z, s)
  BY JoinSlots
<1>3. U(z2, s2) \subseteq U(z, s)
  <2> SUFFICES ASSUME NEW i \in Slots(s2) PROVE C[Sub(z2, s2, i)] \subseteq U(z, s)
    OBVIOUS
  <2>1. Len(s1) + 1 + i \in Slots(s) /\ Sub(z, s, Len(s1) + 1 + i) = Sub(z2, s2, i)
    BY JoinSlots
  <2> QED
    BY <2>1
<1>4. /\ Content(z, s, C) = KeysIn(s) \cup U(z, s)
      /\ Content(z, s1, C) = KeysIn(s1) \cup U(z, s1)
      /\ Content(z2, s2, C) = KeysIn(s2) \cup U(z2, s2)
  BY DEF Content
<1> HIDE DEF U
<1>5. U(z, s) = U(z, s1) \cup U(z2, s2)
  BY <1>1, <1>2, <1>3
<1> QED
  BY <1>4, <1>5, JoinKeys

\* What a gap says of keys further away
LEMMA GapBounds ==
  ASSUME NEW s \in Seq(Elems), Sorted(s), NEW i \in Slots(s), NEW k \in Int, InGap(s, i, k),
         NEW j \in 1 .. Len(s)
  PROVE  IF j <= i THEN s[j].key <= k ELSE k < s[j].key
<1>1. s[j].key \in Int /\ i \in Int /\ j \in Int /\ i >= 0 /\ i <= Len(s) /\ Len(s) \in Nat
  BY ElemIs, SeqLen DEF Slots
<1>2. CASE j <= i
  <2>1. i \in 1 .. Len(s) /\ i > 0
    BY <1>1, <1>2
  <2>2. s[i].key <= k /\ s[i].key \in Int
    BY <2>1, ElemIs DEF InGap
  <2>3. CASE i = j
    BY <1>2, <2>2, <2>3
  <2>4. CASE j < i
    <3>1. s[j].key < s[i].key
      BY <2>1, <2>4 DEF Sorted
    <3> QED
      BY <1>1, <1>2, <2>2, <3>1
  <2> QED
    BY <1>1, <1>2, <2>3, <2>4
<1>3. CASE ~(j <= i)
  <2>1. i + 1 \in 1 .. Len(s) /\ i < Len(s)
    BY <1>1, <1>3
  <2>2. k < s[i + 1].key /\ s[i + 1].key \in Int
    BY <2>1, ElemIs DEF InGap
  <2>3. CASE i + 1 = j
    BY <1>3, <2>2, <2>3
  <2>4. CASE i + 1 < j
    <3>1. s[i + 1].key < s[j].key
      BY <2>1, <2>4 DEF Sorted
    <3> QED
      BY <1>1, <1>3, <2>2, <3>1
  <2> QED
    BY <1>1, <1>3, <2>3, <2>4
<1> QED
  BY <1>2, <1>3

\* Two nodes of a good node that is cut
Cut(s, s1, p, z2, s2, z, l, C, H) ==
  /\ s \in Seq(Elems) /\ s1 \in Seq(Elems) /\ s2 \in Seq(Elems)
  /\ p \in Keys /\ z2 \in Link /\ Joins(s, s1, p, z2, s2) /\ z \in Link
  /\ C \in [Link -> SUBSET Keys] /\ H \in [Link -> Int] /\ Good(z, s, l, C, H)

LEMMA SplitGood ==
  ASSUME NEW s, NEW s1, NEW s2, NEW p, NEW z2, NEW z, NEW l, NEW C, NEW H,
         Cut(s, s1, p, z2, s2, z, l, C, H)
  PROVE  /\ Good(z, s1, l, C, H) /\ Good(z2, s2, l, C, H)
         /\ \A k \in Content(z, s1, C) : k < p
         /\ \A k \in Content(z2, s2, C) : p <= k
         /\ \A i \in Slots(s1), j \in Slots(s2) :
              Sub(z, s1, i) = Sub(z2, s2, j) => Sub(z, s1, i) = None
<1> USE DEF Cut
<1> DEFINE L == Len(s1) + 1
<1>1. /\ Len(s) = L + Len(s2) /\ Len(s1) \in Nat /\ Len(s2) \in Nat /\ L = Len(s1) + 1
      /\ L \in 1 .. Len(s)
  BY SeqLen DEF Joins
<1>2. /\ \A i \in 1 .. Len(s1) : i \in 1 .. Len(s) /\ s[i] = s1[i]
      /\ \A i \in 1 .. Len(s2) : L + i \in 1 .. Len(s) /\ s[L + i] = s2[i]
      /\ s[L].key = p
  BY <1>1 DEF Joins
<1>3. /\ \A i \in Slots(s1) : i \in Slots(s) /\ Sub(z, s, i) = Sub(z, s1, i) /\ i < L
      /\ \A i \in Slots(s2) : L + i \in Slots(s) /\ Sub(z, s, L + i) = Sub(z2, s2, i)
  <2>1. \A i \in Slots(s1) : i < L
    BY <1>1 DEF Slots
  <2> QED
    BY <2>1, JoinSlots
<1> HIDE DEF L
<1>4. Keys \subseteq Int
  BY BTreeAssumption
<1>5. /\ \A i \in Slots(s) : C[Sub(z, s, i)] \subseteq Keys
      /\ \A i \in Slots(s) : \A k \in C[Sub(z, s, i)] : InGap(s, i, k)
      /\ Sorted(s)
  BY SubIs DEF Good
<1>6. Sorted(s1)
  <2> SUFFICES ASSUME NEW i \in 1 .. Len(s1), NEW j \in 1 .. Len(s1), i < j
               PROVE  s1[i].key < s1[j].key
    BY DEF Sorted
  <2> QED
    BY <1>2, <1>5 DEF Sorted
<1>7. Sorted(s2)
  <2> SUFFICES ASSUME NEW i \in 1 .. Len(s2), NEW j \in 1 .. Len(s2), i < j
               PROVE  s2[i].key < s2[j].key
    BY DEF Sorted
  <2>1. L + i < L + j
    BY <1>1
  <2> QED
    BY <1>2, <1>5, <2>1 DEF Sorted
<1>8. Distinct(z, s1)
  BY <1>3 DEF Good, Distinct
<1>9. Distinct(z2, s2)
  <2> SUFFICES ASSUME NEW i \in Slots(s2), NEW j \in Slots(s2),
                      Sub(z2, s2, i) = Sub(z2, s2, j), Sub(z2, s2, i) # None
               PROVE  i = j
    BY DEF Distinct
  <2>1. L + i = L + j
    BY <1>3 DEF Good, Distinct
  <2> QED
    BY <1>1, <2>1 DEF Slots
<1>10. /\ \A i \in Slots(s1) : H[Sub(z, s1, i)] = l
       /\ \A i \in Slots(s2) : H[Sub(z2, s2, i)] = l
  BY <1>3 DEF Good
<1>11. ASSUME NEW i \in Slots(s1), NEW k \in C[Sub(z, s1, i)] PROVE InGap(s1, i, k) /\ k < p
  <2>1. InGap(s, i, k) /\ k \in Int /\ i \in Slots(s) /\ i \in Int
    BY <1>3, <1>4, <1>5 DEF Slots
  <2>2. i > 0 => s1[i].key <= k
    <3> SUFFICES ASSUME i > 0 PROVE s1[i].key <= k
      OBVIOUS
    <3>1. i \in 1 .. Len(s1)
      BY <1>1 DEF Slots
    <3> QED
      BY <1>2, <2>1, <3>1 DEF InGap
  <2>3. i < Len(s1) => k < s1[i + 1].key
    <3> SUFFICES ASSUME i < Len(s1) PROVE k < s1[i + 1].key
      OBVIOUS
    <3>1. i + 1 \in 1 .. Len(s1) /\ i < Len(s)
      BY <1>1 DEF Slots
    <3> QED
      BY <1>2, <2>1, <3>1 DEF InGap
  <2>4. k < s[L].key
    <3>1. ~(L <= i)
      BY <1>1, <1>3, <2>1
    <3> QED
      BY <1>1, <1>5, <2>1, <3>1, GapBounds
  <2> QED
    BY <1>2, <2>2, <2>3, <2>4 DEF InGap
<1>12. ASSUME NEW i \in Slots(s2), NEW k \in C[Sub(z2, s2, i)] PROVE InGap(s2, i, k) /\ p <= k
  <2>1. InGap(s, L + i, k) /\ k \in Int /\ L + i \in Slots(s) /\ i \in Int /\ i >= 0
    BY <1>3, <1>4, <1>5, SeqLen DEF Slots
  <2>2. i > 0 => s2[i].key <= k
    <3> SUFFICES ASSUME i > 0 PROVE s2[i].key <= k
      OBVIOUS
    <3>1. i \in 1 .. Len(s2) /\ L + i > 0
      BY <1>1 DEF Slots
    <3> QED
      BY <1>2, <2>1, <3>1 DEF InGap
  <2>3. i < Len(s2) => k < s2[i + 1].key
    <3> SUFFICES ASSUME i < Len(s2) PROVE k < s2[i + 1].key
      OBVIOUS
    <3>1. i + 1 \in 1 .. Len(s2) /\ L + i < Len(s) /\ L + (i + 1) = (L + i) + 1
      BY <1>1, <2>1
    <3>2. s[(L + i) + 1] = s2[i + 1]
      BY <1>2, <3>1
    <3> QED
      BY <2>1, <3>1, <3>2 DEF InGap
  <2>4. s[L].key <= k
    <3>1. L <= L + i
      BY <1>1, <2>1
    <3> QED
      BY <1>1, <1>5, <2>1, <3>1, GapBounds
  <2> QED
    BY <1>2, <2>2, <2>3, <2>4 DEF InGap
<1>13. \A k \in KeysIn(s1) : k < p
  <2> SUFFICES ASSUME NEW i \in 1 .. Len(s1) PROVE s1[i].key < p
    BY DEF KeysIn
  <2>1. i < L
    BY <1>1
  <2> QED
    BY <1>1, <1>2, <1>5, <2>1 DEF Sorted
<1>14. \A k \in KeysIn(s2) : p <= k
  <2> SUFFICES ASSUME NEW i \in 1 .. Len(s2) PROVE p <= s2[i].key
    BY DEF KeysIn
  <2>1. L < L + i
    BY <1>1
  <2>2. p < s2[i].key
    BY <1>1, <1>2, <1>5, <2>1 DEF Sorted
  <2>3. s2[i].key \in Int /\ p \in Int
    BY <1>4, ElemIs
  <2> QED
    BY <2>2, <2>3
<1>15. /\ \A k \in Content(z, s1, C) : k < p
       /\ \A k \in Content(z2, s2, C) : p <= k
  BY <1>11, <1>12, <1>13, <1>14 DEF Content
<1>16. ASSUME NEW i \in Slots(s1), NEW j \in Slots(s2), Sub(z, s1, i) = Sub(z2, s2, j),
              Sub(z, s1, i) # None
       PROVE  FALSE
  <2>1. i = L + j
    BY <1>3, <1>16 DEF Good, Distinct
  <2> QED
    BY <1>1, <1>3, <2>1 DEF Slots
<1> QED
  BY <1>6, <1>7, <1>8, <1>9, <1>10, <1>11, <1>12, <1>15, <1>16 DEF Good

\* Two good nodes, with a key between them, make one.
Joined(s, s1, p, z2, s2, z, l, C, H) ==
  /\ s \in Seq(Elems) /\ s1 \in Seq(Elems) /\ s2 \in Seq(Elems)
  /\ p \in Keys /\ z2 \in Link /\ Joins(s, s1, p, z2, s2) /\ z \in Link
  /\ C \in [Link -> SUBSET Keys] /\ H \in [Link -> Int]
  /\ Good(z, s1, l, C, H) /\ Good(z2, s2, l, C, H)
  /\ \A k \in Content(z, s1, C) : k < p
  /\ \A k \in Content(z2, s2, C) : p <= k
  /\ p \notin KeysIn(s2)
  /\ \A i \in Slots(s1), j \in Slots(s2) :
       Sub(z, s1, i) = Sub(z2, s2, j) => Sub(z, s1, i) = None

LEMMA JoinGood ==
  ASSUME NEW s, NEW s1, NEW s2, NEW p, NEW z2, NEW z, NEW l, NEW C, NEW H,
         Joined(s, s1, p, z2, s2, z, l, C, H)
  PROVE  Good(z, s, l, C, H)
<1> USE DEF Joined
<1> DEFINE L == Len(s1) + 1
<1>1. /\ Len(s) = L + Len(s2) /\ Len(s1) \in Nat /\ Len(s2) \in Nat /\ L = Len(s1) + 1
      /\ L \in 1 .. Len(s)
  BY SeqLen DEF Joins
<1>2. /\ \A i \in 1 .. Len(s1) : i \in 1 .. Len(s) /\ s[i] = s1[i]
      /\ \A i \in 1 .. Len(s2) : L + i \in 1 .. Len(s) /\ s[L + i] = s2[i]
      /\ s[L].key = p
  BY <1>1 DEF Joins
<1>3. /\ \A i \in Slots(s1) : Sub(z, s, i) = Sub(z, s1, i)
      /\ \A i \in Slots(s2) : Sub(z, s, L + i) = Sub(z2, s2, i)
  BY JoinSlots
<1>4. ASSUME NEW i \in Slots(s) \ Slots(s1)
      PROVE  i - L \in Slots(s2) /\ i = L + (i - L) /\ i \in Int /\ i >= L
  <2>1. i - L \in Slots(s2)
    BY JoinSlots
  <2> QED
    BY <1>1, <2>1 DEF Slots
<1>5. ASSUME NEW i \in 1 .. Len(s) PROVE i \in 1 .. Len(s1) \/ i = L \/ (i - L \in 1 .. Len(s2) /\ i = L + (i - L))
  BY <1>1
<1> HIDE DEF L
<1>6. Keys \subseteq Int
  BY BTreeAssumption
<1>7. /\ \A k \in KeysIn(s1) : k < p
      /\ \A k \in KeysIn(s2) : p < k
  <2>1. ASSUME NEW k \in KeysIn(s2) PROVE p < k
    <3>1. k \in Content(z2, s2, C) /\ k # p
      BY DEF Content
    <3>2. k \in Int /\ p \in Int
      BY <1>6, ElemIs DEF KeysIn
    <3> QED
      BY <3>1, <3>2
  <2> QED
    BY <2>1 DEF Content
<1>8. Sorted(s)
  <2> SUFFICES ASSUME NEW i \in 1 .. Len(s), NEW j \in 1 .. Len(s), i < j
               PROVE  s[i].key < s[j].key
    BY DEF Sorted
  <2>1. CASE j \in 1 .. Len(s1)
    <3>1. i \in 1 .. Len(s1)
      BY <1>1, <2>1
    <3> QED
      BY <1>2, <2>1, <3>1 DEF Good, Sorted
  <2>2. CASE j = L
    <3>1. i \in 1 .. Len(s1)
      BY <1>1, <2>2
    <3>2. s1[i].key \in KeysIn(s1) /\ s[i] = s1[i]
      BY <1>2, <3>1 DEF KeysIn
    <3> QED
      BY <1>2, <1>7, <2>2, <3>2
  <2>3. CASE j - L \in 1 .. Len(s2) /\ j = L + (j - L)
    <3>1. s[j] = s2[j - L] /\ s2[j - L].key \in KeysIn(s2)
      BY <1>2, <2>3 DEF KeysIn
    <3>2. p < s[j].key /\ s[j].key \in Int /\ p \in Int
      BY <1>6, <1>7, <3>1, ElemIs
    <3>3. CASE i \in 1 .. Len(s1)
      <4>1. s1[i].key \in KeysIn(s1) /\ s[i] = s1[i]
        BY <1>2, <3>3 DEF KeysIn
      <4>2. s[i].key < p /\ s[i].key \in Int
        BY <1>7, <4>1, ElemIs
      <4> QED
        BY <3>2, <4>2
    <3>4. CASE i = L
      BY <1>2, <3>2, <3>4
    <3>5. CASE i - L \in 1 .. Len(s2) /\ i = L + (i - L)
      <4>1. i - L < j - L
        BY <1>1
      <4>2. s[i] = s2[i - L]
        BY <1>2, <3>5
      <4> QED
        BY <2>3, <3>1, <3>5, <4>1, <4>2 DEF Good, Sorted
    <3> QED
      BY <1>5, <3>3, <3>4, <3>5
  <2> QED
    BY <1>5, <2>1, <2>2, <2>3
<1>9. Distinct(z, s)
  <2> SUFFICES ASSUME NEW i \in Slots(s), NEW j \in Slots(s),
                      Sub(z, s, i) = Sub(z, s, j), Sub(z, s, i) # None
               PROVE  i = j
    BY DEF Distinct
  <2>1. CASE i \in Slots(s1) /\ j \in Slots(s1)
    BY <1>3, <2>1 DEF Good, Distinct
  <2>2. CASE i \in Slots(s1) /\ j \notin Slots(s1)
    BY <1>3, <1>4, <2>2
  <2>3. CASE i \notin Slots(s1) /\ j \in Slots(s1)
    BY <1>3, <1>4, <2>3
  <2>4. CASE i \notin Slots(s1) /\ j \notin Slots(s1)
    <3>1. /\ i - L \in Slots(s2) /\ i = L + (i - L)
          /\ j - L \in Slots(s2) /\ j = L + (j - L)
      BY <1>4, <2>4
    <3>2. Sub(z2, s2, i - L) = Sub(z2, s2, j - L) /\ Sub(z2, s2, i - L) # None
      BY <1>3, <3>1
    <3>3. i - L = j - L
      BY <3>1, <3>2 DEF Good, Distinct
    <3> QED
      BY <3>1, <3>3
  <2> QED
    BY <2>1, <2>2, <2>3, <2>4
<1>10. ASSUME NEW i \in Slots(s) PROVE H[Sub(z, s, i)] = l
  <2>1. CASE i \in Slots(s1)
    BY <1>3, <2>1 DEF Good
  <2>2. CASE i \notin Slots(s1)
    <3>1. i - L \in Slots(s2) /\ i = L + (i - L)
      BY <1>4, <2>2
    <3>2. Sub(z, s, i) = Sub(z2, s2, i - L)
      BY <1>3, <3>1
    <3> QED
      BY <3>1, <3>2 DEF Good
  <2> QED
    BY <2>1, <2>2
<1>11. ASSUME NEW i \in Slots(s), NEW k \in C[Sub(z, s, i)] PROVE InGap(s, i, k)
  <2>1. k \in Int /\ i \in Int /\ p \in Int /\ i >= 0 /\ i <= Len(s) /\ Len(s) \in Nat
    BY <1>6, SubIs, SeqLen DEF Slots
  <2>2. CASE i \in Slots(s1)
    <3>1. Sub(z, s, i) = Sub(z, s1, i)
      BY <1>3, <2>2
    <3>2. InGap(s1, i, k) /\ k \in Content(z, s1, C) /\ k < p
      <4>1. k \in C[Sub(z, s1, i)]
        BY <3>1
      <4> QED
        BY <2>2, <4>1 DEF Good, Content
    <3>3. i > 0 => s[i].key <= k
      <4> SUFFICES ASSUME i > 0 PROVE s[i].key <= k
        OBVIOUS
      <4>1. i \in 1 .. Len(s1)
        BY <1>1, <2>2 DEF Slots
      <4> QED
        BY <1>2, <3>2, <4>1 DEF InGap
    <3>4. k < s[i + 1].key
      <4>1. CASE i < Len(s1)
        <5>1. i + 1 \in 1 .. Len(s1)
          BY <1>1, <2>2, <4>1 DEF Slots
        <5> QED
          BY <1>2, <3>2, <4>1, <5>1 DEF InGap
      <4>2. CASE ~(i < Len(s1))
        <5>1. i + 1 = L
          BY <1>1, <2>2, <4>2 DEF Slots
        <5> QED
          BY <1>2, <3>2, <5>1
      <4> QED
        BY <4>1, <4>2
    <3> QED
      BY <3>3, <3>4 DEF InGap
  <2>3. CASE i \notin Slots(s1)
    <3>1. i - L \in Slots(s2) /\ i = L + (i - L) /\ i >= L
      BY <1>4, <2>3
    <3>2. k \in C[Sub(z2, s2, i - L)]
      BY <1>3, <3>1
    <3>3. InGap(s2, i - L, k) /\ p <= k
      BY <3>1, <3>2 DEF Good, Content
    <3>4. s[i].key <= k
      <4>1. CASE i - L = 0
        BY <1>1, <1>2, <2>1, <3>1, <3>3, <4>1
      <4>2. CASE i - L # 0
        <5>1. i - L \in 1 .. Len(s2) /\ i - L > 0
          BY <1>1, <3>1, <4>2 DEF Slots
        <5>2. s[i] = s2[i - L]
          BY <1>2, <3>1, <5>1
        <5> QED
          BY <3>3, <5>1, <5>2 DEF InGap
      <4> QED
        BY <4>1, <4>2
    <3>5. i < Len(s) => k < s[i + 1].key
      <4> SUFFICES ASSUME i < Len(s) PROVE k < s[i + 1].key
        OBVIOUS
      <4>1. (i - L) + 1 \in 1 .. Len(s2) /\ i - L < Len(s2) /\ L + ((i - L) + 1) = i + 1
        BY <1>1, <2>1, <3>1
      <4>2. s[i + 1] = s2[(i - L) + 1]
        BY <1>2, <4>1
      <4> QED
        BY <3>3, <4>1, <4>2 DEF InGap
    <3> QED
      BY <3>4, <3>5 DEF InGap
  <2> QED
    BY <2>2, <2>3
<1> QED
  BY <1>8, <1>9, <1>10, <1>11 DEF Good

LEMMA InsertSlots ==
  ASSUME NEW s \in Seq(Elems), NEW t \in Seq(Elems), NEW q \in Slots(s), NEW e \in Elems,
         Inserts(t, s, q, e), NEW z \in Link
  PROVE  /\ Len(t) = Len(s) + 1 /\ q \in Slots(t) /\ q + 1 \in Slots(t)
         /\ \A i \in Slots(s) : i <= q => i \in Slots(t) /\ Sub(z, t, i) = Sub(z, s, i)
         /\ \A i \in Slots(s) : i > q => i + 1 \in Slots(t) /\ Sub(z, t, i + 1) = Sub(z, s, i)
         /\ Sub(z, t, q + 1) = e.sub
         /\ \A i \in Slots(t) : \/ i <= q /\ i \in Slots(s)
                                \/ i = q + 1
                                \/ i > q + 1 /\ i - 1 > q /\ i - 1 \in Slots(s) /\ (i - 1) + 1 = i
<1>1. Len(t) = Len(s) + 1 /\ Len(s) \in Nat /\ q \in 0 .. Len(s)
  BY SeqLen DEF Inserts, Slots
<1>2. ASSUME NEW i \in Slots(s), i <= q PROVE i \in Slots(t) /\ Sub(z, t, i) = Sub(z, s, i)
  <2>1. i \in Slots(t) /\ (i = 0 \/ i \in 1 .. q)
    BY <1>1, <1>2 DEF Slots
  <2> QED
    BY <2>1 DEF Sub, Inserts
<1>3. ASSUME NEW i \in Slots(s), i > q
      PROVE  i + 1 \in Slots(t) /\ Sub(z, t, i + 1) = Sub(z, s, i)
  <2>1. i + 1 \in Slots(t) /\ i \in q + 1 .. Len(s) /\ i # 0 /\ i + 1 # 0
    BY <1>1, <1>3 DEF Slots
  <2>2. t[i + 1] = s[i]
    BY <2>1 DEF Inserts
  <2> QED
    BY <2>1, <2>2 DEF Sub
<1>4. Sub(z, t, q + 1) = e.sub
  <2>1. q + 1 # 0
    BY <1>1
  <2> QED
    BY <2>1 DEF Sub, Inserts
<1>5. ASSUME NEW i \in Slots(t)
      PROVE  \/ i <= q /\ i \in Slots(s)
             \/ i = q + 1
             \/ i > q + 1 /\ i - 1 > q /\ i - 1 \in Slots(s) /\ (i - 1) + 1 = i
  BY <1>1 DEF Slots
<1>6. q \in Slots(t) /\ q + 1 \in Slots(t)
  BY <1>1 DEF Slots
<1> QED
  BY <1>1, <1>2, <1>3, <1>4, <1>5, <1>6

LEMMA InsertKeys ==
  ASSUME NEW s \in Seq(Elems), NEW t \in Seq(Elems), NEW q \in Slots(s), NEW e \in Elems,
         Inserts(t, s, q, e)
  PROVE  KeysIn(t) = KeysIn(s) \cup {e.key}
<1>1. Len(t) = Len(s) + 1 /\ Len(s) \in Nat /\ q \in 0 .. Len(s)
  BY SeqLen DEF Inserts, Slots
<1>2. ASSUME NEW i \in 1 .. Len(t) PROVE t[i].key \in KeysIn(s) \cup {e.key}
  <2>1. CASE i \in 1 .. q
    <3>1. t[i] = s[i] /\ i \in 1 .. Len(s)
      BY <1>1, <2>1 DEF Inserts
    <3> QED
      BY <3>1 DEF KeysIn
  <2>2. CASE i = q + 1
    BY <2>2 DEF Inserts
  <2>3. CASE i - 1 \in q + 1 .. Len(s)
    <3>1. t[(i - 1) + 1] = s[i - 1] /\ (i - 1) + 1 = i /\ i - 1 \in 1 .. Len(s)
      BY <1>1, <2>3 DEF Inserts
    <3> QED
      BY <3>1 DEF KeysIn
  <2> QED
    BY <1>1, <2>1, <2>2, <2>3
<1>3. ASSUME NEW i \in 1 .. Len(s) PROVE s[i].key \in KeysIn(t)
  <2>1. CASE i \in 1 .. q
    <3>1. t[i] = s[i] /\ i \in 1 .. Len(t)
      BY <1>1, <2>1 DEF Inserts
    <3> QED
      BY <3>1 DEF KeysIn
  <2>2. CASE i \in q + 1 .. Len(s)
    <3>1. t[i + 1] = s[i] /\ i + 1 \in 1 .. Len(t)
      BY <1>1, <2>2 DEF Inserts
    <3> QED
      BY <3>1 DEF KeysIn
  <2> QED
    BY <1>1, <2>1, <2>2
<1>4. e.key \in KeysIn(t)
  <2>1. q + 1 \in 1 .. Len(t) /\ t[q + 1] = e
    BY <1>1 DEF Inserts
  <2> QED
    BY <2>1 DEF KeysIn
<1>5. KeysIn(t) \subseteq KeysIn(s) \cup {e.key} /\ KeysIn(s) \subseteq KeysIn(t)
  BY <1>2, <1>3 DEF KeysIn
<1> QED
  BY <1>4, <1>5

\* What the elements on either side of the new one are
LEMMA InsertElems ==
  ASSUME NEW s \in Seq(Elems), NEW t \in Seq(Elems), NEW q \in Slots(s), NEW e \in Elems,
         Inserts(t, s, q, e)
  PROVE  /\ Len(t) = Len(s) + 1 /\ Len(s) \in Nat /\ q \in 0 .. Len(s) /\ t[q + 1] = e
         /\ \A i \in 1 .. Len(t) : \/ i <= q /\ i \in 1 .. Len(s) /\ t[i] = s[i]
                                   \/ i = q + 1
                                   \/ i > q + 1 /\ i - 1 \in 1 .. Len(s) /\ t[i] = s[i - 1]
<1>1. Len(t) = Len(s) + 1 /\ Len(s) \in Nat /\ q \in 0 .. Len(s) /\ t[q + 1] = e
  BY SeqLen DEF Inserts, Slots
<1>2. ASSUME NEW i \in 1 .. Len(t)
      PROVE  \/ i <= q /\ i \in 1 .. Len(s) /\ t[i] = s[i]
             \/ i = q + 1
             \/ i > q + 1 /\ i - 1 \in 1 .. Len(s) /\ t[i] = s[i - 1]
  <2>1. CASE i <= q
    <3>1. i \in 1 .. Len(s) /\ i \in 1 .. q
      BY <1>1, <2>1
    <3> QED
      BY <2>1, <3>1 DEF Inserts
  <2>2. CASE i > q + 1
    <3>1. i - 1 \in 1 .. Len(s) /\ i - 1 \in q + 1 .. Len(s) /\ (i - 1) + 1 = i
      BY <1>1, <2>2
    <3>2. t[(i - 1) + 1] = s[i - 1]
      BY <3>1 DEF Inserts
    <3> QED
      BY <2>2, <3>1, <3>2
  <2> QED
    BY <1>1, <2>1, <2>2
<1> QED
  BY <1>1, <1>2

\* A good node stays good when an element is inserted where its key and subtree belong.
LEMMA InsertGood ==
  ASSUME NEW s \in Seq(Elems), NEW t \in Seq(Elems), NEW q \in Slots(s), NEW e \in Elems,
         Inserts(t, s, q, e), NEW z \in Link, NEW l,
         NEW C \in [Link -> SUBSET Keys], NEW H \in [Link -> Int], Good(z, s, l, C, H),
         H[e.sub] = l, e.key \notin KeysIn(s), InGap(s, q, e.key),
         \A k \in C[Sub(z, s, q)] : k < e.key,
         \A k \in C[e.sub] : e.key <= k /\ InGap(s, q, k),
         e.sub # None => \A i \in Slots(s) : Sub(z, s, i) # e.sub
  PROVE  Good(z, t, l, C, H)
<1>1. /\ Len(t) = Len(s) + 1 /\ Len(s) \in Nat /\ q \in 0 .. Len(s) /\ t[q + 1] = e
      /\ \A i \in 1 .. Len(t) : \/ i <= q /\ i \in 1 .. Len(s) /\ t[i] = s[i]
                                \/ i = q + 1
                                \/ i > q + 1 /\ i - 1 \in 1 .. Len(s) /\ t[i] = s[i - 1]
  BY InsertElems
<1>2. Keys \subseteq Int /\ e.key \in Keys /\ e.sub \in Link
  BY BTreeAssumption DEF Elems
<1>3. ASSUME NEW i \in 1 .. Len(s) PROVE IF i <= q THEN s[i].key < e.key ELSE e.key < s[i].key
  <2>1. IF i <= q THEN s[i].key <= e.key ELSE e.key < s[i].key
    BY <1>2, GapBounds DEF Good
  <2>2. s[i].key # e.key
    BY DEF KeysIn
  <2>3. s[i].key \in Int /\ e.key \in Int
    BY <1>2, ElemIs
  <2> QED
    BY <2>1, <2>2, <2>3
<1>4. Sorted(t)
  <2> SUFFICES ASSUME NEW i \in 1 .. Len(t), NEW j \in 1 .. Len(t), i < j
               PROVE  t[i].key < t[j].key
    BY DEF Sorted
  <2>1. \A a, b \in 1 .. Len(s) : a < b => s[a].key < s[b].key
    BY DEF Good, Sorted
  <2>2. CASE j <= q
    <3>1. i <= q /\ i # q + 1 /\ ~(i > q + 1) /\ j # q + 1 /\ ~(j > q + 1)
      BY <1>1, <2>2
    <3> QED
      BY <1>1, <2>1, <3>1
  <2>3. CASE j = q + 1
    <3>1. i <= q /\ i # q + 1 /\ ~(i > q + 1)
      BY <1>1, <2>3
    <3> QED
      BY <1>1, <1>3, <2>3, <3>1
  <2>4. CASE j > q + 1
    <3>1. j - 1 \in 1 .. Len(s) /\ t[j] = s[j - 1] /\ ~(j - 1 <= q)
      BY <1>1, <2>4
    <3>2. CASE i <= q
      <4>1. i \in 1 .. Len(s) /\ t[i] = s[i] /\ i < j - 1
        BY <1>1, <2>4, <3>2
      <4> QED
        BY <2>1, <3>1, <4>1
    <3>3. CASE i = q + 1
      BY <1>1, <1>3, <3>1, <3>3
    <3>4. CASE i > q + 1
      <4>1. i - 1 \in 1 .. Len(s) /\ t[i] = s[i - 1] /\ i - 1 < j - 1
        BY <1>1, <3>4
      <4> QED
        BY <2>1, <3>1, <4>1
    <3> QED
      BY <1>1, <3>2, <3>3, <3>4
  <2> QED
    BY <1>1, <2>2, <2>3, <2>4
<1>5. /\ \A i \in Slots(s) : i <= q => Sub(z, t, i) = Sub(z, s, i)
      /\ \A i \in Slots(s) : i > q => Sub(z, t, i + 1) = Sub(z, s, i)
      /\ Sub(z, t, q + 1) = e.sub
      /\ \A i \in Slots(t) : \/ i <= q /\ i \in Slots(s)
                             \/ i = q + 1
                             \/ i > q + 1 /\ i - 1 > q /\ i - 1 \in Slots(s) /\ (i - 1) + 1 = i
  BY InsertSlots
<1>6. ASSUME NEW i \in Slots(t)
      PROVE  \/ i <= q /\ i \in Slots(s) /\ Sub(z, t, i) = Sub(z, s, i)
             \/ i = q + 1 /\ Sub(z, t, i) = e.sub
             \/ i > q + 1 /\ i - 1 > q /\ i - 1 \in Slots(s) /\ Sub(z, t, i) = Sub(z, s, i - 1)
  <2>1. CASE i > q + 1 /\ i - 1 > q /\ i - 1 \in Slots(s) /\ (i - 1) + 1 = i
    <3>1. Sub(z, t, (i - 1) + 1) = Sub(z, s, i - 1)
      BY <1>5, <2>1
    <3> QED
      BY <2>1, <3>1
  <2> QED
    BY <1>5, <2>1
<1>7. Distinct(z, t)
  <2> SUFFICES ASSUME NEW i \in Slots(t), NEW j \in Slots(t),
                      Sub(z, t, i) = Sub(z, t, j), Sub(z, t, i) # None
               PROVE  i = j
    BY DEF Distinct
  <2>1. i \in Int /\ j \in Int /\ q \in Int
    BY <1>1 DEF Slots
  <2>2. \A a, b \in Slots(s) : Sub(z, s, a) = Sub(z, s, b) /\ Sub(z, s, a) # None => a = b
    BY DEF Good, Distinct
  <2>3. CASE i = q + 1
    BY <1>6, <2>1, <2>3
  <2>4. CASE j = q + 1
    BY <1>6, <2>1, <2>4
  <2>5. CASE i # q + 1 /\ j # q + 1
    BY <1>6, <2>1, <2>2, <2>5
  <2> QED
    BY <2>3, <2>4, <2>5
<1>8. \A i \in Slots(t) : H[Sub(z, t, i)] = l
  BY <1>6 DEF Good
<1>9. ASSUME NEW i \in Slots(t), NEW k \in C[Sub(z, t, i)] PROVE InGap(t, i, k)
  <2>1. /\ k \in Int /\ i \in Int /\ i >= 0 /\ i <= Len(t) /\ Len(t) \in Nat /\ e.key \in Int
        /\ q \in Int
    <3>1. Sub(z, t, i) \in Link
      BY SubIs
    <3>2. C[Sub(z, t, i)] \in SUBSET Keys
      BY <3>1
    <3>3. k \in Int
      BY <1>2, <3>2
    <3>4. i \in Int /\ i >= 0 /\ i <= Len(t) /\ Len(t) \in Nat /\ q \in Int
      BY <1>1 DEF Slots
    <3>5. e.key \in Int
      BY <1>2
    <3> QED
      BY <3>3, <3>4, <3>5
  <2>2. \A j \in Slots(s) : \A x \in C[Sub(z, s, j)] : InGap(s, j, x)
    BY DEF Good
  <2>3. CASE i <= q
    <3>1. i \in Slots(s) /\ Sub(z, t, i) = Sub(z, s, i) /\ i # q + 1 /\ ~(i > q + 1)
      BY <1>6, <2>1, <2>3
    <3>2. InGap(s, i, k)
      BY <2>2, <3>1
    <3>3. i > 0 => t[i].key <= k
      <4> SUFFICES ASSUME i > 0 PROVE t[i].key <= k
        OBVIOUS
      <4>1. i \in 1 .. Len(t)
        BY <2>1
      <4>2. t[i] = s[i]
        BY <1>1, <3>1, <4>1
      <4> QED
        BY <3>2, <4>2 DEF InGap
    <3>4. k < t[i + 1].key
      <4>1. CASE i = q
        BY <1>1, <3>1, <4>1
      <4>2. CASE i < q
        <5>1. i + 1 \in 1 .. Len(t) /\ i + 1 <= q /\ i < Len(s)
          BY <1>1, <2>1, <4>2
        <5>2. t[i + 1] = s[i + 1]
          BY <1>1, <2>1, <5>1
        <5> QED
          BY <3>2, <5>1, <5>2 DEF InGap
      <4> QED
        BY <2>1, <2>3, <4>1, <4>2
    <3> QED
      BY <3>3, <3>4 DEF InGap
  <2>4. CASE i = q + 1
    <3>1. e.key <= k /\ InGap(s, q, k)
      BY <1>5, <2>4
    <3>2. i < Len(t) => k < t[i + 1].key
      <4> SUFFICES ASSUME i < Len(t) PROVE k < t[i + 1].key
        OBVIOUS
      <4>1. i + 1 \in 1 .. Len(t) /\ i + 1 > q + 1 /\ q < Len(s) /\ (i + 1) - 1 = q + 1
        BY <1>1, <2>1, <2>4
      <4>2. t[i + 1] = s[(i + 1) - 1]
        BY <1>1, <2>1, <4>1
      <4> QED
        BY <3>1, <4>1, <4>2 DEF InGap
    <3> QED
      BY <1>1, <2>4, <3>1, <3>2 DEF InGap
  <2>5. CASE i > q + 1
    <3>1. i - 1 \in Slots(s) /\ Sub(z, t, i) = Sub(z, s, i - 1) /\ i - 1 > 0
      BY <1>1, <1>6, <2>1, <2>5
    <3>2. InGap(s, i - 1, k)
      BY <2>2, <3>1
    <3>3. t[i].key <= k
      <4>1. i \in 1 .. Len(t)
        BY <1>1, <2>1, <2>5
      <4>2. t[i] = s[i - 1]
        BY <1>1, <2>1, <2>5, <4>1
      <4> QED
        BY <3>1, <3>2, <4>2 DEF InGap
    <3>4. i < Len(t) => k < t[i + 1].key
      <4> SUFFICES ASSUME i < Len(t) PROVE k < t[i + 1].key
        OBVIOUS
      <4>1. i + 1 \in 1 .. Len(t) /\ i + 1 > q + 1 /\ i - 1 < Len(s) /\ (i + 1) - 1 = (i - 1) + 1
        BY <1>1, <2>1, <2>5
      <4>2. t[i + 1] = s[(i + 1) - 1]
        BY <1>1, <2>1, <4>1
      <4> QED
        BY <3>2, <4>1, <4>2 DEF InGap
    <3> QED
      BY <3>3, <3>4 DEF InGap
  <2> QED
    BY <2>1, <2>3, <2>4, <2>5
<1> QED
  BY <1>4, <1>7, <1>8, <1>9 DEF Good

LEMMA InsertContent ==
  ASSUME NEW s \in Seq(Elems), NEW t \in Seq(Elems), NEW q \in Slots(s), NEW e \in Elems,
         Inserts(t, s, q, e), NEW z \in Link, NEW C
  PROVE  Content(z, t, C) = Content(z, s, C) \cup {e.key} \cup C[e.sub]
<1> DEFINE U(r) == UNION {C[Sub(z, r, i)] : i \in Slots(r)}
<1>1. /\ q + 1 \in Slots(t) /\ Sub(z, t, q + 1) = e.sub
      /\ \A i \in Slots(s) : i <= q => i \in Slots(t) /\ Sub(z, t, i) = Sub(z, s, i)
      /\ \A i \in Slots(s) : i > q => i + 1 \in Slots(t) /\ Sub(z, t, i + 1) = Sub(z, s, i)
      /\ \A i \in Slots(t) : \/ i <= q /\ i \in Slots(s)
                             \/ i = q + 1
                             \/ i > q + 1 /\ i - 1 > q /\ i - 1 \in Slots(s) /\ (i - 1) + 1 = i
  BY InsertSlots
<1>2. U(t) \subseteq U(s) \cup C[e.sub]
  <2> SUFFICES ASSUME NEW i \in Slots(t) PROVE C[Sub(z, t, i)] \subseteq U(s) \cup C[e.sub]
    OBVIOUS
  <2>1. CASE i <= q /\ i \in Slots(s)
    BY <1>1, <2>1
  <2>2. CASE i = q + 1
    BY <1>1, <2>2
  <2>3. CASE i > q + 1 /\ i - 1 > q /\ i - 1 \in Slots(s) /\ (i - 1) + 1 = i
    <3>1. Sub(z, t, (i - 1) + 1) = Sub(z, s, i - 1)
      BY <1>1, <2>3
    <3>2. Sub(z, t, i) = Sub(z, s, i - 1)
      BY <2>3, <3>1
    <3> QED
      BY <2>3, <3>2
  <2> QED
    BY <1>1, <2>1, <2>2, <2>3
<1>3. U(s) \subseteq U(t)
  <2> SUFFICES ASSUME NEW i \in Slots(s) PROVE C[Sub(z, s, i)] \subseteq U(t)
    OBVIOUS
  <2>1. CASE i <= q
    BY <1>1, <2>1
  <2>2. CASE i > q
    <3>1. i + 1 \in Slots(t) /\ Sub(z, t, i + 1) = Sub(z, s, i)
      BY <1>1, <2>2
    <3> QED
      BY <3>1
  <2>3. i \in Int /\ q \in Int
    BY SeqLen DEF Slots
  <2> QED
    BY <2>1, <2>2, <2>3
<1>4. C[e.sub] \subseteq U(t)
  BY <1>1
<1>5. Content(z, s, C) = KeysIn(s) \cup U(s) /\ Content(z, t, C) = KeysIn(t) \cup U(t)
  BY DEF Content
<1> HIDE DEF U
<1> QED
  BY <1>2, <1>3, <1>4, <1>5, InsertKeys

\* The keys of a node name each element.
LEMMA RemoveKeys ==
  ASSUME NEW s \in Seq(Elems), NEW t \in Seq(Elems), NEW q \in Slots(t), NEW e \in Elems,
         Inserts(s, t, q, e), Sorted(s)
  PROVE  KeysIn(t) = KeysIn(s) \ {e.key} /\ Sorted(t)
<1>1. /\ Len(s) = Len(t) + 1 /\ Len(t) \in Nat /\ q \in 0 .. Len(t) /\ s[q + 1] = e
  BY InsertElems
<1>2. ASSUME NEW i \in 1 .. Len(t)
      PROVE  LET j == IF i <= q THEN i ELSE i + 1
             IN  j \in 1 .. Len(s) /\ j # q + 1 /\ t[i] = s[j]
  <2>1. CASE i <= q
    <3>1. i \in 1 .. q /\ i \in 1 .. Len(s) /\ i # q + 1
      BY <1>1, <2>1
    <3> QED
      BY <2>1, <3>1 DEF Inserts
  <2>2. CASE ~(i <= q)
    <3>1. i \in q + 1 .. Len(t) /\ i + 1 \in 1 .. Len(s) /\ i + 1 # q + 1
      BY <1>1, <2>2
    <3> QED
      BY <2>2, <3>1 DEF Inserts
  <2> QED
    BY <2>1, <2>2
<1>3. ASSUME NEW j \in 1 .. Len(s), j # q + 1 PROVE s[j].key # e.key
  <2>1. /\ q + 1 \in 1 .. Len(s) /\ s[j].key \in Int /\ s[q + 1].key \in Int
        /\ (j < q + 1 \/ q + 1 < j)
    BY <1>1, <1>3, ElemIs
  <2> QED
    BY <1>1, <2>1 DEF Sorted
<1>4. \A i \in 1 .. Len(t) : t[i].key # e.key
  BY <1>2, <1>3
<1>5. KeysIn(s) = KeysIn(t) \cup {e.key}
  BY InsertKeys
<1>6. e.key \notin KeysIn(t)
  BY <1>4 DEF KeysIn
<1>7. Sorted(t)
  <2> SUFFICES ASSUME NEW i \in 1 .. Len(t), NEW j \in 1 .. Len(t), i < j
               PROVE  t[i].key < t[j].key
    BY DEF Sorted
  <2> DEFINE a == IF i <= q THEN i ELSE i + 1
             b == IF j <= q THEN j ELSE j + 1
  <2>1. a \in 1 .. Len(s) /\ b \in 1 .. Len(s) /\ t[i] = s[a] /\ t[j] = s[b]
    BY <1>2
  <2>2. a < b
    BY <1>1
  <2> HIDE DEF a, b
  <2> QED
    BY <2>1, <2>2 DEF Sorted
<1> QED
  BY <1>5, <1>6, <1>7

\* A good node stays good when an element is removed, and the subtree before it takes over
\* what was in between.
Removed(s, t, q, e, z, l, C, D, H) ==
  /\ s \in Seq(Elems) /\ t \in Seq(Elems) /\ q \in Slots(t) /\ e \in Elems
  /\ Inserts(s, t, q, e) /\ z \in Link
  /\ C \in [Link -> SUBSET Keys] /\ H \in [Link -> Int] /\ Good(z, s, l, C, H)
  /\ D \in [Link -> SUBSET Keys]
  /\ \A i \in Slots(t) : i # q => D[Sub(z, t, i)] = C[Sub(z, t, i)]
  /\ D[Sub(z, t, q)] \subseteq C[Sub(z, t, q)] \cup {e.key} \cup C[e.sub]

LEMMA RemoveGood ==
  ASSUME NEW s, NEW t, NEW q, NEW e, NEW z, NEW l, NEW C, NEW D, NEW H,
         Removed(s, t, q, e, z, l, C, D, H)
  PROVE  Good(z, t, l, D, H)
<1> USE DEF Removed
<1>1. /\ Len(s) = Len(t) + 1 /\ Len(t) \in Nat /\ q \in 0 .. Len(t) /\ s[q + 1] = e
      /\ \A i \in 1 .. Len(s) : \/ i <= q /\ i \in 1 .. Len(t) /\ s[i] = t[i]
                                \/ i = q + 1
                                \/ i > q + 1 /\ i - 1 \in 1 .. Len(t) /\ s[i] = t[i - 1]
  BY InsertElems
<1>2. Keys \subseteq Int /\ e.key \in Keys /\ e.sub \in Link
  BY BTreeAssumption DEF Elems
<1>3. Sorted(t) /\ Sorted(s)
  BY RemoveKeys DEF Good
<1>4. /\ \A i \in Slots(t) : i <= q => i \in Slots(s) /\ Sub(z, s, i) = Sub(z, t, i)
      /\ \A i \in Slots(t) : i > q => i + 1 \in Slots(s) /\ Sub(z, s, i + 1) = Sub(z, t, i)
      /\ Sub(z, s, q + 1) = e.sub /\ q + 1 \in Slots(s)
  BY InsertSlots
<1>5. \A i \in Slots(t) : i \in Int /\ i >= 0 /\ i <= Len(t)
  BY <1>1 DEF Slots
<1>6. Distinct(z, t)
  <2> SUFFICES ASSUME NEW i \in Slots(t), NEW j \in Slots(t),
                      Sub(z, t, i) = Sub(z, t, j), Sub(z, t, i) # None
               PROVE  i = j
    BY DEF Distinct
  <2> DEFINE a == IF i <= q THEN i ELSE i + 1
             b == IF j <= q THEN j ELSE j + 1
  <2>1. a \in Slots(s) /\ b \in Slots(s) /\ Sub(z, s, a) = Sub(z, t, i) /\ Sub(z, s, b) = Sub(z, t, j)
    BY <1>1, <1>4, <1>5
  <2>2. a = b => i = j
    BY <1>1, <1>5
  <2> HIDE DEF a, b
  <2> QED
    BY <2>1, <2>2 DEF Good, Distinct
<1>7. ASSUME NEW i \in Slots(t) PROVE H[Sub(z, t, i)] = l
  BY <1>1, <1>4, <1>5 DEF Good
<1>8. \A j \in Slots(s) : \A x \in C[Sub(z, s, j)] : InGap(s, j, x)
  BY DEF Good
<1>9. ASSUME NEW i \in 1 .. Len(t) PROVE t[i] = IF i <= q THEN s[i] ELSE s[i + 1]
  <2>1. CASE i <= q
    <3>1. i \in 1 .. q
      BY <1>1, <2>1
    <3> QED
      BY <2>1, <3>1 DEF Inserts
  <2>2. CASE ~(i <= q)
    <3>1. i \in q + 1 .. Len(t)
      BY <1>1, <2>2
    <3> QED
      BY <2>2, <3>1 DEF Inserts
  <2> QED
    BY <2>1, <2>2
<1>10. ASSUME NEW i \in Slots(t), NEW k \in D[Sub(z, t, i)] PROVE InGap(t, i, k)
  <2>1. k \in Int /\ Sub(z, t, i) \in Link
    <3>1. Sub(z, t, i) \in Link
      BY SubIs
    <3>2. D[Sub(z, t, i)] \in SUBSET Keys
      BY <3>1
    <3> QED
      BY <1>2, <3>1, <3>2
  <2>2. \* the element of s in whose gap k is
        \E j \in Slots(s) :
          /\ InGap(s, j, k) \/ (k = e.key /\ j = q)
          /\ IF i < q THEN j = i ELSE IF i = q THEN j \in {q, q + 1} ELSE j = i + 1
    <3>1. CASE i < q
      BY <1>1, <1>4, <1>5, <1>8, <3>1
    <3>2. CASE i > q
      BY <1>1, <1>4, <1>5, <1>8, <3>2
    <3>3. CASE i = q /\ k \in C[Sub(z, t, q)]
      BY <1>1, <1>4, <1>5, <1>8, <3>3
    <3>4. CASE i = q /\ k \in C[e.sub]
      BY <1>1, <1>4, <1>5, <1>8, <3>4
    <3>5. CASE i = q /\ k = e.key
      BY <1>1, <1>4, <1>5, <3>5
    <3> QED
      BY <1>1, <1>5, <3>1, <3>2, <3>3, <3>4, <3>5
  <2>3. PICK j \in Slots(s) :
          /\ InGap(s, j, k) \/ (k = e.key /\ j = q)
          /\ IF i < q THEN j = i ELSE IF i = q THEN j \in {q, q + 1} ELSE j = i + 1
    BY <2>2
  <2>4. \A m \in 1 .. Len(s) : s[m].key \in Int
    BY ElemIs
  <2>5. \A m \in 1 .. Len(s) : (m <= j => s[m].key <= k) /\ (m > j + 1 => k < s[m].key)
                                /\ (m = j + 1 /\ m # q + 1 => k < s[m].key)
    <3> SUFFICES ASSUME NEW m \in 1 .. Len(s)
                 PROVE  (m <= j => s[m].key <= k) /\ (m > j + 1 => k < s[m].key)
                        /\ (m = j + 1 /\ m # q + 1 => k < s[m].key)
      OBVIOUS
    <3>1. j \in Int /\ m \in Int
      BY SeqLen DEF Slots
    <3>2. CASE InGap(s, j, k)
      <4>1. IF m <= j THEN s[m].key <= k ELSE k < s[m].key
        BY <1>3, <2>1, <3>2, GapBounds
      <4> QED
        BY <3>1, <4>1
    <3>3. CASE k = e.key /\ j = q
      <4>1. q + 1 \in 1 .. Len(s) /\ k = s[q + 1].key
        BY <1>1, <3>3
      <4>2. m < q + 1 => s[m].key < k
        BY <1>3, <4>1 DEF Sorted
      <4>3. q + 1 < m => k < s[m].key
        BY <1>3, <4>1 DEF Sorted
      <4> QED
        BY <1>1, <2>1, <2>4, <3>1, <3>3, <4>2, <4>3
    <3> QED
      BY <2>3, <3>2, <3>3
  <2>6. j \in Int
    BY SeqLen DEF Slots
  <2>7. i > 0 => t[i].key <= k
    <3> SUFFICES ASSUME i > 0 PROVE t[i].key <= k
      OBVIOUS
    <3>1. i \in 1 .. Len(t)
      BY <1>1, <1>5
    <3>2. CASE i <= q
      <4>1. t[i] = s[i] /\ i \in 1 .. Len(s) /\ i <= j
        BY <1>1, <1>5, <1>9, <2>3, <2>6, <3>1, <3>2
      <4> QED
        BY <2>5, <4>1
    <3>3. CASE i > q
      <4>1. t[i] = s[i + 1] /\ i + 1 \in 1 .. Len(s) /\ i + 1 <= j
        BY <1>1, <1>5, <1>9, <2>3, <2>6, <3>1, <3>3
      <4> QED
        BY <2>5, <4>1
    <3> QED
      BY <1>1, <1>5, <3>2, <3>3
  <2>8. i < Len(t) => k < t[i + 1].key
    <3> SUFFICES ASSUME i < Len(t) PROVE k < t[i + 1].key
      OBVIOUS
    <3>1. i + 1 \in 1 .. Len(t)
      BY <1>1, <1>5
    <3>2. CASE i + 1 <= q
      <4>1. t[i + 1] = s[i + 1] /\ i + 1 \in 1 .. Len(s) /\ i + 1 = j + 1 /\ i + 1 # q + 1
        BY <1>1, <1>5, <1>9, <2>3, <2>6, <3>1, <3>2
      <4> QED
        BY <2>5, <4>1
    <3>3. CASE i + 1 > q
      <4>1. t[i + 1] = s[(i + 1) + 1] /\ (i + 1) + 1 \in 1 .. Len(s)
        BY <1>1, <1>5, <1>9, <3>1, <3>3
      <4>2. (i + 1) + 1 > j + 1 \/ ((i + 1) + 1 = j + 1 /\ (i + 1) + 1 # q + 1)
        <5>1. CASE i = q
          BY <1>1, <2>3, <5>1
        <5>2. CASE i > q
          BY <1>1, <1>5, <2>3, <5>2
        <5> QED
          BY <1>1, <1>5, <3>3, <5>1, <5>2
      <4> DEFINE m == (i + 1) + 1
      <4> HIDE DEF m
      <4>3. m \in 1 .. Len(s) /\ (m > j + 1 \/ (m = j + 1 /\ m # q + 1)) /\ t[i + 1] = s[m]
        BY <4>1, <4>2 DEF m
      <4>4. k < s[m].key
        BY <2>5, <4>3
      <4> QED
        BY <4>3, <4>4
    <3>4. i \in Int /\ q \in Int
      BY SeqLen DEF Slots
    <3> QED
      BY <3>2, <3>3, <3>4
  <2> QED
    BY <2>7, <2>8 DEF InGap
<1> QED
  BY <1>3, <1>6, <1>7, <1>10 DEF Good

\* t has the key k for the i-th of s, which stays apart from its neighbours and from what is
\* below it on either side.
Exchanged(z, s, t, l, C, D, H, i, k) ==
  /\ s \in Seq(Elems) /\ t \in Seq(Elems) /\ z \in Link /\ k \in Keys /\ i \in 1 .. Len(s)
  /\ C \in [Link -> SUBSET Keys] /\ D \in [Link -> SUBSET Keys] /\ Good(z, s, l, C, H)
  /\ Len(t) = Len(s) /\ \A j \in 1 .. Len(s) : j # i => t[j] = s[j]
  /\ t[i].key = k /\ t[i].sub = s[i].sub
  /\ i > 1 => s[i - 1].key < k
  /\ i < Len(s) => k < s[i + 1].key
  /\ \A j \in Slots(s) \ {i - 1, i} : D[Sub(z, s, j)] \subseteq C[Sub(z, s, j)]
  /\ \A x \in D[Sub(z, s, i - 1)] : x < k /\ (i > 1 => s[i - 1].key <= x)
  /\ \A x \in D[Sub(z, s, i)] : k <= x /\ (i < Len(s) => x < s[i + 1].key)

LEMMA KeyGood ==
  ASSUME NEW z, NEW s, NEW t, NEW l, NEW C, NEW D, NEW H, NEW i, NEW k,
         Exchanged(z, s, t, l, C, D, H, i, k)
  PROVE  /\ Good(z, t, l, D, H) /\ \A j \in Slots(s) : Sub(z, t, j) = Sub(z, s, j)
         /\ KeysIn(t) = (KeysIn(s) \ {s[i].key}) \cup {k}
<1> USE DEF Exchanged
<1>1. Keys \subseteq Int /\ Len(s) \in Nat
  BY BTreeAssumption, SeqLen
<1>2. \A j \in 1 .. Len(s) : s[j].key \in Int /\ t[j].key \in Int
  BY ElemIs
<1>3. ASSUME NEW j \in Slots(s) PROVE Sub(z, t, j) = Sub(z, s, j)
  <2>1. j = 0 \/ j \in 1 .. Len(s)
    BY <1>1 DEF Slots
  <2> QED
    BY <2>1 DEF Sub
<1>4. \A a, b \in 1 .. Len(s) : a < b => s[a].key < s[b].key
  BY DEF Good, Sorted
<1>5. \A a \in 1 .. Len(s) : (a < i => s[a].key < k) /\ (i < a => k < s[a].key)
  <2> SUFFICES ASSUME NEW a \in 1 .. Len(s) PROVE (a < i => s[a].key < k) /\ (i < a => k < s[a].key)
    OBVIOUS
  <2>1. ASSUME a < i PROVE s[a].key < k
    <3>1. i > 1 /\ i - 1 \in 1 .. Len(s) /\ s[i - 1].key < k
      BY <1>1, <2>1
    <3>2. CASE a = i - 1
      BY <3>1, <3>2
    <3>3. CASE a < i - 1
      <4>1. s[a].key < s[i - 1].key
        BY <1>4, <3>1, <3>3
      <4> QED
        BY <1>1, <1>2, <3>1, <4>1
    <3> QED
      BY <1>1, <2>1, <3>2, <3>3
  <2>2. ASSUME i < a PROVE k < s[a].key
    <3>1. i < Len(s) /\ i + 1 \in 1 .. Len(s) /\ k < s[i + 1].key
      BY <1>1, <2>2
    <3>2. CASE a = i + 1
      BY <3>1, <3>2
    <3>3. CASE i + 1 < a
      <4>1. s[i + 1].key < s[a].key
        BY <1>4, <3>1, <3>3
      <4> QED
        BY <1>1, <1>2, <3>1, <4>1
    <3> QED
      BY <1>1, <2>2, <3>2, <3>3
  <2> QED
    BY <2>1, <2>2
<1>6. Sorted(t)
  <2> SUFFICES ASSUME NEW a \in 1 .. Len(t), NEW b \in 1 .. Len(t), a < b
               PROVE  t[a].key < t[b].key
    BY DEF Sorted
  <2>1. CASE a = i
    BY <1>5, <2>1
  <2>2. CASE b = i
    BY <1>5, <2>2
  <2>3. CASE a # i /\ b # i
    BY <1>4, <2>3
  <2> QED
    BY <2>1, <2>2, <2>3
<1>7. Distinct(z, t)
  BY <1>3 DEF Good, Distinct, Slots
<1>8. \A j \in Slots(t) : H[Sub(z, t, j)] = l
  BY <1>3 DEF Good, Slots
<1>9. ASSUME NEW j \in Slots(t), NEW x \in D[Sub(z, t, j)] PROVE InGap(t, j, x)
  <2>1. j \in Slots(s) /\ j \in Int /\ j >= 0 /\ j <= Len(s) /\ x \in D[Sub(z, s, j)]
    BY <1>1, <1>3 DEF Slots
  <2>2. x \in Int
    <3>1. Sub(z, s, j) \in Link
      BY <2>1, SubIs
    <3>2. D[Sub(z, s, j)] \in SUBSET Keys
      BY <3>1
    <3> QED
      BY <1>1, <2>1, <3>2
  <2>3. CASE j = i - 1
    <3>1. x < k /\ (i > 1 => s[i - 1].key <= x) /\ j + 1 = i
      BY <1>1, <2>1, <2>3
    <3>2. j > 0 => t[j].key <= x
      <4>1. j > 0 => j \in 1 .. Len(s) /\ j # i /\ i > 1
        BY <1>1, <2>1, <2>3
      <4> QED
        BY <2>3, <3>1, <4>1
    <3>3. x < t[j + 1].key
      BY <3>1
    <3> QED
      BY <3>2, <3>3 DEF InGap
  <2>4. CASE j = i
    <3>1. k <= x /\ (i < Len(s) => x < s[i + 1].key)
      BY <2>1, <2>4
    <3>2. j < Len(t) => t[j + 1] = s[j + 1]
      <4>1. j < Len(t) => j + 1 \in 1 .. Len(s) /\ j + 1 # i
        BY <1>1, <2>1, <2>4
      <4> QED
        BY <4>1
    <3> QED
      BY <2>4, <3>1, <3>2 DEF InGap
  <2>5. CASE j # i - 1 /\ j # i
    <3>1. x \in C[Sub(z, s, j)]
      BY <2>1, <2>5
    <3>2. InGap(s, j, x)
      BY <2>1, <3>1 DEF Good
    <3>3. j > 0 => t[j] = s[j]
      <4>1. j > 0 => j \in 1 .. Len(s)
        BY <1>1, <2>1
      <4> QED
        BY <2>5, <4>1
    <3>4. j < Len(s) => t[j + 1] = s[j + 1]
      <4>1. j < Len(s) => j + 1 \in 1 .. Len(s) /\ j + 1 # i
        BY <1>1, <2>1, <2>5
      <4> QED
        BY <4>1
    <3> QED
      BY <3>2, <3>3, <3>4 DEF InGap
  <2> QED
    BY <2>3, <2>4, <2>5
<1>10. KeysIn(t) = (KeysIn(s) \ {s[i].key}) \cup {k}
  <2>1. ASSUME NEW j \in 1 .. Len(t) PROVE t[j].key \in (KeysIn(s) \ {s[i].key}) \cup {k}
    <3>1. CASE j = i
      BY <3>1
    <3>2. CASE j # i
      <4>1. s[j].key # s[i].key
        <5>1. j < i \/ i < j
          BY <3>2
        <5>2. s[j].key < s[i].key \/ s[i].key < s[j].key
          BY <1>4, <5>1
        <5> QED
          BY <1>2, <5>2
      <4> QED
        BY <3>2, <4>1 DEF KeysIn
    <3> QED
      BY <3>1, <3>2
  <2>2. ASSUME NEW j \in 1 .. Len(s), s[j].key # s[i].key PROVE s[j].key \in KeysIn(t)
    <3>1. j # i
      BY <2>2
    <3>2. t[j] = s[j] /\ j \in 1 .. Len(t)
      BY <3>1
    <3> QED
      BY <3>2 DEF KeysIn
  <2>3. k \in KeysIn(t)
    <3>1. i \in 1 .. Len(t) /\ t[i].key = k
      OBVIOUS
    <3> QED
      BY <3>1 DEF KeysIn
  <2>4. KeysIn(t) \subseteq (KeysIn(s) \ {s[i].key}) \cup {k}
    BY <2>1 DEF KeysIn
  <2>5. KeysIn(s) \ {s[i].key} \subseteq KeysIn(t)
    BY <2>2 DEF KeysIn
  <2> QED
    BY <2>3, <2>4, <2>5
<1> QED
  BY <1>3, <1>6, <1>7, <1>8, <1>9, <1>10 DEF Good

\* A new element goes behind the gap it belongs to.
LEMMA PutIs ==
  ASSUME NEW s \in Seq(Elems), Sorted(s), NEW q \in Slots(s), NEW e \in Elems,
         InGap(s, q, e.key)
  PROVE  Put(s, e) \in Seq(Elems) /\ Inserts(Put(s, e), s, q, e)
<1>1. Len(s) \in Nat /\ q \in Nat /\ q <= Len(s)
  BY SeqLen DEF Slots
<1>2. e.key \in Int
  BY BTreeAssumption DEF Elems
<1>3. \A j \in 1 .. Len(s) : IF j <= q THEN s[j].key <= e.key ELSE e.key < s[j].key
  BY <1>2, GapBounds
<1>4. \A j \in 1 .. Len(s) : s[j].key \in Int
  BY ElemIs
<1> DEFINE I == {j \in 1 .. Len(s) : s[j].key <= e.key}
<1>5. I = 1 .. q
  <2>1. ASSUME NEW j \in 1 .. Len(s) PROVE s[j].key <= e.key <=> j <= q
    BY <1>2, <1>3, <1>4
  <2> QED
    BY <1>1, <2>1
<1>6. SelectLastInSeq(s, LAMBDA x : x.key <= e.key) = IF I # {} THEN Max(I) ELSE 0
  BY DEF SelectLastInSeq
<1>7. SelectLastInSeq(s, LAMBDA x : x.key <= e.key) = q
  <2>1. CASE q = 0
    BY <1>5, <1>6, <2>1
  <2>2. CASE q # 0
    <3>1. I # {} /\ q \in I /\ \A y \in I : q >= y
      BY <1>1, <1>5, <2>2
    <3>2. \A x \in I : (\A y \in I : x >= y) => x = q
      BY <1>1, <1>5, <3>1
    <3>3. Max(I) = q
      <4> HIDE DEF I
      <4> QED
        BY <3>1, <3>2 DEF Max
    <3> QED
      BY <1>6, <3>1, <3>3
  <2> QED
    BY <2>1, <2>2
<1>8. Put(s, e) = InsertAt(s, q + 1, e)
  BY <1>7 DEF Put
<1> QED
  BY <1>8, InsertIs

-----------------------------------------------------------------------------
(* What is below a node, when what is below its subtrees changes.           *)

LEMMA ContentSame ==
  ASSUME NEW s \in Seq(Elems), NEW z \in Link, NEW C, NEW D,
         \A i \in Slots(s) : D[Sub(z, s, i)] = C[Sub(z, s, i)]
  PROVE  Content(z, s, D) = Content(z, s, C)
  BY DEF Content

\* D has X more than C below one subtree.
More(z, s, C, D, q, X) ==
  /\ q \in Slots(s)
  /\ \A i \in Slots(s) : i # q => D[Sub(z, s, i)] = C[Sub(z, s, i)]
  /\ D[Sub(z, s, q)] = C[Sub(z, s, q)] \cup X

LEMMA ContentPlus ==
  ASSUME NEW s, NEW z, NEW C, NEW D, NEW X, NEW q, More(z, s, C, D, q, X)
  PROVE  Content(z, s, D) = Content(z, s, C) \cup X
<1> USE DEF More
<1>1. \A i \in Slots(s) : /\ C[Sub(z, s, i)] \subseteq D[Sub(z, s, i)]
                          /\ D[Sub(z, s, i)] \subseteq C[Sub(z, s, i)] \cup X
  OBVIOUS
<1>2. X \subseteq D[Sub(z, s, q)]
  OBVIOUS
<1> QED
  BY <1>1, <1>2 DEF Content

LEMMA ContentMinus ==
  ASSUME NEW s \in Seq(Elems), NEW z \in Link, NEW C, NEW D, NEW k, k \notin KeysIn(s),
         \A i \in Slots(s) : D[Sub(z, s, i)] = C[Sub(z, s, i)] \ {k}
  PROVE  Content(z, s, D) = Content(z, s, C) \ {k}
<1>1. \A i \in Slots(s) : /\ C[Sub(z, s, i)] \ {k} \subseteq D[Sub(z, s, i)]
                          /\ D[Sub(z, s, i)] \subseteq C[Sub(z, s, i)] \ {k}
  OBVIOUS
<1> QED
  BY <1>1 DEF Content

\* A key is below one subtree at most, and that is the one whose gap it is in.
LEMMA KeyBelow ==
  ASSUME NEW s \in Seq(Elems), NEW z \in Link, NEW l, NEW C \in [Link -> SUBSET Keys],
         NEW H, Good(z, s, l, C, H), NEW i \in Slots(s), NEW k \in Keys, InGap(s, i, k)
  PROVE  \A j \in Slots(s) : k \in C[Sub(z, s, j)] => j = i
<1> SUFFICES ASSUME NEW j \in Slots(s), k \in C[Sub(z, s, j)] PROVE j = i
  OBVIOUS
<1>1. Sorted(s) /\ InGap(s, j, k) /\ k \in Int
  BY BTreeAssumption DEF Good
<1> QED
  BY <1>1, GapUnique

\* A key of the node is in the gap behind it.
LEMMA KeyGap ==
  ASSUME NEW s \in Seq(Elems), Sorted(s), NEW j \in 1 .. Len(s)
  PROVE  j \in Slots(s) /\ InGap(s, j, s[j].key)
<1>1. Len(s) \in Nat /\ j \in Slots(s) /\ s[j].key \in Int
  BY SeqLen, ElemIs DEF Slots
<1>2. j < Len(s) => s[j].key < s[j + 1].key
  <2>1. j < Len(s) => j + 1 \in 1 .. Len(s) /\ j < j + 1
    BY <1>1
  <2> QED
    BY <2>1 DEF Sorted
<1> QED
  BY <1>1, <1>2 DEF InGap

Fit(s, k, n) == \E i \in 0 .. n : /\ i > 0 => s[i].key <= k
                                  /\ i < n => k < s[i + 1].key

\* Every key has a gap.
LEMMA GapExists ==
  ASSUME NEW s \in Seq(Elems), Sorted(s), NEW k \in Int
  PROVE  \E i \in Slots(s) : InGap(s, i, k)
<1>1. Len(s) \in Nat /\ \A j \in 1 .. Len(s) : s[j].key \in Int
  BY SeqLen, ElemIs
<1> DEFINE S == {n \in Nat : n <= Len(s) => Fit(s, k, n)}
<1>2. 0 \in S
  <2>1. 0 \in 0 .. 0 /\ ~(0 > 0) /\ ~(0 < 0)
    OBVIOUS
  <2> QED
    BY <2>1 DEF Fit
<1>3. ASSUME NEW n \in S PROVE n + 1 \in S
  <2> SUFFICES ASSUME n + 1 <= Len(s) PROVE Fit(s, k, n + 1)
    OBVIOUS
  <2>1. n + 1 \in 1 .. Len(s) /\ n \in Nat /\ n <= Len(s)
    BY <1>1
  <2>2. CASE s[n + 1].key <= k
    <3>1. n + 1 \in 0 .. n + 1 /\ ~(n + 1 < n + 1)
      BY <2>1
    <3> QED
      BY <2>2, <3>1 DEF Fit
  <2>3. CASE ~(s[n + 1].key <= k)
    <3>1. Fit(s, k, n)
      BY <2>1
    <3>2. PICK i \in 0 .. n : (i > 0 => s[i].key <= k) /\ (i < n => k < s[i + 1].key)
      BY <3>1 DEF Fit
    <3>3. k < s[n + 1].key
      BY <1>1, <2>1, <2>3
    <3>4. i < n + 1 => k < s[i + 1].key
      <4>1. i < n \/ i = n
        BY <2>1
      <4> QED
        BY <3>2, <3>3, <4>1
    <3>5. i \in 0 .. n + 1
      BY <2>1
    <3> QED
      BY <3>2, <3>4, <3>5 DEF Fit
  <2> QED
    BY <2>2, <2>3
<1>4. S = Nat
  <2> HIDE DEF S
  <2>1. S \in SUBSET Nat
    BY DEF S
  <2> QED
    BY <1>2, <1>3, <2>1, NatSet
<1>5. Fit(s, k, Len(s))
  <2>1. Len(s) \in S
    BY <1>1, <1>4
  <2> QED
    BY <1>1, <2>1
<1> QED
  BY <1>5 DEF Fit, Slots, InGap

-----------------------------------------------------------------------------
(* The binary search and what it is used for.                               *)

Mid(p) == p[1] + (p[2] - p[1]) \div 2

\* It ends with neighbours, between which k is.
Found(s, k, first, last, b) ==
  /\ b \in (first .. last) \X (first .. last) /\ b[1] < b[2] /\ b[2] - b[1] <= 1
  /\ b[1] = first \/ k >= s[b[1]].key
  /\ b[2] = last \/ ~(k >= s[b[2]].key)

LEMMA MidIs ==
  ASSUME NEW f \in Int, NEW l \in Int, l - f > 1
  PROVE  LET m == f + (l - f) \div 2 IN m \in Int /\ f < m /\ m < l
<1> DEFINE d == (l - f) \div 2
<1>1. d \in Int /\ l - f \in Int /\ 2 * d <= l - f /\ l - f < 2 * d + 2
  OBVIOUS
<1> HIDE DEF d
<1>2. f < f + d /\ f + d < l /\ f + d \in Int
  BY <1>1
<1> QED
  BY <1>2 DEF d

LEMMA BisectDef ==
  ASSUME NEW s, NEW k, NEW first \in Int, NEW last \in Int, first <= last
  PROVE  \E b : /\ Bisect(s, k, first, last) = b[<<first, last>>]
                /\ \A p \in (first .. last) \X (first .. last) :
                     b[p] = IF p[2] - p[1] <= 1 THEN p
                            ELSE IF k >= s[Mid(p)].key THEN b[<<Mid(p), p[2]>>]
                                                       ELSE b[<<p[1], Mid(p)>>]
<1> DEFINE A == first .. last
           D == A \X A
           F == [x \in [D -> D] \X D |->
                   IF x[2][2] - x[2][1] <= 1 THEN x[2]
                   ELSE IF k >= s[Mid(x[2])].key THEN x[1][<<Mid(x[2]), x[2][2]>>]
                                                 ELSE x[1][<<x[2][1], Mid(x[2])>>]]
           R == [p \in D |-> IF p[1] <= p[2] THEN p[2] - p[1] ELSE 0]
           b == CHOOSE b : b = [p \in D |->
                   IF p[2] - p[1] <= 1 THEN p
                   ELSE IF k >= s[Mid(p)].key THEN b[<<Mid(p), p[2]>>] ELSE b[<<p[1], Mid(p)>>]]
<1>1. \A p \in D : p = <<p[1], p[2]>> /\ p[1] \in A /\ p[2] \in A /\ p[1] \in Int /\ p[2] \in Int
  OBVIOUS
<1>2. ASSUME NEW p \in D, ~(p[2] - p[1] <= 1)
      PROVE  /\ Mid(p) \in Int /\ p[1] < Mid(p) /\ Mid(p) < p[2]
             /\ <<Mid(p), p[2]>> \in D /\ <<p[1], Mid(p)>> \in D
  <2>1. p[1] \in Int /\ p[2] \in Int /\ p[2] - p[1] > 1
    BY <1>1, <1>2
  <2>2. Mid(p) \in Int /\ p[1] < Mid(p) /\ Mid(p) < p[2]
    BY <2>1, MidIs DEF Mid
  <2>3. Mid(p) \in A
    BY <1>1, <2>2
  <2> QED
    BY <1>1, <2>2, <2>3
<1>3. R \in [D -> 0 .. last - first]
  <2>1. ASSUME NEW p \in D PROVE R[p] \in 0 .. last - first
    BY <1>1
  <2> QED
    BY <2>1
<1>4. F \in [[D -> D] \X D -> D]
  <2>1. ASSUME NEW g \in [D -> D], NEW p \in D PROVE F[<<g, p>>] \in D
    <3>1. F[<<g, p>>] = IF p[2] - p[1] <= 1 THEN p
                        ELSE IF k >= s[Mid(p)].key THEN g[<<Mid(p), p[2]>>]
                                                   ELSE g[<<p[1], Mid(p)>>]
      OBVIOUS
    <3> HIDE DEF F, D
    <3>2. CASE p[2] - p[1] <= 1
      BY <3>1, <3>2
    <3>3. CASE ~(p[2] - p[1] <= 1)
      BY <1>2, <3>1, <3>3
    <3> QED
      BY <3>2, <3>3
  <2> HIDE DEF D
  <2> QED
    BY <2>1
<1>5. ASSUME NEW g \in [D -> D], NEW p \in D
      PROVE  F[<<g, p>>] = IF p[2] - p[1] <= 1 THEN p
                           ELSE IF k >= s[Mid(p)].key THEN g[<<Mid(p), p[2]>>]
                                                      ELSE g[<<p[1], Mid(p)>>]
  OBVIOUS
<1>6. ASSUME NEW p \in D, ~(p[2] - p[1] <= 1)
      PROVE  R[<<Mid(p), p[2]>>] < R[p] /\ R[<<p[1], Mid(p)>>] < R[p]
  <2>1. /\ R[p] = p[2] - p[1]
        /\ R[<<Mid(p), p[2]>>] = p[2] - Mid(p)
        /\ R[<<p[1], Mid(p)>>] = Mid(p) - p[1]
    BY <1>1, <1>2, <1>6
  <2>2. p[1] \in Int /\ p[2] \in Int /\ Mid(p) \in Int /\ p[1] < Mid(p) /\ Mid(p) < p[2]
    BY <1>1, <1>2, <1>6
  <2> HIDE DEF R
  <2> QED
    BY <2>1, <2>2
<1> DEFINE top == last - first
<1>7. <<first, last>> \in D /\ top \in Nat
  OBVIOUS
<1> HIDE DEF A, D, F, R
<1>8. \A g, h \in [D -> D], p \in D :
        (\A y \in D : R[y] < R[p] => g[y] = h[y]) => F[<<g, p>>] = F[<<h, p>>]
  <2> SUFFICES ASSUME NEW g \in [D -> D], NEW h \in [D -> D], NEW p \in D,
                      \A y \in D : R[y] < R[p] => g[y] = h[y]
               PROVE  F[<<g, p>>] = F[<<h, p>>]
    OBVIOUS
  <2>1. CASE p[2] - p[1] <= 1
    <3>1. F[<<g, p>>] = p /\ F[<<h, p>>] = p
      BY <1>5, <2>1
    <3> QED
      BY <3>1
  <2>2. CASE ~(p[2] - p[1] <= 1)
    <3>1. /\ g[<<Mid(p), p[2]>>] = h[<<Mid(p), p[2]>>]
          /\ g[<<p[1], Mid(p)>>] = h[<<p[1], Mid(p)>>]
      BY <1>2, <1>6, <2>2
    <3>2. /\ F[<<g, p>>] = IF k >= s[Mid(p)].key THEN g[<<Mid(p), p[2]>>] ELSE g[<<p[1], Mid(p)>>]
          /\ F[<<h, p>>] = IF k >= s[Mid(p)].key THEN h[<<Mid(p), p[2]>>] ELSE h[<<p[1], Mid(p)>>]
      BY <1>5, <2>2
    <3> QED
      BY <3>1, <3>2
  <2> QED
    BY <2>1, <2>2
<1>9. PICK g \in [D -> D] : g = [p \in D |-> F[<<g, p>>]]
  <2>1. D # {} /\ R \in [D -> 0 .. top]
    BY <1>3, <1>7
  <2> HIDE DEF top
  <2>2. Ranked(D, D, top, R, F)
    BY <1>4, <1>7, <1>8, <2>1 DEF Ranked
  <2> QED
    BY <2>2, Recursion
<1>10. g = [p \in D |-> IF p[2] - p[1] <= 1 THEN p
                        ELSE IF k >= s[Mid(p)].key THEN g[<<Mid(p), p[2]>>]
                                                   ELSE g[<<p[1], Mid(p)>>]]
  BY <1>5, <1>9
<1>11. b = [p \in D |-> IF p[2] - p[1] <= 1 THEN p
                        ELSE IF k >= s[Mid(p)].key THEN b[<<Mid(p), p[2]>>]
                                                   ELSE b[<<p[1], Mid(p)>>]]
  BY <1>10
<1>12. b[<<first, last>>] = Bisect(s, k, first, last)
  BY DEF Bisect, D, A, Mid
<1> HIDE DEF b
<1>13. \A p \in D : b[p] = IF p[2] - p[1] <= 1 THEN p
                           ELSE IF k >= s[Mid(p)].key THEN b[<<Mid(p), p[2]>>]
                                                      ELSE b[<<p[1], Mid(p)>>]
  BY <1>11
<1> QED
  BY <1>12, <1>13 DEF D, A

LEMMA BisectOne ==
  ASSUME NEW s, NEW k, NEW i \in Int
  PROVE  Bisect(s, k, i, i) = <<i, i>>
<1>1. PICK b : /\ Bisect(s, k, i, i) = b[<<i, i>>]
               /\ \A p \in (i .. i) \X (i .. i) :
                    b[p] = IF p[2] - p[1] <= 1 THEN p
                           ELSE IF k >= s[Mid(p)].key THEN b[<<Mid(p), p[2]>>]
                                                      ELSE b[<<p[1], Mid(p)>>]
  BY BisectDef, i <= i
<1>2. <<i, i>> \in (i .. i) \X (i .. i) /\ <<i, i>>[2] - <<i, i>>[1] <= 1
  OBVIOUS
<1> QED
  BY <1>1, <1>2

LEMMA BisectIs ==
  ASSUME NEW s, NEW k, NEW first \in Int, NEW last \in Int, first < last
  PROVE  Found(s, k, first, last, Bisect(s, k, first, last))
<1> DEFINE A == first .. last
           D == A \X A
           R == [p \in D |-> IF p[1] <= p[2] THEN p[2] - p[1] ELSE 0]
<1>1. \A p \in D : p = <<p[1], p[2]>> /\ p[1] \in A /\ p[2] \in A /\ p[1] \in Int /\ p[2] \in Int
  OBVIOUS
<1>2. ASSUME NEW p \in D, ~(p[2] - p[1] <= 1)
      PROVE  /\ Mid(p) \in Int /\ p[1] < Mid(p) /\ Mid(p) < p[2]
             /\ <<Mid(p), p[2]>> \in D /\ <<p[1], Mid(p)>> \in D
  <2>1. p[1] \in Int /\ p[2] \in Int /\ p[2] - p[1] > 1
    BY <1>1, <1>2
  <2>2. Mid(p) \in Int /\ p[1] < Mid(p) /\ Mid(p) < p[2]
    BY <2>1, MidIs DEF Mid
  <2>3. Mid(p) \in A
    BY <1>1, <2>2
  <2> QED
    BY <1>1, <2>2, <2>3
<1>3. R \in [D -> 0 .. last - first]
  <2>1. ASSUME NEW p \in D PROVE R[p] \in 0 .. last - first
    BY <1>1
  <2> QED
    BY <2>1
<1>4. ASSUME NEW p \in D, ~(p[2] - p[1] <= 1)
      PROVE  R[<<Mid(p), p[2]>>] < R[p] /\ R[<<p[1], Mid(p)>>] < R[p]
  <2>1. /\ R[p] = p[2] - p[1]
        /\ R[<<Mid(p), p[2]>>] = p[2] - Mid(p)
        /\ R[<<p[1], Mid(p)>>] = Mid(p) - p[1]
    BY <1>1, <1>2, <1>4
  <2>2. p[1] \in Int /\ p[2] \in Int /\ Mid(p) \in Int /\ p[1] < Mid(p) /\ Mid(p) < p[2]
    BY <1>1, <1>2, <1>4
  <2> HIDE DEF R
  <2> QED
    BY <2>1, <2>2
<1>5. <<first, last>> \in D
  OBVIOUS
<1>6. PICK b : /\ Bisect(s, k, first, last) = b[<<first, last>>]
               /\ \A p \in D :
                    b[p] = IF p[2] - p[1] <= 1 THEN p
                           ELSE IF k >= s[Mid(p)].key THEN b[<<Mid(p), p[2]>>]
                                                      ELSE b[<<p[1], Mid(p)>>]
  BY BisectDef
<1> HIDE DEF A, D, R
<1>7. \A p \in D : b[p] = IF p[2] - p[1] <= 1 THEN p
                          ELSE IF k >= s[Mid(p)].key THEN b[<<Mid(p), p[2]>>]
                                                     ELSE b[<<p[1], Mid(p)>>]
  BY <1>6
<1> DEFINE Ok(p) == /\ p[1] < p[2]
                    /\ p[1] = first \/ k >= s[p[1]].key
                    /\ p[2] = last \/ ~(k >= s[p[2]].key)
           S == {n \in Nat : \A p \in D : R[p] <= n /\ Ok(p) => Found(s, k, first, last, b[p])}
<1>8. ASSUME NEW p \in D, p[2] - p[1] <= 1, Ok(p) PROVE Found(s, k, first, last, b[p])
  <2>1. b[p] = p
    BY <1>7, <1>8
  <2> QED
    BY <1>1, <1>8, <2>1 DEF Found, D, A
<1>9. \A p \in D : p[1] < p[2] => R[p] = p[2] - p[1]
  BY <1>1 DEF R
<1>10. 0 \in S
  <2> SUFFICES ASSUME NEW p \in D, R[p] <= 0, Ok(p) PROVE FALSE
    OBVIOUS
  <2> QED
    BY <1>1, <1>9
<1>11. ASSUME NEW n \in S PROVE n + 1 \in S
  <2>1. n \in Nat /\ \A p \in D : R[p] <= n /\ Ok(p) => Found(s, k, first, last, b[p])
    OBVIOUS
  <2> SUFFICES ASSUME NEW p \in D, R[p] <= n + 1, Ok(p) PROVE Found(s, k, first, last, b[p])
    BY <2>1
  <2>2. CASE ~(p[2] - p[1] <= 1)
    <3> DEFINE lo == <<p[1], Mid(p)>>
               hi == <<Mid(p), p[2]>>
    <3>1. /\ lo \in D /\ hi \in D /\ lo[1] = p[1] /\ lo[2] = Mid(p) /\ hi[1] = Mid(p) /\ hi[2] = p[2]
          /\ Mid(p) \in Int /\ p[1] < Mid(p) /\ Mid(p) < p[2]
      BY <1>2, <2>2
    <3>2. R[lo] < R[p] /\ R[hi] < R[p]
      BY <1>4, <2>2
    <3>3. b[p] = IF k >= s[Mid(p)].key THEN b[hi] ELSE b[lo]
      BY <1>7, <2>2
    <3> HIDE DEF lo, hi
    <3>4. R[lo] <= n /\ R[hi] <= n
      <4>1. R[lo] \in Int /\ R[hi] \in Int /\ R[p] \in Int
        BY <1>3, <3>1
      <4> QED
        BY <2>1, <3>2, <4>1
    <3>5. CASE k >= s[Mid(p)].key
      <4>1. Ok(hi)
        BY <3>1, <3>5
      <4>2. Found(s, k, first, last, b[hi])
        BY <2>1, <3>1, <3>4, <4>1
      <4> QED
        BY <3>3, <3>5, <4>2
    <3>6. CASE ~(k >= s[Mid(p)].key)
      <4>1. Ok(lo)
        BY <3>1, <3>6
      <4>2. Found(s, k, first, last, b[lo])
        BY <2>1, <3>1, <3>4, <4>1
      <4> QED
        BY <3>3, <3>6, <4>2
    <3> QED
      BY <3>5, <3>6
  <2> QED
    BY <1>8, <2>2
<1>12. S = Nat
  <2> HIDE DEF S
  <2>1. S \in SUBSET Nat
    BY DEF S
  <2> QED
    BY <1>10, <1>11, <2>1, NatSet
<1>13. ASSUME NEW p \in D, Ok(p) PROVE Found(s, k, first, last, b[p])
  <2>1. R[p] \in Nat /\ R[p] <= R[p]
    BY <1>3
  <2>2. R[p] \in S
    BY <1>12, <2>1
  <2> QED
    BY <1>13, <2>1, <2>2
<1>14. <<first, last>> \in D /\ Ok(<<first, last>>)
  BY <1>5
<1> QED
  BY <1>6, <1>13, <1>14

\* The search ends in the gap the key belongs to, and hits it if it is there.
LEMMA GapIs ==
  ASSUME NEW n, elems[n] \in Seq(Elems), Sorted(elems[n]), NEW k \in Keys
  PROVE  /\ Gap(n, k) \in Slots(elems[n]) /\ InGap(elems[n], Gap(n, k), k)
         /\ Hit(n, k) => Gap(n, k) \in 1 .. Len(elems[n]) /\ elems[n][Gap(n, k)].key = k
         /\ k \in KeysIn(elems[n]) => Hit(n, k)
<1> DEFINE s == elems[n]
           b == Bisect(s, k, 1, Len(s))
           g == Gap(n, k)
<1>1. Len(s) \in Nat /\ k \in Int /\ \A j \in 1 .. Len(s) : s[j].key \in Int
  BY SeqLen, ElemIs, BTreeAssumption
<1>2. g = IF s = <<>> \/ k < s[1].key THEN 0
          ELSE IF k > s[Len(s)].key THEN Len(s)
          ELSE IF s[b[2]].key > k THEN b[1] ELSE b[2]
  BY DEF Gap
<1>3. s = <<>> <=> Len(s) = 0
  OBVIOUS
<1>4. Hit(n, k) <=> g # 0 /\ s[g].key = k
  BY DEF Hit
<1> HIDE DEF g, b
<1>5. g \in Slots(s) /\ InGap(s, g, k)
  <2>1. CASE s = <<>>
    BY <1>1, <1>2, <1>3, <2>1 DEF Slots, InGap
  <2>2. CASE s # <<>> /\ k < s[1].key
    <3>1. g = 0 /\ Len(s) > 0
      BY <1>1, <1>2, <1>3, <2>2
    <3> QED
      BY <1>1, <2>2, <3>1 DEF Slots, InGap
  <2>3. CASE s # <<>> /\ ~(k < s[1].key) /\ k > s[Len(s)].key
    <3>1. g = Len(s) /\ Len(s) > 0
      BY <1>1, <1>2, <1>3, <2>3
    <3>2. Len(s) \in 1 .. Len(s) /\ s[Len(s)].key \in Int
      BY <1>1, <3>1
    <3> QED
      BY <1>1, <2>3, <3>1, <3>2 DEF Slots, InGap
  <2>4. CASE s # <<>> /\ ~(k < s[1].key) /\ ~(k > s[Len(s)].key)
    <3>1. g = IF s[b[2]].key > k THEN b[1] ELSE b[2]
      BY <1>2, <2>4
    <3>2. Len(s) >= 1 /\ 1 \in 1 .. Len(s) /\ Len(s) \in 1 .. Len(s)
      BY <1>1, <1>3, <2>4
    <3>3. CASE Len(s) = 1
      <4>1. b = <<1, 1>>
        BY <3>3, BisectOne DEF b
      <4>2. g = 1
        BY <3>1, <4>1
      <4>3. s[1].key \in Int
        BY <1>1, <3>2
      <4> QED
        BY <1>1, <2>4, <3>3, <4>2, <4>3 DEF Slots, InGap
    <3>4. CASE Len(s) > 1
      <4>1. Found(s, k, 1, Len(s), b)
        BY <1>1, <3>4, BisectIs DEF b
      <4>2. /\ b[1] \in 1 .. Len(s) /\ b[2] \in 1 .. Len(s) /\ b[2] = b[1] + 1
            /\ b[1] = 1 \/ k >= s[b[1]].key
            /\ b[2] = Len(s) \/ ~(k >= s[b[2]].key)
        BY <1>1, <4>1 DEF Found
      <4> DEFINE i == b[1]
                 j == b[2]
      <4> HIDE DEF i, j
      <4>3. i \in 1 .. Len(s) /\ j \in 1 .. Len(s) /\ j = i + 1 /\ i \in Int
        BY <4>2 DEF i, j
      <4>4. s[i].key <= k
        BY <1>1, <2>4, <4>2, <4>3 DEF i
      <4>5. CASE s[j].key > k
        <5>1. g = i
          BY <3>1, <4>5 DEF i, j
        <5> QED
          BY <1>1, <4>3, <4>4, <4>5, <5>1 DEF Slots, InGap
      <4>6. CASE ~(s[j].key > k)
        <5>1. g = j
          BY <3>1, <4>6 DEF i, j
        <5>2. s[j].key \in Int
          BY <1>1, <4>3
        <5>3. s[j].key <= k
          BY <1>1, <4>6, <5>2
        <5>4. j = Len(s)
          BY <1>1, <4>2, <5>2, <5>3 DEF j
        <5> QED
          BY <1>1, <4>3, <5>1, <5>3, <5>4 DEF Slots, InGap
      <4> QED
        BY <4>5, <4>6
    <3>5. Len(s) = 1 \/ Len(s) > 1
      <4> DEFINE m == Len(s)
      <4>1. m \in Nat /\ m # 0
        BY <1>1, <1>3, <2>4
      <4> HIDE DEF m
      <4>2. m = 1 \/ m > 1
        BY <4>1
      <4> QED
        BY <4>2 DEF m
    <3> QED
      BY <3>3, <3>4, <3>5
  <2> QED
    BY <2>1, <2>2, <2>3, <2>4
<1>6. g # 0 => g \in 1 .. Len(s)
  BY <1>1, <1>5 DEF Slots
<1>7. ASSUME k \in KeysIn(s) PROVE g # 0 /\ s[g].key = k
  <2>1. PICK j \in 1 .. Len(s) : s[j].key = k
    BY <1>7 DEF KeysIn
  <2>2. j \in Slots(s) /\ InGap(s, j, k)
    BY <2>1, KeyGap
  <2>3. g = j
    BY <1>1, <1>5, <2>2, GapUnique
  <2> QED
    BY <2>1, <2>3
<1> QED
  BY <1>4, <1>5, <1>6, <1>7 DEF g

\* index_has_subtree finds a node that has a key where the search for that key passes it.
LEMMA IndexIs ==
  ASSUME NEW n, NEW up, up = parent[n], elems[up] \in Seq(Elems), Sorted(elems[up]),
         elems[up] # <<>>, NEW i \in Slots(elems[up]), Child(up, i) = n,
         \A j \in Slots(elems[up]) : Child(up, j) = n => j = i,
         elems[n][1].key \in Int, InGap(elems[up], i, elems[n][1].key)
  PROVE  Index(n) = i
<1> DEFINE s == elems[up]
           k == elems[n][1].key
           b == Bisect(s, k, 0, Len(s))
<1>1. Len(s) \in Nat /\ Len(s) > 0
  BY SeqLen
<1>2. Index(n) = IF Child(up, b[1]) = n THEN b[1] ELSE b[2]
  BY DEF Index
<1>3. Found(s, k, 0, Len(s), b)
  BY <1>1, BisectIs
<1>4. \A j \in 1 .. Len(s) : IF j <= i THEN s[j].key <= k ELSE k < s[j].key
  BY GapBounds
<1>5. \A j \in 1 .. Len(s) : s[j].key \in Int
  BY ElemIs
<1> HIDE DEF b, k
<1>6. /\ b[1] \in 0 .. Len(s) /\ b[2] \in 0 .. Len(s) /\ b[2] = b[1] + 1
      /\ b[1] = 0 \/ k >= s[b[1]].key
      /\ b[2] = Len(s) \/ ~(k >= s[b[2]].key)
  BY <1>1, <1>3 DEF Found
<1>7. i \in 0 .. Len(s) /\ k \in Int
  BY DEF Slots, k
<1>8. ~(i < b[1])
  <2> SUFFICES ASSUME i < b[1] PROVE FALSE
    OBVIOUS
  <2>1. b[1] \in 1 .. Len(s) /\ ~(b[1] <= i) /\ b[1] # 0
    BY <1>6, <1>7
  <2>2. k < s[b[1]].key
    BY <1>4, <2>1
  <2> QED
    BY <1>5, <1>6, <1>7, <2>1, <2>2
<1>9. ~(i > b[2])
  <2> SUFFICES ASSUME i > b[2] PROVE FALSE
    OBVIOUS
  <2>1. b[2] \in 1 .. Len(s) /\ b[2] <= i /\ b[2] # Len(s)
    BY <1>6, <1>7
  <2>2. s[b[2]].key <= k
    BY <1>4, <2>1
  <2> QED
    BY <1>5, <1>6, <1>7, <2>1, <2>2
<1>10. i = b[1] \/ i = b[2]
  BY <1>6, <1>7, <1>8, <1>9
<1>11. b[1] \in Slots(s)
  BY <1>6 DEF Slots
<1> QED
  BY <1>2, <1>10, <1>11

-----------------------------------------------------------------------------
(* What the invariant says of a node.                                       *)

LEMMA Constants ==
  /\ Keys \subseteq Int /\ None \notin Nodes /\ Nodes \subseteq Link /\ None \in Link
  /\ Size \in 6 .. 9 /\ MinKeys \in 2 .. 3 /\ 2 * MinKeys <= Size - 2 /\ Size - 3 <= 2 * MinKeys
<1>1. Size \in 6 .. 9
  BY BTreeAssumption
<1>2. MinKeys \in 2 .. 3 /\ 2 * MinKeys <= Size - 2 /\ Size - 3 <= 2 * MinKeys
  BY <1>1 DEF MinKeys
<1> QED
  BY <1>1, <1>2, BTreeAssumption DEF Link

LEMMA NodeIs ==
  ASSUME NEW C, NEW H, Types, Tree(C, H), NEW n \in Nodes
  PROVE  /\ elems[n] \in Seq(Elems) /\ zero[n] \in Link /\ Len(elems[n]) \in Nat
         /\ C \in [Link -> SUBSET Keys] /\ H \in [Link -> Int]
         /\ H[n] \in Nat /\ H[root] \in Nat /\ H[n] <= H[root] /\ C[n] \in SUBSET Keys
         /\ Good(zero[n], elems[n], H[n] - 1, C, H) /\ Sorted(elems[n])
         /\ C[n] = Content(zero[n], elems[n], C) \cup Rising(n, C)
         /\ KeysIn(elems[n]) \subseteq C[n]
         /\ IsLeaf(n) <=> H[n] = 0
<1>1. /\ elems[n] \in Seq(Elems) /\ zero[n] \in Link /\ root \in Nodes
  BY DEF Types
<1>2. /\ C \in [Link -> SUBSET Keys] /\ H \in [Link -> Int] /\ H[None] = -1
      /\ \A m \in Nodes : H[m] \in 0 .. H[root]
      /\ Good(zero[n], elems[n], H[n] - 1, C, H)
      /\ C[n] = Content(zero[n], elems[n], C) \cup Rising(n, C)
  BY DEF Tree
<1>3. Len(elems[n]) \in Nat
  BY <1>1, SeqLen
<1>4. n \in Link /\ root \in Link
  BY <1>1 DEF Link
<1>5. H[n] \in Nat /\ H[root] \in Nat /\ H[n] <= H[root]
  <2>1. H[n] \in Int /\ H[root] \in Int /\ H[n] \in 0 .. H[root]
    BY <1>2, <1>4
  <2> QED
    BY <2>1
<1>6. IsLeaf(n) <=> H[n] = 0
  <2>1. 0 \in Slots(elems[n]) /\ Sub(zero[n], elems[n], 0) = zero[n]
    BY <1>3 DEF Slots, Sub
  <2>2. H[zero[n]] = H[n] - 1
    BY <1>2, <2>1 DEF Good
  <2>3. zero[n] \in Nodes => H[zero[n]] >= 0
    <3> SUFFICES ASSUME zero[n] \in Nodes PROVE H[zero[n]] >= 0
      OBVIOUS
    <3>1. H[zero[n]] \in 0 .. H[root]
      BY <1>2
    <3> QED
      BY <1>5, <3>1
  <2>4. zero[n] = None <=> H[zero[n]] = -1
    BY <1>1, <1>2, <2>3 DEF Link
  <2> QED
    BY <1>5, <2>2, <2>4 DEF IsLeaf
<1>7. C[n] \in SUBSET Keys
  BY <1>2, <1>4
<1>8. Sorted(elems[n]) /\ KeysIn(elems[n]) \subseteq C[n]
  BY <1>2 DEF Good, Content
<1> QED
  BY <1>1, <1>2, <1>3, <1>5, <1>6, <1>7, <1>8

LEMMA SlotIs ==
  ASSUME NEW C, NEW H, Types, Tree(C, H), NEW n \in Nodes, NEW i \in Slots(elems[n])
  PROVE  /\ Child(n, i) = Sub(zero[n], elems[n], i) /\ Child(n, i) \in Link
         /\ H[Child(n, i)] = H[n] - 1
         /\ C[Child(n, i)] \subseteq C[n] /\ C[Child(n, i)] \in SUBSET Keys
         /\ \A k \in C[Child(n, i)] : InGap(elems[n], i, k)
         /\ Child(n, i) = None <=> IsLeaf(n)
         /\ Child(n, i) # None => Child(n, i) \in Nodes
<1>1. Child(n, i) = Sub(zero[n], elems[n], i)
  BY ChildIs
<1>2. elems[n] \in Seq(Elems) /\ zero[n] \in Link
  BY DEF Types
<1>3. Child(n, i) \in Link
  BY <1>1, <1>2, SubIs
<1>4. /\ C \in [Link -> SUBSET Keys] /\ H[None] = -1
      /\ Good(zero[n], elems[n], H[n] - 1, C, H)
      /\ C[n] = Content(zero[n], elems[n], C) \cup Rising(n, C)
  BY DEF Tree
<1>5. H[Child(n, i)] = H[n] - 1 /\ C[Child(n, i)] \subseteq C[n]
      /\ \A k \in C[Child(n, i)] : InGap(elems[n], i, k)
  BY <1>1, <1>4 DEF Good, Content
<1>6. C[Child(n, i)] \in SUBSET Keys
  BY <1>3, <1>4
<1>7. Child(n, i) # None => Child(n, i) \in Nodes
  BY <1>3 DEF Link
<1>8. Child(n, i) = None <=> IsLeaf(n)
  <2>1. IsLeaf(n) <=> H[n] = 0
    BY NodeIs
  <2>2. H[n] \in Nat
    BY NodeIs
  <2>3. Child(n, i) \in Nodes => H[Child(n, i)] \in Nat
    <3> SUFFICES ASSUME NEW m \in Nodes PROVE H[m] \in Nat
      OBVIOUS
    <3> QED
      BY NodeIs
  <2> QED
    BY <1>4, <1>5, <1>7, <2>1, <2>2, <2>3
<1> QED
  BY <1>1, <1>3, <1>5, <1>6, <1>7, <1>8

\* A node is in one place of the tree only.
LEMMA KidIs ==
  ASSUME NEW C, NEW H, Types, Links, Tree(C, H), NEW n \in live, NEW i \in Slots(elems[n]),
         Child(n, i) # None
  PROVE  /\ Child(n, i) \in live \ {root, n} /\ Child(n, i) \in Nodes
         /\ parent[Child(n, i)] = n
         /\ H[Child(n, i)] \in Nat /\ H[n] \in Nat /\ H[Child(n, i)] = H[n] - 1 /\ ~IsLeaf(n)
         /\ \A m \in live : \A j \in Slots(elems[m]) : Child(m, j) = Child(n, i) => m = n /\ j = i
<1> DEFINE c == Child(n, i)
<1>1. c \in live /\ parent[c] = n
  BY DEF Links
<1>2. n \in Nodes /\ root \in Nodes /\ c \in Nodes
  BY <1>1 DEF Types
<1>3. H[c] = H[n] - 1 /\ ~IsLeaf(n) /\ c = Sub(zero[n], elems[n], i)
  BY <1>2, SlotIs
<1>4. H[n] \in Nat /\ H[root] \in Nat /\ H[n] <= H[root] /\ H[c] \in Nat
      /\ Good(zero[n], elems[n], H[n] - 1, C, H)
  BY <1>2, NodeIs
<1> HIDE DEF c
<1>5. c # n /\ c # root
  BY <1>3, <1>4
<1>6. ASSUME NEW m \in live, NEW j \in Slots(elems[m]), Child(m, j) = c PROVE m = n /\ j = i
  <2>1. parent[c] = m
    BY <1>2, <1>6, Constants DEF Links
  <2>2. m = n
    BY <1>1, <2>1
  <2>3. Sub(zero[n], elems[n], j) = c
    BY <1>2, <1>6, <2>2, ChildIs
  <2> QED
    BY <1>2, <1>3, <1>4, <1>6, <2>2, <2>3, Constants DEF Good, Distinct
<1> QED
  BY <1>1, <1>2, <1>3, <1>4, <1>5, <1>6 DEF c

\* Every node but the root, and the one on its way up, is below another.
LEMMA AboveIs ==
  ASSUME NEW C, NEW H, Types, Links, Tree(C, H), NEW c \in live \ {root},
         pc # "insert" \/ c # carry.sub
  PROVE  /\ parent[c] \in live /\ ~IsLeaf(parent[c]) /\ c \in Nodes /\ parent[c] # c
         /\ \E i \in Slots(elems[parent[c]]) : Child(parent[c], i) = c
<1>1. parent[c] \in live /\ \E i \in Slots(elems[parent[c]]) : Child(parent[c], i) = c
  BY DEF Links
<1>2. c \in Nodes /\ c # None
  BY Constants DEF Types
<1> QED
  BY <1>1, <1>2, KidIs

-----------------------------------------------------------------------------
(* What it says of a search.                                                *)

Once == \A m, n \in live : m # n => KeysIn(elems[m]) \cap KeysIn(elems[n]) = {}

\* The search is where the key must be: at the node, or below where it goes on.
LEMMA AtNode ==
  ASSUME NEW C, NEW H, Inv(C, H), pc = "search"
  PROVE  /\ cur \in live /\ cur \in Nodes /\ key \in Keys /\ key \in Int
         /\ Gap(cur, key) \in Slots(elems[cur]) /\ InGap(elems[cur], Gap(cur, key), key)
         /\ Hit(cur, key) <=> key \in KeysIn(elems[cur])
         /\ Hit(cur, key) => /\ Gap(cur, key) \in 1 .. Len(elems[cur])
                             /\ elems[cur][Gap(cur, key)].key = key
         /\ key \in C[cur] /\ ~Hit(cur, key) => key \in C[Child(cur, Gap(cur, key))]
         /\ call # "delete" => key = want
<1>1. cur \in live /\ cur \in Nodes /\ key \in Keys /\ key \in Int
  BY Constants DEF Inv, Types
<1>2. /\ elems[cur] \in Seq(Elems) /\ zero[cur] \in Link /\ Sorted(elems[cur])
      /\ H[cur] - 1 \in Int /\ C \in [Link -> SUBSET Keys]
      /\ Good(zero[cur], elems[cur], H[cur] - 1, C, H)
      /\ C[cur] = Content(zero[cur], elems[cur], C) \cup Rising(cur, C)
  BY <1>1, NodeIs DEF Inv
<1>3. /\ Gap(cur, key) \in Slots(elems[cur]) /\ InGap(elems[cur], Gap(cur, key), key)
      /\ Hit(cur, key) => /\ Gap(cur, key) \in 1 .. Len(elems[cur])
                          /\ elems[cur][Gap(cur, key)].key = key
      /\ key \in KeysIn(elems[cur]) => Hit(cur, key)
  BY <1>1, <1>2, GapIs
<1>4. Hit(cur, key) <=> key \in KeysIn(elems[cur])
  BY <1>3 DEF KeysIn
<1>5. ASSUME key \in C[cur], ~Hit(cur, key) PROVE key \in C[Child(cur, Gap(cur, key))]
  <2>1. Rising(cur, C) = {}
    BY DEF Rising
  <2>2. PICK j \in Slots(elems[cur]) : key \in C[Sub(zero[cur], elems[cur], j)]
    BY <1>2, <1>4, <1>5, <2>1 DEF Content
  <2>3. j = Gap(cur, key)
    BY <1>1, <1>2, <1>3, <2>2, KeyBelow
  <2> QED
    BY <1>1, <2>2, <2>3, ChildIs
<1>6. call # "delete" => key = want
  BY DEF Inv, Searching
<1> QED
  BY <1>1, <1>3, <1>4, <1>5, <1>6

\* A search that ends without success was for a key that is not there.
LEMMA NotThere ==
  ASSUME NEW C, NEW H, Inv(C, H), pc = "search", ~Hit(cur, key),
         Child(cur, Gap(cur, key)) = None
  PROVE  key = want /\ key \notin C[root] /\ \A n \in live : key \notin KeysIn(elems[n])
<1>1. key \notin C[cur]
  <2>1. C[None] = {}
    BY DEF Inv, Tree
  <2> QED
    BY <2>1, AtNode
<1>2. key = want /\ key \notin C[root]
  BY <1>1 DEF Inv, Searching
<1>3. ASSUME NEW n \in live PROVE key \notin KeysIn(elems[n])
  <2>1. n \in Nodes /\ Types /\ Tree(C, H)
    BY DEF Inv, Types
  <2>2. KeysIn(elems[n]) \subseteq C[n]
    BY <2>1, NodeIs
  <2>3. C[n] \subseteq C[root]
    BY <2>1 DEF Tree, Rising
  <2> QED
    BY <1>2, <2>2, <2>3
<1> QED
  BY <1>2, <1>3

\* A key that is at two nodes is at an inner one and at a leaf, so one that is hit above the
\* leaves is looked for on behalf of the caller.
LEMMA InnerHit ==
  ASSUME NEW C, NEW H, Inv(C, H), pc = "search", Hit(cur, key), ~IsLeaf(cur)
  PROVE  key = want
<1> SUFFICES ASSUME key # want PROVE FALSE
  OBVIOUS
<1>1. PICK top \in live : H[top] > H[cur] /\ key \in KeysIn(elems[top])
  BY DEF Inv, Searching
<1>2. key \in KeysIn(elems[cur]) /\ cur \in live /\ cur \in Nodes /\ top \in Nodes
  BY AtNode DEF Inv, Types
<1>3. H[cur] \in Nat /\ H[top] \in Nat /\ (IsLeaf(top) <=> H[top] = 0)
  BY <1>2, NodeIs DEF Inv
<1>4. ~IsLeaf(top) /\ top # cur
  BY <1>1, <1>3
<1>5. IsLeaf(top) <=> ~IsLeaf(cur)
  BY <1>1, <1>2, <1>4 DEF Inv, KeyOnce
<1> QED
  BY <1>4, <1>5

LEMMA OnceIs ==
  ASSUME NEW C, NEW H, Inv(C, H), pc # "search" \/ key = want
  PROVE  Once
  BY DEF Inv, KeyOnce, Twice, Once

-----------------------------------------------------------------------------
(* The steps that leave the tree alone.                                     *)

LEMMA InitInv ==
  ASSUME Init
  PROVE  IInv
<1> DEFINE C == [n \in Link |-> {}]
           H == [n \in Link |-> IF n = None THEN -1 ELSE 0]
<1>1. root \in Nodes /\ root # None
  BY Constants, BTreeAssumption DEF Init
<1>2. /\ live = {root} /\ zero = [n \in Nodes |-> None] /\ parent = [n \in Nodes |-> None]
      /\ elems = [n \in Nodes |-> <<>>] /\ pc = "idle" /\ call = None /\ want = None /\ key = None
      /\ cur = None /\ carry = None /\ ret = <<>> /\ script \in Scripts /\ calls = 0
  BY DEF Init
<1>3. Types
  <2>1. script \in Seq({"insert", "delete"} \X Keys) /\ calls \in 0 .. MaxCalls
    BY <1>2, BTreeAssumption
  <2>2. elems \in [Nodes -> Seq(Elems)] /\ zero \in [Nodes -> Link] /\ parent \in [Nodes -> Link]
    BY <1>2, Constants
  <2> QED
    BY <1>1, <1>2, <2>1, <2>2 DEF Types
<1>4. \A n \in Nodes : /\ elems[n] = <<>> /\ zero[n] = None /\ parent[n] = None /\ Len(elems[n]) = 0
                       /\ KeysIn(elems[n]) = {}
                       /\ \A i \in Slots(elems[n]) : i = 0 /\ Child(n, i) = None /\ Sub(zero[n], elems[n], i) = None
  BY <1>2 DEF KeysIn, Slots, Child, Sub
<1>5. Links
  BY <1>1, <1>2, <1>4 DEF Links
<1>6. KeyOnce
  BY <1>1, <1>2, <1>4 DEF KeyOnce
<1>7. Fill
  <2>1. 0 <= Size - 2
    BY Constants
  <2> QED
    BY <1>1, <1>2, <1>4, <2>1 DEF Fill, IsLeaf
<1>8. C[None] = {} /\ H[None] = -1 /\ \A n \in Nodes : C[n] = {} /\ H[n] = 0 /\ n # None
  BY Constants
<1>9. C \in [Link -> SUBSET Keys] /\ H \in [Link -> Int]
  OBVIOUS
<1> HIDE DEF C, H
<1>10. ASSUME NEW n \in Nodes PROVE /\ Good(zero[n], elems[n], H[n] - 1, C, H)
                                    /\ C[n] = Content(zero[n], elems[n], C) \cup Rising(n, C)
  <2>1. Rising(n, C) = {}
    BY <1>2 DEF Rising
  <2>2. Content(zero[n], elems[n], C) = {}
    BY <1>4, <1>8 DEF Content
  <2>3. Sorted(elems[n]) /\ Distinct(zero[n], elems[n])
    BY <1>4 DEF Sorted, Distinct
  <2>4. \A i \in Slots(elems[n]) : H[Sub(zero[n], elems[n], i)] = H[n] - 1
                                   /\ C[Sub(zero[n], elems[n], i)] = {}
    BY <1>4, <1>8
  <2> QED
    BY <1>8, <2>1, <2>2, <2>3, <2>4 DEF Good
<1>11. Tree(C, H)
  BY <1>1, <1>2, <1>4, <1>8, <1>9, <1>10 DEF Tree
<1>12. Searching(C, H) /\ Inserting(C, H) /\ Repair
  BY <1>2 DEF Searching, Inserting, Repair
<1> QED
  BY <1>3, <1>5, <1>6, <1>7, <1>11, <1>12 DEF IInv, Inv

-----------------------------------------------------------------------------
(* The set of keys.                                                         *)

\* The keys of the tree, and the one on its way up
AllKeys ==
  (UNION {KeysIn(elems[n]) : n \in live}) \cup (IF pc = "insert" THEN {carry.key} ELSE {})

\* A step of a call whose result is known already: it changes nothing.
Unseen == AllKeys' = AllKeys /\ ret' = ret

LEMMA AllKeysIs ==
  ASSUME NEW x
  PROVE  x \in AllKeys <=> (\E n \in live : x \in KeysIn(elems[n])) \/ (pc = "insert" /\ x = carry.key)
<1> DEFINE U == UNION {KeysIn(elems[n]) : n \in live}
           R == IF pc = "insert" THEN {carry.key} ELSE {}
<1>1. AllKeys = U \cup R
  BY DEF AllKeys
<1>2. x \in U <=> \E n \in live : x \in KeysIn(elems[n])
  OBVIOUS
<1>3. x \in R <=> pc = "insert" /\ x = carry.key
  OBVIOUS
<1> HIDE DEF U, R
<1> QED
  BY <1>1, <1>2, <1>3

LEMMA AllKeysIsNext ==
  ASSUME NEW x
  PROVE  x \in AllKeys' <=> \/ \E n \in live' : x \in KeysIn(elems'[n])
                            \/ pc' = "insert" /\ x = carry'.key
<1> DEFINE U == UNION {KeysIn(elems'[n]) : n \in live'}
           R == IF pc' = "insert" THEN {carry'.key} ELSE {}
<1>1. AllKeys' = U \cup R
  BY DEF AllKeys, KeysIn
<1>2. x \in U <=> \E n \in live' : x \in KeysIn(elems'[n])
  OBVIOUS
<1>3. x \in R <=> pc' = "insert" /\ x = carry'.key
  OBVIOUS
<1> HIDE DEF U, R
<1> QED
  BY <1>1, <1>2, <1>3

\* K are the keys of the nodes in S, before and after; the others keep theirs.
Moves(S, K) ==
  /\ \A n \in live : n \notin S => n \in live' /\ elems'[n] = elems[n]
  /\ \A n \in live' : n \notin S => n \in live
  /\ \A n \in live : n \in S => KeysIn(elems[n]) \subseteq K
  /\ \A n \in live' : n \in S => KeysIn(elems'[n]) \subseteq K
  /\ (pc = "insert" => carry.key \in K) /\ (pc' = "insert" => carry'.key \in K)
  /\ \A x \in K : (\E n \in live : x \in KeysIn(elems[n])) \/ (pc = "insert" /\ x = carry.key)
  /\ \A x \in K : (\E n \in live' : x \in KeysIn(elems'[n])) \/ (pc' = "insert" /\ x = carry'.key)

LEMMA KeysMoved ==
  ASSUME NEW S, NEW K, Moves(S, K)
  PROVE  AllKeys' = AllKeys
<1> USE DEF Moves
<1>1. \A x \in K : x \in AllKeys /\ x \in AllKeys'
  BY AllKeysIs, AllKeysIsNext
<1>2. ASSUME NEW x \in AllKeys PROVE x \in AllKeys'
  <2>1. (\E n \in live : x \in KeysIn(elems[n])) \/ (pc = "insert" /\ x = carry.key)
    BY AllKeysIs
  <2>2. CASE pc = "insert" /\ x = carry.key
    BY <1>1, <2>2
  <2>3. CASE \E n \in live : x \in KeysIn(elems[n])
    <3>1. PICK n \in live : x \in KeysIn(elems[n])
      BY <2>3
    <3>2. CASE n \in S
      BY <1>1, <3>1, <3>2
    <3>3. CASE n \notin S
      <4>1. n \in live' /\ x \in KeysIn(elems'[n])
        BY <3>1, <3>3
      <4> QED
        BY <4>1, AllKeysIsNext
    <3> QED
      BY <3>2, <3>3
  <2> QED
    BY <2>1, <2>2, <2>3
<1>3. ASSUME NEW x \in AllKeys' PROVE x \in AllKeys
  <2>1. (\E n \in live' : x \in KeysIn(elems'[n])) \/ (pc' = "insert" /\ x = carry'.key)
    BY AllKeysIsNext
  <2>2. CASE pc' = "insert" /\ x = carry'.key
    BY <1>1, <2>2
  <2>3. CASE \E n \in live' : x \in KeysIn(elems'[n])
    <3>1. PICK n \in live' : x \in KeysIn(elems'[n])
      BY <2>3
    <3>2. CASE n \in S
      BY <1>1, <3>1, <3>2
    <3>3. CASE n \notin S
      <4>1. n \in live /\ x \in KeysIn(elems[n])
        BY <3>1, <3>3
      <4> QED
        BY <4>1, AllKeysIs
    <3> QED
      BY <3>2, <3>3
  <2> QED
    BY <2>1, <2>2, <2>3
<1> QED
  BY <1>2, <1>3

\* The call's key is taken out of the tree, and the caller will be told.
KeyDeleted ==
  /\ call = "delete" /\ want \in AllKeys
  /\ AllKeys' = AllKeys \ {want}
  /\ ret' = <<call, want, TRUE>>

\* c is the node from which the key x is taken; it may get one that is elsewhere as well.
LEMMA KeyTaken ==
  ASSUME NEW x, NEW c \in live, live' = live, pc # "insert", pc' # "insert",
         \A n \in live : n # c => elems'[n] = elems[n] /\ x \notin KeysIn(elems[n]),
         x \in KeysIn(elems[c]), x \notin KeysIn(elems'[c]),
         \A y \in KeysIn(elems[c]) : y = x \/ y \in KeysIn(elems'[c]),
         \A y \in KeysIn(elems'[c]) : \E n \in live : y \in KeysIn(elems[n])
  PROVE  x \in AllKeys /\ AllKeys' = AllKeys \ {x}
<1>1. x \in AllKeys
  BY AllKeysIs
<1>2. ASSUME NEW y \in AllKeys, y # x PROVE y \in AllKeys'
  <2>1. PICK n \in live : y \in KeysIn(elems[n])
    BY <1>2, AllKeysIs
  <2>2. y \in KeysIn(elems'[n])
    BY <1>2, <2>1
  <2> QED
    BY <2>2, AllKeysIsNext
<1>3. ASSUME NEW y \in AllKeys' PROVE y \in AllKeys /\ y # x
  <2>1. PICK n \in live : y \in KeysIn(elems'[n])
    BY <1>3, AllKeysIsNext
  <2>2. y # x
    BY <2>1
  <2>3. \E m \in live : y \in KeysIn(elems[m])
    BY <2>1
  <2> QED
    BY <2>2, <2>3, AllKeysIs
<1> QED
  BY <1>1, <1>2, <1>3

\* The tree as the invariant sees it, when it is not changed and nothing rises in it.
LEMMA Still ==
  ASSUME NEW C, NEW H, Inv(C, H), UNCHANGED tree, pc # "insert", pc' # "insert"
  PROVE  /\ Tree(C, H)' /\ Links' /\ Inserting(C, H)'
         /\ pc # "repair" => Fill'
         /\ Once => KeyOnce'
<1>1. /\ root' = root /\ live' = live /\ zero' = zero /\ elems' = elems /\ parent' = parent
  BY DEF tree
<1>2. Tree(C, H)'
  <2>1. Tree(C, H)
    BY DEF Inv
  <2>2. \A n : Rising(n, C) = {} /\ Rising(n, C)' = {}
    BY DEF Rising
  <2> QED
    BY <1>1, <2>1, <2>2 DEF Tree
<1>3. Links'
  <2>1. Links
    BY DEF Inv
  <2> QED
    BY <1>1, <2>1 DEF Links, Child
<1>4. Inserting(C, H)'
  BY DEF Inserting
<1>5. pc # "repair" => Fill'
  <2>1. Fill
    BY DEF Inv
  <2> QED
    BY <1>1, <2>1 DEF Fill, IsLeaf
<1>6. Once => KeyOnce'
  BY <1>1 DEF Once, KeyOnce
<1> QED
  BY <1>2, <1>3, <1>4, <1>5, <1>6

LEMMA StartInv ==
  ASSUME NEW C, NEW H, Inv(C, H), NEW c \in {"insert", "delete", "search"}, NEW k \in Keys,
         Start(c, k), script' \in Seq({"insert", "delete"} \X Keys), calls' \in 0 .. MaxCalls
  PROVE  IInv'
<1>1. /\ pc = "idle" /\ pc' = "search" /\ call' = c /\ want' = k /\ key' = k /\ cur' = root
      /\ UNCHANGED <<tree, carry, ret>>
  BY DEF Start
<1>2. root' = root /\ live' = live /\ zero' = zero /\ elems' = elems /\ parent' = parent
      /\ carry' = carry
  BY <1>1 DEF tree
<1>3. /\ Tree(C, H)' /\ Links' /\ Inserting(C, H)' /\ Fill' /\ KeyOnce'
  BY <1>1, Still, OnceIs
<1>4. Types'
  BY <1>1, <1>2 DEF Inv, Types
<1>5. Searching(C, H)'
  <2> PICK r : r = root
    OBVIOUS
  <2>1. r \in live /\ r \in Nodes
    BY DEF Inv, Types
  <2>2. H[r] \in Nat
    BY <2>1, NodeIs DEF Inv
  <2>3. \A i \in Slots(elems[r]) : Child(r, i) # r
    BY <2>1, Constants, KidIs DEF Inv
  <2>4. \A i : Child(r, i)' = Child(r, i)
    BY <1>2 DEF Child
  <2>5. Path({r}, r)'
    BY <1>1, <1>2, <2>1, <2>3, <2>4 DEF Path
  <2>6. {r} \in SUBSET Nodes /\ \A m \in {r} : H[cur'] <= H[m] /\ H[m] <= H[r]
    BY <1>1, <2>1, <2>2
  <2> QED
    BY <1>1, <1>2, <2>1, <2>5, <2>6 DEF Searching
<1>6. Repair'
  BY <1>1 DEF Repair
<1> QED
  BY <1>3, <1>4, <1>5, <1>6 DEF IInv, Inv

LEMMA ReturnInv ==
  ASSUME NEW C, NEW H, Inv(C, H), UNCHANGED tree, Once, pc # "insert", NEW r, Return(r),
         UNCHANGED <<script, calls>>, pc = "repair" => cur = root
  PROVE  IInv'
<1>1. /\ pc' = "idle" /\ call' = None /\ want' = None /\ key' = None /\ cur' = None /\ carry' = None
  BY DEF Return
<1>2. root' = root /\ live' = live /\ zero' = zero /\ elems' = elems /\ parent' = parent
  BY DEF tree
<1>3. Tree(C, H)' /\ Links' /\ Inserting(C, H)' /\ KeyOnce'
  BY <1>1, Still
<1>4. Types'
  BY <1>1, <1>2 DEF Inv, Types
<1>5. Searching(C, H)' /\ Repair'
  BY <1>1 DEF Searching, Repair
<1>6. Fill'
  <2>1. Fill
    BY DEF Inv
  <2> QED
    BY <1>1, <1>2, <2>1 DEF Fill, IsLeaf
<1> QED
  BY <1>3, <1>4, <1>5, <1>6 DEF IInv, Inv

LEMMA HitKeyInv ==
  ASSUME NEW C, NEW H, Inv(C, H), HitKey
  PROVE  IInv'
<1>1. pc = "search" /\ call # "delete" /\ Return(call = "search") /\ UNCHANGED <<tree, script, calls>>
  BY DEF HitKey
<1>2. Once
  BY <1>1, AtNode, OnceIs
<1> QED
  BY <1>1, <1>2, ReturnInv

LEMMA RepairRootInv ==
  ASSUME NEW C, NEW H, Inv(C, H), RepairRoot
  PROVE  IInv'
<1>1. pc = "repair" /\ cur = root /\ Return(TRUE) /\ UNCHANGED <<tree, script, calls>>
  BY DEF RepairRoot
<1>2. Once
  BY <1>1, OnceIs
<1> QED
  BY <1>1, <1>2, ReturnInv

LEMMA DescendInv ==
  ASSUME NEW C, NEW H, Inv(C, H), Descend
  PROVE  IInv'
<1> PICK g, c : g = Gap(cur, key) /\ c = Child(cur, g)
  OBVIOUS
<1>1. /\ pc = "search" /\ ~Hit(cur, key) /\ c # None /\ cur' = c
      /\ UNCHANGED <<tree, pc, call, want, key, carry, ret, script, calls>>
  BY DEF Descend
<1>2. /\ root' = root /\ live' = live /\ zero' = zero /\ elems' = elems /\ parent' = parent
      /\ pc' = pc /\ call' = call /\ want' = want /\ key' = key /\ carry' = carry /\ ret' = ret
      /\ script' = script /\ calls' = calls
  BY <1>1 DEF tree
<1>3. cur \in live /\ cur \in Nodes /\ g \in Slots(elems[cur]) /\ InGap(elems[cur], g, key)
      /\ (key \in C[cur] => key \in C[c])
  BY <1>1, AtNode
<1>4. /\ c \in live \ {root, cur} /\ c \in Nodes /\ parent[c] = cur
      /\ H[c] \in Nat /\ H[cur] \in Nat /\ H[c] = H[cur] - 1
      /\ \A m \in live : \A j \in Slots(elems[m]) : Child(m, j) = c => m = cur /\ j = g
  BY <1>1, <1>3, KidIs DEF Inv
<1>5. Tree(C, H)' /\ Links' /\ Inserting(C, H)' /\ Fill'
  BY <1>1, <1>2, Still
<1>6. KeyOnce'
  <2>1. KeyOnce
    BY DEF Inv
  <2> QED
    BY <1>1, <1>2, <2>1 DEF KeyOnce, Twice, IsLeaf
<1>7. Types'
  BY <1>1, <1>2, <1>4 DEF Inv, Types
<1>8. Repair'
  BY <1>1, <1>2 DEF Repair
<1>9. Searching(C, H)'
  <2>1. PICK P \in SUBSET Nodes, top \in live :
          /\ Path(P, top)
          /\ \A m \in P : H[cur] <= H[m] /\ H[m] <= H[top]
          /\ key = want => top = root /\ (key \in C[root] => key \in C[cur])
          /\ key # want => /\ call = "delete" /\ ret = <<call, want, TRUE>>
                           /\ H[top] > H[cur]
                           /\ key \in KeysIn(elems[top])
                           /\ key \in C[cur]
    BY <1>1 DEF Inv, Searching
  <2>2. P \subseteq live /\ top \in P /\ cur \in P
    BY <2>1 DEF Path
  <2>3. \A m \in P : H[m] \in Nat /\ m \in Nodes
    <3> SUFFICES ASSUME NEW m \in P PROVE H[m] \in Nat /\ m \in Nodes
      OBVIOUS
    <3>1. m \in Nodes
      BY <2>1
    <3> QED
      BY <3>1, NodeIs DEF Inv
  <2>4. \A m \in P : m # c /\ H[c] <= H[m] /\ \A i \in Slots(elems[c]) : Child(c, i) # m
    <3> SUFFICES ASSUME NEW m \in P
                 PROVE  m # c /\ H[c] <= H[m] /\ \A i \in Slots(elems[c]) : Child(c, i) # m
      OBVIOUS
    <3>1. H[cur] <= H[m] /\ H[m] \in Nat
      BY <2>1, <2>3
    <3>2. m # c /\ H[c] <= H[m]
      BY <1>4, <3>1
    <3>3. \A i \in Slots(elems[c]) : H[Child(c, i)] = H[c] - 1
      BY <1>4, SlotIs DEF Inv
    <3> QED
      BY <1>4, <3>1, <3>2, <3>3
  <2>5. \A i \in Slots(elems[c]) : Child(c, i) # c
    BY <1>4, Constants, KidIs DEF Inv
  <2> DEFINE Q == P \cup {c}
  <2>6. \A m, i : Child(m, i)' = Child(m, i)
    BY <1>2 DEF Child
  <2>7. Path(Q, top)'
    <3>1. Q \subseteq live' /\ top \in Q /\ cur' \in Q
      BY <1>1, <1>2, <1>4, <2>2
    <3>2. \A m \in Q \ {top} : parent'[m] \in Q
      BY <1>2, <1>4, <2>1, <2>2 DEF Path
    <3>3. \A m \in Q \ {cur'} : \E i \in Slots(elems'[m]) : Child(m, i)' \in Q
      <4> SUFFICES ASSUME NEW m \in P PROVE \E i \in Slots(elems[m]) : Child(m, i) \in Q
        BY <1>1, <1>2, <2>6
      <4>1. CASE m = cur
        BY <1>3, <4>1
      <4>2. CASE m # cur
        BY <2>1, <4>2 DEF Path
      <4> QED
        BY <4>1, <4>2
    <3>4. \A m \in Q : \A i \in Slots(elems'[m]) : Child(m, i)' \in Q => InGap(elems'[m], i, key')
      <4> SUFFICES ASSUME NEW m \in Q, NEW i \in Slots(elems[m]), Child(m, i) \in Q
                   PROVE  InGap(elems[m], i, key)
        BY <1>2, <2>6
      <4>1. CASE m = c
        BY <2>4, <2>5, <4>1
      <4>2. CASE m # c /\ Child(m, i) = c
        <5>1. m = cur /\ i = g
          BY <1>4, <2>2, <4>2
        <5> QED
          BY <1>3, <5>1
      <4>3. CASE m # c /\ Child(m, i) # c
        BY <2>1, <4>3 DEF Path
      <4> QED
        BY <4>1, <4>2, <4>3
    <3> QED
      BY <3>1, <3>2, <3>3, <3>4 DEF Path
  <2>8. Q \in SUBSET Nodes /\ \A m \in Q : H[cur'] <= H[m] /\ H[m] <= H[top]
    <3>1. H[c] <= H[top] /\ H[c] <= H[c]
      BY <1>4, <2>2, <2>4
    <3> QED
      BY <1>1, <1>4, <2>1, <2>4, <3>1
  <2>9. H[top] > H[cur] => H[top] > H[cur']
    BY <1>1, <1>4, <2>2, <2>3
  <2> HIDE DEF Q
  <2> QED
    BY <1>1, <1>2, <1>3, <2>1, <2>7, <2>8, <2>9 DEF Searching
<1> QED
  BY <1>5, <1>6, <1>7, <1>8, <1>9 DEF IInv, Inv

\* What the search passed is where the key will be.
LEMMA MissInv ==
  ASSUME NEW C, NEW H, Inv(C, H), Miss
  PROVE  IInv'
<1>1. /\ pc = "search" /\ ~Hit(cur, key) /\ Child(cur, Gap(cur, key)) = None
      /\ UNCHANGED <<tree, script, calls>>
  BY DEF Miss
<1>2. key = want /\ key \notin C[root] /\ \A n \in live : key \notin KeysIn(elems[n])
  BY <1>1, NotThere
<1>3. Once
  BY <1>1, <1>2, OnceIs
<1>4. CASE call # "insert"
  <2>1. Return(FALSE)
    BY <1>4 DEF Miss
  <2> QED
    BY <1>1, <1>3, <2>1, ReturnInv
<1>5. CASE call = "insert"
  <2>1. /\ pc' = "insert" /\ carry' = Elem(key, None) /\ Result(TRUE)
        /\ UNCHANGED <<call, want, key, cur>>
    BY <1>5 DEF Miss
  <2>2. /\ root' = root /\ live' = live /\ zero' = zero /\ elems' = elems /\ parent' = parent
        /\ pc' = "insert" /\ call' = call /\ want' = want /\ key' = key /\ cur' = cur
        /\ carry'.key = key /\ carry'.sub = None /\ ret' = <<call, want, TRUE>>
        /\ script' = script /\ calls' = calls
    BY <1>1, <2>1 DEF tree, Elem, Result
  <2>3. cur \in live /\ cur \in Nodes /\ key \in Keys
    BY <1>1, AtNode
  <2>4. carry' \in Elems
    BY <2>1, <2>3, Constants DEF Elem, Elems
  <2>5. PICK P \in SUBSET Nodes :
          Path(P, root) /\ \A m \in P : H[cur] <= H[m] /\ H[m] <= H[root]
    BY <1>1, <1>2 DEF Inv, Searching
  <2>6. PICK g \in Slots(elems[cur]) : InGap(elems[cur], g, key) /\ Child(cur, g) = None
    BY <1>1, AtNode
  <2>7. Types'
    <3>1. Types
      BY DEF Inv
    <3> QED
      BY <1>1, <1>5, <2>2, <2>3, <2>4, <3>1 DEF Types
  <2>8. Links'
    <3>1. Links
      BY DEF Inv
    <3> QED
      BY <1>1, <2>2, <3>1 DEF Links, Child
  <2>9. KeyOnce'
    BY <1>2, <1>3, <2>2 DEF Once, KeyOnce
  <2>10. Fill'
    <3>1. Fill
      BY DEF Inv
    <3> QED
      BY <1>1, <2>2, <3>1 DEF Fill, IsLeaf
  <2> DEFINE D == [n \in Link |-> IF n \in P THEN C[n] \cup {key} ELSE C[n]]
  <2>11. P \subseteq live /\ root \in P /\ cur \in P /\ None \notin P
    BY <2>5, Constants DEF Path
  <2>12. D \in [Link -> SUBSET Keys] /\ D[None] = {}
    <3>1. C \in [Link -> SUBSET Keys] /\ C[None] = {} /\ None \in Link
      BY Constants DEF Inv, Tree
    <3> QED
      BY <2>3, <2>11, <3>1
  <2>13. \A n \in Link : D[n] = IF n \in P THEN C[n] \cup {key} ELSE C[n]
    OBVIOUS
  <2> PICK E : E = D
    OBVIOUS
  <2> HIDE DEF D
  <2>14. ASSUME NEW n \in Nodes, NEW i \in Slots(elems[n]), Child(n, i) \in P
         PROVE  n \in P /\ InGap(elems[n], i, key) /\ n # cur
    <3>1. n \in live
      <4>1. ASSUME n \notin live PROVE FALSE
        <5>1. zero[n] = None /\ elems[n] = <<>>
          BY <4>1 DEF Inv, Tree
        <5>2. Child(n, i) = None
          BY <5>1 DEF Slots, Child
        <5> QED
          BY <2>11, <2>14, <5>2
      <4> QED
        BY <4>1
    <3>2. Child(n, i) # None
      BY <2>11, <2>14
    <3>3. Child(n, i) # root /\ parent[Child(n, i)] = n /\ H[Child(n, i)] = H[n] - 1
          /\ H[n] \in Nat
      BY <3>1, <3>2, KidIs DEF Inv
    <3>4. n \in P
      BY <2>5, <2>14, <3>3 DEF Path
    <3>5. H[cur] <= H[Child(n, i)] /\ H[cur] \in Nat
      BY <2>3, <2>5, <2>14, NodeIs DEF Inv
    <3> QED
      BY <2>5, <2>14, <3>3, <3>4, <3>5 DEF Path
  <2>15. ASSUME NEW n \in Nodes
         PROVE  Good(zero[n], elems[n], H[n] - 1, D, H)
    <3>1. Good(zero[n], elems[n], H[n] - 1, C, H)
      BY NodeIs DEF Inv
    <3>2. ASSUME NEW i \in Slots(elems[n]), NEW k \in D[Sub(zero[n], elems[n], i)]
          PROVE  InGap(elems[n], i, k)
      <4>1. Sub(zero[n], elems[n], i) = Child(n, i) /\ Child(n, i) \in Link
        BY SlotIs DEF Inv
      <4>2. CASE k \in C[Child(n, i)]
        BY <3>1, <4>1, <4>2 DEF Good
      <4>3. CASE Child(n, i) \in P /\ k = key
        BY <2>14, <4>3
      <4> QED
        BY <2>13, <3>2, <4>1, <4>2, <4>3
    <3> QED
      BY <3>1, <3>2 DEF Good
  <2>16. ASSUME NEW n \in Nodes
         PROVE  D[n] = Content(zero[n], elems[n], D) \cup (IF n = cur THEN {key} ELSE {})
    <3>1. /\ elems[n] \in Seq(Elems) /\ zero[n] \in Link /\ Sorted(elems[n])
          /\ C[n] = Content(zero[n], elems[n], C) \cup Rising(n, C)
      BY NodeIs DEF Inv
    <3>2. Rising(n, C) = {} /\ n \in Link
      BY <1>1, Constants DEF Rising
    <3>3. \A i \in Slots(elems[n]) : Sub(zero[n], elems[n], i) = Child(n, i) /\ Child(n, i) \in Link
      BY SlotIs DEF Inv
    <3>4. CASE n \notin P \/ n = cur
      <4>1. \A i \in Slots(elems[n]) : D[Sub(zero[n], elems[n], i)] = C[Sub(zero[n], elems[n], i)]
        BY <2>13, <2>14, <3>3, <3>4
      <4>2. Content(zero[n], elems[n], D) = Content(zero[n], elems[n], C)
        BY <3>1, <4>1, ContentSame
      <4> QED
        BY <2>11, <2>13, <3>1, <3>2, <3>4, <4>2
    <3>5. CASE n \in P /\ n # cur
      <4>1. PICK q \in Slots(elems[n]) : Child(n, q) \in P
        BY <2>5, <3>5 DEF Path
      <4>2. \A i \in Slots(elems[n]) : i # q => Child(n, i) \notin P
        <5> SUFFICES ASSUME NEW i \in Slots(elems[n]), Child(n, i) \in P PROVE i = q
          OBVIOUS
        <5>1. InGap(elems[n], i, key) /\ InGap(elems[n], q, key)
          BY <2>14, <4>1
        <5>2. key \in Int
          BY <1>1, AtNode
        <5> QED
          BY <3>1, <5>1, <5>2, GapUnique
      <4>3. /\ \A i \in Slots(elems[n]) : i # q =>
                 D[Sub(zero[n], elems[n], i)] = C[Sub(zero[n], elems[n], i)]
            /\ D[Sub(zero[n], elems[n], q)] = C[Sub(zero[n], elems[n], q)] \cup {key}
        BY <2>13, <3>3, <4>1, <4>2
      <4> DEFINE X == {key}
      <4> HIDE DEF X
      <4>4. Content(zero[n], elems[n], D) = Content(zero[n], elems[n], C) \cup X
        <5>1. D[Sub(zero[n], elems[n], q)] = C[Sub(zero[n], elems[n], q)] \cup X
          BY <4>3 DEF X
        <5> QED
          BY <4>3, <5>1, ContentPlus DEF More
      <4> QED
        BY <2>13, <3>1, <3>2, <3>5, <4>4 DEF X
    <3> QED
      BY <3>4, <3>5
  <2>17. Tree(E, H)'
    <3>1. Tree(C, H)
      BY DEF Inv
    <3>2. \A n : Rising(n, E)' = IF n = cur THEN {key} ELSE {}
      BY <2>2, <2>12 DEF Rising
    <3>3. \A n \in Nodes : /\ Good(zero[n], elems[n], H[n] - 1, E, H)
                           /\ E[n] = Content(zero[n], elems[n], E) \cup Rising(n, E)'
      BY <2>15, <2>16, <3>2
    <3>4. \A n \in live : E[n] \subseteq E[root]
      <4> SUFFICES ASSUME NEW n \in live PROVE D[n] \subseteq D[root]
        OBVIOUS
      <4>1. C[n] \subseteq C[root]
        BY <1>1, <3>1 DEF Tree, Rising
      <4>2. n \in Link /\ root \in Link
        BY Constants DEF Inv, Types
      <4> QED
        BY <2>11, <2>13, <4>1, <4>2
    <3> QED
      BY <2>2, <2>12, <3>1, <3>3, <3>4 DEF Tree
  <2>18. Searching(E, H)' /\ Repair'
    BY <2>2 DEF Searching, Repair
  <2>19. Inserting(E, H)'
    <3>1. H[None] = -1
      BY DEF Inv, Tree
    <3>2. IsLeaf(cur) /\ H[cur] = 0 /\ cur # None
      BY <2>3, <2>6, Constants, SlotIs, NodeIs DEF Inv
    <3>3. Child(cur, g)' = Child(cur, g)
      BY <2>2 DEF Child
    <3>4. Fits(g, E)'
      BY <2>2, <2>6, <2>12, <3>3 DEF Fits
    <3> QED
      BY <1>5, <2>2, <2>4, <2>6, <3>1, <3>2, <3>4 DEF Inserting
  <2> QED
    BY <2>7, <2>8, <2>9, <2>10, <2>17, <2>18, <2>19 DEF IInv, Inv
<1> QED
  BY <1>4, <1>5

-----------------------------------------------------------------------------
(* Deletion.                                                                *)

\* What a node keeps when a key is taken out of it, or away below it.
LEMMA KeyGone ==
  ASSUME NEW s \in Seq(Elems), NEW z \in Link, NEW C, NEW D, NEW k,
         \A i \in Slots(s) : /\ C[Sub(z, s, i)] \ {k} \subseteq D[Sub(z, s, i)]
                             /\ D[Sub(z, s, i)] \subseteq C[Sub(z, s, i)],
         k \in KeysIn(s)
  PROVE  Content(z, s, D) = Content(z, s, C)
<1>1. Content(z, s, D) \subseteq Content(z, s, C)
  BY DEF Content
<1>2. ASSUME NEW x \in Content(z, s, C) PROVE x \in Content(z, s, D)
  <2>1. CASE x \in KeysIn(s)
    BY <2>1 DEF Content
  <2>2. CASE x \notin KeysIn(s)
    <3>1. PICK i \in Slots(s) : x \in C[Sub(z, s, i)]
      BY <1>2, <2>2 DEF Content
    <3>2. x \in D[Sub(z, s, i)]
      BY <2>2, <3>1
    <3> QED
      BY <3>2 DEF Content
  <2> QED
    BY <2>1, <2>2
<1> QED
  BY <1>1, <1>2

\* The nodes a key is taken away from: all, or those below the one it has moved up to.
LEMMA Passed ==
  ASSUME NEW C, NEW H, Inv(C, H), pc = "search", Hit(cur, key), IsLeaf(cur)
  PROVE  \E Q \in SUBSET Link :
           /\ cur \in Q
           /\ root \in Q => Q = Link
           /\ \A n \in Q \ {cur, None} : key \notin KeysIn(elems[n])
           /\ \A n \in Q \ {cur, None} : \A i \in Slots(elems[n]) :
                Child(n, i) \in Q \/ key \notin C[Child(n, i)]
           /\ \A n \in Nodes \ Q : \/ key \in KeysIn(elems[n])
                                   \/ \A i \in Slots(elems[n]) : Child(n, i) \notin Q
<1>1. cur \in live /\ cur \in Nodes /\ key \in KeysIn(elems[cur]) /\ key \in Keys /\ key \in Int
  BY AtNode
<1>2. \A n \in Nodes \ live : KeysIn(elems[n]) = {}
  <2>1. \A n \in Nodes \ live : elems[n] = <<>>
    BY DEF Inv, Tree
  <2> QED
    BY <2>1 DEF KeysIn
<1>3. CASE key = want
  <2>1. \A n \in Nodes \ {cur} : key \notin KeysIn(elems[n])
    <3>1. Once
      BY <1>3, OnceIs
    <3> QED
      BY <1>1, <1>2, <3>1 DEF Once
  <2>2. \A n \in Nodes : \A i \in Slots(elems[n]) : Child(n, i) \in Link
    BY SlotIs DEF Inv
  <2> QED
    BY <1>1, <2>1, <2>2, Constants DEF Link
<1>4. CASE key # want
  <2>1. PICK P \in SUBSET Nodes, top \in live :
          /\ Path(P, top)
          /\ \A m \in P : H[cur] <= H[m] /\ H[m] <= H[top]
          /\ H[top] > H[cur]
          /\ key \in KeysIn(elems[top])
    BY <1>4 DEF Inv, Searching
  <2> DEFINE Q == P \ {top}
  <2>2. P \subseteq live /\ top \in P /\ cur \in P /\ None \notin P
    BY <2>1, Constants DEF Path
  <2>3. cur # top
    <3>1. H[cur] \in Nat
      BY <1>1, NodeIs DEF Inv
    <3> QED
      BY <2>1, <3>1
  <2>4. root \notin Q
    <3>1. parent[root] = None
      BY DEF Inv, Links
    <3> QED
      BY <2>1, <2>2, <3>1 DEF Path
  <2>5. ASSUME NEW n \in P \ {cur}
        PROVE  n \in live /\ n \in Nodes /\ ~IsLeaf(n)
               /\ \E q \in Slots(elems[n]) : Child(n, q) \in Q /\ InGap(elems[n], q, key)
    <3>1. PICK q \in Slots(elems[n]) : Child(n, q) \in P
      BY <2>1, <2>5 DEF Path
    <3>2. InGap(elems[n], q, key)
      BY <2>1, <2>5, <3>1 DEF Path
    <3>3. n \in live /\ n \in Nodes /\ top \in Nodes
      BY <2>1, <2>2, <2>5
    <3>4. ~IsLeaf(n) /\ H[Child(n, q)] = H[n] - 1 /\ H[n] \in Nat
      BY <2>2, <3>1, <3>3, KidIs DEF Inv
    <3>5. H[n] <= H[top] /\ H[top] \in Nat
      BY <2>1, <3>3, NodeIs DEF Inv
    <3>6. Child(n, q) # top
      BY <3>4, <3>5
    <3> QED
      BY <3>1, <3>2, <3>3, <3>4, <3>6
  <2>6. top \in Nodes /\ ~IsLeaf(top)
    BY <2>2, <2>3, <2>5
  <2>7. ASSUME NEW n \in Q \ {cur, None} PROVE key \notin KeysIn(elems[n])
    <3>1. n \in live /\ ~IsLeaf(n) /\ n # top
      BY <2>5, <2>7
    <3> QED
      BY <2>1, <2>6, <3>1 DEF Inv, KeyOnce
  <2>8. ASSUME NEW n \in Q \ {cur, None}, NEW i \in Slots(elems[n]), key \in C[Child(n, i)]
        PROVE  Child(n, i) \in Q
    <3>1. PICK q \in Slots(elems[n]) : Child(n, q) \in Q /\ InGap(elems[n], q, key)
      BY <2>5, <2>8
    <3>2. n \in Nodes
      BY <2>5, <2>8
    <3>3. elems[n] \in Seq(Elems) /\ Sorted(elems[n])
      BY <3>2, NodeIs DEF Inv
    <3>4. InGap(elems[n], i, key)
      BY <2>8, <3>2, SlotIs DEF Inv
    <3>5. i = q
      BY <1>1, <3>1, <3>3, <3>4, GapUnique
    <3> QED
      BY <3>1, <3>5
  <2>9. ASSUME NEW n \in Nodes \ Q, key \notin KeysIn(elems[n]), NEW i \in Slots(elems[n])
        PROVE  Child(n, i) \notin Q
    <3> SUFFICES ASSUME Child(n, i) \in Q PROVE FALSE
      OBVIOUS
    <3>1. n # top /\ n \notin P
      BY <2>1, <2>9
    <3>2. Child(n, i) # None /\ Child(n, i) # top /\ Child(n, i) \in P
      BY <2>2
    <3>3. n \in live
      <4> SUFFICES ASSUME n \notin live PROVE FALSE
        OBVIOUS
      <4>1. zero[n] = None /\ elems[n] = <<>>
        BY DEF Inv, Tree
      <4>2. Child(n, i) = None
        BY <4>1 DEF Slots, Child
      <4> QED
        BY <3>2, <4>2
    <3>4. parent[Child(n, i)] = n
      BY <3>2, <3>3 DEF Inv, Links
    <3>5. n \in P
      BY <2>1, <3>2, <3>4 DEF Path
    <3> QED
      BY <3>1, <3>5
  <2>10. Q \in SUBSET Link /\ cur \in Q
    BY <2>2, <2>3, Constants DEF Link
  <2> HIDE DEF Q
  <2> QED
    BY <2>4, <2>7, <2>8, <2>9, <2>10
<1> QED
  BY <1>3, <1>4

LEMMA LeafDeleted ==
  ASSUME NEW C, NEW H, Inv(C, H), DeleteFromLeaf
  PROVE  IInv' /\ (IF key = want THEN KeyDeleted ELSE Unseen)
<1>1. /\ pc = "search" /\ call = "delete" /\ Hit(cur, key) /\ IsLeaf(cur)
      /\ elems' = [elems EXCEPT ![cur] = RemoveAt(elems[cur], Gap(cur, key))]
      /\ IF Len(elems[cur]) > MinKeys
           THEN Return(TRUE)
           ELSE pc' = "repair" /\ Result(TRUE) /\ UNCHANGED <<call, want, key, cur, carry>>
      /\ UNCHANGED <<root, live, zero, parent, script, calls>>
  BY DEF DeleteFromLeaf
<1>2. /\ root' = root /\ live' = live /\ zero' = zero /\ parent' = parent
      /\ script' = script /\ calls' = calls
  BY <1>1
<1>3. /\ pc' \in {"idle", "repair"}
      /\ pc' = "idle" => /\ Len(elems[cur]) > MinKeys /\ call' = None /\ want' = None
                         /\ key' = None /\ cur' = None /\ carry' = None
      /\ pc' = "repair" => /\ ~(Len(elems[cur]) > MinKeys) /\ call' = call /\ want' = want
                           /\ key' = key /\ cur' = cur /\ carry' = carry
                           /\ ret' = <<call, want, TRUE>>
  BY <1>1 DEF Return, Result
<1>4. /\ Types /\ Links /\ KeyOnce /\ Fill /\ Tree(C, H)
  BY DEF Inv
<1> PICK x, g, s, t, z : x = key /\ g = Gap(cur, key) /\ s = elems[cur] /\ t = RemoveAt(s, g)
                         /\ z = zero[cur]
  OBVIOUS
<1>5. /\ cur \in live /\ cur \in Nodes /\ x \in Keys /\ x \in KeysIn(s)
      /\ g \in 1 .. Len(s) /\ s[g].key = x
  BY <1>1, AtNode
<1>6. /\ s \in Seq(Elems) /\ z \in Link /\ Len(s) \in Nat /\ Sorted(s) /\ C[cur] \in SUBSET Keys
      /\ C \in [Link -> SUBSET Keys] /\ H \in [Link -> Int] /\ H[cur] = 0
      /\ Good(z, s, H[cur] - 1, C, H) /\ C[cur] = Content(z, s, C) \cup Rising(cur, C)
  BY <1>1, <1>4, <1>5, NodeIs
<1>7. t \in Seq(Elems) /\ Inserts(s, t, g - 1, s[g])
  BY <1>5, <1>6, RemoveIs
<1>8. s[g] \in Elems /\ g - 1 \in Slots(t) /\ Len(s) = Len(t) + 1 /\ Len(t) \in Nat
  BY <1>5, <1>6, <1>7, ElemIs, SeqLen DEF Inserts, Slots
<1>9. KeysIn(t) = KeysIn(s) \ {x} /\ Sorted(t)
  BY <1>5, <1>6, <1>7, <1>8, RemoveKeys
<1>10. /\ elems' \in [Nodes -> Seq(Elems)] /\ elems'[cur] = t
       /\ \A n \in Nodes \ {cur} : elems'[n] = elems[n]
  BY <1>1, <1>4, <1>5, <1>7 DEF Types
<1>11. \A i \in Slots(s) : Sub(z, s, i) = None
  <2>1. \A i \in Slots(elems[cur]) : Child(cur, i) = None
    BY <1>1, <1>4, <1>5, SlotIs
  <2> QED
    BY <1>5, <2>1, ChildIs
<1>12. \A i \in Slots(t) : Sub(z, t, i) = None
  <2> SUFFICES ASSUME NEW i \in Slots(t) PROVE Sub(z, t, i) = None
    OBVIOUS
  <2> DEFINE q == g - 1
  <2>1. q \in Slots(t) /\ Inserts(s, t, q, s[g])
    BY <1>7, <1>8
  <2> HIDE DEF q
  <2>2. /\ i <= q => i \in Slots(s) /\ Sub(z, s, i) = Sub(z, t, i)
        /\ i > q => i + 1 \in Slots(s) /\ Sub(z, s, i + 1) = Sub(z, t, i)
    BY <1>6, <1>7, <1>8, <2>1, InsertSlots
  <2>3. i \in Int /\ q \in Int
    BY <1>8, <2>1 DEF Slots
  <2>4. i <= q \/ i > q
    BY <2>3
  <2> QED
    BY <1>11, <2>2, <2>4
<1>13. PICK Q \in SUBSET Link :
         /\ cur \in Q
         /\ root \in Q => Q = Link
         /\ \A n \in Q \ {cur, None} : x \notin KeysIn(elems[n])
         /\ \A n \in Q \ {cur, None} : \A i \in Slots(elems[n]) :
              Child(n, i) \in Q \/ x \notin C[Child(n, i)]
         /\ \A n \in Nodes \ Q : \/ x \in KeysIn(elems[n])
                                 \/ \A i \in Slots(elems[n]) : Child(n, i) \notin Q
  BY <1>1, Passed
<1> DEFINE E == [n \in Link |-> IF n \in Q THEN C[n] \ {x} ELSE C[n]]
<1>14. /\ E \in [Link -> SUBSET Keys] /\ E[None] = {}
       /\ \A n \in Link : /\ n \in Q => E[n] = C[n] \ {x}
                          /\ n \notin Q => E[n] = C[n]
  <2>1. C[None] = {} /\ None \in Link
    BY <1>4, Constants DEF Tree
  <2> QED
    BY <1>6, <2>1
<1> PICK D : D = E
  OBVIOUS
<1> HIDE DEF E
<1>15. ASSUME NEW n \in Nodes
       PROVE  /\ Good(zero[n], elems'[n], H[n] - 1, D, H)
              /\ D[n] = Content(zero[n], elems'[n], D)
  <2>1. Rising(n, C) = {} /\ n \in Link
    BY <1>1, Constants DEF Rising
  <2>2. CASE n = cur
    <3>1. C[n] = KeysIn(s)
      <4>1. C[None] = {}
        BY <1>4 DEF Tree
      <4>2. \A i \in Slots(s) : C[Sub(z, s, i)] = {}
        BY <1>11, <4>1
      <4>3. Content(z, s, C) = KeysIn(s)
        BY <4>2 DEF Content
      <4> QED
        BY <1>6, <2>1, <2>2, <4>3
    <3>2. D[n] = KeysIn(t)
      BY <1>9, <1>13, <1>14, <2>1, <2>2, <3>1
    <3>3. Content(z, t, D) = KeysIn(t)
      BY <1>12, <1>14 DEF Content
    <3>4. Good(z, t, H[n] - 1, D, H)
      <4>1. H[None] = -1
        BY <1>4 DEF Tree
      <4>2. Distinct(z, t)
        BY <1>12 DEF Distinct
      <4> QED
        BY <1>6, <1>9, <1>12, <1>14, <2>2, <4>1, <4>2 DEF Good
    <3> QED
      BY <1>10, <2>2, <3>2, <3>3, <3>4
  <2>3. CASE n # cur
    <3>1. /\ elems[n] \in Seq(Elems) /\ zero[n] \in Link
          /\ Good(zero[n], elems[n], H[n] - 1, C, H)
          /\ C[n] = Content(zero[n], elems[n], C)
      BY <1>4, <2>1, NodeIs
    <3>2. \A i \in Slots(elems[n]) : Sub(zero[n], elems[n], i) = Child(n, i) /\ Child(n, i) \in Link
      BY <1>4, SlotIs
    <3>3. \A i \in Slots(elems[n]) :
            /\ C[Sub(zero[n], elems[n], i)] \ {x} \subseteq D[Sub(zero[n], elems[n], i)]
            /\ D[Sub(zero[n], elems[n], i)] \subseteq C[Sub(zero[n], elems[n], i)]
      BY <1>14, <3>2
    <3>4. Good(zero[n], elems[n], H[n] - 1, D, H)
      BY <3>1, <3>3 DEF Good
    <3>5. CASE n \in Q
      <4>1. x \notin KeysIn(elems[n])
        BY <1>13, <2>3, <3>5, Constants
      <4>2. \A i \in Slots(elems[n]) :
              D[Sub(zero[n], elems[n], i)] = C[Sub(zero[n], elems[n], i)] \ {x}
        BY <1>13, <1>14, <2>3, <3>2, <3>5, Constants
      <4>3. Content(zero[n], elems[n], D) = Content(zero[n], elems[n], C) \ {x}
        BY <3>1, <4>1, <4>2, ContentMinus
      <4> QED
        BY <1>10, <1>14, <2>1, <2>3, <3>1, <3>4, <3>5, <4>3
    <3>6. CASE n \notin Q
      <4>1. CASE x \in KeysIn(elems[n])
        <5>1. Content(zero[n], elems[n], D) = Content(zero[n], elems[n], C)
          BY <3>1, <3>3, <4>1, KeyGone
        <5> QED
          BY <1>10, <1>14, <2>1, <2>3, <3>1, <3>4, <3>6, <5>1
      <4>2. CASE \A i \in Slots(elems[n]) : Child(n, i) \notin Q
        <5>1. \A i \in Slots(elems[n]) :
                D[Sub(zero[n], elems[n], i)] = C[Sub(zero[n], elems[n], i)]
          BY <1>14, <3>2, <4>2
        <5>2. Content(zero[n], elems[n], D) = Content(zero[n], elems[n], C)
          BY <3>1, <5>1, ContentSame
        <5> QED
          BY <1>10, <1>14, <2>1, <2>3, <3>1, <3>4, <3>6, <5>2
      <4> QED
        BY <1>13, <3>6, <4>1, <4>2
    <3> QED
      BY <3>5, <3>6
  <2> QED
    BY <2>2, <2>3
<1>16. Tree(D, H)'
  <2>1. \A n : Rising(n, D)' = {}
    BY <1>3 DEF Rising
  <2>2. \A n \in live : D[n] \subseteq D[root]
    <3> SUFFICES ASSUME NEW n \in live PROVE D[n] \subseteq D[root]
      OBVIOUS
    <3>1. C[n] \subseteq C[root] /\ n \in Link /\ root \in Link
      BY <1>1, <1>4, Constants DEF Tree, Rising, Types
    <3>2. D[n] \subseteq C[n]
      BY <1>14, <3>1
    <3>3. CASE root \notin Q
      BY <1>14, <3>1, <3>2, <3>3
    <3>4. CASE root \in Q
      BY <1>13, <1>14, <3>1, <3>4
    <3> QED
      BY <3>3, <3>4
  <2>3. \A n \in Nodes \ live : zero[n] = None /\ elems'[n] = <<>>
    BY <1>4, <1>5, <1>10 DEF Tree
  <2>4. H[None] = -1 /\ \A n \in Nodes : H[n] \in 0 .. H[root]
    BY <1>4 DEF Tree
  <2> QED
    <3>1. \A n \in Nodes : /\ Good(zero[n], elems'[n], H[n] - 1, D, H)
                           /\ D[n] = Content(zero[n], elems'[n], D) \cup Rising(n, D)'
      BY <1>15, <2>1
    <3>2. \A n \in live : D[n] \subseteq D[root] \cup Rising(None, D)'
      BY <2>2
    <3>3. H \in [Link -> Int] /\ D \in [Link -> SUBSET Keys] /\ D[None] = {}
      BY <1>6, <1>14
    <3> QED
      BY <1>2, <2>3, <2>4, <3>1, <3>2, <3>3 DEF Tree
<1>17. Types'
  <2>1. CASE pc' = "idle"
    BY <1>2, <1>3, <1>4, <1>10, <2>1 DEF Types
  <2>2. CASE pc' = "repair"
    BY <1>1, <1>2, <1>3, <1>4, <1>5, <1>10, <2>2 DEF Types
  <2> QED
    BY <1>3, <2>1, <2>2
<1>18. Links'
  <2>1. \A n \in live : n \in Nodes
    BY <1>4 DEF Types
  <2>2. ASSUME NEW n \in live, NEW i \in Slots(elems'[n]), Child(n, i)' # None
        PROVE  n # cur /\ Child(n, i)' = Child(n, i) /\ i \in Slots(elems[n])
    <3>1. n # cur
      BY <1>2, <1>10, <1>12, <2>2 DEF Child, Sub
    <3> QED
      BY <1>2, <1>10, <2>1, <3>1 DEF Child
  <2>3. ASSUME NEW n \in live \ {root}
        PROVE  parent[n] \in live /\ \E i \in Slots(elems'[parent[n]]) : Child(parent[n], i)' = n
    <3>1. /\ parent[n] \in live /\ ~IsLeaf(parent[n])
          /\ \E i \in Slots(elems[parent[n]]) : Child(parent[n], i) = n
      BY <1>1, <1>4, AboveIs
    <3>2. elems'[parent[n]] = elems[parent[n]]
      BY <1>1, <1>10, <2>1, <3>1
    <3>3. \A i : (Child(parent[n], i))' = IF i = 0 THEN zero[parent[n]] ELSE elems'[parent[n]][i].sub
      BY <1>2 DEF Child
    <3>4. \A i : Child(parent[n], i)' = Child(parent[n], i)
      BY <3>2, <3>3 DEF Child
    <3> QED
      BY <3>1, <3>2, <3>4
  <2> QED
    BY <1>2, <1>4, <2>2, <2>3 DEF Links
<1>19. KeyOnce'
  <2> SUFFICES ASSUME NEW m \in live, NEW n \in live, m # n,
                      NEW k \in KeysIn(elems'[m]) \cap KeysIn(elems'[n])
               PROVE  FALSE
    BY <1>2, <1>3 DEF KeyOnce
  <2>1. m \in Nodes /\ n \in Nodes /\ KeysIn(elems'[m]) \subseteq KeysIn(elems[m])
        /\ KeysIn(elems'[n]) \subseteq KeysIn(elems[n])
    BY <1>4, <1>9, <1>10 DEF Types
  <2>2. Twice(k) /\ (IsLeaf(m) <=> ~IsLeaf(n))
    BY <1>4, <2>1 DEF KeyOnce
  <2>3. k = x /\ m # cur /\ n # cur
    BY <1>9, <1>10, <2>2 DEF Twice
  <2>4. (IsLeaf(m) <=> ~IsLeaf(cur)) /\ (IsLeaf(n) <=> ~IsLeaf(cur))
    BY <1>4, <1>5, <2>1, <2>3 DEF KeyOnce
  <2> QED
    BY <2>2, <2>4
<1>20. Fill'
  <2>1. \A n \in Nodes : Len(elems'[n]) <= Size - 2
    <3> SUFFICES ASSUME NEW n \in Nodes PROVE Len(elems'[n]) <= Size - 2
      OBVIOUS
    <3>1. Len(elems[n]) <= Size - 2 /\ Len(elems[n]) \in Nat /\ Size \in Int
      BY <1>4, Constants, SeqLen DEF Fill, Types
    <3>2. CASE n = cur
      BY <1>8, <1>10, <3>1, <3>2
    <3>3. CASE n # cur
      BY <1>10, <3>1, <3>3
    <3> QED
      BY <3>2, <3>3
  <2>2. ASSUME NEW n \in live \ {root}
        PROVE  Len(elems'[n]) >= MinKeys \/ (pc' = "repair" /\ n = cur')
    <3>1. n \in Nodes /\ Len(elems[n]) >= MinKeys /\ MinKeys \in Int
      BY <1>1, <1>4, Constants DEF Fill, Types
    <3>2. CASE n = cur
      <4>1. CASE pc' = "repair"
        BY <1>3, <3>2, <4>1
      <4>2. CASE pc' = "idle"
        BY <1>3, <1>8, <1>10, <3>1, <3>2, <4>2
      <4> QED
        BY <1>3, <4>1, <4>2
    <3>3. CASE n # cur
      BY <1>10, <3>1, <3>3
    <3> QED
      BY <3>2, <3>3
  <2>3. (IsLeaf(root) \/ elems[root] # <<>>)'
    BY <1>1, <1>2, <1>4, <1>10 DEF Fill, Types, IsLeaf
  <2> QED
    BY <1>2, <2>1, <2>2, <2>3 DEF Fill
<1>21. Searching(D, H)' /\ Inserting(D, H)'
  BY <1>3 DEF Searching, Inserting
<1>22. Repair'
  <2> SUFFICES ASSUME pc' = "repair" PROVE Repair'
    BY DEF Repair
  <2>1. cur # root => Len(s) = MinKeys
    <3>1. cur # root => Len(s) >= MinKeys /\ MinKeys \in Int
      BY <1>1, <1>4, <1>5, Constants DEF Fill
    <3> QED
      BY <1>3, <1>6, <3>1
  <2>2. cur # root => Len(t) = MinKeys - 1
    BY <1>8, <2>1
  <2> QED
    BY <1>1, <1>2, <1>3, <1>10, <2>2 DEF Repair, IsLeaf
<1>23. IF key = want THEN KeyDeleted ELSE Unseen
  <2>1. pc # "insert" /\ pc' # "insert" /\ ret' = <<call, want, TRUE>>
    BY <1>1, <1>3 DEF Return, Result
  <2>2. elems[cur] = s /\ elems'[cur] = t /\ \A n \in live : n # cur => elems'[n] = elems[n]
    BY <1>4, <1>10 DEF Types
  <2>3. CASE key = want
    <3>1. \A n \in live : n # cur => x \notin KeysIn(elems[n])
      <4>1. Once
        BY <2>3, OnceIs
      <4> QED
        BY <1>5, <4>1, <2>2 DEF Once
    <3>2. x \in KeysIn(elems[cur]) /\ x \notin KeysIn(elems'[cur])
      BY <1>5, <1>9, <2>2
    <3>3. \A y \in KeysIn(elems[cur]) : y = x \/ y \in KeysIn(elems'[cur])
      BY <1>9, <2>2
    <3>4. \A y \in KeysIn(elems'[cur]) : \E n \in live : y \in KeysIn(elems[n])
      BY <1>5, <1>9, <2>2
    <3>5. x \in AllKeys /\ AllKeys' = AllKeys \ {x}
      BY <1>2, <1>5, <2>1, <2>2, <3>1, <3>2, <3>3, <3>4, KeyTaken
    <3> QED
      BY <1>1, <2>1, <2>3, <3>5 DEF KeyDeleted
  <2>4. CASE key # want
    <3>1. ret = <<call, want, TRUE>> /\ \E top \in live : H[top] > H[cur] /\ key \in KeysIn(elems[top])
      BY <1>1, <2>4 DEF Inv, Searching
    <3>2. PICK top \in live : H[top] > H[cur] /\ key \in KeysIn(elems[top])
      BY <3>1
    <3>3. top # cur
      <4> SUFFICES ASSUME top = cur PROVE FALSE
        OBVIOUS
      <4> QED
        BY <1>6, <3>2
    <3>4. x \in KeysIn(elems'[top])
      BY <2>2, <3>2, <3>3
    <3>5. PICK S, K : S = {cur} /\ K = KeysIn(s)
      OBVIOUS
    <3>6. \A y \in K : \E n \in live : y \in KeysIn(elems'[n])
      <4> SUFFICES ASSUME NEW y \in K PROVE \E n \in live : y \in KeysIn(elems'[n])
        OBVIOUS
      <4>1. CASE y = x
        BY <3>4, <4>1
      <4>2. CASE y # x
        BY <1>5, <1>9, <2>2, <3>5, <4>2
      <4> QED
        BY <4>1, <4>2
    <3>7. KeysIn(elems[cur]) = K /\ KeysIn(elems'[cur]) \subseteq K
      BY <1>9, <2>2, <3>5
    <3>8. Moves(S, K)
      BY <1>2, <1>5, <2>1, <2>2, <3>5, <3>6, <3>7 DEF Moves
    <3>9. AllKeys' = AllKeys
      BY <3>8, KeysMoved
    <3> QED
      BY <2>1, <2>4, <3>1, <3>9 DEF Unseen
  <2> QED
    BY <2>3, <2>4
<1> QED
  BY <1>16, <1>17, <1>18, <1>19, <1>20, <1>21, <1>22, <1>23 DEF IInv, Inv

\* What smallest_key_in_subtree ends at: a key of a leaf below n.
Least(n, k, C) ==
  /\ k \in C[n]
  /\ \A j \in C[n] : k <= j
  /\ \E m \in live : IsLeaf(m) /\ k \in KeysIn(elems[m])

LEMMA SmallestDef ==
  ASSUME NEW C, NEW H, Inv(C, H)
  PROVE  \E f : /\ \A n : Smallest(n) = f[n]
                /\ \A m \in Nodes : f[m] = IF IsLeaf(m) THEN elems[m][1].key ELSE f[zero[m]]
<1> DEFINE V == {elems[m][1].key : m \in Nodes}
           F == [x \in [Nodes -> V] \X Nodes |->
                   IF IsLeaf(x[2]) THEN elems[x[2]][1].key ELSE x[1][zero[x[2]]]]
           R == [m \in Nodes |-> H[m]]
           f == CHOOSE f : f = [m \in Nodes |-> IF IsLeaf(m) THEN elems[m][1].key ELSE f[zero[m]]]
<1>1. ASSUME NEW m \in Nodes
      PROVE  /\ R[m] = H[m] /\ H[m] \in 0 .. H[root] /\ H[root] \in Nat
             /\ ~IsLeaf(m) => zero[m] \in Nodes /\ H[zero[m]] < H[m]
  <2>1. Types /\ Tree(C, H)
    BY DEF Inv
  <2>2. H[m] \in Nat /\ H[root] \in Nat /\ H[m] <= H[root] /\ 0 \in Slots(elems[m])
    BY <2>1, NodeIs DEF Slots
  <2>3. Child(m, 0) = zero[m]
    BY DEF Child
  <2>4. H[zero[m]] = H[m] - 1 /\ (~IsLeaf(m) => zero[m] \in Nodes)
    BY <2>1, <2>2, <2>3, SlotIs
  <2> QED
    BY <2>2, <2>4
<1>2. Nodes # {} /\ V # {}
  BY BTreeAssumption
<1>3. R \in [Nodes -> 0 .. H[root]] /\ H[root] \in Nat
  BY <1>1, <1>2
<1>4. ASSUME NEW g \in [Nodes -> V], NEW m \in Nodes
      PROVE  /\ F[<<g, m>>] = IF IsLeaf(m) THEN elems[m][1].key ELSE g[zero[m]]
             /\ F[<<g, m>>] \in V
  <2>1. F[<<g, m>>] = IF IsLeaf(m) THEN elems[m][1].key ELSE g[zero[m]]
    OBVIOUS
  <2>2. elems[m][1].key \in V
    OBVIOUS
  <2> HIDE DEF F, V
  <2>3. ~IsLeaf(m) => g[zero[m]] \in V
    BY <1>1
  <2> QED
    BY <2>1, <2>2, <2>3
<1>5. F = [x \in [Nodes -> V] \X Nodes |-> F[x]]
  OBVIOUS
<1> HIDE DEF F, V, R
<1>6. F \in [[Nodes -> V] \X Nodes -> V]
  <2>1. \A x \in [Nodes -> V] \X Nodes : F[x] \in V
    BY <1>4
  <2> QED
    BY <1>5, <2>1
<1>7. Ranked(Nodes, V, H[root], R, F)
  <2> SUFFICES ASSUME NEW g \in [Nodes -> V], NEW h \in [Nodes -> V], NEW m \in Nodes,
                      \A y \in Nodes : R[y] < R[m] => g[y] = h[y]
               PROVE  F[<<g, m>>] = F[<<h, m>>]
    BY <1>2, <1>3, <1>6 DEF Ranked
  <2>1. ~IsLeaf(m) => g[zero[m]] = h[zero[m]]
    BY <1>1
  <2> QED
    BY <1>4, <2>1
<1>8. PICK g \in [Nodes -> V] : g = [m \in Nodes |-> F[<<g, m>>]]
  BY <1>7, Recursion
<1>9. g = [m \in Nodes |-> IF IsLeaf(m) THEN elems[m][1].key ELSE g[zero[m]]]
  BY <1>4, <1>8
<1>10. f = [m \in Nodes |-> IF IsLeaf(m) THEN elems[m][1].key ELSE f[zero[m]]]
  BY <1>9
<1>11. \A n : Smallest(n) = f[n]
  BY DEF Smallest
<1> HIDE DEF f
<1> QED
  BY <1>10, <1>11

LEMMA SmallestIs ==
  ASSUME NEW C, NEW H, Inv(C, H), pc = "search", NEW n \in live \ {root}
  PROVE  Least(n, Smallest(n), C)
<1>1. PICK f : /\ \A m : Smallest(m) = f[m]
               /\ \A m \in Nodes : f[m] = IF IsLeaf(m) THEN elems[m][1].key ELSE f[zero[m]]
  BY SmallestDef
<1>2. Types /\ Links /\ Tree(C, H) /\ Fill
  BY DEF Inv
<1>3. ASSUME NEW m \in live \ {root}
      PROVE  /\ m \in Nodes /\ H[m] \in Nat /\ elems[m] \in Seq(Elems) /\ Sorted(elems[m])
             /\ 1 \in 1 .. Len(elems[m]) /\ Len(elems[m]) \in Nat
             /\ C[m] = Content(zero[m], elems[m], C) /\ C[m] \in SUBSET Keys
             /\ \A j \in 1 .. Len(elems[m]) :
                  elems[m][j].key \in Int /\ elems[m][1].key <= elems[m][j].key
  <2>1. m \in Nodes /\ Len(elems[m]) >= MinKeys
    BY <1>2 DEF Types, Fill
  <2>2. /\ H[m] \in Nat /\ elems[m] \in Seq(Elems) /\ Sorted(elems[m]) /\ Len(elems[m]) \in Nat
        /\ C[m] = Content(zero[m], elems[m], C) \cup Rising(m, C) /\ C[m] \in SUBSET Keys
    BY <1>2, <2>1, NodeIs
  <2>3. Rising(m, C) = {}
    BY DEF Rising
  <2>4. 1 \in 1 .. Len(elems[m])
    BY <2>1, <2>2, Constants
  <2>5. ASSUME NEW j \in 1 .. Len(elems[m])
        PROVE  elems[m][j].key \in Int /\ elems[m][1].key <= elems[m][j].key
    <3>1. elems[m][j].key \in Int /\ elems[m][1].key \in Int
      BY <2>2, <2>4, ElemIs
    <3>2. 1 < j => elems[m][1].key < elems[m][j].key
      BY <2>2, <2>4 DEF Sorted
    <3>3. j \in Int /\ (j = 1 \/ 1 < j)
      BY <2>2
    <3> QED
      BY <3>1, <3>2, <3>3
  <2> QED
    BY <2>1, <2>2, <2>3, <2>4, <2>5
<1>4. ASSUME NEW m \in live \ {root}, IsLeaf(m) PROVE Least(m, f[m], C)
  <2>1. f[m] = elems[m][1].key
    BY <1>1, <1>3, <1>4
  <2>2. \A i \in Slots(elems[m]) : C[Sub(zero[m], elems[m], i)] = {}
    <3> SUFFICES ASSUME NEW i \in Slots(elems[m]) PROVE C[Sub(zero[m], elems[m], i)] = {}
      OBVIOUS
    <3>1. C[None] = {} /\ m \in Nodes
      BY <1>2, <1>3 DEF Tree
    <3>2. Child(m, i) = None /\ Child(m, i) = Sub(zero[m], elems[m], i)
      BY <1>2, <1>4, <3>1, SlotIs
    <3> QED
      BY <3>1, <3>2
  <2>3. C[m] = KeysIn(elems[m])
    <3>1. Content(zero[m], elems[m], C) = KeysIn(elems[m])
      BY <2>2 DEF Content
    <3> QED
      BY <1>3, <3>1
  <2>4. f[m] \in KeysIn(elems[m])
    BY <1>3, <2>1 DEF KeysIn
  <2>5. \A k \in KeysIn(elems[m]) : f[m] <= k
    BY <1>3, <2>1 DEF KeysIn
  <2> QED
    BY <1>4, <2>3, <2>4, <2>5 DEF Least
<1>5. ASSUME NEW m \in live \ {root}, ~IsLeaf(m)
      PROVE  /\ zero[m] \in live \ {root} /\ H[zero[m]] = H[m] - 1
             /\ Least(zero[m], f[zero[m]], C) => Least(m, f[m], C)
  <2>1. 0 \in Slots(elems[m]) /\ Child(m, 0) = zero[m] /\ m \in Nodes
    BY <1>3 DEF Slots, Child
  <2>2. /\ zero[m] # None /\ C[zero[m]] \subseteq C[m]
        /\ \A k \in C[zero[m]] : InGap(elems[m], 0, k)
    BY <1>2, <1>5, <2>1, SlotIs
  <2>3. zero[m] \in live \ {root} /\ H[zero[m]] = H[m] - 1
    BY <1>2, <2>1, <2>2, KidIs
  <2> SUFFICES ASSUME Least(zero[m], f[zero[m]], C) PROVE Least(m, f[m], C)
    BY <2>3
  <2> PICK k : k = f[m]
    OBVIOUS
  <2>4. k = f[zero[m]]
    BY <1>1, <1>5, <2>1
  <2>5. /\ k \in C[zero[m]] /\ \A j \in C[zero[m]] : k <= j
        /\ \E l \in live : IsLeaf(l) /\ k \in KeysIn(elems[l])
    BY <2>4 DEF Least
  <2>6. k \in C[m] /\ k \in Int
    BY <1>3, <2>2, <2>5, Constants
  <2>7. k < elems[m][1].key
    BY <1>3, <2>2, <2>5 DEF InGap
  <2>8. ASSUME NEW j \in C[m] PROVE k <= j
    <3>1. j \in Int
      BY <1>3, Constants
    <3>2. CASE j \in KeysIn(elems[m])
      <4>1. PICK i \in 1 .. Len(elems[m]) : elems[m][i].key = j
        BY <3>2 DEF KeysIn
      <4>2. elems[m][1].key <= j /\ elems[m][1].key \in Int
        BY <1>3, <4>1
      <4> QED
        BY <2>6, <2>7, <3>1, <4>2
    <3>3. CASE j \notin KeysIn(elems[m])
      <4>1. PICK i \in Slots(elems[m]) : j \in C[Sub(zero[m], elems[m], i)]
        BY <1>3, <2>8, <3>3 DEF Content
      <4>2. CASE i = 0
        BY <2>5, <4>1, <4>2 DEF Sub
      <4>3. CASE i # 0
        <5>1. i \in 1 .. Len(elems[m]) /\ i > 0
          BY <1>3, <4>3 DEF Slots
        <5>2. InGap(elems[m], i, j)
          BY <1>2, <2>1, <4>1, SlotIs
        <5>3. elems[m][i].key <= j /\ elems[m][i].key \in Int /\ elems[m][1].key \in Int
              /\ elems[m][1].key <= elems[m][i].key
          BY <1>3, <5>1, <5>2 DEF InGap
        <5> QED
          BY <2>6, <2>7, <3>1, <5>3
      <4> QED
        BY <4>2, <4>3
    <3> QED
      BY <3>2, <3>3
  <2> QED
    BY <2>5, <2>6, <2>8 DEF Least
<1> DEFINE S == {k \in Nat : \A m \in live \ {root} : H[m] <= k => Least(m, f[m], C)}
<1>6. 0 \in S
  <2> SUFFICES ASSUME NEW m \in live \ {root}, H[m] <= 0 PROVE Least(m, f[m], C)
    OBVIOUS
  <2>1. H[m] = 0 /\ m \in Nodes
    BY <1>3
  <2>2. IsLeaf(m)
    BY <1>2, <2>1, NodeIs
  <2> QED
    BY <1>4, <2>2
<1>7. ASSUME NEW k \in S PROVE k + 1 \in S
  <2>1. k \in Nat /\ \A m \in live \ {root} : H[m] <= k => Least(m, f[m], C)
    OBVIOUS
  <2> SUFFICES ASSUME NEW m \in live \ {root}, H[m] <= k + 1 PROVE Least(m, f[m], C)
    BY <2>1
  <2>2. CASE IsLeaf(m)
    BY <1>4, <2>2
  <2>3. CASE ~IsLeaf(m)
    <3>1. zero[m] \in live \ {root} /\ H[zero[m]] = H[m] - 1 /\ H[m] \in Nat
      BY <1>3, <1>5, <2>3
    <3>2. H[zero[m]] <= k
      BY <2>1, <3>1
    <3> QED
      BY <1>5, <2>1, <2>3, <3>1, <3>2
  <2> QED
    BY <2>2, <2>3
<1>8. S = Nat
  <2> HIDE DEF S
  <2>1. S \in SUBSET Nat
    BY DEF S
  <2> QED
    BY <1>6, <1>7, <2>1, NatSet
<1>9. H[n] \in S /\ H[n] <= H[n]
  BY <1>3, <1>8
<1>10. Least(n, f[n], C)
  <2>1. \A k \in S : \A m \in live \ {root} : H[m] <= k => Least(m, f[m], C)
    OBVIOUS
  <2> HIDE DEF S
  <2> QED
    BY <1>9, <2>1
<1> QED
  BY <1>1, <1>10

LEMMA InnerDeleted ==
  ASSUME NEW C, NEW H, Inv(C, H), DeleteFromInner
  PROVE  IInv' /\ KeyDeleted
<1>1. /\ pc = "search" /\ call = "delete" /\ Hit(cur, key) /\ ~IsLeaf(cur)
      /\ LET n == elems[cur][Gap(cur, key)].sub
         IN  /\ elems' = [elems EXCEPT ![cur] = [elems[cur] EXCEPT ![Gap(cur, key)] =
                                         [elems[cur][Gap(cur, key)] EXCEPT !.key = Smallest(n)]]]
             /\ key' = Smallest(n)
             /\ cur' = n
      /\ ret' = <<call, want, TRUE>>
      /\ UNCHANGED <<root, live, zero, parent, pc, call, want, carry, script, calls>>
  BY DEF DeleteFromInner, Result
<1>2. /\ root' = root /\ live' = live /\ zero' = zero /\ parent' = parent
      /\ pc' = pc /\ call' = call /\ want' = want /\ carry' = carry
      /\ script' = script /\ calls' = calls
  BY <1>1
<1>3. /\ Types /\ Links /\ KeyOnce /\ Fill /\ Tree(C, H)
  BY DEF Inv
<1>4. key = want /\ Once
  BY <1>1, InnerHit, OnceIs
<1> PICK x, c, g, s, z, n : /\ x = key /\ c = cur /\ g = Gap(cur, key) /\ s = elems[cur]
                            /\ z = zero[cur] /\ n = elems[cur][Gap(cur, key)].sub
  OBVIOUS
<1>5. /\ c \in live /\ c \in Nodes /\ x \in Keys /\ x \in Int /\ x \in KeysIn(s)
      /\ g \in 1 .. Len(s) /\ s[g].key = x /\ g \in Slots(s) /\ n = s[g].sub
  BY <1>1, AtNode
<1>6. /\ s \in Seq(Elems) /\ z \in Link /\ Len(s) \in Nat /\ Sorted(s) /\ C[c] \in SUBSET Keys
      /\ C \in [Link -> SUBSET Keys] /\ H \in [Link -> Int] /\ H[c] \in Nat
      /\ Good(z, s, H[c] - 1, C, H) /\ C[c] = Content(z, s, C) \cup Rising(c, C)
  BY <1>3, <1>5, NodeIs
<1>7. n = Child(c, g) /\ n = Sub(z, s, g)
  <2>1. g # 0
    BY <1>5, <1>6
  <2> QED
    BY <1>5, <2>1 DEF Child, Sub
<1>8. n # None /\ C[n] \in SUBSET Keys /\ \A k \in C[n] : InGap(s, g, k)
  BY <1>1, <1>3, <1>5, <1>7, SlotIs
<1>9. /\ n \in live \ {root, c} /\ n \in Nodes /\ parent[n] = c
      /\ H[n] \in Nat /\ H[n] = H[c] - 1
      /\ \A m \in live : \A j \in Slots(elems[m]) : Child(m, j) = n => m = c /\ j = g
  <2>1. g \in Slots(elems[c]) /\ Child(c, g) # None
    BY <1>5, <1>7, <1>8
  <2>2. /\ Child(c, g) \in live \ {root, c} /\ Child(c, g) \in Nodes /\ parent[Child(c, g)] = c
        /\ H[Child(c, g)] \in Nat /\ H[Child(c, g)] = H[c] - 1
        /\ \A m \in live : \A j \in Slots(elems[m]) : Child(m, j) = Child(c, g) => m = c /\ j = g
    BY <1>3, <1>5, <2>1, KidIs
  <2> QED
    BY <1>7, <2>2
<1> PICK k : k = Smallest(n)
  OBVIOUS
<1>10. Least(n, k, C)
  BY <1>1, <1>9, SmallestIs
<1>11. PICK l \in live : IsLeaf(l) /\ k \in KeysIn(elems[l])
  BY <1>10 DEF Least
<1>12. k \in C[n] /\ k \in Keys /\ k \in Int /\ \A j \in C[n] : k <= j
  BY <1>8, <1>10, Constants DEF Least
<1>13. k # x /\ l # c
  <2>1. l # c
    BY <1>1, <1>11
  <2> QED
    BY <1>4, <1>5, <1>11, <2>1 DEF Once
<1>14. x < k /\ (g < Len(s) => k < s[g + 1].key)
  <2>1. InGap(s, g, k) /\ g > 0
    BY <1>5, <1>6, <1>8, <1>12
  <2> QED
    BY <1>5, <1>12, <1>13, <2>1 DEF InGap
<1> PICK t : t = [s EXCEPT ![g] = [s[g] EXCEPT !.key = k]]
  OBVIOUS
<1>15. /\ t \in Seq(Elems) /\ Len(t) = Len(s) /\ \A j \in 1 .. Len(s) : j # g => t[j] = s[j]
       /\ t[g].key = k /\ t[g].sub = s[g].sub
  <2>1. s[g] \in Elems
    BY <1>5, <1>6, ElemIs
  <2>2. [s[g] EXCEPT !.key = k] \in Elems /\ [s[g] EXCEPT !.key = k].key = k
        /\ [s[g] EXCEPT !.key = k].sub = s[g].sub
    BY <1>12, <2>1 DEF Elems
  <2> QED
    BY <1>5, <1>6, <2>2
<1>16. /\ elems' \in [Nodes -> Seq(Elems)] /\ elems'[c] = t
       /\ \A m \in Nodes \ {c} : elems'[m] = elems[m]
       /\ key' = k /\ cur' = n
  BY <1>1, <1>3, <1>5, <1>15 DEF Types
<1> DEFINE E == [m \in Link |-> C[m] \ {x}]
<1>17. /\ E \in [Link -> SUBSET Keys] /\ E[None] = {}
       /\ \A m \in Link : E[m] = C[m] \ {x}
  <2>1. C[None] = {} /\ None \in Link
    BY <1>3, Constants DEF Tree
  <2> QED
    BY <1>6, <2>1
<1> PICK D : D = E
  OBVIOUS
<1> HIDE DEF E
<1>18. \A i \in Slots(s) : /\ D[Sub(z, s, i)] = C[Sub(z, s, i)] \ {x}
                           /\ C[Sub(z, s, i)] \in SUBSET Keys
                           /\ \A y \in C[Sub(z, s, i)] : InGap(s, i, y)
  <2> SUFFICES ASSUME NEW i \in Slots(s)
               PROVE  /\ D[Sub(z, s, i)] = C[Sub(z, s, i)] \ {x}
                      /\ C[Sub(z, s, i)] \in SUBSET Keys
                      /\ \A y \in C[Sub(z, s, i)] : InGap(s, i, y)
    OBVIOUS
  <2>1. Sub(z, s, i) \in Link
    BY <1>6, SubIs
  <2> QED
    BY <1>6, <1>17, <2>1 DEF Good
<1>19. Good(z, t, H[c] - 1, D, H) /\ (\A j \in Slots(s) : Sub(z, t, j) = Sub(z, s, j))
       /\ KeysIn(t) = (KeysIn(s) \ {s[g].key}) \cup {k}
  <2>1. g > 1 => s[g - 1].key < k
    <3> SUFFICES ASSUME g > 1 PROVE s[g - 1].key < k
      OBVIOUS
    <3>1. g - 1 \in 1 .. Len(s) /\ g - 1 < g
      BY <1>5, <1>6
    <3>2. s[g - 1].key < s[g].key /\ s[g - 1].key \in Int
      BY <1>5, <1>6, <3>1, ElemIs DEF Sorted
    <3> QED
      BY <1>5, <1>12, <1>14, <3>2
  <2>2. \A j \in Slots(s) \ {g - 1, g} : D[Sub(z, s, j)] \subseteq C[Sub(z, s, j)]
    BY <1>18
  <2>3. \A y \in D[Sub(z, s, g - 1)] : y < k /\ (g > 1 => s[g - 1].key <= y)
    <3> SUFFICES ASSUME NEW y \in D[Sub(z, s, g - 1)] PROVE y < k /\ (g > 1 => s[g - 1].key <= y)
      OBVIOUS
    <3> DEFINE i == g - 1
    <3>1. i \in Slots(s) /\ i + 1 = g /\ i < Len(s) /\ (g > 1 => i > 0)
      BY <1>5, <1>6 DEF Slots
    <3> HIDE DEF i
    <3>2. y \in C[Sub(z, s, i)]
      BY <1>18, <3>1 DEF i
    <3>3. InGap(s, i, y) /\ y \in Int
      BY <1>18, <3>1, <3>2, Constants
    <3>4. y < s[g].key /\ (g > 1 => s[i].key <= y)
      BY <3>1, <3>3 DEF InGap
    <3> QED
      BY <1>5, <1>12, <1>14, <3>3, <3>4 DEF i
  <2>4. \A y \in D[Sub(z, s, g)] : k <= y /\ (g < Len(s) => y < s[g + 1].key)
    BY <1>5, <1>7, <1>12, <1>18 DEF InGap
  <2>5. D \in [Link -> SUBSET Keys]
    BY <1>17
  <2> QED
    <3> DEFINE h == H[c] - 1
    <3>1. Exchanged(z, s, t, h, C, D, H, g, k)
      BY <1>5, <1>6, <1>12, <1>14, <1>15, <2>1, <2>2, <2>3, <2>4, <2>5 DEF Exchanged
    <3> HIDE DEF h
    <3>2. Good(z, t, h, D, H) /\ (\A j \in Slots(s) : Sub(z, t, j) = Sub(z, s, j))
          /\ KeysIn(t) = (KeysIn(s) \ {s[g].key}) \cup {k}
      BY <3>1, KeyGood
    <3> QED
      BY <3>2 DEF h
<1>20. Content(z, t, D) = Content(z, s, C) \ {x}
  <2>1. Slots(t) = Slots(s)
    BY <1>15 DEF Slots
  <2>2. k \in D[Sub(z, s, g)]
    BY <1>5, <1>7, <1>12, <1>13, <1>18
  <2>3. Content(z, t, D) \subseteq Content(z, s, C) \ {x}
    <3>1. KeysIn(t) \subseteq Content(z, s, C) \ {x}
      <4>1. k \in Content(z, s, C)
        BY <1>5, <1>7, <1>12 DEF Content
      <4>2. KeysIn(t) = (KeysIn(s) \ {x}) \cup {k}
        BY <1>5, <1>19
      <4> QED
        BY <1>13, <4>1, <4>2 DEF Content
    <3>2. \A i \in Slots(t) : D[Sub(z, t, i)] \subseteq Content(z, s, C) \ {x}
      BY <1>18, <1>19, <2>1 DEF Content
    <3> QED
      BY <3>1, <3>2 DEF Content
  <2>4. ASSUME NEW y \in Content(z, s, C), y # x PROVE y \in Content(z, t, D)
    <3>1. CASE y \in KeysIn(s)
      BY <1>5, <1>19, <2>4, <3>1 DEF Content
    <3>2. CASE y \notin KeysIn(s)
      <4>1. PICK i \in Slots(s) : y \in C[Sub(z, s, i)]
        BY <2>4, <3>2 DEF Content
      <4>2. y \in D[Sub(z, t, i)] /\ i \in Slots(t)
        BY <1>18, <1>19, <2>1, <2>4, <4>1
      <4> QED
        BY <4>2 DEF Content
    <3> QED
      BY <3>1, <3>2
  <2> QED
    BY <2>3, <2>4
<1>21. ASSUME NEW m \in Nodes
       PROVE  Good(zero[m], elems'[m], H[m] - 1, D, H) /\ D[m] = Content(zero[m], elems'[m], D)
  <2>1. \A y : Rising(y, C) = {}
    BY <1>1 DEF Rising
  <2>2. D[m] = C[m] \ {x}
    BY <1>17, Constants
  <2>3. CASE m = c
    BY <1>6, <1>16, <1>19, <1>20, <2>1, <2>2, <2>3
  <2>4. CASE m # c
    <3>1. /\ elems[m] \in Seq(Elems) /\ zero[m] \in Link
          /\ Good(zero[m], elems[m], H[m] - 1, C, H)
          /\ C[m] = Content(zero[m], elems[m], C)
      <4>1. /\ elems[m] \in Seq(Elems) /\ zero[m] \in Link
            /\ Good(zero[m], elems[m], H[m] - 1, C, H)
            /\ C[m] = Content(zero[m], elems[m], C) \cup Rising(m, C)
        BY <1>3, NodeIs
      <4> QED
        BY <2>1, <4>1
    <3>2. \A i \in Slots(elems[m]) :
            D[Sub(zero[m], elems[m], i)] = C[Sub(zero[m], elems[m], i)] \ {x}
      <4>1. \A i \in Slots(elems[m]) : Sub(zero[m], elems[m], i) \in Link
        BY <3>1, SubIs
      <4> QED
        BY <1>17, <4>1
    <3>3. Good(zero[m], elems[m], H[m] - 1, D, H)
      BY <3>1, <3>2 DEF Good
    <3>4. x \notin KeysIn(elems[m])
      <4>1. CASE m \in live
        BY <1>4, <1>5, <2>4, <4>1 DEF Once
      <4>2. CASE m \notin live
        <5>1. elems[m] = <<>>
          BY <1>3, <4>2 DEF Tree
        <5> QED
          BY <5>1 DEF KeysIn
      <4> QED
        BY <4>1, <4>2
    <3>5. Content(zero[m], elems[m], D) = Content(zero[m], elems[m], C) \ {x}
      BY <3>1, <3>2, <3>4, ContentMinus
    <3> QED
      BY <1>16, <2>2, <2>4, <3>1, <3>3, <3>5
  <2> QED
    BY <2>3, <2>4
<1>22. Tree(D, H)'
  <2>1. \A m : Rising(m, D)' = {}
    BY <1>1, <1>2 DEF Rising
  <2>2. \A m \in live : D[m] \subseteq D[root] \cup Rising(None, D)'
    <3> SUFFICES ASSUME NEW m \in live PROVE D[m] \subseteq D[root]
      OBVIOUS
    <3>1. C[m] \subseteq C[root] /\ m \in Link /\ root \in Link
      BY <1>1, <1>3, Constants DEF Tree, Rising, Types
    <3> QED
      BY <1>17, <3>1
  <2>3. \A m \in Nodes \ live : zero[m] = None /\ elems'[m] = <<>>
    BY <1>3, <1>5, <1>16 DEF Tree
  <2>4. H[None] = -1 /\ \A m \in Nodes : H[m] \in 0 .. H[root]
    BY <1>3 DEF Tree
  <2>5. \A m \in Nodes : /\ Good(zero[m], elems'[m], H[m] - 1, D, H)
                         /\ D[m] = Content(zero[m], elems'[m], D) \cup Rising(m, D)'
    BY <1>21, <2>1
  <2>6. H \in [Link -> Int] /\ D \in [Link -> SUBSET Keys] /\ D[None] = {}
    BY <1>6, <1>17
  <2> QED
    BY <1>2, <2>2, <2>3, <2>4, <2>5, <2>6 DEF Tree
<1>23. Types'
  BY <1>1, <1>2, <1>3, <1>5, <1>9, <1>12, <1>16 DEF Types
<1>24. \A m \in Nodes : Len(elems'[m]) = Len(elems[m]) /\ Slots(elems'[m]) = Slots(elems[m])
  BY <1>5, <1>15, <1>16 DEF Slots
<1>25. ASSUME NEW m \in Nodes, NEW i \in Slots(elems[m]) PROVE Child(m, i)' = Child(m, i)
  <2>1. CASE m = c
    <3>1. Child(c, i) = Sub(z, s, i)
      BY <1>5, ChildIs
    <3>2. Child(c, i)' = Sub(z, t, i)
      BY <1>2, <1>16 DEF Child, Sub
    <3>3. Sub(z, t, i) = Sub(z, s, i)
      BY <1>19, <2>1
    <3> QED
      BY <2>1, <3>1, <3>2, <3>3
  <2>2. CASE m # c
    BY <1>2, <1>16, <2>2 DEF Child
  <2> QED
    BY <2>1, <2>2
<1>26. Links'
  <2>1. \A m \in live : m \in Nodes
    BY <1>3 DEF Types
  <2>2. \A m \in live \ {root} : /\ parent[m] \in live
                                 /\ \E i \in Slots(elems[parent[m]]) : Child(parent[m], i) = m
    BY <1>1, <1>3 DEF Links
  <2>3. ASSUME NEW m \in live \ {root}
        PROVE  \E i \in Slots(elems'[parent[m]]) : Child(parent[m], i)' = m
    <3> PICK u : u = parent[m]
      OBVIOUS
    <3>1. u \in Nodes /\ \E i \in Slots(elems[u]) : Child(u, i) = m
      BY <2>1, <2>2
    <3>2. \E i \in Slots(elems'[u]) : Child(u, i)' = m
      BY <1>24, <1>25, <3>1
    <3>3. \A i : Child(parent[m], i)' = Child(u, i)'
      BY <1>2 DEF Child
    <3> QED
      BY <3>2, <3>3
  <2>4. \A m \in live : \A i \in Slots(elems'[m]) :
          Child(m, i)' # None => Child(m, i)' \in live /\ parent[Child(m, i)'] = m
    BY <1>3, <1>24, <1>25, <2>1 DEF Links
  <2>5. parent[root] = None
    BY <1>3 DEF Links
  <2> QED
    BY <1>2, <2>2, <2>3, <2>4, <2>5 DEF Links
<1>27. KeyOnce'
  <2> SUFFICES ASSUME NEW a \in live, NEW b \in live, a # b,
                      NEW y \in KeysIn(elems'[a]) \cap KeysIn(elems'[b])
               PROVE  y = k /\ (IsLeaf(a) <=> ~IsLeaf(b))
    <3>1. Twice(k)'
      BY <1>1, <1>2, <1>4, <1>13, <1>16 DEF Twice
    <3>2. \A m : IsLeaf(m)' <=> IsLeaf(m)
      BY <1>2 DEF IsLeaf
    <3> QED
      BY <1>1, <1>2, <3>1, <3>2 DEF KeyOnce
  <2>1. a \in Nodes /\ b \in Nodes
    BY <1>3 DEF Types
  <2>2. \A m \in live : m # c /\ k \in KeysIn(elems[m]) => m = l
    BY <1>4, <1>11 DEF Once
  <2>3. CASE a = c
    <3>1. y \in KeysIn(elems[b])
      BY <1>16, <2>1, <2>3
    <3>2. y = k
      BY <1>4, <1>5, <1>16, <1>19, <2>3, <3>1 DEF Once
    <3> QED
      BY <1>1, <1>11, <2>2, <2>3, <3>1, <3>2
  <2>4. CASE b = c
    <3>1. y \in KeysIn(elems[a])
      BY <1>16, <2>1, <2>4
    <3>2. y = k
      BY <1>4, <1>5, <1>16, <1>19, <2>4, <3>1 DEF Once
    <3> QED
      BY <1>1, <1>11, <2>2, <2>4, <3>1, <3>2
  <2>5. CASE a # c /\ b # c
    BY <1>4, <1>16, <2>1, <2>5 DEF Once
  <2> QED
    BY <2>3, <2>4, <2>5
<1>28. Fill'
  <2>1. \A m \in Nodes : elems'[m] = <<>> => elems[m] = <<>>
    BY <1>24, <1>5, <1>6, <1>15, <1>16
  <2>2. \A m \in live : m \in Nodes
    BY <1>3 DEF Types
  <2> QED
    BY <1>1, <1>2, <1>3, <1>24, <2>1, <2>2 DEF Fill, IsLeaf, Types
<1>29. Inserting(D, H)' /\ Repair'
  BY <1>1, <1>2 DEF Inserting, Repair
<1>30. Searching(D, H)'
  <2>1. Path({c, n}, c)'
    <3>1. {c, n} \subseteq live' /\ c \in {c, n} /\ cur' \in {c, n}
      BY <1>2, <1>5, <1>9, <1>16
    <3>2. \A m \in {c, n} \ {c} : parent'[m] \in {c, n}
      BY <1>2, <1>9
    <3>3. \A m \in {c, n} \ {cur'} : \E i \in Slots(elems'[m]) : Child(m, i)' \in {c, n}
      <4>1. g \in Slots(elems'[c]) /\ Child(c, g)' = n
        BY <1>5, <1>7, <1>24, <1>25
      <4> QED
        BY <1>16, <4>1
    <3>4. ASSUME NEW m \in {c, n}, NEW i \in Slots(elems'[m]), Child(m, i)' \in {c, n}
          PROVE  InGap(elems'[m], i, key')
      <4>1. m \in Nodes /\ m \in live /\ i \in Slots(elems[m]) /\ Child(m, i) = Child(m, i)'
        BY <1>5, <1>9, <1>24, <1>25, <3>4
      <4>2. H[Child(m, i)] = H[m] - 1
        BY <1>3, <4>1, SlotIs
      <4>3. m = c /\ Child(m, i) = n
        BY <1>6, <1>9, <3>4, <4>1, <4>2
      <4>4. i = g
        BY <1>5, <1>9, <4>1, <4>3
      <4>5. InGap(t, g, k)
        <5>1. g < Len(t) => g + 1 \in 1 .. Len(s) /\ g + 1 # g /\ g < Len(s)
          BY <1>5, <1>6, <1>15
        <5>2. k <= k
          BY <1>12
        <5> QED
          BY <1>14, <1>15, <5>1, <5>2 DEF InGap
      <4> QED
        BY <1>16, <4>3, <4>4, <4>5
    <3> QED
      BY <3>1, <3>2, <3>3, <3>4 DEF Path
  <2>2. \A m \in {c, n} : H[n] <= H[m] /\ H[m] <= H[c]
    BY <1>6, <1>9
  <2>3. H[c] > H[n]
    BY <1>6, <1>9
  <2>4. k \in KeysIn(elems'[c]) /\ k \in D[n]
    <3>1. n \in Link
      BY <1>9, Constants
    <3> QED
      BY <1>12, <1>13, <1>16, <1>17, <1>19, <3>1
  <2>5. {c, n} \in SUBSET Nodes /\ c \in live'
    BY <1>2, <1>5, <1>9
  <2>6. key' # want'
    BY <1>2, <1>4, <1>13, <1>16
  <2>7. call' = "delete" /\ ret' = <<call', want', TRUE>>
    BY <1>1, <1>2
  <2> QED
    BY <1>16, <2>1, <2>2, <2>3, <2>4, <2>5, <2>6, <2>7 DEF Searching
<1>31. KeyDeleted
  <2>1. elems[c] = s /\ elems'[c] = t /\ \A m \in live : m # c => elems'[m] = elems[m]
    BY <1>3, <1>16 DEF Types
  <2>2. KeysIn(t) = (KeysIn(s) \ {x}) \cup {k}
    BY <1>5, <1>19
  <2>3. \A m \in live : m # c => x \notin KeysIn(elems[m])
    BY <1>4, <1>5, <2>1 DEF Once
  <2>4. x \in KeysIn(elems[c]) /\ x \notin KeysIn(elems'[c])
    BY <1>5, <1>13, <2>1, <2>2
  <2>5. \A y \in KeysIn(elems[c]) : y = x \/ y \in KeysIn(elems'[c])
    BY <2>1, <2>2
  <2>6. ASSUME NEW y \in KeysIn(elems'[c]) PROVE \E m \in live : y \in KeysIn(elems[m])
    <3>1. y \in KeysIn(elems[c]) \/ y \in KeysIn(elems[l])
      BY <1>11, <2>1, <2>2, <2>6
    <3> QED
      BY <1>5, <3>1
  <2>7. pc # "insert" /\ pc' # "insert"
    BY <1>1, <1>2
  <2>8. x \in AllKeys /\ AllKeys' = AllKeys \ {x}
    BY <1>2, <1>5, <2>1, <2>3, <2>4, <2>5, <2>6, <2>7, KeyTaken
  <2> QED
    BY <1>1, <1>4, <2>8 DEF KeyDeleted
<1> QED
  BY <1>22, <1>23, <1>26, <1>27, <1>28, <1>29, <1>30, <1>31 DEF IInv, Inv

-----------------------------------------------------------------------------
(* Insertion.                                                               *)

LEMMA AdoptOne ==
  ASSUME NEW par \in [Nodes -> Link], NEW n, NEW e, e.sub # None => par[e.sub] = n
  PROVE  Adopt(par, n, None, <<e>>) = par
<1>1. Subtrees(None, <<e>>) \subseteq {e.sub} \ {None}
  BY DEF Subtrees
<1>2. \A m \in Nodes : (IF m \in Subtrees(None, <<e>>) THEN n ELSE par[m]) = par[m]
  BY <1>1
<1> QED
  BY <1>2 DEF Adopt

\* What becomes of a node, with z and s below it, when the element of key k and subtree x is
\* put there: it has t.
Taken(c, s, z, t, k, x, C, H) ==
  /\ c \in live /\ c \in Nodes
  /\ t \in Seq(Elems) /\ Len(t) = Len(s) + 1
  /\ Good(z, t, H[c] - 1, C, H) /\ C[c] = Content(z, t, C)
  /\ KeysIn(t) = KeysIn(s) \cup {k}
  /\ \A n \in live \ {c} : KeysIn(elems[n]) \cap KeysIn(t) = {}
  /\ \A i \in Slots(t) : Sub(z, t, i) # None =>
       /\ Sub(z, t, i) \in live \ {root, c} /\ parent[Sub(z, t, i)] = c
       /\ \A n \in live \ {c} : \A j \in Slots(elems[n]) : Child(n, j) # Sub(z, t, i)
  /\ \A i \in Slots(s) : \E j \in Slots(t) : Sub(z, t, j) = Child(c, i)
  /\ \E j \in Slots(t) : Sub(z, t, j) = x
  /\ Adopt(parent, c, None, <<carry>>) = parent

LEMMA PutHere ==
  ASSUME NEW C, NEW H, Inv(C, H), pc = "insert", cur # None
  PROVE  Taken(cur, elems[cur], zero[cur], Put(elems[cur], carry), carry.key, carry.sub, C, H)
<1> PICK t : t = Put(elems[cur], carry)
  OBVIOUS
<1>1. /\ Types /\ Links /\ KeyOnce /\ Tree(C, H)
  BY DEF Inv
<1> PICK c, s, z, e : c = cur /\ s = elems[cur] /\ z = zero[cur] /\ e = carry
  OBVIOUS
<1>2. /\ c \in live /\ c \in Nodes
      /\ e \in Elems /\ e.key \in Keys /\ e.key \in Int /\ e.sub \in Link
      /\ e.sub # None => /\ e.sub \in live \ {root} /\ parent[e.sub] = c
                         /\ \A n \in live : \A i \in Slots(elems[n]) : Child(n, i) # e.sub
      /\ H[e.sub] = H[c] - 1
      /\ \E q \in Slots(s) : Fits(q, C)
  <2>1. c \in live /\ c \in Nodes
    BY <1>1 DEF Types
  <2>2. e \in Elems
    BY DEF Inv, Inserting
  <2>3. e.key \in Keys /\ e.key \in Int /\ e.sub \in Link
    BY <2>2, Constants DEF Elems
  <2> QED
    BY <2>1, <2>2, <2>3 DEF Inv, Inserting
<1>3. PICK q \in Slots(s) : /\ InGap(s, q, e.key)
                            /\ \A k \in C[Child(c, q)] : k < e.key
                            /\ \A k \in C[e.sub] : e.key <= k /\ InGap(s, q, k)
  BY <1>2 DEF Fits
<1>4. /\ s \in Seq(Elems) /\ z \in Link /\ Len(s) \in Nat /\ Sorted(s)
      /\ C \in [Link -> SUBSET Keys] /\ H \in [Link -> Int] /\ H[c] \in Nat
      /\ Good(z, s, H[c] - 1, C, H) /\ C[c] = Content(z, s, C) \cup Rising(c, C)
  BY <1>1, <1>2, NodeIs
<1>5. t \in Seq(Elems) /\ Inserts(t, s, q, e)
  BY <1>2, <1>3, <1>4, PutIs
<1>6. \A i : Child(c, i) = Sub(z, s, i)
  BY <1>2, ChildIs
<1>7. e.key \notin KeysIn(s)
  BY <1>1, <1>2 DEF KeyOnce
<1>8. Good(z, t, H[c] - 1, C, H)
  <2> DEFINE l == H[c] - 1
  <2>1. H[e.sub] = l /\ Good(z, s, l, C, H)
    BY <1>2, <1>4
  <2> HIDE DEF l
  <2>2. /\ \A k \in C[Sub(z, s, q)] : k < e.key
        /\ e.sub # None => \A i \in Slots(s) : Sub(z, s, i) # e.sub
    BY <1>2, <1>3, <1>6
  <2>3. Good(z, t, l, C, H)
    BY <1>2, <1>3, <1>4, <1>5, <1>7, <2>1, <2>2, InsertGood
  <2> QED
    BY <2>3 DEF l
<1>9. C[c] = Content(z, t, C)
  <2>1. Content(z, t, C) = Content(z, s, C) \cup {e.key} \cup C[e.sub]
    BY <1>2, <1>3, <1>4, <1>5, InsertContent
  <2>2. Rising(c, C) = {e.key} \cup C[e.sub]
    BY DEF Rising
  <2> QED
    BY <1>4, <2>1, <2>2
<1>10. KeysIn(t) = KeysIn(s) \cup {e.key} /\ Len(t) = Len(s) + 1
  <2>1. q \in Slots(s) /\ e \in Elems /\ s \in Seq(Elems)
    BY <1>2, <1>4
  <2>2. KeysIn(t) = KeysIn(s) \cup {e.key}
    BY <1>5, <2>1, InsertKeys
  <2> QED
    BY <1>5, <2>2 DEF Inserts
<1>11. \A n \in live \ {c} : KeysIn(elems[n]) \cap KeysIn(t) = {}
  <2>1. \A n \in live \ {c} : e.key \notin KeysIn(elems[n])
    BY <1>1 DEF KeyOnce
  <2>2. \A n \in live \ {c} : KeysIn(elems[n]) \cap KeysIn(s) = {}
    BY <1>1, <1>2 DEF KeyOnce, Twice
  <2> QED
    BY <1>10, <2>1, <2>2
<1>12. /\ \A i \in Slots(s) : i <= q => i \in Slots(t) /\ Sub(z, t, i) = Sub(z, s, i)
       /\ \A i \in Slots(s) : i > q => i + 1 \in Slots(t) /\ Sub(z, t, i + 1) = Sub(z, s, i)
       /\ q + 1 \in Slots(t) /\ Sub(z, t, q + 1) = e.sub
       /\ \A i \in Slots(t) : \/ i <= q /\ i \in Slots(s)
                              \/ i = q + 1
                              \/ i > q + 1 /\ i - 1 > q /\ i - 1 \in Slots(s) /\ (i - 1) + 1 = i
  BY <1>2, <1>3, <1>4, <1>5, InsertSlots
<1>13. \A i \in Slots(s) : \E j \in Slots(t) : Sub(z, t, j) = Child(c, i)
  <2> SUFFICES ASSUME NEW i \in Slots(s) PROVE \E j \in Slots(t) : Sub(z, t, j) = Sub(z, s, i)
    BY <1>6
  <2>1. i <= q \/ i > q
    BY <1>4 DEF Slots
  <2> QED
    BY <1>12, <2>1
<1>14. \A i \in Slots(t) : \/ Sub(z, t, i) = e.sub
                           \/ \E j \in Slots(s) : Child(c, j) = Sub(z, t, i)
  BY <1>6, <1>12
<1>15. ASSUME NEW i \in Slots(t), Sub(z, t, i) # None
       PROVE  /\ Sub(z, t, i) \in live \ {root, c} /\ parent[Sub(z, t, i)] = c
              /\ \A n \in live \ {c} : \A j \in Slots(elems[n]) : Child(n, j) # Sub(z, t, i)
  <2>1. CASE Sub(z, t, i) = e.sub
    BY <1>2, <1>4, <1>15, <2>1
  <2>2. CASE Sub(z, t, i) # e.sub
    <3>1. PICK j \in Slots(s) : Child(c, j) = Sub(z, t, i)
      BY <1>14, <2>2
    <3>2. /\ Child(c, j) \in live \ {root, c} /\ parent[Child(c, j)] = c
          /\ \A m \in live : \A a \in Slots(elems[m]) : Child(m, a) = Child(c, j) => m = c /\ a = j
      BY <1>1, <1>2, <1>15, <3>1, KidIs
    <3> QED
      BY <3>1, <3>2
  <2> QED
    BY <2>1, <2>2
<1>16. Adopt(parent, c, None, <<e>>) = parent
  BY <1>1, <1>2, AdoptOne DEF Types
<1> QED
  BY <1>2, <1>5, <1>8, <1>9, <1>10, <1>11, <1>12, <1>13, <1>15, <1>16 DEF Taken

LEMMA VectorInsertInv ==
  ASSUME NEW C, NEW H, Inv(C, H), VectorInsert
  PROVE  IInv' /\ Unseen
<1>1. /\ pc = "insert" /\ cur # None /\ Room(elems[cur])
      /\ elems' = [elems EXCEPT ![cur] = Put(elems[cur], carry)]
      /\ parent' = Adopt(parent, cur, None, <<carry>>)
      /\ root' = root /\ live' = live /\ zero' = zero /\ script' = script /\ calls' = calls
      /\ pc' = "idle" /\ call' = None /\ want' = None /\ key' = None /\ cur' = None /\ carry' = None
  BY DEF VectorInsert, Return
<1>2. /\ Types /\ Links /\ KeyOnce /\ Fill /\ Tree(C, H)
  BY DEF Inv
<1> PICK c, s, z, t, x : c = cur /\ s = elems[cur] /\ z = zero[cur] /\ t = Put(elems[cur], carry)
                         /\ x = carry.sub
  OBVIOUS
<1>3. /\ c \in live /\ c \in Nodes
      /\ t \in Seq(Elems) /\ Len(t) = Len(s) + 1
      /\ Good(z, t, H[c] - 1, C, H) /\ C[c] = Content(z, t, C)
      /\ KeysIn(t) = KeysIn(s) \cup {carry.key}
      /\ \A n \in live \ {c} : KeysIn(elems[n]) \cap KeysIn(t) = {}
      /\ \A i \in Slots(t) : Sub(z, t, i) # None =>
           /\ Sub(z, t, i) \in live \ {root, c} /\ parent[Sub(z, t, i)] = c
           /\ \A n \in live \ {c} : \A j \in Slots(elems[n]) : Child(n, j) # Sub(z, t, i)
      /\ \A i \in Slots(s) : \E j \in Slots(t) : Sub(z, t, j) = Child(c, i)
      /\ \E j \in Slots(t) : Sub(z, t, j) = x
      /\ parent' = parent
  BY <1>1, PutHere DEF Taken
<1>4. /\ elems' \in [Nodes -> Seq(Elems)] /\ elems'[c] = t
      /\ \A n \in Nodes \ {c} : elems'[n] = elems[n]
  BY <1>1, <1>2, <1>3 DEF Types
<1>5. \A n \in live : n \in Nodes
  BY <1>2 DEF Types
<1>6. root' = root /\ live' = live /\ zero' = zero /\ parent' = parent
  BY <1>1, <1>3
<1>7. /\ \A i : Child(c, i)' = Sub(z, t, i)
      /\ \A n \in Nodes \ {c} : \A i : Child(n, i)' = Child(n, i)
  BY <1>1, <1>4 DEF Child, Sub
<1>8. Types'
  BY <1>1, <1>2, <1>3, <1>4 DEF Types
<1>9. Links'
  <2>1. ASSUME NEW n \in live, NEW i \in Slots(elems'[n]), Child(n, i)' # None
        PROVE  Child(n, i)' \in live /\ parent[Child(n, i)'] = n
    <3>1. CASE n = c
      BY <1>3, <1>4, <1>7, <2>1, <3>1
    <3>2. CASE n # c
      BY <1>2, <1>4, <1>5, <1>7, <2>1, <3>2 DEF Links
    <3> QED
      BY <3>1, <3>2
  <2>2. ASSUME NEW n \in live \ {root}
        PROVE  parent[n] \in live /\ \E i \in Slots(elems'[parent[n]]) : Child(parent[n], i)' = n
    <3>1. CASE n = x
      <4>1. parent[n] = c
        BY <1>1, <1>5, <3>1, Constants DEF Inv, Inserting
      <4>2. \A i : Child(parent[n], i)' = Sub(z, t, i)
        BY <1>6, <1>7, <4>1 DEF Child
      <4> QED
        BY <1>3, <1>4, <3>1, <4>1, <4>2
    <3>2. CASE n # x
      <4> PICK u : u = parent[n]
        OBVIOUS
      <4>1. u \in live /\ \E i \in Slots(elems[u]) : Child(u, i) = n
        BY <1>2, <3>2 DEF Links
      <4>2. \E i \in Slots(elems'[u]) : Child(u, i)' = n
        <5>1. CASE u = c
          BY <1>3, <1>4, <1>7, <4>1, <5>1
        <5>2. CASE u # c
          BY <1>4, <1>5, <1>7, <4>1, <5>2
        <5> QED
          BY <5>1, <5>2
      <4>3. \A i : Child(parent[n], i)' = Child(u, i)'
        BY <1>6 DEF Child
      <4> QED
        BY <4>1, <4>2, <4>3
    <3> QED
      BY <3>1, <3>2
  <2>3. parent[root] = None
    BY <1>2 DEF Links
  <2> QED
    BY <1>6, <2>1, <2>2, <2>3 DEF Links
<1>10. KeyOnce'
  <2>1. \A m, n \in live : m # n => KeysIn(elems'[m]) \cap KeysIn(elems'[n]) = {}
    BY <1>1, <1>2, <1>3, <1>4, <1>5 DEF KeyOnce, Twice
  <2> QED
    BY <1>1, <2>1 DEF KeyOnce
<1>11. Fill'
  <2>1. Len(s) \in Nat /\ Size \in Int /\ MinKeys \in Int /\ Len(s) < Size - 2
    BY <1>1, <1>2, <1>3, Constants, SeqLen DEF Room, Types
  <2>2. \A n \in Nodes : Len(elems'[n]) <= Size - 2
    BY <1>2, <1>3, <1>4, <2>1 DEF Fill
  <2>3. \A n \in live \ {root} : Len(elems'[n]) >= MinKeys
    BY <1>1, <1>2, <1>3, <1>4, <1>5, <2>1 DEF Fill
  <2>4. (IsLeaf(root) \/ elems[root] # <<>>)'
    <3>1. t # <<>>
      BY <1>3, <2>1
    <3> QED
      BY <1>1, <1>2, <1>4, <3>1 DEF Fill, IsLeaf, Types
  <2> QED
    BY <1>1, <2>2, <2>3, <2>4 DEF Fill
<1>12. \A n \in Nodes : /\ Good(zero[n], elems'[n], H[n] - 1, C, H)
                        /\ C[n] = Content(zero[n], elems'[n], C) \cup Rising(n, C)'
  <2> SUFFICES ASSUME NEW n \in Nodes
               PROVE  /\ Good(zero[n], elems'[n], H[n] - 1, C, H)
                      /\ C[n] = Content(zero[n], elems'[n], C)
    BY <1>1 DEF Rising
  <2>1. CASE n = c
    BY <1>3, <1>4, <2>1
  <2>2. CASE n # c
    <3>1. Rising(n, C) = {}
      BY <2>2 DEF Rising
    <3> QED
      BY <1>2, <1>4, <2>2, <3>1 DEF Tree
  <2> QED
    BY <2>1, <2>2
<1>13. \A n \in live : C[n] \subseteq C[root] \cup Rising(None, C)'
  BY <1>1, <1>2 DEF Tree, Rising
<1>14. Tree(C, H)'
  BY <1>1, <1>2, <1>3, <1>4, <1>12, <1>13 DEF Tree
<1>15. Searching(C, H)' /\ Inserting(C, H)' /\ Repair'
  BY <1>1 DEF Searching, Inserting, Repair
<1>16. Unseen
  <2>1. PICK S, K : S = {c} /\ K = KeysIn(s) \cup {carry.key}
    OBVIOUS
  <2>2. /\ \A n \in live : n \notin S => n \in live' /\ elems'[n] = elems[n]
        /\ live' = live /\ pc' # "insert" /\ c \in live
    BY <1>1, <1>2, <1>3, <1>4, <2>1 DEF Types
  <2>3. elems[c] = s /\ KeysIn(elems'[c]) = K
    BY <1>3, <1>4, <2>1
  <2>4. \A k \in K : k \in KeysIn(elems[c]) \/ k = carry.key
    BY <2>1, <2>3
  <2>5. KeysIn(elems[c]) \subseteq K /\ carry.key \in K
    BY <2>1, <2>3
  <2>6. Moves(S, K)
    BY <1>1, <2>1, <2>2, <2>3, <2>4, <2>5 DEF Moves
  <2>7. AllKeys' = AllKeys
    BY <2>6, KeysMoved
  <2>8. ret = <<call, want, TRUE>> /\ ret' = <<call, want, TRUE>>
    BY <1>1 DEF Inv, Inserting, VectorInsert, Return, Result
  <2> QED
    BY <2>7, <2>8 DEF Unseen
<1> QED
  BY <1>8, <1>9, <1>10, <1>11, <1>14, <1>15, <1>16 DEF IInv, Inv

\* What is known of a node (z, t) that is cut in two at its q-th element
Halves(t, q, z, s1, s2, l, C, H) ==
  /\ q \in 1 .. Len(t) /\ t \in Seq(Elems) /\ s1 \in Seq(Elems) /\ s2 \in Seq(Elems)
  /\ t[q].key \in Keys /\ t[q].sub \in Link
  /\ Len(s1) = q - 1 /\ Len(s2) = Len(t) - q
  /\ Good(z, s1, l, C, H) /\ Good(t[q].sub, s2, l, C, H)
  /\ KeysIn(t) = KeysIn(s1) \cup {t[q].key} \cup KeysIn(s2)
  /\ KeysIn(s1) \cap KeysIn(s2) = {} /\ t[q].key \notin KeysIn(s1) \cup KeysIn(s2)
  /\ Content(z, t, C) = Content(z, s1, C) \cup {t[q].key} \cup Content(t[q].sub, s2, C)
  /\ \A k \in Content(z, s1, C) : k < t[q].key
  /\ \A k \in Content(t[q].sub, s2, C) : t[q].key <= k
  /\ \A i \in Slots(s1), j \in Slots(s2) :
       Sub(z, s1, i) = Sub(t[q].sub, s2, j) => Sub(z, s1, i) = None
  /\ \A i \in Slots(s1) : \E j \in Slots(t) : Sub(z, t, j) = Sub(z, s1, i)
  /\ \A i \in Slots(s2) : \E j \in Slots(t) : Sub(z, t, j) = Sub(t[q].sub, s2, i)
  /\ \A j \in Slots(t) : \/ \E i \in Slots(s1) : Sub(z, s1, i) = Sub(z, t, j)
                         \/ \E i \in Slots(s2) : Sub(t[q].sub, s2, i) = Sub(z, t, j)

CutAt(t, q, z, s1, s2, l, C, H) ==
  /\ q = Len(s1) + 1
  /\ Cut(t, s1, t[q].key, t[q].sub, s2, z, l, C, H)

LEMMA HalvesIs ==
  ASSUME NEW t, NEW q, NEW z, NEW s1, NEW s2, NEW l, NEW C, NEW H,
         CutAt(t, q, z, s1, s2, l, C, H)
  PROVE  Halves(t, q, z, s1, s2, l, C, H)
<1> PICK p, y : p = t[q].key /\ y = t[q].sub
  OBVIOUS
<1> USE DEF Cut, CutAt
<1>1. /\ Len(t) = Len(s1) + 1 + Len(s2) /\ Len(s1) \in Nat /\ Len(s2) \in Nat /\ Len(t) \in Nat
      /\ q \in Int /\ q = Len(s1) + 1 /\ Len(s2) = Len(t) - q /\ q \in 1 .. Len(t)
  BY SeqLen DEF Joins
<1>2. p \in Keys /\ y \in Link
  OBVIOUS
<1>3. p \in Int
  BY <1>2, Constants
<1>4. Joins(t, s1, p, y, s2)
  OBVIOUS
<1>5. /\ Good(z, s1, l, C, H) /\ Good(y, s2, l, C, H)
      /\ \A k \in Content(z, s1, C) : k < p
      /\ \A k \in Content(y, s2, C) : p <= k
      /\ \A i \in Slots(s1), j \in Slots(s2) :
           Sub(z, s1, i) = Sub(y, s2, j) => Sub(z, s1, i) = None
  <2>1. Cut(t, s1, p, y, s2, z, l, C, H)
    BY <1>2, <1>4 DEF Cut
  <2> QED
    BY <2>1, SplitGood
<1>6. KeysIn(t) = KeysIn(s1) \cup {p} \cup KeysIn(s2)
  BY <1>2, <1>4, JoinKeys
<1>7. Content(z, t, C) = Content(z, s1, C) \cup {p} \cup Content(y, s2, C)
  BY <1>2, <1>4, JoinContent
<1>8. p \notin KeysIn(s2)
  <2> SUFFICES ASSUME NEW i \in 1 .. Len(s2) PROVE p # s2[i].key
    BY DEF KeysIn
  <2>1. /\ s2[i] = t[Len(s1) + 1 + i] /\ Len(s1) + 1 + i \in 1 .. Len(t) /\ q < Len(s1) + 1 + i
    BY <1>1, <1>4 DEF Joins
  <2>2. p < t[Len(s1) + 1 + i].key
    BY <1>1, <2>1 DEF Good, Sorted
  <2>3. t[Len(s1) + 1 + i].key \in Int
    BY <2>1, ElemIs
  <2> QED
    BY <1>3, <2>1, <2>2, <2>3
<1>9. /\ KeysIn(s1) \subseteq Content(z, s1, C) /\ KeysIn(s2) \subseteq Content(y, s2, C)
  BY DEF Content
<1>10. /\ \A k \in KeysIn(s1) : k \in Int /\ k < p
       /\ \A k \in KeysIn(s2) : k \in Int /\ p <= k
  <2>1. \A k \in KeysIn(s1) : k \in Int
    BY ElemIs DEF KeysIn
  <2>2. \A k \in KeysIn(s2) : k \in Int
    BY ElemIs DEF KeysIn
  <2> QED
    BY <1>5, <1>9, <2>1, <2>2
<1>11. KeysIn(s1) \cap KeysIn(s2) = {} /\ p \notin KeysIn(s1) \cup KeysIn(s2)
  BY <1>3, <1>8, <1>10
<1>12. /\ \A i \in Slots(s1) : i \in Slots(t) /\ Sub(z, t, i) = Sub(z, s1, i)
       /\ \A i \in Slots(s2) : /\ Len(s1) + 1 + i \in Slots(t)
                               /\ Sub(z, t, Len(s1) + 1 + i) = Sub(y, s2, i)
       /\ \A i \in Slots(t) \ Slots(s1) : i - (Len(s1) + 1) \in Slots(s2)
  BY <1>2, <1>4, JoinSlots
<1>13. /\ \A i \in Slots(s1) : \E j \in Slots(t) : Sub(z, t, j) = Sub(z, s1, i)
       /\ \A i \in Slots(s2) : \E j \in Slots(t) : Sub(z, t, j) = Sub(y, s2, i)
  BY <1>12
<1>14. ASSUME NEW j \in Slots(t)
       PROVE  \/ \E i \in Slots(s1) : Sub(z, s1, i) = Sub(z, t, j)
              \/ \E i \in Slots(s2) : Sub(y, s2, i) = Sub(z, t, j)
  <2>1. CASE j \in Slots(s1)
    BY <1>12, <2>1
  <2>2. CASE j \notin Slots(s1)
    <3>1. j \in Int
      BY DEF Slots
    <3>2. j - (Len(s1) + 1) \in Slots(s2) /\ Len(s1) + 1 + (j - (Len(s1) + 1)) = j
      BY <1>1, <1>12, <2>2, <3>1
    <3> QED
      BY <1>12, <3>2
  <2> QED
    BY <2>1, <2>2
<1> QED
  BY <1>1, <1>2, <1>5, <1>6, <1>7, <1>11, <1>13, <1>14 DEF Halves

LEMMA SubtreesIs ==
  ASSUME NEW z, NEW s \in Seq(Elems)
  PROVE  \A n : n \in Subtrees(z, s) <=> n # None /\ \E i \in Slots(s) : Sub(z, s, i) = n
<1>1. Len(s) \in Nat
  BY SeqLen
<1> SUFFICES ASSUME NEW n
             PROVE  n \in Subtrees(z, s) <=> n # None /\ \E i \in Slots(s) : Sub(z, s, i) = n
  OBVIOUS
<1>2. ASSUME n \in Subtrees(z, s) PROVE n # None /\ \E i \in Slots(s) : Sub(z, s, i) = n
  <2>1. n # None /\ (n = z \/ \E i \in 1 .. Len(s) : n = s[i].sub)
    BY <1>2 DEF Subtrees
  <2>2. CASE n = z
    <3>1. 0 \in Slots(s) /\ Sub(z, s, 0) = z
      BY <1>1 DEF Slots, Sub
    <3> QED
      BY <2>1, <2>2, <3>1
  <2>3. ASSUME NEW i \in 1 .. Len(s), n = s[i].sub PROVE \E j \in Slots(s) : Sub(z, s, j) = n
    <3>1. i \in Slots(s) /\ Sub(z, s, i) = n
      BY <1>1, <2>3 DEF Slots, Sub
    <3> QED
      BY <3>1
  <2> QED
    BY <2>1, <2>2, <2>3
<1>3. ASSUME n # None, NEW i \in Slots(s), Sub(z, s, i) = n PROVE n \in Subtrees(z, s)
  <2>1. i = 0 \/ i \in 1 .. Len(s)
    BY <1>1 DEF Slots
  <2> QED
    BY <1>3, <2>1 DEF Subtrees, Sub
<1> QED
  BY <1>2, <1>3

LEMMA NewIs ==
  ASSUME live # Nodes, live \subseteq Nodes
  PROVE  NewNode \in Nodes \ live
<1>1. \E n \in Nodes : n \notin live
  OBVIOUS
<1> QED
  BY <1>1 DEF NewNode

LEMMA SplitInsertInv ==
  ASSUME NEW C, NEW H, Inv(C, H), SplitInsert
  PROVE  IInv' /\ Unseen
<1>1. PICK c, s, z, t, x, q, new, s1, s2, p, y :
       /\ c = cur /\ s = elems[cur] /\ z = zero[cur] /\ t = Put(elems[cur], carry) /\ x = carry.sub
       /\ q = (Len(t) + 2) \div 2 /\ new = NewNode
       /\ s1 = SubSeq(t, 1, q - 1) /\ s2 = SubSeq(t, q + 1, Len(t))
       /\ p = t[q].key /\ y = t[q].sub
  OBVIOUS
<1>2. /\ pc = "insert" /\ c # None /\ ~Room(s) /\ live # Nodes
      /\ root' = root /\ live' = live \cup {new}
      /\ zero' = [zero EXCEPT ![new] = y]
      /\ elems' = [elems EXCEPT ![c] = s1, ![new] = s2]
      /\ parent' = [Adopt(Adopt(parent, c, None, <<carry>>), new, y, s2) EXCEPT ![new] = parent[c]]
      /\ carry' = Elem(p, new) /\ cur' = parent[c]
      /\ pc' = pc /\ call' = call /\ want' = want /\ key' = key /\ ret' = ret
      /\ script' = script /\ calls' = calls
  BY <1>1 DEF SplitInsert
<1>3. /\ Types /\ Links /\ KeyOnce /\ Fill /\ Tree(C, H)
  BY DEF Inv
<1>4. /\ c \in live /\ c \in Nodes
      /\ t \in Seq(Elems) /\ Len(t) = Len(s) + 1
      /\ Good(z, t, H[c] - 1, C, H) /\ C[c] = Content(z, t, C)
      /\ KeysIn(t) = KeysIn(s) \cup {carry.key}
      /\ \A n \in live \ {c} : KeysIn(elems[n]) \cap KeysIn(t) = {}
      /\ \A i \in Slots(t) : Sub(z, t, i) # None =>
           /\ Sub(z, t, i) \in live \ {root, c} /\ parent[Sub(z, t, i)] = c
           /\ \A n \in live \ {c} : \A j \in Slots(elems[n]) : Child(n, j) # Sub(z, t, i)
      /\ \A i \in Slots(s) : \E j \in Slots(t) : Sub(z, t, j) = Child(c, i)
      /\ \E j \in Slots(t) : Sub(z, t, j) = x
      /\ Adopt(parent, c, None, <<carry>>) = parent
  <2>1. Taken(c, s, z, t, carry.key, x, C, H)
    BY <1>1, <1>2, PutHere
  <2> QED
    BY <2>1 DEF Taken
<1>5. /\ s \in Seq(Elems) /\ z \in Link /\ Len(s) \in Nat
      /\ C \in [Link -> SUBSET Keys] /\ H \in [Link -> Int]
      /\ H[c] \in Nat /\ H[root] \in Nat /\ H[c] <= H[root]
  BY <1>1, <1>3, <1>4, NodeIs
<1>6. \A n \in live : n \in Nodes /\ n # new
  BY <1>1, <1>2, <1>3, NewIs DEF Types
<1>7. new \in Nodes /\ new \notin live /\ new # c /\ new # None /\ new \in Link /\ c \in Link
  BY <1>1, <1>2, <1>3, <1>4, NewIs, Constants DEF Types
<1>8. /\ Len(t) = Size - 1 /\ q \in Int /\ q \in 1 .. Len(t)
      /\ q - 1 >= MinKeys /\ Size - 1 - q >= MinKeys
  <2>1. Len(s) <= Size - 2
    BY <1>1, <1>3, <1>4 DEF Fill
  <2>2. ~(Len(s) < Size - 2)
    BY <1>2 DEF Room
  <2>3. Size \in 6 .. 9
    BY Constants
  <2> DEFINE m == Len(s)
             k == Len(t)
  <2>4. m \in Nat /\ m <= Size - 2 /\ ~(m < Size - 2) /\ k = m + 1 /\ q = (k + 2) \div 2
    BY <1>1, <1>4, <1>5, <2>1, <2>2
  <2> HIDE DEF m, k
  <2>5. k = Size - 1 /\ q = (Size + 1) \div 2
    BY <2>3, <2>4
  <2>6. k = Size - 1 /\ q \in Int /\ q \in 1 .. k /\ q - 1 >= MinKeys /\ Size - 1 - q >= MinKeys
    BY <2>3, <2>5 DEF MinKeys
  <2> QED
    BY <2>6 DEF k
<1>9. s1 \in Seq(Elems) /\ s2 \in Seq(Elems) /\ Len(s1) = q - 1 /\ Joins(t, s1, p, y, s2)
  BY <1>1, <1>4, <1>8, CutIs
<1>10. Halves(t, q, z, s1, s2, H[c] - 1, C, H)
  <2> DEFINE l == H[c] - 1
  <2>1. Good(z, t, l, C, H)
    BY <1>4
  <2> HIDE DEF l
  <2>2. t[q].key = p /\ t[q].sub = y /\ q = Len(s1) + 1
    BY <1>1, <1>8, <1>9
  <2>3. p \in Keys /\ y \in Link
    BY <1>4, <1>8, <2>2, ElemIs
  <2>4. CutAt(t, q, z, s1, s2, l, C, H)
    BY <1>4, <1>5, <1>9, <2>1, <2>2, <2>3 DEF CutAt, Cut
  <2>5. Halves(t, q, z, s1, s2, l, C, H)
    BY <2>4, HalvesIs
  <2> QED
    BY <2>5 DEF l
<1>11. /\ p \in Keys /\ p \in Int /\ y \in Link /\ Len(s2) = Size - 1 - q
       /\ Good(z, s1, H[c] - 1, C, H) /\ Good(y, s2, H[c] - 1, C, H)
       /\ KeysIn(t) = KeysIn(s1) \cup {p} \cup KeysIn(s2)
       /\ KeysIn(s1) \cap KeysIn(s2) = {} /\ p \notin KeysIn(s1) \cup KeysIn(s2)
       /\ Content(z, t, C) = Content(z, s1, C) \cup {p} \cup Content(y, s2, C)
       /\ \A k \in Content(z, s1, C) : k < p
       /\ \A k \in Content(y, s2, C) : p <= k
       /\ \A i \in Slots(s1), j \in Slots(s2) : Sub(z, s1, i) = Sub(y, s2, j) => Sub(z, s1, i) = None
       /\ \A i \in Slots(s1) : \E j \in Slots(t) : Sub(z, t, j) = Sub(z, s1, i)
       /\ \A i \in Slots(s2) : \E j \in Slots(t) : Sub(z, t, j) = Sub(y, s2, i)
       /\ \A j \in Slots(t) : \/ \E i \in Slots(s1) : Sub(z, s1, i) = Sub(z, t, j)
                              \/ \E i \in Slots(s2) : Sub(y, s2, i) = Sub(z, t, j)
  <2>1. t[q].key = p /\ t[q].sub = y
    BY <1>1
  <2>2. p \in Keys /\ y \in Link /\ Len(s2) = Len(t) - q
    BY <1>10, <2>1 DEF Halves
  <2>3. p \in Int /\ Len(s2) = Size - 1 - q
    BY <1>8, <2>2, Constants
  <2> QED
    BY <1>10, <2>1, <2>2, <2>3 DEF Halves
<1>12. /\ elems' \in [Nodes -> Seq(Elems)] /\ elems'[c] = s1 /\ elems'[new] = s2
       /\ \A n \in Nodes \ {c, new} : elems'[n] = elems[n]
       /\ zero' \in [Nodes -> Link] /\ zero'[new] = y /\ \A n \in Nodes \ {new} : zero'[n] = zero[n]
  <2>1. /\ elems \in [Nodes -> Seq(Elems)] /\ zero \in [Nodes -> Link]
        /\ s1 \in Seq(Elems) /\ s2 \in Seq(Elems) /\ y \in Link
    BY <1>3, <1>9, <1>11 DEF Types
  <2> QED
    BY <1>2, <1>4, <1>7, <2>1
<1> DEFINE Kids2 == {n \in Nodes : \E i \in Slots(s2) : Sub(y, s2, i) = n}
<1>13. /\ parent' \in [Nodes -> Link] /\ parent'[new] = parent[c]
       /\ \A n \in Nodes \ {new} : parent'[n] = IF n \in Kids2 THEN new ELSE parent[n]
  <2>1. parent \in [Nodes -> Link]
    BY <1>3 DEF Types
  <2>2. \A n \in Nodes : n \in Subtrees(y, s2) <=> n \in Kids2
    <3>1. \A n : n \in Subtrees(y, s2) <=> n # None /\ \E i \in Slots(s2) : Sub(y, s2, i) = n
      BY <1>9, SubtreesIs
    <3> QED
      BY <3>1, Constants
  <2> HIDE DEF Kids2
  <2>3. parent' = [[n \in Nodes |-> IF n \in Subtrees(y, s2) THEN new ELSE parent[n]]
                     EXCEPT ![new] = parent[c]]
    BY <1>2, <1>4 DEF Adopt
  <2> QED
    BY <1>4, <1>7, <2>1, <2>2, <2>3
<1>14. \A n \in Kids2 : /\ n \in live \ {root, c, new} /\ parent[n] = c
                        /\ \A m \in live \ {c} : \A j \in Slots(elems[m]) : Child(m, j) # n
                        /\ \A i \in Slots(s1) : Sub(z, s1, i) # n
  <2> SUFFICES ASSUME NEW n \in Kids2
               PROVE  /\ n \in live \ {root, c, new} /\ parent[n] = c
                      /\ \A m \in live \ {c} : \A j \in Slots(elems[m]) : Child(m, j) # n
                      /\ \A i \in Slots(s1) : Sub(z, s1, i) # n
    OBVIOUS
  <2>1. n \in Nodes /\ n # None /\ \E i \in Slots(s2) : Sub(y, s2, i) = n
    BY Constants
  <2>2. \E j \in Slots(t) : Sub(z, t, j) = n
    BY <1>11, <2>1
  <2> QED
    <3>1. PICK j \in Slots(t) : Sub(z, t, j) = n
      BY <2>2
    <3>2. /\ n \in live \ {root, c} /\ parent[n] = c
          /\ \A m \in live \ {c} : \A i \in Slots(elems[m]) : Child(m, i) # n
      BY <1>4, <2>1, <3>1
    <3>3. \A i \in Slots(s1) : Sub(z, s1, i) # n
      BY <1>11, <2>1
    <3> QED
      BY <1>6, <3>2, <3>3
<1> HIDE DEF Kids2
<1>15. /\ \A i : Child(c, i)' = Sub(z, s1, i)
       /\ \A i : Child(new, i)' = Sub(y, s2, i)
       /\ \A n \in Nodes \ {c, new} : \A i : Child(n, i)' = Child(n, i)
  <2>1. \A n, i : Child(n, i)' = IF i = 0 THEN zero'[n] ELSE elems'[n][i].sub
    BY DEF Child
  <2>2. \A i : Child(c, i)' = Sub(z, s1, i)
    <3>1. zero'[c] = z /\ elems'[c] = s1
      BY <1>1, <1>4, <1>7, <1>12
    <3> QED
      BY <2>1, <3>1 DEF Sub
  <2>3. \A i : Child(new, i)' = Sub(y, s2, i)
    <3>1. zero'[new] = y /\ elems'[new] = s2
      BY <1>12
    <3> QED
      BY <2>1, <3>1 DEF Sub
  <2>4. ASSUME NEW n \in Nodes \ {c, new} PROVE \A i : Child(n, i)' = Child(n, i)
    BY <1>12, <2>1, <2>4 DEF Child
  <2> QED
    BY <2>2, <2>3, <2>4
<1>16. Types'
  <2>1. carry' \in Elems
    BY <1>2, <1>7, <1>11 DEF Elem, Elems
  <2>2. parent[c] \in live \cup {None}
    <3>1. c # root => parent[c] \in live
      <4>1. c # x
        BY <1>1, <1>2, <1>5, Constants DEF Inv, Inserting
      <4> QED
        BY <1>1, <1>3, <1>4, <4>1 DEF Links
    <3> QED
      BY <1>3, <3>1 DEF Links
  <2> QED
    BY <1>2, <1>3, <1>7, <1>12, <1>13, <2>1, <2>2 DEF Types
<1>17. c # x /\ parent[c] # c /\ parent[root] = None
       /\ (c # root => /\ parent[c] \in live \ {new} /\ parent[c] \in Nodes
                       /\ \E i \in Slots(elems[parent[c]]) : Child(parent[c], i) = c)
       /\ (c = root => parent[c] = None)
  <2>1. c # x
    BY <1>1, <1>2, <1>5, Constants DEF Inv, Inserting
  <2>2. parent[root] = None /\ root # None
    BY <1>3, Constants DEF Links, Types
  <2>3. ASSUME c # root
        PROVE  /\ parent[c] \in live \ {new} /\ parent[c] \in Nodes /\ parent[c] # c
               /\ \E i \in Slots(elems[parent[c]]) : Child(parent[c], i) = c
    BY <1>1, <1>3, <1>4, <1>6, <2>1, <2>3, AboveIs
  <2> QED
    BY <1>4, <2>1, <2>2, <2>3, Constants
<1>18. ASSUME NEW n \in Nodes, NEW i \in Slots(elems[n])
       PROVE  /\ Child(n, i) # new
              /\ Child(n, i) = c => n = parent[c] /\ n \in live
  <2>1. CASE n \in live
    BY <1>3, <1>4, <1>7, <2>1, Constants DEF Links
  <2>2. CASE n \notin live
    <3>1. zero[n] = None /\ elems[n] = <<>>
      BY <1>3, <2>2 DEF Tree
    <3>2. Len(elems[n]) = 0
      BY <3>1
    <3>3. Child(n, i) = None
      BY <3>1, <3>2 DEF Slots, Child
    <3> QED
      BY <1>4, <1>7, <3>3, Constants
  <2> QED
    BY <2>1, <2>2
<1>19. \A n \in live' : n \in live \/ n = new
  BY <1>2
<1>20. Links'
  <2>1. ASSUME NEW n \in live \cup {new}, NEW i \in Slots(elems'[n]), Child(n, i)' # None
        PROVE  Child(n, i)' \in live \cup {new} /\ parent'[Child(n, i)'] = n
    <3>1. CASE n = c
      <4> PICK m : m = Sub(z, s1, i)
        OBVIOUS
      <4>1. m = Child(n, i)' /\ m # None /\ i \in Slots(s1)
        BY <1>12, <1>15, <2>1, <3>1
      <4>2. m \in live /\ parent[m] = c /\ m # new /\ m \in Nodes
        <5>1. PICK j \in Slots(t) : Sub(z, t, j) = m
          BY <1>11, <4>1
        <5>2. m \in live /\ parent[m] = c
          BY <1>4, <4>1, <5>1
        <5> QED
          BY <1>6, <5>2
      <4>3. m \notin Kids2
        BY <1>14, <4>1
      <4> QED
        BY <1>13, <3>1, <4>1, <4>2, <4>3
    <3>2. CASE n = new
      <4> PICK m : m = Sub(y, s2, i)
        OBVIOUS
      <4>1. m = Child(n, i)' /\ m # None /\ i \in Slots(s2)
        BY <1>12, <1>15, <2>1, <3>2
      <4>2. m \in live /\ m # new /\ m \in Nodes
        <5>1. PICK j \in Slots(t) : Sub(z, t, j) = m
          BY <1>11, <4>1
        <5>2. m \in live
          BY <1>4, <4>1, <5>1
        <5> QED
          BY <1>6, <5>2
      <4>3. m \in Kids2
        BY <4>1, <4>2 DEF Kids2
      <4> QED
        BY <1>13, <3>2, <4>1, <4>2, <4>3
    <3>3. CASE n # c /\ n # new
      <4> PICK m : m = Child(n, i)
        OBVIOUS
      <4>1. n \in live /\ n \in Nodes /\ i \in Slots(elems[n]) /\ m = Child(n, i)' /\ m # None
        BY <1>6, <1>12, <1>15, <2>1, <3>3
      <4>2. m \in live /\ m # new /\ parent[m] = n /\ m \in Nodes
        <5>1. m \in live /\ parent[m] = n
          <6>1. \A a \in live : \A j \in Slots(elems[a]) :
                  Child(a, j) # None => Child(a, j) \in live /\ parent[Child(a, j)] = a
            BY <1>3 DEF Links
          <6>2. Child(n, i) # None /\ m = Child(n, i)
            BY <4>1
          <6>3. Child(n, i) \in live /\ parent[Child(n, i)] = n
            BY <4>1, <6>1, <6>2
          <6> QED
            BY <6>2, <6>3
        <5> QED
          BY <1>6, <5>1
      <4>3. m \notin Kids2
        BY <1>14, <3>3, <4>1
      <4> QED
        BY <1>13, <4>1, <4>2, <4>3
    <3> QED
      BY <3>1, <3>2, <3>3
  <2>2. parent'[root] = None
    <3>1. root \in Nodes /\ root # new /\ root \notin Kids2
      BY <1>3, <1>6, <1>14 DEF Types
    <3> QED
      BY <1>13, <1>17, <3>1
  <2>3. ASSUME NEW n \in (live \cup {new}) \ {root}
        PROVE  \/ /\ parent'[n] \in live \cup {new}
                  /\ \E i \in Slots(elems'[parent'[n]]) : Child(parent[n], i)' = n
               \/ n = carry'.sub
    <3>1. CASE n = new
      BY <1>2, <3>1 DEF Elem
    <3>2. CASE n # new /\ n \in Kids2
      <4>1. parent'[n] = new
        BY <1>13, <1>6, <3>2
      <4>2. PICK i \in Slots(s2) : Sub(y, s2, i) = n
        BY <3>2 DEF Kids2
      <4>3. Child(parent[n], i)' = Child(new, i)'
        BY <4>1 DEF Child
      <4>4. Child(parent[n], i)' = n
        BY <1>15, <4>2, <4>3
      <4> QED
        BY <1>12, <4>1, <4>2, <4>4
    <3>3. CASE n # new /\ n \notin Kids2
      <4> PICK m : m = parent[n]
        OBVIOUS
      <4>1. n \in live /\ n \in Nodes /\ parent'[n] = m /\ n # None
        BY <1>6, <1>13, <2>3, <3>3, Constants
      <4>2. \A i : Child(parent[n], i)' = Child(m, i)'
        BY <4>1 DEF Child
      <4>3. CASE m = c
        <5>1. \E j \in Slots(t) : Sub(z, t, j) = n
          <6>1. CASE n = x
            BY <1>4, <6>1
          <6>2. CASE n # x
            <7>1. \E i \in Slots(s) : Child(c, i) = n
              BY <1>1, <1>3, <2>3, <4>1, <4>3, <6>2 DEF Links
            <7> QED
              BY <1>4, <7>1
          <6> QED
            BY <6>1, <6>2
        <5>2. \A i \in Slots(s2) : Sub(y, s2, i) # n
          BY <3>3, <4>1 DEF Kids2
        <5>3. \E i \in Slots(s1) : Sub(z, s1, i) = n
          BY <1>11, <5>1, <5>2
        <5>4. \E i \in Slots(elems'[c]) : Child(parent[n], i)' = n
          BY <1>12, <1>15, <4>2, <4>3, <5>3
        <5> QED
          BY <1>4, <4>1, <4>3, <5>4
      <4>4. CASE m # c
        <5>1. n # x
          BY <1>1, <1>2, <2>3, <4>1, <4>4, Constants DEF Inv, Inserting
        <5>2. m \in live /\ \E i \in Slots(elems[m]) : Child(m, i) = n
          BY <1>1, <1>3, <2>3, <4>1, <5>1 DEF Links
        <5>3. m \in Nodes \ {c, new}
          BY <1>6, <4>4, <5>2
        <5>4. \E i \in Slots(elems'[m]) : Child(parent[n], i)' = n
          BY <1>12, <1>15, <4>2, <5>2, <5>3
        <5> QED
          BY <4>1, <5>2, <5>4
      <4> QED
        BY <4>3, <4>4
    <3> QED
      BY <3>1, <3>2, <3>3
  <2>4. root' = root /\ live' = live \cup {new} /\ pc' = "insert"
    BY <1>2
  <2> QED
    BY <2>1, <2>2, <2>3, <2>4 DEF Links
<1>21. KeyOnce'
  <2>1. ASSUME NEW n \in live \ {c}
        PROVE  /\ elems'[n] = elems[n] /\ p \notin KeysIn(elems[n])
               /\ KeysIn(elems[n]) \cap KeysIn(s1) = {} /\ KeysIn(elems[n]) \cap KeysIn(s2) = {}
    BY <1>4, <1>6, <1>11, <1>12
  <2>2. \A m, n \in live : m # n => KeysIn(elems[m]) \cap KeysIn(elems[n]) = {}
    BY <1>2, <1>3 DEF KeyOnce, Twice
  <2>3. ASSUME NEW m \in live', NEW n \in live', m # n
        PROVE  KeysIn(elems'[m]) \cap KeysIn(elems'[n]) = {}
    BY <1>11, <1>12, <1>19, <2>1, <2>2, <2>3
  <2>4. ASSUME NEW n \in live' PROVE p \notin KeysIn(elems'[n])
    BY <1>11, <1>12, <1>19, <2>1
  <2>5. carry'.key = p
    BY <1>2 DEF Elem
  <2> QED
    BY <2>3, <2>4, <2>5 DEF KeyOnce
<1>22. Fill'
  <2>1. Size \in Int /\ MinKeys \in Int /\ Size >= 6 /\ MinKeys >= 2
    BY Constants
  <2>2. Len(s1) <= Size - 2 /\ Len(s1) >= MinKeys /\ Len(s2) <= Size - 2 /\ Len(s2) >= MinKeys
    BY <1>8, <1>9, <1>11, <2>1
  <2>3. ASSUME NEW n \in Nodes PROVE Len(elems'[n]) <= Size - 2
    BY <1>3, <1>12, <2>2 DEF Fill
  <2>4. ASSUME NEW n \in live' \ {root} PROVE Len(elems'[n]) >= MinKeys
    BY <1>2, <1>3, <1>6, <1>12, <1>19, <2>2, <2>4 DEF Fill
  <2>5. (IsLeaf(root) \/ elems[root] # <<>>)'
    <3>1. s1 # <<>>
      BY <2>1, <2>2
    <3>2. root \in live
      BY <1>3 DEF Types
    <3> QED
      BY <1>2, <1>3, <1>6, <1>12, <3>1, <3>2 DEF Fill, IsLeaf
  <2> QED
    BY <1>2, <2>3, <2>4, <2>5 DEF Fill
<1> DEFINE E == [C EXCEPT ![c] = Content(z, s1, C), ![new] = Content(y, s2, C)]
           I == [H EXCEPT ![new] = H[c]]
<1>23. /\ E \in [Link -> SUBSET Keys] /\ E[c] = Content(z, s1, C) /\ E[new] = Content(y, s2, C)
       /\ \A n \in Link \ {c, new} : E[n] = C[n]
       /\ I \in [Link -> Int] /\ I[new] = H[c] /\ \A n \in Link \ {new} : I[n] = H[n]
  <2>1. C[c] \in SUBSET Keys
    BY <1>5, <1>7
  <2>2. Content(z, s1, C) \in SUBSET Keys /\ Content(y, s2, C) \in SUBSET Keys
    BY <1>4, <1>11, <2>1
  <2> QED
    BY <1>5, <1>7, <2>2
<1> PICK D, G : D = E /\ G = I
  OBVIOUS
<1> HIDE DEF E, I
<1>24. /\ D \in [Link -> SUBSET Keys] /\ D[c] = Content(z, s1, C) /\ D[new] = Content(y, s2, C)
       /\ \A n \in Link \ {c, new} : D[n] = C[n]
       /\ G \in [Link -> Int] /\ G[new] = H[c] /\ \A n \in Link \ {new} : G[n] = H[n]
  BY <1>23
<1>25. \A n \in Nodes : Rising(n, C) = {} \/ n = c
  BY <1>1 DEF Rising
<1>26. \A n : Rising(n, D)' = IF n = parent[c] THEN {p} \cup D[new] ELSE {}
  BY <1>2 DEF Rising, Elem
<1>27. \A i \in Slots(t) : Sub(z, t, i) \in Link \ {c, new}
  <2> SUFFICES ASSUME NEW i \in Slots(t) PROVE Sub(z, t, i) \in Link \ {c, new}
    OBVIOUS
  <2>1. Sub(z, t, i) \in Link
    BY <1>4, <1>5, SubIs
  <2>2. CASE Sub(z, t, i) = None
    BY <1>2, <1>7, <2>1, <2>2
  <2>3. CASE Sub(z, t, i) # None
    BY <1>4, <1>6, <2>1, <2>3
  <2> QED
    BY <2>2, <2>3
<1>28. /\ \A i \in Slots(s1) : /\ D[Sub(z, s1, i)] = C[Sub(z, s1, i)]
                               /\ G[Sub(z, s1, i)] = H[Sub(z, s1, i)]
       /\ \A i \in Slots(s2) : /\ D[Sub(y, s2, i)] = C[Sub(y, s2, i)]
                               /\ G[Sub(y, s2, i)] = H[Sub(y, s2, i)]
  <2>1. \A i \in Slots(s1) : Sub(z, s1, i) \in Link \ {c, new}
    BY <1>11, <1>27
  <2>2. \A i \in Slots(s2) : Sub(y, s2, i) \in Link \ {c, new}
    BY <1>11, <1>27
  <2> QED
    BY <1>24, <2>1, <2>2
<1>29. /\ Good(z, s1, H[c] - 1, D, G) /\ Good(y, s2, H[c] - 1, D, G)
       /\ Content(z, s1, D) = Content(z, s1, C) /\ Content(y, s2, D) = Content(y, s2, C)
  <2>1. Good(z, s1, H[c] - 1, D, G)
    BY <1>11, <1>28 DEF Good
  <2>2. Good(y, s2, H[c] - 1, D, G)
    BY <1>11, <1>28 DEF Good
  <2>3. Content(z, s1, D) = Content(z, s1, C) /\ Content(y, s2, D) = Content(y, s2, C)
    <3>1. \A i \in Slots(s1) : D[Sub(z, s1, i)] = C[Sub(z, s1, i)]
      BY <1>28
    <3>2. \A i \in Slots(s2) : D[Sub(y, s2, i)] = C[Sub(y, s2, i)]
      BY <1>28
    <3>3. s1 \in Seq(Elems) /\ s2 \in Seq(Elems) /\ z \in Link /\ y \in Link
      BY <1>5, <1>9, <1>11
    <3>4. Content(z, s1, D) = Content(z, s1, C)
      BY <3>1, <3>3, ContentSame
    <3>5. Content(y, s2, D) = Content(y, s2, C)
      BY <3>2, <3>3, ContentSame
    <3> QED
      BY <3>4, <3>5
  <2> QED
    BY <2>1, <2>2, <2>3
<1>30. ASSUME NEW n \in Nodes \ {c, new}
       PROVE  /\ elems[n] \in Seq(Elems) /\ zero[n] \in Link /\ n \in Link
              /\ C[n] = Content(zero[n], elems[n], C)
              /\ Good(zero[n], elems[n], G[n] - 1, D, G)
              /\ \A i \in Slots(elems[n]) : /\ Child(n, i) = Sub(zero[n], elems[n], i)
                                            /\ Child(n, i) \in Link \ {new}
                                            /\ \A k \in C[Child(n, i)] : InGap(elems[n], i, k)
                                            /\ H[Child(n, i)] = H[n] - 1
  <2>1. /\ elems[n] \in Seq(Elems) /\ zero[n] \in Link
        /\ Good(zero[n], elems[n], H[n] - 1, C, H)
        /\ C[n] = Content(zero[n], elems[n], C) \cup Rising(n, C)
    BY <1>3, NodeIs
  <2>2. C[n] = Content(zero[n], elems[n], C) /\ n \in Link /\ G[n] = H[n]
    BY <1>24, <1>25, <2>1, Constants
  <2>3. ASSUME NEW i \in Slots(elems[n])
        PROVE  /\ Child(n, i) = Sub(zero[n], elems[n], i)
               /\ Child(n, i) \in Link \ {new}
               /\ \A k \in C[Child(n, i)] : InGap(elems[n], i, k)
               /\ H[Child(n, i)] = H[n] - 1
    BY <1>3, <1>18, SlotIs
  <2>4. \A i \in Slots(elems[n]) : /\ D[Child(n, i)] \subseteq C[Child(n, i)]
                                   /\ G[Child(n, i)] = H[Child(n, i)]
    <3>1. D[c] \subseteq C[c]
      BY <1>4, <1>11, <1>24
    <3>2. \A m \in Link \ {new} : D[m] \subseteq C[m] /\ G[m] = H[m]
      BY <1>24, <3>1
    <3> QED
      BY <2>3, <3>2
  <2>5. Good(zero[n], elems[n], G[n] - 1, D, G)
    BY <2>1, <2>2, <2>3, <2>4 DEF Good
  <2> QED
    BY <2>1, <2>2, <2>3, <2>5
<1>31. ASSUME NEW n \in Nodes
       PROVE  /\ Good(zero'[n], elems'[n], G[n] - 1, D, G)
              /\ D[n] = Content(zero'[n], elems'[n], D) \cup Rising(n, D)'
  <2>1. CASE n = c
    <3>1. zero'[n] = z /\ elems'[n] = s1 /\ G[n] = H[c] /\ Rising(n, D)' = {}
      BY <1>1, <1>4, <1>7, <1>12, <1>17, <1>24, <1>26, <2>1
    <3> QED
      BY <1>24, <1>29, <2>1, <3>1
  <2>2. CASE n = new
    <3>1. parent[c] # new
      BY <1>7, <1>17
    <3>2. zero'[n] = y /\ elems'[n] = s2 /\ G[n] = H[c] /\ Rising(n, D)' = {}
      BY <1>12, <1>24, <1>26, <2>2, <3>1
    <3> QED
      BY <1>24, <1>29, <2>2, <3>2
  <2>3. CASE n # c /\ n # new
    <3>1. zero'[n] = zero[n] /\ elems'[n] = elems[n] /\ D[n] = C[n]
      BY <1>12, <1>24, <1>30, <2>3
    <3>2. CASE n # parent[c]
      <4>1. \A i \in Slots(elems[n]) : D[Sub(zero[n], elems[n], i)] = C[Sub(zero[n], elems[n], i)]
        <5> SUFFICES ASSUME NEW i \in Slots(elems[n])
                     PROVE  D[Sub(zero[n], elems[n], i)] = C[Sub(zero[n], elems[n], i)]
          OBVIOUS
        <5>1. Child(n, i) = Sub(zero[n], elems[n], i) /\ Child(n, i) \in Link \ {new}
          BY <1>30, <2>3
        <5>2. Child(n, i) # c
          BY <1>18, <3>2
        <5> QED
          BY <1>24, <5>1, <5>2
      <4>2. Content(zero[n], elems[n], D) = Content(zero[n], elems[n], C)
        BY <1>30, <2>3, <4>1, ContentSame
      <4> QED
        BY <1>26, <1>30, <2>3, <3>1, <3>2, <4>2
    <3>3. CASE n = parent[c]
      <4>1. c # root
        BY <1>7, <1>17, <3>3, Constants
      <4>2. PICK i \in Slots(elems[n]) : Child(n, i) = c
        BY <1>17, <3>3, <4>1
      <4>3. \A j \in Slots(elems[n]) : Child(n, j) = c => j = i
        <5>1. n \in live /\ Child(n, i) # None
          BY <1>2, <1>17, <3>3, <4>1, <4>2
        <5> QED
          BY <1>3, <4>2, <5>1, KidIs
      <4>4. \A j \in Slots(elems[n]) : j # i =>
              D[Sub(zero[n], elems[n], j)] = C[Sub(zero[n], elems[n], j)]
        BY <1>24, <1>30, <2>3, <4>3
      <4>5. More(zero[n], elems[n], D, C, i, {p} \cup D[new])
        <5>1. Sub(zero[n], elems[n], i) = c
          BY <1>30, <2>3, <4>2
        <5>2. C[c] = D[c] \cup ({p} \cup D[new])
          BY <1>4, <1>11, <1>24
        <5> QED
          BY <4>4, <5>1, <5>2 DEF More
      <4>6. Content(zero[n], elems[n], C) = Content(zero[n], elems[n], D) \cup ({p} \cup D[new])
        BY <4>5, ContentPlus
      <4> QED
        BY <1>26, <1>30, <2>3, <3>1, <3>3, <4>6
    <3> QED
      BY <3>2, <3>3
  <2> QED
    BY <2>1, <2>2, <2>3
<1>32. \A n \in live' : D[n] \subseteq D[root] \cup Rising(None, D)'
  <2>1. root \in live /\ root \in Link /\ root # new
    BY <1>3, <1>6, Constants DEF Types
  <2>2. \A n \in live : C[n] \subseteq C[root]
    BY <1>1, <1>2, <1>3 DEF Tree, Rising
  <2>3. ASSUME NEW n \in live' PROVE D[n] \subseteq C[root]
    <3>1. D[c] \subseteq C[c] /\ D[new] \subseteq C[c] /\ C[c] \subseteq C[root]
      BY <1>4, <1>11, <1>24, <2>2
    <3>2. CASE n = c \/ n = new
      BY <3>1, <3>2
    <3>3. CASE n # c /\ n # new
      <4>1. n \in live /\ D[n] = C[n]
        BY <1>6, <1>19, <1>24, <3>3, Constants
      <4> QED
        BY <2>2, <4>1
    <3> QED
      BY <3>2, <3>3
  <2>4. C[root] \subseteq D[root] \cup Rising(None, D)'
    <3>1. CASE c # root
      BY <1>24, <2>1, <3>1
    <3>2. CASE c = root
      BY <1>4, <1>11, <1>17, <1>24, <1>26, <3>2
    <3> QED
      BY <3>1, <3>2
  <2> QED
    BY <2>3, <2>4
<1>33. Tree(D, G)'
  <2>1. D[None] = {} /\ G[None] = -1
    BY <1>2, <1>3, <1>7, <1>24, Constants DEF Tree
  <2>2. \A n \in Nodes : G[n] \in 0 .. G[root]
    <3>1. root \in Nodes /\ root # new
      BY <1>3, <1>6 DEF Types
    <3>2. G[root] = H[root] /\ \A n \in Nodes : n = new \/ G[n] = H[n]
      BY <1>24, <3>1, Constants
    <3>3. H[c] \in 0 .. H[root] /\ \A n \in Nodes : H[n] \in 0 .. H[root]
      BY <1>3, <1>4 DEF Tree
    <3> QED
      BY <1>24, <3>2, <3>3
  <2>3. \A n \in Nodes \ live' : zero'[n] = None /\ elems'[n] = <<>>
    BY <1>2, <1>3, <1>4, <1>12 DEF Tree
  <2> QED
    BY <1>2, <1>24, <1>31, <1>32, <2>1, <2>2, <2>3 DEF Tree
<1>34. Inserting(D, G)'
  <2>1. /\ carry'.key = p /\ carry'.sub = new /\ carry' \in Elems
    BY <1>2, <1>7, <1>11 DEF Elem, Elems
  <2>2. call' = "insert" /\ ret' = <<call', want', TRUE>>
    BY <1>1, <1>2 DEF Inv, Inserting
  <2>3. root \in live /\ root # new /\ G[root] = H[root]
    BY <1>3, <1>6, <1>24, Constants DEF Types
  <2>4. ASSUME NEW n \in live', NEW i \in Slots(elems'[n]) PROVE Child(n, i)' # new
    <3>1. CASE n = c
      <4>1. Sub(z, s1, i) # new
        BY <1>11, <1>12, <1>27, <3>1
      <4> QED
        BY <1>15, <3>1, <4>1
    <3>2. CASE n = new
      <4>1. Sub(y, s2, i) # new
        BY <1>11, <1>12, <1>27, <3>2
      <4> QED
        BY <1>15, <3>2, <4>1
    <3>3. CASE n # c /\ n # new
      BY <1>6, <1>12, <1>15, <1>18, <1>19, <3>3
    <3> QED
      BY <3>1, <3>2, <3>3
  <2>5. /\ \A k \in D[c] : k < p
        /\ \A k \in D[new] : p <= k
    BY <1>11, <1>24
  <2>6. CASE c # root
    <3>1. PICK u : u = parent[c]
      OBVIOUS
    <3>2. u \in live \ {new} /\ u \in Nodes \ {c, new} /\ u # None /\ u \in Link \ {c, new}
      BY <1>17, <2>6, <3>1, Constants
    <3>3. PICK i \in Slots(elems[u]) : Child(u, i) = c
      BY <1>17, <2>6, <3>1
    <3>4. elems'[u] = elems[u] /\ G[u] = H[u] /\ H[c] = H[u] - 1 /\ Child(u, i)' = c
          /\ \A k \in C[c] : InGap(elems[u], i, k)
      <4>1. elems'[u] = elems[u] /\ G[u] = H[u] /\ Child(u, i)' = c
        BY <1>12, <1>15, <1>24, <3>2, <3>3
      <4>2. H[Child(u, i)] = H[u] - 1 /\ \A k \in C[Child(u, i)] : InGap(elems[u], i, k)
        BY <1>3, <3>2, SlotIs
      <4> QED
        BY <3>3, <4>1, <4>2
    <3>5. p \in C[c] /\ D[new] \subseteq C[c]
      BY <1>4, <1>11, <1>24
    <3>6. InGap(elems[u], i, p) /\ \A k \in D[new] : InGap(elems[u], i, k)
      BY <3>4, <3>5
    <3>7. Fits(i, D)'
      <4>1. cur' = u /\ \A j : (Child(cur, j))' = Child(u, j)'
        BY <1>2, <3>1 DEF Child
      <4> QED
        BY <2>1, <2>5, <3>4, <3>6, <4>1 DEF Fits
    <3>8. \E j \in Slots(elems'[u]) : Fits(j, D)'
      BY <3>4, <3>7
    <3>9. G[new] = G[u] - 1 /\ parent'[new] = u /\ cur' = u
      BY <1>2, <1>13, <1>24, <3>1, <3>4
    <3>10. new \in live' \ {root'}
      BY <1>2, <2>3
    <3> QED
      BY <2>1, <2>2, <2>4, <3>2, <3>8, <3>9, <3>10 DEF Inserting
  <2>7. CASE c = root
    <3>1. cur' = None /\ parent'[new] = None
      BY <1>2, <1>13, <1>17, <2>7
    <3>2. new \in live' \ {root'} /\ new # None /\ root' = c
      BY <1>2, <1>7, <2>3, <2>7
    <3>3. G[new] = G[c] /\ Len(elems'[c]) >= MinKeys
      BY <1>8, <1>9, <1>12, <1>24, <2>3, <2>7
    <3> QED
      BY <2>1, <2>2, <2>4, <2>5, <3>1, <3>2, <3>3 DEF Inserting
  <2> QED
    BY <2>6, <2>7
<1>35. Searching(D, G)' /\ Repair'
  BY <1>2 DEF Searching, Repair
<1>36. Unseen
  <2>1. PICK S, K : S = {c, new} /\ K = KeysIn(t)
    OBVIOUS
  <2>2. /\ \A n \in live : n \notin S => n \in live' /\ elems'[n] = elems[n]
        /\ \A n \in live' : n \notin S => n \in live
        /\ c \in live' /\ new \in live' /\ c \in live /\ new \notin live
    BY <1>2, <1>4, <1>6, <1>7, <1>12, <2>1
  <2>3. elems[c] = s /\ K = KeysIn(elems[c]) \cup {carry.key}
    BY <1>1, <1>4, <2>1
  <2>4. carry'.key = p /\ K = KeysIn(elems'[c]) \cup {p} \cup KeysIn(elems'[new])
    BY <1>2, <1>11, <1>12, <2>1 DEF Elem
  <2>5. \A n \in live : n \in S => KeysIn(elems[n]) \subseteq K
    BY <2>1, <2>2, <2>3
  <2>6. \A n \in live' : n \in S => KeysIn(elems'[n]) \subseteq K
    BY <2>1, <2>4
  <2>7. carry.key \in K /\ carry'.key \in K
    BY <2>3, <2>4
  <2>8. \A k \in K : (\E n \in live : k \in KeysIn(elems[n])) \/ k = carry.key
    BY <2>2, <2>3
  <2>9. \A k \in K : (\E n \in live' : k \in KeysIn(elems'[n])) \/ k = carry'.key
    BY <2>2, <2>4
  <2>10. Moves(S, K)
    BY <1>2, <2>2, <2>5, <2>6, <2>7, <2>8, <2>9 DEF Moves
  <2>11. AllKeys' = AllKeys
    BY <2>10, KeysMoved
  <2> QED
    BY <1>2, <2>11 DEF Unseen
<1> QED
  BY <1>16, <1>20, <1>21, <1>22, <1>33, <1>34, <1>35, <1>36 DEF IInv, Inv

LEMMA NewRootInv ==
  ASSUME NEW C, NEW H, Inv(C, H), NewRoot
  PROVE  IInv' /\ Unseen
<1>1. PICK r, new, e, x, k, t :
        r = root /\ new = NewNode /\ e = carry /\ x = carry.sub /\ k = carry.key /\ t = <<carry>>
  OBVIOUS
<1>2. /\ pc = "insert" /\ cur = None /\ live # Nodes
      /\ root' = new /\ live' = live \cup {new}
      /\ zero' = [zero EXCEPT ![new] = r]
      /\ elems' = [elems EXCEPT ![new] = t]
      /\ parent' = [Adopt(parent, new, r, t) EXCEPT ![new] = None]
      /\ pc' = "idle" /\ call' = None /\ want' = None /\ key' = None /\ cur' = None /\ carry' = None
      /\ script' = script /\ calls' = calls
  BY <1>1 DEF NewRoot, Return
<1>3. /\ Types /\ Links /\ KeyOnce /\ Fill /\ Tree(C, H)
  BY DEF Inv
<1>4. /\ r \in live /\ r \in Nodes /\ live \subseteq Nodes
      /\ zero \in [Nodes -> Link] /\ parent \in [Nodes -> Link] /\ elems \in [Nodes -> Seq(Elems)]
      /\ C \in [Link -> SUBSET Keys] /\ H \in [Link -> Int] /\ H[r] \in Nat
  <2>1. /\ r \in live /\ r \in Nodes /\ live \subseteq Nodes
        /\ zero \in [Nodes -> Link] /\ parent \in [Nodes -> Link] /\ elems \in [Nodes -> Seq(Elems)]
    BY <1>1, <1>3 DEF Types
  <2> QED
    BY <1>3, <2>1, NodeIs
<1>5. /\ e \in Elems /\ k \in Keys /\ k \in Int /\ x \in live \ {r} /\ x # None
      /\ \A n \in live : \A i \in Slots(elems[n]) : Child(n, i) # x
      /\ H[x] = H[r] /\ Len(elems[r]) >= MinKeys
      /\ \A j \in C[r] : j < k
      /\ \A j \in C[x] : k <= j
      /\ \A n \in live : k \notin KeysIn(elems[n])
  <2>1. carry \in Elems
    BY <1>2 DEF Inv, Inserting
  <2>2. k \in Keys /\ k \in Int
    BY <1>1, <2>1, Constants DEF Elems
  <2>3. \A n \in live : k \notin KeysIn(elems[n])
    BY <1>1, <1>2, <1>3 DEF KeyOnce
  <2> QED
    BY <1>1, <1>2, <2>1, <2>2, <2>3 DEF Inv, Inserting
<1>6. \A n \in live : n \in Nodes /\ n # new
  BY <1>1, <1>2, <1>4, NewIs
<1>7. new \in Nodes /\ new \notin live /\ new # None /\ new \in Link /\ r \in Link /\ x \in Link
  BY <1>1, <1>2, <1>4, <1>5, NewIs, Constants
<1>8. /\ t \in Seq(Elems) /\ Len(t) = 1 /\ t[1] = e /\ e.sub = x /\ e.key = k /\ t # <<>>
      /\ KeysIn(t) = {k}
  <2>1. t \in Seq(Elems) /\ Len(t) = 1 /\ t[1] = e /\ e.sub = x /\ e.key = k /\ t # <<>>
    BY <1>1, <1>5
  <2> QED
    BY <2>1 DEF KeysIn
<1>9. /\ Slots(t) = {0, 1} /\ Sub(r, t, 0) = r /\ Sub(r, t, 1) = x
  BY <1>8 DEF Slots, Sub
<1>10. /\ elems' \in [Nodes -> Seq(Elems)] /\ elems'[new] = t
       /\ \A n \in Nodes \ {new} : elems'[n] = elems[n]
       /\ zero' \in [Nodes -> Link] /\ zero'[new] = r /\ \A n \in Nodes \ {new} : zero'[n] = zero[n]
  BY <1>2, <1>4, <1>7, <1>8
<1>11. /\ parent' \in [Nodes -> Link] /\ parent'[new] = None /\ parent'[r] = new /\ parent'[x] = new
       /\ \A n \in Nodes \ {new, r, x} : parent'[n] = parent[n]
  <2>1. \A n : n \in Subtrees(r, t) <=> n # None /\ (n = r \/ n = x)
    <3>1. \A n : n \in Subtrees(r, t) <=> n # None /\ \E i \in Slots(t) : Sub(r, t, i) = n
      BY <1>8, SubtreesIs
    <3> QED
      BY <1>9, <3>1
  <2>2. parent' = [[n \in Nodes |-> IF n \in Subtrees(r, t) THEN new ELSE parent[n]]
                     EXCEPT ![new] = None]
    BY <1>2 DEF Adopt
  <2>3. r # None /\ x # None /\ r # new /\ x # new /\ x \in Nodes
    BY <1>4, <1>5, <1>6, Constants
  <2> QED
    BY <1>4, <1>7, <2>1, <2>2, <2>3, Constants
<1>12. /\ \A i : Child(new, i)' = Sub(r, t, i)
       /\ \A n \in Nodes \ {new} : \A i : Child(n, i)' = Child(n, i)
  <2>1. \A n, i : Child(n, i)' = IF i = 0 THEN zero'[n] ELSE elems'[n][i].sub
    BY DEF Child
  <2>2. \A i : Child(new, i)' = Sub(r, t, i)
    BY <1>10, <2>1 DEF Sub
  <2>3. ASSUME NEW n \in Nodes \ {new} PROVE \A i : Child(n, i)' = Child(n, i)
    BY <1>10, <2>1, <2>3 DEF Child
  <2> QED
    BY <2>2, <2>3
<1>13. Types'
  <2>1. script \in Seq({"insert", "delete"} \X Keys) /\ calls \in 0 .. MaxCalls
    BY <1>3 DEF Types
  <2> QED
    BY <1>2, <1>4, <1>7, <1>10, <1>11, <2>1 DEF Types
<1>14. \A n \in live' : n \in live \/ n = new
  BY <1>2
<1>15. /\ \A a \in live : \A j \in Slots(elems[a]) :
            Child(a, j) # None => Child(a, j) \in live /\ parent[Child(a, j)] = a
       /\ parent[r] = None
       /\ \A n \in live \ {r, x} : /\ parent[n] \in live
                                   /\ \E i \in Slots(elems[parent[n]]) : Child(parent[n], i) = n
  BY <1>1, <1>3 DEF Links
<1>16. Links'
  <2>1. ASSUME NEW n \in live \cup {new}, NEW i \in Slots(elems'[n]), Child(n, i)' # None
        PROVE  Child(n, i)' \in live \cup {new} /\ parent'[Child(n, i)'] = n
    <3>1. CASE n = new
      <4>1. Child(n, i)' = r \/ Child(n, i)' = x
        BY <1>9, <1>10, <1>12, <3>1
      <4> QED
        BY <1>4, <1>5, <1>11, <3>1, <4>1
    <3>2. CASE n # new
      <4>1. PICK m : m = Child(n, i)
        OBVIOUS
      <4>2. n \in live /\ n \in Nodes /\ i \in Slots(elems[n]) /\ m = Child(n, i)' /\ m # None
        BY <1>6, <1>10, <1>12, <2>1, <3>2, <4>1
      <4>3. m \in live /\ parent[m] = n /\ m # x
        BY <1>5, <1>15, <4>1, <4>2
      <4>4. m # r /\ m # new /\ m \in Nodes
        BY <1>6, <1>15, <4>2, <4>3, Constants
      <4> QED
        BY <1>11, <4>2, <4>3, <4>4
    <3> QED
      BY <3>1, <3>2
  <2>2. ASSUME NEW n \in live
        PROVE  /\ parent'[n] \in live \cup {new}
               /\ \E i \in Slots(elems'[parent'[n]]) : Child(parent[n], i)' = n
    <3>1. CASE n = r \/ n = x
      <4>1. parent'[n] = new
        BY <1>11, <3>1
      <4>2. \A i : Child(parent[n], i)' = Child(new, i)'
        BY <4>1 DEF Child
      <4>3. \E i \in Slots(t) : Sub(r, t, i) = n
        BY <1>9, <3>1
      <4> QED
        BY <1>10, <1>12, <4>1, <4>2, <4>3
    <3>2. CASE n # r /\ n # x
      <4>1. PICK m : m = parent[n]
        OBVIOUS
      <4>2. /\ m \in live /\ m \in Nodes \ {new} /\ parent'[n] = m
            /\ \E i \in Slots(elems[m]) : Child(m, i) = n
        BY <1>6, <1>11, <1>15, <3>2, <4>1
      <4>3. \A i : Child(parent[n], i)' = Child(m, i)'
        BY <4>2 DEF Child
      <4> QED
        BY <1>10, <1>12, <4>2, <4>3
    <3> QED
      BY <3>1, <3>2
  <2>3. root' = new /\ live' = live \cup {new}
    BY <1>2
  <2> QED
    BY <1>11, <2>1, <2>2, <2>3 DEF Links
<1>17. KeyOnce'
  <2>1. \A m, n \in live : m # n => KeysIn(elems[m]) \cap KeysIn(elems[n]) = {}
    BY <1>2, <1>3 DEF KeyOnce, Twice
  <2>2. ASSUME NEW m \in live', NEW n \in live', m # n
        PROVE  KeysIn(elems'[m]) \cap KeysIn(elems'[n]) = {}
    <3>1. CASE m = new
      <4>1. n \in live /\ elems'[n] = elems[n]
        BY <1>6, <1>10, <1>14, <2>2, <3>1
      <4> QED
        BY <1>5, <1>8, <1>10, <3>1, <4>1
    <3>2. CASE n = new
      <4>1. m \in live /\ elems'[m] = elems[m]
        BY <1>6, <1>10, <1>14, <2>2, <3>2
      <4> QED
        BY <1>5, <1>8, <1>10, <3>2, <4>1
    <3>3. CASE m # new /\ n # new
      <4>1. m \in live /\ elems'[m] = elems[m] /\ n \in live /\ elems'[n] = elems[n]
        BY <1>6, <1>10, <1>14, <3>3
      <4> QED
        BY <2>1, <2>2, <4>1
    <3> QED
      BY <3>1, <3>2, <3>3
  <2> QED
    BY <1>2, <2>2 DEF KeyOnce
<1>18. Fill'
  <2>1. 1 <= Size - 2
    BY Constants
  <2>2. ASSUME NEW n \in Nodes PROVE Len(elems'[n]) <= Size - 2
    BY <1>3, <1>8, <1>10, <2>1 DEF Fill
  <2>3. ASSUME NEW n \in live PROVE Len(elems'[n]) >= MinKeys
    BY <1>1, <1>2, <1>3, <1>5, <1>6, <1>10 DEF Fill
  <2> QED
    BY <1>2, <1>8, <1>10, <2>2, <2>3 DEF Fill
<1> DEFINE E == [C EXCEPT ![new] = C[r] \cup {k} \cup C[x]]
           I == [H EXCEPT ![new] = H[r] + 1]
<1>19. PICK D, G : D = E /\ G = I
  OBVIOUS
<1>20. /\ D \in [Link -> SUBSET Keys] /\ D[new] = C[r] \cup {k} \cup C[x]
       /\ \A n \in Link \ {new} : D[n] = C[n]
       /\ G \in [Link -> Int] /\ G[new] = H[r] + 1 /\ \A n \in Link \ {new} : G[n] = H[n]
  <2>1. C[r] \cup {k} \cup C[x] \in SUBSET Keys
    BY <1>4, <1>5, <1>7
  <2>2. H[r] + 1 \in Int
    BY <1>4
  <2> QED
    BY <1>4, <1>7, <1>19, <2>1, <2>2
<1> HIDE DEF E, I
<1>21. PICK h \in Nat : h = H[r] /\ G[new] = h + 1
  BY <1>4, <1>20
<1>22. \A n : Rising(n, D)' = {}
  BY <1>2 DEF Rising
<1>23. ASSUME NEW n \in Nodes
       PROVE  /\ Good(zero'[n], elems'[n], G[n] - 1, D, G)
              /\ D[n] = Content(zero'[n], elems'[n], D)
  <2>1. CASE n = new
    <3>1. zero'[n] = r /\ elems'[n] = t /\ G[n] - 1 = H[r]
      <4>1. zero'[n] = r /\ elems'[n] = t
        BY <1>10, <2>1
      <4>2. G[n] = h + 1
        BY <1>21, <2>1
      <4>3. (h + 1) - 1 = H[r]
        BY <1>21
      <4> QED
        BY <4>1, <4>2, <4>3
    <3>2. D[r] = C[r] /\ D[x] = C[x] /\ G[r] = H[r] /\ G[x] = H[r]
      BY <1>5, <1>6, <1>4, <1>7, <1>20
    <3>3. Content(r, t, D) = D[n]
      BY <1>8, <1>9, <1>20, <2>1, <3>2 DEF Content
    <3>4. Sorted(t) /\ Distinct(r, t)
      <4>1. Sorted(t)
        BY <1>8 DEF Sorted
      <4>2. Distinct(r, t)
        BY <1>5, <1>9 DEF Distinct
      <4> QED
        BY <4>1, <4>2
    <3>5. /\ \A j \in D[r] : InGap(t, 0, j)
          /\ \A j \in D[x] : InGap(t, 1, j)
      BY <1>5, <1>8, <3>2 DEF InGap
    <3>6. Good(r, t, H[r], D, G)
      BY <1>9, <3>2, <3>4, <3>5 DEF Good
    <3> QED
      BY <3>1, <3>3, <3>6
  <2>2. CASE n # new
    <3>1. /\ elems[n] \in Seq(Elems) /\ zero[n] \in Link
          /\ Good(zero[n], elems[n], H[n] - 1, C, H)
          /\ C[n] = Content(zero[n], elems[n], C) \cup Rising(n, C)
      BY <1>3, NodeIs
    <3>2. Rising(n, C) = {}
      BY <1>2, Constants DEF Rising
    <3>3. D[n] = C[n] /\ G[n] = H[n] /\ zero'[n] = zero[n] /\ elems'[n] = elems[n]
      BY <1>10, <1>20, <2>2, Constants
    <3>4. ASSUME NEW i \in Slots(elems[n])
          PROVE  /\ D[Sub(zero[n], elems[n], i)] = C[Sub(zero[n], elems[n], i)]
                 /\ G[Sub(zero[n], elems[n], i)] = H[Sub(zero[n], elems[n], i)]
      <4>1. Sub(zero[n], elems[n], i) = Child(n, i) /\ Child(n, i) \in Link
        BY <1>3, SlotIs
      <4>2. Child(n, i) # new
        <5>1. CASE n \in live
          BY <1>6, <1>7, <1>15, <5>1
        <5>2. CASE n \notin live
          <6>1. zero[n] = None /\ elems[n] = <<>>
            BY <1>3, <5>2 DEF Tree
          <6>2. Len(elems[n]) = 0
            BY <6>1
          <6>3. Child(n, i) = None
            BY <6>1, <6>2 DEF Slots, Child
          <6> QED
            BY <1>7, <6>3
        <5> QED
          BY <5>1, <5>2
      <4> QED
        BY <1>20, <4>1, <4>2
    <3>5. Content(zero[n], elems[n], D) = Content(zero[n], elems[n], C)
      BY <3>1, <3>4, ContentSame
    <3>6. Good(zero[n], elems[n], H[n] - 1, D, G)
      BY <3>1, <3>4 DEF Good
    <3> QED
      BY <3>1, <3>2, <3>3, <3>5, <3>6
  <2> QED
    BY <2>1, <2>2
<1>24. Tree(D, G)'
  <2>1. D[None] = {} /\ G[None] = -1
    BY <1>3, <1>7, <1>20, Constants DEF Tree
  <2>2. \A n \in Nodes : G[n] \in 0 .. G[new]
    <3>1. \A n \in Nodes : H[n] \in 0 .. H[r]
      BY <1>1, <1>3 DEF Tree
    <3>2. \A n \in Nodes : n = new \/ G[n] = H[n]
      BY <1>20, Constants
    <3> QED
      <4> SUFFICES ASSUME NEW n \in Nodes PROVE G[n] \in 0 .. h + 1
        BY <1>21
      <4>1. H[n] \in 0 .. h
        BY <1>21, <3>1
      <4>2. G[n] = h + 1 \/ G[n] = H[n]
        BY <1>21, <3>2
      <4> QED
        BY <4>1, <4>2
  <2>3. \A n \in Nodes \ live' : zero'[n] = None /\ elems'[n] = <<>>
    BY <1>2, <1>3, <1>10 DEF Tree
  <2>4. ASSUME NEW n \in live' PROVE D[n] \subseteq D[new]
    <3>1. CASE n = new
      BY <3>1
    <3>2. CASE n # new
      <4>1. n \in live /\ D[n] = C[n]
        BY <1>6, <1>14, <1>20, <3>2, Constants
      <4>2. C[n] \subseteq C[r] \cup Rising(None, C)
        BY <1>1, <1>3, <4>1 DEF Tree
      <4>3. Rising(None, C) = {k} \cup C[x]
        BY <1>1, <1>2 DEF Rising
      <4> QED
        BY <1>20, <4>1, <4>2, <4>3
    <3> QED
      BY <3>1, <3>2
  <2>5. \A n \in Nodes : /\ Good(zero'[n], elems'[n], G[n] - 1, D, G)
                         /\ D[n] = Content(zero'[n], elems'[n], D) \cup Rising(n, D)'
    BY <1>22, <1>23
  <2>6. \A n \in live' : D[n] \subseteq D[root'] \cup Rising(None, D)'
    BY <1>2, <2>4
  <2> QED
    BY <1>2, <1>20, <2>1, <2>2, <2>3, <2>5, <2>6 DEF Tree
<1>25. Searching(D, G)' /\ Inserting(D, G)' /\ Repair'
  BY <1>2 DEF Searching, Inserting, Repair
<1>26. Unseen
  <2>1. PICK S : S = {new}
    OBVIOUS
  <2>2. /\ \A n \in live : n \notin S /\ n \in live' /\ elems'[n] = elems[n]
        /\ \A n \in live' : n \notin S => n \in live
        /\ new \in live'
    BY <1>2, <1>6, <1>10, <2>1
  <2>3. KeysIn(elems'[new]) = {k} /\ carry.key = k
    BY <1>1, <1>8, <1>10
  <2>4. Moves(S, {k})
    BY <1>2, <2>1, <2>2, <2>3 DEF Moves
  <2>5. AllKeys' = AllKeys
    BY <2>4, KeysMoved
  <2>6. ret = <<call, want, TRUE>> /\ ret' = <<call, want, TRUE>>
    BY <1>2 DEF Inv, Inserting, NewRoot, Return, Result
  <2> QED
    BY <2>5, <2>6 DEF Unseen
<1> QED
  BY <1>13, <1>16, <1>17, <1>18, <1>24, <1>25, <1>26 DEF IInv, Inv

-----------------------------------------------------------------------------
(* Repair.                                                                  *)

\* The node to repair is where its parent has it, and index_has_subtree finds it there.
Misses(c, u, i) ==
  /\ c \in live \ {root} /\ c \in Nodes /\ u \in live /\ u \in Nodes /\ parent[c] = u
  /\ Len(elems[c]) = MinKeys - 1 /\ elems[u] # <<>>
  /\ i \in Slots(elems[u]) /\ Child(u, i) = c /\ Index(c) = i

LEMMA MissesIs ==
  ASSUME NEW C, NEW H, Inv(C, H), pc = "repair", cur # root
  PROVE  \E u, i : Misses(cur, u, i)
<1>1. PICK c, u : c = cur /\ u = parent[cur]
  OBVIOUS
<1>2. /\ Types /\ Links /\ Fill /\ Tree(C, H)
  BY DEF Inv
<1>3. c \in live \ {root} /\ Len(elems[c]) = MinKeys - 1
  BY <1>1, <1>2 DEF Types, Inv, Repair
<1>4. /\ u \in live /\ ~IsLeaf(u) /\ c \in Nodes /\ u # c /\ u \in Nodes /\ root \in Nodes
      /\ \E i \in Slots(elems[u]) : Child(u, i) = c
  <2>1. /\ parent[c] \in live /\ ~IsLeaf(parent[c]) /\ c \in Nodes /\ parent[c] # c
        /\ \E i \in Slots(elems[parent[c]]) : Child(parent[c], i) = c
    BY <1>2, <1>3, AboveIs
  <2> QED
    BY <1>1, <1>2, <2>1 DEF Types
<1>5. PICK i \in Slots(elems[u]) : Child(u, i) = c
  BY <1>4
<1>6. \A j \in Slots(elems[u]) : Child(u, j) = c => j = i
  BY <1>2, <1>4, <1>5, Constants, KidIs
<1>7. elems[u] \in Seq(Elems) /\ Sorted(elems[u]) /\ elems[c] \in Seq(Elems)
      /\ KeysIn(elems[c]) \subseteq C[c]
  BY <1>2, <1>4, NodeIs
<1>8. elems[u] # <<>>
  <2>1. CASE u = root
    BY <1>2, <1>4, <2>1 DEF Fill
  <2>2. CASE u # root
    <3>1. Len(elems[u]) >= MinKeys /\ MinKeys >= 2 /\ MinKeys \in Int
      BY <1>1, <1>2, <1>4, <2>2, Constants DEF Fill
    <3> DEFINE m == Len(elems[u])
    <3>2. m # 0
      <4>1. m \in Nat /\ m >= MinKeys
        BY <1>7, <3>1, SeqLen
      <4> HIDE DEF m
      <4> QED
        BY <3>1, <4>1
    <3> QED
      BY <3>2
  <2> QED
    BY <2>1, <2>2
<1>9. elems[c][1].key \in Int /\ InGap(elems[u], i, elems[c][1].key)
  <2>1. 1 \in 1 .. Len(elems[c])
    BY <1>3, Constants
  <2>2. elems[c][1].key \in KeysIn(elems[c]) /\ elems[c][1].key \in Int
    BY <1>7, <2>1, ElemIs DEF KeysIn
  <2>3. \A k \in C[Child(u, i)] : InGap(elems[u], i, k)
    BY <1>2, <1>4, SlotIs
  <2> QED
    BY <1>5, <1>7, <2>2, <2>3
<1>10. Index(c) = i
  BY <1>1, <1>5, <1>6, <1>7, <1>8, <1>9, IndexIs
<1> QED
  BY <1>1, <1>3, <1>4, <1>5, <1>8, <1>10 DEF Misses

\* a and b are neighbours below u, and p is the key between them.
Siblings(u, j, a, b, p, H) ==
  /\ u \in live /\ u \in Nodes /\ j \in Slots(elems[u]) /\ j + 1 \in Slots(elems[u])
  /\ j \in Nat /\ j + 1 \in 1 .. Len(elems[u]) /\ j < Len(elems[u])
  /\ Child(u, j) = a /\ Child(u, j + 1) = b /\ elems[u][j + 1].sub = b
  /\ elems[u][j + 1].key = p /\ p \in Keys /\ p \in Int
  /\ a \in live \ {root, u} /\ b \in live \ {root, u} /\ a # b
  /\ a \in Nodes /\ b \in Nodes /\ parent[a] = u /\ parent[b] = u
  /\ H[u] \in Nat /\ H[a] \in Nat /\ H[a] = H[u] - 1 /\ H[b] = H[u] - 1
  /\ \A m \in live : \A i \in Slots(elems[m]) : /\ Child(m, i) = a => m = u /\ i = j
                                                /\ Child(m, i) = b => m = u /\ i = j + 1

LEMMA SiblingsAre ==
  ASSUME NEW C, NEW H, Inv(C, H), NEW u \in live, NEW j \in Slots(elems[u]),
         j + 1 \in Slots(elems[u]), Child(u, j) # None
  PROVE  Siblings(u, j, Child(u, j), Child(u, j + 1), elems[u][j + 1].key, H)
<1>1. /\ Types /\ Links /\ Tree(C, H)
  BY DEF Inv
<1>2. u \in Nodes /\ elems[u] \in Seq(Elems) /\ Len(elems[u]) \in Nat
  BY <1>1, SeqLen DEF Types
<1>3. j \in Nat /\ j + 1 \in 1 .. Len(elems[u]) /\ j < Len(elems[u]) /\ j # j + 1
  BY <1>2 DEF Slots
<1>4. PICK a, b, i : a = Child(u, j) /\ b = Child(u, j + 1) /\ i = j + 1
  OBVIOUS
<1>5. i \in Slots(elems[u]) /\ b = Child(u, i)
  BY <1>4
<1>6. b # None
  BY <1>1, <1>2, <1>4, <1>5, SlotIs
<1>7. /\ a \in live \ {root, u} /\ a \in Nodes /\ parent[a] = u
      /\ H[a] \in Nat /\ H[u] \in Nat /\ H[a] = H[u] - 1
      /\ \A m \in live : \A k \in Slots(elems[m]) : Child(m, k) = a => m = u /\ k = j
  BY <1>1, <1>4, KidIs
<1>8. /\ b \in live \ {root, u} /\ b \in Nodes /\ parent[b] = u /\ H[b] = H[u] - 1
      /\ \A m \in live : \A k \in Slots(elems[m]) : Child(m, k) = b => m = u /\ k = i
  BY <1>1, <1>5, <1>6, KidIs
<1>9. a # b
  BY <1>3, <1>4, <1>5, <1>7
<1>10. elems[u][j + 1].sub = b /\ elems[u][j + 1].key \in Keys /\ elems[u][j + 1].key \in Int
  BY <1>2, <1>3, <1>4, ElemIs DEF Child
<1> QED
  BY <1>2, <1>3, <1>4, <1>5, <1>7, <1>8, <1>9, <1>10 DEF Siblings

\* What the elements of a and b make with the key between them
Joint(J, u, a, b, p, C, H) ==
  /\ J \in Seq(Elems) /\ Joins(J, elems[a], p, zero[b], elems[b])
  /\ Len(J) = Len(elems[a]) + 1 + Len(elems[b])
  /\ zero[a] \in Link /\ zero[b] \in Link
  /\ C \in [Link -> SUBSET Keys] /\ H \in [Link -> Int]
  /\ Good(zero[a], J, H[a] - 1, C, H)
  /\ Content(zero[a], J, C) = C[a] \cup {p} \cup C[b]
  /\ KeysIn(J) = KeysIn(elems[a]) \cup {p} \cup KeysIn(elems[b])
  /\ \A k \in C[a] : k < p
  /\ \A k \in C[b] : p <= k
  /\ \A i \in Slots(J) : Sub(zero[a], J, i) # None =>
       /\ Sub(zero[a], J, i) \in live \ {root, a, b, u} /\ Sub(zero[a], J, i) \in Nodes
       /\ parent[Sub(zero[a], J, i)] \in {a, b}
       /\ \A n \in live \ {a, b} : \A k \in Slots(elems[n]) : Child(n, k) # Sub(zero[a], J, i)
  /\ \A i \in Slots(elems[a]) : \E k \in Slots(J) : Sub(zero[a], J, k) = Child(a, i)
  /\ \A i \in Slots(elems[b]) : \E k \in Slots(J) : Sub(zero[a], J, k) = Child(b, i)

LEMMA JointIs ==
  ASSUME NEW C, NEW H, Inv(C, H), pc = "repair",
         NEW u, NEW j, NEW a, NEW b, NEW p, Siblings(u, j, a, b, p, H)
  PROVE  Joint(elems[a] \o (<<Elem(p, zero[b])>> \o elems[b]), u, a, b, p, C, H)
<1>1. Types /\ Links /\ Tree(C, H)
  BY DEF Inv
<1>2. Once
  BY OnceIs
<1>3. /\ u \in live /\ u \in Nodes /\ j \in Slots(elems[u]) /\ j + 1 \in Slots(elems[u])
      /\ j \in Nat /\ j + 1 \in 1 .. Len(elems[u]) /\ j < Len(elems[u])
      /\ Child(u, j) = a /\ Child(u, j + 1) = b
      /\ elems[u][j + 1].key = p /\ p \in Keys /\ p \in Int
      /\ a \in live \ {root, u} /\ b \in live \ {root, u} /\ a # b
      /\ a \in Nodes /\ b \in Nodes
      /\ H[a] \in Nat /\ H[u] \in Nat /\ H[a] = H[u] - 1 /\ H[b] = H[u] - 1
  BY DEF Siblings
<1>4. PICK s1, s2, z, y, J : /\ s1 = elems[a] /\ s2 = elems[b] /\ z = zero[a] /\ y = zero[b]
                             /\ J = s1 \o (<<Elem(p, y)>> \o s2)
  OBVIOUS
<1>5. \A n : Rising(n, C) = {}
  BY DEF Rising
<1>6. /\ s1 \in Seq(Elems) /\ z \in Link /\ C \in [Link -> SUBSET Keys] /\ H \in [Link -> Int]
      /\ Good(z, s1, H[a] - 1, C, H) /\ C[a] = Content(z, s1, C) /\ C[a] \in SUBSET Keys
  <2>1. /\ elems[a] \in Seq(Elems) /\ zero[a] \in Link
        /\ C \in [Link -> SUBSET Keys] /\ H \in [Link -> Int] /\ C[a] \in SUBSET Keys
        /\ Good(zero[a], elems[a], H[a] - 1, C, H)
        /\ C[a] = Content(zero[a], elems[a], C) \cup Rising(a, C)
    BY <1>1, <1>3, NodeIs
  <2>2. Rising(a, C) = {} /\ H[a] = H[a]
    BY <1>3, <1>5
  <2> QED
    BY <1>4, <2>1, <2>2
<1>7. /\ s2 \in Seq(Elems) /\ y \in Link
      /\ Good(y, s2, H[a] - 1, C, H) /\ C[b] = Content(y, s2, C) /\ C[b] \in SUBSET Keys
  <2>1. /\ elems[b] \in Seq(Elems) /\ zero[b] \in Link
        /\ C \in [Link -> SUBSET Keys] /\ H \in [Link -> Int] /\ C[b] \in SUBSET Keys
        /\ Good(zero[b], elems[b], H[b] - 1, C, H)
        /\ C[b] = Content(zero[b], elems[b], C) \cup Rising(b, C)
    BY <1>1, <1>3, NodeIs
  <2>2. Rising(b, C) = {} /\ H[b] = H[a]
    BY <1>3, <1>5
  <2> QED
    BY <1>4, <2>1, <2>2
<1>8. J \in Seq(Elems) /\ Joins(J, s1, p, y, s2)
  BY <1>4, <1>3, <1>6, <1>7, JoinIs
<1>9. \A k \in C[a] : k < p
  <2>1. \A k \in C[Child(u, j)] : InGap(elems[u], j, k)
    BY <1>1, <1>3, SlotIs
  <2> QED
    BY <1>3, <2>1 DEF InGap
<1>10. \A k \in C[b] : p <= k
  <2> PICK i : i = j + 1
    OBVIOUS
  <2>1. i \in Slots(elems[u]) /\ i > 0 /\ Child(u, i) = b /\ elems[u][i].key = p
    BY <1>3
  <2>2. \A k \in C[Child(u, i)] : InGap(elems[u], i, k)
    BY <1>1, <1>3, <2>1, SlotIs
  <2> QED
    BY <2>1, <2>2 DEF InGap
<1>11. p \notin KeysIn(s2)
  <2>1. p \in KeysIn(elems[u])
    BY <1>3 DEF KeysIn
  <2> QED
    BY <1>4, <1>2, <1>3, <2>1 DEF Once
<1>12. ASSUME NEW c \in {a, b}, NEW i \in Slots(elems[c]), Child(c, i) # None
       PROVE  /\ Child(c, i) \in live \ {root, a, b, u} /\ Child(c, i) \in Nodes
              /\ parent[Child(c, i)] = c
              /\ \A n \in live : \A k \in Slots(elems[n]) : Child(n, k) = Child(c, i) => n = c
  <2>1. c \in live /\ H[c] = H[a] /\ c \in Nodes
    BY <1>3
  <2>2. /\ Child(c, i) \in live \ {root, c} /\ Child(c, i) \in Nodes
        /\ parent[Child(c, i)] = c
        /\ H[Child(c, i)] \in Nat /\ H[Child(c, i)] = H[c] - 1
        /\ \A n \in live : \A k \in Slots(elems[n]) : Child(n, k) = Child(c, i) => n = c
    BY <1>1, <1>12, <2>1, KidIs
  <2>3. Child(c, i) # a /\ Child(c, i) # b /\ Child(c, i) # u
    BY <1>3, <2>1, <2>2
  <2> QED
    BY <2>2, <2>3
<1>13. /\ \A i \in Slots(s1) : Child(a, i) = Sub(z, s1, i)
       /\ \A i \in Slots(s2) : Child(b, i) = Sub(y, s2, i)
  BY <1>4, <1>3, ChildIs
<1>14. \A i \in Slots(s1), k \in Slots(s2) : Sub(z, s1, i) = Sub(y, s2, k) => Sub(z, s1, i) = None
  BY <1>4, <1>3, <1>12, <1>13
<1>15. Good(z, J, H[a] - 1, C, H)
  <2> DEFINE l == H[a] - 1
  <2>1. Joined(J, s1, p, y, s2, z, l, C, H)
    BY <1>3, <1>6, <1>7, <1>8, <1>9, <1>10, <1>11, <1>14 DEF Joined
  <2> HIDE DEF l
  <2>2. Good(z, J, l, C, H)
    BY <2>1, JoinGood
  <2> QED
    BY <2>2 DEF l
<1>16. Content(z, J, C) = C[a] \cup {p} \cup C[b] /\ KeysIn(J) = KeysIn(s1) \cup {p} \cup KeysIn(s2)
  BY <1>6, <1>7, <1>8, JoinContent, JoinKeys
<1>17. /\ \A i \in Slots(s1) : i \in Slots(J) /\ Sub(z, J, i) = Sub(z, s1, i)
       /\ \A i \in Slots(s2) : /\ Len(s1) + 1 + i \in Slots(J)
                               /\ Sub(z, J, Len(s1) + 1 + i) = Sub(y, s2, i)
       /\ \A i \in Slots(J) \ Slots(s1) : i - (Len(s1) + 1) \in Slots(s2)
  BY <1>6, <1>7, <1>8, JoinSlots
<1>18. ASSUME NEW i \in Slots(J)
       PROVE  \E c \in {a, b} : \E k \in Slots(elems[c]) : Child(c, k) = Sub(z, J, i)
  <2>1. CASE i \in Slots(s1)
    BY <1>4, <1>13, <1>17, <2>1
  <2>2. CASE i \notin Slots(s1)
    <3> PICK k : k = i - (Len(s1) + 1)
      OBVIOUS
    <3>1. k \in Slots(s2)
      BY <1>17, <2>2
    <3>2. Len(s1) + 1 + k = i
      BY <1>6, SeqLen DEF Slots
    <3>3. Sub(z, J, i) = Child(b, k)
      BY <1>13, <1>17, <3>1, <3>2
    <3> QED
      BY <1>4, <3>1, <3>3
  <2> QED
    BY <2>1, <2>2
<1>19. ASSUME NEW i \in Slots(J), Sub(z, J, i) # None
       PROVE  /\ Sub(z, J, i) \in live \ {root, a, b, u} /\ Sub(z, J, i) \in Nodes
              /\ parent[Sub(z, J, i)] \in {a, b}
              /\ \A n \in live \ {a, b} : \A k \in Slots(elems[n]) : Child(n, k) # Sub(z, J, i)
  BY <1>12, <1>18, <1>19
<1>20. /\ \A i \in Slots(elems[a]) : \E k \in Slots(J) : Sub(z, J, k) = Child(a, i)
       /\ \A i \in Slots(elems[b]) : \E k \in Slots(J) : Sub(z, J, k) = Child(b, i)
  BY <1>4, <1>13, <1>17
<1>21. Len(J) = Len(s1) + 1 + Len(s2)
  BY <1>8 DEF Joins
<1>22. /\ \A i \in Slots(J) : Sub(zero[a], J, i) # None =>
            /\ Sub(zero[a], J, i) \in live \ {root, a, b, u} /\ Sub(zero[a], J, i) \in Nodes
            /\ parent[Sub(zero[a], J, i)] \in {a, b}
            /\ \A n \in live \ {a, b} : \A k \in Slots(elems[n]) :
                 Child(n, k) # Sub(zero[a], J, i)
       /\ \A i \in Slots(elems[a]) : \E k \in Slots(J) : Sub(zero[a], J, k) = Child(a, i)
       /\ \A i \in Slots(elems[b]) : \E k \in Slots(J) : Sub(zero[a], J, k) = Child(b, i)
  <2>1. z = zero[a]
    BY <1>4
  <2> QED
    BY <1>19, <1>20, <2>1
<1>23. Joint(J, u, a, b, p, C, H)
  BY <1>4, <1>6, <1>7, <1>8, <1>9, <1>10, <1>15, <1>16, <1>21, <1>22 DEF Joint
<1> QED
  BY <1>4, <1>23

\* A key and a subtree move from a to b or back, over their parent's key.
Rotates(u, j, a, b, s1, k, y, s2) ==
  /\ root' = root /\ live' = live
  /\ elems' \in [Nodes -> Seq(Elems)] /\ zero' \in [Nodes -> Link] /\ parent' \in [Nodes -> Link]
  /\ elems'[a] = s1 /\ elems'[b] = s2
  /\ elems'[u] = [elems[u] EXCEPT ![j + 1] = Elem(k, b)]
  /\ \A n \in Nodes \ {u, a, b} : elems'[n] = elems[n]
  /\ zero'[b] = y /\ \A n \in Nodes \ {b} : zero'[n] = zero[n]
  /\ \A i \in Slots(s1) : Sub(zero[a], s1, i) # None => parent'[Sub(zero[a], s1, i)] = a
  /\ \A i \in Slots(s2) : Sub(y, s2, i) # None => parent'[Sub(y, s2, i)] = b
  /\ \A n \in Nodes : parent[n] \notin {a, b} => parent'[n] = parent[n]
  /\ MinKeys <= Len(s1) /\ Len(s1) <= Size - 2 /\ MinKeys <= Len(s2) /\ Len(s2) <= Size - 2
  /\ Return(TRUE) /\ UNCHANGED <<script, calls>>

LEMMA RotateInv ==
  ASSUME NEW C, NEW H, Inv(C, H), pc = "repair", cur # root,
         NEW u, NEW j, NEW a, NEW b, NEW p, Siblings(u, j, a, b, p, H), cur \in {a, b},
         NEW J, Joint(J, u, a, b, p, C, H),
         NEW q, NEW s1, NEW s2, Halves(J, q, zero[a], s1, s2, H[a] - 1, C, H),
         Rotates(u, j, a, b, s1, J[q].key, J[q].sub, s2)
  PROVE  IInv' /\ Unseen
<1>1. Types /\ Links /\ Fill /\ Tree(C, H)
  BY DEF Inv
<1>2. Once
  BY OnceIs
<1>3. PICK z, y, k, s, t, l : /\ z = zero[a] /\ y = J[q].sub /\ k = J[q].key /\ s = elems[u]
                              /\ t = [elems[u] EXCEPT ![j + 1] = Elem(J[q].key, b)] /\ l = H[a] - 1
  OBVIOUS
<1>4. /\ u \in live /\ u \in Nodes /\ j \in Slots(s) /\ j + 1 \in Slots(s)
      /\ j \in Nat /\ j + 1 \in 1 .. Len(s) /\ j < Len(s)
      /\ Child(u, j) = a /\ Child(u, j + 1) = b /\ s[j + 1].sub = b
      /\ s[j + 1].key = p /\ p \in Keys /\ p \in Int
      /\ a \in live \ {root, u} /\ b \in live \ {root, u} /\ a # b
      /\ a \in Nodes /\ b \in Nodes /\ parent[a] = u /\ parent[b] = u
      /\ H[a] \in Nat /\ H[u] \in Nat /\ H[a] = H[u] - 1 /\ H[b] = H[u] - 1
  BY <1>3 DEF Siblings
<1>5. \A m \in live : \A i \in Slots(elems[m]) : /\ Child(m, i) = a => m = u /\ i = j
                                                 /\ Child(m, i) = b => m = u /\ i = j + 1
  BY DEF Siblings
<1>6. /\ C \in [Link -> SUBSET Keys] /\ H \in [Link -> Int] /\ z \in Link
      /\ Content(z, J, C) = C[a] \cup {p} \cup C[b]
      /\ KeysIn(J) = KeysIn(elems[a]) \cup {p} \cup KeysIn(elems[b])
      /\ \A x \in C[a] : x < p
      /\ \A x \in C[b] : p <= x
  BY <1>3 DEF Joint
<1>7. \A i \in Slots(J) : Sub(z, J, i) # None =>
        /\ Sub(z, J, i) \in live \ {root, a, b, u} /\ Sub(z, J, i) \in Nodes
        /\ parent[Sub(z, J, i)] \in {a, b}
        /\ \A n \in live \ {a, b} : \A x \in Slots(elems[n]) : Child(n, x) # Sub(z, J, i)
  BY <1>3 DEF Joint
<1>8. /\ \A i \in Slots(elems[a]) : \E x \in Slots(J) : Sub(z, J, x) = Child(a, i)
      /\ \A i \in Slots(elems[b]) : \E x \in Slots(J) : Sub(z, J, x) = Child(b, i)
  BY <1>3 DEF Joint
<1>9. /\ s1 \in Seq(Elems) /\ s2 \in Seq(Elems) /\ k \in Keys /\ y \in Link
      /\ Good(z, s1, l, C, H) /\ Good(y, s2, l, C, H)
      /\ KeysIn(J) = KeysIn(s1) \cup {k} \cup KeysIn(s2)
      /\ KeysIn(s1) \cap KeysIn(s2) = {} /\ k \notin KeysIn(s1) \cup KeysIn(s2)
      /\ Content(z, J, C) = Content(z, s1, C) \cup {k} \cup Content(y, s2, C)
      /\ \A x \in Content(z, s1, C) : x < k
      /\ \A x \in Content(y, s2, C) : k <= x
  BY <1>3 DEF Halves
<1>10. /\ \A i \in Slots(s1) : \E x \in Slots(J) : Sub(z, J, x) = Sub(z, s1, i)
       /\ \A i \in Slots(s2) : \E x \in Slots(J) : Sub(z, J, x) = Sub(y, s2, i)
       /\ \A x \in Slots(J) : \/ \E i \in Slots(s1) : Sub(z, s1, i) = Sub(z, J, x)
                              \/ \E i \in Slots(s2) : Sub(y, s2, i) = Sub(z, J, x)
  BY <1>3 DEF Halves
<1>11. /\ root' = root /\ live' = live
       /\ elems' \in [Nodes -> Seq(Elems)] /\ zero' \in [Nodes -> Link] /\ parent' \in [Nodes -> Link]
       /\ elems'[a] = s1 /\ elems'[b] = s2 /\ elems'[u] = t
       /\ \A n \in Nodes \ {u, a, b} : elems'[n] = elems[n]
       /\ zero'[b] = y /\ \A n \in Nodes \ {b} : zero'[n] = zero[n]
  BY <1>3 DEF Rotates
<1>12. /\ \A i \in Slots(s1) : Sub(z, s1, i) # None => parent'[Sub(z, s1, i)] = a
       /\ \A i \in Slots(s2) : Sub(y, s2, i) # None => parent'[Sub(y, s2, i)] = b
       /\ \A n \in Nodes : parent[n] \notin {a, b} => parent'[n] = parent[n]
       /\ MinKeys <= Len(s1) /\ Len(s1) <= Size - 2 /\ MinKeys <= Len(s2) /\ Len(s2) <= Size - 2
  BY <1>3 DEF Rotates
<1>13. /\ pc' = "idle" /\ call' = None /\ want' = None /\ key' = None /\ cur' = None
       /\ carry' = None /\ script' = script /\ calls' = calls
  BY DEF Rotates, Return
<1>14. \A n \in live : n \in Nodes /\ n \in Link /\ n # None
  BY <1>1, Constants DEF Types
<1>15. /\ s \in Seq(Elems) /\ zero[u] \in Link /\ Sorted(s) /\ Len(s) \in Nat
       /\ Good(zero[u], s, H[u] - 1, C, H) /\ C[u] = Content(zero[u], s, C)
  <2>1. /\ elems[u] \in Seq(Elems) /\ zero[u] \in Link /\ Sorted(elems[u]) /\ Len(elems[u]) \in Nat
        /\ Good(zero[u], elems[u], H[u] - 1, C, H)
        /\ C[u] = Content(zero[u], elems[u], C) \cup Rising(u, C)
    BY <1>1, <1>4, NodeIs
  <2>2. Rising(u, C) = {}
    BY DEF Rising
  <2> QED
    BY <1>3, <2>1, <2>2
<1>16. /\ t \in Seq(Elems) /\ Len(t) = Len(s) /\ Slots(t) = Slots(s)
       /\ \A i \in 1 .. Len(s) : i # j + 1 => t[i] = s[i]
       /\ t[j + 1].key = k /\ t[j + 1].sub = s[j + 1].sub
  <2>1. Elem(k, b) \in Elems /\ Elem(k, b).key = k /\ Elem(k, b).sub = b
    BY <1>4, <1>9, <1>14 DEF Elem, Elems
  <2>2. t = [s EXCEPT ![j + 1] = Elem(k, b)]
    BY <1>3
  <2> QED
    BY <1>4, <1>15, <2>1, <2>2 DEF Slots
\* The contents that change
<1>17. PICK D : D = [C EXCEPT ![a] = Content(z, s1, C), ![b] = Content(y, s2, C)]
  OBVIOUS
<1>18. /\ D \in [Link -> SUBSET Keys] /\ D[a] = Content(z, s1, C) /\ D[b] = Content(y, s2, C)
       /\ \A n \in Link \ {a, b} : D[n] = C[n]
       /\ D[a] \cup {k} \cup D[b] = C[a] \cup {p} \cup C[b]
  <2>1. C[a] \in SUBSET Keys /\ C[b] \in SUBSET Keys
    BY <1>4, <1>6, <1>14
  <2>2. Content(z, s1, C) \in SUBSET Keys /\ Content(y, s2, C) \in SUBSET Keys
    BY <1>4, <1>6, <1>9, <2>1
  <2> QED
    BY <1>4, <1>6, <1>9, <1>14, <1>17, <2>2
<1>19. /\ \A i \in Slots(s1) : D[Sub(z, s1, i)] = C[Sub(z, s1, i)]
       /\ \A i \in Slots(s2) : D[Sub(y, s2, i)] = C[Sub(y, s2, i)]
  <2>1. /\ \A i \in Slots(s1) : Sub(z, s1, i) \in Link
        /\ \A i \in Slots(s2) : Sub(y, s2, i) \in Link
    BY <1>6, <1>9, SubIs
  <2>2. a # None /\ b # None
    BY <1>4, <1>14
  <2>3. \A x \in Slots(J) : Sub(z, J, x) # a /\ Sub(z, J, x) # b
    BY <1>7, <2>2
  <2>4. /\ \A i \in Slots(s1) : Sub(z, s1, i) \in Link \ {a, b}
        /\ \A i \in Slots(s2) : Sub(y, s2, i) \in Link \ {a, b}
    BY <1>10, <2>1, <2>3
  <2> QED
    BY <1>18, <2>4
<1>20. /\ Good(z, s1, l, D, H) /\ Good(y, s2, l, D, H)
       /\ D[a] = Content(z, s1, D) /\ D[b] = Content(y, s2, D)
  <2>1. Good(z, s1, l, D, H)
    BY <1>9, <1>19 DEF Good
  <2>2. Good(y, s2, l, D, H)
    BY <1>9, <1>19 DEF Good
  <2>3. Content(z, s1, D) = Content(z, s1, C)
    <3>1. \A i \in Slots(s1) : D[Sub(z, s1, i)] = C[Sub(z, s1, i)]
      BY <1>19
    <3>2. z \in Link /\ s1 \in Seq(Elems)
      BY <1>6, <1>9
    <3> QED
      BY <3>1, <3>2, ContentSame
  <2>4. Content(y, s2, D) = Content(y, s2, C)
    <3>1. \A i \in Slots(s2) : D[Sub(y, s2, i)] = C[Sub(y, s2, i)]
      BY <1>19
    <3>2. y \in Link /\ s2 \in Seq(Elems)
      BY <1>9
    <3> QED
      BY <3>1, <3>2, ContentSame
  <2> QED
    BY <1>18, <2>1, <2>2, <2>3, <2>4
\* The parent, which has another key
<1>21. s = elems[u] /\ \A i \in Slots(s) : Child(u, i) = Sub(zero[u], s, i)
  BY <1>3, <1>4, ChildIs
<1>22. \A n \in Slots(s) : n # j /\ n # j + 1 => Child(u, n) # a /\ Child(u, n) # b
  <2>1. u \in live /\ Slots(s) = Slots(elems[u])
    BY <1>4, <1>21
  <2>2. ASSUME NEW n \in Slots(s), n # j, n # j + 1 PROVE Child(u, n) # a /\ Child(u, n) # b
    <3>1. n \in Slots(elems[u])
      BY <2>1
    <3>2. /\ Child(u, n) = a => u = u /\ n = j
          /\ Child(u, n) = b => u = u /\ n = j + 1
      BY <1>5, <2>1, <3>1
    <3> QED
      BY <2>2, <3>2
  <2> QED
    BY <2>2
<1>23. \A m \in live \ {u} : \A i \in Slots(elems[m]) : Child(m, i) # a /\ Child(m, i) # b
  BY <1>5
<1>24. PICK U : U = C[a] \cup {p} \cup C[b]
  OBVIOUS
<1>25. \A x \in U : (j > 0 => s[j].key <= x) /\ (j + 1 < Len(s) => x < s[j + 2].key)
  <2>1. \A x \in C[a] : InGap(s, j, x)
    <3>1. \A x \in C[Child(u, j)] : InGap(elems[u], j, x)
      BY <1>3, <1>1, <1>4, SlotIs
    <3> QED
      BY <1>3, <1>4, <3>1
  <2>2. \A x \in C[b] : InGap(s, j + 1, x)
    <3> PICK i : i = j + 1
      OBVIOUS
    <3>1. i \in Slots(elems[u]) /\ Child(u, i) = b
      BY <1>3, <1>4
    <3>2. \A x \in C[Child(u, i)] : InGap(elems[u], i, x)
      BY <1>1, <1>4, <3>1, SlotIs
    <3> QED
      BY <1>3, <3>1, <3>2
  <2>3. j > 0 => s[j].key < p /\ s[j].key \in Int
    <3> SUFFICES ASSUME j > 0 PROVE s[j].key < p /\ s[j].key \in Int
      OBVIOUS
    <3>1. j \in 1 .. Len(s) /\ j < j + 1
      BY <1>4, <1>15
    <3> QED
      BY <1>4, <1>15, <3>1, ElemIs DEF Sorted
  <2>4. j + 1 < Len(s) => p < s[j + 2].key /\ s[j + 2].key \in Int
    <3> SUFFICES ASSUME j + 1 < Len(s) PROVE p < s[j + 2].key /\ s[j + 2].key \in Int
      OBVIOUS
    <3>1. j + 2 \in 1 .. Len(s) /\ j + 1 < j + 2
      BY <1>4, <1>15
    <3> QED
      BY <1>4, <1>15, <3>1, ElemIs DEF Sorted
  <2>5. \A x \in C[a] : x \in Int
    BY <1>4, <1>6, <1>14, Constants
  <2>6. \A x \in C[b] : x \in Int
    BY <1>4, <1>6, <1>14, Constants
  <2>7. ASSUME NEW x \in C[a]
        PROVE  (j > 0 => s[j].key <= x) /\ (j + 1 < Len(s) => x < s[j + 2].key)
    <3>1. (j > 0 => s[j].key <= x) /\ x < p
      BY <1>6, <2>1 DEF InGap
    <3> QED
      BY <1>4, <2>4, <2>5, <3>1
  <2>8. ASSUME NEW x \in C[b]
        PROVE  (j > 0 => s[j].key <= x) /\ (j + 1 < Len(s) => x < s[j + 2].key)
    <3>1. (j + 1 < Len(s) => x < s[(j + 1) + 1].key) /\ p <= x
      BY <1>6, <2>2 DEF InGap
    <3>2. (j + 1) + 1 = j + 2
      BY <1>4
    <3> QED
      BY <1>4, <2>3, <2>6, <3>1, <3>2
  <2>9. \A x \in U : x \in C[a] \/ x = p \/ x \in C[b]
    BY <1>24
  <2>10. (j > 0 => s[j].key <= p) /\ (j + 1 < Len(s) => p < s[j + 2].key)
    BY <1>4, <2>3, <2>4
  <2> QED
    BY <2>7, <2>8, <2>9, <2>10
<1>26. /\ k \in U
       /\ \A x \in KeysIn(s) : x = k => x = p
  <2>1. k \in KeysIn(J) /\ k \in Content(z, J, C)
    BY <1>9
  <2>2. CASE k = p
    BY <1>24, <2>2
  <2>3. CASE k # p
    <3>1. k \in KeysIn(elems[a]) \/ k \in KeysIn(elems[b])
      BY <1>6, <2>1, <2>3
    <3>2. k \notin KeysIn(s)
      BY <1>3, <1>2, <1>4, <3>1 DEF Once
    <3> QED
      BY <1>6, <1>24, <2>1, <3>2
  <2> QED
    BY <2>2, <2>3
<1>27. Good(zero[u], t, H[u] - 1, D, H) /\ (\A i \in Slots(s) : Sub(zero[u], t, i) = Sub(zero[u], s, i))
       /\ KeysIn(t) = (KeysIn(s) \ {p}) \cup {k}
  <2>1. PICK i, x, h : i = j + 1 /\ x = zero[u] /\ h = H[u] - 1
    OBVIOUS
  <2>2. Good(x, s, h, C, H) /\ x \in Link
    BY <1>15, <2>1
  <2>3. /\ i \in 1 .. Len(s) /\ i - 1 = j /\ i \in Slots(s) /\ j \in Slots(s) /\ i # j
        /\ (i > 1 => j > 0) /\ (i < Len(s) => j + 1 < Len(s)) /\ i + 1 = j + 2
        /\ \A n \in Slots(s) \ {i} : n = j \/ n \notin {j, i}
    BY <1>4, <2>1
  <2>4. \A n \in Slots(s) : Child(u, n) = Sub(x, s, n)
    BY <1>21, <2>1
  <2>5. Sub(x, s, j) = a /\ Sub(x, s, i) = b
    BY <1>4, <2>1, <2>3, <2>4
  <2>6. \A n \in Slots(s) \ {j, i} : D[Sub(x, s, n)] = C[Sub(x, s, n)]
    <3> SUFFICES ASSUME NEW n \in Slots(s) \ {j, i} PROVE D[Sub(x, s, n)] = C[Sub(x, s, n)]
      OBVIOUS
    <3>1. Sub(x, s, n) \in Link
      BY <1>15, <2>2, SubIs
    <3>2. n # j /\ n # j + 1
      BY <2>1
    <3>3. Sub(x, s, n) # a /\ Sub(x, s, n) # b
      BY <1>22, <2>4, <3>2
    <3> QED
      BY <1>18, <3>1, <3>3
  <2>7. D[a] \subseteq U /\ D[b] \subseteq U /\ k \in U
    BY <1>18, <1>26, <1>24
  <2>8. \A n \in U : i > 1 => s[j].key <= n
    <3>1. \A n \in U : j > 0 => s[j].key <= n
      BY <1>25
    <3> QED
      BY <2>3, <3>1
  <2>9. \A n \in U : i < Len(s) => n < s[i + 1].key
    <3>1. \A n \in U : j + 1 < Len(s) => n < s[j + 2].key
      BY <1>25
    <3> QED
      BY <2>3, <3>1
  <2>10. i > 1 => s[j].key < k
    <3> SUFFICES ASSUME i > 1 PROVE s[j].key < k
      OBVIOUS
    <3>1. j \in 1 .. Len(s) /\ j > 0 /\ j < j + 1
      BY <1>4, <1>15, <2>3
    <3>2. s[j].key \in KeysIn(s) /\ s[j].key \in Int /\ s[j].key < s[j + 1].key
      BY <1>4, <1>15, <3>1, ElemIs DEF KeysIn, Sorted
    <3>3. s[j].key # p
      BY <1>4, <3>2
    <3>4. s[j].key # k
      BY <1>26, <3>2, <3>3
    <3>5. s[j].key <= k
      BY <2>7, <2>8
    <3>6. k \in Int
      BY <1>9, Constants
    <3> QED
      BY <3>2, <3>4, <3>5, <3>6
  <2>11. \A n \in D[a] : n < k /\ (i > 1 => s[j].key <= n)
    <3>1. \A n \in D[a] : n < k
      BY <1>9, <1>18
    <3> QED
      BY <2>7, <2>8, <3>1
  <2>12. \A n \in D[b] : k <= n /\ (i < Len(s) => n < s[i + 1].key)
    <3>1. \A n \in D[b] : k <= n
      BY <1>9, <1>18
    <3> QED
      BY <2>7, <2>9, <3>1
  <2>13. Exchanged(x, s, t, h, C, D, H, i, k)
    <3>1. /\ s \in Seq(Elems) /\ t \in Seq(Elems) /\ x \in Link /\ k \in Keys /\ i \in 1 .. Len(s)
          /\ C \in [Link -> SUBSET Keys] /\ D \in [Link -> SUBSET Keys]
      BY <1>6, <1>9, <1>15, <1>16, <1>18, <2>3, <2>2
    <3>2. /\ Len(t) = Len(s) /\ \A n \in 1 .. Len(s) : n # i => t[n] = s[n]
          /\ t[i].key = k /\ t[i].sub = s[i].sub
      BY <1>16, <2>1
    <3>3. /\ \A n \in Slots(s) \ {i - 1, i} : D[Sub(x, s, n)] \subseteq C[Sub(x, s, n)]
          /\ \A n \in D[Sub(x, s, i - 1)] : n < k /\ (i > 1 => s[i - 1].key <= n)
          /\ \A n \in D[Sub(x, s, i)] : k <= n /\ (i < Len(s) => n < s[i + 1].key)
          /\ i > 1 => s[i - 1].key < k
          /\ i < Len(s) => k < s[i + 1].key
      BY <2>3, <2>5, <2>6, <2>7, <2>10, <2>11, <2>12, <2>9
    <3> QED
      BY <2>2, <3>1, <3>2, <3>3 DEF Exchanged
  <2>14. /\ Good(x, t, h, D, H) /\ (\A n \in Slots(s) : Sub(x, t, n) = Sub(x, s, n))
         /\ KeysIn(t) = (KeysIn(s) \ {s[i].key}) \cup {k}
    BY <2>13, KeyGood
  <2>15. s[i].key = p
    BY <1>4, <2>1
  <2> QED
    BY <2>1, <2>14, <2>15
<1>28. Content(zero[u], t, D) = C[u]
  <2>1. PICK i, x : i = j + 1 /\ x = zero[u]
    OBVIOUS
  <2>2. /\ i \in Slots(s) /\ Sub(x, s, i) = b /\ Sub(x, s, j) = a
        /\ \A n \in Slots(s) : n # i /\ n # j => D[Sub(x, s, n)] = C[Sub(x, s, n)]
    <3>1. \A n \in Slots(s) : Child(u, n) = Sub(x, s, n) /\ Sub(x, s, n) \in Link
      BY <1>15, <1>21, <2>1, SubIs
    <3>2. \A n \in Slots(s) : n # i /\ n # j => Child(u, n) # a /\ Child(u, n) # b
      BY <1>22, <2>1
    <3>3. \A n \in Slots(s) : n # i /\ n # j => D[Sub(x, s, n)] = C[Sub(x, s, n)]
      BY <1>18, <3>1, <3>2
    <3> QED
      BY <1>4, <2>1, <3>1, <3>3
  <2>3. \A n \in Slots(t) : Sub(x, t, n) = Sub(x, s, n) /\ n \in Slots(s)
    BY <1>16, <1>27, <2>1
  <2>4. j \in Slots(t) /\ i \in Slots(t) /\ j \in Slots(s)
    BY <1>4, <1>16, <2>1
  <2>5. p \in KeysIn(s) /\ KeysIn(t) = (KeysIn(s) \ {p}) \cup {k}
    BY <1>4, <1>27 DEF KeysIn
  <2>6. D[a] \cup {k} \cup D[b] = C[a] \cup {p} \cup C[b]
    BY <1>18
  <2>7. C[u] = Content(x, s, C)
    BY <1>15, <2>1
  <2>8. ASSUME NEW e \in C[u] PROVE e \in Content(x, t, D)
    <3>1. CASE e \in D[a] \/ e = k \/ e \in D[b]
      <4>1. k \in KeysIn(t) /\ Sub(x, t, j) = a /\ Sub(x, t, i) = b
        BY <2>2, <2>3, <2>4, <2>5
      <4> QED
        BY <2>4, <3>1, <4>1 DEF Content
    <3>2. CASE e \notin D[a] /\ e # k /\ e \notin D[b]
      <4>1. e \notin C[a] /\ e # p /\ e \notin C[b]
        BY <2>6, <3>2
      <4>2. CASE e \in KeysIn(s)
        BY <2>5, <4>1, <4>2 DEF Content
      <4>3. CASE e \notin KeysIn(s)
        <5>1. PICK n \in Slots(s) : e \in C[Sub(x, s, n)]
          BY <2>7, <2>8, <4>3 DEF Content
        <5>2. n # i /\ n # j
          BY <2>2, <4>1, <5>1
        <5>3. n \in Slots(t) /\ e \in D[Sub(x, t, n)]
          BY <1>16, <2>2, <2>3, <5>1, <5>2
        <5> QED
          BY <5>3 DEF Content
      <4> QED
        BY <4>2, <4>3
    <3> QED
      BY <3>1, <3>2
  <2>9. ASSUME NEW e \in Content(x, t, D) PROVE e \in Content(x, s, C)
    <3>1. CASE e \in C[a] \/ e = p \/ e \in C[b]
      BY <2>2, <2>4, <2>5, <3>1 DEF Content
    <3>2. CASE e \notin C[a] /\ e # p /\ e \notin C[b]
      <4>1. e \notin D[a] /\ e # k /\ e \notin D[b]
        BY <2>6, <3>2
      <4>2. CASE e \in KeysIn(t)
        BY <2>5, <4>1, <4>2 DEF Content
      <4>3. CASE e \notin KeysIn(t)
        <5>1. PICK n \in Slots(t) : e \in D[Sub(x, t, n)]
          BY <2>9, <4>3 DEF Content
        <5>2. n # i /\ n # j /\ n \in Slots(s)
          BY <2>2, <2>3, <4>1, <5>1
        <5>3. e \in C[Sub(x, s, n)]
          BY <2>2, <2>3, <5>1, <5>2
        <5> QED
          BY <5>2, <5>3 DEF Content
      <4> QED
        BY <4>2, <4>3
    <3> QED
      BY <3>1, <3>2
  <2> QED
    BY <2>1, <2>7, <2>8, <2>9
<1>29. ASSUME NEW n \in Nodes
       PROVE  /\ Good(zero'[n], elems'[n], H[n] - 1, D, H)
              /\ D[n] = Content(zero'[n], elems'[n], D)
  <2>1. CASE n = a
    <3>1. zero'[n] = z /\ elems'[n] = s1
      BY <1>3, <1>4, <1>11, <2>1
    <3> QED
      BY <1>3, <1>20, <2>1, <3>1
  <2>2. CASE n = b
    <3>1. zero'[n] = y /\ elems'[n] = s2 /\ H[n] = H[a]
      BY <1>4, <1>11, <2>2
    <3> QED
      BY <1>3, <1>20, <2>2, <3>1
  <2>3. CASE n = u
    <3>1. zero'[n] = zero[n] /\ elems'[n] = t /\ D[n] = C[n]
      BY <1>4, <1>11, <1>14, <1>18, <2>3
    <3> QED
      BY <1>27, <1>28, <2>3, <3>1
  <2>4. CASE n # a /\ n # b /\ n # u
    <3>1. zero'[n] = zero[n] /\ elems'[n] = elems[n] /\ D[n] = C[n]
      BY <1>11, <1>18, <2>4, Constants
    <3>2. /\ elems[n] \in Seq(Elems) /\ zero[n] \in Link
          /\ Good(zero[n], elems[n], H[n] - 1, C, H)
          /\ C[n] = Content(zero[n], elems[n], C)
      <4>1. /\ elems[n] \in Seq(Elems) /\ zero[n] \in Link
            /\ Good(zero[n], elems[n], H[n] - 1, C, H)
            /\ C[n] = Content(zero[n], elems[n], C) \cup Rising(n, C)
        BY <1>1, NodeIs
      <4>2. Rising(n, C) = {}
        BY DEF Rising
      <4> QED
        BY <4>1, <4>2
    <3>3. ASSUME NEW i \in Slots(elems[n])
          PROVE  D[Sub(zero[n], elems[n], i)] = C[Sub(zero[n], elems[n], i)]
      <4>1. Child(n, i) = Sub(zero[n], elems[n], i) /\ Sub(zero[n], elems[n], i) \in Link
        BY <3>2, ChildIs, SubIs
      <4>2. Child(n, i) # a /\ Child(n, i) # b
        <5>1. CASE n \in live
          BY <1>23, <2>4, <5>1
        <5>2. CASE n \notin live
          <6>1. zero[n] = None /\ elems[n] = <<>>
            BY <1>1, <5>2 DEF Tree
          <6>2. Child(n, i) = None
            BY <6>1 DEF Slots, Child
          <6> QED
            BY <1>4, <1>14, <6>2
        <5> QED
          BY <5>1, <5>2
      <4> QED
        BY <1>18, <4>1, <4>2
    <3>4. Good(zero[n], elems[n], H[n] - 1, D, H)
      BY <3>2, <3>3 DEF Good
    <3>5. Content(zero[n], elems[n], D) = Content(zero[n], elems[n], C)
      BY <3>2, <3>3, ContentSame
    <3> QED
      BY <3>1, <3>2, <3>4, <3>5
  <2> QED
    BY <2>1, <2>2, <2>3, <2>4
<1>30. Tree(D, H)'
  <2>1. \A n : Rising(n, D)' = {}
    BY <1>13 DEF Rising
  <2>2. root \in live /\ root # a /\ root # b /\ D[root] = C[root]
    BY <1>1, <1>4, <1>14, <1>18 DEF Types
  <2>3. ASSUME NEW n \in live PROVE D[n] \subseteq D[root]
    <3>1. \A m \in live : C[m] \subseteq C[root]
      BY <1>1 DEF Tree, Rising
    <3>2. D[a] \cup D[b] \subseteq C[a] \cup {p} \cup C[b]
      BY <1>18
    <3>3. p \in C[u]
      <4>1. p \in KeysIn(s)
        BY <1>4 DEF KeysIn
      <4> QED
        BY <1>15, <4>1 DEF Content
    <3>4. D[a] \cup D[b] \subseteq C[root]
      BY <1>4, <3>1, <3>2, <3>3
    <3> QED
      BY <1>14, <1>18, <2>2, <3>1, <3>4
  <2>4. D[None] = {} /\ H[None] = -1
    BY <1>1, <1>4, <1>14, <1>18, Constants DEF Tree
  <2>5. \A n \in Nodes \ live : zero'[n] = None /\ elems'[n] = <<>>
    BY <1>1, <1>4, <1>11 DEF Tree
  <2>6. \A n \in Nodes : H[n] \in 0 .. H[root]
    BY <1>1 DEF Tree
  <2>7. root' = root /\ live' = live
    BY <1>11
  <2>8. \A n \in Nodes : /\ Good(zero'[n], elems'[n], H[n] - 1, D, H)
                         /\ D[n] = Content(zero'[n], elems'[n], D) \cup Rising(n, D)'
    BY <1>29, <2>1
  <2>9. \A n \in live' : D[n] \subseteq D[root'] \cup Rising(None, D)'
    BY <2>3, <2>7
  <2> QED
    BY <1>6, <1>18, <2>4, <2>5, <2>6, <2>7, <2>8, <2>9 DEF Tree
<1>31. Types'
  BY <1>1, <1>11, <1>13, Constants DEF Types
<1>32. /\ \A i : Child(a, i)' = Sub(z, s1, i)
       /\ \A i : Child(b, i)' = Sub(y, s2, i)
       /\ \A i \in Slots(s) : Child(u, i)' = Child(u, i)
       /\ \A n \in Nodes \ {a, b, u} : \A i : Child(n, i)' = Child(n, i)
  <2>1. \A i : Child(a, i)' = Sub(z, s1, i)
    <3>1. zero'[a] = z /\ elems'[a] = s1
      BY <1>3, <1>4, <1>11
    <3> QED
      BY <3>1 DEF Child, Sub
  <2>2. \A i : Child(b, i)' = Sub(y, s2, i)
    <3>1. zero'[b] = y /\ elems'[b] = s2
      BY <1>11
    <3> QED
      BY <3>1 DEF Child, Sub
  <2>3. \A i \in Slots(s) : Child(u, i)' = Child(u, i)
    <3>1. zero'[u] = zero[u] /\ elems'[u] = t
      BY <1>4, <1>11
    <3>2. \A i : Child(u, i)' = Sub(zero[u], t, i)
      BY <3>1 DEF Child, Sub
    <3> QED
      BY <1>27, <1>21, <3>2
  <2>4. \A n \in Nodes \ {a, b, u} : \A i : Child(n, i)' = Child(n, i)
    <3>1. \A n \in Nodes \ {a, b, u} : zero'[n] = zero[n] /\ elems'[n] = elems[n]
      BY <1>11
    <3> QED
      BY <3>1 DEF Child
  <2> QED
    BY <2>1, <2>2, <2>3, <2>4
<1>33. \A n \in live : \A i \in Slots(elems[n]) :
         Child(n, i) # None => Child(n, i) \in live /\ parent[Child(n, i)] = n
  BY <1>1 DEF Links
<1>34. ASSUME NEW n \in live \ {a, b}
       PROVE  n \in Nodes /\ Slots(elems'[n]) = Slots(elems[n])
              /\ \A i \in Slots(elems[n]) : Child(n, i)' = Child(n, i)
  <2>1. CASE n = u
    BY <1>4, <1>11, <1>16, <1>21, <1>32, <2>1
  <2>2. CASE n # u
    BY <1>11, <1>14, <1>32, <2>2
  <2> QED
    BY <2>1, <2>2
<1>35. ASSUME NEW n \in live, NEW i \in Slots(elems'[n]), Child(n, i)' # None
       PROVE  Child(n, i)' \in live /\ parent'[Child(n, i)'] = n
  <2>1. PICK m : m = Child(n, i)'
    OBVIOUS
  <2>2. CASE n = a
    <3>1. m = Sub(z, s1, i) /\ i \in Slots(s1) /\ m # None
      BY <1>11, <1>32, <1>35, <2>1, <2>2
    <3>2. PICK x \in Slots(J) : Sub(z, J, x) = m
      BY <1>10, <3>1
    <3>3. m \in live /\ parent'[m] = a
      BY <1>7, <1>12, <3>1, <3>2
    <3> QED
      BY <2>1, <2>2, <3>3
  <2>3. CASE n = b
    <3>1. m = Sub(y, s2, i) /\ i \in Slots(s2) /\ m # None
      BY <1>11, <1>32, <1>35, <2>1, <2>3
    <3>2. PICK x \in Slots(J) : Sub(z, J, x) = m
      BY <1>10, <3>1
    <3>3. m \in live /\ parent'[m] = b
      BY <1>7, <1>12, <3>1, <3>2
    <3> QED
      BY <2>1, <2>3, <3>3
  <2>4. CASE n \notin {a, b}
    <3>1. i \in Slots(elems[n]) /\ m = Child(n, i) /\ m # None
      BY <1>34, <1>35, <2>1, <2>4
    <3>2. m \in live /\ parent[m] = n /\ m \in Nodes
      BY <1>14, <1>33, <3>1
    <3>3. parent'[m] = n
      BY <1>12, <2>4, <3>2
    <3> QED
      BY <2>1, <3>2, <3>3
  <2> QED
    BY <2>2, <2>3, <2>4
<1>36. ASSUME NEW n \in live \ {root}
       PROVE  parent'[n] \in live /\ \E i \in Slots(elems'[parent'[n]]) : Child(parent[n], i)' = n
  <2>1. PICK m : m = parent[n]
    OBVIOUS
  <2>2. m \in live /\ n \in Nodes /\ n # None /\ \E i \in Slots(elems[m]) : Child(m, i) = n
    BY <1>1, <1>14, <2>1 DEF Links
  <2>3. CASE m \notin {a, b}
    <3>1. parent'[n] = m
      BY <1>12, <2>1, <2>2, <2>3
    <3>2. \A i : Child(parent[n], i)' = Child(m, i)'
      BY <3>1 DEF Child
    <3>3. \E i \in Slots(elems'[m]) : Child(m, i)' = n
      BY <1>34, <2>2, <2>3
    <3> QED
      BY <2>2, <3>1, <3>2, <3>3
  <2>4. CASE m \in {a, b}
    <3>1. PICK x \in Slots(J) : Sub(z, J, x) = n
      BY <1>8, <2>2, <2>4
    <3>2. CASE \E i \in Slots(s1) : Sub(z, s1, i) = n
      <4>1. parent'[n] = a
        BY <1>12, <2>2, <3>2
      <4>2. \A i : Child(parent[n], i)' = Child(a, i)'
        BY <4>1 DEF Child
      <4>3. \E i \in Slots(elems'[a]) : Child(parent[n], i)' = n
        BY <1>11, <1>32, <3>2, <4>2
      <4> QED
        BY <1>4, <4>1, <4>3
    <3>3. CASE \E i \in Slots(s2) : Sub(y, s2, i) = n
      <4>1. parent'[n] = b
        BY <1>12, <2>2, <3>3
      <4>2. \A i : Child(parent[n], i)' = Child(b, i)'
        BY <4>1 DEF Child
      <4>3. \E i \in Slots(elems'[b]) : Child(parent[n], i)' = n
        BY <1>11, <1>32, <3>3, <4>2
      <4> QED
        BY <1>4, <4>1, <4>3
    <3> QED
      BY <1>10, <3>1, <3>2, <3>3
  <2> QED
    BY <2>3, <2>4
<1>37. Links'
  <2>1. parent'[root] = None
    <3>1. parent[root] = None /\ root \in Nodes
      BY <1>1, <1>14 DEF Links, Types
    <3>2. a # None /\ b # None
      BY <1>4, <1>14
    <3> QED
      BY <1>12, <3>1, <3>2
  <2>2. root' = root /\ live' = live
    BY <1>11
  <2> QED
    BY <1>35, <1>36, <2>1, <2>2 DEF Links
<1>38. KeyOnce'
  <2>1. ASSUME NEW n \in live \ {a, b, u}
        PROVE  /\ elems'[n] = elems[n]
               /\ \A x \in KeysIn(elems[n]) : x \notin KeysIn(J)
    <3>1. p \in KeysIn(elems[u])
      BY <1>4, <1>21 DEF KeysIn
    <3>2. \A x \in KeysIn(elems[n]) : /\ x \notin KeysIn(elems[a])
                                      /\ x \notin KeysIn(elems[b]) /\ x # p
      BY <1>2, <1>4, <3>1 DEF Once
    <3> QED
      BY <1>6, <1>11, <1>14, <3>2
  <2>2. k \in KeysIn(J) /\ KeysIn(s1) \subseteq KeysIn(J) /\ KeysIn(s2) \subseteq KeysIn(J)
    BY <1>9
  <2>3. \A x \in KeysIn(t) : (x \in KeysIn(elems[u]) /\ x # p) \/ x = k
    BY <1>27, <1>21
  <2>4. \A x \in KeysIn(elems[u]) : x # p => x \notin KeysIn(J)
    BY <1>2, <1>4, <1>6 DEF Once
  <2>5. \A n \in live \ {a, b, u} : \A x \in KeysIn(elems[n]) : x \notin KeysIn(elems[u])
    BY <1>2, <1>4 DEF Once
  <2>6. KeysIn(s1) \cap KeysIn(s2) = {} /\ KeysIn(t) \cap KeysIn(s1) = {} /\ KeysIn(t) \cap KeysIn(s2) = {}
    BY <1>9, <2>2, <2>3, <2>4
  <2>7. ASSUME NEW n \in live \ {a, b, u}
        PROVE  \A x \in KeysIn(elems'[n]) : x \notin KeysIn(s1) \cup KeysIn(s2) \cup KeysIn(t)
    BY <2>1, <2>2, <2>3, <2>5
  <2>8. \A n \in live : n = a \/ n = b \/ n = u \/ n \in live \ {a, b, u}
    OBVIOUS
  <2>9. \A m, n \in live \ {a, b, u} : m # n => KeysIn(elems'[m]) \cap KeysIn(elems'[n]) = {}
    BY <1>2, <2>1 DEF Once
  <2>10. ASSUME NEW m \in live, NEW n \in live, m # n
         PROVE  KeysIn(elems'[m]) \cap KeysIn(elems'[n]) = {}
    <3>1. CASE m \in {a, b, u} /\ n \in {a, b, u}
      BY <1>11, <2>6, <2>10, <3>1
    <3>2. CASE m \in {a, b, u} /\ n \notin {a, b, u}
      BY <1>11, <2>7, <3>2
    <3>3. CASE m \notin {a, b, u} /\ n \in {a, b, u}
      BY <1>11, <2>7, <3>3
    <3>4. CASE m \notin {a, b, u} /\ n \notin {a, b, u}
      BY <2>9, <2>10, <3>4
    <3> QED
      BY <3>1, <3>2, <3>3, <3>4
  <2>11. live' = live /\ pc' # "insert"
    BY <1>11, <1>13
  <2> QED
    BY <2>10, <2>11 DEF KeyOnce
<1>39. Fill'
  <2>1. Size \in Int /\ MinKeys \in Int /\ MinKeys >= 2
    BY Constants
  <2>2. \A n \in Nodes : Len(elems[n]) <= Size - 2
    BY <1>1 DEF Fill
  <2>3. ASSUME NEW n \in Nodes PROVE Len(elems'[n]) <= Size - 2
    BY <1>11, <1>12, <1>16, <1>21, <2>2
  <2>4. ASSUME NEW n \in live \ {root} PROVE Len(elems'[n]) >= MinKeys
    <3>1. n \in {a, b} \/ Len(elems[n]) >= MinKeys
      BY <1>1 DEF Fill
    <3> QED
      BY <1>11, <1>12, <1>14, <1>16, <1>21, <3>1
  <2>5. zero'[root] = None \/ elems'[root] # <<>>
    <3>1. root \in Nodes /\ zero'[root] = zero[root]
      BY <1>1, <1>4, <1>11, <1>14 DEF Types
    <3>2. CASE root = u
      <4>1. Len(t) # 0
        BY <1>4, <1>15, <1>16
      <4> QED
        BY <1>11, <3>2, <4>1
    <3>3. CASE root # u
      BY <1>1, <1>4, <1>11, <3>1, <3>3 DEF Fill, IsLeaf
    <3> QED
      BY <3>2, <3>3
  <2>6. root' = root /\ live' = live
    BY <1>11
  <2> QED
    BY <2>3, <2>4, <2>5, <2>6 DEF Fill, IsLeaf
<1>40. Searching(D, H)' /\ Inserting(D, H)' /\ Repair'
  BY <1>13 DEF Searching, Inserting, Repair
<1>41. Unseen
  <2>1. PICK K : K = KeysIn(J) \cup KeysIn(s)
    OBVIOUS
  <2>2. /\ KeysIn(elems[a]) \subseteq K /\ KeysIn(elems[b]) \subseteq K /\ KeysIn(elems[u]) \subseteq K
        /\ p \in KeysIn(elems[u])
        /\ \A x \in K : x \in KeysIn(elems[a]) \/ x \in KeysIn(elems[b]) \/ x \in KeysIn(elems[u])
    <3>1. p \in KeysIn(elems[u]) /\ s = elems[u]
      BY <1>4, <1>21 DEF KeysIn
    <3> QED
      BY <1>6, <2>1, <3>1
  <2>3. /\ KeysIn(elems'[a]) \subseteq K /\ KeysIn(elems'[b]) \subseteq K /\ KeysIn(elems'[u]) \subseteq K
        /\ \A x \in K : x \in KeysIn(elems'[a]) \/ x \in KeysIn(elems'[b]) \/ x \in KeysIn(elems'[u])
    <3>1. elems'[a] = s1 /\ elems'[b] = s2 /\ elems'[u] = t
      BY <1>11
    <3>2. KeysIn(t) = (KeysIn(s) \ {p}) \cup {k}
      BY <1>27
    <3>3. p \in KeysIn(J)
      BY <1>6
    <3> QED
      BY <1>9, <2>1, <3>1, <3>2, <3>3
  <2>4. live' = live /\ \A n \in live : n \notin {a, b, u} => elems'[n] = elems[n]
    BY <1>11, <1>14
  <2>5. a \in live /\ b \in live /\ u \in live /\ pc' # "insert"
    BY <1>4, <1>13
  <2>6. PICK S : S = {a, b, u}
    OBVIOUS
  <2>7. Moves(S, K)
    BY <2>6, <2>2, <2>3, <2>4, <2>5 DEF Moves
  <2>8. AllKeys' = AllKeys
    BY <2>7, KeysMoved
  <2>9. ret = <<call, want, TRUE>> /\ ret' = <<call, want, TRUE>>
    BY DEF Inv, Repair, Rotates, Return, Result
  <2> QED
    BY <2>9, <2>8 DEF Unseen
<1> QED
  BY <1>30, <1>31, <1>37, <1>38, <1>39, <1>40, <1>41 DEF IInv, Inv

\* The element after the first of two nodes goes to it, and the next takes its place.
LEMMA ShiftLeft ==
  ASSUME NEW a \in Seq(Elems), NEW b \in Seq(Elems), NEW p, NEW z, NEW J \in Seq(Elems),
         Joins(J, a, p, z, b), Len(b) > 0,
         NEW s \in Seq(Elems), Inserts(s, a, Len(a), Elem(p, z))
  PROVE  /\ Tail(b) \in Seq(Elems) /\ Len(Tail(b)) = Len(b) - 1 /\ Len(s) = Len(a) + 1
         /\ \A i \in 1 .. Len(b) - 1 : Tail(b)[i] = b[i + 1]
         /\ J[Len(s) + 1] = b[1] /\ b[1] \in Elems
         /\ Joins(J, s, b[1].key, b[1].sub, Tail(b))
<1>1. /\ Len(J) = Len(a) + 1 + Len(b)
      /\ \A i \in 1 .. Len(a) : J[i] = a[i]
      /\ J[Len(a) + 1].key = p /\ J[Len(a) + 1].sub = z
      /\ \A i \in 1 .. Len(b) : J[Len(a) + 1 + i] = b[i]
  BY DEF Joins
<1>2. /\ Len(s) = Len(a) + 1
      /\ \A i \in 1 .. Len(a) : s[i] = a[i]
      /\ s[Len(a) + 1] = Elem(p, z)
  BY DEF Inserts
<1>3. Len(a) \in Nat /\ Len(b) \in Nat /\ b # <<>>
  OBVIOUS
<1>4. /\ Tail(b) \in Seq(Elems) /\ Len(Tail(b)) = Len(b) - 1
      /\ \A i \in 1 .. Len(b) - 1 : Tail(b)[i] = b[i + 1]
  BY <1>3, HeadTailProperties
<1>5. J[Len(a) + 1] = s[Len(a) + 1]
  <2>1. Len(a) + 1 \in 1 .. Len(J)
    BY <1>1, <1>3
  <2>2. J[Len(a) + 1] \in Elems
    BY <2>1
  <2> QED
    BY <1>1, <1>2, <2>2 DEF Elems, Elem
<1>6. \A i \in 1 .. Len(s) : J[i] = s[i]
  <2> SUFFICES ASSUME NEW i \in 1 .. Len(s) PROVE J[i] = s[i]
    OBVIOUS
  <2>1. i \in 1 .. Len(a) \/ i = Len(a) + 1
    BY <1>2, <1>3
  <2> QED
    BY <1>1, <1>2, <1>5, <2>1
<1>7. J[Len(s) + 1] = b[1] /\ b[1] \in Elems
  <2>1. 1 \in 1 .. Len(b) /\ Len(s) + 1 = Len(a) + 1 + 1
    BY <1>2, <1>3
  <2> QED
    BY <1>1, <2>1
<1>8. \A i \in 1 .. Len(Tail(b)) : J[Len(s) + 1 + i] = Tail(b)[i]
  <2> SUFFICES ASSUME NEW i \in 1 .. Len(b) - 1 PROVE J[Len(s) + 1 + i] = Tail(b)[i]
    BY <1>4
  <2> PICK k : k = i + 1
    OBVIOUS
  <2>1. k \in 1 .. Len(b) /\ Len(s) + 1 + i = Len(a) + 1 + k
    BY <1>2, <1>3
  <2> QED
    BY <1>1, <1>4, <2>1
<1>9. Len(J) = Len(s) + 1 + Len(Tail(b))
  BY <1>1, <1>2, <1>3, <1>4
<1> QED
  BY <1>2, <1>4, <1>6, <1>7, <1>8, <1>9 DEF Joins

\* The same to the right
LEMMA ShiftRight ==
  ASSUME NEW a \in Seq(Elems), NEW b \in Seq(Elems), NEW p, NEW z, NEW J \in Seq(Elems),
         Joins(J, a, p, z, b), Len(a) > 0,
         NEW s \in Seq(Elems), Inserts(s, b, 0, Elem(p, z))
  PROVE  /\ Front(a) \in Seq(Elems) /\ Len(Front(a)) = Len(a) - 1 /\ Len(s) = Len(b) + 1
         /\ \A i \in 1 .. Len(a) - 1 : Front(a)[i] = a[i]
         /\ J[Len(a)] = a[Len(a)] /\ a[Len(a)] \in Elems
         /\ Joins(J, Front(a), a[Len(a)].key, a[Len(a)].sub, s)
<1>1. /\ Len(J) = Len(a) + 1 + Len(b)
      /\ \A i \in 1 .. Len(a) : J[i] = a[i]
      /\ J[Len(a) + 1].key = p /\ J[Len(a) + 1].sub = z
      /\ \A i \in 1 .. Len(b) : J[Len(a) + 1 + i] = b[i]
  BY DEF Joins
<1>2. /\ Len(s) = Len(b) + 1
      /\ s[1] = Elem(p, z)
      /\ \A i \in 1 .. Len(b) : s[i + 1] = b[i]
  <2>1. s[0 + 1] = Elem(p, z) /\ Len(s) = Len(b) + 1
        /\ \A i \in 0 + 1 .. Len(b) : s[i + 1] = b[i]
    BY DEF Inserts
  <2>2. 0 + 1 = 1
    OBVIOUS
  <2> QED
    BY <2>1, <2>2
<1>3. Len(a) \in Nat /\ Len(b) \in Nat /\ a # <<>>
  OBVIOUS
<1>4. /\ Front(a) \in Seq(Elems) /\ Len(Front(a)) = Len(a) - 1
      /\ \A i \in 1 .. Len(a) - 1 : Front(a)[i] = a[i]
  <2>1. Len(a) \in 1 .. Len(a)
    BY <1>3
  <2>2. /\ SubSeq(a, 1, Len(a) - 1) \in Seq(Elems) /\ Len(SubSeq(a, 1, Len(a) - 1)) = Len(a) - 1
        /\ \A i \in 1 .. Len(SubSeq(a, 1, Len(a) - 1)) : a[i] = SubSeq(a, 1, Len(a) - 1)[i]
    BY <2>1, CutIs DEF Joins
  <2> QED
    BY <2>2 DEF Front
<1>5. J[Len(a) + 1] = s[1]
  <2>1. Len(a) + 1 \in 1 .. Len(J)
    BY <1>1, <1>3
  <2>2. J[Len(a) + 1] \in Elems
    BY <2>1
  <2> QED
    <3>1. PICK e : e = J[Len(a) + 1]
      OBVIOUS
    <3>2. e \in Elems /\ e.key = p /\ e.sub = z
      BY <1>1, <2>2, <3>1
    <3>3. e = Elem(p, z)
      BY <3>2 DEF Elems, Elem
    <3>4. s[1] = Elem(p, z)
      BY <1>2
    <3> QED
      BY <3>1, <3>3, <3>4, Zenon
<1>6. \A i \in 1 .. Len(Front(a)) : J[i] = Front(a)[i]
  <2> SUFFICES ASSUME NEW i \in 1 .. Len(Front(a)) PROVE J[i] = Front(a)[i]
    OBVIOUS
  <2>1. i \in 1 .. Len(a) - 1
    BY <1>4
  <2>2. i \in 1 .. Len(a)
    BY <1>3, <2>1
  <2> QED
    BY <1>1, <1>4, <2>1, <2>2
<1>7. J[Len(a)] = a[Len(a)] /\ a[Len(a)] \in Elems
  <2>1. Len(a) \in 1 .. Len(a)
    BY <1>3
  <2> QED
    BY <1>1, <2>1
<1>8. \A i \in 1 .. Len(s) : J[Len(Front(a)) + 1 + i] = s[i]
  <2> SUFFICES ASSUME NEW i \in 1 .. Len(s) PROVE J[Len(Front(a)) + 1 + i] = s[i]
    OBVIOUS
  <2>1. CASE i = 1
    <3>1. Len(Front(a)) + 1 + i = Len(a) + 1
      BY <1>3, <1>4, <2>1
    <3> QED
      BY <1>5, <2>1, <3>1
  <2>2. CASE i # 1
    <3> PICK k : k = i - 1
      OBVIOUS
    <3>1. k \in 1 .. Len(b) /\ k + 1 = i
      BY <1>2, <1>3, <2>2
    <3>2. Len(Front(a)) + 1 + i = Len(a) + 1 + k
      BY <1>3, <1>4, <3>1
    <3> QED
      BY <1>1, <1>2, <3>1, <3>2
  <2> QED
    BY <2>1, <2>2
<1>9. Len(J) = Len(Front(a)) + 1 + Len(s) /\ Len(Front(a)) + 1 = Len(a)
  BY <1>1, <1>2, <1>3, <1>4
<1> QED
  BY <1>2, <1>4, <1>6, <1>7, <1>8, <1>9 DEF Joins

\* What the subtrees of neighbours are
Beside(a, b, H) ==
  /\ \A i \in Slots(elems[a]) : Child(a, i) # None =>
       parent[Child(a, i)] = a /\ Child(a, i) \in Nodes /\ Child(a, i) # zero[b]
  /\ \A i \in Slots(elems[b]) : Child(b, i) # None =>
       parent[Child(b, i)] = b /\ Child(b, i) \in Nodes /\ (i # 0 => Child(b, i) # zero[b])
  /\ elems[a] \in Seq(Elems) /\ elems[b] \in Seq(Elems) /\ Sorted(elems[a]) /\ Sorted(elems[b])
  /\ Len(elems[a]) \in Nat /\ Len(elems[b]) \in Nat
  /\ zero[a] \in Link /\ zero[b] \in Link /\ (zero[b] # None => parent[zero[b]] = b)

LEMMA BesideIs ==
  ASSUME NEW C, NEW H, Inv(C, H), NEW u, NEW j, NEW a, NEW b, NEW p, Siblings(u, j, a, b, p, H)
  PROVE  Beside(a, b, H)
<1>1. Types /\ Links /\ Tree(C, H)
  BY DEF Inv
<1>2. a \in live /\ b \in live /\ a \in Nodes /\ b \in Nodes /\ a # b
  BY DEF Siblings
<1>3. /\ elems[a] \in Seq(Elems) /\ elems[b] \in Seq(Elems) /\ Sorted(elems[a]) /\ Sorted(elems[b])
      /\ Len(elems[a]) \in Nat /\ Len(elems[b]) \in Nat /\ zero[a] \in Link /\ zero[b] \in Link
  <2>1. /\ elems[a] \in Seq(Elems) /\ Sorted(elems[a]) /\ Len(elems[a]) \in Nat /\ zero[a] \in Link
    BY <1>1, <1>2, NodeIs
  <2>2. /\ elems[b] \in Seq(Elems) /\ Sorted(elems[b]) /\ Len(elems[b]) \in Nat /\ zero[b] \in Link
    BY <1>1, <1>2, NodeIs
  <2> QED
    BY <2>1, <2>2
<1>4. 0 \in Slots(elems[b]) /\ Child(b, 0) = zero[b]
  BY <1>3 DEF Slots, Child
<1>5. ASSUME NEW c \in {a, b}, NEW i \in Slots(elems[c]), Child(c, i) # None
      PROVE  /\ parent[Child(c, i)] = c /\ Child(c, i) \in Nodes
             /\ \A k \in Slots(elems[b]) : Child(b, k) = Child(c, i) => b = c /\ k = i
  <2>1. c \in live
    BY <1>2
  <2> QED
    BY <1>1, <1>2, <1>5, <2>1, KidIs
<1>6. \A i \in Slots(elems[a]) : Child(a, i) # None =>
        parent[Child(a, i)] = a /\ Child(a, i) \in Nodes /\ Child(a, i) # zero[b]
  BY <1>2, <1>4, <1>5
<1>7. \A i \in Slots(elems[b]) : Child(b, i) # None =>
        parent[Child(b, i)] = b /\ Child(b, i) \in Nodes /\ (i # 0 => Child(b, i) # zero[b])
  BY <1>2, <1>4, <1>5
<1>8. zero[b] # None => parent[zero[b]] = b
  BY <1>4, <1>7
<1> QED
  BY <1>3, <1>6, <1>7, <1>8 DEF Beside

\* Which nodes have a new parent
LEMMA AdoptIs ==
  ASSUME NEW par \in [Nodes -> Link], NEW n \in Nodes, NEW z, NEW e
  PROVE  /\ Adopt(par, n, z, <<e>>) \in [Nodes -> Link]
         /\ \A m \in Nodes : Adopt(par, n, z, <<e>>)[m] =
              IF m = z \/ m = e.sub THEN n ELSE par[m]
<1>1. Subtrees(z, <<e>>) = {z, e.sub} \ {None}
  <2>1. Len(<<e>>) = 1 /\ <<e>>[1] = e
    OBVIOUS
  <2>2. {<<e>>[i].sub : i \in 1 .. Len(<<e>>)} = {e.sub}
    BY <2>1
  <2> QED
    BY <2>2 DEF Subtrees
<1>2. \A m \in Nodes : m # None
  BY Constants
<1>3. n \in Link
  BY Constants
<1> QED
  BY <1>1, <1>2, <1>3 DEF Adopt

LEMMA RotateFromRightInv ==
  ASSUME NEW C, NEW H, Inv(C, H), RotateFromRight
  PROVE  IInv' /\ Unseen
<1>1. pc = "repair" /\ cur # root
  BY DEF RotateFromRight, Repairing
<1>2. Types /\ Fill /\ Links /\ Tree(C, H)
  BY DEF Inv
<1>3. PICK u, j : Misses(cur, u, j)
  BY <1>1, MissesIs
<1>4. PICK a, b, p, z, y : a = cur /\ b = Right(cur) /\ p = elems[u][j + 1].key
                           /\ z = zero[cur] /\ y = zero[Right(cur)]
  OBVIOUS
<1>5. /\ a \in live \ {root} /\ a \in Nodes /\ u \in live /\ u \in Nodes /\ parent[a] = u
      /\ Len(elems[a]) = MinKeys - 1 /\ j \in Slots(elems[u]) /\ Child(u, j) = a /\ Index(a) = j
  BY <1>4, <1>3 DEF Misses
<1>6. b # None /\ Len(elems[b]) > MinKeys
  BY <1>4 DEF RotateFromRight, CanLend
<1>7. j # Len(elems[u]) /\ b = Child(u, j + 1)
  BY <1>4, <1>5, <1>6 DEF Right
<1>8. Siblings(u, j, a, b, p, H)
  <2>1. j + 1 \in Slots(elems[u])
    BY <1>2, <1>5, <1>7, SeqLen DEF Types, Slots
  <2>2. Child(u, j) # None
    BY <1>2, <1>5, Constants
  <2>3. Siblings(u, j, Child(u, j), Child(u, j + 1), elems[u][j + 1].key, H)
    BY <1>5, <2>1, <2>2, SiblingsAre
  <2> QED
    BY <1>4, <1>5, <1>7, <2>3
<1>9. /\ j + 1 \in 1 .. Len(elems[u]) /\ a # u /\ b # u /\ a # b /\ b \in Nodes /\ b \in live
      /\ p \in Keys /\ p \in Int /\ elems[u][j + 1].key = p /\ H[a] \in Nat
  BY <1>8 DEF Siblings
<1>10. PICK J : J = elems[a] \o (<<Elem(p, zero[b])>> \o elems[b])
  OBVIOUS
<1>11. Joint(J, u, a, b, p, C, H)
  BY <1>1, <1>8, <1>10, JointIs
<1>12. Beside(a, b, H)
  BY <1>8, BesideIs
<1>13. /\ elems[a] \in Seq(Elems) /\ elems[b] \in Seq(Elems) /\ Sorted(elems[a])
       /\ Len(elems[a]) \in Nat /\ Len(elems[b]) \in Nat /\ z \in Link /\ y \in Link
       /\ z = zero[a] /\ y = zero[b]
  BY <1>4, <1>12 DEF Beside
<1>14. PICK s1, s2, e : s1 = Put(elems[a], Elem(p, y)) /\ s2 = Tail(elems[b]) /\ e = Elem(p, y)
  OBVIOUS
<1>15. s1 \in Seq(Elems) /\ Inserts(s1, elems[a], Len(elems[a]), e)
  <2>1. e \in Elems /\ e.key = p
    BY <1>9, <1>13, <1>14 DEF Elem, Elems
  <2>2. Len(elems[a]) \in Slots(elems[a]) /\ ~(Len(elems[a]) < Len(elems[a]))
    BY <1>13 DEF Slots
  <2>3. Len(elems[a]) > 0 => elems[a][Len(elems[a])].key <= p
    <3> SUFFICES ASSUME Len(elems[a]) > 0 PROVE elems[a][Len(elems[a])].key <= p
      OBVIOUS
    <3>1. Len(elems[a]) \in 1 .. Len(elems[a])
      BY <1>13
    <3>2. elems[a][Len(elems[a])].key \in C[a] /\ elems[a][Len(elems[a])].key \in Int
      BY <1>2, <1>5, <1>13, <3>1, ElemIs, NodeIs DEF KeysIn
    <3>3. \A k \in C[a] : k < p
      BY <1>11 DEF Joint
    <3> QED
      BY <1>9, <3>2, <3>3
  <2>4. InGap(elems[a], Len(elems[a]), e.key)
    BY <2>1, <2>2, <2>3 DEF InGap
  <2>5. Put(elems[a], e) \in Seq(Elems) /\ Inserts(Put(elems[a], e), elems[a], Len(elems[a]), e)
    BY <1>13, <2>1, <2>2, <2>4, PutIs
  <2> QED
    BY <1>14, <2>5
<1>16. PICK q : q = Len(s1) + 1
  OBVIOUS
<1>17. /\ s2 \in Seq(Elems) /\ Len(s2) = Len(elems[b]) - 1 /\ Len(s1) = Len(elems[a]) + 1
       /\ \A i \in 1 .. Len(elems[b]) - 1 : s2[i] = elems[b][i + 1]
       /\ J[q] = elems[b][1] /\ elems[b][1] \in Elems
       /\ Joins(J, s1, elems[b][1].key, elems[b][1].sub, s2)
  <2>1. J \in Seq(Elems) /\ Joins(J, elems[a], p, y, elems[b])
    BY <1>11, <1>13 DEF Joint
  <2>2. Len(elems[b]) > 0
    BY <1>6, <1>13, Constants
  <2>3. Inserts(s1, elems[a], Len(elems[a]), Elem(p, y))
    BY <1>14, <1>15
  <2> QED
    BY <1>13, <1>14, <1>15, <1>16, <2>1, <2>2, <2>3, ShiftLeft
<1>18. Halves(J, q, zero[a], s1, s2, H[a] - 1, C, H)
  <2>1. PICK l : l = H[a] - 1
    OBVIOUS
  <2>2. J[q].key \in Keys /\ J[q].sub \in Link
    BY <1>17 DEF Elems
  <2>3. /\ J \in Seq(Elems) /\ C \in [Link -> SUBSET Keys] /\ H \in [Link -> Int]
        /\ Good(z, J, l, C, H)
    BY <1>11, <1>13, <2>1 DEF Joint
  <2>4. Joins(J, s1, J[q].key, J[q].sub, s2)
    BY <1>17
  <2>5. CutAt(J, q, z, s1, s2, l, C, H)
    BY <1>13, <1>15, <1>16, <1>17, <2>2, <2>3, <2>4 DEF CutAt, Cut
  <2>6. Halves(J, q, z, s1, s2, l, C, H)
    BY <2>5, HalvesIs
  <2> QED
    BY <1>13, <2>1, <2>6
<1>19. /\ elems' \in [Nodes -> Seq(Elems)]
       /\ elems'[a] = s1 /\ elems'[b] = s2
       /\ elems'[u] = [elems[u] EXCEPT ![j + 1] = Elem(J[q].key, b)]
       /\ \A n \in Nodes \ {u, a, b} : elems'[n] = elems[n]
       /\ zero' \in [Nodes -> Link] /\ zero'[b] = J[q].sub
       /\ \A n \in Nodes \ {b} : zero'[n] = zero[n]
       /\ parent' = Adopt(parent, a, None, <<e>>)
       /\ root' = root /\ live' = live
       /\ Return(TRUE) /\ UNCHANGED <<script, calls>>
  <2>1. /\ elems' = [elems EXCEPT ![u] = [elems[u] EXCEPT ![j + 1] = Elem(elems[b][1].key, b)],
                                  ![a] = Put(elems[a], e),
                                  ![b] = Tail(elems[b])]
        /\ zero' = [zero EXCEPT ![b] = elems[b][1].sub]
        /\ parent' = Adopt(parent, a, None, <<e>>)
        /\ root' = root /\ live' = live
        /\ Return(TRUE) /\ UNCHANGED <<script, calls>>
    BY <1>4, <1>5, <1>9, <1>14 DEF RotateFromRight
  <2>2. elems \in [Nodes -> Seq(Elems)] /\ zero \in [Nodes -> Link]
    BY <1>2 DEF Types
  <2>3. [elems[u] EXCEPT ![j + 1] = Elem(elems[b][1].key, b)] \in Seq(Elems)
    <3>1. elems[u] \in Seq(Elems) /\ b \in Link
      BY <1>5, <1>9, <2>2, Constants
    <3>2. Elem(elems[b][1].key, b) \in Elems
      BY <1>17, <3>1 DEF Elem, Elems
    <3>3. PICK s, f : s = elems[u] /\ f = Elem(elems[b][1].key, b)
      OBVIOUS
    <3>4. s \in Seq(Elems) /\ f \in Elems /\ j + 1 \in 1 .. Len(s)
      BY <1>9, <3>3, <3>1, <3>2
    <3>5. [s EXCEPT ![j + 1] = f] \in Seq(Elems)
      BY <3>4
    <3> QED
      BY <3>3, <3>5
  <2>4. s1 = Put(elems[a], e)
    BY <1>14
  <2>5. elems[b][1].sub \in Link
    BY <1>17 DEF Elems
  <2> QED
    BY <1>5, <1>9, <1>14, <1>15, <1>17, <2>1, <2>2, <2>3, <2>4, <2>5
<1>20. /\ parent' \in [Nodes -> Link]
       /\ \A m \in Nodes : parent'[m] = IF m = y THEN a ELSE parent[m]
  <2>1. parent \in [Nodes -> Link] /\ e.sub = y
    BY <1>2, <1>14 DEF Types, Elem
  <2>2. \A m \in Nodes : m # None
    BY Constants
  <2>3. /\ Adopt(parent, a, None, <<e>>) \in [Nodes -> Link]
        /\ \A m \in Nodes : Adopt(parent, a, None, <<e>>)[m] =
             IF m = None \/ m = e.sub THEN a ELSE parent[m]
    BY <1>5, <2>1, AdoptIs
  <2> QED
    BY <1>19, <2>1, <2>2, <2>3
<1>21. \A i \in Slots(s1) : Sub(z, s1, i) # None => parent'[Sub(z, s1, i)] = a
  <2> SUFFICES ASSUME NEW i \in Slots(s1), Sub(z, s1, i) # None
               PROVE  parent'[Sub(z, s1, i)] = a
    OBVIOUS
  <2>1. Sub(z, s1, i) \in Nodes
    <3>1. Sub(z, s1, i) \in Link
      BY <1>13, <1>15, SubIs
    <3> QED
      BY <3>1 DEF Link
  <2>2. CASE i = Len(elems[a]) + 1
    <3>1. Sub(z, s1, i) = y
      BY <1>13, <1>14, <1>15, <2>2 DEF Sub, Inserts, Elem
    <3> QED
      BY <1>20, <2>1, <3>1
  <2>3. CASE i # Len(elems[a]) + 1
    <3>1. i \in Slots(elems[a])
      BY <1>13, <1>17, <2>3 DEF Slots
    <3>2. Sub(z, s1, i) = Sub(z, elems[a], i)
      BY <1>13, <1>15, <3>1 DEF Sub, Inserts, Slots
    <3>3. Child(a, i) = Sub(z, s1, i)
      BY <1>5, <1>13, <3>2, ChildIs
    <3>4. parent[Sub(z, s1, i)] = a
      BY <1>12, <3>1, <3>3 DEF Beside
    <3> QED
      BY <1>20, <2>1, <3>4
  <2> QED
    BY <2>2, <2>3
<1>22. \A i \in Slots(s2) : Sub(J[q].sub, s2, i) # None => parent'[Sub(J[q].sub, s2, i)] = b
  <2> SUFFICES ASSUME NEW i \in Slots(s2), Sub(J[q].sub, s2, i) # None
               PROVE  parent'[Sub(J[q].sub, s2, i)] = b
    OBVIOUS
  <2>1. PICK k : k = i + 1
    OBVIOUS
  <2>2. k \in Slots(elems[b]) /\ k # 0 /\ i \in Nat /\ k \in 1 .. Len(elems[b])
        /\ (i # 0 => i \in 1 .. Len(elems[b]) - 1)
    BY <1>13, <1>17, <2>1 DEF Slots
  <2>3. Sub(J[q].sub, s2, i) = Child(b, k)
    <3>1. CASE i = 0
      BY <1>17, <2>1, <2>2, <3>1 DEF Sub, Child
    <3>2. CASE i # 0
      BY <1>17, <2>1, <2>2, <3>2 DEF Sub, Child
    <3> QED
      BY <3>1, <3>2
  <2>4. Child(b, k) # y /\ parent[Child(b, k)] = b /\ Child(b, k) \in Nodes
    BY <1>12, <1>13, <2>2, <2>3 DEF Beside
  <2> QED
    BY <1>20, <2>3, <2>4
<1>23. \A n \in Nodes : parent[n] \notin {a, b} => parent'[n] = parent[n]
  <2>1. \A n \in Nodes : n # None
    BY Constants
  <2>2. y # None => parent[y] = b
    BY <1>12, <1>13 DEF Beside
  <2> QED
    BY <1>20, <2>1, <2>2
<1>24. MinKeys <= Len(s1) /\ Len(s1) <= Size - 2 /\ MinKeys <= Len(s2) /\ Len(s2) <= Size - 2
  <2>1. /\ MinKeys \in Int /\ Size \in Int /\ MinKeys <= Size - 2
        /\ Len(elems[b]) <= Size - 2
    BY <1>2, <1>9, Constants DEF Fill
  <2> QED
    BY <1>5, <1>6, <1>13, <1>17, <2>1
<1>25. Rotates(u, j, a, b, s1, J[q].key, J[q].sub, s2)
  BY <1>13, <1>19, <1>20, <1>21, <1>22, <1>23, <1>24 DEF Rotates
<1>26. cur \in {a, b}
  BY <1>4
<1> QED
  BY <1>1, <1>8, <1>11, <1>18, <1>25, <1>26, RotateInv

LEMMA RotateFromLeftInv ==
  ASSUME NEW C, NEW H, Inv(C, H), RotateFromLeft
  PROVE  IInv' /\ Unseen
<1>1. pc = "repair" /\ cur # root
  BY DEF RotateFromLeft, Repairing
<1>2. Types /\ Fill /\ Links /\ Tree(C, H)
  BY DEF Inv
<1>3. PICK u, i : Misses(cur, u, i)
  BY <1>1, MissesIs
<1>4. PICK a, b, p, z, y, j : a = Left(cur) /\ b = cur /\ p = elems[u][i].key
                              /\ z = zero[Left(cur)] /\ y = zero[cur] /\ j = i - 1
  OBVIOUS
<1>5. /\ b \in live \ {root} /\ b \in Nodes /\ u \in live /\ u \in Nodes /\ parent[b] = u
      /\ Len(elems[b]) = MinKeys - 1 /\ i \in Slots(elems[u]) /\ Child(u, i) = b /\ Index(b) = i
  BY <1>4, <1>3 DEF Misses
<1>6. a # None /\ Len(elems[a]) > MinKeys
  BY <1>4 DEF RotateFromLeft, CanLend
<1>7. i # 0 /\ a = Child(u, i - 1)
  BY <1>4, <1>5, <1>6 DEF Left
<1>8. j \in Slots(elems[u]) /\ j + 1 = i /\ a = Child(u, j)
  BY <1>4, <1>2, <1>5, <1>7, SeqLen DEF Types, Slots
<1>9. Siblings(u, j, a, b, p, H)
  <2>1. j + 1 \in Slots(elems[u]) /\ Child(u, j + 1) = b /\ elems[u][j + 1].key = p
    BY <1>4, <1>5, <1>8
  <2>2. Child(u, j) # None
    BY <1>6, <1>8
  <2>3. Siblings(u, j, Child(u, j), Child(u, j + 1), elems[u][j + 1].key, H)
    BY <1>5, <1>8, <2>1, <2>2, SiblingsAre
  <2> QED
    BY <1>8, <2>1, <2>3
<1>10. /\ j + 1 \in 1 .. Len(elems[u]) /\ a # u /\ b # u /\ a # b /\ a \in Nodes /\ a \in live
       /\ p \in Keys /\ p \in Int /\ elems[u][j + 1].key = p /\ H[a] \in Nat
       /\ p \in KeysIn(elems[u])
  <2>1. /\ j + 1 \in 1 .. Len(elems[u]) /\ a # u /\ b # u /\ a # b /\ a \in Nodes /\ a \in live
        /\ p \in Keys /\ p \in Int /\ elems[u][j + 1].key = p /\ H[a] \in Nat
    BY <1>9 DEF Siblings
  <2> QED
    BY <2>1 DEF KeysIn
<1>11. PICK J : J = elems[a] \o (<<Elem(p, zero[b])>> \o elems[b])
  OBVIOUS
<1>12. Joint(J, u, a, b, p, C, H)
  BY <1>1, <1>9, <1>11, JointIs
<1>13. Beside(a, b, H)
  BY <1>9, BesideIs
<1>14. /\ elems[a] \in Seq(Elems) /\ elems[b] \in Seq(Elems) /\ Sorted(elems[b])
       /\ Len(elems[a]) \in Nat /\ Len(elems[b]) \in Nat /\ z \in Link /\ y \in Link
       /\ z = zero[a] /\ y = zero[b]
  BY <1>4, <1>13 DEF Beside
<1>15. PICK s1, s2, e, q, last : /\ s1 = Front(elems[a]) /\ s2 = Put(elems[b], Elem(p, y))
                                 /\ e = Elem(p, y) /\ q = Len(elems[a])
                                 /\ last = elems[a][Len(elems[a])]
  OBVIOUS
<1>16. s2 \in Seq(Elems) /\ Inserts(s2, elems[b], 0, e)
  <2>1. e \in Elems /\ e.key = p
    BY <1>10, <1>14, <1>15 DEF Elem, Elems
  <2>2. 0 \in Slots(elems[b])
    BY <1>14 DEF Slots
  <2>3. 0 < Len(elems[b]) => p < elems[b][0 + 1].key
    <3> SUFFICES ASSUME 0 < Len(elems[b]) PROVE p < elems[b][1].key
      OBVIOUS
    <3>1. 1 \in 1 .. Len(elems[b])
      BY <1>14
    <3>2. elems[b][1].key \in KeysIn(elems[b]) /\ elems[b][1].key \in Int
      BY <1>14, <3>1, ElemIs DEF KeysIn
    <3>3. elems[b][1].key \in C[b]
      BY <1>2, <1>5, <3>2, NodeIs
    <3>4. \A k \in C[b] : p <= k
      BY <1>12 DEF Joint
    <3>5. elems[b][1].key # p
      <4>1. Once
        BY <1>1, OnceIs
      <4> QED
        BY <1>5, <1>10, <3>2, <4>1 DEF Once
    <3> QED
      BY <1>10, <3>2, <3>3, <3>4, <3>5
  <2>4. InGap(elems[b], 0, e.key)
    BY <2>1, <2>3 DEF InGap
  <2>5. Put(elems[b], e) \in Seq(Elems) /\ Inserts(Put(elems[b], e), elems[b], 0, e)
    BY <1>14, <2>1, <2>2, <2>4, PutIs
  <2> QED
    BY <1>15, <2>5
<1>17. /\ s1 \in Seq(Elems) /\ Len(s1) = Len(elems[a]) - 1 /\ Len(s2) = Len(elems[b]) + 1
       /\ \A k \in 1 .. Len(elems[a]) - 1 : s1[k] = elems[a][k]
       /\ J[q] = last /\ last \in Elems
       /\ Joins(J, s1, last.key, last.sub, s2)
  <2>1. J \in Seq(Elems) /\ Joins(J, elems[a], p, y, elems[b])
    BY <1>12, <1>14 DEF Joint
  <2>2. Len(elems[a]) > 0
    BY <1>6, <1>14, Constants
  <2>3. Inserts(s2, elems[b], 0, Elem(p, y))
    BY <1>15, <1>16
  <2> QED
    BY <1>14, <1>15, <1>16, <2>1, <2>2, <2>3, ShiftRight
<1>18. Halves(J, q, zero[a], s1, s2, H[a] - 1, C, H)
  <2>1. PICK l : l = H[a] - 1
    OBVIOUS
  <2>2. J[q].key \in Keys /\ J[q].sub \in Link /\ q = Len(s1) + 1
    BY <1>14, <1>15, <1>17 DEF Elems
  <2>3. /\ J \in Seq(Elems) /\ C \in [Link -> SUBSET Keys] /\ H \in [Link -> Int]
        /\ Good(z, J, l, C, H)
    BY <1>12, <1>14, <2>1 DEF Joint
  <2>4. Joins(J, s1, J[q].key, J[q].sub, s2)
    BY <1>17
  <2>5. CutAt(J, q, z, s1, s2, l, C, H)
    BY <1>14, <1>16, <1>17, <2>2, <2>3, <2>4 DEF CutAt, Cut
  <2>6. Halves(J, q, z, s1, s2, l, C, H)
    BY <2>5, HalvesIs
  <2> QED
    BY <1>14, <2>1, <2>6
<1>19. /\ elems' \in [Nodes -> Seq(Elems)]
       /\ elems'[a] = s1 /\ elems'[b] = s2
       /\ elems'[u] = [elems[u] EXCEPT ![j + 1] = Elem(J[q].key, b)]
       /\ \A n \in Nodes \ {u, a, b} : elems'[n] = elems[n]
       /\ zero' \in [Nodes -> Link] /\ zero'[b] = J[q].sub
       /\ \A n \in Nodes \ {b} : zero'[n] = zero[n]
       /\ parent' = Adopt(parent, b, last.sub, <<e>>)
       /\ root' = root /\ live' = live
       /\ Return(TRUE) /\ UNCHANGED <<script, calls>>
  <2>1. /\ elems' = [elems EXCEPT ![u] = [elems[u] EXCEPT ![i] = Elem(last.key, b)],
                                  ![b] = Put(elems[b], e),
                                  ![a] = Front(elems[a])]
        /\ zero' = [zero EXCEPT ![b] = last.sub]
        /\ parent' = Adopt(parent, b, last.sub, <<e>>)
        /\ root' = root /\ live' = live
        /\ Return(TRUE) /\ UNCHANGED <<script, calls>>
    BY <1>4, <1>5, <1>10, <1>15 DEF RotateFromLeft
  <2>2. elems \in [Nodes -> Seq(Elems)] /\ zero \in [Nodes -> Link]
    BY <1>2 DEF Types
  <2>3. [elems[u] EXCEPT ![j + 1] = Elem(last.key, b)] \in Seq(Elems)
    <3>1. elems[u] \in Seq(Elems) /\ b \in Link
      BY <1>5, <2>2, Constants
    <3>2. Elem(last.key, b) \in Elems
      BY <1>17, <3>1 DEF Elem, Elems
    <3>3. PICK s, f : s = elems[u] /\ f = Elem(last.key, b)
      OBVIOUS
    <3>4. s \in Seq(Elems) /\ f \in Elems /\ j + 1 \in 1 .. Len(s)
      BY <1>10, <3>3, <3>1, <3>2
    <3>5. [s EXCEPT ![j + 1] = f] \in Seq(Elems)
      BY <3>4
    <3> QED
      BY <3>3, <3>5
  <2>4. s2 = Put(elems[b], e) /\ j + 1 = i
    BY <1>8, <1>15
  <2>5. last.sub \in Link
    BY <1>17 DEF Elems
  <2> QED
    BY <1>5, <1>10, <1>15, <1>16, <1>17, <2>1, <2>2, <2>3, <2>4, <2>5
<1>20. /\ parent' \in [Nodes -> Link]
       /\ \A m \in Nodes : parent'[m] = IF m = last.sub \/ m = y THEN b ELSE parent[m]
  <2>1. parent \in [Nodes -> Link] /\ e.sub = y
    BY <1>2, <1>15 DEF Types, Elem
  <2>2. /\ Adopt(parent, b, last.sub, <<e>>) \in [Nodes -> Link]
        /\ \A m \in Nodes : Adopt(parent, b, last.sub, <<e>>)[m] =
             IF m = last.sub \/ m = e.sub THEN b ELSE parent[m]
    BY <1>5, <2>1, AdoptIs
  <2> QED
    BY <1>19, <2>1, <2>2
<1>21. q \in Slots(elems[a]) /\ Child(a, q) = last.sub /\ q \in Nat /\ q # 0
  BY <1>6, <1>14, <1>15, Constants DEF Slots, Child
<1>22. \A k \in Slots(s1) : Sub(z, s1, k) # None => parent'[Sub(z, s1, k)] = a
  <2> SUFFICES ASSUME NEW k \in Slots(s1), Sub(z, s1, k) # None
               PROVE  parent'[Sub(z, s1, k)] = a
    OBVIOUS
  <2>1. k \in Slots(elems[a]) /\ k # q /\ k \in Nat /\ (k # 0 => k \in 1 .. Len(elems[a]) - 1)
    BY <1>14, <1>15, <1>17 DEF Slots
  <2>2. Sub(z, s1, k) = Child(a, k)
    BY <1>14, <1>17, <2>1 DEF Sub, Child
  <2>3. Child(a, k) # y /\ parent[Child(a, k)] = a /\ Child(a, k) \in Nodes
    BY <1>13, <1>14, <2>1, <2>2 DEF Beside
  <2>4. Child(a, k) # last.sub
    <3>1. Child(a, k) # None
      BY <2>2
    <3>2. \A n \in live : \A m \in Slots(elems[n]) : Child(n, m) = Child(a, k) => n = a /\ m = k
      BY <1>2, <1>10, <2>1, <3>1, KidIs
    <3> QED
      BY <1>10, <1>21, <2>1, <3>2
  <2> QED
    BY <1>20, <2>2, <2>3, <2>4
<1>23. \A k \in Slots(s2) : Sub(J[q].sub, s2, k) # None => parent'[Sub(J[q].sub, s2, k)] = b
  <2> SUFFICES ASSUME NEW k \in Slots(s2), Sub(J[q].sub, s2, k) # None
               PROVE  parent'[Sub(J[q].sub, s2, k)] = b
    OBVIOUS
  <2>1. PICK x : x = Sub(J[q].sub, s2, k)
    OBVIOUS
  <2>2. x \in Nodes
    <3>1. J[q].sub \in Link
      BY <1>17 DEF Elems
    <3>2. x \in Link
      BY <1>16, <2>1, <3>1, SubIs
    <3> QED
      BY <2>1, <3>2 DEF Link
  <2>3. CASE k = 0
    <3>1. x = last.sub
      BY <1>17, <2>1, <2>3 DEF Sub
    <3> QED
      BY <1>20, <2>1, <2>2, <3>1
  <2>4. CASE k = 1
    <3>1. x = y
      BY <1>15, <1>16, <2>1, <2>4 DEF Sub, Inserts, Elem
    <3> QED
      BY <1>20, <2>1, <2>2, <3>1
  <2>5. CASE k # 0 /\ k # 1
    <3>1. PICK m : m = k - 1
      OBVIOUS
    <3>2. k \in 0 .. Len(elems[b]) + 1
      BY <1>17 DEF Slots
    <3>3. PICK w \in Nat : w = Len(elems[b])
      BY <1>14
    <3>4. m \in 0 .. w /\ m # 0 /\ m \in 0 + 1 .. w /\ k = m + 1
      BY <2>5, <3>1, <3>2, <3>3
    <3>5. m \in Slots(elems[b]) /\ m # 0 /\ m \in 0 + 1 .. Len(elems[b]) /\ k = m + 1
      BY <3>3, <3>4 DEF Slots
    <3>6. s2[m + 1] = elems[b][m]
      BY <1>16, <3>5 DEF Inserts
    <3>7. x = Child(b, m)
      BY <2>1, <2>5, <3>5, <3>6 DEF Sub, Child
    <3>8. parent[x] = b
      BY <1>13, <2>1, <3>5, <3>7 DEF Beside
    <3> QED
      BY <1>20, <2>1, <2>2, <3>8
  <2> QED
    BY <2>3, <2>4, <2>5
<1>24. \A n \in Nodes : parent[n] \notin {a, b} => parent'[n] = parent[n]
  <2>1. \A n \in Nodes : n # None
    BY Constants
  <2>2. y # None => parent[y] = b
    BY <1>13, <1>14 DEF Beside
  <2>3. last.sub # None => parent[last.sub] = a
    BY <1>13, <1>21 DEF Beside
  <2> QED
    BY <1>20, <2>1, <2>2, <2>3
<1>25. MinKeys <= Len(s1) /\ Len(s1) <= Size - 2 /\ MinKeys <= Len(s2) /\ Len(s2) <= Size - 2
  <2>1. /\ MinKeys \in Int /\ Size \in Int /\ MinKeys <= Size - 2
        /\ Len(elems[a]) <= Size - 2
    BY <1>2, <1>10, Constants DEF Fill
  <2> QED
    BY <1>5, <1>6, <1>14, <1>17, <2>1
<1>26. Rotates(u, j, a, b, s1, J[q].key, J[q].sub, s2)
  BY <1>14, <1>19, <1>20, <1>22, <1>23, <1>24, <1>25 DEF Rotates
<1>27. cur \in {a, b}
  BY <1>4
<1> QED
  BY <1>1, <1>9, <1>12, <1>18, <1>26, <1>27, RotateInv

-----------------------------------------------------------------------------
(* Merging.                                                                 *)

LEMMA PrefixIs ==
  ASSUME NEW s \in Seq(Elems), NEW m \in 0 .. Len(s)
  PROVE  /\ SubSeq(s, 1, m) \in Seq(Elems) /\ Len(SubSeq(s, 1, m)) = m
         /\ \A i \in 1 .. m : SubSeq(s, 1, m)[i] = s[i]
<1>1. Len(s) \in Nat /\ m \in Nat /\ m <= Len(s)
  BY SeqLen
<1>2. \A i \in 1 .. m : s[i] \in Elems
  BY <1>1
<1>3. /\ SubSeq(s, 1, m) \in Seq(Elems)
      /\ Len(SubSeq(s, 1, m)) = IF 1 <= m THEN m - 1 + 1 ELSE 0
      /\ \A i \in 1 .. m - 1 + 1 : SubSeq(s, 1, m)[i] = s[1 + i - 1]
  BY <1>1, <1>2, SubSeqProperties
<1> QED
  BY <1>1, <1>3

\* The next element of a sorted node goes behind those that are there.
LEMMA PutNext ==
  ASSUME NEW s \in Seq(Elems), Sorted(s), NEW m \in 0 .. Len(s) - 1
  PROVE  Put(SubSeq(s, 1, m), s[m + 1]) = SubSeq(s, 1, m + 1)
<1>1. PICK a, b, e, n : a = SubSeq(s, 1, m) /\ b = SubSeq(s, 1, m + 1) /\ e = s[m + 1] /\ n = m + 1
  OBVIOUS
<1>2. m \in 0 .. Len(s) /\ n \in 0 .. Len(s) /\ n \in 1 .. Len(s) /\ m \in Nat /\ n = m + 1
  BY <1>1, SeqLen
<1>3. /\ a \in Seq(Elems) /\ Len(a) = m /\ \A i \in 1 .. m : a[i] = s[i]
  BY <1>1, <1>2, PrefixIs
<1>4. /\ b \in Seq(Elems) /\ Len(b) = n /\ \A i \in 1 .. n : b[i] = s[i]
  BY <1>1, <1>2, PrefixIs
<1>5. e \in Elems /\ e.key \in Int /\ e = s[n]
  BY <1>1, <1>2, ElemIs
<1>6. Sorted(a)
  <2>1. \A i \in 1 .. m : i \in 1 .. Len(s)
    BY <1>2
  <2> QED
    BY <1>3, <2>1 DEF Sorted
<1>7. m \in Slots(a) /\ InGap(a, m, e.key)
  <2>1. m \in Slots(a) /\ ~(m < Len(a))
    BY <1>2, <1>3 DEF Slots
  <2>2. m > 0 => a[m].key <= e.key
    <3> SUFFICES ASSUME m > 0 PROVE a[m].key <= e.key
      OBVIOUS
    <3>1. m \in 1 .. Len(s) /\ m < n /\ m \in 1 .. m
      BY <1>2
    <3>2. s[m].key < s[n].key /\ s[m].key \in Int
      BY <1>2, <3>1, ElemIs DEF Sorted
    <3> QED
      BY <1>3, <1>5, <3>1, <3>2
  <2> QED
    BY <2>1, <2>2 DEF InGap
<1>8. PICK t : t = Put(a, e)
  OBVIOUS
<1>9. t \in Seq(Elems) /\ Inserts(t, a, m, e)
  BY <1>3, <1>5, <1>6, <1>7, <1>8, PutIs
<1>10. Len(t) = n /\ (\A i \in 1 .. m : t[i] = a[i]) /\ t[n] = e
  BY <1>2, <1>3, <1>9 DEF Inserts
<1>11. \A i \in 1 .. n : t[i] = b[i]
  <2>1. \A i \in 1 .. n : i \in 1 .. m \/ i = n
    BY <1>2
  <2> QED
    BY <1>3, <1>4, <1>5, <1>10, <2>1
<1>12. t = b
  BY <1>4, <1>9, <1>10, <1>11, SeqEqual
<1> QED
  BY <1>1, <1>8, <1>12

\* All that is moved finds room, and nothing is lost.
LEMMA PutAllIs ==
  ASSUME NEW a \in Seq(Elems), NEW b \in Seq(Elems), NEW p \in Keys, NEW z \in Link,
         NEW J \in Seq(Elems), Joins(J, a, p, z, b), Sorted(J), Len(J) <= Size - 2
  PROVE  PutAll(a, <<Elem(p, z)>> \o b) = J
<1>1. PICK more, n, la : more = <<Elem(p, z)>> \o b /\ n = Len(<<Elem(p, z)>> \o b) /\ la = Len(a)
  OBVIOUS
<1>2. Elem(p, z) \in Elems /\ Elem(p, z).key = p /\ Elem(p, z).sub = z
  BY DEF Elem, Elems
<1>3. <<Elem(p, z)>> \in Seq(Elems) /\ Len(<<Elem(p, z)>>) = 1 /\ <<Elem(p, z)>>[1] = Elem(p, z)
  BY <1>2
<1>4. /\ more \in Seq(Elems) /\ n = Len(b) + 1 /\ Len(more) = n /\ more[1] = Elem(p, z)
      /\ \A i \in 1 .. Len(b) : more[1 + i] = b[i]
  <2> PICK c : c = <<Elem(p, z)>>
    OBVIOUS
  <2>1. c \in Seq(Elems) /\ Len(c) = 1 /\ c[1] = Elem(p, z)
    BY <1>3
  <2>2. /\ c \o b \in Seq(Elems) /\ Len(c \o b) = Len(c) + Len(b)
        /\ \A i \in 1 .. Len(c) : (c \o b)[i] = c[i]
        /\ \A i \in 1 .. Len(b) : (c \o b)[Len(c) + i] = b[i]
    BY <2>1, ConcatIs
  <2>3. 1 \in 1 .. Len(c) /\ Len(b) \in Nat
    BY <2>1, SeqLen
  <2> QED
    BY <1>1, <2>1, <2>2, <2>3
<1>5. /\ Len(J) = la + 1 + Len(b)
      /\ \A i \in 1 .. la : J[i] = a[i]
      /\ J[la + 1].key = p /\ J[la + 1].sub = z
      /\ \A i \in 1 .. Len(b) : J[la + 1 + i] = b[i]
  BY <1>1 DEF Joins
<1>6. la \in Nat /\ Len(b) \in Nat /\ n \in Nat /\ n >= 1 /\ Len(J) = la + n /\ Len(J) \in Nat
  BY <1>1, <1>4, <1>5, SeqLen
<1>7. ASSUME NEW i \in 1 .. n PROVE more[i] = J[la + i]
  <2>1. CASE i = 1
    <3>1. la + 1 \in 1 .. Len(J)
      BY <1>6
    <3>2. J[la + 1] \in Elems
      BY <3>1
    <3>3. J[la + 1] = Elem(p, z)
      BY <1>5, <3>2 DEF Elem, Elems
    <3> QED
      BY <1>4, <2>1, <3>3
  <2>2. CASE i # 1
    <3>1. PICK k : k = i - 1
      OBVIOUS
    <3>2. k \in 1 .. Len(b) /\ i = 1 + k
      BY <1>4, <1>6, <2>2, <3>1
    <3>3. la + i = la + 1 + k
      BY <1>6, <3>2
    <3> QED
      BY <1>4, <1>5, <3>2, <3>3
  <2> QED
    BY <2>1, <2>2
<1> DEFINE G(i) == SubSeq(J, 1, la + i)
<1>8. G(0) = a
  <2>1. la + 0 = la /\ la \in 0 .. Len(J)
    BY <1>6
  <2>2. /\ SubSeq(J, 1, la) \in Seq(Elems) /\ Len(SubSeq(J, 1, la)) = la
        /\ \A i \in 1 .. la : SubSeq(J, 1, la)[i] = J[i]
    BY <2>1, PrefixIs
  <2>3. SubSeq(J, 1, la) = a
    BY <1>1, <1>5, <2>2, SeqEqual
  <2> QED
    BY <2>1, <2>3
<1>9. G(n) = J
  <2>1. SubSeq(J, 1, Len(J)) = J
    BY SubSeqFull
  <2> QED
    BY <1>6, <2>1
<1>10. ASSUME NEW i \in 1 .. n PROVE Room(G(i - 1)) /\ Put(G(i - 1), more[i]) = G(i)
  <2>1. PICK m : m = la + (i - 1)
    OBVIOUS
  <2>2. m \in 0 .. Len(J) - 1 /\ m \in 0 .. Len(J) /\ m + 1 = la + i /\ m < Len(J)
    BY <1>6, <2>1
  <2>3. Put(SubSeq(J, 1, m), J[m + 1]) = SubSeq(J, 1, m + 1)
    BY <2>2, PutNext
  <2>4. Len(SubSeq(J, 1, m)) = m
    BY <2>2, PrefixIs
  <2>5. Room(SubSeq(J, 1, m))
    BY <1>6, <2>2, <2>4, Constants DEF Room
  <2> QED
    BY <1>7, <2>1, <2>2, <2>3, <2>5
<1> HIDE DEF G
<1> DEFINE R(f) == [i \in 0 .. n |-> IF i = 0 THEN a
                                     ELSE LET t == f[i - 1]
                                          IN  IF Room(t) THEN Put(t, more[i]) ELSE t]
           g == [i \in 0 .. n |-> G(i)]
           r == CHOOSE r : r = R(r)
<1>11. g = R(g)
  <2>1. ASSUME NEW i \in 0 .. n PROVE g[i] = R(g)[i]
    <3>1. CASE i = 0
      BY <1>8, <3>1
    <3>2. CASE i # 0
      <4>1. i \in 1 .. n /\ i - 1 \in 0 .. n
        BY <1>6, <3>2
      <4>2. g[i - 1] = G(i - 1) /\ g[i] = G(i)
        BY <4>1
      <4>3. Room(G(i - 1)) /\ Put(G(i - 1), more[i]) = G(i)
        BY <1>10, <4>1
      <4> QED
        BY <3>2, <4>2, <4>3
    <3> QED
      BY <3>1, <3>2
  <2> QED
    BY <2>1
<1>12. r = R(r)
  BY <1>11
<1>13. PutAll(a, more) = r[n]
  BY <1>1 DEF PutAll
<1> HIDE DEF r
<1>14. /\ r[0] = a
       /\ \A i \in 1 .. n : r[i] = IF Room(r[i - 1]) THEN Put(r[i - 1], more[i]) ELSE r[i - 1]
  <2>1. 0 \in 0 .. n /\ \A i \in 1 .. n : i \in 0 .. n /\ i # 0
    BY <1>6
  <2> QED
    BY <1>12, <2>1
<1>15. \A i \in Nat : i <= n => r[i] = G(i)
  <2> DEFINE S == {i \in Nat : i <= n => r[i] = G(i)}
  <2>1. 0 \in S
    BY <1>8, <1>14
  <2>2. ASSUME NEW i \in S PROVE i + 1 \in S
    <3> SUFFICES ASSUME i + 1 <= n PROVE r[i + 1] = G(i + 1)
      OBVIOUS
    <3>1. PICK k : k = i + 1
      OBVIOUS
    <3>2. i \in Nat /\ k \in 1 .. n /\ k - 1 = i /\ i <= n
      BY <1>6, <3>1
    <3>3. r[i] = G(i)
      BY <3>2
    <3>4. Room(G(i)) /\ Put(G(i), more[k]) = G(k)
      BY <1>10, <3>2
    <3>5. r[k] = IF Room(r[i]) THEN Put(r[i], more[k]) ELSE r[i]
      BY <1>14, <3>2
    <3> QED
      BY <3>1, <3>3, <3>4, <3>5
  <2>3. S \in SUBSET Nat
    OBVIOUS
  <2> HIDE DEF S
  <2>4. S = Nat
    BY <2>1, <2>2, <2>3, NatSet
  <2> QED
    BY <2>4 DEF S
<1>16. r[n] = J
  BY <1>6, <1>9, <1>15
<1> QED
  BY <1>1, <1>13, <1>16

\* The node b is gone, and a has what both had; t is what the parent keeps.  A root that
\* keeps nothing is gone as well.
Merges(u, j, a, b, J, t, dead) ==
  /\ t \in Seq(Elems) /\ Inserts(elems[u], t, j, elems[u][j + 1])
  /\ dead = IF u = root /\ t = <<>> THEN {b, u} ELSE {b}
  /\ live' = live \ dead /\ root' = IF u \in dead THEN a ELSE root
  /\ elems' \in [Nodes -> Seq(Elems)] /\ zero' \in [Nodes -> Link] /\ parent' \in [Nodes -> Link]
  /\ \A n \in dead : elems'[n] = <<>> /\ zero'[n] = None
  /\ elems'[a] = J
  /\ u \notin dead => elems'[u] = t
  /\ \A n \in Nodes \ {a, b, u} : elems'[n] = elems[n]
  /\ \A n \in Nodes \ dead : zero'[n] = zero[n]
  /\ \A i \in Slots(elems[b]) : Child(b, i) # None => parent'[Child(b, i)] = a
  /\ \A n \in Nodes \ dead : parent[n] # b /\ n # a => parent'[n] = parent[n]
  /\ parent'[a] = IF u \in dead THEN None ELSE u
  /\ IF u = root \/ Len(t) >= MinKeys
       THEN Return(TRUE)
       ELSE cur' = u /\ UNCHANGED <<pc, call, want, key, carry, ret>>
  /\ UNCHANGED <<script, calls>>

LEMMA MergeInv ==
  ASSUME NEW C, NEW H, Inv(C, H), pc = "repair", cur # root,
         NEW u, NEW j, NEW a, NEW b, NEW p, Siblings(u, j, a, b, p, H), cur \in {a, b},
         NEW J, Joint(J, u, a, b, p, C, H), MinKeys <= Len(J), Len(J) <= Size - 2,
         NEW t, NEW dead, Merges(u, j, a, b, J, t, dead)
  PROVE  IInv' /\ Unseen
<1>1. Types /\ Links /\ Fill /\ Tree(C, H)
  BY DEF Inv
<1>2. Once
  BY OnceIs
<1>3. PICK z, y, s, l : z = zero[a] /\ y = zero[u] /\ s = elems[u] /\ l = H[a] - 1
  OBVIOUS
<1>4. /\ u \in live /\ u \in Nodes /\ j \in Slots(s) /\ j + 1 \in Slots(s)
      /\ j \in Nat /\ j + 1 \in 1 .. Len(s) /\ j < Len(s)
      /\ Child(u, j) = a /\ Child(u, j + 1) = b /\ s[j + 1].sub = b
      /\ s[j + 1].key = p /\ p \in Keys /\ p \in Int
      /\ a \in live \ {root, u} /\ b \in live \ {root, u} /\ a # b
      /\ a \in Nodes /\ b \in Nodes /\ parent[a] = u /\ parent[b] = u
      /\ H[a] \in Nat /\ H[u] \in Nat /\ H[a] = H[u] - 1 /\ H[b] = H[u] - 1
  BY <1>3 DEF Siblings
<1>5. \A m \in live : \A i \in Slots(elems[m]) : /\ Child(m, i) = a => m = u /\ i = j
                                                 /\ Child(m, i) = b => m = u /\ i = j + 1
  BY DEF Siblings
<1>6. /\ C \in [Link -> SUBSET Keys] /\ H \in [Link -> Int] /\ z \in Link /\ J \in Seq(Elems)
      /\ Good(z, J, l, C, H) /\ Content(z, J, C) = C[a] \cup {p} \cup C[b]
      /\ KeysIn(J) = KeysIn(elems[a]) \cup {p} \cup KeysIn(elems[b])
  BY <1>3 DEF Joint
<1>7. \A i \in Slots(J) : Sub(z, J, i) # None =>
        /\ Sub(z, J, i) \in live \ {root, a, b, u} /\ Sub(z, J, i) \in Nodes
        /\ parent[Sub(z, J, i)] \in {a, b}
        /\ \A n \in live \ {a, b} : \A x \in Slots(elems[n]) : Child(n, x) # Sub(z, J, i)
  BY <1>3 DEF Joint
<1>8. /\ \A i \in Slots(elems[a]) : \E x \in Slots(J) : Sub(z, J, x) = Child(a, i)
      /\ \A i \in Slots(elems[b]) : \E x \in Slots(J) : Sub(z, J, x) = Child(b, i)
  BY <1>3 DEF Joint
<1>9. /\ t \in Seq(Elems) /\ Inserts(s, t, j, s[j + 1])
      /\ live' = live \ dead /\ root' = IF u \in dead THEN a ELSE root
      /\ elems' \in [Nodes -> Seq(Elems)] /\ zero' \in [Nodes -> Link] /\ parent' \in [Nodes -> Link]
      /\ \A n \in dead : elems'[n] = <<>> /\ zero'[n] = None
      /\ elems'[a] = J
      /\ u \notin dead => elems'[u] = t
      /\ \A n \in Nodes \ {a, b, u} : elems'[n] = elems[n]
      /\ \A n \in Nodes \ dead : zero'[n] = zero[n]
  BY <1>3 DEF Merges
<1>10. /\ \A i \in Slots(elems[b]) : Child(b, i) # None => parent'[Child(b, i)] = a
       /\ \A n \in Nodes \ dead : parent[n] # b /\ n # a => parent'[n] = parent[n]
       /\ parent'[a] = IF u \in dead THEN None ELSE u
  BY DEF Merges
<1>11. /\ IF u = root \/ Len(t) >= MinKeys
            THEN pc' = "idle" /\ call' = None /\ want' = None /\ key' = None /\ cur' = None
                 /\ carry' = None
            ELSE cur' = u /\ pc' = pc /\ call' = call /\ want' = want /\ key' = key
                 /\ carry' = carry /\ ret' = ret
       /\ script' = script /\ calls' = calls
  BY DEF Merges, Return
<1>12. /\ b \in dead /\ a \notin dead /\ dead \subseteq {b, u}
       /\ u \in dead <=> u = root /\ t = <<>>
       /\ dead \subseteq Nodes /\ dead \subseteq live
  BY <1>4 DEF Merges
<1>13. \A n \in live : n \in Nodes /\ n \in Link /\ n # None
  BY <1>1, Constants DEF Types
<1>14. /\ s \in Seq(Elems) /\ y \in Link /\ Sorted(s) /\ Len(s) \in Nat
       /\ Good(y, s, H[u] - 1, C, H) /\ C[u] = Content(y, s, C)
  <2>1. /\ elems[u] \in Seq(Elems) /\ zero[u] \in Link /\ Sorted(elems[u]) /\ Len(elems[u]) \in Nat
        /\ Good(zero[u], elems[u], H[u] - 1, C, H)
        /\ C[u] = Content(zero[u], elems[u], C) \cup Rising(u, C)
    BY <1>1, <1>4, NodeIs
  <2>2. Rising(u, C) = {}
    BY DEF Rising
  <2> QED
    BY <1>3, <2>1, <2>2
<1>15. s = elems[u] /\ \A i \in Slots(s) : Child(u, i) = Sub(y, s, i)
  BY <1>3, <1>4, ChildIs
<1>16. \A n \in Slots(s) : n # j /\ n # j + 1 => Child(u, n) # a /\ Child(u, n) # b
  <2>1. u \in live /\ Slots(s) = Slots(elems[u])
    BY <1>4, <1>15
  <2> QED
    BY <1>5, <2>1
<1>17. \A m \in live \ {u} : \A i \in Slots(elems[m]) : Child(m, i) # a /\ Child(m, i) # b
  BY <1>5
\* The parent's slots
<1>18. /\ Len(s) = Len(t) + 1 /\ Len(t) \in Nat /\ j \in Slots(t) /\ s[j + 1] \in Elems
       /\ KeysIn(t) = KeysIn(s) \ {p} /\ Sorted(t) /\ p \in KeysIn(s)
  <2>1. Len(s) = Len(t) + 1 /\ Len(t) \in Nat
    BY <1>9, SeqLen DEF Inserts
  <2>2. j \in Slots(t)
    BY <1>4, <2>1 DEF Slots
  <2>3. s[j + 1] \in Elems
    BY <1>4, <1>14, ElemIs
  <2>4. KeysIn(t) = KeysIn(s) \ {s[j + 1].key} /\ Sorted(t)
    BY <1>9, <1>14, <2>2, <2>3, RemoveKeys
  <2>5. p \in KeysIn(s)
    BY <1>4 DEF KeysIn
  <2> QED
    BY <1>4, <2>1, <2>2, <2>3, <2>4, <2>5
<1>19. /\ \A i \in Slots(t) : i <= j => i \in Slots(s) /\ Sub(y, t, i) = Sub(y, s, i)
       /\ \A i \in Slots(t) : i > j => i + 1 \in Slots(s) /\ Sub(y, t, i) = Sub(y, s, i + 1)
       /\ \A i \in Slots(s) : i # j + 1 => \E x \in Slots(t) : Sub(y, t, x) = Sub(y, s, i)
                                                              /\ (x = j => i = j)
       /\ Sub(y, t, j) = a
  <2>1. PICK e : e = s[j + 1]
    OBVIOUS
  <2>2. /\ j \in Slots(s) /\ j + 1 \in Slots(s)
        /\ \A i \in Slots(t) : i <= j => i \in Slots(s) /\ Sub(y, s, i) = Sub(y, t, i)
        /\ \A i \in Slots(t) : i > j => i + 1 \in Slots(s) /\ Sub(y, s, i + 1) = Sub(y, t, i)
        /\ \A i \in Slots(s) : \/ i <= j /\ i \in Slots(t)
                               \/ i = j + 1
                               \/ i > j + 1 /\ i - 1 > j /\ i - 1 \in Slots(t) /\ (i - 1) + 1 = i
    <3>1. e \in Elems /\ Inserts(s, t, j, e)
      BY <1>9, <1>18, <2>1
    <3> QED
      BY <1>9, <1>14, <1>18, <3>1, InsertSlots
  <2>3. ASSUME NEW i \in Slots(s), i # j + 1
        PROVE  \E x \in Slots(t) : Sub(y, t, x) = Sub(y, s, i) /\ (x = j => i = j)
    <3>1. CASE i <= j /\ i \in Slots(t)
      BY <2>2, <3>1
    <3>2. CASE i > j + 1 /\ i - 1 > j /\ i - 1 \in Slots(t) /\ (i - 1) + 1 = i
      <4>1. PICK x : x = i - 1
        OBVIOUS
      <4>2. x \in Slots(t) /\ x > j /\ x + 1 = i /\ x # j
        BY <1>4, <3>2, <4>1
      <4> QED
        BY <2>2, <4>2
    <3> QED
      BY <2>2, <2>3, <3>1, <3>2
  <2>4. Sub(y, t, j) = a
    <3>1. j <= j
      BY <1>4
    <3> QED
      BY <1>4, <1>15, <1>18, <2>2, <3>1
  <2> QED
    BY <2>2, <2>3, <2>4
<1>20. \A i \in Slots(t) : i # j =>
         /\ Sub(y, t, i) # a /\ Sub(y, t, i) # b
         /\ \E x \in Slots(s) : x # j + 1 /\ x # j /\ Sub(y, t, i) = Sub(y, s, x)
  <2> SUFFICES ASSUME NEW i \in Slots(t), i # j
               PROVE  /\ Sub(y, t, i) # a /\ Sub(y, t, i) # b
                      /\ \E x \in Slots(s) : x # j + 1 /\ x # j /\ Sub(y, t, i) = Sub(y, s, x)
    OBVIOUS
  <2>1. i \in Nat
    BY <1>18 DEF Slots
  <2>2. PICK x \in Slots(s) : x # j + 1 /\ x # j /\ Sub(y, t, i) = Sub(y, s, x)
    <3>1. CASE i <= j
      <4>1. i # j + 1
        BY <1>4, <2>1, <3>1
      <4> QED
        BY <1>19, <3>1, <4>1
    <3>2. CASE i > j
      <4>1. PICK x : x = i + 1
        OBVIOUS
      <4>2. x # j + 1 /\ x # j
        BY <1>4, <2>1, <3>2, <4>1
      <4> QED
        BY <1>19, <3>2, <4>1, <4>2
    <3> QED
      BY <1>4, <2>1, <3>1, <3>2
  <2> QED
    BY <1>15, <1>16, <2>2
\* The contents and heights that change
<1>21. PICK D, G : /\ D = [n \in Link |-> IF n \in dead THEN {}
                                         ELSE IF n = a THEN C[a] \cup {p} \cup C[b] ELSE C[n]]
                   /\ G = [n \in Link |-> IF n \in dead THEN 0 ELSE H[n]]
  OBVIOUS
<1>22. /\ D \in [Link -> SUBSET Keys] /\ D[a] = C[a] \cup {p} \cup C[b]
       /\ \A n \in dead : D[n] = {} /\ G[n] = 0
       /\ \A n \in Link \ dead : n # a => D[n] = C[n]
       /\ G \in [Link -> Int] /\ \A n \in Link \ dead : G[n] = H[n]
  <2>1. a \in Link /\ b \in Link /\ dead \subseteq Link
    BY <1>4, <1>12, Constants
  <2>2. C[a] \cup {p} \cup C[b] \in SUBSET Keys
    BY <1>4, <1>6, <2>1
  <2>3. D \in [Link -> SUBSET Keys]
    BY <1>6, <1>21, <2>2
  <2>4. G \in [Link -> Int]
    BY <1>6, <1>21
  <2>5. D[a] = C[a] \cup {p} \cup C[b]
    BY <1>12, <1>21, <2>1
  <2> QED
    BY <1>21, <2>1, <2>3, <2>4, <2>5
<1>23. /\ Good(z, J, l, D, G) /\ Content(z, J, D) = D[a]
       /\ \A i \in Slots(J) : Sub(z, J, i) \in Link \ {a, b, u}
  <2>1. ASSUME NEW i \in Slots(J) PROVE Sub(z, J, i) \in Link \ {a, b, u}
    <3>1. Sub(z, J, i) \in Link
      BY <1>6, SubIs
    <3>2. a # None /\ b # None /\ u # None
      BY <1>4, <1>13
    <3> QED
      BY <1>7, <3>1, <3>2
  <2>2. \A i \in Slots(J) : D[Sub(z, J, i)] = C[Sub(z, J, i)] /\ G[Sub(z, J, i)] = H[Sub(z, J, i)]
    BY <1>12, <1>22, <2>1
  <2>3. Good(z, J, l, D, G)
    BY <1>6, <2>2 DEF Good
  <2>4. Content(z, J, D) = Content(z, J, C)
    <3>1. \A i \in Slots(J) : D[Sub(z, J, i)] = C[Sub(z, J, i)]
      BY <2>2
    <3> QED
      BY <1>6, <3>1, ContentSame
  <2> QED
    BY <1>6, <1>22, <2>1, <2>3, <2>4
<1>24. D[None] = {} /\ G[None] = -1
  <2>1. None \in Link \ dead /\ None # a
    BY <1>4, <1>12, Constants
  <2>2. C[None] = {} /\ H[None] = -1
    BY <1>1 DEF Tree
  <2> QED
    BY <1>22, <2>1, <2>2
<1>25. Good(None, <<>>, -1, D, G) /\ Content(None, <<>>, D) = {}
  <2>1. Len(<<>>) = 0 /\ Slots(<<>>) = {0}
    BY DEF Slots
  <2>2. Sub(None, <<>>, 0) = None
    BY DEF Sub
  <2>3. KeysIn(<<>>) = {}
    BY <2>1 DEF KeysIn
  <2>4. Content(None, <<>>, D) = {}
    BY <1>24, <2>1, <2>2, <2>3 DEF Content
  <2>5. Good(None, <<>>, -1, D, G)
    BY <1>24, <2>1, <2>2 DEF Good, Sorted, Distinct
  <2> QED
    BY <2>4, <2>5
<1>26. ASSUME u \notin dead
       PROVE  Good(y, t, H[u] - 1, D, G) /\ Content(y, t, D) = C[u]
  <2>1. PICK h, e : h = H[u] - 1 /\ e = s[j + 1]
    OBVIOUS
  <2>2. \A i \in Slots(t) : Sub(y, t, i) \in Link \ {b}
    <3>1. \A i \in Slots(t) : Sub(y, t, i) \in Link
      BY <1>9, <1>14, SubIs
    <3> QED
      BY <1>4, <1>19, <1>20, <3>1
  <2>3. dead = {b}
    BY <1>12, <1>26
  <2>4. \A i \in Slots(t) : i # j => D[Sub(y, t, i)] = C[Sub(y, t, i)]
    BY <1>20, <1>22, <2>2, <2>3
  <2>5. D[Sub(y, t, j)] \subseteq C[Sub(y, t, j)] \cup {e.key} \cup C[e.sub]
    BY <1>4, <1>19, <1>22, <2>1
  <2>6. Removed(s, t, j, e, y, h, C, D, H)
    BY <1>6, <1>9, <1>14, <1>18, <1>22, <2>1, <2>4, <2>5 DEF Removed
  <2>7. Good(y, t, h, D, H)
    BY <2>6, RemoveGood
  <2>8. \A i \in Slots(t) : G[Sub(y, t, i)] = H[Sub(y, t, i)]
    BY <1>22, <2>2, <2>3
  <2>9. Good(y, t, h, D, G)
    BY <2>7, <2>8 DEF Good
  <2>10. ASSUME NEW x \in Content(y, s, C) PROVE x \in Content(y, t, D)
    <3>1. CASE x \in D[a]
      BY <1>18, <1>19, <3>1 DEF Content
    <3>2. CASE x \notin D[a]
      <4>1. x # p /\ x \notin C[a] /\ x \notin C[b]
        BY <1>22, <3>2
      <4>2. CASE x \in KeysIn(s)
        BY <1>18, <4>1, <4>2 DEF Content
      <4>3. CASE x \notin KeysIn(s)
        <5>1. PICK i \in Slots(s) : x \in C[Sub(y, s, i)]
          BY <2>10, <4>3 DEF Content
        <5>2. i # j + 1 /\ i # j
          BY <1>4, <1>15, <4>1, <5>1
        <5>3. PICK k \in Slots(t) : Sub(y, t, k) = Sub(y, s, i) /\ k # j
          BY <1>19, <5>2
        <5>4. x \in D[Sub(y, t, k)]
          BY <2>4, <5>1, <5>3
        <5> QED
          BY <5>4 DEF Content
      <4> QED
        BY <4>2, <4>3
    <3> QED
      BY <3>1, <3>2
  <2>11. ASSUME NEW x \in Content(y, t, D) PROVE x \in Content(y, s, C)
    <3>1. CASE x \in D[a]
      <4>1. Sub(y, s, j) = a /\ Sub(y, s, j + 1) = b
        BY <1>4, <1>15
      <4> QED
        BY <1>4, <1>18, <1>22, <3>1, <4>1 DEF Content
    <3>2. CASE x \notin D[a]
      <4>1. CASE x \in KeysIn(t)
        BY <1>18, <4>1 DEF Content
      <4>2. CASE x \notin KeysIn(t)
        <5>1. PICK i \in Slots(t) : x \in D[Sub(y, t, i)]
          BY <2>11, <4>2 DEF Content
        <5>2. i # j
          BY <1>19, <3>2, <5>1
        <5>3. PICK k \in Slots(s) : Sub(y, t, i) = Sub(y, s, k)
          BY <1>20, <5>2
        <5>4. x \in C[Sub(y, s, k)]
          BY <2>4, <5>1, <5>2, <5>3
        <5> QED
          BY <5>4 DEF Content
      <4> QED
        BY <4>1, <4>2
    <3> QED
      BY <3>1, <3>2
  <2>12. Content(y, t, D) = C[u]
    BY <1>14, <2>10, <2>11
  <2> QED
    BY <2>1, <2>9, <2>12
<1>27. ASSUME NEW n \in Nodes, n # a, n # u, n \notin dead
       PROVE  /\ elems[n] \in Seq(Elems) /\ zero[n] \in Link
              /\ Good(zero[n], elems[n], H[n] - 1, D, G)
              /\ C[n] = Content(zero[n], elems[n], D)
  <2>1. /\ elems[n] \in Seq(Elems) /\ zero[n] \in Link
        /\ Good(zero[n], elems[n], H[n] - 1, C, H)
        /\ C[n] = Content(zero[n], elems[n], C)
    <3>1. /\ elems[n] \in Seq(Elems) /\ zero[n] \in Link
          /\ Good(zero[n], elems[n], H[n] - 1, C, H)
          /\ C[n] = Content(zero[n], elems[n], C) \cup Rising(n, C)
      BY <1>1, NodeIs
    <3>2. Rising(n, C) = {}
      BY DEF Rising
    <3> QED
      BY <3>1, <3>2
  <2>2. ASSUME NEW i \in Slots(elems[n])
        PROVE  Sub(zero[n], elems[n], i) \in Link \ dead /\ Sub(zero[n], elems[n], i) # a
    <3>1. Child(n, i) = Sub(zero[n], elems[n], i) /\ Sub(zero[n], elems[n], i) \in Link
      BY <2>1, ChildIs, SubIs
    <3>2. CASE n \in live
      <4>1. Child(n, i) # a /\ Child(n, i) # b
        BY <1>17, <1>27, <3>2
      <4>2. Child(n, i) # None => Child(n, i) # root
        BY <1>1, <3>2, KidIs
      <4>3. Child(n, i) \notin dead
        BY <1>1, <1>4, <1>12, <1>13, <4>1, <4>2
      <4> QED
        BY <3>1, <4>1, <4>3
    <3>3. CASE n \notin live
      <4>1. zero[n] = None /\ elems[n] = <<>>
        BY <1>1, <3>3 DEF Tree
      <4>2. Child(n, i) = None
        BY <4>1 DEF Slots, Child
      <4> QED
        BY <1>4, <1>12, <1>13, <3>1, <4>2
    <3> QED
      BY <3>2, <3>3
  <2>3. \A i \in Slots(elems[n]) :
          /\ D[Sub(zero[n], elems[n], i)] = C[Sub(zero[n], elems[n], i)]
          /\ G[Sub(zero[n], elems[n], i)] = H[Sub(zero[n], elems[n], i)]
    BY <1>22, <2>2
  <2>4. Good(zero[n], elems[n], H[n] - 1, D, G)
    BY <2>1, <2>3 DEF Good
  <2>5. Content(zero[n], elems[n], D) = Content(zero[n], elems[n], C)
    <3>1. \A i \in Slots(elems[n]) : D[Sub(zero[n], elems[n], i)] = C[Sub(zero[n], elems[n], i)]
      BY <2>3
    <3> QED
      BY <2>1, <3>1, ContentSame
  <2> QED
    BY <2>1, <2>4, <2>5
<1>28. ASSUME NEW n \in Nodes
       PROVE  /\ Good(zero'[n], elems'[n], G[n] - 1, D, G)
              /\ D[n] = Content(zero'[n], elems'[n], D)
  <2>1. CASE n \in dead
    <3>1. zero'[n] = None /\ elems'[n] = <<>> /\ G[n] - 1 = -1 /\ D[n] = {}
      BY <1>9, <1>22, <2>1
    <3> QED
      BY <1>25, <3>1
  <2>2. CASE n = a
    <3>1. zero'[n] = z /\ elems'[n] = J /\ G[n] - 1 = l
      BY <1>3, <1>4, <1>9, <1>12, <1>13, <1>22, <2>2
    <3> QED
      BY <1>23, <2>2, <3>1
  <2>3. CASE n = u /\ n \notin dead
    <3>1. zero'[n] = y /\ elems'[n] = t /\ G[n] - 1 = H[u] - 1 /\ D[n] = C[u]
      BY <1>3, <1>4, <1>9, <1>13, <1>22, <2>3
    <3> QED
      BY <1>26, <2>3, <3>1
  <2>4. CASE n # a /\ n # u /\ n \notin dead
    <3>1. zero'[n] = zero[n] /\ elems'[n] = elems[n] /\ G[n] = H[n] /\ D[n] = C[n]
      BY <1>9, <1>12, <1>22, <2>4, Constants
    <3> QED
      BY <1>27, <2>4, <3>1
  <2> QED
    BY <2>1, <2>2, <2>3, <2>4
<1>29. ASSUME u \in dead
       PROVE  /\ u = root /\ dead = {b, u} /\ Len(t) = 0 /\ j = 0 /\ Slots(s) = {0, 1} /\ root' = a
              /\ D[a] = C[root] /\ H[a] = H[root] - 1
  <2>1. u = root /\ dead = {b, u} /\ t = <<>> /\ root' = a
    BY <1>9, <1>12, <1>29
  <2>2. Len(t) = 0
    BY <2>1
  <2>3. j = 0 /\ Len(s) = 1 /\ Slots(s) = {0, 1}
    BY <1>4, <1>18, <2>2 DEF Slots
  <2>4. KeysIn(s) = {p}
    BY <1>4, <2>3 DEF KeysIn
  <2>5. Sub(y, s, 0) = a /\ Sub(y, s, 1) = b
    BY <1>4, <1>15, <2>3
  <2>6. Content(y, s, C) = {p} \cup (C[a] \cup C[b])
    BY <2>3, <2>4, <2>5 DEF Content
  <2>7. D[a] = C[u]
    BY <1>14, <1>22, <2>6
  <2> QED
    BY <1>4, <2>1, <2>2, <2>3, <2>7
<1>30. root' \in Nodes /\ root' \in live \ dead /\ root \in live /\ root \in Nodes
       /\ (u \notin dead => root' = root /\ dead = {b})
  <2>1. root \in live /\ root \in Nodes
    BY <1>1, <1>13 DEF Types
  <2> QED
    BY <1>4, <1>9, <1>12, <2>1
<1>31. Tree(D, G)'
  <2>1. pc' # "insert"
    BY <1>11
  <2>2. \A n : Rising(n, D)' = {}
    BY <2>1 DEF Rising
  <2>3. C[root] = D[root'] /\ \A m \in live : C[m] \subseteq C[root]
    <3>1. u \in dead => C[root] = D[root']
      BY <1>29
    <3>2. u \notin dead => C[root] = D[root']
      <4>1. root \in Link \ {a}
        BY <1>4, <1>13, <1>30
      <4> QED
        BY <1>22, <1>30, <4>1
    <3>3. \A m \in live : C[m] \subseteq C[root]
      BY <1>1 DEF Tree, Rising
    <3> QED
      BY <3>1, <3>2, <3>3
  <2>4. ASSUME NEW n \in live' PROVE D[n] \subseteq D[root']
    <3>1. n \in live \ dead
      BY <1>9
    <3>2. p \in C[u]
      BY <1>14, <1>18 DEF Content
    <3>3. D[a] \subseteq C[root]
      BY <1>4, <1>22, <2>3, <3>2
    <3>4. n # a => D[n] = C[n]
      BY <1>13, <1>22, <3>1
    <3> QED
      BY <2>3, <3>1, <3>3, <3>4
  <2>5. \A n \in Nodes \ live' : zero'[n] = None /\ elems'[n] = <<>>
    <3>1. \A n \in Nodes \ live : zero[n] = None /\ elems[n] = <<>>
      BY <1>1 DEF Tree
    <3> QED
      BY <1>4, <1>9, <1>12, <3>1
  <2>6. ASSUME NEW n \in Nodes PROVE G[n] \in 0 .. G[root']
    <3>1. H[n] \in Nat /\ H[n] <= H[root] /\ H[root] \in Nat /\ (IsLeaf(n) <=> H[n] = 0)
      BY <1>1, NodeIs
    <3>2. n \in Link /\ root' \in Link /\ root' \notin dead
      BY <1>30, Constants
    <3>3. G[root'] = H[root'] /\ (n \notin dead => G[n] = H[n]) /\ (n \in dead => G[n] = 0)
      BY <1>22, <3>2
    <3>4. H[root'] \in Nat
      BY <1>1, <1>30, NodeIs
    <3>5. CASE n \in dead
      BY <3>3, <3>4, <3>5
    <3>6. CASE u \notin dead
      BY <1>30, <3>1, <3>3, <3>4, <3>6
    <3>7. CASE n \notin dead /\ u \in dead
      <4>1. root' = a /\ H[a] = H[root] - 1 /\ n # root
        BY <1>29, <3>7
      <4>2. CASE n \notin live
        <5>1. IsLeaf(n)
          BY <1>1, <4>2 DEF Tree, IsLeaf
        <5> QED
          BY <3>1, <3>3, <3>4, <3>7, <5>1
      <4>3. CASE n \in live
        <5>1. parent[n] \in live /\ \E i \in Slots(elems[parent[n]]) : Child(parent[n], i) = n
          BY <1>1, <4>1, <4>3, AboveIs
        <5>2. PICK m \in live : \E i \in Slots(elems[m]) : Child(m, i) = n
          BY <5>1
        <5>3. H[n] = H[m] - 1
          BY <1>1, <1>13, <4>3, <5>2, KidIs
        <5>4. H[m] \in Nat /\ H[m] <= H[root]
          BY <1>1, <1>13, NodeIs
        <5> QED
          BY <3>1, <3>3, <3>7, <4>1, <5>3, <5>4
      <4> QED
        BY <4>2, <4>3
    <3> QED
      BY <3>5, <3>6, <3>7
  <2>7. \A n \in Nodes : /\ Good(zero'[n], elems'[n], G[n] - 1, D, G)
                         /\ D[n] = Content(zero'[n], elems'[n], D) \cup Rising(n, D)'
    BY <1>28, <2>2
  <2>8. \A n \in live' : D[n] \subseteq D[root'] \cup Rising(None, D)'
    BY <2>4
  <2> QED
    BY <1>22, <1>24, <2>5, <2>6, <2>7, <2>8 DEF Tree
<1>32. Types'
  <2>1. root' \in live' /\ live' \subseteq Nodes
    BY <1>1, <1>9, <1>30 DEF Types
  <2>2. CASE u = root \/ Len(t) >= MinKeys
    BY <1>1, <1>9, <1>11, <2>1, <2>2, Constants DEF Types
  <2>3. CASE ~(u = root \/ Len(t) >= MinKeys)
    <3>1. u \in live'
      BY <1>4, <1>9, <1>12, <2>3
    <3> QED
      BY <1>1, <1>9, <1>11, <2>1, <2>3, <3>1 DEF Types
  <2> QED
    BY <2>2, <2>3
<1>33. /\ \A i : Child(a, i)' = Sub(z, J, i)
       /\ u \notin dead => \A i : Child(u, i)' = Sub(y, t, i)
       /\ \A n \in Nodes \ (dead \cup {a, u}) : \A i : Child(n, i)' = Child(n, i)
  <2>1. \A i : Child(a, i)' = Sub(z, J, i)
    <3>1. zero'[a] = z /\ elems'[a] = J
      BY <1>3, <1>4, <1>9, <1>12
    <3> QED
      BY <3>1 DEF Child, Sub
  <2>2. ASSUME u \notin dead PROVE \A i : Child(u, i)' = Sub(y, t, i)
    <3>1. zero'[u] = y /\ elems'[u] = t
      BY <1>3, <1>4, <1>9, <2>2
    <3> QED
      BY <3>1 DEF Child, Sub
  <2>3. \A n \in Nodes \ (dead \cup {a, u}) : \A i : Child(n, i)' = Child(n, i)
    <3>1. \A n \in Nodes \ (dead \cup {a, u}) : zero'[n] = zero[n] /\ elems'[n] = elems[n]
      BY <1>9, <1>12
    <3> QED
      BY <3>1 DEF Child
  <2> QED
    BY <2>1, <2>2, <2>3
<1>34. ASSUME NEW n \in live, NEW i \in Slots(elems[n]), Child(n, i) # None
       PROVE  Child(n, i) \in live /\ Child(n, i) # root /\ parent[Child(n, i)] = n
  BY <1>1, <1>34, KidIs
<1>35. ASSUME NEW n \in live', NEW i \in Slots(elems'[n]), Child(n, i)' # None
       PROVE  Child(n, i)' \in live' /\ parent'[Child(n, i)'] = n
  <2>1. PICK m : m = Child(n, i)'
    OBVIOUS
  <2>2. n \in live /\ n \notin dead /\ n \in Nodes /\ m # None
    BY <1>9, <1>13, <1>35, <2>1
  <2>3. CASE n = a
    <3>1. m = Sub(z, J, i) /\ i \in Slots(J)
      BY <1>9, <1>33, <1>35, <2>1, <2>3
    <3>2. m \in live \ {root, a, b, u} /\ m \in Nodes /\ parent[m] \in {a, b}
      BY <1>7, <2>2, <3>1
    <3>3. m \notin dead /\ m \in live'
      BY <1>9, <1>12, <3>2
    <3>4. CASE parent[m] = a
      <4>1. parent'[m] = parent[m]
        BY <1>4, <1>10, <3>2, <3>3, <3>4
      <4> QED
        BY <2>1, <2>3, <3>3, <3>4, <4>1
    <3>5. CASE parent[m] = b
      <4>1. PICK x \in Slots(elems[b]) : Child(b, x) = m
        <5>1. m \in live \ {root} /\ pc # "insert"
          BY <3>2
        <5>2. \E x \in Slots(elems[parent[m]]) : Child(parent[m], x) = m
          BY <1>1, <5>1, AboveIs
        <5> QED
          BY <3>5, <5>2
      <4>2. parent'[m] = a
        BY <1>10, <2>2, <4>1
      <4> QED
        BY <2>1, <2>3, <3>3, <4>2
    <3> QED
      BY <3>2, <3>4, <3>5
  <2>4. CASE n = u /\ i = j
    <3>1. u \notin dead /\ m = Sub(y, t, j)
      BY <1>33, <2>1, <2>2, <2>4
    <3>2. m = a
      BY <1>19, <3>1
    <3>3. parent'[a] = u /\ a \in live'
      BY <1>4, <1>9, <1>10, <1>12, <3>1
    <3> QED
      BY <2>1, <2>4, <3>2, <3>3
  <2>5. CASE n = u /\ i # j
    <3>1. u \notin dead /\ m = Sub(y, t, i) /\ i \in Slots(t)
      BY <1>9, <1>33, <1>35, <2>1, <2>2, <2>5
    <3>2. m # a /\ m # b /\ \E x \in Slots(s) : Sub(y, t, i) = Sub(y, s, x)
      BY <1>20, <2>5, <3>1
    <3>3. PICK x \in Slots(s) : m = Sub(y, s, x)
      BY <3>1, <3>2
    <3>4. m = Child(u, x) /\ x \in Slots(elems[u])
      BY <1>15, <3>3
    <3>5. m \in live /\ m # root /\ parent[m] = u
      BY <1>4, <1>34, <2>2, <3>4
    <3>6. m \notin dead /\ m \in Nodes /\ m \in live'
      BY <1>9, <1>13, <1>30, <3>1, <3>2, <3>5
    <3>7. parent'[m] = u
      BY <1>4, <1>10, <3>2, <3>5, <3>6
    <3> QED
      BY <2>1, <2>5, <3>6, <3>7
  <2>6. CASE n # a /\ n # u
    <3>1. elems'[n] = elems[n] /\ m = Child(n, i) /\ i \in Slots(elems[n])
      <4>1. n \in Nodes \ (dead \cup {a, u}) /\ n \in Nodes \ {a, b, u}
        BY <1>12, <2>2, <2>6
      <4> QED
        BY <1>9, <1>33, <1>35, <2>1, <4>1
    <3>2. m \in live /\ m # root /\ parent[m] = n /\ m # a /\ m # b
      BY <1>17, <1>34, <2>2, <2>6, <3>1
    <3>3. m \notin dead /\ m \in Nodes /\ m \in live'
      BY <1>9, <1>12, <1>13, <3>2
    <3>4. parent[m] # b
      BY <1>12, <2>2, <3>2
    <3>5. parent'[m] = n
      BY <1>10, <3>2, <3>3, <3>4
    <3> QED
      BY <2>1, <3>3, <3>5
  <2> QED
    BY <2>3, <2>4, <2>5, <2>6
<1>36. ASSUME NEW n \in live' \ {root'}
       PROVE  parent'[n] \in live' /\ \E i \in Slots(elems'[parent'[n]]) : Child(parent[n], i)' = n
  <2>1. PICK m : m = parent[n]
    OBVIOUS
  <2>2. n \in live /\ n \notin dead /\ n \in Nodes /\ n # None
    BY <1>9, <1>13
  <2>3. n # root
    BY <1>12, <1>29, <1>30, <2>2
  <2>4. m \in live /\ m \in Nodes /\ \E i \in Slots(elems[m]) : Child(m, i) = n
    <3>1. parent[n] \in live /\ \E i \in Slots(elems[parent[n]]) : Child(parent[n], i) = n
      BY <1>1, <2>2, <2>3, AboveIs
    <3> QED
      BY <1>13, <2>1, <3>1
  <2>5. CASE n = a
    <3>1. u \notin dead
      BY <1>9, <2>5
    <3>2. parent'[n] = u /\ u \in live' /\ elems'[u] = t
      BY <1>4, <1>9, <1>10, <2>5, <3>1
    <3>3. \A i : Child(parent[n], i)' = Child(u, i)'
      BY <3>2 DEF Child
    <3>4. Child(u, j)' = n /\ j \in Slots(t)
      BY <1>18, <1>19, <1>33, <2>5, <3>1
    <3> QED
      BY <3>2, <3>3, <3>4
  <2>6. CASE n # a /\ m \in {a, b}
    <3>1. PICK x \in Slots(J) : Sub(z, J, x) = n
      BY <1>8, <2>4, <2>6
    <3>2. Child(a, x)' = n /\ x \in Slots(elems'[a]) /\ a \in live'
      BY <1>4, <1>9, <1>12, <1>33, <3>1
    <3>3. parent'[n] = a
      BY <1>35, <2>2, <3>2
    <3>4. \A i : Child(parent[n], i)' = Child(a, i)'
      BY <3>3 DEF Child
    <3> QED
      BY <3>2, <3>3, <3>4
  <2>7. CASE n # a /\ m = u
    <3>1. PICK x \in Slots(s) : Child(u, x) = n
      BY <1>15, <2>4, <2>7
    <3>2. x # j /\ x # j + 1
      BY <1>4, <1>12, <2>2, <2>7, <3>1
    <3>3. u \notin dead
      BY <1>29, <3>1, <3>2
    <3>4. PICK k \in Slots(t) : Sub(y, t, k) = Sub(y, s, x)
      BY <1>19, <3>2
    <3>5. Child(u, k)' = n /\ k \in Slots(elems'[u]) /\ u \in live'
      BY <1>4, <1>9, <1>15, <1>33, <3>1, <3>3, <3>4
    <3>6. parent'[n] = u
      BY <1>35, <2>2, <3>5
    <3>7. \A i : Child(parent[n], i)' = Child(u, i)'
      BY <3>6 DEF Child
    <3> QED
      BY <3>5, <3>6, <3>7
  <2>8. CASE n # a /\ m \notin {a, b, u}
    <3>1. m \in live' /\ elems'[m] = elems[m] /\ \A i : Child(m, i)' = Child(m, i)
      <4>1. m \in Nodes \ (dead \cup {a, u}) /\ m \in Nodes \ {a, b, u} /\ m \notin dead
        BY <1>12, <2>4, <2>8
      <4> QED
        BY <1>9, <1>33, <2>4, <4>1
    <3>2. parent'[n] = m
      BY <1>10, <2>1, <2>2, <2>8
    <3>3. \A i : Child(parent[n], i)' = Child(m, i)'
      BY <3>2 DEF Child
    <3> QED
      BY <2>4, <3>1, <3>2, <3>3
  <2> QED
    BY <2>5, <2>6, <2>7, <2>8
<1>37. Links'
  <2>1. parent'[root'] = None
    <3>1. CASE u \in dead
      BY <1>10, <1>29, <3>1
    <3>2. CASE u \notin dead
      <4>1. parent[root] = None /\ root' = root /\ root \in Nodes \ dead
        BY <1>1, <1>30, <3>2 DEF Links
      <4>2. b # None /\ root # a
        BY <1>4, <1>13
      <4> QED
        BY <1>10, <4>1, <4>2
    <3> QED
      BY <3>1, <3>2
  <2>2. \A n \in live' : \A i \in Slots(elems'[n]) :
          Child(n, i)' # None => Child(n, i)' \in live' /\ parent'[Child(n, i)'] = n
    BY <1>35
  <2> QED
    BY <1>36, <2>1, <2>2 DEF Links
<1>38. KeyOnce'
  <2>1. \A n \in live' : n \in live /\ n \notin dead /\ n # b
    BY <1>9, <1>12
  <2>2. ASSUME NEW n \in live \ {a, b, u}
        PROVE  /\ elems'[n] = elems[n]
               /\ \A x \in KeysIn(elems[n]) : x \notin KeysIn(J) /\ x \notin KeysIn(s)
    <3>1. p \in KeysIn(elems[u])
      BY <1>15, <1>18
    <3>2. \A x \in KeysIn(elems[n]) : /\ x \notin KeysIn(elems[a]) /\ x \notin KeysIn(elems[u])
                                      /\ x \notin KeysIn(elems[b]) /\ x # p
      BY <1>2, <1>4, <3>1 DEF Once
    <3> QED
      BY <1>6, <1>9, <1>13, <1>15, <3>2
  <2>3. KeysIn(J) \cap KeysIn(t) = {}
    <3>1. \A x \in KeysIn(s) : x \notin KeysIn(elems[a]) /\ x \notin KeysIn(elems[b])
      BY <1>2, <1>4, <1>15 DEF Once
    <3> QED
      BY <1>6, <1>18, <3>1
  <2>4. KeysIn(t) \subseteq KeysIn(s)
    BY <1>18
  <2>5. ASSUME NEW m \in live', NEW n \in live', m # n
        PROVE  KeysIn(elems'[m]) \cap KeysIn(elems'[n]) = {}
    <3>1. \A x \in {m, n} : /\ x = a => elems'[x] = J
                            /\ x = u => elems'[x] = t
                            /\ x # a /\ x # u => x \in live \ {a, b, u}
      BY <1>4, <1>9, <2>1
    <3>2. CASE m \in {a, u} /\ n \in {a, u}
      BY <2>3, <2>5, <3>1, <3>2
    <3>3. CASE m \in {a, u} /\ n \notin {a, u}
      BY <2>2, <2>4, <3>1, <3>3
    <3>4. CASE m \notin {a, u} /\ n \in {a, u}
      BY <2>2, <2>4, <3>1, <3>4
    <3>5. CASE m \notin {a, u} /\ n \notin {a, u}
      <4>1. elems'[m] = elems[m] /\ elems'[n] = elems[n] /\ m \in live /\ n \in live
        BY <2>1, <2>2, <3>1, <3>5
      <4> QED
        BY <1>2, <2>5, <4>1 DEF Once
    <3> QED
      BY <3>2, <3>3, <3>4, <3>5
  <2>6. pc' # "insert"
    BY <1>11
  <2> QED
    BY <2>5, <2>6 DEF KeyOnce
<1>39. Fill'
  <2>1. Size \in Int /\ MinKeys \in Int /\ MinKeys >= 2 /\ Len(<<>>) = 0 /\ Len(J) \in Nat
    BY <1>6, SeqLen, Constants
  <2>2. \A n \in Nodes : Len(elems[n]) <= Size - 2
    BY <1>1 DEF Fill
  <2>3. Len(t) <= Size - 2
    <3>1. Len(s) <= Size - 2
      BY <1>4, <1>15, <2>2
    <3> QED
      BY <1>18, <2>1, <3>1
  <2>4. ASSUME NEW n \in Nodes PROVE Len(elems'[n]) <= Size - 2
    <3>1. CASE n \in dead
      BY <1>9, <2>1, <3>1, Constants
    <3>2. CASE n \notin dead
      BY <1>9, <1>12, <2>2, <2>3, <3>2
    <3> QED
      BY <3>1, <3>2
  <2>5. ASSUME NEW n \in live' \ {root'} PROVE Len(elems'[n]) >= MinKeys \/ (pc' = "repair" /\ n = cur')
    <3>1. n \in live /\ n \notin dead /\ n \in Nodes /\ n # b
      BY <1>9, <1>12, <1>13
    <3>2. CASE n = a
      BY <1>9, <3>2
    <3>3. CASE n = u
      <4>1. u \notin dead /\ u # root /\ elems'[u] = t
        BY <1>9, <3>1, <3>3
      <4> QED
        BY <1>11, <3>3, <4>1
    <3>4. CASE n # a /\ n # u
      <4>1. n # root
        BY <1>12, <1>29, <1>30, <3>1
      <4>2. Len(elems[n]) >= MinKeys
        BY <1>1, <3>1, <3>4, <4>1 DEF Fill
      <4> QED
        BY <1>9, <3>1, <3>4, <4>2
    <3> QED
      BY <3>2, <3>3, <3>4
  <2>6. zero'[root'] = None \/ elems'[root'] # <<>>
    <3>1. CASE u \in dead
      BY <1>9, <1>29, <2>1, <3>1
    <3>2. CASE u \notin dead /\ u = root
      BY <1>9, <1>12, <1>30, <3>2
    <3>3. CASE u # root
      <4>1. root' = root /\ root \notin {a, b, u} /\ root \notin dead
        BY <1>4, <1>12, <1>30, <3>3
      <4>2. elems'[root] = elems[root] /\ zero'[root] = zero[root]
        BY <1>9, <1>30, <4>1
      <4>3. zero[root] = None \/ elems[root] # <<>>
        BY <1>1 DEF Fill, IsLeaf
      <4> QED
        BY <4>1, <4>2, <4>3
    <3> QED
      BY <3>1, <3>2, <3>3
  <2> QED
    BY <2>4, <2>5, <2>6 DEF Fill, IsLeaf
<1>40. Repair'
  <2> SUFFICES ASSUME pc' = "repair"
               PROVE  /\ call' = "delete" /\ ret' = <<call', want', TRUE>>
                      /\ cur' # root' /\ Len(elems'[cur']) = MinKeys - 1
    BY DEF Repair
  <2>1. /\ ~(u = root \/ Len(t) >= MinKeys) /\ cur' = u /\ call' = call /\ want' = want
        /\ ret' = ret
    BY <1>11
  <2>2. call = "delete" /\ ret = <<call, want, TRUE>>
    BY DEF Inv, Repair
  <2>3. u \notin dead /\ elems'[u] = t /\ root' = root
    BY <1>9, <1>12, <2>1
  <2>4. Len(s) >= MinKeys
    BY <1>1, <1>4, <1>15, <2>1 DEF Fill
  <2>5. Len(t) = MinKeys - 1
    BY <1>18, <2>1, <2>4, Constants
  <2> QED
    BY <2>1, <2>2, <2>3, <2>5
<1>41. Searching(D, G)' /\ Inserting(D, G)'
  <2>1. pc' # "search" /\ pc' # "insert"
    BY <1>11
  <2> QED
    BY <2>1 DEF Searching, Inserting
<1>42. Unseen
  <2>1. PICK S, K : S = {a, b, u} /\ K = KeysIn(J) \cup KeysIn(s)
    OBVIOUS
  <2>2. /\ KeysIn(elems[a]) \subseteq K /\ KeysIn(elems[b]) \subseteq K /\ KeysIn(elems[u]) \subseteq K
        /\ \A x \in K : x \in KeysIn(elems[a]) \/ x \in KeysIn(elems[b]) \/ x \in KeysIn(elems[u])
    BY <1>6, <1>15, <1>18, <2>1
  <2>3. /\ \A n \in live : n \notin S => n \in live' /\ elems'[n] = elems[n]
        /\ \A n \in live' : n \in live
    BY <1>9, <1>12, <1>13, <2>1
  <2>4. \A n \in live : n \in S => KeysIn(elems[n]) \subseteq K
    BY <2>1, <2>2
  <2>5. \A n \in live' : n \in S => KeysIn(elems'[n]) \subseteq K
    <3> SUFFICES ASSUME NEW n \in live', n \in S PROVE KeysIn(elems'[n]) \subseteq K
      OBVIOUS
    <3>1. n = a \/ (n = u /\ u \notin dead)
      BY <1>9, <1>12, <2>1
    <3>2. elems'[n] = J \/ elems'[n] = t
      BY <1>9, <3>1
    <3> QED
      BY <1>18, <2>1, <3>2
  <2>6. \A x \in K : \E n \in live : x \in KeysIn(elems[n])
    BY <1>4, <2>2
  <2>7. ASSUME NEW x \in K PROVE \E n \in live' : x \in KeysIn(elems'[n])
    <3>1. CASE x \in KeysIn(J)
      <4>1. a \in live' /\ elems'[a] = J
        BY <1>4, <1>9, <1>12
      <4> QED
        BY <3>1, <4>1
    <3>2. CASE x \notin KeysIn(J)
      <4>1. x \in KeysIn(t)
        BY <1>6, <1>18, <2>1, <2>7, <3>2
      <4>2. t # <<>>
        <5>1. KeysIn(<<>>) = {}
          BY DEF KeysIn
        <5> QED
          BY <4>1, <5>1
      <4>3. u \in live' /\ elems'[u] = t
        BY <1>4, <1>9, <1>12, <4>2
      <4> QED
        BY <4>1, <4>3
    <3> QED
      BY <3>1, <3>2
  <2>8. pc # "insert" /\ pc' # "insert"
    BY <1>11
  <2>9. Moves(S, K)
    BY <2>3, <2>4, <2>5, <2>6, <2>7, <2>8 DEF Moves
  <2>10. AllKeys' = AllKeys
    BY <2>9, KeysMoved
  <2>11. ret = <<call, want, TRUE>> /\ (ret' = <<call, want, TRUE>> \/ ret' = ret)
    BY DEF Inv, Repair, Merges, Return, Result
  <2> QED
    BY <2>10, <2>11 DEF Unseen
<1> QED
  BY <1>31, <1>32, <1>37, <1>38, <1>39, <1>40, <1>41, <1>42 DEF IInv, Inv

\* The keys and nodes that merge_right and merge_left move
LEMMA MovedIs ==
  ASSUME NEW e \in Elems, NEW b \in Seq(Elems)
  PROVE  \A n : n \in Subtrees(None, <<e>> \o b) <=>
                  n # None /\ \E i \in Slots(b) : Sub(e.sub, b, i) = n
<1>1. PICK c, t : c = <<e>> /\ t = c \o b
  OBVIOUS
<1>2. c \in Seq(Elems) /\ Len(c) = 1 /\ c[1] = e /\ Len(b) \in Nat
  BY <1>1, SeqLen
<1>3. /\ t \in Seq(Elems) /\ Len(t) = 1 + Len(b)
      /\ \A i \in 1 .. Len(c) : t[i] = c[i]
      /\ \A i \in 1 .. Len(b) : t[Len(c) + i] = b[i]
  BY <1>1, <1>2, ConcatIs
<1>4. t[1] = e
  <2>1. 1 \in 1 .. Len(c)
    BY <1>2
  <2> QED
    BY <1>2, <1>3, <2>1
<1>5. \A i \in Slots(b) : i + 1 \in Slots(t) /\ Sub(None, t, i + 1) = Sub(e.sub, b, i)
  <2> SUFFICES ASSUME NEW i \in Slots(b)
               PROVE  i + 1 \in Slots(t) /\ Sub(None, t, i + 1) = Sub(e.sub, b, i)
    OBVIOUS
  <2>1. i \in Nat /\ i + 1 \in Slots(t) /\ i + 1 # 0 /\ 1 + i = i + 1
    BY <1>2, <1>3 DEF Slots
  <2>2. t[i + 1].sub = Sub(e.sub, b, i)
    <3>1. CASE i = 0
      BY <1>4, <3>1 DEF Sub
    <3>2. CASE i # 0
      <4>1. i \in 1 .. Len(b)
        BY <1>2, <2>1, <3>2 DEF Slots
      <4>2. t[i + 1] = b[i]
        BY <1>2, <1>3, <2>1, <4>1
      <4> QED
        BY <3>2, <4>2 DEF Sub
    <3> QED
      BY <3>1, <3>2
  <2> QED
    BY <2>1, <2>2 DEF Sub
<1>6. \A n : n \in Subtrees(None, t) <=> n # None /\ \E i \in Slots(t) : Sub(None, t, i) = n
  BY <1>3, SubtreesIs
<1>7. ASSUME NEW i \in Slots(t), Sub(None, t, i) # None
      PROVE  \E k \in Slots(b) : Sub(e.sub, b, k) = Sub(None, t, i)
  <2>1. PICK k : k = i - 1
    OBVIOUS
  <2>2. i # 0
    BY <1>7 DEF Sub
  <2>3. i \in 1 .. 1 + Len(b)
    BY <1>2, <1>3, <2>2 DEF Slots
  <2>4. k \in 0 .. Len(b) /\ k + 1 = i
    BY <1>2, <2>1, <2>3
  <2> QED
    BY <1>5, <2>4 DEF Slots
<1> QED
  BY <1>1, <1>5, <1>6, <1>7

LEMMA MergeIntoInv ==
  ASSUME NEW C, NEW H, Inv(C, H), pc = "repair", cur # root,
         NEW u, NEW j, NEW a, NEW b, NEW p, Siblings(u, j, a, b, p, H), cur \in {a, b},
         Len(elems[a]) + Len(elems[b]) = 2 * MinKeys - 1,
         NEW i, i = j + 1, MergeInto(a, b, i), UNCHANGED <<script, calls>>
  PROVE  IInv' /\ Unseen
<1>1. Types /\ Links /\ Fill /\ Tree(C, H)
  BY DEF Inv
<1>2. /\ u \in live /\ u \in Nodes /\ j \in Slots(elems[u]) /\ j \in Nat
      /\ i \in 1 .. Len(elems[u]) /\ elems[u][i].key = p /\ p \in Keys
      /\ a \in live \ {root, u} /\ b \in live \ {root, u} /\ a # b
      /\ a \in Nodes /\ b \in Nodes /\ parent[a] = u /\ parent[b] = u
  BY DEF Siblings
<1>3. parent[cur] = u
  BY <1>2
<1>4. PICK e, moved, t, dead, par, J :
        /\ e = Elem(p, zero[b]) /\ moved = <<e>> \o elems[b] /\ t = RemoveAt(elems[u], i)
        /\ dead = IF u = root /\ t = <<>> THEN {b, u} ELSE {b}
        /\ par = Adopt(parent, a, None, moved)
        /\ J = elems[a] \o moved
  OBVIOUS
<1>5. Joint(J, u, a, b, p, C, H)
  BY <1>4, JointIs
<1>6. /\ J \in Seq(Elems) /\ Joins(J, elems[a], p, zero[b], elems[b]) /\ Sorted(J)
      /\ Len(J) = Len(elems[a]) + 1 + Len(elems[b]) /\ zero[b] \in Link
  BY <1>5 DEF Joint, Good
<1>7. elems[a] \in Seq(Elems) /\ elems[b] \in Seq(Elems) /\ elems[u] \in Seq(Elems)
      /\ Len(elems[a]) \in Nat /\ Len(elems[b]) \in Nat
  BY <1>1, <1>2, SeqLen DEF Types
<1>8. MinKeys <= Len(J) /\ Len(J) <= Size - 2
  <2>1. PICK la, lb, m : la = Len(elems[a]) /\ lb = Len(elems[b]) /\ m = MinKeys
    OBVIOUS
  <2>2. m \in Nat /\ m <= 2 * m /\ 2 * m <= Size - 2
    BY <2>1, Constants
  <2>3. la \in Nat /\ lb \in Nat /\ la + lb = 2 * m - 1 /\ Len(J) = la + 1 + lb
    BY <1>6, <1>7, <2>1
  <2>4. PICK w : w = 2 * m
    OBVIOUS
  <2>5. w \in Int /\ m <= w /\ w <= Size - 2 /\ Len(J) = w
    BY <2>2, <2>3, <2>4
  <2> QED
    BY <2>1, <2>5
<1>9. PutAll(elems[a], moved) = J
  <2>1. moved = <<Elem(p, zero[b])>> \o elems[b]
    BY <1>4
  <2>2. p \in Keys /\ Len(J) <= Size - 2
    BY <1>2, <1>8
  <2>3. PutAll(elems[a], <<Elem(p, zero[b])>> \o elems[b]) = J
    BY <1>6, <1>7, <2>2, PutAllIs
  <2> QED
    BY <2>1, <2>3
<1>10. t \in Seq(Elems) /\ Inserts(elems[u], t, j, elems[u][j + 1])
  <2>1. t \in Seq(Elems) /\ Inserts(elems[u], t, i - 1, elems[u][i])
    BY <1>4, <1>2, <1>7, RemoveIs
  <2>2. i - 1 = j
    BY <1>2
  <2> QED
    BY <2>1, <2>2
<1>11. e \in Elems /\ e.sub = zero[b]
  BY <1>4, <1>2, <1>6 DEF Elem, Elems
<1>12. \A m : m \in Subtrees(None, moved) <=> m # None /\ \E k \in Slots(elems[b]) : Child(b, k) = m
  <2>1. \A k : Child(b, k) = Sub(e.sub, elems[b], k)
    BY <1>2, <1>11, ChildIs
  <2>2. \A m : m \in Subtrees(None, moved) <=>
                 m # None /\ \E k \in Slots(elems[b]) : Sub(e.sub, elems[b], k) = m
    BY <1>4, <1>7, <1>11, MovedIs
  <2> QED
    BY <2>1, <2>2
<1>13. \A k \in Slots(elems[b]) : Child(b, k) # None =>
         Child(b, k) \in live \ {root, b} /\ Child(b, k) \in Nodes /\ parent[Child(b, k)] = b
  BY <1>1, <1>2, KidIs
<1>14. /\ live' = live \ dead
       /\ root' = IF u \in dead THEN a ELSE root
       /\ elems' = [n \in Nodes |-> elems'[n]] /\ zero' = [n \in Nodes |-> zero'[n]]
       /\ parent' = [n \in Nodes |-> parent'[n]]
       /\ \A n \in Nodes :
            /\ n \in dead => elems'[n] = <<>> /\ zero'[n] = None
            /\ n \notin dead /\ n = a => elems'[n] = J
            /\ n \notin dead /\ n # a /\ n = u => elems'[n] = t
            /\ n \notin dead /\ n # a /\ n # u => elems'[n] = elems[n]
            /\ n \notin dead => zero'[n] = zero[n]
            /\ parent'[n] = IF n \in dead \/ (n = a /\ u \in dead) THEN None ELSE par[n]
       /\ IF u = root \/ Len(t) >= MinKeys
            THEN Return(TRUE)
            ELSE cur' = u /\ UNCHANGED <<pc, call, want, key, carry, ret>>
  <2> DEFINE up    == parent[cur]
             mv    == <<Elem(elems[up][i].key, zero[b])>> \o elems[b]
             rest  == RemoveAt(elems[up], i)
             gone  == IF up = root /\ rest = <<>> THEN {b, up} ELSE {b}
             above == Adopt(parent, a, None, mv)
             all   == PutAll(elems[a], mv)
             kept  == [elems EXCEPT ![a] = PutAll(@, mv), ![up] = rest]
  <2>1. /\ live' = live \ gone
        /\ root' = IF up \in gone THEN a ELSE root
        /\ elems' = [m \in Nodes |-> IF m \in gone THEN <<>> ELSE kept[m]]
        /\ zero' = [m \in Nodes |-> IF m \in gone THEN None ELSE zero[m]]
        /\ parent' = [m \in Nodes |->
                        IF m \in gone \/ (m = a /\ up \in gone) THEN None ELSE above[m]]
        /\ IF up = root \/ Len(rest) >= MinKeys
             THEN Return(TRUE)
             ELSE cur' = up /\ UNCHANGED <<pc, call, want, key, carry, ret>>
    BY DEF MergeInto
  <2>2. up = u
    BY <1>3
  <2>3. mv = moved
    BY <1>4, <1>2, <2>2
  <2>4. rest = t
    BY <1>4, <2>2
  <2>5. gone = dead
    BY <1>4, <2>2, <2>4
  <2>6. above = par /\ all = J
    BY <1>4, <1>9, <2>3
  <2>7. \A n \in Nodes : /\ n = a => kept[n] = all
                         /\ n # a /\ n = up => kept[n] = rest
                         /\ n # a /\ n # up => kept[n] = elems[n]
    BY <1>1, <1>2, <2>2 DEF Types
  <2> HIDE DEF up, mv, rest, gone, above, all, kept
  <2>8. ASSUME NEW n \in Nodes
        PROVE  /\ n \in gone => elems'[n] = <<>> /\ zero'[n] = None
               /\ n \notin gone /\ n = a => elems'[n] = all
               /\ n \notin gone /\ n # a /\ n = up => elems'[n] = rest
               /\ n \notin gone /\ n # a /\ n # up => elems'[n] = elems[n]
               /\ n \notin gone => zero'[n] = zero[n]
               /\ parent'[n] = IF n \in gone \/ (n = a /\ up \in gone) THEN None ELSE above[n]
    <3>1. elems'[n] = IF n \in gone THEN <<>> ELSE kept[n]
      BY <2>1
    <3>2. zero'[n] = IF n \in gone THEN None ELSE zero[n]
      BY <2>1
    <3>3. parent'[n] = IF n \in gone \/ (n = a /\ up \in gone) THEN None ELSE above[n]
      BY <2>1
    <3>4. /\ n = a => kept[n] = all
          /\ n # a /\ n = up => kept[n] = rest
          /\ n # a /\ n # up => kept[n] = elems[n]
      BY <2>7
    <3> QED
      BY <3>1, <3>2, <3>3, <3>4
  <2>9. /\ elems' = [n \in Nodes |-> elems'[n]] /\ zero' = [n \in Nodes |-> zero'[n]]
        /\ parent' = [n \in Nodes |-> parent'[n]]
    BY <2>1
  <2>10. /\ live' = live \ gone
         /\ root' = IF up \in gone THEN a ELSE root
         /\ IF up = root \/ Len(rest) >= MinKeys
              THEN Return(TRUE)
              ELSE cur' = up /\ UNCHANGED <<pc, call, want, key, carry, ret>>
    BY <2>1
  <2> QED
    BY <2>2, <2>4, <2>5, <2>6, <2>8, <2>9, <2>10
<1>15. /\ a \notin dead /\ b \in dead /\ dead \subseteq {b, u} /\ (u \in dead => u = root)
  BY <1>4, <1>2
<1>16. /\ \A n \in dead : elems'[n] = <<>> /\ zero'[n] = None
       /\ elems'[a] = J
       /\ u \notin dead => elems'[u] = t
       /\ \A n \in Nodes \ {a, b, u} : elems'[n] = elems[n]
       /\ \A n \in Nodes \ dead : zero'[n] = zero[n]
  BY <1>2, <1>14, <1>15
<1>17. elems' \in [Nodes -> Seq(Elems)] /\ zero' \in [Nodes -> Link]
  <2>1. elems \in [Nodes -> Seq(Elems)] /\ zero \in [Nodes -> Link] /\ None \in Link
    BY <1>1, Constants DEF Types
  <2>2. ASSUME NEW n \in Nodes PROVE elems'[n] \in Seq(Elems) /\ zero'[n] \in Link
    <3>1. n \in dead \/ n = a \/ (n = u /\ u \notin dead) \/ n \in Nodes \ ({a, b, u} \cup dead)
      BY <1>15
    <3>2. <<>> \in Seq(Elems)
      OBVIOUS
    <3> QED
      BY <1>2, <1>6, <1>10, <1>15, <1>16, <2>1, <3>1, <3>2
  <2> QED
    BY <1>14, <2>2
<1>18. par \in [Nodes -> Link]
       /\ \A m \in Nodes : par[m] = IF m \in Subtrees(None, moved) THEN a ELSE parent[m]
  <2>1. par = [m \in Nodes |-> IF m \in Subtrees(None, moved) THEN a ELSE parent[m]]
    BY <1>4 DEF Adopt
  <2>2. parent \in [Nodes -> Link] /\ a \in Link
    BY <1>1, <1>2, Constants DEF Types
  <2> QED
    BY <2>1, <2>2
<1>19. parent' \in [Nodes -> Link]
  BY <1>14, <1>18, Constants
<1>20. ASSUME NEW k \in Slots(elems[b]), Child(b, k) # None
       PROVE  parent'[Child(b, k)] = a
  <2>1. PICK m : m = Child(b, k)
    OBVIOUS
  <2>2. m \in live \ {root, b} /\ m \in Nodes /\ parent[m] = b /\ m # None
    BY <1>13, <1>20, <2>1
  <2>3. m \notin dead /\ m # a
    BY <1>2, <1>15, <2>2
  <2>4. m \in Subtrees(None, moved)
    BY <1>12, <2>1, <2>2
  <2>5. parent'[m] = a
    BY <1>14, <1>18, <2>2, <2>3, <2>4
  <2> QED
    BY <2>1, <2>5
<1>21. ASSUME NEW n \in Nodes \ dead, parent[n] # b
       PROVE  /\ n # a => parent'[n] = parent[n]
              /\ n = a => parent'[n] = IF u \in dead THEN None ELSE parent[n]
  <2>1. n \notin Subtrees(None, moved)
    BY <1>12, <1>13, <1>21
  <2> QED
    BY <1>14, <1>18, <2>1
<1>22. parent'[a] = IF u \in dead THEN None ELSE u
  <2>1. a \in Nodes \ dead /\ parent[a] # b
    BY <1>2, <1>15
  <2> QED
    BY <1>2, <1>21, <2>1
<1>23. Merges(u, j, a, b, J, t, dead)
  BY <1>4, <1>10, <1>14, <1>16, <1>17, <1>19, <1>20, <1>21, <1>22 DEF Merges
<1> QED
  BY <1>5, <1>8, <1>23, MergeInv

LEMMA MergeRightInv ==
  ASSUME NEW C, NEW H, Inv(C, H), MergeRight
  PROVE  IInv' /\ Unseen
<1>1. pc = "repair" /\ cur # root
  BY DEF MergeRight, Repairing
<1>2. Types /\ Fill /\ Links /\ Tree(C, H)
  BY DEF Inv
<1>3. PICK u, j : Misses(cur, u, j)
  BY <1>1, MissesIs
<1>4. PICK a, b, p, i : a = cur /\ b = Right(cur) /\ p = elems[u][j + 1].key /\ i = j + 1
  OBVIOUS
<1>5. /\ a \in live \ {root} /\ a \in Nodes /\ u \in live /\ u \in Nodes /\ parent[a] = u
      /\ Len(elems[a]) = MinKeys - 1 /\ j \in Slots(elems[u]) /\ Child(u, j) = a /\ Index(a) = j
  BY <1>4, <1>3 DEF Misses
<1>6. b # None /\ ~(Len(elems[b]) > MinKeys) /\ MergeInto(a, b, i) /\ UNCHANGED <<script, calls>>
  BY <1>4, <1>5 DEF MergeRight, CanLend
<1>7. j # Len(elems[u]) /\ b = Child(u, j + 1)
  BY <1>4, <1>5, <1>6 DEF Right
<1>8. Siblings(u, j, a, b, p, H)
  <2>1. j + 1 \in Slots(elems[u])
    BY <1>2, <1>5, <1>7, SeqLen DEF Types, Slots
  <2>2. Child(u, j) # None
    BY <1>2, <1>5, Constants
  <2>3. Siblings(u, j, Child(u, j), Child(u, j + 1), elems[u][j + 1].key, H)
    BY <1>5, <2>1, <2>2, SiblingsAre
  <2> QED
    BY <1>4, <1>5, <1>7, <2>3
<1>9. Len(elems[a]) + Len(elems[b]) = 2 * MinKeys - 1
  <2>1. b \in live \ {root} /\ b # cur /\ elems[b] \in Seq(Elems)
    BY <1>4, <1>2, <1>8 DEF Siblings, Types
  <2>2. Len(elems[b]) >= MinKeys /\ Len(elems[b]) \in Nat /\ MinKeys \in Int
    BY <1>2, <2>1, SeqLen, Constants DEF Fill
  <2> QED
    BY <1>5, <1>6, <2>2
<1>10. cur \in {a, b}
  BY <1>4
<1> QED
  BY <1>4, <1>1, <1>6, <1>8, <1>9, <1>10, MergeIntoInv

LEMMA MergeLeftInv ==
  ASSUME NEW C, NEW H, Inv(C, H), MergeLeft
  PROVE  IInv' /\ Unseen
<1>1. pc = "repair" /\ cur # root
  BY DEF MergeLeft, Repairing
<1>2. Types /\ Fill /\ Links /\ Tree(C, H)
  BY DEF Inv
<1>3. PICK u, i : Misses(cur, u, i)
  BY <1>1, MissesIs
<1>4. PICK a, b, p, j : a = Left(cur) /\ b = cur /\ p = elems[u][i].key /\ j = i - 1
  OBVIOUS
<1>5. /\ b \in live \ {root} /\ b \in Nodes /\ u \in live /\ u \in Nodes /\ parent[b] = u
      /\ Len(elems[b]) = MinKeys - 1 /\ i \in Slots(elems[u]) /\ Child(u, i) = b /\ Index(b) = i
  BY <1>4, <1>3 DEF Misses
<1>6. a # None /\ ~(Len(elems[a]) > MinKeys) /\ MergeInto(a, b, i) /\ UNCHANGED <<script, calls>>
  BY <1>4, <1>5 DEF MergeLeft, CanLend
<1>7. i # 0 /\ a = Child(u, j)
  BY <1>4, <1>5, <1>6 DEF Left
<1>8. Siblings(u, j, a, b, p, H) /\ i = j + 1
  <2>1. j \in Slots(elems[u]) /\ j + 1 \in Slots(elems[u]) /\ i = j + 1
    BY <1>4, <1>2, <1>5, <1>7, SeqLen DEF Types, Slots
  <2>2. Child(u, j) # None
    BY <1>6, <1>7
  <2>3. Siblings(u, j, Child(u, j), Child(u, j + 1), elems[u][j + 1].key, H)
    BY <1>5, <2>1, <2>2, SiblingsAre
  <2> QED
    BY <1>4, <1>5, <1>7, <2>1, <2>3
<1>9. Len(elems[a]) + Len(elems[b]) = 2 * MinKeys - 1
  <2>1. a \in live \ {root} /\ a # cur /\ elems[a] \in Seq(Elems)
    BY <1>4, <1>2, <1>8 DEF Siblings, Types
  <2>2. Len(elems[a]) >= MinKeys /\ Len(elems[a]) \in Nat /\ MinKeys \in Int
    BY <1>2, <2>1, SeqLen, Constants DEF Fill
  <2> QED
    BY <1>5, <1>6, <2>2
<1>10. cur \in {a, b}
  BY <1>4
<1> QED
  BY <1>4, <1>1, <1>6, <1>8, <1>9, <1>10, MergeIntoInv

-----------------------------------------------------------------------------
(* The invariant holds.                                                     *)

LEMMA NextInv ==
  ASSUME NEW C, NEW H, Inv(C, H), Next
  PROVE  IInv'
<1>1. script \in Seq({"insert", "delete"} \X Keys) /\ calls \in 0 .. MaxCalls /\ MaxCalls \in Nat
  BY BTreeAssumption DEF Inv, Types
<1>2. CASE Scripted
  <2>1. PICK s, c, k : s = script /\ c = Head(script)[1] /\ k = Head(script)[2]
    OBVIOUS
  <2>2. s \in Seq({"insert", "delete"} \X Keys) /\ s # <<>>
    BY <1>1, <1>2, <2>1 DEF Scripted
  <2>3. Head(s) \in {"insert", "delete"} \X Keys /\ Tail(s) \in Seq({"insert", "delete"} \X Keys)
    BY <2>2
  <2>4. c \in {"insert", "delete", "search"} /\ k \in Keys
    BY <2>1, <2>3
  <2>5. Start(c, k) /\ script' \in Seq({"insert", "delete"} \X Keys) /\ calls' \in 0 .. MaxCalls
    BY <1>1, <1>2, <2>1, <2>3 DEF Scripted
  <2> QED
    BY <2>4, <2>5, StartInv
<1>3. ASSUME NEW c \in {"insert", "delete", "search"}, NEW k \in Keys, Call(c, k)
      PROVE  IInv'
  <2>1. Start(c, k) /\ script' \in Seq({"insert", "delete"} \X Keys) /\ calls' \in 0 .. MaxCalls
    BY <1>1, <1>3 DEF Call
  <2> QED
    BY <2>1, StartInv
<1>4. CASE Descend
  BY <1>4, DescendInv
<1>5. CASE Miss
  BY <1>5, MissInv
<1>6. CASE HitKey
  BY <1>6, HitKeyInv
<1>7. CASE DeleteFromLeaf
  BY <1>7, LeafDeleted
<1>8. CASE DeleteFromInner
  BY <1>8, InnerDeleted
<1>9. CASE VectorInsert
  BY <1>9, VectorInsertInv
<1>10. CASE SplitInsert
  BY <1>10, SplitInsertInv
<1>11. CASE NewRoot
  BY <1>11, NewRootInv
<1>12. CASE RepairRoot
  BY <1>12, RepairRootInv
<1>13. CASE RotateFromRight
  BY <1>13, RotateFromRightInv
<1>14. CASE RotateFromLeft
  BY <1>14, RotateFromLeftInv
<1>15. CASE MergeRight
  BY <1>15, MergeRightInv
<1>16. CASE MergeLeft
  BY <1>16, MergeLeftInv
<1> QED
  BY <1>2, <1>3, <1>4, <1>5, <1>6, <1>7, <1>8, <1>9, <1>10, <1>11, <1>12, <1>13, <1>14, <1>15, <1>16
     DEF Next, Step

LEMMA StillInv ==
  ASSUME IInv, UNCHANGED vars
  PROVE  IInv'
<1>1. PICK C, H : Inv(C, H)
  BY DEF IInv
<1>2. \A n, i : Child(n, i)' = Child(n, i)
  BY DEF vars, Child
<1>3. \A n, D : Rising(n, D)' = Rising(n, D)
  BY DEF vars, Rising
<1>4. Types' /\ Repair' /\ KeyOnce' /\ Fill'
  <2>1. Types'
    BY <1>1 DEF vars, Inv, Types
  <2>2. Repair'
    BY <1>1 DEF vars, Inv, Repair, IsLeaf
  <2>3. KeyOnce'
    <3>1. KeyOnce
      BY <1>1 DEF Inv
    <3> QED
      BY <3>1 DEF vars, KeyOnce, Twice, IsLeaf
  <2>4. Fill'
    BY <1>1 DEF vars, Inv, Fill, IsLeaf
  <2> QED
    BY <2>1, <2>2, <2>3, <2>4
<1>5. Tree(C, H)'
  BY <1>1, <1>3 DEF vars, Inv, Tree
<1>6. Links'
  <2>1. /\ root' = root /\ live' = live /\ elems' = elems /\ parent' = parent /\ pc' = pc
        /\ carry' = carry
    BY DEF vars
  <2>2. Links
    BY <1>1 DEF Inv
  <2>3. \A n, i : Child(parent[n], i)' = Child(parent[n], i)
    BY <1>2, <2>1 DEF Child
  <2> QED
    BY <1>2, <2>1, <2>2, <2>3 DEF Links
<1>7. Searching(C, H)'
  <2>1. \A P, top : Path(P, top) => Path(P, top)'
    BY <1>2 DEF vars, Path
  <2> QED
    BY <1>1, <2>1 DEF vars, Inv, Searching
<1>8. Inserting(C, H)'
  <2>1. \A q, D : Fits(q, D) => Fits(q, D)'
    BY <1>2 DEF vars, Fits
  <2>2. Inserting(C, H)
    BY <1>1 DEF Inv
  <2> QED
    BY <1>2, <2>1, <2>2 DEF vars, Inserting
<1> QED
  BY <1>4, <1>5, <1>6, <1>7, <1>8 DEF IInv, Inv

LEMMA Invariance == Spec => []IInv
<1>1. Init => IInv
  BY InitInv
<1>2. IInv /\ [Next]_vars => IInv'
  BY NextInv, StillInv DEF IInv
<1> QED
  BY <1>1, <1>2, PTL DEF Spec

\* Every variable has its type, no node holds more than its vector, and no pointer of the
\* tree or of a call leads to a node that was deleted.
THEOREM TypeCorrect == Spec => []TypeOK
<1>1. ASSUME NEW C, NEW H, Inv(C, H) PROVE TypeOK
  <2>1. Types /\ Links /\ Fill
    BY <1>1 DEF Inv
  <2>2. NoDangling
    <3>1. \A n \in live : Children(n) \subseteq live
      <4> SUFFICES ASSUME NEW n \in live, NEW m \in Children(n) PROVE m \in live
        OBVIOUS
      <4>1. n \in Nodes /\ elems[n] \in Seq(Elems)
        BY <2>1 DEF Types
      <4>2. m # None /\ \E i \in Slots(elems[n]) : Sub(zero[n], elems[n], i) = m
        BY <4>1, SubtreesIs DEF Children
      <4>3. \E i \in Slots(elems[n]) : Child(n, i) = m
        BY <4>1, <4>2, ChildIs
      <4> QED
        BY <2>1, <4>2, <4>3 DEF Links
    <3>2. \A n \in live \ {root} : parent[n] \in live \/ (pc = "insert" /\ n = carry.sub)
      BY <2>1 DEF Links
    <3>3. cur \in live \cup {None}
      BY <2>1 DEF Types
    <3>4. pc = "insert" => carry.sub \in live \cup {None}
      BY <1>1 DEF Inv, Inserting
    <3> QED
      BY <3>1, <3>2, <3>3, <3>4 DEF NoDangling
  <2> QED
    BY <2>1, <2>2 DEF Types, Fill, TypeOK, Link
<1>2. IInv => TypeOK
  BY <1>1 DEF IInv
<1> QED
  BY <1>2, Invariance, PTL

\* The repair loop never throws and never spins: the node is found below its parent, and
\* it has a sibling.
THEOREM LoopGoesOn == Spec => []RepairGoesOn
<1>1. ASSUME NEW C, NEW H, Inv(C, H) PROVE RepairGoesOn
  <2> SUFFICES ASSUME pc = "repair"
               PROVE  IF cur = root THEN IsLeaf(cur)
                      ELSE /\ parent[cur] # None
                           /\ Child(parent[cur], Index(cur)) = cur
                           /\ Right(cur) # None \/ Left(cur) # None
    BY DEF RepairGoesOn
  <2>1. Types /\ Tree(C, H) /\ Repair
    BY <1>1 DEF Inv
  <2>2. CASE cur = root
    BY <2>1, <2>2 DEF Repair
  <2>3. CASE cur # root
    <3>1. PICK u, i : Misses(cur, u, i)
      BY <1>1, <2>3, MissesIs
    <3>2. /\ u \in Nodes /\ parent[cur] = u /\ elems[u] # <<>> /\ i \in Slots(elems[u])
          /\ Child(u, i) = cur /\ Index(cur) = i /\ cur \in Nodes
      BY <3>1 DEF Misses
    <3>3. u # None /\ cur # None
      BY <3>2, Constants
    <3>4. \A k \in Slots(elems[u]) : Child(u, k) # None
      BY <2>1, <3>2, <3>3, SlotIs
    <3>5. Len(elems[u]) \in Nat /\ Len(elems[u]) # 0
      BY <2>1, <3>2 DEF Types
    <3>6. CASE i # Len(elems[u])
      <4>1. i + 1 \in Slots(elems[u])
        BY <3>2, <3>5, <3>6 DEF Slots
      <4>2. Right(cur) # None
        BY <3>2, <3>4, <3>6, <4>1 DEF Right
      <4> QED
        BY <2>3, <3>2, <3>3, <4>2
    <3>7. CASE i = Len(elems[u])
      <4>1. i - 1 \in Slots(elems[u]) /\ i # 0
        BY <3>5, <3>7 DEF Slots
      <4>2. Left(cur) # None
        BY <3>2, <3>4, <4>1 DEF Left
      <4> QED
        BY <2>3, <3>2, <3>3, <4>2
    <3> QED
      BY <3>6, <3>7
  <2> QED
    BY <2>2, <2>3
<1>2. IInv => RepairGoesOn
  BY <1>1 DEF IInv
<1> QED
  BY <1>2, Invariance, PTL

-----------------------------------------------------------------------------
(* Between two calls the tree is balanced.                                  *)

LEMMA Minimum ==
  ASSUME NEW S \in SUBSET Nat, S # {}
  PROVE  \E m \in S : \A k \in S : m <= k
<1> SUFFICES ASSUME \A m \in S : \E k \in S : ~(m <= k)
             PROVE  FALSE
  OBVIOUS
<1> DEFINE T == {m \in Nat : \A k \in S : m <= k}
<1>1. 0 \in T
  OBVIOUS
<1>2. ASSUME NEW m \in T PROVE m + 1 \in T
  <2>1. m \in Nat /\ \A k \in S : m <= k
    OBVIOUS
  <2>2. m \notin S
    BY <2>1
  <2>3. \A k \in S : m + 1 <= k
    BY <2>1, <2>2
  <2> QED
    BY <2>1, <2>3
<1>3. T \in SUBSET Nat
  OBVIOUS
<1>4. PICK m \in S : TRUE
  OBVIOUS
<1> HIDE DEF T
<1>5. T = Nat
  BY <1>1, <1>2, <1>3, NatSet
<1>6. m + 1 \in T
  BY <1>4, <1>5
<1>7. m + 1 <= m
  BY <1>4, <1>6 DEF T
<1> QED
  BY <1>4, <1>7

\* The parent of a node, between two calls
LEMMA ParentIs ==
  ASSUME NEW C, NEW H, Inv(C, H), pc # "insert", NEW n \in live \ {root}
  PROVE  /\ parent[n] \in live /\ H[parent[n]] = H[n] + 1 /\ H[n] \in Nat /\ H[parent[n]] \in Nat
         /\ \E i \in Slots(elems[parent[n]]) : Child(parent[n], i) = n
<1>1. Types /\ Links /\ Tree(C, H)
  BY DEF Inv
<1>2. parent[n] \in live /\ n \in Nodes /\ \E i \in Slots(elems[parent[n]]) : Child(parent[n], i) = n
  BY <1>1, AboveIs
<1>3. PICK m : m = parent[n]
  OBVIOUS
<1>4. PICK i \in Slots(elems[m]) : Child(m, i) = n
  BY <1>2, <1>3
<1>5. n # None /\ m \in live
  BY <1>2, <1>3, Constants
<1>6. H[n] \in Nat /\ H[m] \in Nat /\ H[n] = H[m] - 1
  BY <1>1, <1>4, <1>5, KidIs
<1>7. H[m] = H[n] + 1
  BY <1>6
<1> QED
  BY <1>2, <1>3, <1>6, <1>7

\* The level of a node is what is left of the tree's height.
Level(n) ==
  LET level[m \in live] == IF m = root THEN 0 ELSE level[parent[m]] + 1
  IN  level[n]

LEMMA LevelIs ==
  ASSUME NEW C, NEW H, Inv(C, H), pc # "insert"
  PROVE  \A n \in live : Level(n) = H[root] - H[n]
<1> DEFINE g == [m \in live |-> H[root] - H[m]]
           f == CHOOSE f : f = [m \in live |-> IF m = root THEN 0 ELSE f[parent[m]] + 1]
<1>1. Types /\ Tree(C, H) /\ live \subseteq Nodes
  BY DEF Inv, Types
<1>2. \A m \in live : H[m] \in Nat /\ H[root] \in Nat /\ H[m] <= H[root]
  BY <1>1, NodeIs
<1>3. \A m \in live : m # root => /\ parent[m] \in live /\ H[parent[m]] = H[m] + 1
  BY ParentIs
<1>4. \A m \in live : g[m] = H[root] - H[m] /\ g[m] \in Nat
  BY <1>2
<1> HIDE DEF g
<1>5. \A m \in live : m # root => g[parent[m]] + 1 = g[m]
  <2> SUFFICES ASSUME NEW m \in live, m # root PROVE g[parent[m]] + 1 = g[m]
    OBVIOUS
  <2>1. PICK u : u = parent[m]
    OBVIOUS
  <2>2. u \in live /\ H[u] = H[m] + 1
    BY <1>3, <2>1
  <2>3. H[root] - H[u] + 1 = H[root] - H[m]
    BY <1>2, <2>2
  <2> QED
    BY <1>4, <2>1, <2>2, <2>3
<1>6. g = [m \in live |-> IF m = root THEN 0 ELSE g[parent[m]] + 1]
  <2>1. \A m \in live : m = root => g[m] = 0
    BY <1>2, <1>4
  <2>2. g = [m \in live |-> g[m]]
    BY DEF g
  <2> QED
    BY <1>5, <2>1, <2>2
<1>7. f = [m \in live |-> IF m = root THEN 0 ELSE f[parent[m]] + 1]
  BY <1>6
<1>8. \A n \in live : Level(n) = f[n]
  BY DEF Level
<1> HIDE DEF f
<1>9. \A k \in Nat : \A m \in live : g[m] <= k => f[m] = g[m]
  <2> DEFINE S == {k \in Nat : \A m \in live : g[m] <= k => f[m] = g[m]}
  <2>1. ASSUME NEW k \in Nat, NEW m \in live, g[m] <= k, m # root =>
                 g[parent[m]] \in Nat /\ f[parent[m]] = g[parent[m]]
        PROVE  f[m] = g[m]
    BY <1>4, <1>5, <1>6, <1>7, <2>1
  <2>2. 0 \in S
    <3> SUFFICES ASSUME NEW m \in live, g[m] <= 0 PROVE f[m] = g[m]
      OBVIOUS
    <3>1. m # root => FALSE
      <4> SUFFICES ASSUME m # root PROVE FALSE
        OBVIOUS
      <4>1. parent[m] \in live
        BY <1>3
      <4>2. g[parent[m]] \in Nat /\ g[parent[m]] + 1 = g[m] /\ g[m] \in Nat
        BY <1>4, <1>5, <4>1
      <4> QED
        BY <4>2
    <3> QED
      BY <2>1, <3>1
  <2>3. ASSUME NEW k \in S PROVE k + 1 \in S
    <3>1. k \in Nat /\ \A m \in live : g[m] <= k => f[m] = g[m]
      OBVIOUS
    <3> SUFFICES ASSUME NEW m \in live, g[m] <= k + 1 PROVE f[m] = g[m]
      BY <3>1
    <3>2. m # root => g[parent[m]] \in Nat /\ f[parent[m]] = g[parent[m]]
      <4> SUFFICES ASSUME m # root PROVE g[parent[m]] \in Nat /\ f[parent[m]] = g[parent[m]]
        OBVIOUS
      <4>1. parent[m] \in live
        BY <1>3
      <4>2. g[parent[m]] \in Nat /\ g[parent[m]] + 1 = g[m] /\ g[m] \in Nat
        BY <1>4, <1>5, <4>1
      <4>3. g[parent[m]] <= k
        BY <3>1, <4>2
      <4> QED
        BY <3>1, <4>1, <4>2, <4>3
    <3> QED
      BY <2>1, <3>1, <3>2
  <2>4. S \in SUBSET Nat
    OBVIOUS
  <2> HIDE DEF S
  <2>5. S = Nat
    BY <2>2, <2>3, <2>4, NatSet
  <2> QED
    BY <2>5 DEF S
<1>10. ASSUME NEW n \in live PROVE f[n] = g[n]
  <2>1. g[n] \in Nat /\ g[n] <= g[n]
    BY <1>4
  <2> QED
    BY <1>9, <2>1
<1> QED
  BY <1>4, <1>8, <1>10

\* All leaves are on one level, no node but the root has fewer than the minimum of keys,
\* every node is where its parent has it, and climbing from it ends at the tracker's root.
THEOREM StaysBalanced == Spec => []Balanced
<1>1. ASSUME NEW C, NEW H, Inv(C, H), pc = "idle"
      PROVE  /\ parent[root] = None
             /\ \A n \in live \ {root} : Len(elems[n]) >= MinKeys /\ n \in Children(parent[n])
             /\ Cardinality({Level(n) : n \in {m \in live : IsLeaf(m)}}) = 1
  <2>1. Types /\ Links /\ Fill /\ Tree(C, H)
    BY <1>1 DEF Inv
  <2>2. parent[root] = None
    BY <2>1 DEF Links
  <2>3. ASSUME NEW n \in live \ {root}
        PROVE  Len(elems[n]) >= MinKeys /\ n \in Children(parent[n])
    <3>1. Len(elems[n]) >= MinKeys
      BY <1>1, <2>1 DEF Fill
    <3>2. PICK u : u = parent[n]
      OBVIOUS
    <3>3. u \in live /\ \E i \in Slots(elems[u]) : Child(u, i) = n
      BY <1>1, <3>2, ParentIs
    <3>4. u \in Nodes /\ n # None /\ elems[u] \in Seq(Elems)
      BY <2>1, <3>3, Constants DEF Types
    <3>5. \E i \in Slots(elems[u]) : Sub(zero[u], elems[u], i) = n
      BY <3>3, <3>4, ChildIs
    <3> QED
      BY <3>1, <3>2, <3>4, <3>5, SubtreesIs DEF Children
  <2>4. \A n \in live : Level(n) = H[root] - H[n]
    BY <1>1, LevelIs
  <2>5. \A n \in live : n \in Nodes /\ H[n] \in Nat /\ H[root] \in Nat /\ (IsLeaf(n) <=> H[n] = 0)
    BY <2>1, NodeIs DEF Types
  <2>6. PICK n \in live : IsLeaf(n)
    <3> DEFINE S == {H[n] : n \in live}
    <3>1. S \in SUBSET Nat /\ S # {}
      BY <2>1, <2>5 DEF Types
    <3>2. PICK h \in S : \A k \in S : h <= k
      BY <3>1, Minimum
    <3>3. PICK n \in live : h = H[n]
      OBVIOUS
    <3>4. \A m \in live : H[n] <= H[m]
      BY <3>2, <3>3
    <3>5. IsLeaf(n)
      <4> SUFFICES ASSUME ~IsLeaf(n) PROVE FALSE
        OBVIOUS
      <4>1. n \in Nodes /\ 0 \in Slots(elems[n])
        BY <2>1, <2>5, SeqLen DEF Types, Slots
      <4>2. Child(n, 0) # None
        BY <2>1, <4>1, SlotIs
      <4>3. Child(n, 0) \in live /\ H[Child(n, 0)] = H[n] - 1
        BY <2>1, <4>1, <4>2, KidIs
      <4>4. H[n] <= H[n] - 1 /\ H[n] \in Nat
        BY <2>5, <3>4, <4>3
      <4> QED
        BY <4>4
    <3> QED
      BY <3>5
  <2>7. \A m \in live : IsLeaf(m) => Level(m) = H[root]
    BY <2>4, <2>5
  <2>8. {Level(m) : m \in {m \in live : IsLeaf(m)}} = {H[root]}
    BY <2>6, <2>7
  <2> QED
    BY <2>2, <2>3, <2>8, FS_Singleton
<1>2. (pc = "idle" =>
         /\ parent[root] = None
         /\ \A n \in live \ {root} : Len(elems[n]) >= MinKeys /\ n \in Children(parent[n])
         /\ Cardinality({Level(n) : n \in {m \in live : IsLeaf(m)}}) = 1) => Balanced
  BY DEF Balanced, Level
<1>3. IInv => Balanced
  BY <1>1, <1>2 DEF IInv
<1> QED
  BY <1>3, Invariance, PTL

-----------------------------------------------------------------------------
(* Between two calls the tree is a search tree.                             *)

\* The nodes of a subtree
Below(n) ==
  LET below[m \in Link] ==
        IF m = None THEN {}
        ELSE {m} \cup UNION {below[Child(m, i)] : i \in 0 .. Len(elems[m])}
  IN  below[n]

LEMMA BelowDef ==
  ASSUME NEW C, NEW H, Inv(C, H)
  PROVE  /\ Below(None) = {}
         /\ \A m \in Nodes : Below(m) = {m} \cup UNION {Below(Child(m, i)) : i \in Slots(elems[m])}
<1> DEFINE V == SUBSET Nodes
           B(g, m) == IF m = None THEN {}
                      ELSE {m} \cup UNION {g[Child(m, i)] : i \in 0 .. Len(elems[m])}
           F == [x \in [Link -> V] \X Link |-> B(x[1], x[2])]
           R == [m \in Link |-> H[m] + 1]
           f == CHOOSE f : f = [m \in Link |->
                  IF m = None THEN {}
                  ELSE {m} \cup UNION {f[Child(m, i)] : i \in 0 .. Len(elems[m])}]
<1>1. ASSUME NEW m \in Link
      PROVE  /\ R[m] \in 0 .. H[root] + 1 /\ H[root] + 1 \in Nat
             /\ m # None => \A i \in 0 .. Len(elems[m]) : Child(m, i) \in Link /\ R[Child(m, i)] < R[m]
  <2>1. Types /\ Tree(C, H)
    BY DEF Inv
  <2>2. root \in Nodes /\ H[None] = -1
    BY <2>1 DEF Types, Tree
  <2>3. H[root] \in Nat
    BY <2>1, <2>2, NodeIs
  <2>4. CASE m = None
    BY <2>2, <2>3, <2>4
  <2>5. CASE m # None
    <3>1. m \in Nodes
      BY <2>5 DEF Link
    <3>2. H[m] \in Nat /\ H[m] <= H[root]
      BY <2>1, <3>1, NodeIs
    <3>3. ASSUME NEW i \in 0 .. Len(elems[m])
          PROVE  Child(m, i) \in Link /\ R[Child(m, i)] < R[m]
      <4>1. Child(m, i) \in Link /\ H[Child(m, i)] = H[m] - 1
        BY <2>1, <3>1, SlotIs DEF Slots
      <4> QED
        BY <3>2, <4>1
    <3> QED
      BY <2>3, <3>2, <3>3
  <2> QED
    BY <2>4, <2>5
<1>2. None \in Link /\ V # {} /\ Nodes \subseteq Link
  BY Constants
<1>3. R \in [Link -> 0 .. H[root] + 1] /\ H[root] + 1 \in Nat
  <2>1. R = [m \in Link |-> R[m]]
    OBVIOUS
  <2> HIDE DEF R
  <2> QED
    BY <1>1, <1>2, <2>1
<1>4. ASSUME NEW g \in [Link -> V], NEW m \in Link
      PROVE  F[<<g, m>>] = B(g, m) /\ F[<<g, m>>] \in V
  <2>1. F[<<g, m>>] = B(g, m)
    OBVIOUS
  <2>2. B(g, m) \in V
    <3>1. CASE m = None
      BY <3>1
    <3>2. CASE m # None
      <4>1. m \in Nodes /\ \A i \in 0 .. Len(elems[m]) : g[Child(m, i)] \in SUBSET Nodes
        BY <1>1, <3>2 DEF Link
      <4>2. UNION {g[Child(m, i)] : i \in 0 .. Len(elems[m])} \subseteq Nodes
        BY <4>1
      <4> QED
        BY <3>2, <4>1, <4>2
    <3> QED
      BY <3>1, <3>2
  <2> QED
    BY <2>1, <2>2
<1>5. F = [x \in [Link -> V] \X Link |-> F[x]]
  <2> DEFINE D    == [Link -> V] \X Link
             E(x) == B(x[1], x[2])
  <2>1. F = [x \in D |-> E(x)]
    OBVIOUS
  <2> HIDE DEF D, E, F
  <2>2. F = [x \in D |-> F[x]]
    BY <2>1
  <2> QED
    BY <2>2 DEF D
<1> HIDE DEF F, V, R, B
<1>6. F \in [[Link -> V] \X Link -> V]
  <2>1. \A x \in [Link -> V] \X Link : F[x] \in V
    BY <1>4
  <2> QED
    BY <1>5, <2>1
<1>7. Ranked(Link, V, H[root] + 1, R, F)
  <2>1. ASSUME NEW g \in [Link -> V], NEW h \in [Link -> V], NEW m \in Link,
               \A y \in Link : R[y] < R[m] => g[y] = h[y]
        PROVE  F[<<g, m>>] = F[<<h, m>>]
    <3>1. m # None => \A i \in 0 .. Len(elems[m]) : g[Child(m, i)] = h[Child(m, i)]
      BY <1>1, <2>1
    <3>2. B(g, m) = B(h, m)
      BY <3>1 DEF B
    <3> QED
      BY <1>4, <3>2
  <2> QED
    BY <1>2, <1>3, <1>6, <2>1 DEF Ranked
<1>8. PICK g \in [Link -> V] : g = [m \in Link |-> F[<<g, m>>]]
  BY <1>7, Recursion
<1>9. g = [m \in Link |-> IF m = None THEN {}
                          ELSE {m} \cup UNION {g[Child(m, i)] : i \in 0 .. Len(elems[m])}]
  BY <1>4, <1>8 DEF B
<1>10. f = [m \in Link |-> IF m = None THEN {}
                           ELSE {m} \cup UNION {f[Child(m, i)] : i \in 0 .. Len(elems[m])}]
  BY <1>9
<1>11. \A n : Below(n) = f[n]
  BY DEF Below
<1> HIDE DEF f
<1>12. ASSUME NEW m \in Nodes
       PROVE  Below(m) = {m} \cup UNION {Below(Child(m, i)) : i \in Slots(elems[m])}
  <2>1. m \in Link /\ m # None
    BY Constants
  <2>2. f[m] = {m} \cup UNION {f[Child(m, i)] : i \in 0 .. Len(elems[m])}
    BY <1>10, <2>1
  <2> QED
    BY <1>11, <2>2 DEF Slots
<1> QED
  BY <1>2, <1>10, <1>11, <1>12

\* Below a node are nodes in use, lower and of no other keys.
LEMMA BelowIs ==
  ASSUME NEW C, NEW H, Inv(C, H)
  PROVE  \A n \in live : \A m \in Below(n) : m \in live /\ H[m] <= H[n] /\ C[m] \subseteq C[n]
<1>1. Types /\ Tree(C, H) /\ Links
  BY DEF Inv
<1>2. /\ Below(None) = {}
      /\ \A m \in Nodes : Below(m) = {m} \cup UNION {Below(Child(m, i)) : i \in Slots(elems[m])}
  BY BelowDef
<1>3. \A n \in live : n \in Nodes /\ H[n] \in Nat
  BY <1>1, NodeIs DEF Types
<1> DEFINE Fine(n) == \A m \in Below(n) : m \in live /\ H[m] <= H[n] /\ C[m] \subseteq C[n]
           S == {k \in Nat : \A n \in live : H[n] < k => Fine(n)}
<1>4. ASSUME NEW n \in live,
             \A i \in Slots(elems[n]) : Child(n, i) # None => Fine(Child(n, i))
      PROVE  Fine(n)
  <2> SUFFICES ASSUME NEW m \in Below(n) PROVE m \in live /\ H[m] <= H[n] /\ C[m] \subseteq C[n]
    OBVIOUS
  <2>1. Below(n) = {n} \cup UNION {Below(Child(n, i)) : i \in Slots(elems[n])}
    BY <1>2, <1>3
  <2>2. CASE m = n
    BY <1>3, <2>2
  <2>3. CASE m # n
    <3>1. PICK i \in Slots(elems[n]) : m \in Below(Child(n, i))
      BY <2>1, <2>3
    <3>2. PICK c : c = Child(n, i)
      OBVIOUS
    <3>3. c # None /\ m \in Below(c)
      BY <1>2, <3>1, <3>2
    <3>4. c \in live /\ H[c] = H[n] - 1
      BY <1>1, <3>2, <3>3, KidIs
    <3>5. C[c] \subseteq C[n]
      BY <1>1, <1>3, <3>2, SlotIs
    <3>6. m \in live /\ H[m] <= H[c] /\ C[m] \subseteq C[c]
      BY <1>4, <3>2, <3>3
    <3>7. H[m] \in Nat /\ H[n] \in Nat
      BY <1>3, <3>6
    <3> QED
      BY <3>4, <3>5, <3>6, <3>7
  <2> QED
    BY <2>2, <2>3
<1>5. ASSUME NEW n \in live, NEW i \in Slots(elems[n]), Child(n, i) # None
      PROVE  Child(n, i) \in live /\ H[Child(n, i)] = H[n] - 1
  BY <1>1, <1>5, KidIs
<1> HIDE DEF Fine
<1>6. 0 \in S
  BY <1>3
<1>7. ASSUME NEW k \in S PROVE k + 1 \in S
  <2>1. k \in Nat /\ \A n \in live : H[n] < k => Fine(n)
    OBVIOUS
  <2> SUFFICES ASSUME NEW n \in live, H[n] < k + 1 PROVE Fine(n)
    BY <2>1
  <2>2. ASSUME NEW i \in Slots(elems[n]), Child(n, i) # None PROVE Fine(Child(n, i))
    <3>1. PICK c : c = Child(n, i)
      OBVIOUS
    <3>2. c \in live /\ H[c] = H[n] - 1 /\ H[n] \in Nat
      BY <1>3, <1>5, <2>2, <3>1
    <3>3. H[c] < k
      BY <2>1, <3>2
    <3> QED
      BY <2>1, <3>1, <3>2, <3>3
  <2> QED
    BY <1>4, <2>2
<1>8. S \in SUBSET Nat
  OBVIOUS
<1> HIDE DEF S
<1>9. S = Nat
  BY <1>6, <1>7, <1>8, NatSet
<1>10. ASSUME NEW n \in live PROVE Fine(n)
  <2>1. H[n] + 1 \in S /\ H[n] < H[n] + 1
    BY <1>3, <1>9
  <2> QED
    BY <2>1 DEF S
<1> QED
  BY <1>10 DEF Fine

\* The keys of a node go up, and all keys below its i-th subtree lie between its i-th key
\* and the next.
THEOREM StaysOrdered == Spec => []Ordered
<1>1. ASSUME NEW C, NEW H, Inv(C, H), pc = "idle", NEW n \in live
      PROVE  /\ Sorted(elems[n])
             /\ \A i \in Slots(elems[n]) :
                  \A m \in Below(Child(n, i)) : \A j \in 1 .. Len(elems[m]) :
                    /\ i > 0 => elems[n][i].key < elems[m][j].key
                    /\ i < Len(elems[n]) => elems[m][j].key < elems[n][i + 1].key
  <2>1. Types /\ Links /\ Tree(C, H)
    BY <1>1 DEF Inv
  <2>2. n \in Nodes /\ elems[n] \in Seq(Elems) /\ Len(elems[n]) \in Nat /\ Sorted(elems[n])
    BY <2>1, NodeIs DEF Types
  <2>3. Once
    BY <1>1, OnceIs
  <2>4. ASSUME NEW i \in Slots(elems[n]), NEW m \in Below(Child(n, i)), NEW j \in 1 .. Len(elems[m])
        PROVE  /\ i > 0 => elems[n][i].key < elems[m][j].key
               /\ i < Len(elems[n]) => elems[m][j].key < elems[n][i + 1].key
    <3>1. PICK c, k : c = Child(n, i) /\ k = elems[m][j].key
      OBVIOUS
    <3>2. c # None
      BY <1>1, <2>4, <3>1, BelowDef
    <3>3. c \in live /\ H[c] = H[n] - 1
      BY <2>1, <3>1, <3>2, KidIs
    <3>4. m \in live /\ H[m] <= H[c] /\ C[m] \subseteq C[c]
      BY <1>1, <2>4, <3>1, <3>3, BelowIs
    <3>5. m \in Nodes /\ H[m] \in Nat /\ H[n] \in Nat /\ KeysIn(elems[m]) \subseteq C[m]
          /\ elems[m] \in Seq(Elems)
      <4>1. m \in Nodes
        BY <2>1, <3>4 DEF Types
      <4>2. H[m] \in Nat /\ KeysIn(elems[m]) \subseteq C[m] /\ elems[m] \in Seq(Elems)
        BY <2>1, <4>1, NodeIs
      <4>3. H[n] \in Nat
        BY <2>1, <2>2, NodeIs
      <4> QED
        BY <4>1, <4>2, <4>3
    <3>6. m # n
      BY <3>3, <3>4, <3>5
    <3>7. k \in KeysIn(elems[m]) /\ k \in Int
      BY <3>1, <3>5, ElemIs DEF KeysIn
    <3>8. k \in C[c] /\ InGap(elems[n], i, k)
      <4>1. k \in C[c]
        BY <3>4, <3>5, <3>7
      <4> QED
        BY <2>1, <2>2, <3>1, <4>1, SlotIs
    <3>9. k \notin KeysIn(elems[n])
      BY <2>3, <3>4, <3>6, <3>7 DEF Once
    <3>10. i > 0 => elems[n][i].key < k
      <4> SUFFICES ASSUME i > 0 PROVE elems[n][i].key < k
        OBVIOUS
      <4>1. i \in 1 .. Len(elems[n])
        BY <2>2 DEF Slots
      <4>2. elems[n][i].key # k /\ elems[n][i].key \in Int
        BY <2>2, <3>9, <4>1, ElemIs DEF KeysIn
      <4>3. elems[n][i].key <= k
        BY <3>8 DEF InGap
      <4> QED
        BY <3>7, <4>2, <4>3
    <3>11. i < Len(elems[n]) => k < elems[n][i + 1].key
      BY <3>8 DEF InGap
    <3> QED
      BY <3>1, <3>10, <3>11
  <2> QED
    BY <2>2, <2>4
<1>2. (pc = "idle" =>
         \A n \in live :
           /\ Sorted(elems[n])
           /\ \A i \in Slots(elems[n]) :
                \A m \in Below(Child(n, i)) : \A j \in 1 .. Len(elems[m]) :
                  /\ i > 0 => elems[n][i].key < elems[m][j].key
                  /\ i < Len(elems[n]) => elems[m][j].key < elems[n][i + 1].key) => Ordered
  BY DEF Ordered, Below, Sorted, Slots
<1>3. IInv => Ordered
  BY <1>1, <1>2 DEF IInv
<1> QED
  BY <1>3, Invariance, PTL

-----------------------------------------------------------------------------
(* The tree is a set of keys.                                               *)

LEMMA KeysSame ==
  ASSUME elems' = elems, live' = live, pc # "insert", pc' # "insert"
  PROVE  AllKeys' = AllKeys
<1>1. \A x : x \in AllKeys' <=> x \in AllKeys
  BY AllKeysIs, AllKeysIsNext
<1> QED
  BY <1>1

\* A search that ends at the key: the caller is told.
LEMMA KeyFound ==
  ASSUME NEW C, NEW H, Inv(C, H), HitKey
  PROVE  /\ call \in {"insert", "search"} /\ want \in Keys /\ want \in AllKeys /\ AllKeys' = AllKeys
         /\ ret' = <<call, want, call = "search">>
<1>1. /\ pc = "search" /\ Hit(cur, key) /\ call \in {"insert", "search"}
      /\ Return(call = "search") /\ UNCHANGED <<tree, script, calls>>
  BY DEF HitKey
<1>2. pc' = "idle" /\ ret' = <<call, want, call = "search">> /\ elems' = elems /\ live' = live
  BY <1>1 DEF Return, Result, tree
<1>3. key = want /\ cur \in live /\ key \in Keys /\ key \in KeysIn(elems[cur])
  BY <1>1, AtNode
<1>4. want \in AllKeys
  BY <1>3, AllKeysIs
<1> QED
  BY <1>1, <1>2, <1>3, <1>4, KeysSame

\* A search that ends below a leaf: an insertion has its effect now.
LEMMA KeyMissing ==
  ASSUME NEW C, NEW H, Inv(C, H), Miss
  PROVE  /\ call \in {"insert", "delete", "search"} /\ want \in Keys /\ want \notin AllKeys
         /\ IF call = "insert"
              THEN AllKeys' = AllKeys \cup {want} /\ ret' = <<call, want, TRUE>>
              ELSE AllKeys' = AllKeys /\ ret' = <<call, want, FALSE>>
<1>1. pc = "search" /\ ~Hit(cur, key) /\ Child(cur, Gap(cur, key)) = None /\ elems' = elems
      /\ live' = live
  BY DEF Miss, tree
<1>2. key = want /\ \A n \in live : key \notin KeysIn(elems[n])
  BY <1>1, NotThere
<1>3. key \in Keys /\ call \in {"insert", "delete", "search"}
  BY <1>1 DEF Inv, Types
<1>4. want \notin AllKeys
  BY <1>1, <1>2, AllKeysIs
<1>5. CASE call = "insert"
  <2>1. pc' = "insert" /\ carry' = Elem(key, None) /\ ret' = <<call, want, TRUE>>
    BY <1>5 DEF Miss, Result
  <2>2. carry'.key = want
    BY <1>2, <2>1 DEF Elem
  <2>3. \A x : x \in AllKeys' <=> x \in AllKeys \/ x = want
    BY <1>1, <2>1, <2>2, AllKeysIs, AllKeysIsNext
  <2>4. AllKeys' = AllKeys \cup {want}
    BY <2>3
  <2> QED
    BY <1>2, <1>3, <1>4, <1>5, <2>1, <2>4
<1>6. CASE call # "insert"
  <2>1. pc' = "idle" /\ ret' = <<call, want, FALSE>>
    BY <1>6 DEF Miss, Return, Result
  <2>2. AllKeys' = AllKeys
    BY <1>1, <2>1, KeysSame
  <2> QED
    BY <1>2, <1>3, <1>4, <1>6, <2>1, <2>2
<1> QED
  BY <1>5, <1>6

\* What every step is to the set of keys
LEMMA StepIs ==
  ASSUME NEW C, NEW H, Inv(C, H), Next
  PROVE  \/ Unseen
         \/ HitKey \/ Miss
         \/ KeyDeleted /\ want \in Keys
<1>1. ASSUME NEW c, NEW k, Start(c, k) PROVE Unseen
  <2>1. pc # "insert" /\ pc' # "insert" /\ elems' = elems /\ live' = live /\ ret' = ret
    BY <1>1 DEF Start, tree
  <2> QED
    BY <2>1, KeysSame DEF Unseen
<1>2. CASE Descend
  <2>1. pc # "insert" /\ pc' # "insert" /\ elems' = elems /\ live' = live /\ ret' = ret
    BY <1>2 DEF Descend, tree
  <2> QED
    BY <2>1, KeysSame DEF Unseen
<1>3. CASE RepairRoot
  <2>1. pc # "insert" /\ pc' # "insert" /\ elems' = elems /\ live' = live
    BY <1>3 DEF RepairRoot, tree, Return
  <2>2. ret = <<call, want, TRUE>> /\ ret' = <<call, want, TRUE>>
    BY <1>3 DEF RepairRoot, Return, Result, Inv, Repair
  <2> QED
    BY <2>1, <2>2, KeysSame DEF Unseen
<1>4. CASE DeleteFromLeaf
  <2>1. want \in Keys
    BY <1>4 DEF DeleteFromLeaf, Inv, Types
  <2> QED
    BY <1>4, <2>1, LeafDeleted
<1>5. CASE DeleteFromInner
  <2>1. want \in Keys
    BY <1>5 DEF DeleteFromInner, Inv, Types
  <2> QED
    BY <1>5, <2>1, InnerDeleted
<1>6. CASE Scripted
  BY <1>1, <1>6 DEF Scripted
<1>7. ASSUME NEW c, NEW k, Call(c, k) PROVE Unseen
  BY <1>1, <1>7 DEF Call
<1>8. CASE VectorInsert
  BY <1>8, VectorInsertInv
<1>9. CASE SplitInsert
  BY <1>9, SplitInsertInv
<1>10. CASE NewRoot
  BY <1>10, NewRootInv
<1>11. CASE RotateFromRight
  BY <1>11, RotateFromRightInv
<1>12. CASE RotateFromLeft
  BY <1>12, RotateFromLeftInv
<1>13. CASE MergeRight
  BY <1>13, MergeRightInv
<1>14. CASE MergeLeft
  BY <1>14, MergeLeftInv
<1> QED
  BY <1>2, <1>3, <1>4, <1>5, <1>6, <1>7, <1>8, <1>9, <1>10, <1>11, <1>12, <1>13, <1>14
     DEF Next, Step

\* The tree implements the set of keys: an insertion has its effect when the search for its
\* key has ended, a deletion when the key leaves its place, and no split, rotation, merge or
\* second search changes the set or the answer.
THEOREM Implements == Spec => ImplementsKeySet
<1> DEFINE keys == (UNION {{elems[n][i].key : i \in 1 .. Len(elems[n])} : n \in live})
                     \cup (IF pc = "insert" THEN {carry.key} ELSE {})
<1>1. AllKeys = keys
  BY DEF AllKeys, KeysIn
<1>2. AllKeys' = keys'
  BY DEF AllKeys, KeysIn
<1>3. ASSUME Init PROVE Set!Init
  <2>1. PICK r : live = {r} /\ r \in Nodes
    BY <1>3, BTreeAssumption DEF Init
  <2>2. elems[r] = <<>> /\ pc # "insert" /\ ret = <<>>
    BY <1>3, <2>1 DEF Init
  <2>3. KeysIn(elems[r]) = {}
    BY <2>2 DEF KeysIn
  <2>4. \A x : x \notin AllKeys
    BY <2>1, <2>2, <2>3, AllKeysIs
  <2>5. keys = {}
    BY <1>1, <2>4
  <2> QED
    BY <2>2, <2>5 DEF Set!Init
<1>4. ASSUME NEW C, NEW H, Inv(C, H), Next PROVE Set!Next \/ UNCHANGED Set!vars
  <2>1. CASE Unseen
    <3>1. keys' = keys /\ ret' = ret
      BY <1>1, <1>2, <2>1 DEF Unseen
    <3> QED
      BY <3>1 DEF Set!vars
  <2>2. CASE HitKey
    <3>1. /\ call \in {"insert", "search"} /\ want \in Keys /\ want \in keys /\ keys' = keys
          /\ ret' = <<call, want, call = "search">>
      BY <1>1, <1>2, <1>4, <2>2, KeyFound
    <3> HIDE DEF keys
    <3>2. CASE call = "insert"
      <4>1. ret' = <<"insert", want, want \notin keys>> /\ keys' = keys \cup {want}
        BY <3>1, <3>2
      <4> QED
        BY <3>1, <4>1 DEF Set!Next, Set!Insert, keys
    <3>3. CASE call = "search"
      <4>1. ret' = <<"search", want, want \in keys>> /\ keys' = keys
        BY <3>1, <3>3
      <4> QED
        BY <3>1, <4>1 DEF Set!Next, Set!Search, keys
    <3> QED
      BY <3>1, <3>2, <3>3
  <2>3. CASE Miss
    <3>1. /\ call \in {"insert", "delete", "search"} /\ want \in Keys /\ want \notin keys
          /\ IF call = "insert"
               THEN keys' = keys \cup {want} /\ ret' = <<call, want, TRUE>>
               ELSE keys' = keys /\ ret' = <<call, want, FALSE>>
      BY <1>1, <1>2, <1>4, <2>3, KeyMissing
    <3> HIDE DEF keys
    <3>2. CASE call = "insert"
      <4>1. ret' = <<"insert", want, TRUE>> /\ keys' = keys \cup {want}
        BY <3>1, <3>2
      <4>2. (want \notin keys) = TRUE
        BY <3>1
      <4> QED
        BY <3>1, <4>1, <4>2 DEF Set!Next, Set!Insert, keys
    <3>3. CASE call = "search"
      <4>1. ret' = <<"search", want, FALSE>> /\ keys' = keys
        BY <3>1, <3>3
      <4>2. (want \in keys) = FALSE
        BY <3>1
      <4> QED
        BY <3>1, <4>1, <4>2 DEF Set!Next, Set!Search, keys
    <3>4. CASE call = "delete"
      <4>1. ret' = <<"delete", want, FALSE>> /\ keys' = keys /\ keys = keys \ {want}
        BY <3>1, <3>4
      <4>2. (want \in keys) = FALSE
        BY <3>1
      <4> QED
        BY <3>1, <4>1, <4>2 DEF Set!Next, Set!Delete, keys
    <3> QED
      BY <3>1, <3>2, <3>3, <3>4
  <2>4. CASE KeyDeleted /\ want \in Keys
    <3>1. want \in Keys /\ want \in keys /\ keys' = keys \ {want} /\ ret' = <<"delete", want, TRUE>>
      BY <1>1, <1>2, <2>4 DEF KeyDeleted
    <3> HIDE DEF keys
    <3>2. ret' = <<"delete", want, want \in keys>>
      BY <3>1
    <3> QED
      BY <3>1, <3>2 DEF Set!Next, Set!Delete, keys
  <2> QED
    BY <1>4, <2>1, <2>2, <2>3, <2>4, StepIs
<1>5. ASSUME UNCHANGED vars PROVE UNCHANGED Set!vars
  BY <1>5 DEF vars, Set!vars
<1>6. IInv /\ [Next]_vars => [Set!Next]_Set!vars
  BY <1>4, <1>5 DEF IInv
<1> QED
  BY <1>3, <1>6, Invariance, PTL DEF Spec, ImplementsKeySet, Set!Spec
=============================================================================
