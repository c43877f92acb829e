---------------------------- MODULE HtreeProofs ----------------------------
(***************************************************************************)
(* Htree implements AtomicFile, for any number of nodes, writes and syncs  *)
(* and for both ways of finding a file, provided that truncates are clean  *)
(* (CleanSpec, before the invariant).                                      *)
(*                                                                         *)
(* The file is read through hashes, so the proof is about trees that hash  *)
(* alike: a tree loaded from storage is the one its nodes were written     *)
(* from (ReadsSame, LoadedReads), and two trees with one root hash are one *)
(* tree (SameHashSameTree).  With that a step is looked at node by node:   *)
(* what it writes is not what the committed version reads.  What recursive *)
(* functions compute is shown with a least counterexample (HasLeast).      *)
(***************************************************************************)
EXTENDS Htree, FiniteSetTheorems, WellFoundedInduction, TLAPS

\* A set of numbers has a least one.
LEMMA HasLeast ==
  ASSUME NEW W, W \subseteq Nat, W # {}
  PROVE  \E k \in W : \A j \in W : k <= j
<1> DEFINE upto(i) == W \cap (0..i)
           segments == {upto(i) : i \in W}
<1>1. segments \subseteq FiniteSubsetsOf(Nat)
  <2>1. ASSUME NEW i \in W PROVE IsFiniteSet(upto(i)) /\ upto(i) \subseteq Nat
    <3>1. IsFiniteSet(0..i)
      BY FS_Interval
    <3>2. upto(i) \subseteq 0..i
      OBVIOUS
    <3> QED BY <3>1, <3>2, FS_Subset
  <2> QED BY <2>1 DEF FiniteSubsetsOf
<1>2. segments # {}
  OBVIOUS
<1>3. PICK s \in segments :
        \A r \in segments : << r, s >> \notin StrictSubsetOrdering(Nat)
  <2> HIDE DEF segments
  <2> QED BY <1>1, <1>2, FS_StrictSubsetOrderingWellFounded, WFMin
<1>4. PICK i \in W : s = upto(i)
  OBVIOUS
<1>5. ASSUME NEW j \in W, j < i PROVE FALSE
  <2>1. upto(j) \in segments /\ upto(j) \subseteq upto(i) /\ upto(j) # upto(i)
    BY <1>5
  <2> QED BY <1>1, <1>3, <1>4, <2>1 DEF StrictSubsetOrdering
<1> QED BY <1>5

-----------------------------------------------------------------------------
(* What a tree in storage is, as the function that the recursion in Loaded  *)
(* computes.                                                               *)

\* The image of a node, given those of the nodes above it.
ImageOf(i, g, id) ==
  IF id \notin TreeIds(head[i].max) THEN ZeroNode
  ELSE node[id][IF id = 1 THEN i ELSE g[Parent(id)].ch[Bit(id)]]
\* The images of all nodes.
Reads(i, g) == g = [id \in Ids |-> ImageOf(i, g, id)]

\* Nodes are numbered from the root on.
LEMMA ParentBefore ==
  ASSUME NEW id \in Ids, id # 1
  PROVE  /\ Parent(id) \in Ids /\ Parent(id) < id /\ Bit(id) \in Vers
         /\ id = 2 * Parent(id) + Bit(id)
BY HtreeAssumption DEF Ids, Parent, Bit, Vers

\* There is one such function ...
LEMMA ReadsSame ==
  ASSUME NEW i, NEW g, NEW h, Reads(i, g), Reads(i, h)
  PROVE  g = h
<1> DEFINE W == {id \in Ids : g[id] # h[id]}
<1>1. ASSUME W # {} PROVE FALSE
  <2>1. PICK id \in W : \A j \in W : id <= j
    <3>1. W \subseteq Nat
      BY DEF Ids
    <3> HIDE DEF W
    <3> QED BY <1>1, <3>1, HasLeast
  <2>2. g[id] = ImageOf(i, g, id) /\ h[id] = ImageOf(i, h, id)
    BY DEF Reads
  <2>3. CASE id = 1
    BY <2>1, <2>2, <2>3 DEF ImageOf
  <2>4. CASE id # 1
    <3>1. Parent(id) \in Ids /\ Parent(id) < id
      BY <2>4, ParentBefore
    <3>2. Parent(id) \notin W
      BY <2>1, <3>1 DEF Ids
    <3>3. g[Parent(id)] = h[Parent(id)]
      BY <3>1, <3>2
    <3> QED BY <2>1, <2>2, <2>4, <3>3 DEF ImageOf
  <2> QED BY <2>3, <2>4
<1>2. \A id \in Ids : g[id] = h[id]
  BY <1>1
<1>3. g = [id \in Ids |-> g[id]] /\ h = [id \in Ids |-> h[id]]
  BY DEF Reads
<1> QED BY <1>2, <1>3

\* ... at least.
LEMMA ReadsSome ==
  ASSUME NEW i
  PROVE  \E g : Reads(i, g)
<1> DEFINE Upto(g, n) == \A id \in 1..n : g[id] = ImageOf(i, g, id)
           W == {n \in Nat : n <= MaxNodes /\ ~\E g : Upto(g, n)}
<1>1. ASSUME W # {} PROVE FALSE
  <2>1. PICK n \in W : \A j \in W : n <= j
    <3>1. W \subseteq Nat
      OBVIOUS
    <3> HIDE DEF W
    <3> QED BY <1>1, <3>1, HasLeast
  <2>2. n # 0
    BY <2>1
  <2>3. n \in Ids /\ n - 1 \in Nat /\ n - 1 \notin W
    BY <2>1, <2>2, HtreeAssumption DEF Ids
  <2>4. PICK g : Upto(g, n - 1)
    <3>1. n - 1 <= MaxNodes
      BY <2>3, HtreeAssumption DEF Ids
    <3> HIDE DEF Upto
    <3> QED BY <2>3, <3>1
  <2> DEFINE h == [id \in Ids |-> IF id = n THEN ImageOf(i, g, n) ELSE g[id]]
  <2>5. ASSUME NEW id \in 1..n
        PROVE  h[id] = ImageOf(i, h, id)
    <3>1. id \in Ids
      BY <2>3, HtreeAssumption DEF Ids
    <3>2. id # 1 => h[Parent(id)] = g[Parent(id)]
      <4> SUFFICES ASSUME id # 1 PROVE h[Parent(id)] = g[Parent(id)]
        OBVIOUS
      <4>1. Parent(id) \in Ids /\ Parent(id) < id
        BY <3>1, ParentBefore
      <4> QED BY <2>3, <3>1, <4>1 DEF Ids
    <3>3. ImageOf(i, h, id) = ImageOf(i, g, id)
      <4> HIDE DEF h
      <4> QED BY <3>2 DEF ImageOf
    <3>4. h[id] = IF id = n THEN ImageOf(i, g, n) ELSE g[id]
      BY <3>1
    <3>5. id # n => id \in 1..(n - 1)
      BY <2>3
    <3> QED BY <2>4, <3>3, <3>4, <3>5
  <2> HIDE DEF h
  <2>6. Upto(h, n)
    BY <2>5
  <2> QED BY <2>1, <2>6
<1>2. PICK g : Upto(g, MaxNodes)
  BY <1>1, HtreeAssumption
<1> DEFINE h == [id \in Ids |-> g[id]]
<1>3. ASSUME NEW id \in Ids
      PROVE  g[id] = ImageOf(i, h, id)
  <2>1. id # 1 => h[Parent(id)] = g[Parent(id)]
    BY ParentBefore
  <2>2. ImageOf(i, h, id) = ImageOf(i, g, id)
    <3> HIDE DEF h
    <3> QED BY <2>1 DEF ImageOf
  <2> QED BY <1>2, <2>2 DEF Ids
<1>4. h = [id \in Ids |-> ImageOf(i, h, id)]
  BY <1>3
<1> HIDE DEF h
<1> QED BY <1>4 DEF Reads

\* The tree that is loaded.
LEMMA LoadedReads ==
  ASSUME NEW i
  PROVE  /\ Reads(i, Loaded(i).nodes)
         /\ Loaded(i) = [counter |-> head[i].counter, max |-> head[i].max,
                         length |-> head[i].length, nodes |-> Loaded(i).nodes,
                         dirtyNodes |-> {}, updated |-> {}, dirty |-> FALSE]
<1> DEFINE im == CHOOSE g : Reads(i, g)
<1>1. Reads(i, im)
  BY ReadsSome
<1>2. Loaded(i) = [counter |-> head[i].counter, max |-> head[i].max,
                   length |-> head[i].length, nodes |-> im,
                   dirtyNodes |-> {}, updated |-> {}, dirty |-> FALSE]
  BY DEF Loaded, Reads, ImageOf
<1> HIDE DEF im
<1> QED BY <1>1, <1>2

-----------------------------------------------------------------------------
(* The order in which a sync writes.                                       *)

\* The numbers of nodes and of the places below the last ones.
Slots == 1..(2 * MaxNodes + 1)
\* The nodes below a node, children first, given those below its children.
OrderOf(f, id) ==
  IF id > MaxNodes THEN << >>
  ELSE f[2 * id] \o f[2 * id + 1] \o << id >>

\* The recursion in PostOrder has a solution.
LEMMA PostOrderIs == \A id \in Slots : PostOrder[id] = OrderOf(PostOrder, id)
<1> DEFINE N == 2 * MaxNodes + 1
           From(f, n) == \A id \in Slots : N - id < n => f[id] = OrderOf(f, id)
           W == {n \in Nat : n <= N /\ ~\E f : From(f, n)}
<1>0. N \in Nat /\ MaxNodes \in Nat /\ MaxNodes < N
  BY HtreeAssumption
<1>1. ASSUME W # {} PROVE FALSE
  <2>1. PICK n \in W : \A j \in W : n <= j
    <3>1. W \subseteq Nat
      OBVIOUS
    <3> HIDE DEF W
    <3> QED BY <1>1, <3>1, HasLeast
  <2>2. n # 0
    BY <1>0, <2>1 DEF Slots
  <2>3. n \in Nat /\ n - 1 \in Nat /\ n - 1 <= N /\ n <= N /\ n - 1 \notin W
    BY <1>0, <2>1, <2>2
  <2>4. PICK f : From(f, n - 1)
    <3> HIDE DEF From
    <3> QED BY <2>3
  <2> DEFINE m == N - (n - 1)
             h == [id \in Slots |-> IF id = m THEN OrderOf(f, m) ELSE f[id]]
  <2>5. m \in Slots
    BY <1>0, <2>2, <2>3 DEF Slots
  <2>6. ASSUME NEW id \in Slots, N - id < n
        PROVE  h[id] = OrderOf(h, id)
    <3>1. m <= id
      BY <1>0, <2>3, <2>6 DEF Slots
    <3>2. id <= MaxNodes =>
            /\ 2 * id \in Slots /\ 2 * id + 1 \in Slots
            /\ 2 * id # m /\ 2 * id + 1 # m
      BY <1>0, <2>5, <3>1 DEF Slots
    <3>3. id <= MaxNodes => h[2 * id] = f[2 * id] /\ h[2 * id + 1] = f[2 * id + 1]
      BY <3>2
    <3>4. OrderOf(h, id) = OrderOf(f, id)
      <4> HIDE DEF h
      <4> QED BY <1>0, <3>3 DEF OrderOf, Slots
    <3>5. h[id] = IF id = m THEN OrderOf(f, m) ELSE f[id]
      OBVIOUS
    <3>6. id # m => N - id < n - 1
      BY <1>0, <2>3, <3>1 DEF Slots
    <3> HIDE DEF h, m
    <3> QED BY <2>4, <3>4, <3>5, <3>6
  <2> HIDE DEF h
  <2>7. From(h, n)
    BY <2>6
  <2> QED BY <2>1, <2>7
<1>2. PICK f : From(f, N)
  <2>1. N \in Nat /\ N \notin W
    BY <1>0, <1>1
  <2> HIDE DEF From
  <2> QED BY <1>0, <2>1
<1> DEFINE h == [id \in Slots |-> f[id]]
<1>3. ASSUME NEW id \in Slots
      PROVE  f[id] = OrderOf(h, id)
  <2>1. id <= MaxNodes => 2 * id \in Slots /\ 2 * id + 1 \in Slots
    BY <1>0 DEF Slots
  <2>2. id <= MaxNodes => h[2 * id] = f[2 * id] /\ h[2 * id + 1] = f[2 * id + 1]
    BY <2>1
  <2>3. OrderOf(h, id) = OrderOf(f, id)
    <3> HIDE DEF h
    <3> QED BY <1>0, <2>2 DEF OrderOf, Slots
  <2>4. N - id < N
    BY <1>0 DEF Slots
  <2> QED BY <1>2, <2>3, <2>4
<1>4. h = [id \in Slots |-> OrderOf(h, id)]
  BY <1>3
<1>5. PostOrder = CHOOSE g : g = [id \in Slots |-> OrderOf(g, id)]
  BY DEF PostOrder, OrderOf, Slots
<1> HIDE DEF h
<1>6. PostOrder = [id \in Slots |-> OrderOf(PostOrder, id)]
  BY <1>4, <1>5
<1> QED BY <1>6

\* Where a node is first in the order.
First(id) == CHOOSE k \in DOMAIN PostOrder[1] :
               /\ PostOrder[1][k] = id
               /\ \A j \in 1..(k - 1) : PostOrder[1][j] # id

\* Whatever is in the order below a node comes after its children.
ChildrenFirst(s) ==
  \A k \in DOMAIN s : \A c \in Vers :
    2 * s[k] + c <= MaxNodes => \E j \in 1..(k - 1) : s[j] = 2 * s[k] + c

\* Orders one after the other, and their parent.
LEMMA OrderJoins ==
  ASSUME NEW r \in Seq(Ids), NEW s \in Seq(Ids), ChildrenFirst(r), ChildrenFirst(s),
         NEW id \in Ids,
         2 * id <= MaxNodes => \E j \in DOMAIN r : r[j] = 2 * id,
         2 * id + 1 <= MaxNodes => \E j \in DOMAIN s : s[j] = 2 * id + 1
  PROVE  /\ r \o s \o << id >> \in Seq(Ids)
         /\ ChildrenFirst(r \o s \o << id >>)
         /\ \E j \in DOMAIN (r \o s \o << id >>) : (r \o s \o << id >>)[j] = id
<1> DEFINE q == r \o s \o << id >>
           m == Len(r)
           n == Len(s)
<1>1. /\ q \in Seq(Ids) /\ Len(q) = m + n + 1 /\ m \in Nat /\ n \in Nat
      /\ \A k \in 1..m : q[k] = r[k]
      /\ \A k \in 1..n : q[m + k] = s[k]
      /\ q[m + n + 1] = id
  OBVIOUS
<1>2. DOMAIN r = 1..m /\ DOMAIN s = 1..n /\ DOMAIN q = 1..(m + n + 1)
  BY <1>1
<1> HIDE DEF q, m, n
<1>3. ASSUME NEW k \in DOMAIN q, NEW c \in Vers, 2 * q[k] + c <= MaxNodes
      PROVE  \E j \in 1..(k - 1) : q[j] = 2 * q[k] + c
  <2>1. CASE k \in 1..m
    <3>1. PICK j \in 1..(k - 1) : r[j] = 2 * r[k] + c
      BY <1>1, <1>2, <1>3, <2>1 DEF ChildrenFirst
    <3> QED BY <1>1, <2>1, <3>1
  <2>2. CASE k \in (m + 1)..(m + n)
    <3>1. k - m \in 1..n /\ q[k] = s[k - m]
      <4>1. k - m \in 1..n /\ k = m + (k - m)
        BY <1>1, <2>2
      <4> QED BY <1>1, <4>1
    <3>2. PICK j \in 1..(k - m - 1) : s[j] = 2 * s[k - m] + c
      BY <1>2, <1>3, <3>1 DEF ChildrenFirst
    <3>3. m + j \in 1..(k - 1) /\ j \in 1..n
      BY <1>1, <2>2, <3>1
    <3> QED BY <1>1, <3>1, <3>2, <3>3
  <2>3. CASE k = m + n + 1
    <3>1. c = 0 \/ c = 1
      BY DEF Vers
    <3>2. CASE c = 0
      <4>1. PICK j \in DOMAIN r : r[j] = 2 * id
        BY <1>1, <1>3, <2>3, <3>2 DEF Ids
      <4> QED BY <1>1, <1>2, <2>3, <3>2, <4>1 DEF Ids
    <3>3. CASE c = 1
      <4>1. PICK j \in DOMAIN s : s[j] = 2 * id + 1
        BY <1>1, <1>3, <2>3, <3>3
      <4>2. m + j \in 1..(k - 1) /\ q[m + j] = 2 * id + 1
        BY <1>1, <1>2, <2>3, <4>1
      <4> QED BY <1>1, <2>3, <3>3, <4>2
    <3> QED BY <3>1, <3>2, <3>3
  <2> QED BY <1>1, <1>2, <2>1, <2>2, <2>3
<1>4. m + n + 1 \in DOMAIN q
  BY <1>1, <1>2
<1>5. ChildrenFirst(q)
  BY <1>3 DEF ChildrenFirst
<1> QED BY <1>1, <1>4, <1>5 DEF q

\* So is the whole order.
LEMMA PostOrderOk ==
  ASSUME NEW id \in Slots
  PROVE  /\ PostOrder[id] \in Seq(Ids) /\ ChildrenFirst(PostOrder[id])
         /\ id <= MaxNodes => \E j \in DOMAIN PostOrder[id] : PostOrder[id][j] = id
<1> DEFINE N == 2 * MaxNodes + 1
           Ok(k) == /\ PostOrder[k] \in Seq(Ids) /\ ChildrenFirst(PostOrder[k])
                    /\ k <= MaxNodes =>
                         \E j \in DOMAIN PostOrder[k] : PostOrder[k][j] = k
           W == {n \in Nat : N - n \in Slots /\ ~Ok(N - n)}
<1>0. N \in Nat /\ MaxNodes \in Nat /\ MaxNodes < N
  BY HtreeAssumption
<1>1. ASSUME W # {} PROVE FALSE
  <2>1. PICK n \in W : \A j \in W : n <= j
    <3>1. W \subseteq Nat
      OBVIOUS
    <3> HIDE DEF W
    <3> QED BY <1>1, <3>1, HasLeast
  <2>2. PICK k \in Slots : k = N - n /\ ~Ok(k)
    BY <2>1
  <2>3. PostOrder[k] = OrderOf(PostOrder, k)
    BY PostOrderIs
  <2>4. CASE k > MaxNodes
    <3>1. PostOrder[k] = << >>
      BY <2>3, <2>4 DEF OrderOf
    <3>2. ChildrenFirst(PostOrder[k])
      BY <3>1 DEF ChildrenFirst
    <3> QED BY <1>0, <2>2, <2>4, <3>1, <3>2 DEF Slots
  <2>5. CASE ~(k > MaxNodes)
    <3>1. k \in Ids /\ 2 * k \in Slots /\ 2 * k + 1 \in Slots
      BY <1>0, <2>5 DEF Ids, Slots
    <3>2. ASSUME NEW j \in Slots, j > k PROVE Ok(j)
      <4>1. N - j \in Nat /\ N - j < n /\ N - (N - j) = j
        BY <1>0, <2>1, <2>2, <3>2 DEF Slots
      <4>2. N - j \notin W
        BY <2>1, <4>1
      <4> HIDE DEF Ok
      <4> QED BY <4>1, <4>2
    <3>3. Ok(2 * k) /\ Ok(2 * k + 1)
      <4>1. 2 * k > k /\ 2 * k + 1 > k
        BY <3>1 DEF Ids
      <4> HIDE DEF Ok
      <4> QED BY <3>1, <3>2, <4>1
    <3>4. PostOrder[k] = PostOrder[2 * k] \o PostOrder[2 * k + 1] \o << k >>
      BY <2>3, <2>5 DEF OrderOf
    <3>5. /\ 2 * k <= MaxNodes =>
               \E j \in DOMAIN PostOrder[2 * k] : PostOrder[2 * k][j] = 2 * k
          /\ 2 * k + 1 <= MaxNodes =>
               \E j \in DOMAIN PostOrder[2 * k + 1] :
                 PostOrder[2 * k + 1][j] = 2 * k + 1
          /\ PostOrder[2 * k] \in Seq(Ids) /\ PostOrder[2 * k + 1] \in Seq(Ids)
          /\ ChildrenFirst(PostOrder[2 * k]) /\ ChildrenFirst(PostOrder[2 * k + 1])
      BY <3>3
    <3> HIDE DEF Ok
    <3>6. /\ PostOrder[k] \in Seq(Ids) /\ ChildrenFirst(PostOrder[k])
          /\ \E j \in DOMAIN PostOrder[k] : PostOrder[k][j] = k
      <4> DEFINE r == PostOrder[2 * k]
                 s == PostOrder[2 * k + 1]
      <4>1. /\ r \in Seq(Ids) /\ s \in Seq(Ids) /\ ChildrenFirst(r) /\ ChildrenFirst(s)
            /\ 2 * k <= MaxNodes => \E j \in DOMAIN r : r[j] = 2 * k
            /\ 2 * k + 1 <= MaxNodes => \E j \in DOMAIN s : s[j] = 2 * k + 1
        BY <3>5
      <4>2. PostOrder[k] = r \o s \o << k >>
        BY <3>4
      <4> HIDE DEF r, s
      <4>3. /\ r \o s \o << k >> \in Seq(Ids) /\ ChildrenFirst(r \o s \o << k >>)
            /\ \E j \in DOMAIN (r \o s \o << k >>) : (r \o s \o << k >>)[j] = k
        BY <3>1, <4>1, OrderJoins
      <4> QED BY <4>2, <4>3
    <3>7. Ok(k)
      BY <3>6 DEF Ok
    <3> QED BY <2>2, <3>7
  <2> QED BY <2>4, <2>5
<1>2. N - id \in Nat /\ N - (N - id) = id
  BY <1>0 DEF Slots
<1>3. Ok(id)
  <2> HIDE DEF Ok
  <2> QED BY <1>1, <1>2
<1> QED BY <1>3

\* Every node is in the order of the root.
LEMMA FirstIs ==
  ASSUME NEW id \in Ids
  PROVE  /\ First(id) \in DOMAIN PostOrder[1] /\ First(id) \in Nat
         /\ PostOrder[1][First(id)] = id
         /\ \A j \in DOMAIN PostOrder[1] : PostOrder[1][j] = id => First(id) <= j
<1> DEFINE s == PostOrder[1]
           W == {i \in Ids : ~\E k \in DOMAIN s : s[k] = i}
<1>0. 1 \in Slots /\ 1 \in Ids /\ 1 <= MaxNodes
  BY HtreeAssumption DEF Slots, Ids
<1>1. /\ s \in Seq(Ids) /\ ChildrenFirst(s)
      /\ \E j \in DOMAIN s : s[j] = 1
  BY <1>0, PostOrderOk
<1>2. DOMAIN s = 1..Len(s) /\ Len(s) \in Nat /\ DOMAIN s \subseteq Nat
  BY <1>1
<1> HIDE DEF s
<1>3. ASSUME W # {} PROVE FALSE
  <2>1. PICK i \in W : \A j \in W : i <= j
    <3>1. W \subseteq Nat
      BY DEF Ids
    <3> HIDE DEF W
    <3> QED BY <1>3, <3>1, HasLeast
  <2>2. i # 1
    BY <1>1, <2>1
  <2>3. /\ Parent(i) \in Ids /\ Parent(i) < i /\ Bit(i) \in Vers
        /\ i = 2 * Parent(i) + Bit(i) /\ i <= MaxNodes
    BY <2>1, <2>2, ParentBefore, HtreeAssumption DEF Ids
  <2>4. Parent(i) \notin W
    BY <2>1, <2>3 DEF Ids
  <2>5. PICK k \in DOMAIN s : s[k] = Parent(i)
    BY <2>3, <2>4
  <2>6. \E j \in 1..(k - 1) : s[j] = 2 * Parent(i) + Bit(i)
    BY <1>1, <2>3, <2>5 DEF ChildrenFirst
  <2>7. \E j \in DOMAIN s : s[j] = i
    BY <1>2, <2>3, <2>5, <2>6
  <2> QED BY <2>1, <2>7
<1> DEFINE V == {k \in DOMAIN s : s[k] = id}
<1>4. PICK k \in V : \A j \in V : k <= j
  <2>1. V # {} /\ V \subseteq Nat
    BY <1>2, <1>3
  <2> HIDE DEF V
  <2> QED BY <2>1, HasLeast
<1>5. k \in DOMAIN s /\ s[k] = id /\ \A j \in 1..(k - 1) : s[j] # id
  BY <1>2, <1>4
<1> DEFINE At(i) == s[i] = id /\ \A j \in 1..(i - 1) : s[j] # id
<1>6. First(id) \in DOMAIN s /\ At(First(id))
  <2>1. First(id) = CHOOSE i \in DOMAIN s : At(i)
    BY DEF First, s
  <2>2. k \in DOMAIN s /\ At(k)
    BY <1>5
  <2> HIDE DEF At
  <2> QED BY <2>1, <2>2
<1>7. ASSUME NEW j \in DOMAIN s, s[j] = id PROVE First(id) <= j
  BY <1>2, <1>6, <1>7
<1> QED BY <1>2, <1>6, <1>7 DEF s

\* Children come before their parent ...
LEMMA FirstBefore ==
  ASSUME NEW id \in Ids, id # 1
  PROVE  First(id) < First(Parent(id))
<1>1. /\ Parent(id) \in Ids /\ Bit(id) \in Vers
      /\ id = 2 * Parent(id) + Bit(id) /\ id <= MaxNodes
  BY ParentBefore, HtreeAssumption DEF Ids
<1>2. ChildrenFirst(PostOrder[1]) /\ PostOrder[1] \in Seq(Ids)
  BY PostOrderOk, HtreeAssumption DEF Slots
<1>3. /\ First(Parent(id)) \in DOMAIN PostOrder[1] /\ First(Parent(id)) \in Nat
      /\ PostOrder[1][First(Parent(id))] = Parent(id)
  BY <1>1, FirstIs
<1>4. PICK j \in 1..(First(Parent(id)) - 1) : PostOrder[1][j] = id
  BY <1>1, <1>2, <1>3 DEF ChildrenFirst
<1>5. j \in DOMAIN PostOrder[1]
  BY <1>2, <1>3, <1>4
<1>6. First(id) \in Nat /\ First(id) <= j
  BY <1>4, <1>5, FirstIs
<1> QED BY <1>3, <1>4, <1>6

\* ... and the root is the last.
LEMMA RootLast ==
  ASSUME NEW id \in Ids, id # 1
  PROVE  First(id) < First(1)
<1> DEFINE W == {i \in Ids : i # 1 /\ ~(First(i) < First(1))}
<1>0. \A i \in Ids : First(i) \in Nat
  BY FirstIs
<1>1. ASSUME W # {} PROVE FALSE
  <2>1. PICK i \in W : \A j \in W : i <= j
    <3>1. W \subseteq Nat
      BY DEF Ids
    <3> HIDE DEF W
    <3> QED BY <1>1, <3>1, HasLeast
  <2>2. Parent(i) \in Ids /\ Parent(i) < i /\ First(i) < First(Parent(i))
    BY <2>1, ParentBefore, FirstBefore
  <2>3. Parent(i) = 1 \/ First(Parent(i)) < First(1)
    BY <2>1, <2>2 DEF Ids
  <2>4. 1 \in Ids
    BY HtreeAssumption DEF Ids
  <2> QED BY <1>0, <2>1, <2>2, <2>3, <2>4
<1> QED BY <1>1

\* The next node that is written is the first of the dirty ones.
LEMMA NextIs ==
  ASSUME NEW t, t.dirtyNodes \subseteq Ids, t.dirtyNodes # {}
  PROVE  /\ NextDirty(t) \in t.dirtyNodes
         /\ \A d \in t.dirtyNodes : d # NextDirty(t) => First(NextDirty(t)) < First(d)
<1> DEFINE s == PostOrder[1]
           At(k) == s[k] \in t.dirtyNodes /\ \A j \in 1..(k - 1) : s[j] \notin t.dirtyNodes
           i == CHOOSE k \in DOMAIN s : At(k)
           W == {k \in DOMAIN s : s[k] \in t.dirtyNodes}
<1>1. s \in Seq(Ids) /\ DOMAIN s = 1..Len(s) /\ Len(s) \in Nat /\ DOMAIN s \subseteq Nat
  BY PostOrderOk, HtreeAssumption DEF Slots
<1>2. \A d \in t.dirtyNodes :
        /\ First(d) \in DOMAIN s /\ s[First(d)] = d
        /\ \A j \in DOMAIN s : s[j] = d => First(d) <= j
  BY FirstIs
<1>3. NextDirty(t) = s[i]
  BY DEF NextDirty
<1> HIDE DEF s
<1>4. PICK k \in W : \A j \in W : k <= j
  <2>1. W # {} /\ W \subseteq Nat
    BY <1>1, <1>2
  <2> HIDE DEF W
  <2> QED BY <2>1, HasLeast
<1>5. k \in DOMAIN s /\ At(k)
  BY <1>1, <1>4
<1>6. i \in DOMAIN s /\ At(i)
  <2> HIDE DEF At
  <2> QED BY <1>5
<1> HIDE DEF i
<1>7. ASSUME NEW d \in t.dirtyNodes, d # s[i] PROVE First(s[i]) < First(d)
  <2>1. First(s[i]) <= i /\ First(s[i]) \in Nat
    BY <1>1, <1>2, <1>6
  <2>2. ~(First(d) < i)
    BY <1>1, <1>2, <1>6
  <2>3. First(d) # i
    BY <1>2, <1>7
  <2> QED BY <1>1, <1>2, <1>6, <2>1, <2>2, <2>3
<1> QED BY <1>3, <1>6, <1>7

-----------------------------------------------------------------------------
(* Hashes.                                                                 *)

\* The numbers of the children that a node has.
Kids(max, id) == {k \in Vers : 2 * id + k \in TreeIds(max)}
\* Every node has the hash of what is below it.
Whole(t) ==
  \A id \in TreeIds(t.max) :
    t.nodes[id].hash = Hash(t.nodes, t.max, t.length, id)

\* A tree has the root, and with a node those above it.
LEMMA TreeIdsAre ==
  ASSUME NEW max \in 0..MaxNodes
  PROVE  /\ TreeIds(max) \subseteq Ids /\ 1 \in TreeIds(max)
         /\ \A id \in TreeIds(max) : id # 1 =>
              Parent(id) \in TreeIds(max) /\ Bit(id) \in Kids(max, Parent(id))
<1>1. TreeIds(max) \subseteq Ids /\ 1 \in TreeIds(max)
  BY HtreeAssumption DEF TreeIds, Ids
<1>2. ASSUME NEW id \in TreeIds(max), id # 1
      PROVE  Parent(id) \in TreeIds(max) /\ Bit(id) \in Kids(max, Parent(id))
  <2>1. /\ Parent(id) \in Ids /\ Parent(id) < id /\ Bit(id) \in Vers
        /\ id = 2 * Parent(id) + Bit(id)
    BY <1>1, <1>2, ParentBefore
  <2>2. Parent(id) \in TreeIds(max)
    BY <2>1 DEF TreeIds, Ids
  <2> QED BY <2>1, <2>2 DEF Kids
<1> QED BY <1>1, <1>2

\* A hash tells the hashes of the children.
LEMMA HashTells ==
  ASSUME NEW n, NEW max, NEW length, NEW id
  PROVE  Hash(n, max, length, id)[5] = [c \in Kids(max, id) |-> n[2 * id + c].hash]
BY DEF Hash, Kids

\* Two whole trees with the same root hash look the same to a client.
LEMMA SameHashSameTree ==
  ASSUME NEW t, NEW u, t.max \in 0..MaxNodes, u.max \in 0..MaxNodes,
         Whole(t), Whole(u), t.nodes[1].hash = u.nodes[1].hash
  PROVE  /\ TreeIds(t.max) = TreeIds(u.max) /\ t.length = u.length
         /\ \A id \in TreeIds(t.max) : t.nodes[id].seal = u.nodes[id].seal
<1> DEFINE In(id) == id \in TreeIds(t.max) /\ id \in TreeIds(u.max)
           Out(id) == id \notin TreeIds(t.max) /\ id \notin TreeIds(u.max)
           Alike(id) == Out(id) \/ (In(id) /\ t.nodes[id].hash = u.nodes[id].hash)
           W == {id \in Ids : ~Alike(id)}
<1>1. /\ TreeIds(t.max) \subseteq Ids /\ TreeIds(u.max) \subseteq Ids
      /\ 1 \in TreeIds(t.max) /\ 1 \in TreeIds(u.max)
  BY TreeIdsAre
<1>2. ASSUME W # {} PROVE FALSE
  <2>1. PICK id \in W : \A j \in W : id <= j
    <3>1. W \subseteq Nat
      BY DEF Ids
    <3> HIDE DEF W
    <3> QED BY <1>2, <3>1, HasLeast
  <2>2. id # 1
    BY <1>1, <2>1
  <2> DEFINE up == Parent(id)
             kt == [c \in Kids(t.max, up) |-> t.nodes[2 * up + c].hash]
             ku == [c \in Kids(u.max, up) |-> u.nodes[2 * up + c].hash]
  <2>3. /\ up \in Ids /\ up < id /\ Bit(id) \in Vers /\ id = 2 * up + Bit(id)
    BY <2>1, <2>2, ParentBefore
  <2>4. Alike(up)
    BY <2>1, <2>3 DEF Ids
  <2>5. In(up)
    BY <2>1, <2>2, <2>4, TreeIdsAre
  <2>6. /\ t.nodes[up].hash = Hash(t.nodes, t.max, t.length, up)
        /\ u.nodes[up].hash = Hash(u.nodes, u.max, u.length, up)
        /\ t.nodes[up].hash = u.nodes[up].hash
    BY <2>4, <2>5 DEF Whole
  <2>7. kt = ku
    <3>1. /\ Hash(t.nodes, t.max, t.length, up)[5] = kt
          /\ Hash(u.nodes, u.max, u.length, up)[5] = ku
      BY HashTells
    <3> HIDE DEF kt, ku, up
    <3> QED BY <2>6, <3>1
  <2>8. Bit(id) \in Kids(t.max, up) <=> Bit(id) \in Kids(u.max, up)
    <3>1. DOMAIN kt = Kids(t.max, up) /\ DOMAIN ku = Kids(u.max, up)
      OBVIOUS
    <3> HIDE DEF kt, ku, up
    <3> QED BY <2>7, <3>1
  <2>9. id \in TreeIds(t.max) /\ id \in TreeIds(u.max)
    BY <2>1, <2>2, <2>3, <2>8, TreeIdsAre DEF Kids
  <2>10. t.nodes[id].hash = u.nodes[id].hash
    <3>1. Bit(id) \in Kids(t.max, up) /\ Bit(id) \in Kids(u.max, up)
      BY <2>2, <2>9, TreeIdsAre
    <3>2. kt[Bit(id)] = t.nodes[id].hash /\ ku[Bit(id)] = u.nodes[id].hash
      BY <2>3, <3>1
    <3> HIDE DEF kt, ku
    <3> QED BY <2>7, <3>2
  <2> QED BY <2>1, <2>9, <2>10
<1>3. \A id \in Ids : Alike(id)
  BY <1>2
<1>4. TreeIds(t.max) = TreeIds(u.max)
  BY <1>1, <1>3
<1>5. ASSUME NEW id \in TreeIds(t.max)
      PROVE  Hash(t.nodes, t.max, t.length, id) = Hash(u.nodes, u.max, u.length, id)
  BY <1>1, <1>3, <1>4 DEF Whole
<1>6. t.length = u.length
  <2>1. Hash(t.nodes, t.max, t.length, 1)[4] = t.length
    BY DEF Hash
  <2>2. Hash(u.nodes, u.max, u.length, 1)[4] = u.length
    BY DEF Hash
  <2> QED BY <1>1, <1>5, <2>1, <2>2
<1>7. ASSUME NEW id \in TreeIds(t.max)
      PROVE  t.nodes[id].seal = u.nodes[id].seal
  <2>1. Hash(t.nodes, t.max, t.length, id)[3] = t.nodes[id].seal
    BY DEF Hash
  <2>2. Hash(u.nodes, u.max, u.length, id)[3] = u.nodes[id].seal
    BY DEF Hash
  <2> QED BY <1>5, <2>1, <2>2
<1> QED BY <1>4, <1>6, <1>7

-----------------------------------------------------------------------------
(* The invariant.                                                          *)

\* What the theorems assume of the client.  A truncate changes the length, and it
\* drops no node whose parent it keeps unless that is the root: the root is the only
\* node that ree_fs_truncate() dirties.
CleanCut(length) ==
  LET keep == length \div 2 + 1
  IN  /\ length # ht.length
      /\ \A id \in Ids : id \in TreeIds(ht.max) /\ id > keep /\ Parent(id) <= keep =>
           Parent(id) = 1
CleanTruncates == \A length \in Lengths : Truncate(length) => CleanCut(length)
CleanSpec == Spec /\ [][CleanTruncates]_vars

\* An image of a node, a head, and a tree in memory.
IsImage(x) ==
  /\ x = [blk |-> x.blk, ch |-> x.ch, seal |-> x.seal, hash |-> x.hash]
  /\ x.blk \in Vers /\ x.ch \in [Vers -> Vers] /\ x.seal \in 0..ivs
IsHead(h) ==
  /\ h = [counter |-> h.counter, max |-> h.max, length |-> h.length,
          root |-> h.root]
  /\ h.counter \in Nat
IsSize(x) ==
  /\ x.max \in 0..MaxNodes /\ x.length \in 0..(2 * MaxNodes)
  /\ \A b \in Blocks : b < RoundUp(x.length) => b + 1 \in TreeIds(x.max)
IsTree(t) ==
  /\ t = [counter |-> t.counter, max |-> t.max, length |-> t.length,
          nodes |-> t.nodes, dirtyNodes |-> t.dirtyNodes,
          updated |-> t.updated, dirty |-> t.dirty]
  /\ t.counter \in Nat /\ t.dirty \in BOOLEAN
  /\ t.nodes = [id \in Ids |-> t.nodes[id]]
  /\ \A id \in Ids : IsImage(t.nodes[id])
  /\ \A id \in Ids \ TreeIds(t.max) : t.nodes[id] = ZeroNode
  /\ t.dirtyNodes \subseteq TreeIds(t.max) /\ t.updated \subseteq t.dirtyNodes

TypeInv ==
  /\ head = [v \in Vers |-> head[v]]
  /\ \A v \in Vers : IsHead(head[v]) /\ IsSize(head[v])
  /\ node = [id \in Ids |-> [v \in Vers |-> node[id][v]]]
  /\ \A id \in Ids, v \in Vers : IsImage(node[id][v])
  /\ block \in [Blocks -> [Vers -> 0..ivs]]
  /\ IsOpen => IsTree(ht) /\ IsSize(ht)
  /\ pc \in {"idle", "create", "sync", "dummy"}
  /\ ~IsOpen => pc = "idle"
  /\ lookup \in Lookups /\ ivs \in 0..MaxWrites
  /\ lost \subseteq Blocks

\* The place of the version that the tree in memory came from.
Current == ht.counter % 2
Base == Loaded(Current)
OldIds == TreeIds(head[Current].max)

\* A sync has written all nodes, but not the head.
Written == pc \in {"create", "sync"} /\ ht.dirtyNodes = {}
\* Where the tree in memory has a node.
PlaceOf(id) ==
  IF id = 1 THEN IF Written THEN Flip(Current) ELSE Current
  ELSE ht.nodes[Parent(id)].ch[Bit(id)]

\* Each head is in the place of its counter.
HeadsInv == \A v \in Vers : head[v] = ZeroHead \/ head[v].counter % 2 = v

\* What the directory has can be opened.
SavedInv ==
  IF lookup = "hash" THEN saved # NoHash => Opens ELSE saved = NoHash

\* A clean node of the tree is in storage, and its hash is right unless a child
\* is dirty.
CleanNodes ==
  \A id \in TreeIds(ht.max) :
    /\ id \notin ht.dirtyNodes => node[id][PlaceOf(id)] = ht.nodes[id]
    /\ \/ id \in ht.dirtyNodes
       \/ \E d \in ht.dirtyNodes : d # 1 /\ Parent(d) = id
       \/ ht.nodes[id].hash = Hash(ht.nodes, ht.max, ht.length, id)
MemInv ==
  IsOpen =>
    /\ CleanNodes
    /\ pc \in {"create", "sync"} => ht.dirty
    /\ pc = "idle" /\ ht.dirty => ht.dirtyNodes # {}
    /\ ~ht.dirty => ht = Base

\* The version in storage that the tree in memory came from is whole, and is what
\* is found, or will be when the directory has the hash of this sync.
BaseInv ==
  /\ Verified(Current) /\ head[Current].counter = ht.counter
  /\ dfh = node[1][Current].hash
  /\ IF lookup = "hash"
     THEN /\ Written \/ Current = 1 => node[1][0].hash # node[1][1].hash
          /\ saved \notin {NoHash, dfh} =>
               pc = "idle" /\ ~ht.dirty /\ HeadIdx = Flip(Current)
     ELSE HeadIdx = Current

\* A node that was written since: its parent points to the other place, and what
\* is still dirty comes later.
Moved(id) ==
  /\ id \in OldIds /\ id \in TreeIds(ht.max) /\ id # 1
  /\ ht.nodes[Parent(id)].ch[Bit(id)] # Base.nodes[Parent(id)].ch[Bit(id)]
MovedInv ==
  \A id \in Ids : Moved(id) =>
    pc = "sync" /\ \A d \in ht.dirtyNodes : First(id) < First(d)

\* A dirty tree differs from the version it came from in what the client sees.
Differs ==
  \/ ht.length # Base.length
  \/ \E id \in TreeIds(ht.max) :
       id \notin OldIds \/ ht.nodes[id].seal # Base.nodes[id].seal

\* Between syncs the tree only grows, and a block has moved when it was written.
GrownInv ==
  /\ OldIds \subseteq TreeIds(ht.max)
  /\ \A id \in OldIds :
       IF id \in ht.updated THEN ht.nodes[id].blk # Base.nodes[id].blk
       ELSE /\ ht.nodes[id].blk = Base.nodes[id].blk
            /\ ht.nodes[id].seal = Base.nodes[id].seal

OldInv ==
  IsOpen /\ pc # "create" =>
    /\ BaseInv /\ MovedInv
    /\ ht.dirty => Differs
    /\ pc = "idle" => GrownInv

\* A file that is created is not there yet.
CreateInv ==
  /\ pc = "create" =>
       /\ IsOpen /\ ht.counter = 0 /\ \A v \in Vers : head[v] = ZeroHead
       /\ node[1][0] = ZeroNode /\ saved = NoHash
  /\ pc = "dummy" =>
       /\ IsOpen /\ Current = 1 /\ ~ht.dirty
       /\ head[0] = ZeroHead /\ saved = NoHash

Inv ==
  /\ TypeInv /\ HeadsInv /\ SavedInv /\ MemInv /\ OldInv /\ CreateInv
  /\ BlocksReadable

-----------------------------------------------------------------------------
(* What the parts of the invariant mean for the file in storage.           *)

\* LoadedReads and ReadsSame, as a fact about a state.
LoadedIs ==
  \A i, g : /\ Reads(i, g) <=> g = Loaded(i).nodes
            /\ Loaded(i) = [counter |-> head[i].counter, max |-> head[i].max,
                            length |-> head[i].length, nodes |-> Loaded(i).nodes,
                            dirtyNodes |-> {}, updated |-> {}, dirty |-> FALSE]

\* It holds of every state.
LEMMA LoadedFact == LoadedIs
<1> SUFFICES ASSUME NEW i, NEW g
             PROVE  /\ Reads(i, g) <=> g = Loaded(i).nodes
                    /\ Loaded(i) = [counter |-> head[i].counter, max |-> head[i].max,
                                    length |-> head[i].length,
                                    nodes |-> Loaded(i).nodes,
                                    dirtyNodes |-> {}, updated |-> {},
                                    dirty |-> FALSE]
  BY DEF LoadedIs
<1>1. Reads(i, Loaded(i).nodes)
  BY LoadedReads
<1>2. Reads(i, g) => g = Loaded(i).nodes
  BY <1>1, ReadsSame
<1> QED BY <1>1, <1>2, LoadedReads

\* A step that leaves the images that a tree is made of leaves the tree.
LEMMA SameTree ==
  ASSUME NEW i, head'[i].max = head[i].max,
         \A id \in Ids : id \in TreeIds(head[i].max) =>
           LET v == IF id = 1 THEN i ELSE Loaded(i).nodes[Parent(id)].ch[Bit(id)]
           IN  node'[id][v] = node[id][v]
  PROVE  Loaded(i)'.nodes = Loaded(i).nodes
<1>1. LoadedIs /\ LoadedIs'
  BY LoadedFact, PTL
<1> SUFFICES ASSUME NEW g, g = Loaded(i).nodes
             PROVE  Loaded(i)'.nodes = g
  OBVIOUS
<1>2. Reads(i, g)
  BY LoadedReads
<1>3. ASSUME NEW id \in Ids PROVE ImageOf(i, g, id)' = ImageOf(i, g, id)
  BY DEF ImageOf
<1>4. Reads(i, g)'
  BY <1>2, <1>3 DEF Reads
<1> QED BY <1>1, <1>4 DEF LoadedIs

\* A step that writes neither heads nor nodes leaves both trees.
LEMMA SameDisk ==
  ASSUME head' = head, node' = node
  PROVE  /\ \A i : Loaded(i)' = Loaded(i) /\ Verified(i)' = Verified(i)
         /\ lookup' = lookup /\ saved' = saved =>
              HeadIdx' = HeadIdx /\ Opens' = Opens
<1>1. ASSUME NEW i PROVE Loaded(i)' = Loaded(i)
  BY DEF Loaded
<1>2. ASSUME NEW i PROVE Verified(i)' = Verified(i)
  BY <1>1 DEF Verified
<1>3. ASSUME lookup' = lookup, saved' = saved PROVE HeadIdx' = HeadIdx
  BY <1>3 DEF HeadIdx, IdxFromHash
<1>4. ASSUME lookup' = lookup, saved' = saved PROVE Opens' = Opens
  BY <1>2, <1>3, <1>4 DEF Opens
<1> QED BY <1>1, <1>2, <1>3, <1>4

\* What a file that opens has.
LEMMA OpensNeeds ==
  Opens => /\ HeadIdx \in Vers /\ Verified(HeadIdx)
           /\ head[HeadIdx].root # NoHash
           /\ head[HeadIdx].root = node[1][HeadIdx].hash
           /\ lookup = "hash" => saved = node[1][HeadIdx].hash /\ saved # NoHash
<1> SUFFICES ASSUME Opens
             PROVE  /\ HeadIdx \in Vers /\ Verified(HeadIdx)
                    /\ head[HeadIdx].root # NoHash
                    /\ head[HeadIdx].root = node[1][HeadIdx].hash
                    /\ lookup = "hash" =>
                         saved = node[1][HeadIdx].hash /\ saved # NoHash
  OBVIOUS
<1>1. HeadIdx # -1 /\ Verified(HeadIdx)
  BY DEF Opens
<1>2. HeadIdx \in Vers
  BY <1>1 DEF HeadIdx, IdxFromHash, IdxFromCounter, Vers
<1>3. /\ head[HeadIdx].root # NoHash
      /\ head[HeadIdx].root = node[1][HeadIdx].hash
  BY <1>1 DEF Verified
<1>4. lookup = "hash" => saved = node[1][HeadIdx].hash
  BY <1>1 DEF HeadIdx, IdxFromHash
<1> QED BY <1>1, <1>2, <1>3, <1>4

\* A file that is found by hash is in its directory.
NeedsSaved == Opens => (lookup = "hash" => saved # NoHash)
\* It holds of every state.
LEMMA NeedsSavedIs == NeedsSaved
BY OpensNeeds DEF NeedsSaved

\* The places that a tree in storage has are places.
LEMMA LoadedTyped ==
  ASSUME TypeInv, NEW i \in Vers
  PROVE  /\ IsTree(Loaded(i)) /\ IsSize(Loaded(i))
         /\ \A id \in TreeIds(head[i].max) :
              Loaded(i).nodes[id]
                = node[id][IF id = 1 THEN i
                           ELSE Loaded(i).nodes[Parent(id)].ch[Bit(id)]]
<1> DEFINE g == Loaded(i).nodes
           W == {id \in Ids : ~IsImage(g[id])}
<1>1. Reads(i, g)
  BY LoadedReads
<1>2. /\ Loaded(i) = [counter |-> head[i].counter, max |-> head[i].max,
                      length |-> head[i].length, nodes |-> g,
                      dirtyNodes |-> {}, updated |-> {}, dirty |-> FALSE]
  BY LoadedReads
<1> HIDE DEF g
<1>3. \A id \in Ids : g[id] = ImageOf(i, g, id)
  BY <1>1 DEF Reads
<1>4. IsImage(ZeroNode)
  BY DEF IsImage, ZeroNode, TypeInv, Vers
<1>5. ASSUME W # {} PROVE FALSE
  <2>1. PICK id \in W : \A j \in W : id <= j
    <3>1. W \subseteq Nat
      BY DEF Ids
    <3> HIDE DEF W
    <3> QED BY <1>5, <3>1, HasLeast
  <2>2. id # 1 => g[Parent(id)].ch[Bit(id)] \in Vers
    <3> SUFFICES ASSUME id # 1 PROVE g[Parent(id)].ch[Bit(id)] \in Vers
      OBVIOUS
    <3>1. Parent(id) \in Ids /\ Parent(id) < id /\ Bit(id) \in Vers
      BY <2>1, ParentBefore
    <3>2. IsImage(g[Parent(id)])
      BY <2>1, <3>1 DEF Ids
    <3> QED BY <3>1, <3>2 DEF IsImage
  <2>3. \A v \in Vers : IsImage(node[id][v])
    BY <2>1 DEF TypeInv
  <2>4. IsImage(ImageOf(i, g, id))
    BY <1>4, <2>2, <2>3 DEF ImageOf
  <2> QED BY <1>3, <2>1, <2>4
<1>6. \A id \in Ids : IsImage(g[id])
  BY <1>5
<1>7. \A id \in Ids \ TreeIds(head[i].max) : g[id] = ZeroNode
  BY <1>3 DEF ImageOf
<1>8. IsHead(head[i]) /\ IsSize(head[i])
  BY DEF TypeInv
<1>9. IsTree(Loaded(i))
  <2>1. g = [id \in Ids |-> g[id]]
    BY <1>1 DEF Reads
  <2> QED BY <1>2, <1>6, <1>7, <1>8, <2>1 DEF IsTree, IsHead
<1>10. IsSize(Loaded(i))
  BY <1>2, <1>8 DEF IsSize
<1>11. ASSUME NEW id \in TreeIds(head[i].max)
       PROVE  g[id] = node[id][IF id = 1 THEN i ELSE g[Parent(id)].ch[Bit(id)]]
  <2>1. id \in Ids
    BY <1>8, TreeIdsAre DEF IsSize
  <2> QED BY <1>3, <1>11, <2>1 DEF ImageOf
<1> QED BY <1>9, <1>10, <1>11 DEF g

-----------------------------------------------------------------------------
(* Each step keeps the invariant.                                          *)

\* An empty file in storage.
ZeroDisk ==
  /\ ivs \in 0..MaxWrites
  /\ head = [v \in Vers |-> ZeroHead]
  /\ node = [id \in Ids |-> [v \in Vers |-> ZeroNode]]
  /\ block = [b \in Blocks |-> NoBlock]
\* What follows of its types.
ZeroTypes ==
  /\ head = [v \in Vers |-> head[v]]
  /\ \A v \in Vers : head[v] = ZeroHead /\ IsHead(head[v]) /\ IsSize(head[v])
  /\ node = [id \in Ids |-> [v \in Vers |-> node[id][v]]]
  /\ \A id \in Ids, v \in Vers : node[id][v] = ZeroNode /\ IsImage(node[id][v])
  /\ block \in [Blocks -> [Vers -> 0..ivs]]
  /\ ~Opens

\* It has types, and cannot be opened.
LEMMA ZeroDiskIs == ZeroDisk => ZeroTypes
<1> SUFFICES ASSUME ZeroDisk PROVE ZeroTypes
  OBVIOUS
<1> USE DEF ZeroDisk
<1>1. \A v \in Vers : head[v] = ZeroHead
  OBVIOUS
<1>2. IsHead(ZeroHead) /\ IsSize(ZeroHead)
  BY HtreeAssumption DEF IsHead, IsSize, ZeroHead, Blocks, RoundUp
<1>3. IsImage(ZeroNode)
  BY DEF IsImage, ZeroNode, Vers
<1>4. block \in [Blocks -> [Vers -> 0..ivs]]
  BY DEF NoBlock
<1>5. ~Opens
  BY <1>1, OpensNeeds DEF ZeroHead
<1>6. \A id \in Ids, v \in Vers : node[id][v] = ZeroNode
  OBVIOUS
<1>7. node = [id \in Ids |-> [v \in Vers |-> node[id][v]]]
  OBVIOUS
<1> QED BY <1>1, <1>2, <1>3, <1>4, <1>5, <1>6, <1>7 DEF ZeroTypes

\* At the start.
LEMMA InitInv == Init => Inv
<1> SUFFICES ASSUME Init PROVE Inv
  OBVIOUS
<1>1. ivs \in 0..MaxWrites
  BY HtreeAssumption DEF Init
<1>2. ~IsOpen
  BY DEF Init, IsOpen
<1>0. ZeroTypes
  BY <1>1, ZeroDiskIs DEF ZeroDisk, Init
<1>3. TypeInv
  BY <1>0, <1>1, <1>2 DEF TypeInv, Init, ZeroTypes
<1>4. HeadsInv
  BY DEF HeadsInv, Init
<1>5. SavedInv
  BY DEF SavedInv, Init
<1>6. MemInv /\ OldInv
  BY <1>2 DEF MemInv, OldInv
<1>7. CreateInv
  BY DEF CreateInv, Init
<1>8. BlocksReadable
  BY <1>0, <1>2 DEF BlocksReadable, ZeroTypes
<1> QED BY <1>3, <1>4, <1>5, <1>6, <1>7, <1>8 DEF Inv

\* The version that a file is opened from is that of its counter.
LEMMA HeadCounter ==
  ASSUME TypeInv, HeadsInv, NEW i \in Vers, head[i].root # NoHash
  PROVE  head[i].counter % 2 = i
BY DEF HeadsInv, ZeroHead

\* A tree is not what Closed is.
LEMMA TreeIsOpen ==
  ASSUME NEW t, "counter" \in DOMAIN t
  PROVE  t # Closed
BY DEF Closed

\* The types of an open tree.
LEMMA OpenTypes ==
  ASSUME TypeInv, IsOpen
  PROVE  /\ IsTree(ht) /\ IsSize(ht) /\ Current \in Vers
         /\ TreeIds(ht.max) \subseteq Ids /\ 1 \in TreeIds(ht.max)
         /\ IsTree(Base) /\ IsSize(Base)
         /\ Base.max = head[Current].max /\ Base.length = head[Current].length
         /\ OldIds \subseteq Ids /\ 1 \in OldIds
<1>1. IsTree(ht) /\ IsSize(ht)
  BY DEF TypeInv
<1>2. Current \in Vers
  BY <1>1 DEF Current, IsTree, Vers
<1>3. IsTree(Base) /\ IsSize(Base)
  BY <1>2, LoadedTyped DEF Base
<1>4. Base.max = head[Current].max /\ Base.length = head[Current].length
  BY LoadedReads DEF Base
<1>5. TreeIds(ht.max) \subseteq Ids /\ 1 \in TreeIds(ht.max)
  BY <1>1, TreeIdsAre DEF IsSize
<1>6. OldIds \subseteq Ids /\ 1 \in OldIds
  BY <1>3, <1>4, TreeIdsAre DEF IsSize, OldIds
<1> QED BY <1>1, <1>2, <1>3, <1>4, <1>5, <1>6

\* The types of a clean tree.
LEMMA CleanTree ==
  ASSUME IsOpen, TypeInv, MemInv, ~ht.dirty
  PROVE  /\ Current \in Vers
         /\ ht = Base /\ ht.nodes = Base.nodes /\ OldIds = TreeIds(ht.max)
         /\ head[Current].length = ht.length
         /\ ht.dirtyNodes = {} /\ ht.updated = {}
         /\ \A id \in Ids : ~Moved(id)
         /\ GrownInv
<1>1. Current \in Vers
  BY DEF Current, TypeInv, IsTree, Vers
<1>2. ht = Base
  BY DEF MemInv
<1>3. /\ ht.max = head[Current].max /\ ht.length = head[Current].length
      /\ ht.dirtyNodes = {} /\ ht.updated = {}
  BY <1>2, LoadedReads DEF Base
<1>4. OldIds = TreeIds(ht.max)
  BY <1>3 DEF OldIds
<1>5. \A id \in Ids : ~Moved(id)
  BY <1>2 DEF Moved
<1>6. GrownInv
  BY <1>2, <1>3, <1>4 DEF GrownInv
<1> QED BY <1>1, <1>2, <1>3, <1>4, <1>5, <1>6

\* When the directory has the hash of the last sync, that is found.
Found ==
  BaseInv /\ lookup = "hash" /\ saved = dfh /\ Current \in Vers => HeadIdx = Current
\* It holds of every state.
LEMMA FoundIs == Found
<1> SUFFICES ASSUME BaseInv, lookup = "hash", saved = dfh, Current \in Vers
             PROVE  HeadIdx = Current
  BY DEF Found
<1>1. HeadIdx = IdxFromHash(node[1][Current].hash)
  BY DEF HeadIdx, BaseInv
<1>2. Current = 0 \/ Current = 1
  BY DEF Vers
<1>3. CASE Current = 0
  BY <1>1, <1>3 DEF IdxFromHash
<1>4. CASE Current = 1
  BY <1>1, <1>4 DEF IdxFromHash, BaseInv
<1> QED BY <1>2, <1>3, <1>4

\* Opening.
LEMMA OpenKept ==
  ASSUME Inv, Open
  PROVE  Inv'
<1> DEFINE i == HeadIdx
<1>1. /\ TypeInv /\ HeadsInv /\ SavedInv /\ CreateInv /\ BlocksReadable
      /\ ~IsOpen /\ Opens /\ pc = "idle"
      /\ ht' = Loaded(i) /\ dfh' = node[1][i].hash
      /\ head' = head /\ node' = node /\ block' = block
      /\ pc' = pc /\ lookup' = lookup /\ saved' = saved /\ ivs' = ivs /\ lost' = lost
  BY DEF Inv, Open, disk, TypeInv
<1>2. /\ i \in Vers /\ Verified(i) /\ head[i].root # NoHash
      /\ lookup = "hash" => saved = node[1][i].hash /\ saved # NoHash
  BY <1>1, OpensNeeds
<1>3. /\ \A j : Loaded(j)' = Loaded(j) /\ Verified(j)' = Verified(j)
      /\ HeadIdx' = i /\ Opens' = Opens
  BY <1>1, SameDisk
<1>4. IsTree(ht') /\ IsSize(ht')
  BY <1>1, <1>2, LoadedTyped
<1>5. /\ ht'.counter = head[i].counter /\ ht'.max = head[i].max
      /\ ht'.length = head[i].length /\ ht'.nodes = Loaded(i).nodes
      /\ ht'.dirtyNodes = {} /\ ht'.updated = {} /\ ht'.dirty = FALSE
  BY <1>1, LoadedReads
<1>6. Current' = i
  BY <1>1, <1>2, <1>5, HeadCounter DEF Current
<1> HIDE DEF i
<1>7. TypeInv'
  <2>1. IsTree(ht)'
    BY <1>1, <1>4 DEF IsTree, IsImage
  <2>2. IsSize(ht)'
    BY <1>4 DEF IsSize
  <2> QED BY <1>1, <2>1, <2>2 DEF TypeInv, IsHead, IsSize, IsImage
<1>8. HeadsInv' /\ SavedInv' /\ CreateInv'
  BY <1>1, <1>3 DEF HeadsInv, SavedInv, CreateInv
<1>9. MemInv'
  <2>1. ~Written'
    BY <1>1 DEF Written
  <2>2. ht' = Base'
    BY <1>1, <1>3, <1>6 DEF Base
  <2>3. ASSUME NEW id \in TreeIds(ht'.max)
        PROVE  /\ node[id][PlaceOf(id)'] = ht'.nodes[id]
               /\ ht'.nodes[id].hash = Hash(ht'.nodes, ht'.max, ht'.length, id)
    <3>1. node[id][PlaceOf(id)'] = ht'.nodes[id]
      BY <1>1, <1>2, <1>5, <1>6, <2>1, LoadedTyped DEF PlaceOf
    <3>2. ht'.nodes[id].hash = Hash(ht'.nodes, ht'.max, ht'.length, id)
      BY <1>1, <1>2 DEF Verified
    <3> QED BY <3>1, <3>2
  <2>4. CleanNodes'
    BY <1>1, <2>3 DEF CleanNodes
  <2> QED BY <1>1, <1>5, <2>2, <2>4 DEF MemInv
<1>10. OldInv'
  <2>1. Base' = ht' /\ OldIds' = TreeIds(ht'.max)
    BY <1>1, <1>3, <1>5, <1>6 DEF Base, OldIds
  <2>2. BaseInv'
    <3>1. Verified(Current)' /\ head'[Current'].counter = ht'.counter
      BY <1>1, <1>2, <1>3, <1>5, <1>6
    <3>2. dfh' = node'[1][Current'].hash
      BY <1>1, <1>6
    <3>3. lookup = "hash" => dfh' = saved
      BY <1>1, <1>2
    <3>4. lookup = "hash" /\ i = 1 => node[1][0].hash # node[1][1].hash
      BY <1>2 DEF i, HeadIdx, IdxFromHash
    <3>5. ~Written'
      BY <1>1 DEF Written
    <3> QED BY <1>1, <1>3, <1>6, <3>1, <3>2, <3>3, <3>4, <3>5 DEF BaseInv
  <2>3. MovedInv'
    BY <2>1 DEF MovedInv, Moved
  <2>4. GrownInv'
    BY <1>5, <2>1 DEF GrownInv
  <2> QED BY <1>5, <2>2, <2>3, <2>4 DEF OldInv
<1>11. BlocksReadable'
  BY <1>1, <1>2, <1>3, <1>5 DEF BlocksReadable, Readable, i
<1> QED BY <1>7, <1>8, <1>9, <1>10, <1>11 DEF Inv

\* Closing, or a crash.
LEMMA CloseKept ==
  ASSUME Inv, Close
  PROVE  Inv'
<1>1. /\ TypeInv /\ HeadsInv /\ SavedInv /\ BlocksReadable
      /\ ~IsOpen' /\ pc' = "idle"
      /\ head' = head /\ node' = node /\ block' = block
      /\ lookup' = lookup /\ saved' = saved /\ ivs' = ivs /\ lost' = lost
  BY DEF Inv, Close, disk, IsOpen
<1>2. /\ \A j : Loaded(j)' = Loaded(j) /\ Verified(j)' = Verified(j)
      /\ HeadIdx' = HeadIdx /\ Opens' = Opens
  BY <1>1, SameDisk
<1>3. TypeInv'
  BY <1>1 DEF TypeInv, IsHead, IsSize, IsImage
<1>4. HeadsInv' /\ SavedInv' /\ MemInv' /\ OldInv' /\ CreateInv'
  BY <1>1, <1>2 DEF HeadsInv, SavedInv, MemInv, OldInv, CreateInv
<1>5. BlocksReadable'
  BY <1>1, <1>2 DEF BlocksReadable, Readable
<1> QED BY <1>3, <1>4, <1>5 DEF Inv

\* Creating.
LEMMA CreateKept ==
  ASSUME Inv, Create
  PROVE  Inv'
<1>1. /\ TypeInv /\ SavedInv
      /\ saved = NoHash /\ ht' = EmptyTree /\ pc' = "create" /\ lost' = {}
      /\ lookup' = lookup /\ saved' = saved /\ ivs' = ivs
  BY DEF Inv, Create
<1>2. ZeroTypes' /\ ZeroDisk'
  <2>1. ZeroDisk'
    BY <1>1 DEF ZeroDisk, Create, TypeInv
  <2>2. (ZeroDisk => ZeroTypes)'
    BY ZeroDiskIs, PTL
  <2> QED BY <2>1, <2>2
<1>3. /\ ht'.counter = 0 /\ ht'.max = 0 /\ ht'.length = 0
      /\ ht'.nodes = [id \in Ids |-> ZeroNode]
      /\ ht'.dirtyNodes = {1} /\ ht'.updated = {} /\ ht'.dirty = TRUE
      /\ TreeIds(ht'.max) = {1} /\ RoundUp(ht'.length) = 0
  BY <1>1 DEF EmptyTree, TreeIds, RoundUp
<1>4. IsImage(ZeroNode)'
  BY <1>1 DEF IsImage, ZeroNode, Vers, TypeInv
<1>5. IsTree(ht)'
  <2>1. ht' = [counter |-> ht'.counter, max |-> ht'.max, length |-> ht'.length,
               nodes |-> ht'.nodes, dirtyNodes |-> ht'.dirtyNodes,
               updated |-> ht'.updated, dirty |-> ht'.dirty]
    BY <1>1 DEF EmptyTree
  <2>2. \A id \in Ids : ht'.nodes[id] = ZeroNode
    BY <1>3
  <2>3. ht'.nodes = [id \in Ids |-> ht'.nodes[id]]
    BY <1>3
  <2>4. (\A id \in Ids : IsImage(ht.nodes[id]))'
    BY <1>4, <2>2
  <2>5. /\ ht'.counter \in Nat /\ ht'.dirty \in BOOLEAN
        /\ ht'.dirtyNodes = TreeIds(ht'.max) /\ ht'.updated = {}
    <3>1. ht'.dirty \in BOOLEAN
      BY <1>1 DEF EmptyTree
    <3> QED BY <1>3, <3>1
  <2> QED BY <2>1, <2>2, <2>3, <2>4, <2>5 DEF IsTree
<1>6. IsSize(ht)'
  BY <1>3, HtreeAssumption DEF IsSize, Blocks
<1>7. IsOpen'
  BY <1>1, TreeIsOpen DEF IsOpen, EmptyTree
<1>8. TypeInv'
  BY <1>1, <1>2, <1>5, <1>6, <1>7 DEF TypeInv, ZeroTypes, ZeroDisk
<1>9. HeadsInv'
  BY <1>2 DEF HeadsInv, ZeroTypes
<1>10. SavedInv'
  BY <1>1 DEF SavedInv
<1>11. MemInv'
  BY <1>1, <1>3 DEF MemInv, CleanNodes
<1>12. OldInv'
  BY <1>1 DEF OldInv
<1>13. CreateInv'
  <2>1. 0 \in Vers /\ 1 \in Ids
    BY HtreeAssumption DEF Vers, Ids
  <2> QED BY <1>1, <1>2, <1>3, <1>7, <2>1 DEF CreateInv, ZeroTypes
<1>14. BlocksReadable'
  BY <1>2, <1>3 DEF BlocksReadable, ZeroTypes, Blocks
<1> QED BY <1>8, <1>9, <1>10, <1>11, <1>12, <1>13, <1>14 DEF Inv

\* The start of a sync.
LEMMA SyncKept ==
  ASSUME Inv, Sync
  PROVE  Inv'
<1>1. /\ TypeInv /\ HeadsInv /\ SavedInv /\ MemInv /\ OldInv /\ BlocksReadable
      /\ IsOpen /\ ht.dirty /\ pc = "idle" /\ pc' = "sync"
      /\ lookup = "hash" => saved \in {NoHash, dfh}
      /\ head' = head /\ node' = node /\ block' = block /\ ht' = ht /\ dfh' = dfh
      /\ lookup' = lookup /\ saved' = saved /\ ivs' = ivs /\ lost' = lost
  BY DEF Inv, Sync, Idle, disk
<1>2. /\ \A j : Loaded(j)' = Loaded(j) /\ Verified(j)' = Verified(j)
      /\ HeadIdx' = HeadIdx /\ Opens' = Opens
  BY <1>1, SameDisk
<1>3. TypeInv'
  <2>1. IsTree(ht)' /\ IsSize(ht)'
    BY <1>1 DEF TypeInv, IsSize, IsImage, IsTree
  <2> QED BY <1>1, <2>1 DEF TypeInv, IsHead, IsSize, IsImage, IsOpen
<1>4. HeadsInv' /\ SavedInv' /\ CreateInv'
  BY <1>1, <1>2 DEF HeadsInv, SavedInv, CreateInv
<1>5. ht.dirtyNodes # {} /\ ~Written /\ ~Written'
  BY <1>1 DEF MemInv, Written
<1>6. Current' = Current /\ Base' = Base /\ OldIds' = OldIds
  BY <1>1, <1>2 DEF Current, Base, OldIds
<1>7. MemInv'
  BY <1>1, <1>5, <1>6 DEF MemInv, CleanNodes, PlaceOf, IsOpen
<1>8. OldInv'
  <2>1. BaseInv /\ MovedInv /\ Differs
    BY <1>1 DEF OldInv
  <2>2. BaseInv'
    BY <1>1, <1>2, <1>5, <1>6, <2>1 DEF BaseInv
  <2>3. MovedInv'
    BY <1>1, <1>6, <2>1 DEF MovedInv, Moved
  <2>4. Differs'
    BY <1>1, <1>6, <2>1 DEF Differs
  <2> QED BY <1>1, <2>2, <2>3, <2>4 DEF OldInv
<1>9. BlocksReadable'
  BY <1>1, <1>2 DEF BlocksReadable, Readable, IsOpen
<1> QED BY <1>3, <1>4, <1>7, <1>8, <1>9 DEF Inv

\* The dummy head is what was in its place.
LEMMA DummyHeadKept ==
  ASSUME Inv, DummyHead
  PROVE  Inv' /\ head' = head
<1>1. /\ TypeInv /\ HeadsInv /\ SavedInv /\ MemInv /\ OldInv /\ BlocksReadable
      /\ IsOpen /\ ~ht.dirty /\ saved = NoHash
      /\ pc = "dummy" /\ pc' = "idle" /\ head[0] = ZeroHead
      /\ node' = node /\ block' = block /\ ht' = ht /\ dfh' = dfh
      /\ lookup' = lookup /\ saved' = saved /\ ivs' = ivs /\ lost' = lost
  BY DEF Inv, DummyHead, CreateInv
<1>2. head' = head
  <2>1. head' = [head EXCEPT ![0] = ZeroHead] /\ head = [v \in Vers |-> head[v]]
    BY <1>1 DEF DummyHead, TypeInv
  <2> HIDE DEF ZeroHead
  <2> QED BY <1>1, <2>1
<1>3. /\ \A j : Loaded(j)' = Loaded(j) /\ Verified(j)' = Verified(j)
      /\ HeadIdx' = HeadIdx /\ Opens' = Opens
  BY <1>1, <1>2, SameDisk
<1>4. TypeInv'
  BY <1>1, <1>2 DEF TypeInv, IsHead, IsSize, IsImage, IsTree, IsOpen
<1>5. HeadsInv' /\ SavedInv' /\ CreateInv'
  BY <1>1, <1>2, <1>3 DEF HeadsInv, SavedInv, CreateInv
<1>6. ~Written /\ ~Written'
  BY <1>1 DEF Written
<1>7. Current' = Current /\ Base' = Base /\ OldIds' = OldIds
  BY <1>1, <1>2, <1>3 DEF Current, Base, OldIds
<1>8. MemInv'
  BY <1>1, <1>6, <1>7 DEF MemInv, CleanNodes, PlaceOf, IsOpen
<1>9. OldInv'
  <2>1. BaseInv
    BY <1>1 DEF OldInv
  <2>2. BaseInv'
    BY <1>1, <1>2, <1>3, <1>6, <1>7, <2>1 DEF BaseInv
  <2>3. GrownInv /\ \A id \in Ids : ~Moved(id)
    BY <1>1, CleanTree
  <2>4. GrownInv' /\ MovedInv'
    BY <1>1, <1>7, <2>3 DEF GrownInv, MovedInv, Moved
  <2> QED BY <1>1, <2>2, <2>4 DEF OldInv
<1>10. BlocksReadable'
  BY <1>1, <1>2, <1>3 DEF BlocksReadable, Readable, IsOpen
<1> QED BY <1>2, <1>4, <1>5, <1>8, <1>9, <1>10 DEF Inv

\* The change of the hash in the directory.
LEMMA SaveKept ==
  ASSUME Inv, Save
  PROVE  Inv' /\ Opens' /\ HeadIdx' = Current /\ Loaded(Current)' = ht
<1>1. /\ TypeInv /\ HeadsInv /\ SavedInv /\ MemInv /\ OldInv /\ BlocksReadable
      /\ IsOpen /\ ~ht.dirty /\ pc = "idle" /\ lookup = "hash" /\ saved' = dfh
      /\ head' = head /\ node' = node /\ block' = block /\ ht' = ht /\ dfh' = dfh
      /\ pc' = pc /\ lookup' = lookup /\ ivs' = ivs
      /\ lost' = {b \in lost : b < RoundUp(ht.length)}
  BY DEF Inv, Save, disk
<1>2. \A j : Loaded(j)' = Loaded(j) /\ Verified(j)' = Verified(j)
  BY <1>1, SameDisk
<1>3. TypeInv'
  BY <1>1 DEF TypeInv, IsHead, IsSize, IsImage, IsTree, IsOpen
<1>4. ~Written /\ ~Written'
  BY <1>1 DEF Written
<1>5. Current' = Current /\ Base' = Base /\ OldIds' = OldIds
  BY <1>1, <1>2 DEF Current, Base, OldIds
<1>6. BaseInv
  BY <1>1 DEF OldInv
<1>7. BaseInv'
  BY <1>1, <1>2, <1>4, <1>5, <1>6 DEF BaseInv
<1>8. /\ Current \in Vers /\ ht = Base /\ head[Current].length = ht.length
      /\ GrownInv /\ \A id \in Ids : ~Moved(id)
  BY <1>1, CleanTree
<1>9. HeadIdx' = Current
  <2>1. Found'
    BY FoundIs, PTL
  <2> QED BY <1>1, <1>5, <1>7, <1>8, <2>1 DEF Found
<1>10. Opens'
  BY <1>2, <1>6, <1>8, <1>9 DEF Opens, BaseInv, Vers
<1>11. HeadsInv' /\ SavedInv' /\ CreateInv'
  BY <1>1, <1>10 DEF HeadsInv, SavedInv, CreateInv
<1>12. MemInv'
  BY <1>1, <1>4, <1>5 DEF MemInv, CleanNodes, PlaceOf, IsOpen
<1>13. OldInv'
  <2>1. GrownInv' /\ MovedInv'
    BY <1>1, <1>5, <1>8 DEF GrownInv, MovedInv, Moved
  <2> QED BY <1>1, <1>7, <2>1 DEF OldInv
<1>14. Loaded(Current)' = ht
  BY <1>2, <1>5, <1>8 DEF Base
<1>15. BlocksReadable'
  <2>1. \A b \in Blocks \ lost : b < RoundUp(ht.length) => Readable(ht, b)
    BY <1>1 DEF BlocksReadable
  <2>2. ASSUME NEW b \in Blocks \ lost', b < RoundUp(ht.length)
        PROVE  Readable(ht, b)'
    BY <1>1, <2>1, <2>2 DEF Readable
  <2> QED BY <1>1, <1>5, <1>8, <1>9, <1>14, <2>2 DEF BlocksReadable
<1> QED BY <1>3, <1>7, <1>9, <1>10, <1>11, <1>12, <1>13, <1>14, <1>15 DEF Inv

\* A child has the number of its parent in its own.
LEMMA KidParent ==
  ASSUME NEW j \in Nat, NEW c \in Vers
  PROVE  Parent(2 * j + c) = j /\ Bit(2 * j + c) = c
BY DEF Parent, Bit, Vers

\* Nodes of two trees with the same fields and children have the same hash.
LEMMA SameHash ==
  ASSUME NEW m, NEW n, NEW max, NEW max2, NEW length, NEW length2, NEW id,
         m[id].blk = n[id].blk, m[id].ch = n[id].ch, m[id].seal = n[id].seal,
         id = 1 => length = length2,
         Kids(max, id) = Kids(max2, id),
         \A c \in Kids(max, id) : m[2 * id + c].hash = n[2 * id + c].hash
  PROVE  Hash(m, max, length, id) = Hash(n, max2, length2, id)
<1>1. [c \in Kids(max, id) |-> m[2 * id + c].hash]
        = [c \in Kids(max2, id) |-> n[2 * id + c].hash]
  OBVIOUS
<1>2. (IF id = 1 THEN length ELSE -1) = (IF id = 1 THEN length2 ELSE -1)
  OBVIOUS
<1> QED BY <1>1, <1>2 DEF Hash, Kids

\* While the directory has no other hash, what is found is what the tree came from.
OpensIff ==
  TypeInv /\ IsOpen /\ BaseInv /\ (lookup = "hash" => saved \in {NoHash, dfh}) =>
    /\ Opens <=> (lookup = "hash" => saved # NoHash)
    /\ Opens => HeadIdx = Current
\* It holds of every state.
LEMMA OpensIffIs == OpensIff
<1> SUFFICES ASSUME TypeInv, IsOpen, BaseInv, lookup = "hash" => saved \in {NoHash, dfh}
             PROVE  /\ Opens <=> (lookup = "hash" => saved # NoHash)
                    /\ Opens => HeadIdx = Current
  BY DEF OpensIff
<1>1. Current \in Vers
  BY OpenTypes
<1>2. Opens => (lookup = "hash" => saved # NoHash)
  BY OpensNeeds
<1>3. (lookup = "hash" => saved # NoHash) => HeadIdx = Current
  BY <1>1, FoundIs DEF Found, BaseInv
<1>4. (lookup = "hash" => saved # NoHash) => Opens
  BY <1>1, <1>3 DEF Opens, BaseInv, Vers
<1> QED BY <1>2, <1>3, <1>4

\* What a write of a block changes.
Written1(b) ==
  LET id == b + 1
  IN  /\ ht' = [counter |-> ht'.counter, max |-> ht'.max, length |-> ht'.length,
                nodes |-> ht'.nodes, dirtyNodes |-> ht'.dirtyNodes,
                updated |-> ht'.updated, dirty |-> ht'.dirty]
      /\ ht'.counter = ht.counter /\ ht'.dirty \in BOOLEAN /\ ht'.dirty
      /\ ht'.max \in 0..MaxNodes /\ ht'.length \in 0..(2 * MaxNodes)
      /\ TreeIds(ht'.max) = TreeIds(ht.max) \cup {id}
      /\ ht'.length # ht.length => 1 \in ht'.dirtyNodes
      /\ \A c \in Blocks : c < RoundUp(ht'.length) => c = b \/ c < RoundUp(ht.length)
      /\ ht'.dirtyNodes = ht.dirtyNodes \cup {id} \cup (ht'.dirtyNodes \cap {1})
      /\ ht'.updated = ht.updated \cup {id}
      /\ ht'.nodes = [j \in Ids |-> ht'.nodes[j]]
      /\ \A j \in Ids : j # id => ht'.nodes[j] = ht.nodes[j]
      /\ ht'.nodes[id] = [blk |-> Place(id), ch |-> ht.nodes[id].ch,
                          seal |-> ivs + 1, hash |-> ht.nodes[id].hash]

\* It changes that.
LEMMA WriteBlockDoes ==
  ASSUME TypeInv, NEW b \in Blocks, WriteBlock(b)
  PROVE  b + 1 \in Ids /\ Place(b + 1) \in Vers /\ Written1(b)
<1> DEFINE id == b + 1
           length == IF ht.length < 2 * id THEN 2 * id ELSE ht.length
<1>1. /\ IsOpen /\ IsTree(ht) /\ IsSize(ht)
      /\ b <= RoundUp(ht.length)
  BY DEF WriteBlock, Idle, TypeInv
<1>2. id \in Ids /\ b \in Nat /\ MaxNodes \in Nat
  BY HtreeAssumption DEF Ids, Blocks
<1>3. IsImage(ht.nodes[id]) /\ Place(id) \in Vers
  <2>1. IsImage(ht.nodes[id])
    BY <1>1, <1>2 DEF IsTree
  <2>2. ht.nodes[id].blk \in Vers
    BY <2>1 DEF IsImage
  <2> QED BY <2>1, <2>2 DEF Place, Flip, Vers
<1>4. ht' = [ht EXCEPT !.max = IF id \in TreeIds(ht.max) THEN ht.max ELSE id,
                       !.length = length,
                       !.nodes[id].blk = Place(id),
                       !.nodes[id].seal = ivs + 1,
                       !.updated = ht.updated \cup {id},
                       !.dirtyNodes = ht.dirtyNodes \cup {id}
                           \cup (IF length # ht.length THEN {1} ELSE {}),
                       !.dirty = TRUE]
  BY DEF WriteBlock
<1>5. /\ ht' = [counter |-> ht'.counter, max |-> ht'.max, length |-> ht'.length,
                nodes |-> ht'.nodes, dirtyNodes |-> ht'.dirtyNodes,
                updated |-> ht'.updated, dirty |-> ht'.dirty]
      /\ ht'.counter = ht.counter
      /\ ht'.max = IF id \in TreeIds(ht.max) THEN ht.max ELSE id
      /\ ht'.length = length
      /\ ht'.nodes = [[ht.nodes EXCEPT ![id].blk = Place(id)]
                         EXCEPT ![id].seal = ivs + 1]
      /\ ht'.updated = ht.updated \cup {id}
      /\ ht'.dirtyNodes = ht.dirtyNodes \cup {id}
                           \cup (IF length # ht.length THEN {1} ELSE {})
      /\ ht'.dirty = TRUE
  <2> HIDE DEF id, length
  <2> QED BY <1>1, <1>4 DEF IsTree
<1>6. /\ ht'.nodes = [j \in Ids |-> ht'.nodes[j]]
      /\ \A j \in Ids : j # id => ht'.nodes[j] = ht.nodes[j]
      /\ ht'.nodes[id] = [blk |-> Place(id), ch |-> ht.nodes[id].ch,
                          seal |-> ivs + 1, hash |-> ht.nodes[id].hash]
  <2> HIDE DEF id, length
  <2>1. ht.nodes = [j \in Ids |-> ht.nodes[j]]
    BY <1>1 DEF IsTree
  <2>2. ht.nodes[id] = [blk |-> ht.nodes[id].blk, ch |-> ht.nodes[id].ch,
                        seal |-> ht.nodes[id].seal, hash |-> ht.nodes[id].hash]
    BY <1>3 DEF IsImage
  <2> QED BY <1>2, <1>5, <2>1, <2>2
<1>7. TreeIds(ht'.max) = TreeIds(ht.max) \cup {id} /\ ht'.max \in 0..MaxNodes
  <2>1. id \in TreeIds(ht.max) \/ id = 1 \/ b \in TreeIds(ht.max)
    <3>1. CASE b < RoundUp(ht.length)
      BY <1>1, <3>1 DEF IsSize
    <3>2. CASE b = RoundUp(ht.length) /\ b # 0
      <4>1. b - 1 \in Blocks /\ b - 1 < RoundUp(ht.length)
        BY <1>2, <3>2, HtreeAssumption DEF Blocks
      <4> QED BY <1>1, <1>2, <4>1 DEF IsSize
    <3>3. RoundUp(ht.length) \in Int
      BY <1>1 DEF IsSize, RoundUp
    <3> QED BY <1>1, <1>2, <3>1, <3>2, <3>3
  <2> QED BY <1>1, <1>2, <1>5, <2>1 DEF IsSize, TreeIds, Ids
<1>8. ht'.length \in 0..(2 * MaxNodes)
  BY <1>1, <1>2, <1>5 DEF IsSize, Ids
<1>9. ASSUME NEW c \in Blocks, c < RoundUp(ht'.length)
      PROVE  c = b \/ c < RoundUp(ht.length)
  BY <1>1, <1>2, <1>5, <1>9 DEF IsSize, RoundUp, Blocks
<1>10. /\ ht'.length # ht.length => 1 \in ht'.dirtyNodes
       /\ ht'.dirtyNodes = ht.dirtyNodes \cup {id} \cup (ht'.dirtyNodes \cap {1})
  BY <1>5
<1>11. ht'.dirty \in BOOLEAN /\ ht'.dirty
  BY <1>5
<1> HIDE DEF id, length
<1> QED BY <1>2, <1>3, <1>5, <1>6, <1>7, <1>8, <1>9, <1>10, <1>11 DEF Written1, id

\* A write of a block.
LEMMA WriteBlockKept ==
  ASSUME Inv, NEW b \in Blocks, WriteBlock(b)
  PROVE  Inv'
<1> DEFINE id == b + 1
           v == Place(id)
<1>1. /\ TypeInv /\ HeadsInv /\ SavedInv /\ MemInv /\ OldInv /\ BlocksReadable
      /\ IsOpen /\ IsTree(ht) /\ IsSize(ht) /\ pc = "idle"
      /\ lookup = "hash" => saved \in {NoHash, dfh}
      /\ ivs \in Nat /\ ivs < MaxWrites /\ ivs' = ivs + 1
      /\ block' = [block EXCEPT ![b][v] = ivs + 1]
      /\ head' = head /\ node' = node /\ pc' = pc /\ dfh' = dfh
      /\ lookup' = lookup /\ saved' = saved /\ lost' = lost
  BY HtreeAssumption DEF Inv, WriteBlock, Idle, TypeInv
<1>2. id \in Ids /\ v \in Vers /\ Written1(b)
  BY <1>1, WriteBlockDoes
<1>3. /\ \A j : Loaded(j)' = Loaded(j) /\ Verified(j)' = Verified(j)
      /\ HeadIdx' = HeadIdx /\ Opens' = Opens
  BY <1>1, SameDisk
<1>4. BaseInv /\ MovedInv /\ GrownInv
  BY <1>1 DEF OldInv
<1>5. Current \in Vers /\ Current' = Current /\ Base' = Base /\ OldIds' = OldIds
  BY <1>1, <1>2, <1>3 DEF Current, Base, OldIds, Written1, IsTree, Vers
<1>6. /\ IsTree(Base) /\ Base.nodes = Loaded(Current).nodes
      /\ Base.max = head[Current].max /\ Base.length = head[Current].length
      /\ OldIds \subseteq Ids /\ TreeIds(ht.max) \subseteq Ids
  BY <1>1, OpenTypes DEF Base
<1> HIDE DEF id, v
<1>7. id = b + 1 /\ v = Place(id)
  BY DEF id, v
<1>8. IsOpen'
  BY <1>2, TreeIsOpen DEF Written1, IsOpen
<1>9. TypeInv'
  <2>1. \A x : IsImage(x) => IsImage(x)'
    BY <1>1 DEF IsImage
  <2>2. IsTree(ht)'
    <3>1. ASSUME NEW j \in Ids PROVE IsImage(ht.nodes[j])'
      <4>1. CASE j # id
        BY <1>1, <1>2, <1>7, <2>1, <4>1 DEF Written1, IsTree
      <4>2. CASE j = id
        <5>1. ht'.nodes[id] = [blk |-> v, ch |-> ht.nodes[id].ch,
                               seal |-> ivs + 1, hash |-> ht.nodes[id].hash]
          BY <1>2, <1>7 DEF Written1
        <5>2. ht.nodes[id].ch \in [Vers -> Vers]
          BY <1>1, <1>2 DEF IsTree, IsImage
        <5> QED BY <1>1, <1>2, <4>2, <5>1, <5>2 DEF IsImage
      <4> QED BY <4>1, <4>2
    <3>2. ASSUME NEW j \in Ids \ TreeIds(ht'.max) PROVE ht'.nodes[j] = ZeroNode
      BY <1>1, <1>2, <1>7 DEF Written1, IsTree
    <3>3. ht'.dirtyNodes \subseteq TreeIds(ht'.max) /\ ht'.updated \subseteq ht'.dirtyNodes
      <4>1. 1 \in TreeIds(ht.max)
        BY <1>1, TreeIdsAre DEF IsSize
      <4> QED BY <1>1, <1>2, <1>7, <4>1 DEF Written1, IsTree
    <3>4. ht'.counter \in Nat /\ ht'.dirty \in BOOLEAN
      BY <1>1, <1>2 DEF Written1, IsTree
    <3> QED BY <1>2, <3>1, <3>2, <3>3, <3>4 DEF Written1, IsTree
  <2>3. IsSize(ht)'
    BY <1>1, <1>2 DEF Written1, IsSize
  <2>4. block' \in [Blocks -> [Vers -> 0..ivs']]
    BY <1>1, <1>2 DEF TypeInv
  <2>5. ivs' \in 0..MaxWrites
    BY <1>1, HtreeAssumption
  <2>6. \A j \in Ids, w \in Vers : IsImage(node[j][w])'
    BY <1>1, <2>1 DEF TypeInv
  <2> QED BY <1>1, <1>8, <2>2, <2>3, <2>4, <2>5, <2>6 DEF TypeInv, IsHead, IsSize
<1>10. HeadsInv' /\ SavedInv' /\ CreateInv'
  BY <1>1, <1>3 DEF HeadsInv, SavedInv, CreateInv
<1>11. ~Written /\ ~Written'
  BY <1>1 DEF Written
<1>12. MemInv'
  <2>1. ASSUME NEW j \in TreeIds(ht'.max), j \notin ht'.dirtyNodes
        PROVE  node'[j][PlaceOf(j)'] = ht'.nodes[j]
    <3>1. j \in TreeIds(ht.max) /\ j \notin ht.dirtyNodes /\ j # id /\ j \in Ids
      BY <1>2, <1>6, <1>7, <2>1 DEF Written1
    <3>2. node[j][PlaceOf(j)] = ht.nodes[j] /\ ht'.nodes[j] = ht.nodes[j]
      BY <1>1, <1>2, <1>7, <3>1 DEF Written1, MemInv, CleanNodes
    <3>3. j # 1 => ht'.nodes[Parent(j)].ch = ht.nodes[Parent(j)].ch
      BY <1>2, <1>7, <3>1, ParentBefore DEF Written1
    <3>4. PlaceOf(j)' = PlaceOf(j)
      BY <1>5, <1>11, <3>3 DEF PlaceOf
    <3> QED BY <1>1, <3>2, <3>4
  <2>2. ASSUME NEW j \in TreeIds(ht'.max), j \notin ht'.dirtyNodes,
               ~\E d \in ht'.dirtyNodes : d # 1 /\ Parent(d) = j
        PROVE  ht'.nodes[j].hash = Hash(ht'.nodes, ht'.max, ht'.length, j)
    <3>1. /\ j \in TreeIds(ht.max) /\ j \notin ht.dirtyNodes /\ j # id /\ j \in Ids
          /\ ht.dirtyNodes \subseteq ht'.dirtyNodes /\ id \in ht'.dirtyNodes
      BY <1>2, <1>6, <1>7, <2>2 DEF Written1
    <3>2. ht.nodes[j].hash = Hash(ht.nodes, ht.max, ht.length, j)
      BY <1>1, <2>2, <3>1 DEF MemInv, CleanNodes
    <3>3. \A c \in Vers : 2 * j + c # id
      BY <2>2, <3>1, KidParent DEF Ids, Vers
    <3>4. Kids(ht'.max, j) = Kids(ht.max, j)
      BY <1>2, <1>7, <3>3 DEF Kids, Written1
    <3>5. \A c \in Kids(ht.max, j) : ht'.nodes[2 * j + c].hash = ht.nodes[2 * j + c].hash
      BY <1>2, <1>6, <1>7, <3>3 DEF Kids, Written1
    <3>6. j = 1 => ht'.length = ht.length
      BY <1>2, <2>2 DEF Written1
    <3>7. ht'.nodes[j] = ht.nodes[j]
      BY <1>2, <1>7, <3>1 DEF Written1
    <3>8. Hash(ht'.nodes, ht'.max, ht'.length, j) = Hash(ht.nodes, ht.max, ht.length, j)
      BY <3>4, <3>5, <3>6, <3>7, SameHash
    <3> QED BY <3>2, <3>7, <3>8
  <2>3. CleanNodes'
    BY <2>1, <2>2 DEF CleanNodes
  <2> QED BY <1>1, <1>2, <2>3 DEF MemInv, Written1
<1>13. OldInv'
  <2>1. BaseInv'
    BY <1>1, <1>2, <1>3, <1>4, <1>5, <1>11 DEF BaseInv, Written1
  <2>2. ASSUME NEW j \in Ids, Moved(j)' PROVE FALSE
    <3>1. j \in OldIds /\ j # 1 /\ j \in TreeIds(ht.max)
      BY <1>4, <1>5, <2>2 DEF Moved, GrownInv
    <3>2. ht'.nodes[Parent(j)].ch = ht.nodes[Parent(j)].ch
      BY <1>2, <1>7, <3>1, ParentBefore DEF Written1
    <3>3. Moved(j)
      BY <1>5, <2>2, <3>1, <3>2 DEF Moved
    <3> QED BY <1>1, <1>4, <3>3 DEF MovedInv
  <2>3. Differs'
    <3>1. id \in OldIds => Base.nodes[id].seal \in 0..ivs
      BY <1>2, <1>6 DEF IsTree, IsImage
    <3>2. ht'.nodes[id].seal = ivs + 1 /\ id \in TreeIds(ht'.max)
      BY <1>2, <1>7 DEF Written1
    <3> QED BY <1>1, <1>5, <3>1, <3>2 DEF Differs
  <2>4. GrownInv'
    <3>1. OldIds' \subseteq TreeIds(ht'.max)
      BY <1>2, <1>4, <1>5 DEF GrownInv, Written1
    <3>2. ASSUME NEW j \in OldIds
          PROVE  IF j \in ht'.updated THEN ht'.nodes[j].blk # Base.nodes[j].blk
                 ELSE /\ ht'.nodes[j].blk = Base.nodes[j].blk
                      /\ ht'.nodes[j].seal = Base.nodes[j].seal
      <4>1. CASE j = id
        <5>1. ht'.nodes[id].blk = v /\ id \in ht'.updated
          BY <1>2, <1>7 DEF Written1
        <5>2. ht.nodes[id].blk \in Vers
          BY <1>1, <1>2 DEF IsTree, IsImage
        <5>3. v # Base.nodes[id].blk
          BY <1>4, <1>7, <3>2, <4>1, <5>2 DEF GrownInv, Place, Flip, Vers
        <5> QED BY <4>1, <5>1, <5>3
      <4>2. CASE j # id
        BY <1>2, <1>4, <1>6, <1>7, <3>2, <4>2 DEF GrownInv, Written1
      <4> QED BY <4>1, <4>2
    <3> QED BY <1>5, <3>1, <3>2 DEF GrownInv
  <2> QED BY <2>1, <2>2, <2>3, <2>4 DEF OldInv, MovedInv
<1>14. BlocksReadable'
  <2>1. block'[b][v] = ivs + 1 /\ \A w \in Vers : w # v => block'[b][w] = block[b][w]
    BY <1>1, <1>2 DEF TypeInv
  <2>2. \A c \in Blocks : c # b => block'[c] = block[c]
    BY <1>1 DEF TypeInv
  <2>3. ASSUME NEW c \in Blocks \ lost, c < RoundUp(ht'.length)
        PROVE  Readable(ht, c)'
    <3>1. CASE c = b
      BY <1>1, <1>2, <1>7, <2>1, <3>1 DEF Readable, Written1
    <3>2. CASE c # b
      <4>1. c < RoundUp(ht.length) /\ c + 1 # id /\ c + 1 \in Ids
        BY <1>2, <1>7, <2>3, <3>2, HtreeAssumption DEF Written1, Blocks, Ids
      <4>2. Readable(ht, c)
        BY <1>1, <4>1 DEF BlocksReadable
      <4>3. ht'.nodes[c + 1] = ht.nodes[c + 1]
        BY <1>2, <1>7, <4>1 DEF Written1
      <4> QED BY <2>2, <3>2, <4>2, <4>3 DEF Readable
    <3> QED BY <3>1, <3>2
  <2>4. ASSUME Opens, NEW c \in Blocks \ lost, c < RoundUp(head[HeadIdx].length)
        PROVE  Readable(Loaded(HeadIdx), c)'
    <3>1. HeadIdx = Current
      BY <1>1, <1>4, <2>4, OpensIffIs DEF OpensIff
    <3>2. Readable(Base, c)
      BY <1>1, <2>4, <3>1 DEF BlocksReadable, Base
    <3>3. CASE c # b
      BY <1>3, <1>5, <2>2, <3>1, <3>2, <3>3 DEF Readable, Base
    <3>4. CASE c = b
      <4>1. id \in OldIds
        BY <1>1, <1>5, <1>7, <2>4, <3>1, <3>4 DEF TypeInv, IsSize, OldIds
      <4>2. Base.nodes[id].blk # v /\ Base.nodes[id].blk \in Vers
        <5>1. ht.nodes[id].blk \in Vers
          BY <1>1, <1>2 DEF IsTree, IsImage
        <5>2. Base.nodes[id].blk \in Vers
          BY <1>2, <1>6 DEF IsTree, IsImage
        <5> QED BY <1>4, <1>7, <4>1, <5>1, <5>2 DEF GrownInv, Place, Flip, Vers
      <4>3. block'[b][Base.nodes[id].blk] = block[b][Base.nodes[id].blk]
        BY <2>1, <4>2
      <4> QED BY <1>3, <1>5, <1>7, <3>1, <3>2, <3>4, <4>3 DEF Readable, Base
    <3> QED BY <3>3, <3>4
  <2> QED BY <1>1, <1>3, <2>3, <2>4 DEF BlocksReadable
<1> QED BY <1>9, <1>10, <1>12, <1>13, <1>14 DEF Inv

\* What a truncate of a clean tree changes.
Truncated(length) ==
  LET keep == length \div 2 + 1
  IN  /\ ht' = [counter |-> ht'.counter, max |-> ht'.max, length |-> ht'.length,
                nodes |-> ht'.nodes, dirtyNodes |-> ht'.dirtyNodes,
                updated |-> ht'.updated, dirty |-> ht'.dirty]
      /\ ht'.counter = ht.counter /\ ht'.dirty \in BOOLEAN /\ ht'.dirty
      /\ ht'.max \in 0..MaxNodes /\ ht'.length = length
      /\ TreeIds(ht'.max) = {id \in TreeIds(ht.max) : id <= keep}
      /\ ht'.dirtyNodes = {1} /\ ht'.updated = {}
      /\ ht'.nodes = [j \in Ids |-> IF j > keep THEN ZeroNode ELSE ht.nodes[j]]

\* It changes that.
LEMMA TruncateDoes ==
  ASSUME TypeInv, MemInv, NEW length \in Lengths, Truncate(length)
  PROVE  Truncated(length)
<1> DEFINE keep == length \div 2 + 1
           gone == {id \in Ids : id > keep}
<1>1. IsOpen /\ IsTree(ht) /\ IsSize(ht) /\ ~ht.dirty
  BY DEF Truncate, Idle, TypeInv
<1>2. ht.dirtyNodes = {} /\ ht.updated = {}
  BY <1>1, CleanTree
<1>3. keep \in Nat /\ keep >= 1 /\ MaxNodes \in Nat
  BY HtreeAssumption
<1>4. ht' = [ht EXCEPT !.max = IF keep < ht.max THEN keep ELSE ht.max,
                       !.length = length,
                       !.nodes = [id \in Ids |-> IF id \in gone THEN ZeroNode
                                                 ELSE ht.nodes[id]],
                       !.updated = ht.updated \ gone,
                       !.dirtyNodes = (ht.dirtyNodes \ gone) \cup {1},
                       !.dirty = TRUE]
  BY DEF Truncate
<1>5. /\ ht' = [counter |-> ht'.counter, max |-> ht'.max, length |-> ht'.length,
                nodes |-> ht'.nodes, dirtyNodes |-> ht'.dirtyNodes,
                updated |-> ht'.updated, dirty |-> ht'.dirty]
      /\ ht'.counter = ht.counter
      /\ ht'.max = IF keep < ht.max THEN keep ELSE ht.max
      /\ ht'.length = length
      /\ ht'.nodes = [id \in Ids |-> IF id \in gone THEN ZeroNode ELSE ht.nodes[id]]
      /\ ht'.updated = ht.updated \ gone
      /\ ht'.dirtyNodes = (ht.dirtyNodes \ gone) \cup {1}
      /\ ht'.dirty = TRUE
  <2> HIDE DEF keep, gone
  <2> QED BY <1>1, <1>4 DEF IsTree
<1>6. ht'.nodes = [j \in Ids |-> IF j > keep THEN ZeroNode ELSE ht.nodes[j]]
  <2>1. \A j \in Ids : j \in gone <=> j > keep
    OBVIOUS
  <2> HIDE DEF keep, gone
  <2> QED BY <1>5, <2>1
<1>7. /\ TreeIds(ht'.max) = {id \in TreeIds(ht.max) : id <= keep}
      /\ ht'.max \in 0..MaxNodes
  <2> HIDE DEF keep
  <2> QED BY <1>1, <1>3, <1>5 DEF TreeIds, IsSize
<1>8. ht'.dirtyNodes = {1} /\ ht'.updated = {}
  BY <1>2, <1>5
<1>9. ht'.dirty \in BOOLEAN /\ ht'.dirty
  BY <1>5
<1> QED BY <1>5, <1>6, <1>7, <1>8, <1>9 DEF Truncated

\* A truncate.
LEMMA TruncateKept ==
  ASSUME Inv, NEW length \in Lengths, Truncate(length), CleanCut(length)
  PROVE  Inv'
<1> DEFINE keep == length \div 2 + 1
           cut == RoundUp(length) + 1
<1>1. /\ TypeInv /\ HeadsInv /\ SavedInv /\ MemInv /\ OldInv /\ BlocksReadable
      /\ IsOpen /\ ~ht.dirty /\ pc = "idle" /\ pc' = "sync"
      /\ length < ht.length
      /\ lookup = "hash" => saved \in {NoHash, dfh}
      /\ block' = [b \in Blocks |-> IF b < cut THEN block[b] ELSE NoBlock]
      /\ lost' = lost \cup {b \in Blocks : cut <= b /\ block[b] # NoBlock}
      /\ head' = head /\ node' = node /\ dfh' = dfh
      /\ lookup' = lookup /\ saved' = saved /\ ivs' = ivs
  BY DEF Inv, Truncate, Idle, CleanCut
<1>2. Truncated(length)
  BY <1>1, TruncateDoes
<1>3. /\ \A j : Loaded(j)' = Loaded(j) /\ Verified(j)' = Verified(j)
      /\ HeadIdx' = HeadIdx /\ Opens' = Opens
  BY <1>1, SameDisk
<1>4. /\ ht = Base /\ ht.nodes = Base.nodes /\ OldIds = TreeIds(ht.max)
      /\ head[Current].length = ht.length /\ ht.dirtyNodes = {}
  BY <1>1, CleanTree
<1>5. /\ IsTree(ht) /\ IsSize(ht) /\ Current \in Vers
      /\ TreeIds(ht.max) \subseteq Ids /\ 1 \in TreeIds(ht.max)
  BY <1>1, OpenTypes
<1>6. Current' = Current /\ Base' = Base /\ OldIds' = OldIds
  BY <1>1, <1>2, <1>3 DEF Current, Base, OldIds, Truncated
<1>7. /\ keep \in Nat /\ keep >= 1 /\ MaxNodes \in Nat
      /\ length \in Nat /\ length <= 2 * MaxNodes
      /\ RoundUp(length) \in Nat /\ RoundUp(length) <= keep /\ cut = RoundUp(length) + 1
      /\ RoundUp(length) <= RoundUp(ht.length)
  BY <1>1, <1>5, HtreeAssumption DEF RoundUp, IsSize
<1>8. /\ TreeIds(ht'.max) = {id \in TreeIds(ht.max) : id <= keep}
      /\ ht'.nodes = [j \in Ids |-> IF j > keep THEN ZeroNode ELSE ht.nodes[j]]
      /\ \A id \in Ids : id \in TreeIds(ht.max) /\ id > keep /\ Parent(id) <= keep =>
           Parent(id) = 1
  BY <1>2 DEF Truncated, CleanCut
<1> HIDE DEF keep, cut
<1>9. \A j \in TreeIds(ht'.max) : /\ j \in TreeIds(ht.max) /\ j \in Ids
                                  /\ ht'.nodes[j] = ht.nodes[j]
  BY <1>5, <1>7, <1>8 DEF Ids
<1>10. \A j \in TreeIds(ht'.max) : j # 1 => Parent(j) \in TreeIds(ht'.max)
  BY <1>2, TreeIdsAre DEF Truncated
<1>11. IsOpen'
  BY <1>2, TreeIsOpen DEF Truncated, IsOpen
<1>12. TypeInv'
  <2>1. \A x : IsImage(x) => IsImage(x)'
    BY <1>1 DEF IsImage
  <2>2. IsTree(ht)'
    <3>1. ASSUME NEW j \in Ids PROVE IsImage(ht.nodes[j])'
      <4>1. IsImage(ZeroNode)
        BY <1>1 DEF IsImage, ZeroNode, Vers, TypeInv
      <4>2. IsImage(ht.nodes[j])
        BY <1>5 DEF IsTree
      <4> QED BY <1>8, <2>1, <4>1, <4>2
    <3>2. ASSUME NEW j \in Ids \ TreeIds(ht'.max) PROVE ht'.nodes[j] = ZeroNode
      <4>1. CASE j > keep
        BY <1>8, <4>1
      <4>2. CASE ~(j > keep)
        <5>1. j \notin TreeIds(ht.max)
          BY <1>7, <1>8, <3>2, <4>2 DEF Ids
        <5> QED BY <1>5, <1>8, <3>2, <4>2, <5>1 DEF IsTree
      <4> QED BY <4>1, <4>2
    <3>3. ht'.nodes = [j \in Ids |-> ht'.nodes[j]]
      BY <1>8
    <3>4. 1 \in TreeIds(ht'.max)
      BY <1>5, <1>7, <1>8
    <3>5. /\ ht'.dirtyNodes \subseteq TreeIds(ht'.max)
          /\ ht'.updated \subseteq ht'.dirtyNodes
      BY <1>2, <3>4 DEF Truncated
    <3> QED BY <1>2, <1>5, <3>1, <3>2, <3>3, <3>5 DEF Truncated, IsTree
  <2>3. IsSize(ht)'
    <3>1. ASSUME NEW b \in Blocks, b < RoundUp(ht'.length)
          PROVE  b + 1 \in TreeIds(ht'.max)
      <4>1. b < RoundUp(length) /\ b \in Nat
        BY <1>2, <3>1 DEF Truncated, Blocks
      <4>2. RoundUp(ht.length) \in Int
        BY <1>5 DEF RoundUp, IsSize
      <4>3. b < RoundUp(ht.length) /\ b + 1 <= keep
        BY <1>7, <4>1, <4>2
      <4> QED BY <1>5, <1>8, <4>3 DEF IsSize
    <3> QED BY <1>2, <1>7, <3>1 DEF Truncated, IsSize
  <2>4. block' \in [Blocks -> [Vers -> 0..ivs]]
    <3>1. NoBlock \in [Vers -> 0..ivs]
      BY <1>1 DEF TypeInv, NoBlock
    <3> QED BY <1>1, <3>1 DEF TypeInv
  <2> QED BY <1>1, <1>11, <2>1, <2>2, <2>3, <2>4 DEF TypeInv, IsHead, IsSize
<1>13. HeadsInv' /\ SavedInv' /\ CreateInv'
  BY <1>1, <1>3 DEF HeadsInv, SavedInv, CreateInv
<1>14. ~Written /\ ~Written'
  BY <1>1, <1>2 DEF Written, Truncated
<1>15. MemInv'
  <2>1. ASSUME NEW j \in TreeIds(ht'.max), j \notin ht'.dirtyNodes
        PROVE  /\ node'[j][PlaceOf(j)'] = ht'.nodes[j]
               /\ ht'.nodes[j].hash = Hash(ht'.nodes, ht'.max, ht'.length, j)
    <3>1. /\ j # 1 /\ j \in TreeIds(ht.max) /\ j \in Ids /\ ht'.nodes[j] = ht.nodes[j]
          /\ Parent(j) \in TreeIds(ht'.max)
      BY <1>2, <1>9, <1>10, <2>1 DEF Truncated
    <3>2. PlaceOf(j)' = PlaceOf(j)
      BY <1>9, <3>1 DEF PlaceOf
    <3>3. /\ node[j][PlaceOf(j)] = ht.nodes[j]
          /\ ht.nodes[j].hash = Hash(ht.nodes, ht.max, ht.length, j)
      BY <1>1, <1>4, <3>1 DEF MemInv, CleanNodes
    <3>4. ASSUME NEW c \in Kids(ht.max, j) PROVE 2 * j + c \in TreeIds(ht'.max)
      <4>1. c \in Vers /\ 2 * j + c \in TreeIds(ht.max)
        BY DEF Kids
      <4>2. Parent(2 * j + c) = j
        BY <3>1, <4>1, KidParent DEF Ids
      <4>3. j <= keep
        BY <1>8, <2>1
      <4>4. ~(2 * j + c > keep)
        BY <1>5, <1>8, <3>1, <4>1, <4>2, <4>3
      <4>5. 2 * j + c \in Int
        BY <3>1, <4>1 DEF Ids, Vers
      <4> QED BY <1>7, <1>8, <4>1, <4>4, <4>5
    <3>5. Kids(ht'.max, j) = Kids(ht.max, j)
      BY <1>8, <3>4 DEF Kids
    <3>6. \A c \in Kids(ht.max, j) : ht'.nodes[2 * j + c].hash = ht.nodes[2 * j + c].hash
      BY <1>9, <3>4
    <3>7. Hash(ht'.nodes, ht'.max, ht'.length, j) = Hash(ht.nodes, ht.max, ht.length, j)
      BY <3>1, <3>5, <3>6, SameHash
    <3> QED BY <1>1, <3>1, <3>2, <3>3, <3>7
  <2>2. CleanNodes'
    BY <2>1 DEF CleanNodes
  <2> QED BY <1>1, <1>2, <2>2 DEF MemInv, Truncated
<1>16. OldInv'
  <2>0. BaseInv
    BY <1>1 DEF OldInv
  <2>1. BaseInv'
    BY <1>1, <1>2, <1>3, <1>6, <1>14, <2>0 DEF BaseInv, Truncated
  <2>2. ASSUME NEW j \in Ids, Moved(j)' PROVE FALSE
    <3>1. j # 1 /\ j \in TreeIds(ht'.max)
      BY <2>2 DEF Moved
    <3> QED BY <1>4, <1>6, <1>9, <1>10, <2>2, <3>1 DEF Moved
  <2>3. Differs'
    <3>1. ht'.length # Base.length
      BY <1>1, <1>2, <1>4, <1>7, <1>5 DEF Truncated, IsSize
    <3> QED BY <1>6, <3>1 DEF Differs
  <2> QED BY <1>1, <2>1, <2>2, <2>3 DEF OldInv, MovedInv
<1>17. BlocksReadable'
  <2>1. ASSUME NEW b \in Blocks \ lost', b < RoundUp(ht'.length)
        PROVE  Readable(ht, b)'
    <3>1. b < RoundUp(length) /\ b \in Nat /\ b \notin lost
      BY <1>1, <1>2, <2>1 DEF Truncated, Blocks
    <3>2. RoundUp(ht.length) \in Int
      BY <1>5 DEF RoundUp, IsSize
    <3>3. b < RoundUp(ht.length) /\ b + 1 <= keep /\ b < cut
      BY <1>7, <3>1, <3>2
    <3>4. Readable(ht, b)
      BY <1>1, <2>1, <3>1, <3>3 DEF BlocksReadable
    <3>5. b + 1 \in TreeIds(ht'.max)
      BY <1>5, <1>8, <3>3 DEF IsSize
    <3>6. block'[b] = block[b] /\ ht'.nodes[b + 1] = ht.nodes[b + 1]
      BY <1>1, <1>9, <3>3, <3>5
    <3> QED BY <3>4, <3>6 DEF Readable
  <2>2. ASSUME Opens, NEW b \in Blocks \ lost', b < RoundUp(head[HeadIdx].length)
        PROVE  Readable(Loaded(HeadIdx), b)'
    <3>1. HeadIdx = Current
      <4>1. BaseInv
        BY <1>1 DEF OldInv
      <4> QED BY <1>1, <2>2, <4>1, OpensIffIs DEF OpensIff
    <3>2. Readable(ht, b)
      BY <1>1, <1>4, <2>2, <3>1 DEF BlocksReadable, Base
    <3>3. block'[b] = block[b]
      <4>1. CASE b < cut
        BY <1>1, <4>1
      <4>2. CASE ~(b < cut)
        <5>1. block[b] = NoBlock
          BY <1>1, <1>7, <2>2, <4>2 DEF Blocks
        <5> QED BY <1>1, <4>2, <5>1
      <4> QED BY <4>1, <4>2
    <3>4. Loaded(HeadIdx)' = ht
      BY <1>3, <1>4, <3>1 DEF Base
    <3> QED BY <3>2, <3>3, <3>4 DEF Readable
  <2> QED BY <1>1, <1>3, <2>1, <2>2 DEF BlocksReadable
<1> QED BY <1>12, <1>13, <1>15, <1>16, <1>17 DEF Inv

\* What the write of a node changes.
Synced(id, v) ==
  LET up == Parent(id)
      image == [blk |-> ht.nodes[id].blk, ch |-> ht.nodes[id].ch,
                seal |-> ht.nodes[id].seal,
                hash |-> Hash(ht.nodes, ht.max, ht.length, id)]
  IN  /\ ht' = [counter |-> ht'.counter, max |-> ht'.max, length |-> ht'.length,
                nodes |-> ht'.nodes, dirtyNodes |-> ht'.dirtyNodes,
                updated |-> ht'.updated, dirty |-> ht'.dirty]
      /\ ht'.counter = ht.counter /\ ht'.max = ht.max /\ ht'.length = ht.length
      /\ ht'.dirty = ht.dirty
      /\ ht'.dirtyNodes = (ht.dirtyNodes \ {id}) \cup (IF id = 1 THEN {} ELSE {up})
      /\ ht'.updated = ht.updated \ {id}
      /\ ht'.nodes = [j \in Ids |-> ht'.nodes[j]]
      /\ ht'.nodes[id] = image
      /\ \A j \in Ids : j # id /\ (id # 1 => j # up) => ht'.nodes[j] = ht.nodes[j]
      /\ id # 1 =>
           ht'.nodes[up] = [blk |-> ht.nodes[up].blk,
                            ch |-> [ht.nodes[up].ch EXCEPT ![Bit(id)] = v],
                            seal |-> ht.nodes[up].seal, hash |-> ht.nodes[up].hash]
      /\ node'[id][v] = image
      /\ \A w \in Vers : w # v => node'[id][w] = node[id][w]
      /\ \A j \in Ids : j # id => node'[j] = node[j]
      /\ node' = [j \in Ids |-> [w \in Vers |-> node'[j][w]]]

\* It changes that, where the tree in memory has not the node.
LEMMA SyncNodeDoes ==
  ASSUME TypeInv, IsOpen, SyncNode
  PROVE  LET id == NextDirty(ht)
             v == Flip(PlaceOf(id))
         IN  id \in ht.dirtyNodes /\ id \in Ids /\ v \in Vers /\ Synced(id, v)
<1> DEFINE id == NextDirty(ht)
           up == Parent(id)
           v == Flip(PlaceOf(id))
           image == [ht.nodes[id] EXCEPT !.hash = Hash(ht.nodes, ht.max, ht.length, id)]
           nodes == [ht.nodes EXCEPT ![id] = image]
           nodes2 == IF id = 1 THEN nodes ELSE [nodes EXCEPT ![up].ch[Bit(id)] = v]
<1>1. /\ IsTree(ht) /\ IsSize(ht) /\ Current \in Vers
      /\ ht.dirtyNodes # {} /\ ht.dirtyNodes \subseteq Ids
  BY OpenTypes DEF SyncNode, IsTree
<1>2. id \in ht.dirtyNodes /\ id \in Ids
  BY <1>1, NextIs
<1>3. v = IF id = 1 THEN Flip(ht.counter % 2) ELSE Flip(ht.nodes[up].ch[Bit(id)])
  BY <1>1 DEF PlaceOf, Written, Current
<1>4. /\ node' = [node EXCEPT ![id][v] = image]
      /\ ht' = [ht EXCEPT !.nodes = nodes2,
                          !.dirtyNodes = (ht.dirtyNodes \ {id}) \cup Above(id),
                          !.updated = ht.updated \ {id}]
  BY <1>3 DEF SyncNode
<1>5. id # 1 => /\ up \in Ids /\ up # id /\ Bit(id) \in Vers
  BY <1>2, ParentBefore DEF Ids
<1>6. Above(id) = IF id = 1 THEN {} ELSE {up}
  BY <1>2, <1>5 DEF Above, Parent, Ids
<1>7. /\ \A j \in Ids : IsImage(ht.nodes[j])
      /\ ht.nodes = [j \in Ids |-> ht.nodes[j]]
      /\ node = [j \in Ids |-> [w \in Vers |-> node[j][w]]]
  BY <1>1 DEF TypeInv, IsTree
<1>8. v \in Vers
  <2>1. CASE id = 1
    BY <1>1, <1>3, <2>1 DEF Current, Flip, Vers
  <2>2. CASE id # 1
    <3>1. ht.nodes[up].ch[Bit(id)] \in Vers
      BY <1>5, <1>7, <2>2 DEF IsImage
    <3> HIDE DEF v
    <3> QED BY <1>3, <2>2, <3>1 DEF Flip, Vers
  <2> QED BY <2>1, <2>2
<1> HIDE DEF id, v
<1>9. image = [blk |-> ht.nodes[id].blk, ch |-> ht.nodes[id].ch,
               seal |-> ht.nodes[id].seal,
               hash |-> Hash(ht.nodes, ht.max, ht.length, id)]
  <2> HIDE DEF nodes, nodes2
  <2>1. ht.nodes[id] = [blk |-> ht.nodes[id].blk, ch |-> ht.nodes[id].ch,
                        seal |-> ht.nodes[id].seal, hash |-> ht.nodes[id].hash]
    BY <1>2, <1>7 DEF IsImage
  <2> QED BY <2>1
<1> HIDE DEF image
<1>10. /\ nodes = [j \in Ids |-> nodes[j]] /\ nodes[id] = image
       /\ \A j \in Ids : j # id => nodes[j] = ht.nodes[j]
  BY <1>2, <1>7
<1> HIDE DEF nodes
<1>11. /\ nodes2 = [j \in Ids |-> nodes2[j]] /\ nodes2[id] = image
       /\ \A j \in Ids : j # id /\ (id # 1 => j # up) => nodes2[j] = ht.nodes[j]
       /\ id # 1 =>
            nodes2[up] = [blk |-> ht.nodes[up].blk,
                          ch |-> [ht.nodes[up].ch EXCEPT ![Bit(id)] = v],
                          seal |-> ht.nodes[up].seal, hash |-> ht.nodes[up].hash]
  <2>1. CASE id = 1
    BY <1>2, <1>10, <2>1
  <2>2. CASE id # 1
    <3>1. nodes2 = [nodes EXCEPT ![up].ch[Bit(id)] = v]
      BY <2>2
    <3>2. nodes[up] = [blk |-> ht.nodes[up].blk, ch |-> ht.nodes[up].ch,
                       seal |-> ht.nodes[up].seal, hash |-> ht.nodes[up].hash]
      BY <1>5, <1>7, <1>10, <2>2 DEF IsImage
    <3> HIDE DEF nodes2, up
    <3> QED BY <1>2, <1>5, <1>10, <2>2, <3>1, <3>2
  <2> QED BY <2>1, <2>2
<1> HIDE DEF nodes2
<1>12. /\ ht' = [counter |-> ht'.counter, max |-> ht'.max, length |-> ht'.length,
                 nodes |-> ht'.nodes, dirtyNodes |-> ht'.dirtyNodes,
                 updated |-> ht'.updated, dirty |-> ht'.dirty]
       /\ ht'.counter = ht.counter /\ ht'.max = ht.max /\ ht'.length = ht.length
       /\ ht'.dirty = ht.dirty
       /\ ht'.dirtyNodes = (ht.dirtyNodes \ {id}) \cup Above(id)
       /\ ht'.updated = ht.updated \ {id}
       /\ ht'.nodes = nodes2
  BY <1>1, <1>4 DEF IsTree
<1>13. /\ node'[id][v] = image
       /\ \A w \in Vers : w # v => node'[id][w] = node[id][w]
       /\ \A j \in Ids : j # id => node'[j] = node[j]
       /\ node' = [j \in Ids |-> [w \in Vers |-> node'[j][w]]]
  BY <1>2, <1>4, <1>7, <1>8
<1>14. Synced(id, v)
  BY <1>6, <1>9, <1>11, <1>12, <1>13 DEF Synced, up
<1> QED BY <1>2, <1>8, <1>14 DEF id, v

\* What it leaves of the tree in memory, node by node.
LEMMA SyncedNodes ==
  ASSUME TypeInv, IsOpen, pc \in {"create", "sync"}, NEW id \in ht.dirtyNodes,
         NEW v \in Vers, Synced(id, v),
         \A d \in ht.dirtyNodes : d # id => First(id) < First(d)
  PROVE  /\ ht'.dirtyNodes = {} <=> id = 1
         /\ \A j \in Ids :
              /\ ht'.nodes[j].blk = ht.nodes[j].blk
              /\ ht'.nodes[j].seal = ht.nodes[j].seal
              /\ j # id => ht'.nodes[j].hash = ht.nodes[j].hash
              /\ ht'.nodes[j].ch \in [Vers -> Vers]
         /\ \A j \in Ids : j # id /\ j # 1 =>
              ht'.nodes[Parent(j)].ch[Bit(j)] = ht.nodes[Parent(j)].ch[Bit(j)]
         /\ id # 1 => ht'.nodes[Parent(id)].ch[Bit(id)] = v
         /\ ht'.nodes[id].ch = ht.nodes[id].ch
<1> DEFINE up == Parent(id)
<1>1. /\ IsTree(ht) /\ IsSize(ht) /\ id \in Ids /\ ht.dirtyNodes \subseteq Ids
      /\ 1 \in Ids
  BY OpenTypes, HtreeAssumption DEF IsTree, Ids
<1>2. id # 1 => up \in Ids /\ up # id /\ Bit(id) \in Vers
  BY <1>1, ParentBefore DEF Ids
<1>3. \A j \in Ids : IsImage(ht.nodes[j])
  BY <1>1 DEF IsTree
<1>4. ht'.dirtyNodes = {} <=> id = 1
  <2>1. CASE id # 1
    BY <2>1 DEF Synced
  <2>2. CASE id = 1
    <3>1. ASSUME NEW d \in ht.dirtyNodes, d # 1 PROVE FALSE
      <4>1. First(1) < First(d) /\ First(d) < First(1)
        BY <1>1, <2>2, <3>1, RootLast
      <4>2. First(1) \in Nat /\ First(d) \in Nat
        BY <1>1, FirstIs
      <4> QED BY <4>1, <4>2
    <3> QED BY <2>2, <3>1 DEF Synced
  <2> QED BY <2>1, <2>2
<1>5. /\ ht'.nodes[id] = [blk |-> ht.nodes[id].blk, ch |-> ht.nodes[id].ch,
                          seal |-> ht.nodes[id].seal,
                          hash |-> Hash(ht.nodes, ht.max, ht.length, id)]
      /\ \A j \in Ids : j # id /\ (id # 1 => j # up) => ht'.nodes[j] = ht.nodes[j]
      /\ id # 1 =>
           ht'.nodes[up] = [blk |-> ht.nodes[up].blk,
                            ch |-> [ht.nodes[up].ch EXCEPT ![Bit(id)] = v],
                            seal |-> ht.nodes[up].seal, hash |-> ht.nodes[up].hash]
  BY DEF Synced
<1> HIDE DEF up
<1>6. id # 1 => [ht.nodes[up].ch EXCEPT ![Bit(id)] = v] \in [Vers -> Vers]
  BY <1>2, <1>3 DEF IsImage
<1>7. ASSUME NEW j \in Ids
      PROVE  /\ ht'.nodes[j].blk = ht.nodes[j].blk
             /\ ht'.nodes[j].seal = ht.nodes[j].seal
             /\ j # id => ht'.nodes[j].hash = ht.nodes[j].hash
             /\ ht'.nodes[j].ch \in [Vers -> Vers]
  <2>1. ht.nodes[j].ch \in [Vers -> Vers]
    BY <1>3 DEF IsImage
  <2>2. CASE j = id
    BY <1>5, <2>1, <2>2
  <2>3. CASE id # 1 /\ j = up
    BY <1>2, <1>5, <1>6, <2>3
  <2>4. CASE j # id /\ (id # 1 => j # up)
    BY <1>5, <2>1, <2>4
  <2> QED BY <2>2, <2>3, <2>4
<1>8. id # 1 => /\ ht'.nodes[up].ch[Bit(id)] = v
                /\ \A c \in Vers : c # Bit(id) =>
                     ht'.nodes[up].ch[c] = ht.nodes[up].ch[c]
  <2> SUFFICES ASSUME id # 1
               PROVE  /\ ht'.nodes[up].ch[Bit(id)] = v
                      /\ \A c \in Vers : c # Bit(id) =>
                           ht'.nodes[up].ch[c] = ht.nodes[up].ch[c]
    OBVIOUS
  <2>1. ht'.nodes[up].ch = [ht.nodes[up].ch EXCEPT ![Bit(id)] = v]
    BY <1>5
  <2>2. ht.nodes[up].ch \in [Vers -> Vers]
    BY <1>2, <1>3 DEF IsImage
  <2> QED BY <1>2, <2>1, <2>2
<1>9. ASSUME NEW j \in Ids, j # id, j # 1
      PROVE  ht'.nodes[Parent(j)].ch[Bit(j)] = ht.nodes[Parent(j)].ch[Bit(j)]
  <2>1. Parent(j) \in Ids /\ Bit(j) \in Vers /\ j = 2 * Parent(j) + Bit(j)
    BY <1>9, ParentBefore
  <2>2. CASE id # 1 /\ Parent(j) = up
    <3>1. id = 2 * up + Bit(id)
      BY <1>1, <2>2, ParentBefore DEF up
    <3>2. Bit(j) # Bit(id)
      BY <1>9, <2>1, <2>2, <3>1
    <3> QED BY <1>8, <2>1, <2>2, <3>2
  <2>3. CASE Parent(j) = id
    BY <1>5, <2>3
  <2>4. CASE Parent(j) # id /\ (id # 1 => Parent(j) # up)
    BY <1>5, <2>1, <2>4
  <2> QED BY <2>2, <2>3, <2>4
<1>10. ht'.nodes[id].ch = ht.nodes[id].ch
  BY <1>5
<1> QED BY <1>4, <1>7, <1>8, <1>9, <1>10 DEF up

\* The tree in memory keeps to its part of storage.
LEMMA SyncedMem ==
  ASSUME TypeInv, MemInv, IsOpen, pc \in {"create", "sync"}, pc' = pc, ivs' = ivs,
         head' = head, block' = block, lost' = lost, lookup' = lookup,
         NEW id \in ht.dirtyNodes, Synced(id, Flip(PlaceOf(id))),
         Flip(PlaceOf(id)) \in Vers,
         \A d \in ht.dirtyNodes : d # id => First(id) < First(d)
  PROVE  TypeInv' /\ MemInv' /\ IsOpen' /\ (ht'.dirtyNodes = {} => Whole(ht'))
<1> DEFINE up == Parent(id)
           v == Flip(PlaceOf(id))
<1>1. /\ IsTree(ht) /\ IsSize(ht) /\ id \in Ids /\ ht.dirtyNodes \subseteq Ids
      /\ TreeIds(ht.max) \subseteq Ids /\ id \in TreeIds(ht.max)
      /\ Current \in Vers
  BY OpenTypes DEF IsTree
<1>2. id # 1 => /\ up \in TreeIds(ht.max) /\ up \in Ids /\ up # id
                /\ Bit(id) \in Vers
  BY <1>1, ParentBefore, TreeIdsAre DEF IsSize, Ids
<1>3. /\ ht'.dirtyNodes = {} <=> id = 1
      /\ \A j \in Ids :
           /\ ht'.nodes[j].blk = ht.nodes[j].blk
           /\ ht'.nodes[j].seal = ht.nodes[j].seal
           /\ j # id => ht'.nodes[j].hash = ht.nodes[j].hash
           /\ ht'.nodes[j].ch \in [Vers -> Vers]
      /\ \A j \in Ids : j # id /\ j # 1 =>
           ht'.nodes[Parent(j)].ch[Bit(j)] = ht.nodes[Parent(j)].ch[Bit(j)]
      /\ id # 1 => ht'.nodes[Parent(id)].ch[Bit(id)] = v
      /\ ht'.nodes[id].ch = ht.nodes[id].ch
  BY SyncedNodes
<1>4. Synced(id, v) /\ v \in Vers
  OBVIOUS
<1>5. v = IF id = 1 THEN Flip(Current) ELSE Flip(ht.nodes[up].ch[Bit(id)])
  BY DEF PlaceOf, Written
<1> HIDE DEF v, up
<1>6. /\ \A j \in Ids : j # id /\ (id # 1 => j # up) => ht'.nodes[j] = ht.nodes[j]
      /\ ht'.nodes[id] = [blk |-> ht.nodes[id].blk, ch |-> ht.nodes[id].ch,
                          seal |-> ht.nodes[id].seal,
                          hash |-> Hash(ht.nodes, ht.max, ht.length, id)]
      /\ node'[id][v] = ht'.nodes[id]
      /\ \A j \in Ids : j # id => node'[j] = node[j]
      /\ ht'.counter = ht.counter /\ ht'.max = ht.max /\ ht'.length = ht.length
      /\ ht'.dirty = ht.dirty
      /\ ht'.dirtyNodes = (ht.dirtyNodes \ {id}) \cup (IF id = 1 THEN {} ELSE {up})
  BY <1>4 DEF Synced, up
<1>7. IsOpen'
  BY <1>4, TreeIsOpen DEF Synced, IsOpen
<1>8. TypeInv'
  <2>1. \A x : IsImage(x) => IsImage(x)'
    BY DEF IsImage
  <2>2. ASSUME NEW j \in Ids PROVE IsImage(ht.nodes[j])'
    <3>1. IsImage(ht.nodes[j])
      BY <1>1 DEF IsTree
    <3>2. CASE j = id
      BY <1>6, <2>1, <3>1, <3>2 DEF IsImage
    <3>3. CASE id # 1 /\ j = up
      <4>1. ht'.nodes[j] = [blk |-> ht'.nodes[j].blk, ch |-> ht'.nodes[j].ch,
                            seal |-> ht'.nodes[j].seal, hash |-> ht'.nodes[j].hash]
        BY <1>4, <3>3 DEF Synced, up
      <4> QED BY <1>3, <3>1, <4>1 DEF IsImage
    <3>4. CASE j # id /\ (id # 1 => j # up)
      BY <1>6, <2>1, <3>1, <3>4
    <3> QED BY <3>2, <3>3, <3>4
  <2>3. IsTree(ht)'
    <3>1. ASSUME NEW j \in Ids \ TreeIds(ht'.max) PROVE ht'.nodes[j] = ZeroNode
      BY <1>1, <1>2, <1>6 DEF IsTree
    <3>2. ht'.dirtyNodes \subseteq TreeIds(ht'.max)
      BY <1>1, <1>2, <1>6 DEF IsTree
    <3>3. ht'.updated \subseteq ht'.dirtyNodes
      BY <1>1, <1>4, <1>6 DEF IsTree, Synced
    <3>4. ht'.counter \in Nat /\ ht'.dirty \in BOOLEAN
      BY <1>1, <1>6 DEF IsTree
    <3>5. /\ ht'.nodes = [j \in Ids |-> ht'.nodes[j]]
          /\ ht' = [counter |-> ht'.counter, max |-> ht'.max, length |-> ht'.length,
                    nodes |-> ht'.nodes, dirtyNodes |-> ht'.dirtyNodes,
                    updated |-> ht'.updated, dirty |-> ht'.dirty]
      BY <1>4 DEF Synced
    <3> QED BY <2>2, <3>1, <3>2, <3>3, <3>4, <3>5 DEF IsTree
  <2>4. IsSize(ht)'
    BY <1>1, <1>6 DEF IsSize
  <2>5. /\ \A j \in Ids, w \in Vers : IsImage(node[j][w])'
        /\ node' = [j \in Ids |-> [w \in Vers |-> node'[j][w]]]
    <3>1. ASSUME NEW j \in Ids, NEW w \in Vers PROVE IsImage(node[j][w])'
      <4>1. CASE j = id /\ w = v
        BY <1>1, <1>6, <2>2, <4>1
      <4>2. CASE ~(j = id /\ w = v)
        <5>1. node'[j][w] = node[j][w]
          BY <1>4, <4>2 DEF Synced
        <5>2. IsImage(node[j][w])
          BY DEF TypeInv
        <5> QED BY <2>1, <5>1, <5>2
      <4> QED BY <4>1, <4>2
    <3> QED BY <1>4, <3>1 DEF Synced
  <2> QED BY <1>7, <2>3, <2>4, <2>5 DEF TypeInv, IsHead, IsSize
<1>9. Current' = Current /\ ~Written /\ (Written' <=> id = 1)
  BY <1>3, <1>6 DEF Current, Written
<1>10. ASSUME NEW j \in TreeIds(ht.max), j \notin ht'.dirtyNodes
       PROVE  node'[j][PlaceOf(j)'] = ht'.nodes[j]
  <2>1. CASE j = id
    <3>1. PlaceOf(id)' = v
      BY <1>3, <1>5, <1>9 DEF PlaceOf
    <3> QED BY <1>6, <2>1, <3>1
  <2>2. CASE j # id
    <3>1. j \notin ht.dirtyNodes /\ (id # 1 => j # up) /\ j \in Ids
      BY <1>1, <1>6, <1>10, <2>2
    <3>2. node'[j] = node[j] /\ ht'.nodes[j] = ht.nodes[j]
      BY <1>6, <2>2, <3>1
    <3>3. PlaceOf(j)' = PlaceOf(j)
      <4>1. CASE j = 1
        BY <1>9, <2>2, <4>1 DEF PlaceOf
      <4>2. CASE j # 1
        BY <1>3, <2>2, <3>1, <4>2 DEF PlaceOf
      <4> QED BY <4>1, <4>2
    <3>4. node[j][PlaceOf(j)] = ht.nodes[j]
      BY <3>1 DEF MemInv, CleanNodes
    <3> QED BY <3>2, <3>3, <3>4
  <2> QED BY <2>1, <2>2
<1>11. ASSUME NEW j \in TreeIds(ht.max), j \notin ht'.dirtyNodes,
              ~\E d \in ht'.dirtyNodes : d # 1 /\ Parent(d) = j
       PROVE  ht'.nodes[j].hash = Hash(ht'.nodes, ht'.max, ht'.length, j)
  <2>0. j \in Ids /\ j \in Nat
    BY <1>1 DEF Ids
  <2>1. ht'.nodes[j].blk = ht.nodes[j].blk /\ ht'.nodes[j].seal = ht.nodes[j].seal
    BY <1>3, <2>0
  <2>2. \A c \in Kids(ht.max, j) : 2 * j + c # id =>
          ht'.nodes[2 * j + c].hash = ht.nodes[2 * j + c].hash
    BY <1>1, <1>3 DEF Kids
  <2>3. CASE j = id
    <3>1. \A c \in Kids(ht.max, j) : 2 * j + c # id
      BY <2>0, <2>3 DEF Kids, Vers, Ids
    <3>2. Hash(ht'.nodes, ht'.max, ht'.length, j) = Hash(ht.nodes, ht.max, ht.length, j)
      BY <1>3, <1>6, <2>1, <2>2, <2>3, <3>1, SameHash
    <3> QED BY <1>6, <2>3, <3>2
  <2>4. CASE j # id
    <3>1. j \notin ht.dirtyNodes /\ (id # 1 => j # up)
      BY <1>6, <1>11, <2>4
    <3>2. ~\E d \in ht.dirtyNodes : d # 1 /\ Parent(d) = j
      <4> SUFFICES ASSUME NEW d \in ht.dirtyNodes, d # 1, Parent(d) = j PROVE FALSE
        OBVIOUS
      <4>1. d = id
        BY <1>6, <1>11
      <4> QED BY <3>1, <4>1 DEF up
    <3>3. ht.nodes[j].hash = Hash(ht.nodes, ht.max, ht.length, j)
      BY <3>1, <3>2 DEF MemInv, CleanNodes
    <3>4. \A c \in Kids(ht.max, j) : 2 * j + c # id
      <4> SUFFICES ASSUME NEW c \in Kids(ht.max, j), 2 * j + c = id PROVE FALSE
        OBVIOUS
      <4>1. c \in Vers
        BY DEF Kids
      <4>2. Parent(id) = j /\ id # 1
        BY <2>0, <4>1, KidParent DEF Ids, Vers
      <4> QED BY <3>1, <4>2 DEF up
    <3>5. ht'.nodes[j] = ht.nodes[j]
      BY <1>6, <2>0, <2>4, <3>1
    <3>6. Hash(ht'.nodes, ht'.max, ht'.length, j) = Hash(ht.nodes, ht.max, ht.length, j)
      BY <1>6, <2>2, <3>4, <3>5, SameHash
    <3> QED BY <3>3, <3>5, <3>6
  <2> QED BY <2>3, <2>4
<1>12. CleanNodes'
  BY <1>6, <1>10, <1>11 DEF CleanNodes
<1>13. MemInv'
  BY <1>6, <1>12 DEF MemInv
<1>14. ht'.dirtyNodes = {} => Whole(ht')
  BY <1>6, <1>11 DEF Whole
<1> QED BY <1>7, <1>8, <1>13, <1>14

\* The version that it came from stays as it is.
LEMMA SyncedBase ==
  ASSUME TypeInv, MemInv, IsOpen, pc = "sync", pc' = pc, ivs' = ivs,
         head' = head, block' = block, lost' = lost, dfh' = dfh,
         lookup' = lookup, saved' = saved,
         BaseInv, MovedInv, Differs,
         NEW id \in ht.dirtyNodes, Synced(id, Flip(PlaceOf(id))),
         Flip(PlaceOf(id)) \in Vers,
         \A d \in ht.dirtyNodes : d # id => First(id) < First(d)
  PROVE  BaseInv' /\ MovedInv' /\ Differs' /\ Base' = Base /\ Current' = Current
<1> DEFINE up == Parent(id)
           v == Flip(PlaceOf(id))
<1>1. /\ IsTree(ht) /\ IsSize(ht) /\ id \in Ids /\ ht.dirtyNodes \subseteq Ids
      /\ TreeIds(ht.max) \subseteq Ids /\ id \in TreeIds(ht.max)
      /\ Current \in Vers /\ OldIds \subseteq Ids /\ 1 \in OldIds /\ 1 \in Ids
      /\ IsTree(Base) /\ IsSize(Base)
      /\ Base.max = head[Current].max /\ Base.length = head[Current].length
  BY OpenTypes, HtreeAssumption DEF IsTree, Ids
<1>2. id # 1 => up \in Ids /\ up # id /\ Bit(id) \in Vers
  BY <1>1, ParentBefore DEF Ids
<1>3. /\ ht'.dirtyNodes = {} <=> id = 1
      /\ \A j \in Ids : ht'.nodes[j].seal = ht.nodes[j].seal
      /\ \A j \in Ids : j # id /\ j # 1 =>
           ht'.nodes[Parent(j)].ch[Bit(j)] = ht.nodes[Parent(j)].ch[Bit(j)]
  BY SyncedNodes
<1>4. /\ TypeInv' /\ MemInv' /\ IsOpen' /\ (ht'.dirtyNodes = {} => Whole(ht'))
  BY SyncedMem
<1>5. Synced(id, v) /\ v \in Vers
  OBVIOUS
<1>6. v = IF id = 1 THEN Flip(Current) ELSE Flip(ht.nodes[up].ch[Bit(id)])
  BY DEF PlaceOf, Written
<1> HIDE DEF v, up
<1>7. /\ ht'.counter = ht.counter /\ ht'.max = ht.max /\ ht'.length = ht.length
      /\ ht'.dirty = ht.dirty
      /\ ht'.dirtyNodes = (ht.dirtyNodes \ {id}) \cup (IF id = 1 THEN {} ELSE {up})
      /\ node'[id][v] = ht'.nodes[id]
      /\ \A w \in Vers : w # v => node'[id][w] = node[id][w]
      /\ \A j \in Ids : j # id => node'[j] = node[j]
  BY <1>5 DEF Synced, up
<1>8. Current' = Current /\ ~Written /\ (Written' <=> id = 1)
  BY <1>3, <1>7 DEF Current, Written
<1>9. ~Moved(id)
  <2>1. First(id) \in Nat
    BY <1>1, FirstIs
  <2> QED BY <1>1, <2>1 DEF MovedInv
<1>10. Loaded(Current)'.nodes = Base.nodes
  <2>1. ASSUME NEW j \in Ids, j \in OldIds
        PROVE  LET w == IF j = 1 THEN Current ELSE Base.nodes[Parent(j)].ch[Bit(j)]
               IN  node'[j][w] = node[j][w]
    <3>1. CASE j # id
      BY <1>7, <3>1
    <3>2. CASE j = id /\ id = 1
      <4>1. Current # v
        BY <1>1, <1>6, <3>2 DEF Flip, Vers
      <4> QED BY <1>1, <1>7, <3>2, <4>1
    <3>3. CASE j = id /\ id # 1
      <4>1. ht.nodes[up].ch[Bit(id)] = Base.nodes[up].ch[Bit(id)]
        BY <1>1, <1>9, <2>1, <3>3 DEF Moved, up
      <4>2. Base.nodes[up].ch[Bit(id)] \in Vers
        BY <1>1, <1>2, <3>3 DEF IsTree, IsImage
      <4>3. Base.nodes[up].ch[Bit(id)] # v
        BY <1>6, <3>3, <4>1, <4>2 DEF Flip, Vers
      <4> QED BY <1>7, <3>3, <4>2, <4>3 DEF up
    <3> QED BY <3>1, <3>2, <3>3
  <2>2. ASSUME NEW i, i = Current PROVE Loaded(i)'.nodes = Base.nodes
    BY <2>1, <2>2, SameTree DEF Base, OldIds
  <2> QED BY <1>8, <2>2
<1>11. Base' = Base /\ OldIds' = OldIds
  <2>1. LoadedIs /\ LoadedIs'
    BY LoadedFact, PTL
  <2>2. Loaded(Current)' = [counter |-> head[Current].counter, max |-> head[Current].max,
                            length |-> head[Current].length, nodes |-> Base.nodes,
                            dirtyNodes |-> {}, updated |-> {}, dirty |-> FALSE]
    BY <1>8, <1>10, <2>1 DEF LoadedIs
  <2>3. Base = [counter |-> head[Current].counter, max |-> head[Current].max,
                length |-> head[Current].length, nodes |-> Base.nodes,
                dirtyNodes |-> {}, updated |-> {}, dirty |-> FALSE]
    BY LoadedReads DEF Base
  <2>4. Base' = Loaded(Current)'
    BY DEF Base
  <2>5. OldIds' = OldIds
    BY <1>8 DEF OldIds
  <2> QED BY <2>2, <2>3, <2>4, <2>5
<1>12. Differs'
  BY <1>1, <1>3, <1>7, <1>11 DEF Differs
<1>13. MovedInv'
  <2>1. ASSUME NEW j \in Ids, Moved(j)', NEW d \in ht'.dirtyNodes
        PROVE  First(j) < First(d)
    <3>1. First(j) \in Nat /\ First(id) \in Nat
      BY <1>1, FirstIs
    <3>2. /\ id # 1 => First(id) < First(up) /\ First(up) \in Nat
      BY <1>1, <1>2, FirstBefore, FirstIs DEF up
    <3>5. (d \in ht.dirtyNodes /\ d # id) \/ (id # 1 /\ d = up)
      BY <1>7, <2>1
    <3>3. CASE j = id
      BY <3>2, <3>3, <3>5
    <3>4. CASE j # id
      <4>1. Moved(j)
        BY <1>3, <1>7, <1>11, <2>1, <3>4 DEF Moved
      <4>2. First(j) < First(id) /\ (d \in ht.dirtyNodes => First(j) < First(d))
        BY <4>1 DEF MovedInv
      <4>3. id # 1 /\ d = up => First(j) < First(d)
        BY <3>1, <3>2, <4>2
      <4> QED BY <3>5, <4>2, <4>3
    <3> QED BY <3>3, <3>4
  <2> QED BY <2>1 DEF MovedInv
<1>14. BaseInv'
  <2>1. node'[1][Current] = node[1][Current]
    <3>1. id = 1 => Current # v
      BY <1>1, <1>6 DEF Flip, Vers
    <3> QED BY <1>1, <1>7, <3>1
  <2>2. Verified(Current)'
    <3>1. Loaded(Current)' = Base
      BY <1>8, <1>11 DEF Base
    <3>2. /\ head[Current].root # NoHash /\ head[Current].root = node[1][Current].hash
          /\ \A j \in TreeIds(Base.max) :
               Base.nodes[j].hash = Hash(Base.nodes, Base.max, Base.length, j)
      BY DEF BaseInv, Verified, Base
    <3> QED BY <1>8, <2>1, <3>1, <3>2 DEF Verified
  <2>3. /\ head'[Current'].counter = ht'.counter
        /\ dfh' = node'[1][Current'].hash
    BY <1>7, <1>8, <2>1 DEF BaseInv
  <2>4. ASSUME lookup = "hash", Written' \/ Current = 1
        PROVE  node'[1][0].hash # node'[1][1].hash
    <3>1. CASE id # 1
      <4>1. node[1][0].hash # node[1][1].hash
        BY <1>8, <2>4, <3>1 DEF BaseInv
      <4> QED BY <1>1, <1>7, <3>1, <4>1
    <3>2. CASE id = 1
      <4>1. node'[1][v].hash # node'[1][Current].hash
        <5>1. Whole(ht') /\ ht'.max \in 0..MaxNodes /\ Base.max \in 0..MaxNodes
          BY <1>1, <1>3, <1>4, <1>7, <3>2 DEF IsSize
        <5>2. Whole(Base)
          BY DEF BaseInv, Verified, Base, Whole
        <5>3. node'[1][Current] = Base.nodes[1]
          BY <1>1, <2>1, LoadedTyped DEF Base, OldIds
        <5>4. node'[1][v] = ht'.nodes[1]
          BY <1>7, <3>2
        <5>5. ht'.nodes[1].hash # Base.nodes[1].hash
          <6>1. OldIds = TreeIds(Base.max)
            BY <1>1 DEF OldIds
          <6> QED BY <1>11, <1>12, <5>1, <5>2, <6>1, SameHashSameTree DEF Differs
        <5> QED BY <5>3, <5>4, <5>5
      <4>2. v = 1 - Current
        BY <1>6, <3>2 DEF Flip
      <4> QED BY <1>1, <4>1, <4>2 DEF Vers
    <3> QED BY <3>1, <3>2
  <2>5. HeadIdx' = Current \/ lookup = "hash"
    BY <1>8 DEF HeadIdx, BaseInv
  <2>6. lookup = "hash" => saved \in {NoHash, dfh}
    BY DEF BaseInv
  <2> QED BY <1>8, <2>2, <2>3, <2>4, <2>5, <2>6 DEF BaseInv
<1> QED BY <1>8, <1>11, <1>12, <1>13, <1>14

\* Without a head there is no file.
ZeroHeads == (\A v \in Vers : head[v] = ZeroHead) => ~Opens
\* It holds of every state.
LEMMA ZeroHeadsIs == ZeroHeads
BY OpensNeeds DEF ZeroHeads, ZeroHead

\* The write of a node; the file is what it was.
LEMMA SyncNodeKept ==
  ASSUME Inv, SyncNode
  PROVE  /\ Inv' /\ IsOpen /\ IsOpen' /\ (Opens' <=> Opens)
         /\ Opens => HeadIdx' = HeadIdx /\ Loaded(HeadIdx)' = Loaded(HeadIdx)
         /\ ht'.length = ht.length
         /\ \A id \in Ids : ht'.nodes[id].seal = ht.nodes[id].seal
<1> DEFINE id == NextDirty(ht)
           v == Flip(PlaceOf(id))
<1>1. /\ TypeInv /\ HeadsInv /\ SavedInv /\ MemInv /\ OldInv /\ CreateInv
      /\ BlocksReadable
      /\ pc \in {"create", "sync"} /\ pc' = pc /\ IsOpen
      /\ head' = head /\ block' = block /\ lookup' = lookup /\ dfh' = dfh
      /\ saved' = saved /\ ivs' = ivs /\ lost' = lost
  BY DEF Inv, SyncNode, TypeInv
<1>2. id \in ht.dirtyNodes /\ id \in Ids /\ v \in Vers /\ Synced(id, v)
  BY <1>1, SyncNodeDoes
<1>3. \A d \in ht.dirtyNodes : d # id => First(id) < First(d)
  <2>1. ht.dirtyNodes \subseteq Ids /\ ht.dirtyNodes # {}
    BY <1>1, OpenTypes DEF IsTree, SyncNode
  <2> QED BY <2>1, NextIs
<1> HIDE DEF id
<1>4. TypeInv' /\ MemInv' /\ IsOpen'
  BY <1>1, <1>2, <1>3, SyncedMem
<1>5. /\ ht'.length = ht.length /\ ht'.counter = ht.counter /\ ht'.max = ht.max
      /\ ht'.dirty = ht.dirty
  BY <1>2 DEF Synced
<1>6. \A j \in Ids : ht'.nodes[j].blk = ht.nodes[j].blk /\ ht'.nodes[j].seal = ht.nodes[j].seal
  BY <1>1, <1>2, <1>3, SyncedNodes
<1>7. /\ OldInv' /\ (Opens' <=> Opens)
      /\ Opens => HeadIdx' = HeadIdx /\ Loaded(HeadIdx)' = Loaded(HeadIdx)
  <2>1. CASE pc = "create"
    <3>1. ZeroHeads /\ ZeroHeads'
      BY ZeroHeadsIs, PTL
    <3>2. ~Opens /\ ~Opens'
      BY <1>1, <2>1, <3>1 DEF ZeroHeads, CreateInv
    <3> QED BY <1>1, <2>1, <3>2 DEF OldInv
  <2>2. CASE pc = "sync"
    <3>1. BaseInv /\ MovedInv /\ Differs
      BY <1>1, <2>2 DEF OldInv, MemInv
    <3>2. BaseInv' /\ MovedInv' /\ Differs' /\ Base' = Base /\ Current' = Current
      BY <1>1, <1>2, <1>3, <2>2, <3>1, SyncedBase
    <3>3. OpensIff /\ OpensIff'
      BY OpensIffIs, PTL
    <3>4. lookup = "hash" => saved \in {NoHash, dfh}
      BY <2>2, <3>1 DEF BaseInv
    <3>5. /\ Opens <=> (lookup = "hash" => saved # NoHash)
          /\ Opens => HeadIdx = Current
      BY <1>1, <3>1, <3>3, <3>4 DEF OpensIff
    <3>6. /\ Opens' <=> (lookup = "hash" => saved # NoHash)
          /\ Opens' => HeadIdx' = Current
      BY <1>1, <1>4, <3>2, <3>3, <3>4 DEF OpensIff
    <3>7. Loaded(Current)' = Loaded(Current)
      BY <3>2 DEF Base
    <3>8. OldInv'
      BY <1>1, <2>2, <3>2 DEF OldInv
    <3>9. Opens' <=> Opens
      BY <3>5, <3>6
    <3>10. Opens => HeadIdx' = HeadIdx
      BY <3>5, <3>6, <3>9
    <3>11. Opens => Loaded(HeadIdx)' = Loaded(HeadIdx)
      <4> SUFFICES ASSUME Opens PROVE Loaded(HeadIdx)' = Loaded(HeadIdx)
        OBVIOUS
      <4>1. HeadIdx = Current /\ HeadIdx' = Current'
        BY <3>2, <3>5, <3>6
      <4> QED BY <3>7, <4>1
    <3> QED BY <3>8, <3>9, <3>10, <3>11
  <2> QED BY <1>1, <2>1, <2>2
<1>8. HeadsInv' /\ SavedInv'
  BY <1>1, <1>7 DEF HeadsInv, SavedInv
<1>9. CreateInv'
  <2>1. CASE pc = "create"
    <3>1. node'[1][0] = node[1][0]
      <4>1. id = 1 => v = 1
        <5>1. Current = 0 /\ ~Written
          BY <1>1, <1>2, <2>1 DEF CreateInv, Current, Written
        <5> QED BY <5>1 DEF PlaceOf, Flip
      <4> QED BY <1>2, <4>1, HtreeAssumption DEF Synced, Vers, Ids
    <3> QED BY <1>1, <1>4, <1>5, <2>1, <3>1 DEF CreateInv
  <2>2. CASE pc = "sync"
    BY <1>1, <2>2 DEF CreateInv
  <2> QED BY <1>1, <2>1, <2>2
<1>10. BlocksReadable'
  <2>1. ASSUME NEW b \in Blocks PROVE b + 1 \in Ids
    BY HtreeAssumption DEF Blocks, Ids
  <2>2. ASSUME NEW b \in Blocks \ lost, b < RoundUp(ht.length) PROVE Readable(ht, b)'
    <3>1. Readable(ht, b)
      BY <1>1, <2>2 DEF BlocksReadable
    <3> QED BY <1>1, <1>6, <2>1, <3>1 DEF Readable
  <2>3. ASSUME Opens, NEW b \in Blocks \ lost, b < RoundUp(head[HeadIdx].length)
        PROVE  Readable(Loaded(HeadIdx), b)'
    <3>1. Readable(Loaded(HeadIdx), b)
      BY <1>1, <2>3 DEF BlocksReadable
    <3> QED BY <1>1, <1>7, <2>3, <3>1 DEF Readable
  <2> QED BY <1>1, <1>5, <1>7, <2>2, <2>3 DEF BlocksReadable
<1> QED BY <1>1, <1>4, <1>5, <1>6, <1>7, <1>8, <1>9, <1>10 DEF Inv

\* What the write of the head changes; i is the other place.
LEMMA SyncHeadDoes ==
  ASSUME TypeInv, IsOpen, SyncHead, NEW i, i = Flip(Current)
  PROVE  /\ i \in Vers /\ Current \in Vers /\ Current' = i /\ i # Current
         /\ ht.dirtyNodes = {} /\ ht.updated = {} /\ IsOpen'
         /\ ht' = [counter |-> ht.counter + 1, max |-> ht.max, length |-> ht.length,
                   nodes |-> ht.nodes, dirtyNodes |-> {}, updated |-> {},
                   dirty |-> FALSE]
         /\ head'[i] = [counter |-> ht.counter + 1, max |-> ht.max,
                        length |-> ht.length, root |-> ht.nodes[1].hash]
         /\ head'[Current] = head[Current]
         /\ head' = [v \in Vers |-> head'[v]]
         /\ (ht.counter + 1) % 2 = i
<1>1. /\ IsTree(ht) /\ Current \in Vers /\ ht.counter \in Nat
      /\ ht.dirtyNodes = {} /\ ht.updated = {}
  BY OpenTypes DEF SyncHead, IsTree
<1>2. i \in Vers /\ i # Current /\ (ht.counter + 1) % 2 = i
  BY <1>1 DEF Flip, Current, Vers
<1>3. ht' = [ht EXCEPT !.counter = ht.counter + 1, !.dirty = FALSE]
  BY DEF SyncHead
<1>4. ht' = [counter |-> ht.counter + 1, max |-> ht.max, length |-> ht.length,
             nodes |-> ht.nodes, dirtyNodes |-> {}, updated |-> {}, dirty |-> FALSE]
  BY <1>1, <1>3 DEF IsTree
<1>5. Current' = i
  BY <1>2, <1>4 DEF Current
<1>6. IsOpen'
  BY <1>4, TreeIsOpen DEF IsOpen
<1>7. head' = [head EXCEPT ![i] = [counter |-> ht.counter + 1, max |-> ht.max,
                                   length |-> ht.length, root |-> ht.nodes[1].hash]]
  BY <1>2 DEF SyncHead
<1>8. head = [v \in Vers |-> head[v]]
  BY DEF TypeInv
<1> QED BY <1>1, <1>2, <1>4, <1>5, <1>6, <1>7, <1>8

\* The tree in memory is what is in storage then.
LEMMA NewTree ==
  ASSUME TypeInv, MemInv, IsOpen, SyncHead, NEW i, i = Flip(Current)
  PROVE  /\ Loaded(i)' = ht' /\ Verified(i)'
         /\ node[1][i].hash = ht.nodes[1].hash /\ ht.nodes[1].hash # NoHash
         /\ node' = node
<1>1. /\ i \in Vers /\ Current' = i /\ ht.dirtyNodes = {}
      /\ ht' = [counter |-> ht.counter + 1, max |-> ht.max, length |-> ht.length,
                nodes |-> ht.nodes, dirtyNodes |-> {}, updated |-> {}, dirty |-> FALSE]
      /\ head'[i] = [counter |-> ht.counter + 1, max |-> ht.max,
                     length |-> ht.length, root |-> ht.nodes[1].hash]
  BY SyncHeadDoes
<1>2. node' = node /\ Written
  BY <1>1 DEF SyncHead, Written
<1>3. \A id \in TreeIds(ht.max) :
        /\ node[id][PlaceOf(id)] = ht.nodes[id]
        /\ ht.nodes[id].hash = Hash(ht.nodes, ht.max, ht.length, id)
  BY <1>1 DEF MemInv, CleanNodes
<1>4. IsTree(ht) /\ 1 \in TreeIds(ht.max)
  BY OpenTypes
<1>5. Loaded(i)'.nodes = ht.nodes
  <2>1. LoadedIs'
    BY LoadedFact, PTL
  <2> SUFFICES ASSUME NEW g, g = ht.nodes PROVE Loaded(i)'.nodes = g
    OBVIOUS
  <2>2. ASSUME NEW id \in Ids PROVE ImageOf(i, g, id)' = g[id]
    <3>1. CASE id \notin TreeIds(ht.max)
      BY <1>1, <1>4, <3>1 DEF ImageOf, IsTree
    <3>2. CASE id \in TreeIds(ht.max)
      BY <1>1, <1>2, <1>3, <3>2 DEF ImageOf, PlaceOf
    <3> QED BY <3>1, <3>2
  <2>3. g = [id \in Ids |-> g[id]]
    BY <1>4 DEF IsTree
  <2>4. Reads(i, g)'
    BY <2>2, <2>3 DEF Reads
  <2> QED BY <2>1, <2>4 DEF LoadedIs
<1>6. Loaded(i)' = ht'
  <2>1. LoadedIs'
    BY LoadedFact, PTL
  <2>2. Loaded(i)' = [counter |-> head'[i].counter, max |-> head'[i].max,
                      length |-> head'[i].length, nodes |-> Loaded(i)'.nodes,
                      dirtyNodes |-> {}, updated |-> {}, dirty |-> FALSE]
    BY <2>1 DEF LoadedIs
  <2> QED BY <1>1, <1>5, <2>2
<1>7. node[1][i] = ht.nodes[1]
  BY <1>2, <1>3, <1>4 DEF PlaceOf
<1>8. ht.nodes[1].hash # NoHash
  <2>1. Hash(ht.nodes, ht.max, ht.length, 1) # NoHash
    BY DEF Hash, NoHash
  <2> QED BY <1>3, <1>4, <2>1
<1>9. Verified(i)'
  BY <1>1, <1>2, <1>3, <1>6, <1>7, <1>8 DEF Verified
<1> QED BY <1>2, <1>6, <1>7, <1>8, <1>9

\* The write of the head commits a file that is found by its counters, and leaves
\* one that is found by hash as it was.
LEMMA SyncHeadKept ==
  ASSUME Inv, SyncHead
  PROVE  /\ Inv' /\ IsOpen /\ IsOpen'
         /\ ht'.length = ht.length /\ ht'.nodes = ht.nodes
         /\ lookup # "hash" => Opens' /\ Loaded(HeadIdx)' = ht'
         /\ lookup = "hash" =>
              /\ Opens' <=> Opens
              /\ Opens => HeadIdx' = HeadIdx /\ Loaded(HeadIdx)' = Loaded(HeadIdx)
<1> SUFFICES ASSUME NEW i, i = Flip(Current), NEW p, p = Current
             PROVE  /\ Inv' /\ IsOpen /\ IsOpen'
                    /\ ht'.length = ht.length /\ ht'.nodes = ht.nodes
                    /\ lookup # "hash" => Opens' /\ Loaded(HeadIdx)' = ht'
                    /\ lookup = "hash" =>
                         /\ Opens' <=> Opens
                         /\ Opens => /\ HeadIdx' = HeadIdx
                                     /\ Loaded(HeadIdx)' = Loaded(HeadIdx)
  OBVIOUS
<1>1. /\ TypeInv /\ HeadsInv /\ SavedInv /\ MemInv /\ OldInv /\ CreateInv
      /\ BlocksReadable /\ IsOpen
      /\ pc \in {"create", "sync"} /\ pc' = IF pc = "create" THEN "dummy" ELSE "idle"
      /\ block' = block /\ lookup' = lookup /\ dfh' = ht.nodes[1].hash
      /\ saved' = saved /\ ivs' = ivs
      /\ lost' = IF lookup = "counter" THEN {b \in lost : b < RoundUp(ht.length)}
                 ELSE lost
  BY DEF Inv, SyncHead, TypeInv
<1>2. /\ i \in Vers /\ p \in Vers /\ Current' = i /\ i # p
      /\ ht.dirtyNodes = {} /\ ht.updated = {} /\ IsOpen'
      /\ ht' = [counter |-> ht.counter + 1, max |-> ht.max, length |-> ht.length,
                nodes |-> ht.nodes, dirtyNodes |-> {}, updated |-> {}, dirty |-> FALSE]
      /\ head'[i] = [counter |-> ht.counter + 1, max |-> ht.max,
                     length |-> ht.length, root |-> ht.nodes[1].hash]
      /\ head'[p] = head[p] /\ head' = [v \in Vers |-> head'[v]]
      /\ (ht.counter + 1) % 2 = i
  BY <1>1, SyncHeadDoes
<1>3. /\ Loaded(i)' = ht' /\ Verified(i)' /\ node' = node
      /\ node[1][i].hash = ht.nodes[1].hash /\ ht.nodes[1].hash # NoHash
  BY <1>1, NewTree
<1>4. IsTree(ht) /\ IsSize(ht)
  BY <1>1, OpenTypes
<1>5. Written /\ ~Written' /\ p = Current /\ i = 1 - p
  BY <1>1, <1>2 DEF Written, Flip
<1>6. \A v \in Vers : v = i \/ v = p
  BY <1>2, <1>5 DEF Vers
<1>7. Base' = ht' /\ OldIds' = TreeIds(ht.max)
  BY <1>2, <1>3 DEF Base, OldIds
<1>8. Loaded(p)' = Loaded(p) /\ (Verified(p)' <=> Verified(p))
  <2>1. Loaded(p)'.nodes = Loaded(p).nodes
    BY <1>2, <1>3, SameTree
  <2>2. LoadedIs /\ LoadedIs'
    BY LoadedFact, PTL
  <2>3. /\ Loaded(p) = [counter |-> head[p].counter, max |-> head[p].max,
                        length |-> head[p].length, nodes |-> Loaded(p).nodes,
                        dirtyNodes |-> {}, updated |-> {}, dirty |-> FALSE]
        /\ Loaded(p)' = [counter |-> head'[p].counter, max |-> head'[p].max,
                         length |-> head'[p].length, nodes |-> Loaded(p)'.nodes,
                         dirtyNodes |-> {}, updated |-> {}, dirty |-> FALSE]
    BY <2>2 DEF LoadedIs
  <2>4. Loaded(p)' = Loaded(p)
    BY <1>2, <2>1, <2>3
  <2> QED BY <1>2, <1>3, <2>4 DEF Verified
<1>9. pc = "sync" => BaseInv
  BY <1>1 DEF OldInv
<1>10. lookup # "hash" => HeadIdx' = i
  <2>1. head[p].counter = ht.counter
    BY <1>1, <1>2, <1>5, <1>9 DEF BaseInv, CreateInv, ZeroHead
  <2>2. ht.counter \in Nat
    BY <1>4 DEF IsTree
  <2>3. CASE i = 1
    <3>1. head'[0].counter = ht.counter /\ head'[1].counter = ht.counter + 1
      <4>1. p = 0
        BY <1>2, <1>5, <2>3 DEF Vers
      <4> QED BY <1>2, <2>1, <2>3, <4>1
    <3>2. ht.counter % 2 = 0
      BY <1>2, <2>2, <2>3
    <3>3. IdxFromCounter(ht.counter, ht.counter + 1) = 1
      BY <1>2, <2>2, <2>3, <3>2 DEF IdxFromCounter
    <3> QED BY <1>1, <2>3, <3>1, <3>3 DEF HeadIdx
  <2>4. CASE i = 0
    <3>1. head'[1].counter = ht.counter /\ head'[0].counter = ht.counter + 1
      BY <1>2, <1>5, <2>1, <2>4 DEF Vers
    <3>2. IdxFromCounter(ht.counter + 1, ht.counter) = 0
      BY <1>2, <2>2, <2>4 DEF IdxFromCounter
    <3> QED BY <1>1, <2>4, <3>1, <3>2 DEF HeadIdx
  <2> QED BY <1>2, <2>3, <2>4 DEF Vers
<1>11. lookup # "hash" => Opens'
  BY <1>2, <1>3, <1>10 DEF Opens, Vers
<1>12. lookup = "hash" =>
         /\ Opens' <=> Opens
         /\ Opens => HeadIdx' = p /\ HeadIdx = p /\ Verified(p)
         /\ saved # NoHash => Opens /\ pc = "sync" /\ saved = dfh
  <2> SUFFICES ASSUME lookup = "hash"
               PROVE  /\ Opens' <=> Opens
                      /\ Opens => HeadIdx' = p /\ HeadIdx = p /\ Verified(p)
                      /\ saved # NoHash => Opens /\ pc = "sync" /\ saved = dfh
    OBVIOUS
  <2>1. HeadIdx' = HeadIdx
    BY <1>1, <1>3 DEF HeadIdx, IdxFromHash
  <2>2. Opens => saved # NoHash
    BY OpensNeeds
  <2>3. saved # NoHash => Opens /\ pc = "sync" /\ saved = dfh
    BY <1>1, <1>9 DEF SavedInv, CreateInv, BaseInv
  <2>4. saved # NoHash => HeadIdx = p
    BY <1>2, <1>5, <1>9, <2>3, FoundIs DEF Found
  <2>5. ZeroHeads /\ (Opens => Verified(HeadIdx))
    BY ZeroHeadsIs DEF Opens
  <2>6. Opens => Opens'
    BY <1>8, <2>1, <2>2, <2>4, <2>5, <1>2 DEF Opens, Vers
  <2>7. Opens' => saved' # NoHash
    <3>1. NeedsSaved'
      BY NeedsSavedIs, PTL
    <3> QED BY <1>1, <3>1 DEF NeedsSaved
  <2> QED BY <1>1, <2>1, <2>2, <2>3, <2>4, <2>5, <2>6, <2>7
<1>13. Opens /\ lookup = "hash" => HeadIdx' = HeadIdx /\ Loaded(HeadIdx)' = Loaded(HeadIdx)
  <2> SUFFICES ASSUME Opens, lookup = "hash"
               PROVE  HeadIdx' = HeadIdx /\ Loaded(HeadIdx)' = Loaded(HeadIdx)
    OBVIOUS
  <2>1. HeadIdx' = p /\ HeadIdx = p
    BY <1>12
  <2> QED BY <1>8, <2>1
<1>14. lookup # "hash" => Loaded(HeadIdx)' = ht'
  BY <1>3, <1>10
<1>15. TypeInv'
  <2>1. IsTree(ht)'
    BY <1>1, <1>2, <1>4 DEF IsTree, IsImage
  <2>2. IsSize(ht)'
    BY <1>2, <1>4 DEF IsSize
  <2>3. IsHead(head[i])' /\ IsSize(head[i])'
    BY <1>2, <1>4 DEF IsTree, IsSize, IsHead
  <2>4. IsHead(head[p])' /\ IsSize(head[p])'
    BY <1>1, <1>2 DEF TypeInv, IsSize, IsHead
  <2>5. \A v \in Vers : IsHead(head[v])' /\ IsSize(head[v])'
    BY <1>6, <2>3, <2>4
  <2>6. lost' \subseteq Blocks
    BY <1>1 DEF TypeInv
  <2>7. \A j \in Ids, w \in Vers : IsImage(node[j][w])'
    BY <1>1, <1>3 DEF TypeInv, IsImage
  <2> QED BY <1>1, <1>2, <1>3, <2>1, <2>2, <2>5, <2>6, <2>7 DEF TypeInv
<1>16. HeadsInv'
  BY <1>1, <1>2, <1>6 DEF HeadsInv
<1>17. SavedInv'
  BY <1>1, <1>12 DEF SavedInv
<1>18. MemInv'
  <2>1. \A id \in TreeIds(ht.max) : PlaceOf(id)' = PlaceOf(id)
    BY <1>2, <1>5 DEF PlaceOf, Flip
  <2>2. CleanNodes'
    BY <1>1, <1>2, <1>3, <2>1 DEF MemInv, CleanNodes
  <2> QED BY <1>1, <1>2, <1>7, <2>2 DEF MemInv
<1>19. OldInv'
  <2>1. BaseInv'
    <3>1. Verified(Current)' /\ head'[Current'].counter = ht'.counter
      BY <1>2, <1>3
    <3>2. dfh' = node'[1][Current'].hash
      BY <1>1, <1>2, <1>3
    <3>3. ASSUME lookup = "hash", i = 1 PROVE node[1][0].hash # node[1][1].hash
      <4>1. CASE pc = "sync"
        BY <1>5, <1>9, <3>3, <4>1 DEF BaseInv
      <4>2. CASE pc = "create"
        BY <1>1, <1>3, <3>3, <4>2 DEF CreateInv, ZeroNode
      <4> QED BY <1>1, <4>1, <4>2
    <3>4. ASSUME lookup = "hash", saved # NoHash
          PROVE  pc' = "idle" /\ ~ht'.dirty /\ HeadIdx' = Flip(Current)'
      <4>1. Flip(Current)' = p
        BY <1>2, <1>5 DEF Flip, Vers
      <4> QED BY <1>1, <1>2, <1>12, <3>4, <4>1
    <3> QED BY <1>1, <1>2, <1>3, <1>5, <1>10, <3>1, <3>2, <3>3, <3>4 DEF BaseInv
  <2>2. MovedInv'
    BY <1>7 DEF MovedInv, Moved
  <2>3. GrownInv'
    BY <1>2, <1>7 DEF GrownInv
  <2> QED BY <1>2, <2>1, <2>2, <2>3 DEF OldInv
<1>20. CreateInv'
  <2>1. CASE pc = "create"
    <3>1. p = 0 /\ i = 1
      BY <1>1, <1>5, <2>1 DEF CreateInv, Current
    <3> QED BY <1>1, <1>2, <2>1, <3>1 DEF CreateInv
  <2>2. CASE pc = "sync"
    BY <1>1, <2>2 DEF CreateInv
  <2> QED BY <1>1, <2>1, <2>2
<1>21. BlocksReadable'
  <2>1. ASSUME NEW b \in Blocks \ lost', b < RoundUp(ht.length) PROVE Readable(ht, b)'
    <3>1. b \notin lost
      BY <1>1, <2>1
    <3>2. Readable(ht, b)
      BY <1>1, <2>1, <3>1 DEF BlocksReadable
    <3> QED BY <1>1, <1>2, <3>2 DEF Readable
  <2>2. CASE lookup # "hash"
    <3>1. Loaded(HeadIdx)' = ht' /\ head'[HeadIdx'].length = ht.length
      BY <1>2, <1>10, <1>14, <2>2
    <3> QED BY <1>2, <2>1, <3>1 DEF BlocksReadable, Readable
  <2>3. CASE lookup = "hash"
    <3>1. ASSUME Opens, NEW b \in Blocks \ lost, b < RoundUp(head[HeadIdx].length)
          PROVE  Readable(Loaded(HeadIdx), b)'
      <4>1. Readable(Loaded(HeadIdx), b)
        BY <1>1, <3>1 DEF BlocksReadable
      <4> QED BY <1>1, <1>13, <2>3, <3>1, <4>1 DEF Readable
    <3>2. Opens => head'[HeadIdx'].length = head[HeadIdx].length
      BY <1>2, <1>12, <2>3
    <3> QED BY <1>1, <1>2, <1>12, <2>1, <2>3, <3>1, <3>2 DEF BlocksReadable
  <2> QED BY <2>2, <2>3
<1>22. Inv'
  BY <1>15, <1>16, <1>17, <1>18, <1>19, <1>20, <1>21 DEF Inv
<1> QED BY <1>1, <1>2, <1>11, <1>12, <1>13, <1>14, <1>22

\* Every step.
LEMMA StepKept ==
  ASSUME Inv, [Next]_vars, [CleanTruncates]_vars
  PROVE  Inv'
<1>1. CASE Create
  BY <1>1, CreateKept
<1>2. CASE Open
  BY <1>2, OpenKept
<1>3. ASSUME NEW b \in Blocks, WriteBlock(b) PROVE Inv'
  BY <1>3, WriteBlockKept
<1>4. ASSUME NEW length \in Lengths, Truncate(length) PROVE Inv'
  <2>1. CASE CleanTruncates
    BY <1>4, <2>1, TruncateKept DEF CleanTruncates
  <2>2. CASE UNCHANGED vars
    BY <1>4, <2>2 DEF Truncate, Idle, vars
  <2> QED BY <2>1, <2>2
<1>5. CASE Sync
  BY <1>5, SyncKept
<1>6. CASE SyncNode
  BY <1>6, SyncNodeKept
<1>7. CASE SyncHead
  BY <1>7, SyncHeadKept
<1>8. CASE DummyHead
  BY <1>8, DummyHeadKept
<1>9. CASE Save
  BY <1>9, SaveKept
<1>10. CASE Close
  BY <1>10, CloseKept
<1>11. CASE UNCHANGED vars
  <2>1. /\ head' = head /\ node' = node /\ block' = block /\ ht' = ht /\ pc' = pc
        /\ lookup' = lookup /\ dfh' = dfh /\ saved' = saved /\ ivs' = ivs
        /\ lost' = lost
    BY <1>11 DEF vars, disk
  <2>2. /\ \A j : Loaded(j)' = Loaded(j) /\ Verified(j)' = Verified(j)
        /\ HeadIdx' = HeadIdx /\ Opens' = Opens
    BY <2>1, SameDisk
  <2>3. TypeInv /\ HeadsInv /\ SavedInv /\ MemInv /\ OldInv /\ CreateInv /\ BlocksReadable
    BY DEF Inv
  <2>4. IsOpen' <=> IsOpen
    BY <2>1 DEF IsOpen
  <2>5. TypeInv'
    <3>1. IsTree(ht)' <=> IsTree(ht)
      BY <2>1 DEF IsTree, IsImage
    <3> QED BY <2>1, <2>3, <2>4, <3>1 DEF TypeInv, IsHead, IsSize, IsImage
  <2>6. HeadsInv' /\ SavedInv' /\ CreateInv'
    <3>1. Current' = Current
      BY <2>1 DEF Current
    <3> QED BY <2>1, <2>2, <2>3, <2>4, <3>1 DEF HeadsInv, SavedInv, CreateInv
  <2>7. /\ Current' = Current /\ Base' = Base /\ OldIds' = OldIds
        /\ (Written' <=> Written)
    BY <2>1, <2>2 DEF Current, Base, OldIds, Written
  <2>8. MemInv'
    BY <2>1, <2>3, <2>4, <2>7 DEF MemInv, CleanNodes, PlaceOf
  <2>9. OldInv'
    <3>1. BaseInv => BaseInv'
      BY <2>1, <2>2, <2>7 DEF BaseInv
    <3>2. MovedInv => MovedInv'
      BY <2>1, <2>7 DEF MovedInv, Moved
    <3>3. (Differs => Differs') /\ (GrownInv => GrownInv')
      BY <2>1, <2>7 DEF Differs, GrownInv
    <3> QED BY <2>1, <2>3, <2>4, <3>1, <3>2, <3>3 DEF OldInv
  <2>10. BlocksReadable'
    BY <2>1, <2>2, <2>3, <2>4 DEF BlocksReadable, Readable
  <2> QED BY <2>5, <2>6, <2>8, <2>9, <2>10 DEF Inv
<1> QED BY <1>1, <1>2, <1>3, <1>4, <1>5, <1>6, <1>7, <1>8, <1>9, <1>10, <1>11 DEF Next

\* The invariant holds throughout.
LEMMA Invariant == CleanSpec => []Inv
BY InitInv, StepKept, PTL DEF CleanSpec, Spec

\* Whatever write of a sync the power fails after, every block of the file as it is
\* committed, and of the file as it is open, is where its node says: the writes of
\* out_of_place_write() and htree_sync_node_to_storage() never go to a place that
\* the committed version needs.
THEOREM BlocksStayReadable == CleanSpec => []BlocksReadable
<1>1. Inv => BlocksReadable
  BY DEF Inv
<1> QED BY <1>1, Invariant, PTL

\* A file that the directory names can always be opened by the hash that it has.
THEOREM SavedAlwaysOpens == CleanSpec => []SavedOpens
<1>1. Inv => SavedOpens
  BY DEF Inv, SavedInv, SavedOpens
<1> QED BY <1>1, Invariant, PTL

-----------------------------------------------------------------------------
(* The file is atomic.                                                     *)

\* What AtomicFile has for its variables.
Committed == IF Opens THEN Seen(Loaded(HeadIdx)) ELSE ZeroHead
OpenView == IF IsOpen THEN Seen(ht) ELSE Closed
FileContent == [length : 0..(2 * MaxNodes), seals : [Blocks -> 0..MaxWrites]]

\* An open file has a content.
OpenContent == TypeInv /\ IsOpen => OpenView \in FileContent
\* It holds of every state.
LEMMA OpenContentIs == OpenContent
<1> SUFFICES ASSUME TypeInv, IsOpen PROVE Seen(ht) \in FileContent
  BY DEF OpenContent, OpenView
<1>1. IsTree(ht) /\ IsSize(ht)
  BY OpenTypes
<1>2. ASSUME NEW b \in Blocks
      PROVE  (IF b < RoundUp(ht.length) THEN ht.nodes[b + 1].seal ELSE 0) \in 0..MaxWrites
  <2>1. b + 1 \in Ids
    BY HtreeAssumption DEF Blocks, Ids
  <2>2. ht.nodes[b + 1].seal \in 0..ivs
    BY <1>1, <2>1 DEF IsTree, IsImage
  <2>3. ivs \in Nat /\ ivs <= MaxWrites /\ MaxWrites \in Nat
    BY HtreeAssumption DEF TypeInv
  <2> HIDE DEF TypeInv
  <2>4. ht.nodes[b + 1].seal \in 0..MaxWrites
    BY <2>2, <2>3
  <2> QED BY <2>3, <2>4
<1> QED BY <1>1, <1>2 DEF Seen, FileContent, IsSize

\* It is neither of the values that stand for no file and no tree.
LEMMA SeenIsNot == \A t : Seen(t) # ZeroHead /\ Seen(t) # Closed
<1>1. ASSUME NEW t PROVE Seen(t) # ZeroHead
  <2>1. "seals" \in DOMAIN Seen(t)
    BY DEF Seen
  <2>2. "seals" \notin DOMAIN ZeroHead
    BY DEF ZeroHead
  <2> QED BY <2>1, <2>2
<1>2. ASSUME NEW t PROVE Seen(t) # Closed
  <2>1. "seals" \in DOMAIN Seen(t)
    BY DEF Seen
  <2>2. "seals" \notin DOMAIN Closed
    BY DEF Closed
  <2> QED BY <2>1, <2>2
<1> QED BY <1>1, <1>2

\* Trees with the same length and seals look the same.
LEMMA SameSeen ==
  ASSUME NEW t, NEW u, t.length = u.length,
         \A id \in Ids : t.nodes[id].seal = u.nodes[id].seal
  PROVE  Seen(t) = Seen(u)
<1>1. \A b \in Blocks : b + 1 \in Ids
  BY HtreeAssumption DEF Blocks, Ids
<1>2. [b \in Blocks |-> IF b < RoundUp(t.length) THEN t.nodes[b + 1].seal ELSE 0]
        = [b \in Blocks |-> IF b < RoundUp(u.length) THEN u.nodes[b + 1].seal ELSE 0]
  BY <1>1
<1> QED BY <1>2 DEF Seen

\* A step that leaves the file that is found leaves what is committed.
LEMMA SameCommitted ==
  ASSUME Opens' <=> Opens,
         Opens => HeadIdx' = HeadIdx /\ Loaded(HeadIdx)' = Loaded(HeadIdx)
  PROVE  Committed' = Committed
<1>1. CASE Opens
  <2>1. Seen(Loaded(HeadIdx))' = Seen(Loaded(HeadIdx))
    BY <1>1 DEF Seen
  <2> QED BY <1>1, <2>1 DEF Committed
<1>2. CASE ~Opens
  BY <1>2 DEF Committed, ZeroHead
<1> QED BY <1>1, <1>2

\* Each step is one of AtomicFile, or changes nothing in it: a write of a node and
\* the write of the head of a file that is found by hash change nothing, the write
\* of the head of one that is found by its counters and the change of the hash in
\* the directory commit.
LEMMA FileStep ==
  ASSUME Inv, Inv', [Next]_vars
  PROVE  File!Next \/ (Committed' = Committed /\ OpenView' = OpenView)
<1> USE DEF FileContent
<1>1. TypeInv /\ TypeInv' /\ HeadsInv /\ SavedInv
  BY DEF Inv
<1>2. OpenContent'
  BY OpenContentIs, PTL
<1>3. ASSUME head' = head, node' = node, lookup' = lookup, saved' = saved
      PROVE  Committed' = Committed
  BY <1>3, SameDisk, SameCommitted
<1>4. ASSUME ht' = ht PROVE OpenView' = OpenView
  BY <1>4 DEF OpenView, IsOpen, Seen, Closed
<1>5. CASE Create
  <2>1. Committed = ZeroHead
    <3>1. ~Opens
      <4>1. CASE lookup = "hash"
        BY <1>5, <4>1, NeedsSavedIs DEF Create, NeedsSaved
      <4>2. CASE lookup = "counter"
        BY <1>5, <4>2, OpensNeeds DEF Create, ZeroNode
      <4> QED BY <1>1, <4>1, <4>2, HtreeAssumption DEF TypeInv
    <3> QED BY <3>1 DEF Committed
  <2>2. Committed' = ZeroHead
    <3>1. ZeroHeads'
      BY ZeroHeadsIs, PTL
    <3> QED BY <1>5, <3>1 DEF Create, ZeroHeads, Committed, ZeroHead
  <2>3. IsOpen'
    BY <1>5, TreeIsOpen DEF Create, IsOpen, EmptyTree
  <2>4. OpenView = Closed /\ OpenView' \in FileContent
    BY <1>1, <1>2, <1>5, <2>3 DEF Create, OpenView, OpenContent
  <2>5. File!Create
    BY <2>1, <2>2, <2>4 DEF File!Create, Committed, OpenView
  <2> QED BY <2>5 DEF File!Next
<1>6. CASE Open
  <2>1. /\ Opens /\ ~IsOpen /\ ht' = Loaded(HeadIdx) /\ head' = head /\ node' = node
        /\ lookup' = lookup /\ saved' = saved
    BY <1>6 DEF Open, disk
  <2>2. Committed' = Committed
    BY <1>3, <2>1
  <2>3. Committed # ZeroHead
    BY <2>1, SeenIsNot DEF Committed
  <2>4. IsOpen'
    <3>1. "counter" \in DOMAIN Loaded(HeadIdx)
      BY LoadedReads
    <3> QED BY <2>1, <3>1, TreeIsOpen DEF IsOpen
  <2>5. OpenView = Closed /\ OpenView' = Committed
    BY <2>1, <2>4 DEF OpenView, Committed, Seen
  <2>6. File!Open
    BY <2>2, <2>3, <2>5 DEF File!Open, Committed, OpenView
  <2> QED BY <2>6 DEF File!Next
<1>7. ASSUME IsOpen, IsOpen', head' = head, node' = node, lookup' = lookup,
             saved' = saved
      PROVE  File!Next
  <2>1. Committed' = Committed
    BY <1>3, <1>7
  <2>2. OpenView # Closed /\ OpenView' \in FileContent
    BY <1>1, <1>2, <1>7, SeenIsNot DEF OpenView, OpenContent
  <2>3. File!Modify
    BY <2>1, <2>2 DEF File!Modify, Committed, OpenView
  <2> QED BY <2>3 DEF File!Next
<1>8. ASSUME NEW b \in Blocks, WriteBlock(b) PROVE File!Next
  <2>1. IsOpen'
    BY <1>1, <1>8, WriteBlockDoes, TreeIsOpen DEF Written1, IsOpen
  <2> QED BY <1>7, <1>8, <2>1 DEF WriteBlock, Idle
<1>9. ASSUME NEW length \in Lengths, Truncate(length) PROVE File!Next
  <2>1. IsOpen'
    BY <1>1, <1>9, TruncateDoes, TreeIsOpen DEF Truncated, IsOpen, Inv
  <2> QED BY <1>7, <1>9, <2>1 DEF Truncate, Idle
<1>10. CASE Sync
  BY <1>3, <1>4, <1>10 DEF Sync, disk
<1>11. CASE SyncNode
  <2>1. /\ IsOpen /\ IsOpen' /\ (Opens' <=> Opens)
        /\ Opens => HeadIdx' = HeadIdx /\ Loaded(HeadIdx)' = Loaded(HeadIdx)
        /\ ht'.length = ht.length
        /\ \A id \in Ids : ht'.nodes[id].seal = ht.nodes[id].seal
    BY <1>11, SyncNodeKept
  <2>2. Committed' = Committed
    BY <2>1, SameCommitted
  <2>3. Seen(ht)' = Seen(ht)
    <3>1. Seen(ht') = Seen(ht)
      BY <2>1, SameSeen
    <3> QED BY <3>1 DEF Seen
  <2> QED BY <2>1, <2>2, <2>3 DEF OpenView
<1>12. CASE SyncHead
  <2>1. /\ IsOpen /\ IsOpen'
        /\ ht'.length = ht.length /\ ht'.nodes = ht.nodes
        /\ lookup # "hash" => Opens' /\ Loaded(HeadIdx)' = ht'
        /\ lookup = "hash" =>
             /\ Opens' <=> Opens
             /\ Opens => HeadIdx' = HeadIdx /\ Loaded(HeadIdx)' = Loaded(HeadIdx)
    BY <1>12, SyncHeadKept
  <2>2. OpenView' = OpenView
    BY <2>1 DEF OpenView, Seen
  <2>3. CASE lookup = "hash"
    BY <2>1, <2>2, <2>3, SameCommitted
  <2>4. CASE lookup # "hash"
    <3>1. Committed' = OpenView
      BY <2>1, <2>4 DEF Committed, OpenView, Seen
    <3>2. OpenView # Closed
      BY <2>1, SeenIsNot DEF OpenView
    <3>3. File!Commit
      BY <2>2, <3>1, <3>2 DEF File!Commit, Committed, OpenView
    <3> QED BY <3>3 DEF File!Next
  <2> QED BY <2>3, <2>4
<1>13. CASE DummyHead
  BY <1>3, <1>4, <1>13, DummyHeadKept DEF DummyHead
<1>14. CASE Save
  <2>1. Opens' /\ HeadIdx' = Current /\ Loaded(Current)' = ht /\ IsOpen /\ ht' = ht
    BY <1>14, SaveKept DEF Save
  <2>2. Current' = Current
    BY <2>1 DEF Current
  <2>3. Loaded(HeadIdx)' = ht
    BY <2>1, <2>2
  <2>4. OpenView' = OpenView
    BY <1>4, <2>1
  <2>5. Committed' = OpenView
    BY <2>1, <2>3 DEF Committed, OpenView, Seen
  <2>6. OpenView # Closed
    BY <2>1, SeenIsNot DEF OpenView
  <2>7. File!Commit
    BY <2>4, <2>5, <2>6 DEF File!Commit, Committed, OpenView
  <2> QED BY <2>7 DEF File!Next
<1>15. CASE Close
  <2>1. Committed' = Committed
    BY <1>3, <1>15 DEF Close, disk
  <2>2. OpenView' = Closed
    BY <1>15 DEF Close, OpenView, IsOpen, Closed
  <2>3. File!Close
    BY <2>1, <2>2 DEF File!Close, Committed, OpenView
  <2> QED BY <2>3 DEF File!Next
<1>16. CASE UNCHANGED vars
  BY <1>3, <1>4, <1>16 DEF vars, disk
<1> QED BY <1>5, <1>6, <1>8, <1>9, <1>10, <1>11, <1>12, <1>13, <1>14, <1>15, <1>16
        DEF Next

\* The promise of fs_htree.h: what is read back after any crash is the content of
\* the last commit as a whole, for every number of nodes, of writes and of syncs.
THEOREM Implements == CleanSpec => ImplementsAtomicFile
<1>1. Init => File!Init
  <2> SUFFICES ASSUME Init PROVE File!Init
    OBVIOUS
  <2>1. ~IsOpen
    BY DEF Init, IsOpen
  <2>2. ~Opens
    BY ZeroHeadsIs DEF ZeroHeads, Init
  <2> QED BY <2>1, <2>2 DEF File!Init
<1>2. Inv /\ Inv' /\ [Next]_vars => [File!Next]_<< Committed, OpenView >>
  BY FileStep
<1>3. Inv /\ Inv' /\ [Next]_vars
        => [File!Next]_<< IF Opens THEN Seen(Loaded(HeadIdx)) ELSE ZeroHead,
                          IF IsOpen THEN Seen(ht) ELSE Closed >>
  BY <1>2 DEF Committed, OpenView
<1> QED BY <1>1, <1>3, Invariant, PTL DEF CleanSpec, Spec, ImplementsAtomicFile, File!Spec


\* Lengths to which every truncate is clean, as in the run htree_crash: for a client
\* that truncates to nothing else, the theorems are about Spec itself.
CleanLengths ==
  /\ ~SameLength
  /\ \A length \in Lengths, id \in Ids :
       id > length \div 2 + 1 /\ Parent(id) <= length \div 2 + 1 => Parent(id) = 1

\* With them the theorems hold of every behaviour.
THEOREM CleanLengthsSuffice ==
  ASSUME CleanLengths
  PROVE  Spec => CleanSpec
<1>1. ASSUME NEW length \in Lengths, Truncate(length) PROVE CleanCut(length)
  <2>1. length < ht.length
    BY <1>1 DEF Truncate, CleanLengths
  <2>2. length # ht.length
    <3>1. length \in Int
      BY HtreeAssumption
    <3> QED BY <2>1, <3>1
  <2> QED BY <2>2 DEF CleanCut, CleanLengths
<1>2. [Next]_vars => [CleanTruncates]_vars
  BY <1>1 DEF CleanTruncates
<1> QED BY <1>2, PTL DEF Spec, CleanSpec

=============================================================================
