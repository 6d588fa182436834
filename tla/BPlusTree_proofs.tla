--------------------------- MODULE BPlusTree_proofs ---------------------------
(***************************************************************************)
(* Theorems about BPlusTree, for any number of keys to a node, any keys,   *)
(* any calls and any allocation that fails: its safety properties, and     *)
(* that it implements the map of KeyMap.  BPlusTree_steps proves what      *)
(* every step does to the invariant.                                       *)
(***************************************************************************)
EXTENDS BPlusTree_steps

-----------------------------------------------------------------------------
(* The invariant.                                                          *)

LEMMA Keeps == TreeInv /\ [Next]_vars => TreeInv'
<1> SUFFICES ASSUME TreeInv, [Next]_vars PROVE TreeInv'
  OBVIOUS
<1>1. PICK L, h, b, s : IsSound(L, h, b, s)
  BY DEF TreeInv
<1>2. CASE bplus_create
  BY <1>1, <1>2, CreateStep
<1>3. CASE bplus_destroy
  BY <1>1, <1>3, DestroyStep
<1>4. CASE NewProcess
  BY <1>4, NewProcessStep
<1>5. CASE Call
  BY <1>1, <1>5, CallStep
<1>6. CASE find_leaf
  BY <1>1, <1>6, FindLeafStep
<1>7. CASE bplus_search \/ InsertRefused \/ SplitFails
  BY <1>1, <1>7, ReturnsStep
<1>8. CASE ReplaceRow
  BY <1>1, <1>8, ReplaceRowStep
<1>9. CASE leaf_insert_sorted
  BY <1>1, <1>9, LeafInsertStep
<1>10. CASE leaf_split_insert
  BY <1>1, <1>10, LeafSplitStep
<1>11. CASE NewRoot
  BY <1>1, <1>11, NewRootStep
<1>12. CASE InsertIntoParent
  BY <1>1, <1>12, InsertIntoParentStep
<1>13. CASE internal_split_insert
  BY <1>1, <1>13, InternalSplitStep
<1>14. CASE RiseFails
  BY <1>1, <1>14, RiseFailsStep
<1>15. CASE CreateFails
  BY <1>1, <1>15, CreateFailsStep
<1>16. CASE UNCHANGED vars
  <2>1. IsSound(L, h, b, s)'
    BY <1>1, <1>16 DEF IsSound, vars
  <2> QED
    BY <2>1 DEF TreeInv
<1> QED
  BY <1>2, <1>3, <1>4, <1>5, <1>6, <1>7, <1>8, <1>9, <1>10, <1>11, <1>12, <1>13, <1>14, <1>15,
     <1>16 DEF Next, Step

\* In every reachable state the heap is sound: there are levels and spans for
\* all its nodes that fit the children, the keys, the call that is under way
\* and what it has done so far (bplus_tree.c:73-325).
THEOREM TreeSound == Spec => []TreeInv
<1>1. Init => TreeInv
  BY InitIsSound
<1>2. TreeInv /\ [Next]_vars => TreeInv'
  BY Keeps
<1> QED
  BY <1>1, <1>2, PTL DEF Spec

-----------------------------------------------------------------------------
(* What the invariant says of the tree between calls.                      *)

\* Every array holds what it has room for.
LEMMA SoundTypes == TreeInv => TypeOK
<1> SUFFICES ASSUME TreeInv PROVE TypeOK
  OBVIOUS
<1>1. PICK L, h, b, s : IsSound(L, h, b, s)
  BY DEF TreeInv
<1>2. /\ Heap(node) /\ Live(node, root, op, L) /\ Rooted(node, root, op, L, s)
      /\ Calling(node, root, op, L, h, s)
  BY <1>1 DEF IsSound, Sound, Shape
<1>3. ASSUME NEW x \in DOMAIN node
      PROVE  /\ node[x].keys \in Seq(Keys) /\ node[x].rows \in Seq(Rows) /\ node[x].kids \in Seq(Addr)
             /\ Len(node[x].keys) <= MaxKeys
             /\ node[x].leaf => Len(node[x].rows) = Len(node[x].keys) /\ node[x].kids = <<>>
             /\ ~node[x].leaf => Len(node[x].kids) = Len(node[x].keys) + 1 /\ node[x].rows = <<>>
             /\ node[x].parent \in Ptr /\ node[x].next \in Ptr
  <2>1. Len(node[x].keys) <= MaxKeys
    BY <1>1 DEF IsSound, Fits
  <2>2. /\ node[x].leaf => Len(node[x].rows) = Len(node[x].keys) /\ node[x].kids = <<>>
        /\ ~node[x].leaf => Len(node[x].kids) = Len(node[x].keys) + 1 /\ node[x].rows = <<>>
    BY <1>2 DEF Heap
  <2> QED
    BY <1>2, <2>1, <2>2, Indices
<1>4. DOMAIN node \subseteq Addr /\ root \in DOMAIN node \cup {Nil}
  BY <1>2 DEF Heap, Live, Rooted
<1>5. ASSUME op # Idle
      PROVE  op.at \in DOMAIN node /\ op.right \in DOMAIN node \cup {Nil}
  <2>1. op.at \in DOMAIN node
    BY <1>1, <1>5, CallHasRoot
  <2>2. IsRising(op) => op.right \in DOMAIN node
    BY <1>2, <1>5 DEF Calling, Live
  <2>3. ~IsRising(op) => op.right = Nil
    BY <1>2, <1>5 DEF Calling
  <2> QED
    BY <2>1, <2>2, <2>3
<1>6. failed \in BOOLEAN
  BY <1>1 DEF IsSound
<1> QED
  BY <1>3, <1>4, <1>5, <1>6 DEF TypeOK

LEMMA SoundIsTree == TreeInv => IsTree
<1> SUFFICES ASSUME TreeInv, op = Idle, root # Nil
             PROVE  /\ node[root].parent = Nil
                    /\ \A x \in Tree : \A i, j \in DOMAIN node[x].kids :
                         /\ node[node[x].kids[i]].parent = x
                         /\ node[x].kids[i] = node[x].kids[j] => i = j
  BY DEF IsTree
<1>1. PICK L, h, b, s : IsSound(L, h, b, s)
  BY DEF TreeInv
<1>2. Parents(node) /\ Live(node, root, op, L) /\ Rooted(node, root, op, L, s)
  BY <1>1 DEF IsSound, Sound, Shape
<1>3. Tree = L /\ L \subseteq DOMAIN node
  BY <1>1, <1>2, IdleIsQuiet, TreeIsLive DEF Live
<1>4. node[root].parent = Nil
  BY <1>2 DEF Rooted
<1> QED
  BY <1>2, <1>3, <1>4 DEF Parents

LEMMA SoundIsSeparated == TreeInv => Separated
<1> SUFFICES ASSUME TreeInv, op = Idle, NEW x \in Tree
             PROVE  /\ \A i, j \in DOMAIN node[x].keys : i < j => node[x].keys[i] < node[x].keys[j]
                    /\ \A i \in DOMAIN node[x].kids : \A y \in Under(node, node[x].kids[i]) :
                         \A k \in Range(node[y].keys) :
                           /\ i > 1 => node[x].keys[i - 1] <= k
                           /\ i <= Len(node[x].keys) => k < node[x].keys[i]
  BY DEF Separated
<1>1. PICK L, h, b, s : IsSound(L, h, b, s)
  BY DEF TreeInv
<1>2. /\ Parents(node) /\ Levels(node, h, b) /\ Ascending(node) /\ Spans(node, op, s)
      /\ Live(node, root, op, L) /\ b \in Nat
  BY <1>1 DEF IsSound, Sound, Shape
<1>3. x \in DOMAIN node
  BY <1>1, <1>2, IdleIsQuiet, TreeIsLive DEF Live
<1>4. ASSUME NEW i \in DOMAIN node[x].kids, NEW y \in Under(node, node[x].kids[i]),
             NEW k \in Range(node[y].keys)
      PROVE  /\ i > 1 => node[x].keys[i - 1] <= k
             /\ i <= Len(node[x].keys) => k < node[x].keys[i]
  <2>1. node[x].kids[i] \in DOMAIN node
    BY <1>2, <1>3 DEF Parents
  <2>2. y \in DOMAIN node
    BY <1>2, <2>1, UnderLeast
  <2>3. k \in s[y]
    BY <1>2, <2>2 DEF Spans, Range
  <2>4. s[y] \subseteq View(node, s, x, i)
    BY <1>2, <1>3, SpanSent
  <2> QED
    BY <2>3, <2>4 DEF View
<1>5. \A i, j \in DOMAIN node[x].keys : i < j => node[x].keys[i] < node[x].keys[j]
  BY <1>2, <1>3 DEF Ascending
<1> QED
  BY <1>4, <1>5

LEMMA SoundLeaksNothing == TreeInv => NothingLeaked
<1> SUFFICES ASSUME TreeInv, root = Nil, ~failed PROVE DOMAIN node = {}
  BY DEF NothingLeaked
<1>1. PICK L, h, b, s : IsSound(L, h, b, s)
  BY DEF TreeInv
<1>2. Rooted(node, root, op, L, s) /\ Whole(node, root, L, s, failed)
  BY <1>1 DEF IsSound, Sound, Shape
<1> QED
  BY <1>2 DEF Rooted, Whole

\* The number of steps from the root down to a node of the tree.
IsDepth(d) == d = [x \in Tree |-> IF x = root THEN 0 ELSE d[node[x].parent] + 1]

\* The depth of a node and its level make the level of the root.
LEMMA DepthIs ==
  ASSUME NEW L, NEW h, NEW b, NEW s, IsSound(L, h, b, s), op = Idle, root # Nil
  PROVE  /\ \E d : IsDepth(d)
         /\ \A d : IsDepth(d) => \A x \in Tree : d[x] = h[root] - h[x]
<1>1. /\ Parents(node) /\ Levels(node, h, b) /\ Live(node, root, op, L) /\ Rooted(node, root, op, L, s)
      /\ b \in Nat
  BY DEF IsSound, Sound, Shape
<1>2. Tree = L /\ L \subseteq DOMAIN node /\ root \in L /\ ~IsRising(op)
  BY <1>1, IdleIsQuiet, TreeIsLive DEF Live, Rooted
<1>3. \A x \in L : h[x] \in Int
  BY <1>1, <1>2 DEF Levels
<1>4. \A x \in L : x # root => node[x].parent \in L /\ h[x] + 1 = h[node[x].parent]
  BY <1>1, <1>2 DEF Live, Levels
<1>5. \E d : IsDepth(d)
  <2> DEFINE d == [x \in L |-> h[root] - h[x]]
  <2>1. ASSUME NEW x \in L
        PROVE  d[x] = IF x = root THEN 0 ELSE d[node[x].parent] + 1
    <3>1. CASE x = root
      BY <1>3, <3>1
    <3>2. CASE x # root
      <4>1. d[x] = h[root] - h[x] /\ d[node[x].parent] = h[root] - h[node[x].parent]
        BY <1>4, <3>2
      <4> HIDE DEF d
      <4>2. h[node[x].parent] \in Int /\ h[root] \in Int /\ h[x] \in Int /\ h[x] + 1 = h[node[x].parent]
        BY <1>2, <1>3, <1>4, <3>2
      <4>3. h[root] - h[x] = (h[root] - h[node[x].parent]) + 1
        BY <4>2
      <4> QED
        BY <3>2, <4>1, <4>3, Zenon
    <3> QED
      BY <3>1, <3>2
  <2>2. d = [x \in L |-> IF x = root THEN 0 ELSE d[node[x].parent] + 1]
    <3>1. DOMAIN d = L /\ d = [x \in L |-> d[x]]
      OBVIOUS
    <3> HIDE DEF d
    <3> QED
      BY <2>1, <3>1
  <2> HIDE DEF d
  <2> QED
    BY <1>2, <2>2 DEF IsDepth
<1>6. ASSUME NEW d, IsDepth(d)
      PROVE  \A x \in Tree : d[x] = h[root] - h[x]
  <2> DEFINE S == {x \in L : d[x] = h[root] - h[x]}
  <2>1. \A x \in L : d[x] = IF x = root THEN 0 ELSE d[node[x].parent] + 1
    BY <1>2, <1>6 DEF IsDepth
  <2>2. root \in S
    BY <1>2, <1>3, <2>1
  <2>3. ASSUME NEW x \in L, node[x].parent \in S, node[x].parent \in L
        PROVE  x \in S
    <3>1. CASE x = root
      BY <2>2, <3>1
    <3>2. CASE x # root
      <4>1. d[x] = d[node[x].parent] + 1 /\ d[node[x].parent] = h[root] - h[node[x].parent]
        BY <2>1, <2>3, <3>2
      <4>2. h[node[x].parent] \in Int /\ h[root] \in Int /\ h[x] \in Int /\ h[x] + 1 = h[node[x].parent]
        BY <1>2, <1>3, <1>4, <3>2
      <4>3. h[root] - h[x] = (h[root] - h[node[x].parent]) + 1
        BY <4>2
      <4> QED
        BY <4>1, <4>3, Zenon
    <3> QED
      BY <3>1, <3>2
  <2>4. L \subseteq S
    <3> HIDE DEF S
    <3> QED
      BY <1>1, <1>2, <2>2, <2>3, Upward
  <2> QED
    BY <1>2, <2>4
<1> QED
  BY <1>5, <1>6

LEMMA SoundIsBalanced == TreeInv => Balanced
<1> SUFFICES ASSUME TreeInv, op = Idle, root # Nil PROVE Balanced
  BY DEF Balanced
<1>1. PICK L, h, b, s : IsSound(L, h, b, s)
  BY DEF TreeInv
<1>2. /\ Levels(node, h, b) /\ Live(node, root, op, L) /\ Filled(node, root, op)
  BY <1>1 DEF IsSound, Sound, Shape
<1>3. Tree = L /\ L \subseteq DOMAIN node
  BY <1>1, <1>2, IdleIsQuiet, TreeIsLive DEF Live
<1> DEFINE d == CHOOSE f : IsDepth(f)
<1>4. IsDepth(d) /\ \A x \in Tree : d[x] = h[root] - h[x]
  <2>1. /\ \E f : IsDepth(f)
        /\ \A f : IsDepth(f) => \A x \in Tree : f[x] = h[root] - h[x]
    BY <1>1, DepthIs
  <2>2. IsDepth(d)
    BY <2>1
  <2> QED
    BY <2>1, <2>2
<1> HIDE DEF d
<1>5. \A x, y \in Leaves : d[x] = d[y]
  <2>1. \A x \in Leaves : x \in Tree /\ h[x] = 0
    BY <1>2, <1>3 DEF Leaves, Levels
  <2> QED
    BY <1>4, <2>1
<1>6. \A x \in Tree \ {root} : Len(node[x].keys) >= Least(node[x].leaf)
  BY <1>2, <1>3 DEF Filled
<1>7. d = CHOOSE depth : depth = [x \in Tree |-> IF x = root THEN 0 ELSE depth[node[x].parent] + 1]
  BY DEF d, IsDepth
<1> QED
  BY <1>5, <1>6, <1>7 DEF Balanced, Least

\* There is something in the span of every node of a tree at rest.
LEMMA SpanHasMember ==
  ASSUME NEW L, NEW h, NEW b, NEW s, IsSound(L, h, b, s), ~IsRising(op), NEW x \in L
  PROVE  \E v \in s[x] : v \in Int
<1>1. /\ Heap(node) /\ Filled(node, root, op) /\ Spans(node, op, s) /\ Live(node, root, op, L)
      /\ Rooted(node, root, op, L, s)
  BY DEF IsSound, Sound, Shape
<1>2. x \in DOMAIN node
  BY <1>1 DEF Live
<1>3. CASE x = root
  BY <1>1, <1>3, SentQuiet DEF Rooted
<1>4. CASE x # root
  <2>1. Len(node[x].keys) >= Least(node[x].leaf) /\ node[x].leaf \in BOOLEAN
    BY <1>1, <1>2, <1>4, Indices DEF Filled
  <2>2. Least(node[x].leaf) >= 1 /\ Least(node[x].leaf) \in Int
    BY <2>1, LeastIsPositive
  <2>3. 1 \in DOMAIN node[x].keys
    BY <1>1, <1>2, <2>1, <2>2, Indices
  <2> QED
    BY <1>1, <1>2, <2>3, Elements DEF Spans
<1> QED
  BY <1>3, <1>4

LEMMA SoundIsLinked == TreeInv => LeavesLinked
<1> SUFFICES ASSUME TreeInv, op = Idle, root # Nil, ~failed PROVE LeavesLinked
  BY DEF LeavesLinked
<1>1. PICK L, h, b, s : IsSound(L, h, b, s)
  BY DEF TreeInv
<1>2. /\ Heap(node) /\ Parents(node) /\ Levels(node, h, b) /\ Ascending(node) /\ Spans(node, op, s)
      /\ Live(node, root, op, L) /\ Rooted(node, root, op, L, s) /\ Chained(node, root, L, s) /\ b \in Nat
  BY <1>1 DEF IsSound, Sound, Shape, Whole
<1>3. /\ Tree = L /\ L \subseteq DOMAIN node /\ root \in L /\ ~IsRising(op) /\ L = Under(node, root)
  BY <1>1, <1>2, IdleIsQuiet, TreeIsLive, LiveIsUnder DEF Live, Rooted
<1>4. \A x, y \in Leaves : x # y => s[x] \cap s[y] = {}
  <2>1. \A c \in DOMAIN node : \A p, q \in Under(node, c) :
          node[p].leaf /\ node[q].leaf /\ p # q => s[p] \cap s[q] = {}
    BY <1>2, LeavesApart
  <2> QED
    BY <1>3, <2>1 DEF Leaves
<1>5. \A x \in Leaves : x \in L /\ node[x].leaf /\ s[x] \subseteq Int /\ \E v \in s[x] : v \in Int
  BY <1>1, <1>2, <1>3, SpanHasMember DEF Leaves, Spans
<1> DEFINE LastLeaves == {x \in Leaves : node[x].next = Nil}
<1>6. Cardinality(LastLeaves) = 1
  <2>1. PICK x \in Leaves : node[x].next = Nil
    BY <1>2, <1>3 DEF Chained, Leaves
  <2>2. ASSUME NEW y \in Leaves, node[y].next = Nil
        PROVE  y = x
    <3>1. PICK v \in s[x] : v \in Int
      BY <1>5
    <3>2. PICK w \in s[y] : w \in Int
      BY <1>5, <2>2
    <3>3. /\ \A p \in s[x] : \A u \in Int : p <= u => u \in s[x]
          /\ \A p \in s[y] : \A u \in Int : p <= u => u \in s[y]
      BY <1>2, <1>5, <2>1, <2>2 DEF Chained
    <3>4. v <= w \/ w <= v
      BY <3>1, <3>2
    <3>5. w \in s[x] \/ v \in s[y]
      BY <3>1, <3>2, <3>3, <3>4
    <3> QED
      BY <1>4, <2>2, <3>1, <3>2, <3>5
  <2>3. LastLeaves = {x}
    BY <2>1, <2>2
  <2> QED
    BY <2>3, FS_Singleton
<1>7. ASSUME NEW x \in Leaves, node[x].next # Nil
      PROVE  LET y == node[x].next IN
             /\ y \in Leaves
             /\ \A k \in Range(node[x].keys), m \in Range(node[y].keys) :
                  /\ k < m
                  /\ ~ \E z \in Leaves : \E l \in Range(node[z].keys) : k < l /\ l < m /\ z \notin {x, y}
  <2> DEFINE y == node[x].next
  <2>1. /\ y \in L /\ node[y].leaf
        /\ \A v \in s[x] : \A w \in s[y] :
             /\ v < w
             /\ \A u \in Int : v <= u /\ u <= w => u \in s[x] \/ u \in s[y]
    BY <1>2, <1>5, <1>7 DEF Chained
  <2>2. y \in Leaves
    BY <1>3, <2>1 DEF Leaves
  <2> HIDE DEF y
  <2>3. \A z \in Leaves : \A l \in Range(node[z].keys) : l \in s[z] /\ l \in Int
    BY <1>2, <1>3, <1>5 DEF Spans, Range
  <2>4. ASSUME NEW k \in Range(node[x].keys), NEW m \in Range(node[y].keys)
        PROVE  /\ k < m
               /\ ~ \E z \in Leaves : \E l \in Range(node[z].keys) : k < l /\ l < m /\ z \notin {x, y}
    <3>1. k \in s[x] /\ m \in s[y] /\ k \in Int /\ m \in Int
      BY <2>2, <2>3
    <3>2. ASSUME NEW z \in Leaves, NEW l \in Range(node[z].keys), k < l, l < m, z \notin {x, y}
          PROVE  FALSE
      <4>1. l \in s[z] /\ l \in Int
        BY <2>3
      <4>2. k <= l /\ l <= m
        BY <3>1, <3>2, <4>1
      <4>3. l \in s[x] \/ l \in s[y]
        BY <2>1, <3>1, <4>1, <4>2
      <4> QED
        BY <1>4, <2>2, <3>2, <4>1, <4>3
    <3> QED
      BY <2>1, <3>1, <3>2
  <2> QED
    BY <2>2, <2>4 DEF y
<1> QED
  BY <1>6, <1>7 DEF LeavesLinked

-----------------------------------------------------------------------------
(* The tree implements the map.                                            *)

Resting == op = Idle /\ root # Nil

\* A tree at rest holds its contents, and no tree holds nothing.
LEMMA AtRest ==
  TreeInv => /\ Resting => Holds(node, Under(node, root), Contents) /\ Under(node, root) \subseteq DOMAIN node
             /\ root = Nil => Contents = EmptyMap
             /\ root = Nil /\ ~failed => DOMAIN node = {}
             /\ root = Nil => op = Idle
<1> SUFFICES ASSUME TreeInv
             PROVE  /\ Resting => Holds(node, Under(node, root), Contents) /\ Under(node, root) \subseteq DOMAIN node
                    /\ root = Nil => Contents = EmptyMap
                    /\ root = Nil /\ ~failed => DOMAIN node = {}
                    /\ root = Nil => op = Idle
  OBVIOUS
<1>1. PICK L, h, b, s : IsSound(L, h, b, s)
  BY DEF TreeInv
<1>2. Live(node, root, op, L) /\ Rooted(node, root, op, L, s)
  BY <1>1 DEF IsSound, Sound, Shape
<1>3. ASSUME Resting
      PROVE  Holds(node, Under(node, root), Contents) /\ Under(node, root) \subseteq DOMAIN node
  <2>1. ~IsRising(op) /\ root # Nil
    BY <1>3, IdleIsQuiet DEF Resting
  <2>2. Tree = L /\ Holds(node, L, Contents)
    BY <1>1, <2>1, TreeIsLive, ContentsHold
  <2>3. Tree = Under(node, root)
    BY <2>1 DEF Tree
  <2> QED
    BY <1>2, <2>2, <2>3 DEF Live
<1>4. root = Nil => Contents = EmptyMap
  <2> SUFFICES ASSUME root = Nil PROVE Contents = EmptyMap
    OBVIOUS
  <2>1. Leaves = {}
    BY DEF Leaves, Tree
  <2> QED
    BY <2>1 DEF Contents, EmptyMap
<1>5. root = Nil /\ ~failed => DOMAIN node = {}
  BY SoundLeaksNothing DEF NothingLeaked
<1>6. root = Nil => op = Idle
  BY <1>2 DEF Rooted
<1> QED
  BY <1>3, <1>4, <1>5, <1>6

\* The same leaves hold one map only, and all maps they are within have it as a part.
LEMMA HeldOnce ==
  ASSUME NEW n, NEW L, NEW m1, NEW m2, Holds(n, L, m1)
  PROVE  /\ Holds(n, L, m2) => m1 = m2
         /\ Within(n, L, m2) => Map!Part(m2, m1)
<1>1. ASSUME Within(n, L, m2), NEW k \in DOMAIN m1
      PROVE  k \in DOMAIN m2 /\ m2[k] = m1[k]
  <2>1. PICK x \in L : n[x].leaf /\ \E i \in DOMAIN n[x].keys : n[x].keys[i] = k
    BY DEF Holds
  <2>2. PICK i \in DOMAIN n[x].keys : n[x].keys[i] = k
    BY <2>1
  <2> QED
    BY <1>1, <2>1, <2>2 DEF Holds, Within
<1>2. ASSUME Holds(n, L, m2)
      PROVE  m1 = m2
  <2>1. \A k \in DOMAIN m2 : k \in DOMAIN m1
    <3> TAKE k \in DOMAIN m2
    <3>1. PICK x \in L : n[x].leaf /\ \E i \in DOMAIN n[x].keys : n[x].keys[i] = k
      BY <1>2 DEF Holds
    <3> QED
      BY <3>1 DEF Holds, Within
  <2>2. Within(n, L, m2)
    BY <1>2 DEF Holds
  <2>3. DOMAIN m1 = DOMAIN m2 /\ \A k \in DOMAIN m1 : m1[k] = m2[k]
    BY <1>1, <2>1, <2>2
  <2>4. m1 = [k \in DOMAIN m1 |-> m1[k]] /\ m2 = [k \in DOMAIN m2 |-> m2[k]]
    BY <1>2 DEF Holds
  <2> QED
    BY <2>3, <2>4
<1>3. ASSUME Within(n, L, m2)
      PROVE  Map!Part(m2, m1)
  BY <1>1, <1>3 DEF Map!Part
<1> QED
  BY <1>2, <1>3

\* The map and the call that the tree shows.
TheMap  == IF op = Idle THEN Contents ELSE was
TheCall == IF op = Idle THEN [kind |-> "none"] ELSE [kind |-> op.kind, key |-> op.key, row |-> op.row]

\* What a step that returns has left is what the map is then.
LEMMA Returned ==
  /\ TreeInv' /\ op' = Idle /\ root' # Nil =>
       Holds(node', Under(node', root'), Contents') /\ Under(node', root') \subseteq DOMAIN node'
  /\ TreeInv' /\ root' = Nil => Contents' = EmptyMap
<1> DEFINE Rest == /\ op = Idle /\ root # Nil =>
                        Holds(node, Under(node, root), Contents) /\ Under(node, root) \subseteq DOMAIN node
                   /\ root = Nil => Contents = EmptyMap
<1>1. TreeInv => Rest
  BY AtRest DEF Resting
<1> HIDE DEF Rest
<1>2. TreeInv' => Rest'
  BY <1>1, PTL
<1> QED
  BY <1>2 DEF Rest

LEMMA Answered ==
  ASSUME TreeInv', op' = Idle, root' # Nil, NEW m
  PROVE  /\ Holds(node', Under(node', root'), m) => TheMap' = m
         /\ Within(node', Under(node', root'), m) => Map!Part(m, TheMap')
<1>1. Holds(node', Under(node', root'), Contents') /\ TheMap' = Contents'
  BY Returned DEF TheMap
<1> QED
  BY <1>1, HeldOnce

\* A tree that is made or destroyed, or cannot be made, is empty.
LEMMA ClearStep ==
  ASSUME TreeInv, TreeInv', bplus_create \/ CreateFails \/ bplus_destroy \/ NewProcess
  PROVE  TheMap' = Map!Empty /\ TheCall = Map!NoReq /\ TheCall' = Map!NoReq /\ ans' = Map!Done
<1>1. op = Idle /\ op' = Idle /\ ans' = 0
  BY DEF bplus_create, CreateFails, bplus_destroy, NewProcess, Done
<1>2. EmptyMap = Map!Empty
  BY DEF EmptyMap, Map!Empty
<1>3. Contents' = EmptyMap
  <2>1. CASE bplus_destroy \/ CreateFails \/ NewProcess
    <3>1. root' = Nil
      BY <2>1 DEF bplus_destroy, CreateFails, NewProcess
    <3> QED
      BY <3>1, Returned
  <2>2. CASE bplus_create
    <3>1. DOMAIN node = {} /\ Cardinality(DOMAIN node) + 1 <= Cardinality(Addr)
      <4>1. DOMAIN node = {}
        BY <2>2, AtRest DEF bplus_create
      <4>2. IsFiniteSet(Addr) /\ Addr # {}
        BY TreeAssumption
      <4> QED
        BY <4>1, <4>2, FS_EmptySet, FS_CardinalityType
    <3>2. Fresh \in Addr /\ Fresh # Nil
      BY <3>1, TreeAssumption DEF Fresh
    <3>3. /\ root' = Fresh /\ DOMAIN node' = {Fresh} /\ node'[Fresh] = NewLeaf
      BY <2>2, <3>1 DEF bplus_create, Alloc
    <3>4. Holds(node', Under(node', root'), Contents') /\ Under(node', root') \subseteq {Fresh}
      BY <1>1, <3>2, <3>3, Returned
    <3>5. DOMAIN node'[Fresh].keys = {}
      <4>1. NewLeaf.keys = <<>>
        BY DEF NewLeaf
      <4> QED
        BY <3>3, <4>1
    <3>6. DOMAIN Contents' = {} /\ Contents' = [k \in DOMAIN Contents' |-> Contents'[k]]
      BY <3>4, <3>5 DEF Holds
    <3> QED
      BY <3>6 DEF EmptyMap
  <2> QED
    BY <2>1, <2>2
<1> QED
  BY <1>1, <1>2, <1>3 DEF TheMap, TheCall, Map!NoReq, Map!Done

\* A call that has begun, and that is not over with the step, shows nothing new.
LEMMA InnerStep ==
  ASSUME TreeInv, find_leaf \/ leaf_split_insert \/ internal_split_insert
  PROVE  TheMap' = TheMap /\ TheCall' = TheCall /\ ans' = ans
<1>1. PICK L, h, b, s : IsSound(L, h, b, s)
  BY DEF TreeInv
<1>2. op.pc \in {"find_leaf", "insert_into_parent"} /\ op # Idle
  BY AtLeafIsQuiet, IdleIsQuiet
     DEF find_leaf, leaf_split_insert, Inserts, AtLeaf, internal_split_insert, Rising, IsRising
<1>3. op \in Calls
  BY <1>1, <1>2, CallHasRoot
<1>4. was' = was /\ ans' = ans
  BY DEF find_leaf, leaf_split_insert, internal_split_insert
<1>5. op'.pc \in {"find_leaf", "insert_into_parent"}
      /\ op'.kind = op.kind /\ op'.key = op.key /\ op'.row = op.row
  <2>1. CASE find_leaf
    BY <1>3, <2>1 DEF find_leaf, Calls
  <2>2. CASE leaf_split_insert
    BY <1>3, <2>2 DEF leaf_split_insert, Calls
  <2>3. CASE internal_split_insert
    BY <1>3, <2>3 DEF internal_split_insert, Calls
  <2> QED
    BY <2>1, <2>2, <2>3
<1>6. op' # Idle
  BY <1>5 DEF Idle
<1> QED
  BY <1>2, <1>4, <1>5, <1>6 DEF TheMap, TheCall

LEMMA CallShown ==
  ASSUME Call
  PROVE  /\ TheCall = Map!NoReq /\ TheMap' = TheMap /\ ans' = Map!Done
         /\ \E kind \in Kinds, k \in Keys, r \in Rows : TheCall' = [kind |-> kind, key |-> k, row |-> r]
<1>1. op = Idle /\ was' = Contents /\ ans' = 0
  BY DEF Call, Done
<1>2. PICK kind \in Kinds, a \in Args :
        op' = [pc |-> "find_leaf", kind |-> kind, key |-> a[1], row |-> a[2],
               at |-> root, right |-> Nil, sep |-> 0]
  BY DEF Call, Kinds
<1>3. op' # Idle /\ op'.kind = kind /\ op'.key = a[1] /\ op'.row = a[2]
  BY <1>2 DEF Idle
<1>4. a[1] \in Keys /\ a[2] \in Rows
  BY DEF Keys, Rows
<1> QED
  BY <1>1, <1>3, <1>4 DEF TheMap, TheCall, Map!NoReq, Map!Done

\* What every step that returns has in common.
LEMMA ReturnShown ==
  ASSUME TreeInv, op # Idle, op' = Idle, root' = root \/ (root' = Fresh /\ Fresh \in Addr)
  PROVE  /\ TheMap = was /\ TheCall = [kind |-> op.kind, key |-> op.key, row |-> op.row]
         /\ TheCall # Map!NoReq /\ TheCall' = Map!NoReq /\ root' # Nil
         /\ op.kind \in Kinds
<1>1. PICK L, h, b, s : IsSound(L, h, b, s)
  BY DEF TreeInv
<1>2. op \in Calls /\ root # Nil
  BY <1>1, CallHasRoot
<1>3. op.kind \in Kinds
  BY <1>2 DEF Calls
<1>4. root' # Nil
  BY <1>2, TreeAssumption
<1>5. [kind |-> op.kind, key |-> op.key, row |-> op.row] # [kind |-> "none"]
  <2> DEFINE q == [kind |-> op.kind, key |-> op.key, row |-> op.row]
             z == [kind |-> "none"]
  <2>1. q.kind = op.kind /\ z.kind = "none" /\ op.kind # "none"
    BY <1>3 DEF Kinds
  <2> HIDE DEF q, z
  <2>2. q # z
    BY <2>1
  <2> QED
    BY <2>2 DEF q, z
<1> QED
  BY <1>3, <1>4, <1>5 DEF TheMap, TheCall, Map!NoReq

\* A call that looks up, or that leaves the tree as it was.
LEMMA LookedUpStep ==
  ASSUME TreeInv, TreeInv', bplus_search \/ InsertRefused \/ SplitFails
  PROVE  /\ TheMap = was /\ TheMap' = was
         /\ TheCall = [kind |-> op.kind, key |-> op.key, row |-> op.row]
         /\ TheCall # Map!NoReq /\ TheCall' = Map!NoReq /\ op.kind \in Kinds
         /\ Found <=> op.key \in DOMAIN was
         /\ Found => RowOf(node[op.at], op.key) = was[op.key]
<1>1. PICK L, h, b, s : IsSound(L, h, b, s)
  BY DEF TreeInv
<1>2. AtLeaf /\ op' = Idle /\ node' = node /\ root' = root
  BY DEF bplus_search, InsertRefused, SplitFails, Inserts, Return
<1>3. ~IsRising(op) /\ op # Idle
  BY <1>2, AtLeafIsQuiet DEF AtLeaf
<1>4. /\ Holds(node, L, was) /\ (Found <=> op.key \in DOMAIN was)
      /\ (Found => RowOf(node[op.at], op.key) = was[op.key])
  BY <1>1, <1>2, LookedUp
<1>5. root # Nil /\ Tree = L
  BY <1>1, <1>3, CallHasRoot, TreeIsLive
<1>6. Holds(node', Under(node', root'), was)
  BY <1>2, <1>4, <1>5 DEF Tree
<1>7. TheMap' = was
  BY <1>2, <1>5, <1>6, Answered
<1>8. /\ TheMap = was /\ TheCall = [kind |-> op.kind, key |-> op.key, row |-> op.row]
      /\ TheCall # Map!NoReq /\ TheCall' = Map!NoReq /\ op.kind \in Kinds
  <2>1. op' = Idle /\ root' = root
    BY <1>2
  <2>2. op # Idle
    BY <1>3
  <2> QED
    BY <2>1, <2>2, ReturnShown
<1> QED
  BY <1>4, <1>7, <1>8

LEMMA SearchShown ==
  ASSUME TreeInv, TreeInv', bplus_search
  PROVE  Map!Search
<1>1. op.kind = "search" /\ ans' = IF Found THEN RowOf(node[op.at], op.key) ELSE NotFound
  BY DEF bplus_search, Return
<1>2. /\ TheMap = was /\ TheMap' = was /\ TheCall = [kind |-> op.kind, key |-> op.key, row |-> op.row]
      /\ TheCall # Map!NoReq /\ TheCall' = Map!NoReq
      /\ Found <=> op.key \in DOMAIN was
      /\ Found => RowOf(node[op.at], op.key) = was[op.key]
  BY LookedUpStep
<1>3. TheCall.kind = "search" /\ TheCall.key = op.key
  BY <1>1, <1>2
<1>4. ans' = IF TheCall.key \in DOMAIN TheMap THEN TheMap[TheCall.key] ELSE NotFound
  BY <1>1, <1>2, <1>3
<1> QED
  BY <1>2, <1>3, <1>4 DEF Map!Search, Map!Answer, TheMap, TheCall

LEMMA RefuseShown ==
  ASSUME TreeInv, TreeInv', InsertRefused
  PROVE  Map!Refuse
<1>1. op.kind = "insert" /\ Found /\ ans' = Dup
  BY DEF InsertRefused, Return
<1>2. /\ TheMap = was /\ TheMap' = was /\ TheCall = [kind |-> op.kind, key |-> op.key, row |-> op.row]
      /\ TheCall # Map!NoReq /\ TheCall' = Map!NoReq /\ op.key \in DOMAIN was
  BY <1>1, LookedUpStep
<1>3. TheCall.kind = "insert" /\ TheCall.key \in DOMAIN TheMap
  BY <1>1, <1>2
<1> QED
  BY <1>1, <1>2, <1>3 DEF Map!Refuse, Map!Answer, TheMap, TheCall

\* An insertion that is done, on its way down or up, and one that fails.
LEMMA AddShown ==
  ASSUME TreeInv, TreeInv', op # Idle, op' = Idle, root' = root \/ (root' = Fresh /\ Fresh \in Addr),
         op.kind \in {"insert", "replace"}
  PROVE  /\ /\ op.key \notin DOMAIN was \/ op.kind = "replace"
            /\ ans' = Done
            /\ Holds(node', Under(node', root'), Added(was, op.key, op.row))
            => Map!Insert \/ Map!Replace
         /\ /\ op.key \notin DOMAIN was
            /\ ans' = NoMemory
            /\ Within(node', Under(node', root'), Added(was, op.key, op.row))
            => Map!Fail
<1>1. /\ TheMap = was /\ TheCall = [kind |-> op.kind, key |-> op.key, row |-> op.row]
      /\ TheCall # Map!NoReq /\ TheCall' = Map!NoReq /\ root' # Nil
  BY ReturnShown
<1>2. TheCall.kind = op.kind /\ TheCall.key = op.key /\ TheCall.row = op.row
  BY <1>1
<1>3. Map!With(TheMap, TheCall.key, TheCall.row) = Added(was, op.key, op.row)
  BY <1>1, <1>2 DEF Map!With, Added
<1>4. ASSUME op.key \notin DOMAIN was \/ op.kind = "replace", ans' = Done,
             Holds(node', Under(node', root'), Added(was, op.key, op.row))
      PROVE  Map!Insert \/ Map!Replace
  <2>1. TheMap' = Map!With(TheMap, TheCall.key, TheCall.row)
    BY <1>1, <1>3, <1>4, Answered
  <2>2. ans' = Map!Done
    BY <1>4 DEF Map!Done, Done
  <2>3. CASE op.kind = "replace"
    BY <1>1, <1>2, <2>1, <2>2, <2>3 DEF Map!Replace, Map!Answer, TheMap, TheCall
  <2>4. CASE op.kind = "insert"
    <3>1. TheCall.kind = "insert" /\ TheCall.key \notin DOMAIN TheMap
      BY <1>1, <1>2, <1>4, <2>4
    <3> QED
      BY <1>1, <2>1, <2>2, <3>1 DEF Map!Insert, Map!Answer, TheMap, TheCall
  <2> QED
    BY <2>3, <2>4
<1>5. ASSUME op.key \notin DOMAIN was, ans' = NoMemory,
             Within(node', Under(node', root'), Added(was, op.key, op.row))
      PROVE  Map!Fail
  <2>1. Map!Part(Map!With(TheMap, TheCall.key, TheCall.row), TheMap')
    BY <1>1, <1>3, <1>5, Answered
  <2>2. TheCall.kind \in {"insert", "replace"} /\ TheCall.key \notin DOMAIN TheMap
    BY <1>1, <1>2, <1>5
  <2> QED
    BY <1>1, <1>5, <2>1, <2>2 DEF Map!Fail, Map!Answer, TheMap, TheCall
<1> QED
  BY <1>4, <1>5

LEMMA SplitFailsShown ==
  ASSUME TreeInv, TreeInv', SplitFails
  PROVE  Map!Fail
<1>1. op.kind # "search" /\ ~Found /\ ans' = NoMemory
  BY DEF SplitFails, Inserts, Return
<1>2. /\ TheMap = was /\ TheMap' = was /\ TheCall = [kind |-> op.kind, key |-> op.key, row |-> op.row]
      /\ TheCall # Map!NoReq /\ TheCall' = Map!NoReq /\ op.key \notin DOMAIN was
      /\ op.kind \in Kinds
  BY <1>1, LookedUpStep
<1>3. /\ TheCall.kind \in {"insert", "replace"} /\ TheCall.key \notin DOMAIN TheMap
      /\ TheCall.key = op.key /\ TheCall.row = op.row
  BY <1>1, <1>2 DEF Kinds
<1>4. Map!Part(Map!With(TheMap, TheCall.key, TheCall.row), TheMap')
  BY <1>2, <1>3 DEF Map!Part, Map!With
<1> QED
  BY <1>1, <1>2, <1>3, <1>4 DEF Map!Fail, Map!Answer, TheMap, TheCall

\* There is an address for a new root.
LEMMA RootIsFresh ==
  ASSUME NEW L, NEW h, NEW b, NEW s, IsSound(L, h, b, s), NewRoot
  PROVE  Fresh \in Addr
<1>1. Sound(node, root, op, was, failed, L, h, b, s) /\ b \in Nat /\ IsRising(op) /\ Parent = Nil /\ Rising
  BY DEF IsSound, NewRoot, Rising, IsRising
<1>2. op.at = root
  BY <1>1, RisingParent
<1>3. Heap(node) /\ Cardinality(DOMAIN node) \in Nat /\ Cardinality(Addr) \in Nat
  <2>1. Heap(node)
    BY <1>1 DEF Sound, Shape
  <2>2. IsFiniteSet(DOMAIN node) /\ IsFiniteSet(Addr)
    BY <2>1, FS_Subset, TreeAssumption DEF Heap
  <2> QED
    BY <2>1, <2>2, FS_CardinalityType
<1>4. Cardinality(DOMAIN node) + 1 <= Cardinality(Addr)
  <2>1. Cardinality(DOMAIN node) + (h[root] - h[op.at]) + 1 <= Cardinality(Addr)
    BY <1>1 DEF Sound, Shape, Room
  <2>2. h[root] \in Nat
    BY <1>1, LevelOfRoot
  <2> QED
    BY <1>2, <1>3, <2>1, <2>2
<1> QED
  BY <1>3, <1>4, FreshIsFree

LEMMA StepShown ==
  ASSUME TreeInv, TreeInv', ReplaceRow \/ leaf_insert_sorted \/ NewRoot \/ InsertIntoParent \/ RiseFails
  PROVE  Map!Insert \/ Map!Replace \/ Map!Fail
<1>1. PICK L, h, b, s : IsSound(L, h, b, s)
  BY DEF TreeInv
<1>2. ASSUME NewRoot \/ InsertIntoParent \/ RiseFails
      PROVE  /\ op # Idle /\ op' = Idle /\ op.kind \in {"insert", "replace"} /\ op.key \notin DOMAIN was
             /\ root' = root \/ (root' = Fresh /\ Fresh \in Addr)
  <2>1. Rising /\ op' = Idle
    BY <1>2 DEF NewRoot, InsertIntoParent, RiseFails, Return
  <2>2. IsRising(op) /\ op # Idle
    BY <2>1, IdleIsQuiet DEF Rising, IsRising
  <2>3. op.kind # "search" /\ op.kind \in Kinds
    BY <1>1, <2>2 DEF IsSound, Sound, Shape, Calling, Calls
  <2>4. op.kind \in {"insert", "replace"}
    BY <2>3 DEF Kinds
  <2>5. op.key \notin DOMAIN was
    BY <1>1, <2>2 DEF IsSound, Sound, Content
  <2>6. root' = root \/ (root' = Fresh /\ Fresh \in Addr)
    <3>1. CASE InsertIntoParent \/ RiseFails
      BY <3>1 DEF InsertIntoParent, RiseFails
    <3>2. CASE NewRoot
      <4>1. root' = Fresh
        BY <3>2 DEF NewRoot
      <4>2. Fresh \in Addr
        BY <1>1, <3>2, RootIsFresh
      <4> QED
        BY <4>1, <4>2
    <3> QED
      BY <1>2, <3>1, <3>2
  <2> QED
    BY <2>1, <2>2, <2>4, <2>5, <2>6
<1>3. CASE ReplaceRow
  <2>1. AtLeaf /\ op.kind = "replace" /\ op' = Idle /\ root' = root /\ ans' = Done
    BY <1>3 DEF ReplaceRow, Return
  <2>2. op # Idle
    BY <2>1, AtLeafIsQuiet DEF AtLeaf
  <2>3. Holds(node', Under(node', root'), Added(was, op.key, op.row))
    BY <1>1, <1>3, ReplaceRowStep
  <2> QED
    BY <2>1, <2>2, <2>3, AddShown
<1>4. CASE leaf_insert_sorted
  <2>1. Inserts /\ op' = Idle /\ root' = root /\ ans' = Done
    BY <1>4 DEF leaf_insert_sorted, Return
  <2>2. op # Idle
    BY <2>1, AtLeafIsQuiet DEF Inserts, AtLeaf
  <2>3. Holds(node', Under(node', root'), Added(was, op.key, op.row))
    BY <1>1, <1>4, LeafInsertStep
  <2>4. op.key \notin DOMAIN was
    BY <1>1, <2>1, KeyIsNew
  <2>5. op.kind \in {"insert", "replace"}
    BY <1>1, <2>1, <2>2, CallHasRoot DEF Calls, Kinds, Inserts
  <2> QED
    BY <2>1, <2>2, <2>3, <2>4, <2>5, AddShown
<1>5. CASE NewRoot \/ InsertIntoParent
  <2>1. ans' = Done
    BY <1>5 DEF NewRoot, InsertIntoParent, Return
  <2>2. Holds(node', Under(node', root'), Added(was, op.key, op.row))
    BY <1>1, <1>5, NewRootStep, InsertIntoParentStep
  <2> QED
    BY <1>2, <1>5, <2>1, <2>2, AddShown
<1>6. CASE RiseFails
  <2>1. ans' = NoMemory
    BY <1>6 DEF RiseFails, Return
  <2>2. Within(node', Under(node', root'), Added(was, op.key, op.row))
    BY <1>1, <1>6, RiseFailsStep
  <2> QED
    BY <1>2, <1>6, <2>1, <2>2, AddShown
<1> QED
  BY <1>3, <1>4, <1>5, <1>6

\* A step that is not taken shows nothing.
LEMMA StutterShown == UNCHANGED vars => TheMap' = TheMap /\ TheCall' = TheCall /\ ans' = ans
BY DEF vars, TheMap, TheCall, Contents, Leaves, Tree

\* Every step of the tree is a step of the map, or none.
LEMMA Shown ==
  ASSUME TreeInv, TreeInv', [Next]_vars
  PROVE  [Map!Next]_(Map!vars)
<1>1. CASE bplus_create \/ CreateFails \/ bplus_destroy \/ NewProcess
  BY <1>1, ClearStep DEF Map!Next, Map!Clear, TheMap, TheCall
<1>2. CASE Call
  <2>1. /\ TheCall = Map!NoReq /\ TheMap' = TheMap /\ ans' = Map!Done
        /\ \E kind \in Kinds, k \in Keys, r \in Rows : TheCall' = [kind |-> kind, key |-> k, row |-> r]
    BY <1>2, CallShown
  <2>2. Map!Call
    BY <2>1 DEF Map!Call, TheMap, TheCall, Kinds
  <2> QED
    BY <2>2 DEF Map!Next
<1>3. CASE find_leaf \/ leaf_split_insert \/ internal_split_insert
  <2>1. TheMap' = TheMap /\ TheCall' = TheCall /\ ans' = ans
    BY <1>3, InnerStep
  <2> QED
    BY <2>1 DEF Map!vars, TheMap, TheCall
<1>4. CASE bplus_search
  BY <1>4, SearchShown DEF Map!Next
<1>5. CASE InsertRefused
  BY <1>5, RefuseShown DEF Map!Next
<1>6. CASE SplitFails
  BY <1>6, SplitFailsShown DEF Map!Next
<1>7. CASE ReplaceRow \/ leaf_insert_sorted \/ NewRoot \/ InsertIntoParent \/ RiseFails
  BY <1>7, StepShown DEF Map!Next
<1>8. CASE UNCHANGED vars
  <2>1. TheMap' = TheMap /\ TheCall' = TheCall /\ ans' = ans
    BY <1>8, StutterShown
  <2> QED
    BY <2>1 DEF Map!vars, TheMap, TheCall
<1> QED
  BY <1>1, <1>2, <1>3, <1>4, <1>5, <1>6, <1>7, <1>8 DEF Next, Step

LEMMA MapBegins == Init => Map!Init
<1> SUFFICES ASSUME Init PROVE Map!Init
  OBVIOUS
<1>1. root = Nil /\ op = Idle /\ ans = 0
  BY DEF Init, Done
<1>2. Contents = Map!Empty
  BY <1>1, InitIsSound, AtRest DEF EmptyMap, Map!Empty
<1> QED
  BY <1>1, <1>2 DEF Map!Init, Map!NoReq, Map!Done

-----------------------------------------------------------------------------
(* The theorems.                                                           *)

\* The arrays of the nodes are never written past their end, whatever calls
\* are made and wherever an allocation fails (bplus_tree.c:107-160, 183-287).
THEOREM TypeCorrect == Spec => []TypeOK
BY TreeSound, SoundTypes, PTL

\* Between calls parents and children agree and no node is reached twice: a
\* tree is freed once, and its splits find their way up (bplus_tree.c:36-46, 216-241).
THEOREM TreeShaped == Spec => []IsTree
BY TreeSound, SoundIsTree, PTL

\* Between calls the separators tell find_leaf the truth (bplus_tree.c:73-79).
THEOREM SeparatorsTrue == Spec => []Separated
BY TreeSound, SoundIsSeparated, PTL

\* Between calls all leaves are equally deep and no node but the root is less
\* than about half full, after failed allocations too (bplus_tree.c:127-160, 183-287).
THEOREM AllBalanced == Spec => []Balanced
BY TreeSound, SoundIsBalanced, PTL

\* As long as no allocation failed the chain of the leaves goes through all of
\* them in the order of their keys (bplus_tree.c:155-156).
THEOREM LeavesInOrder == Spec => []LeavesLinked
BY TreeSound, SoundIsLinked, PTL

\* What a tree allocated and did not lose in a failure, destroying it frees
\* (bplus_tree.c:36-46, 59-64).
THEOREM NothingLost == Spec => []NothingLeaked
BY TreeSound, SoundLeaksNothing, PTL

\* The tree is the map that bplus_tree.h promises: it answers every call as
\* the map does, changes as the map does, and an insertion that fails for want
\* of memory can lose rows and cannot make up or alter any (bplus_tree.c:292-325).
THEOREM MapImplemented == Spec => ImplementsKeyMap
<1>1. TreeInv /\ TreeInv' /\ [Next]_vars => [Map!Next]_(Map!vars)
  BY Shown
<1> QED
  BY <1>1, MapBegins, TreeSound, PTL DEF Spec, ImplementsKeyMap, Map!Spec
=============================================================================
