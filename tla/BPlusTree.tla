------------------------------ MODULE BPlusTree ------------------------------
(***************************************************************************)
(* The B+ tree of bplus_tree.c, node by node: a heap of nodes that point   *)
(* at their children, at their parent and, the leaves, at the leaf on      *)
(* their right.  A call goes down from the root one node per step.  When   *)
(* the leaf it reaches is full an insertion splits it and comes up again,  *)
(* one insert_into_parent per step, until a node has room or a new root is *)
(* made.  An allocation can fail at each of these steps, and what was      *)
(* split below is then left as it is.                                      *)
(*                                                                         *)
(* The key, payload and child arrays of a node are sequences; their bound, *)
(* BP_MAX_KEYS, is part of the type invariant, because the code writes to  *)
(* the arrays without looking.                                             *)
(***************************************************************************)
EXTENDS Integers, FiniteSets, SequencesExt

CONSTANTS
  Args,       \* the pairs of a key and a row that callers pass
  MaxKeys,    \* BP_MAX_KEYS
  Addr,       \* bound: the addresses there are
  Nil,        \* NULL
  FirstKeys,  \* bound: keys that are inserted first, in ascending order
  MayFail     \* whether calloc can fail

ASSUME TreeAssumption ==
  /\ Args \subseteq Int \X Nat
  /\ MaxKeys \in Nat \ {0, 1}
  /\ Addr \subseteq Nat /\ IsFiniteSet(Addr) /\ Addr # {}
  /\ Nil \notin Addr
  /\ FirstKeys \subseteq {a[1] : a \in Args}
  /\ MayFail \in BOOLEAN

Keys == {a[1] : a \in Args}
Rows == {a[2] : a \in Args}

VARIABLES
  node,     \* the nodes that are allocated, by address
  root,     \* t->root (Nil: there is no tree)
  op,       \* the call in progress, and where it is
  ans,      \* what the last call returned
  was,      \* history: the keys and rows of the tree when the call began
  failed    \* history: an allocation has failed

vars == <<node, root, op, ans, was, failed>>

Done     == 0
Dup      == -1
NotFound == -1
NoMemory == -2

Idle == [pc |-> "idle"]

-----------------------------------------------------------------------------
(* Nodes.                                                                  *)

NewLeaf == [leaf |-> TRUE, keys |-> <<>>, rows |-> <<>>, kids |-> <<>>,
            parent |-> Nil, next |-> Nil]
NewInternal == [NewLeaf EXCEPT !.leaf = FALSE]

\* node_new returns an address that is not in use.
Fresh == CHOOSE a \in Addr : a \notin DOMAIN node
Alloc(n, a, x) == [b \in DOMAIN n \cup {a} |-> IF b = a THEN x ELSE n[b]]

\* Mutant: a key equal to a separator goes left.
ChildLeftOnEqual(x, k) == Min({i \in DOMAIN x.keys : k <= x.keys[i]} \cup {Len(x.keys) + 1})

\* find_leaf: the number of the child to go to, for key k.
Child(x, k) == Min({i \in DOMAIN x.keys : k < x.keys[i]} \cup {Len(x.keys) + 1})

\* Mutant: a new key goes to the end.
PlaceAtEnd(x, k) == Len(x.keys) + 1

\* The place of k in a sorted leaf.
Place(x, k) == Max({i \in DOMAIN x.keys : x.keys[i] <= k} \cup {0}) + 1

\* insert_into_parent: which child of p left is (one too many: none).
KidNo(p, left) == Min({i \in DOMAIN p.kids : p.kids[i] = left} \cup {Len(p.kids) + 1})

HasKey(x, k) == k \in Range(x.keys)
RowOf(x, k)  == x.rows[CHOOSE i \in DOMAIN x.keys : x.keys[i] = k]

\* The nodes under x, itself included.
Under(n, x) ==
  LET under[y \in DOMAIN n] ==
        {y} \cup UNION {under[n[y].kids[i]] : i \in DOMAIN n[y].kids}
  IN  under[x]

Tree   == IF root = Nil THEN {} ELSE Under(node, root)
Leaves == {x \in Tree : node[x].leaf}

\* The keys a search can reach, and their rows.
Contents ==
  [k \in UNION {Range(node[x].keys) : x \in Leaves} |->
     RowOf(node[CHOOSE x \in Leaves : HasKey(node[x], k)], k)]

EmptyMap == [k \in {} |-> 0]

-----------------------------------------------------------------------------
Init == /\ node = [a \in {} |-> NewLeaf] /\ root = Nil
        /\ op = Idle /\ ans = Done
        /\ was = EmptyMap /\ failed = FALSE

bplus_create ==
  /\ op = Idle /\ root = Nil /\ ~failed
  /\ root' = Fresh
  /\ node' = Alloc(node, Fresh, NewLeaf)
  /\ ans' = Done
  /\ UNCHANGED <<op, was, failed>>

\* There is no memory for the handle or for the root: no tree, nothing kept.
CreateFails ==
  /\ MayFail /\ op = Idle /\ root = Nil /\ ~failed
  /\ failed' = TRUE
  /\ ans' = Done
  /\ UNCHANGED <<node, root, op, was>>

\* Mutant: the children are not freed.
bplus_destroy_root ==
  /\ op = Idle /\ root # Nil
  /\ node' = Restrict(node, DOMAIN node \ {root})
  /\ root' = Nil
  /\ ans' = Done
  /\ UNCHANGED <<op, was, failed>>

bplus_destroy ==
  /\ op = Idle /\ root # Nil
  /\ node' = Restrict(node, DOMAIN node \ Tree)
  /\ root' = Nil
  /\ ans' = Done
  /\ UNCHANGED <<op, was, failed>>

\* A process in which an allocation failed makes no other tree; what it leaked
\* goes with it.
NewProcess ==
  /\ op = Idle /\ root = Nil /\ failed
  /\ node' = [a \in {} |-> NewLeaf]
  /\ failed' = FALSE
  /\ ans' = Done
  /\ UNCHANGED <<root, op, was>>

\* An insertion begins only when it will not run out of addresses, and when
\* the keys that come before it are there.
InTurn(k) == /\ Cardinality(DOMAIN node) + Cardinality(Tree \ Leaves) + 2 <= Cardinality(Addr)
             /\ \A f \in FirstKeys : k \notin FirstKeys \/ f < k => f \in DOMAIN Contents

Call ==
  /\ op = Idle /\ root # Nil
  /\ \E kind \in {"search", "insert", "replace"}, a \in Args :
       /\ kind # "search" => InTurn(a[1])
       /\ op' = [pc |-> "find_leaf", kind |-> kind, key |-> a[1], row |-> a[2],
                 at |-> root, right |-> Nil, sep |-> 0]
  /\ ans' = Done
  /\ was' = Contents
  /\ UNCHANGED <<node, root, failed>>

Return(a) == op' = Idle /\ ans' = a /\ was' = EmptyMap

\* Mutant: the loop does not move on to the child.
find_leaf_stays == op.pc = "find_leaf" /\ ~node[op.at].leaf /\ UNCHANGED vars

find_leaf ==
  LET x == node[op.at] IN
  /\ op.pc = "find_leaf" /\ ~x.leaf
  /\ op' = [op EXCEPT !.at = x.kids[Child(x, op.key)]]
  /\ UNCHANGED <<node, root, ans, was, failed>>

AtLeaf == op.pc = "find_leaf" /\ node[op.at].leaf
Found  == HasKey(node[op.at], op.key)

\* Mutant: one key too late.
FullLate == Len(node[op.at].keys) > MaxKeys
Full     == Len(node[op.at].keys) = MaxKeys

bplus_search ==
  /\ AtLeaf /\ op.kind = "search"
  /\ Return(IF Found THEN RowOf(node[op.at], op.key) ELSE NotFound)
  /\ UNCHANGED <<node, root, failed>>

InsertRefused ==
  /\ AtLeaf /\ op.kind = "insert" /\ Found
  /\ Return(Dup)
  /\ UNCHANGED <<node, root, failed>>

ReplaceRow ==
  LET x == node[op.at]
      i == CHOOSE j \in DOMAIN x.keys : x.keys[j] = op.key IN
  /\ AtLeaf /\ op.kind = "replace" /\ Found
  /\ node' = [node EXCEPT ![op.at].rows[i] = op.row]
  /\ Return(Done)
  /\ UNCHANGED <<root, failed>>

\* An insertion has reached the leaf its key belongs to.
Inserts == AtLeaf /\ op.kind # "search" /\ ~Found

leaf_insert_sorted ==
  LET i == Place(node[op.at], op.key) IN
  /\ Inserts /\ ~Full
  /\ node' = [node EXCEPT ![op.at].keys = InsertAt(@, i, op.key),
                          ![op.at].rows = InsertAt(@, i, op.row)]
  /\ Return(Done)
  /\ UNCHANGED <<root, failed>>

\* Mutant: all but the last.
SplitLast(n) == n - 1

\* Of n keys a leaf that is split keeps half, or one more than half.
Split(n) == (n + 1) \div 2

\* Mutant: the new leaf is the last of the chain.
RightLeafLast(x, keys, rows) ==
  [NewLeaf EXCEPT !.keys = keys, !.rows = rows, !.parent = x.parent]

\* The new leaf on the right of the leaf x that is split.
RightLeaf(x, keys, rows) ==
  [NewLeaf EXCEPT !.keys = keys, !.rows = rows, !.parent = x.parent, !.next = x.next]

leaf_split_insert ==
  LET x  == node[op.at]
      i  == Child(x, op.key)
      ks == InsertAt(x.keys, i, op.key)
      rs == InsertAt(x.rows, i, op.row)
      n  == MaxKeys + 1
      h  == Split(n)
      r  == Fresh
  IN
  /\ Inserts /\ Full
  /\ node' = Alloc([node EXCEPT ![op.at].keys = SubSeq(ks, 1, h),
                                ![op.at].rows = SubSeq(rs, 1, h),
                                ![op.at].next = r],
                   r, RightLeaf(x, SubSeq(ks, h + 1, n), SubSeq(rs, h + 1, n)))
  /\ op' = [op EXCEPT !.pc = "insert_into_parent", !.right = r, !.sep = ks[h + 1]]
  /\ UNCHANGED <<root, ans, was, failed>>

SplitFails ==
  /\ MayFail /\ ~failed /\ Inserts /\ Full
  /\ Return(NoMemory)
  /\ failed' = TRUE
  /\ UNCHANGED <<node, root>>

\* insert_into_parent(t, op.at, op.sep, op.right).
Parent == node[op.at].parent
Rising == op.pc = "insert_into_parent"

NewRoot ==
  LET a == Fresh IN
  /\ Rising /\ Parent = Nil
  /\ node' = Alloc([node EXCEPT ![op.at].parent = a, ![op.right].parent = a],
                   a, [NewInternal EXCEPT !.keys = <<op.sep>>, !.kids = <<op.at, op.right>>])
  /\ root' = a
  /\ Return(Done)
  /\ UNCHANGED failed

\* Mutant: the new child goes in front of the one it was split from.
InsertIntoParentSwapped ==
  LET p == Parent
      i == KidNo(node[p], op.at) IN
  /\ Rising /\ p # Nil /\ Len(node[p].keys) < MaxKeys /\ i <= Len(node[p].kids)
  /\ node' = [node EXCEPT ![p].keys = InsertAt(@, i, op.sep),
                          ![p].kids = InsertAt(@, i, op.right),
                          ![op.right].parent = p]
  /\ Return(Done)
  /\ UNCHANGED <<root, failed>>

InsertIntoParent ==
  LET p == Parent
      i == KidNo(node[p], op.at) IN
  /\ Rising /\ p # Nil /\ Len(node[p].keys) < MaxKeys /\ i <= Len(node[p].kids)
  /\ node' = [node EXCEPT ![p].keys = InsertAt(@, i, op.sep),
                          ![p].kids = InsertAt(@, i + 1, op.right),
                          ![op.right].parent = p]
  /\ Return(Done)
  /\ UNCHANGED <<root, failed>>

\* Mutant: they keep the parent they had.
AdoptNone(n, a) == n

\* The children of a node that is split get the right parent, the ones that
\* stay and the ones that move.
Adopt(n, a) ==
  [b \in DOMAIN n |-> IF b \in Range(n[a].kids) THEN [n[b] EXCEPT !.parent = a] ELSE n[b]]

internal_split_insert ==
  LET p   == Parent
      i   == KidNo(node[p], op.at)
      ks  == InsertAt(node[p].keys, i, op.sep)
      ch  == InsertAt(node[p].kids, i + 1, op.right)
      n   == MaxKeys + 1
      mid == n \div 2
      a   == Fresh
      lower == [node EXCEPT ![p].keys = SubSeq(ks, 1, mid),
                            ![p].kids = SubSeq(ch, 1, mid + 1)]
      upper == [NewInternal EXCEPT !.keys = SubSeq(ks, mid + 2, n),
                                   !.kids = SubSeq(ch, mid + 2, n + 1)]
  IN
  /\ Rising /\ p # Nil /\ Len(node[p].keys) = MaxKeys /\ i <= Len(node[p].kids)
  /\ node' = Adopt(Adopt(Alloc(lower, a, upper), p), a)
  /\ op' = [op EXCEPT !.at = p, !.sep = ks[mid + 1], !.right = a]
  /\ UNCHANGED <<root, ans, was, failed>>

\* No memory for a new root, or for the other half of the parent; or the
\* parent does not know its child.
RiseFails ==
  LET p    == Parent
      lost == p # Nil /\ KidNo(node[p], op.at) > Len(node[p].kids) IN
  /\ Rising
  /\ lost \/ (MayFail /\ ~failed /\ (p # Nil => Len(node[p].keys) = MaxKeys))
  /\ node' = [node EXCEPT ![op.right].parent = IF lost THEN p ELSE Nil]
  /\ Return(NoMemory)
  /\ failed' = IF lost THEN failed ELSE TRUE
  /\ UNCHANGED root

Step == \/ find_leaf \/ bplus_search \/ InsertRefused \/ ReplaceRow
        \/ leaf_insert_sorted \/ leaf_split_insert \/ SplitFails
        \/ NewRoot \/ InsertIntoParent \/ internal_split_insert \/ RiseFails

Next == bplus_create \/ CreateFails \/ bplus_destroy \/ NewProcess \/ Call \/ Step

\* The code is sequential: a call that has begun goes on.
Spec == Init /\ [][Next]_vars /\ WF_vars(Step)

-----------------------------------------------------------------------------
(* Properties.                                                             *)

Ptr == Addr \cup {Nil}

\* Every node's arrays hold what they have room for, with a row for every key
\* of a leaf and a child on both sides of every key of an internal node.
TypeOK ==
  /\ DOMAIN node \subseteq Addr
  /\ \A x \in DOMAIN node : LET n == node[x] IN
       /\ n.keys \in Seq(Keys) /\ n.rows \in Seq(Rows) /\ n.kids \in Seq(Addr)
       /\ Len(n.keys) <= MaxKeys
       /\ n.leaf => Len(n.rows) = Len(n.keys) /\ n.kids = <<>>
       /\ ~n.leaf => Len(n.kids) = Len(n.keys) + 1 /\ n.rows = <<>>
       /\ n.parent \in Ptr /\ n.next \in Ptr
  /\ root \in DOMAIN node \cup {Nil}
  /\ op # Idle => op.at \in DOMAIN node /\ op.right \in DOMAIN node \cup {Nil}
  /\ failed \in BOOLEAN

\* Between calls the tree is a tree: the root has no parent, every other node
\* has one, which lists it once, and no node is reached twice -- so that
\* node_free frees each node once, and insert_into_parent finds its way up
\* (bplus_tree.c:36-46, 216-241).
IsTree ==
  op = Idle /\ root # Nil =>
    /\ node[root].parent = Nil
    /\ \A x \in Tree : \A i, j \in DOMAIN node[x].kids :
         /\ node[node[x].kids[i]].parent = x
         /\ node[x].kids[i] = node[x].kids[j] => i = j

\* Between calls the keys of a node are in order and every separator is above
\* all keys on its left and not above any key on its right, which is what
\* find_leaf goes by (bplus_tree.c:73-79).
Separated ==
  op = Idle => \A x \in Tree : LET n == node[x] IN
    /\ \A i, j \in DOMAIN n.keys : i < j => n.keys[i] < n.keys[j]
    /\ \A i \in DOMAIN n.kids : \A y \in Under(node, n.kids[i]) : \A k \in Range(node[y].keys) :
         /\ i > 1 => n.keys[i - 1] <= k
         /\ i <= Len(n.keys) => k < n.keys[i]

\* Between calls all leaves are equally deep, and every node but the root is
\* about half full: what makes a search logarithmic.
Balanced ==
  op = Idle /\ root # Nil =>
    LET depth[x \in Tree] == IF x = root THEN 0 ELSE depth[node[x].parent] + 1
        LeastLeaf == (MaxKeys + 1) \div 2
        LeastInternal == MaxKeys - (MaxKeys + 1) \div 2
    IN  /\ \A x, y \in Leaves : depth[x] = depth[y]
        /\ \A x \in Tree \ {root} :
             Len(node[x].keys) >= IF node[x].leaf THEN LeastLeaf ELSE LeastInternal

\* Between calls the leaves are linked from left to right, as long as no
\* allocation has failed (bplus_tree.c:155-156).
LeavesLinked ==
  op = Idle /\ root # Nil /\ ~failed =>
    /\ Cardinality({x \in Leaves : node[x].next = Nil}) = 1
    /\ \A x \in Leaves : LET y == node[x].next IN y # Nil =>
         /\ y \in Leaves
         /\ \A k \in Range(node[x].keys), m \in Range(node[y].keys) :
              /\ k < m
              /\ ~ \E z \in Leaves : \E l \in Range(node[z].keys) : k < l /\ l < m /\ z \notin {x, y}

\* A destroyed tree leaves nothing allocated, if no allocation failed.
NothingLeaked == root = Nil /\ ~failed => DOMAIN node = {}

\* Every call that has begun returns.
CallsReturn == []<>(op = Idle)

-----------------------------------------------------------------------------
\* The tree implements the map that bplus_tree.h describes.
Map == INSTANCE KeyMap WITH
         map <- IF op = Idle THEN Contents ELSE was,
         req <- IF op = Idle THEN [kind |-> "none"]
                ELSE [kind |-> op.kind, key |-> op.key, row |-> op.row]

ImplementsKeyMap == Map!Spec
=============================================================================
