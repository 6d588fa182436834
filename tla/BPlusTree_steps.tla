---------------------------- MODULE BPlusTree_steps ----------------------------
(***************************************************************************)
(* The inductive invariant of BPlusTree, and what every step does to it,   *)
(* for any number of keys to a node, any keys and any calls.  It is about  *)
(* the whole heap, what a failed allocation left behind included: it gives *)
(* every node a level, and a span, the integers whose search passes it.    *)
(***************************************************************************)
EXTENDS BPlusTree, SequenceTheorems, FiniteSetTheorems, TLAPS

-----------------------------------------------------------------------------
(* The inductive invariant.  It speaks of a heap n with the root r and the *)
(* call o, of the nodes L that are reached from the root or from the node  *)
(* on its way up, of the level h of every node and of its span s.          *)

NodeSet == [leaf : BOOLEAN, keys : Seq(Keys), rows : Seq(Rows), kids : Seq(Addr),
            parent : Ptr, next : Ptr]

\* Nodes have their types, and their arrays the lengths they need.
Heap(n) ==
  /\ DOMAIN n \subseteq Addr
  /\ n \in [DOMAIN n -> NodeSet]
  /\ \A x \in DOMAIN n :
       /\ n[x].leaf => Len(n[x].rows) = Len(n[x].keys) /\ n[x].kids = <<>>
       /\ ~n[x].leaf => Len(n[x].kids) = Len(n[x].keys) + 1 /\ n[x].rows = <<>>

\* There is room for the keys.  A node that is about to be split does without.
Fits(n) == \A x \in DOMAIN n : Len(n[x].keys) <= MaxKeys

\* A child is listed once, by its parent.
Parents(n) ==
  \A x \in DOMAIN n : \A i \in DOMAIN n[x].kids :
    /\ n[x].kids[i] \in DOMAIN n
    /\ n[n[x].kids[i]].parent = x
    /\ \A j \in DOMAIN n[x].kids : n[x].kids[i] = n[x].kids[j] => i = j

\* All leaves are on level 0.
Levels(n, h, b) ==
  /\ h \in [DOMAIN n -> 0 .. b]
  /\ \A x \in DOMAIN n : n[x].leaf <=> h[x] = 0
  /\ \A x \in DOMAIN n : \A i \in DOMAIN n[x].kids : h[n[x].kids[i]] + 1 = h[x]

Ascending(n) ==
  \A x \in DOMAIN n : \A i, j \in DOMAIN n[x].keys : i < j => n[x].keys[i] < n[x].keys[j]

Least(leaf) == IF leaf THEN (MaxKeys + 1) \div 2 ELSE MaxKeys - (MaxKeys + 1) \div 2

IsRising(o) == o.pc = "insert_into_parent"

\* Nodes are about half full, but for a root that was not split just now.
Filled(n, r, o) ==
  \A x \in DOMAIN n : x # r \/ (IsRising(o) /\ x = o.at) => Len(n[x].keys) >= Least(n[x].leaf)

\* The integers of x's span that find_leaf sends to its child i.
View(n, s, x, i) ==
  {v \in s[x] : /\ i > 1 => n[x].keys[i - 1] <= v
                /\ i <= Len(n[x].keys) => v < n[x].keys[i]}

\* What is sent to c: its span, and that of the node on the right of it if its
\* parent does not know that one yet.
Sent(o, s, c) == IF IsRising(o) /\ c = o.at THEN s[c] \cup s[o.right] ELSE s[c]

\* Keys lie in the span of their node, and spans are what parents say.
Spans(n, o, s) ==
  /\ s \in [DOMAIN n -> SUBSET Int]
  /\ \A x \in DOMAIN n : \A i \in DOMAIN n[x].keys : n[x].keys[i] \in s[x]
  /\ \A x \in DOMAIN n : \A v, w \in s[x] : \A u \in Int : v <= u /\ u <= w => u \in s[x]
  /\ \A x \in DOMAIN n : \A i \in DOMAIN n[x].kids : Sent(o, s, n[x].kids[i]) = View(n, s, x, i)

\* L is what hangs from the root and from the node on its way up.
Live(n, r, o, L) ==
  /\ L \subseteq DOMAIN n
  /\ \A x \in L : \A i \in DOMAIN n[x].kids : n[x].kids[i] \in L
  /\ \A x \in L : \/ x = r
                  \/ IsRising(o) /\ x = o.right
                  \/ n[x].parent \in L /\ \E i \in DOMAIN n[n[x].parent].kids :
                                            n[n[x].parent].kids[i] = x

Rooted(n, r, o, L, s) ==
  IF r = Nil THEN o = Idle /\ L = {}
  ELSE r \in L /\ n[r].parent = Nil /\ Sent(o, s, r) = Int

Kinds == {"search", "insert", "replace"}
Calls == [pc : {"find_leaf", "insert_into_parent"}, kind : Kinds, key : Keys, row : Rows,
          at : Addr, right : Ptr, sep : Int]

\* On the way down the key is in the span; on the way up the span of at is cut at
\* sep, and what is right of it hangs from a node that nobody lists.
Calling(n, r, o, L, h, s) ==
  o # Idle =>
    /\ o \in Calls
    /\ o.at \in L
    /\ ~IsRising(o) => o.right = Nil /\ o.key \in s[o.at]
    /\ IsRising(o) =>
         /\ o.kind # "search"
         /\ o.right \in L /\ o.right # o.at /\ o.right # r
         /\ \A x \in DOMAIN n : \A i \in DOMAIN n[x].kids : n[x].kids[i] # o.right
         /\ h[o.right] = h[o.at]
         /\ o.sep \in s[o.right] /\ o.sep \in Keys
         /\ \A v \in s[o.at] : v < o.sep
         /\ \A v \in s[o.right] : o.sep <= v

\* Addresses are left for the splits to come.
Room(n, r, o, h) ==
  /\ IsRising(o) => Cardinality(DOMAIN n) + (h[r] - h[o.at]) + 1 <= Cardinality(Addr)
  /\ o # Idle /\ ~IsRising(o) /\ o.kind # "search" =>
       Cardinality(DOMAIN n) + h[r] + 2 <= Cardinality(Addr)

\* The keys in the leaves are keys of the map m, with its rows.
Within(n, L, m) ==
  \A x \in L : n[x].leaf => \A i \in DOMAIN n[x].keys :
    n[x].keys[i] \in DOMAIN m /\ m[n[x].keys[i]] = n[x].rows[i]

\* They are all the keys of m.
Holds(n, L, m) ==
  /\ m = [k \in DOMAIN m |-> m[k]]
  /\ Within(n, L, m)
  /\ \A k \in DOMAIN m : \E x \in L : n[x].leaf /\ \E i \in DOMAIN n[x].keys : n[x].keys[i] = k

Added(m, k, w) == [y \in DOMAIN m \cup {k} |-> IF y = k THEN w ELSE m[y]]

\* During a call the leaves hold what they held when it began and, on the way
\* up, the new key.
Content(n, o, L, m) ==
  o # Idle => IF IsRising(o) THEN o.key \notin DOMAIN m /\ Holds(n, L, Added(m, o.key, o.row))
              ELSE Holds(n, L, m)

\* The leaves are linked in the order of their spans, and nothing is between.
Chained(n, r, L, s) ==
  /\ r # Nil => \E x \in L : n[x].leaf /\ n[x].next = Nil
  /\ \A x \in L : n[x].leaf =>
       IF n[x].next = Nil THEN \A v \in s[x] : \A u \in Int : v <= u => u \in s[x]
       ELSE /\ n[x].next \in L /\ n[n[x].next].leaf
            /\ \A v \in s[x] : \A w \in s[n[x].next] :
                 /\ v < w
                 /\ \A u \in Int : v <= u /\ u <= w => u \in s[x] \/ u \in s[n[x].next]

Shape(n, r, o, L, h, b, s) ==
  /\ Heap(n) /\ Parents(n) /\ Levels(n, h, b) /\ Ascending(n) /\ Filled(n, r, o)
  /\ Spans(n, o, s) /\ Live(n, r, o, L) /\ Rooted(n, r, o, L, s) /\ Calling(n, r, o, L, h, s)
  /\ Room(n, r, o, h)

\* As long as no allocation failed everything is reached, and linked.
Whole(n, r, L, s, f) == f \/ (L = DOMAIN n /\ Chained(n, r, L, s))

Sound(n, r, o, m, f, L, h, b, s) ==
  Shape(n, r, o, L, h, b, s) /\ Content(n, o, L, m) /\ Whole(n, r, L, s, f)

IsSound(L, h, b, s) ==
  /\ root \in Ptr /\ failed \in BOOLEAN /\ b \in Nat /\ Fits(node)
  /\ Sound(node, root, op, was, failed, L, h, b, s)

TreeInv == \E L, h, b, s : IsSound(L, h, b, s)

-----------------------------------------------------------------------------
(* Numbers and sequences.                                                  *)

\* Every set of naturals that is not empty has a least element.
LEMMA LeastNat ==
  ASSUME NEW T \in SUBSET Nat, T # {}
  PROVE  \E x \in T : \A y \in T : x <= y
<1>1. PICK x \in T : \A y \in T : ~(<<y, x>> \in OpToRel(<, Nat))
  BY NatLessThanWellFounded, WFMin
<1>2. ASSUME NEW y \in T
      PROVE  x <= y
  <2>1. ~(<<y, x>> \in OpToRel(<, Nat))
    BY <1>1
  <2>2. <<y, x>> \in Nat \X Nat /\ <<y, x>>[1] = y /\ <<y, x>>[2] = x
    OBVIOUS
  <2>3. ~(y < x)
    BY <2>1, <2>2 DEF OpToRel
  <2> QED
    BY <2>3
<1> QED
  BY <1>2

\* Min and Max, where there is a least or a greatest element.
LEMMA MinIs ==
  ASSUME NEW S \in SUBSET Int, NEW x \in S, \A y \in S : x <= y
  PROVE  Min(S) = x
<1>1. \A z \in S : (\A y \in S : z <= y) => z = x
  OBVIOUS
<1>2. Min(S) \in S /\ \A y \in S : Min(S) <= y
  BY DEF Min
<1> QED
  BY <1>1, <1>2

LEMMA MaxIs ==
  ASSUME NEW S \in SUBSET Int, NEW x \in S, \A y \in S : y <= x
  PROVE  Max(S) = x
<1>1. \A z \in S : (\A y \in S : z >= y) => z = x
  OBVIOUS
<1>2. Max(S) \in S /\ \A y \in S : Max(S) >= y
  BY DEF Max
<1> QED
  BY <1>1, <1>2

\* What cutting a piece out of a sequence and inserting an element make of it.
LEMMA CutOut ==
  ASSUME NEW S, NEW q \in Seq(S), NEW i \in 1 .. Len(q) + 1, NEW j \in i - 1 .. Len(q)
  PROVE  /\ SubSeq(q, i, j) \in Seq(S)
         /\ Len(SubSeq(q, i, j)) = (j - i) + 1
         /\ \A k \in 1 .. (j - i) + 1 : SubSeq(q, i, j)[k] = q[(i + k) - 1]
  OBVIOUS

\* t is q with e in place i.
IsInserted(t, q, i, e) ==
  /\ Len(t) = Len(q) + 1
  /\ \A j \in 1 .. Len(q) + 1 : t[j] = IF j < i THEN q[j] ELSE IF j = i THEN e ELSE q[j - 1]

LEMMA Inserted ==
  \A S : \A q \in Seq(S) : \A i \in 1 .. Len(q) + 1 : \A e \in S :
    InsertAt(q, i, e) \in Seq(S) /\ IsInserted(InsertAt(q, i, e), q, i, e)
<1> TAKE S
<1> TAKE q \in Seq(S)
<1> TAKE i \in 1 .. Len(q) + 1
<1> TAKE e \in S
<1> DEFINE a == SubSeq(q, 1, i - 1)
           c == SubSeq(q, i, Len(q))
           m == a \o <<e>>
<1>1. a \in Seq(S) /\ Len(a) = i - 1 /\ \A j \in 1 .. i - 1 : a[j] = q[j]
  OBVIOUS
<1>2. c \in Seq(S) /\ Len(c) = (Len(q) - i) + 1 /\ \A j \in 1 .. (Len(q) - i) + 1 : c[j] = q[(i + j) - 1]
  BY CutOut
<1>3. <<e>> \in Seq(S) /\ Len(<<e>>) = 1 /\ <<e>>[1] = e
  OBVIOUS
<1>4. InsertAt(q, i, e) = m \o c
  BY DEF InsertAt
<1> HIDE DEF a, c
<1>5. m \in Seq(S) /\ Len(m) = i
  BY <1>1, <1>3, ConcatProperties
<1>6. m[i] = e /\ \A j \in 1 .. i - 1 : m[j] = q[j]
  BY <1>1, <1>3, ConcatProperties
<1> HIDE DEF m
<1>7. m \o c \in Seq(S) /\ Len(m \o c) = Len(q) + 1
  <2>1. m \o c \in Seq(S) /\ Len(m \o c) = Len(m) + Len(c)
    BY <1>2, <1>5, ConcatProperties
  <2>2. i + ((Len(q) - i) + 1) = Len(q) + 1
    OBVIOUS
  <2> QED
    BY <1>2, <1>5, <2>1, <2>2
<1>8. ASSUME NEW j \in 1 .. Len(q) + 1
      PROVE  (m \o c)[j] = IF j < i THEN q[j] ELSE IF j = i THEN e ELSE q[j - 1]
  <2>1. (m \o c)[j] = IF j <= i THEN m[j] ELSE c[j - i]
    BY <1>2, <1>5, <1>7, ConcatProperties
  <2>2. j > i => j - i \in 1 .. (Len(q) - i) + 1 /\ (i + (j - i)) - 1 = j - 1
    OBVIOUS
  <2> QED
    BY <1>2, <1>6, <2>1, <2>2
<1> QED
  BY <1>4, <1>7, <1>8 DEF IsInserted

-----------------------------------------------------------------------------
(* Walks down and up.                                                      *)

\* What holds of a node when it holds of its children holds of all nodes.
LEMMA Downward ==
  ASSUME NEW n, NEW h, NEW b \in Nat, Parents(n), Levels(n, h, b), NEW S,
         \A x \in DOMAIN n : (\A i \in DOMAIN n[x].kids : n[x].kids[i] \in S) => x \in S
  PROVE  DOMAIN n \subseteq S
<1> SUFFICES ASSUME NEW z \in DOMAIN n, z \notin S
             PROVE  FALSE
  OBVIOUS
<1> DEFINE T == {h[x] : x \in DOMAIN n \ S}
<1>1. T \in SUBSET Nat /\ T # {}
  BY DEF Levels
<1>2. PICK k \in T : \A l \in T : k <= l
  BY <1>1, LeastNat
<1>3. PICK x \in DOMAIN n : x \notin S /\ h[x] = k
  BY <1>2
<1>4. PICK i \in DOMAIN n[x].kids : n[x].kids[i] \notin S
  BY <1>3
<1>5. n[x].kids[i] \in DOMAIN n /\ h[n[x].kids[i]] + 1 = h[x]
  BY DEF Parents, Levels
<1>6. h[n[x].kids[i]] \in T /\ h[n[x].kids[i]] \in Nat
  BY <1>4, <1>5 DEF Levels
<1>7. k <= h[n[x].kids[i]]
  BY <1>2, <1>6
<1> QED
  BY <1>3, <1>5, <1>6, <1>7

\* What holds of the tops and of a node when it holds of its parent holds of
\* all that is live.
LEMMA Upward ==
  ASSUME NEW n, NEW r, NEW o, NEW L, NEW h, NEW b \in Nat,
         Parents(n), Levels(n, h, b), Live(n, r, o, L), NEW S,
         r \in L => r \in S, IsRising(o) /\ o.right \in L => o.right \in S,
         \A x \in L : n[x].parent \in S /\ n[x].parent \in L => x \in S
  PROVE  L \subseteq S
<1> SUFFICES ASSUME NEW z \in L, z \notin S
             PROVE  FALSE
  OBVIOUS
<1> DEFINE T == {b - h[x] : x \in L \ S}
<1>1. \A x \in L : x \in DOMAIN n /\ h[x] \in 0 .. b /\ b - h[x] \in Nat
  BY DEF Levels, Live
<1>2. T \in SUBSET Nat /\ T # {}
  BY <1>1
<1>3. PICK k \in T : \A l \in T : k <= l
  BY <1>2, LeastNat
<1>4. PICK x \in L : x \notin S /\ b - h[x] = k
  BY <1>3
<1>5. /\ n[x].parent \in L
      /\ \E i \in DOMAIN n[n[x].parent].kids : n[n[x].parent].kids[i] = x
  BY <1>4 DEF Live
<1>6. n[x].parent \in DOMAIN n /\ h[x] + 1 = h[n[x].parent]
  BY <1>1, <1>5 DEF Levels
<1>7. n[x].parent \notin S
  BY <1>4, <1>5
<1>8. b - h[n[x].parent] \in T
  BY <1>5, <1>7
<1>9. b - h[x] <= b - h[n[x].parent]
  BY <1>3, <1>4, <1>8
<1>10. h[x] \in 0 .. b /\ h[n[x].parent] \in 0 .. b
  BY <1>1, <1>5
<1> QED
  BY <1>6, <1>9, <1>10

IsUnder(n, u) ==
  u = [y \in DOMAIN n |-> {y} \cup UNION {u[n[y].kids[i]] : i \in DOMAIN n[y].kids}]

\* node_free ends: the function that collects the nodes under each exists.
LEMMA UnderExists ==
  ASSUME NEW n, NEW h, NEW b \in Nat, Parents(n), Levels(n, h, b)
  PROVE  \E u : IsUnder(n, u)
<1> DEFINE Around(u, y) == {y} \cup UNION {u[n[y].kids[i]] : i \in DOMAIN n[y].kids}
           UpTo(u, k) == \A y \in DOMAIN n : h[y] <= k => u[y] = Around(u, y)
           Bad        == {k \in Nat : ~ \E u : UpTo(u, k)}
<1>1. \A y \in DOMAIN n : h[y] \in Nat /\ h[y] <= b
  BY DEF Levels
<1>2. \A y \in DOMAIN n : \A i \in DOMAIN n[y].kids :
        n[y].kids[i] \in DOMAIN n /\ h[n[y].kids[i]] + 1 = h[y]
  BY DEF Levels, Parents
<1>3. ASSUME NEW k \in Nat, \A l \in Nat : l < k => \E u : UpTo(u, l)
      PROVE  \E u : UpTo(u, k)
  <2>1. PICK u : \A y \in DOMAIN n : h[y] < k => u[y] = Around(u, y)
    <3>1. CASE k = 0
      BY <1>1, <3>1
    <3>2. CASE k # 0
      <4>1. PICK l \in Nat : l + 1 = k
        BY <3>2
      <4>2. PICK u : UpTo(u, l)
        <5>1. l < k
          BY <4>1
        <5> HIDE DEF UpTo
        <5> QED
          BY <1>3, <5>1
      <4>3. \A y \in DOMAIN n : h[y] < k => h[y] <= l
        BY <1>1, <4>1
      <4> QED
        BY <4>2, <4>3
    <3> QED
      BY <3>1, <3>2
  <2> DEFINE w == [y \in DOMAIN n |-> Around(u, y)]
  <2>2. \A y \in DOMAIN n : h[y] < k => w[y] = u[y]
    BY <2>1
  <2>3. \A y \in DOMAIN n : h[y] <= k => \A i \in DOMAIN n[y].kids : w[n[y].kids[i]] = u[n[y].kids[i]]
    <3> TAKE y \in DOMAIN n
    <3> HAVE h[y] <= k
    <3> TAKE i \in DOMAIN n[y].kids
    <3>1. n[y].kids[i] \in DOMAIN n /\ h[n[y].kids[i]] < k
      BY <1>1, <1>2
    <3> HIDE DEF w
    <3> QED
      BY <2>2, <3>1
  <2>4. \A y \in DOMAIN n : w[y] = Around(u, y)
    OBVIOUS
  <2> HIDE DEF w
  <2>5. \A y \in DOMAIN n : h[y] <= k => Around(w, y) = Around(u, y)
    BY <2>3
  <2> HIDE DEF Around
  <2>6. UpTo(w, k)
    BY <2>4, <2>5
  <2> QED
    BY <2>6
<1>4. \A k \in Nat : \E u : UpTo(u, k)
  <2> SUFFICES ASSUME NEW k \in Nat, ~ \E u : UpTo(u, k)
               PROVE  FALSE
    OBVIOUS
  <2> HIDE DEF UpTo
  <2>1. Bad \in SUBSET Nat /\ Bad # {}
    OBVIOUS
  <2>2. PICK l \in Bad : \A i \in Bad : l <= i
    BY <2>1, LeastNat
  <2>3. \A i \in Nat : i < l => \E u : UpTo(u, i)
    BY <2>2
  <2> QED
    BY <1>3, <2>2, <2>3
<1>5. PICK u : UpTo(u, b)
  BY <1>4
<1>6. \A y \in DOMAIN n : u[y] = Around(u, y)
  BY <1>1, <1>5
<1> DEFINE w == [y \in DOMAIN n |-> Around(u, y)]
<1>7. \A y \in DOMAIN n : w[y] = u[y]
  BY <1>6
<1>8. \A y \in DOMAIN n : \A i \in DOMAIN n[y].kids : w[n[y].kids[i]] = u[n[y].kids[i]]
  <2> HIDE DEF w
  <2> QED
    BY <1>2, <1>7
<1>9. \A y \in DOMAIN n : Around(w, y) = Around(u, y)
  <2> HIDE DEF w
  <2> QED
    BY <1>8
<1>10. w = [y \in DOMAIN n |-> Around(w, y)]
  BY <1>9
<1> QED
  BY <1>10 DEF IsUnder

LEMMA UnderIs ==
  ASSUME NEW n, \E u : IsUnder(n, u)
  PROVE  \E u : IsUnder(n, u) /\ \A x : Under(n, x) = u[x]
<1> DEFINE c == CHOOSE u : IsUnder(n, u)
<1>1. IsUnder(n, c)
  OBVIOUS
<1>2. \A x : Under(n, x) = c[x]
  BY DEF Under, IsUnder
<1> HIDE DEF c
<1> QED
  BY <1>1, <1>2

\* A set of nodes that has the children of all its nodes.
Closed(n, S) == \A x \in S : x \in DOMAIN n => \A i \in DOMAIN n[x].kids : n[x].kids[i] \in S

\* The nodes under x are the least set that has x and is closed.
LEMMA UnderLeast ==
  ASSUME NEW n, NEW h, NEW b \in Nat, Parents(n), Levels(n, h, b)
  PROVE  \A x \in DOMAIN n :
           /\ x \in Under(n, x) /\ Under(n, x) \subseteq DOMAIN n
           /\ Closed(n, Under(n, x))
           /\ \A S : x \in S /\ Closed(n, S) => Under(n, x) \subseteq S
<1>1. PICK u : IsUnder(n, u) /\ \A x : Under(n, x) = u[x]
  BY UnderExists, UnderIs
<1>2. \A x \in DOMAIN n : u[x] = {x} \cup UNION {u[n[x].kids[i]] : i \in DOMAIN n[x].kids}
  BY <1>1 DEF IsUnder
<1> DEFINE Good == {x \in DOMAIN n :
             /\ x \in u[x] /\ u[x] \subseteq DOMAIN n /\ Closed(n, u[x])
             /\ \A S : x \in S /\ Closed(n, S) => u[x] \subseteq S}
<1>3. ASSUME NEW x \in DOMAIN n, \A i \in DOMAIN n[x].kids : n[x].kids[i] \in Good
      PROVE  x \in Good
  <2>1. \A y \in u[x] : y = x \/ \E i \in DOMAIN n[x].kids : y \in u[n[x].kids[i]]
    BY <1>2
  <2>2. \A i \in DOMAIN n[x].kids : u[n[x].kids[i]] \subseteq u[x]
    BY <1>2
  <2>3. x \in u[x]
    BY <1>2
  <2>4. u[x] \subseteq DOMAIN n
    BY <1>3, <2>1
  <2>5. Closed(n, u[x])
    <3> SUFFICES ASSUME NEW y \in u[x], y \in DOMAIN n, NEW j \in DOMAIN n[y].kids
                 PROVE  n[y].kids[j] \in u[x]
      BY DEF Closed
    <3>1. CASE y = x
      BY <3>1, <1>3, <2>2
    <3>2. CASE y # x
      <4>1. PICK i \in DOMAIN n[x].kids : y \in u[n[x].kids[i]]
        BY <3>2, <2>1
      <4>2. n[y].kids[j] \in u[n[x].kids[i]]
        BY <1>3, <4>1 DEF Closed
      <4> QED
        BY <2>2, <4>2
    <3> QED
      BY <3>1, <3>2
  <2>6. ASSUME NEW S, x \in S, Closed(n, S)
        PROVE  u[x] \subseteq S
    <3>1. \A i \in DOMAIN n[x].kids : n[x].kids[i] \in S
      BY <2>6 DEF Closed
    <3>2. \A i \in DOMAIN n[x].kids : u[n[x].kids[i]] \subseteq S
      BY <1>3, <2>6, <3>1
    <3> QED
      BY <2>1, <2>6, <3>2
  <2> QED
    BY <2>3, <2>4, <2>5, <2>6
<1>4. DOMAIN n \subseteq Good
  <2> HIDE DEF Good
  <2> QED
    BY <1>3, Downward
<1> QED
  BY <1>1, <1>4

\* A node is x itself or under one of its children.
LEMMA UnderUnfold ==
  ASSUME NEW n, NEW h, NEW b \in Nat, Parents(n), Levels(n, h, b),
         NEW x \in DOMAIN n, NEW y \in Under(n, x)
  PROVE  y = x \/ \E i \in DOMAIN n[x].kids : y \in Under(n, n[x].kids[i])
<1> DEFINE S == {x} \cup UNION {Under(n, n[x].kids[i]) : i \in DOMAIN n[x].kids}
<1>1. \A i \in DOMAIN n[x].kids : /\ n[x].kids[i] \in Under(n, n[x].kids[i])
                                  /\ Closed(n, Under(n, n[x].kids[i]))
  BY UnderLeast DEF Parents
<1>2. Closed(n, S)
  BY <1>1 DEF Closed
<1>3. Under(n, x) \subseteq S
  BY <1>2, UnderLeast
<1> QED
  BY <1>3

\* Between calls, and on the way down, what is live is the tree.
LEMMA LiveIsUnder ==
  ASSUME NEW n, NEW r, NEW o, NEW L, NEW h, NEW b \in Nat,
         Parents(n), Levels(n, h, b), Live(n, r, o, L), ~IsRising(o), r \in L
  PROVE  L = Under(n, r)
<1>1. r \in DOMAIN n /\ Closed(n, L)
  BY DEF Live, Closed
<1>2. r \in Under(n, r) /\ Closed(n, Under(n, r)) /\ Under(n, r) \subseteq L
  BY <1>1, UnderLeast
<1>3. ASSUME NEW x \in L, n[x].parent \in Under(n, r), n[x].parent \in L
      PROVE  x \in Under(n, r)
  <2>1. CASE x = r
    BY <1>2, <2>1
  <2>2. CASE x # r
    <3>1. n[x].parent \in DOMAIN n
      BY <1>3 DEF Live
    <3>2. PICK i \in DOMAIN n[n[x].parent].kids : n[n[x].parent].kids[i] = x
      BY <2>2 DEF Live
    <3> QED
      BY <1>2, <1>3, <3>1, <3>2 DEF Closed
  <2> QED
    BY <2>1, <2>2
<1>4. L \subseteq Under(n, r)
  BY <1>2, <1>3, Upward
<1> QED
  BY <1>2, <1>4

\* The span of a node is within the span of every node above it, and within
\* what is sent to the child it is under.
LEMMA SpanWithin ==
  ASSUME NEW n, NEW o, NEW s, NEW h, NEW b \in Nat,
         Parents(n), Levels(n, h, b), Spans(n, o, s)
  PROVE  \A x \in DOMAIN n : \A y \in Under(n, x) : s[y] \subseteq s[x]
<1> TAKE x \in DOMAIN n
<1> DEFINE S == {y \in DOMAIN n : s[y] \subseteq s[x]}
<1>1. Closed(n, S)
  <2> SUFFICES ASSUME NEW y \in S, NEW i \in DOMAIN n[y].kids
               PROVE  n[y].kids[i] \in S
    BY DEF Closed
  <2>1. n[y].kids[i] \in DOMAIN n
    BY DEF Parents
  <2>2. s[n[y].kids[i]] \subseteq Sent(o, s, n[y].kids[i])
    BY DEF Sent
  <2>3. Sent(o, s, n[y].kids[i]) = View(n, s, y, i)
    BY DEF Spans
  <2>4. View(n, s, y, i) \subseteq s[y]
    BY DEF View
  <2> QED
    BY <2>1, <2>2, <2>3, <2>4
<1>2. Under(n, x) \subseteq S
  BY <1>1, UnderLeast
<1> QED
  BY <1>2

LEMMA SpanSent ==
  ASSUME NEW n, NEW o, NEW s, NEW h, NEW b \in Nat,
         Parents(n), Levels(n, h, b), Spans(n, o, s),
         NEW x \in DOMAIN n, NEW i \in DOMAIN n[x].kids, NEW y \in Under(n, n[x].kids[i])
  PROVE  s[y] \subseteq View(n, s, x, i)
<1>1. n[x].kids[i] \in DOMAIN n
  BY DEF Parents
<1>2. s[y] \subseteq s[n[x].kids[i]]
  BY <1>1, SpanWithin
<1>3. s[n[x].kids[i]] \subseteq Sent(o, s, n[x].kids[i])
  BY DEF Sent
<1>4. Sent(o, s, n[x].kids[i]) = View(n, s, x, i)
  BY DEF Spans
<1> QED
  BY <1>2, <1>3, <1>4

\* The indices of the arrays of a node.
LEMMA Indices ==
  ASSUME NEW n, Heap(n), NEW x \in DOMAIN n
  PROVE  /\ n[x] \in NodeSet
         /\ n[x].keys \in Seq(Keys) /\ DOMAIN n[x].keys = 1 .. Len(n[x].keys)
         /\ n[x].rows \in Seq(Rows) /\ n[x].kids \in Seq(Addr)
         /\ Len(n[x].keys) \in Nat
         /\ n[x].leaf \in BOOLEAN /\ n[x].parent \in Ptr /\ n[x].next \in Ptr
         /\ n[x].leaf => DOMAIN n[x].rows = 1 .. Len(n[x].keys) /\ DOMAIN n[x].kids = {}
         /\ ~n[x].leaf => DOMAIN n[x].kids = 1 .. Len(n[x].keys) + 1
<1>1. n[x] \in NodeSet
  BY DEF Heap
<1>2. /\ n[x].keys \in Seq(Keys) /\ n[x].rows \in Seq(Rows) /\ n[x].kids \in Seq(Addr)
      /\ n[x].leaf \in BOOLEAN /\ n[x].parent \in Ptr /\ n[x].next \in Ptr
  BY <1>1 DEF NodeSet
<1>3. /\ n[x].leaf => Len(n[x].rows) = Len(n[x].keys) /\ n[x].kids = <<>>
      /\ ~n[x].leaf => Len(n[x].kids) = Len(n[x].keys) + 1 /\ n[x].rows = <<>>
  BY DEF Heap
<1>4. \A S : \A q \in Seq(S) : DOMAIN q = 1 .. Len(q) /\ Len(q) \in Nat
  OBVIOUS
<1>5. Len(n[x].keys) \in Nat /\ DOMAIN n[x].keys = 1 .. Len(n[x].keys)
  BY <1>2, <1>4
<1>6. n[x].leaf => DOMAIN n[x].rows = 1 .. Len(n[x].keys)
  BY <1>2, <1>3, <1>4
<1>7. n[x].leaf => DOMAIN n[x].kids = {}
  BY <1>3
<1>8. ~n[x].leaf => DOMAIN n[x].kids = 1 .. Len(n[x].keys) + 1
  BY <1>2, <1>3, <1>4
<1> QED
  BY <1>1, <1>2, <1>3, <1>5, <1>6, <1>7, <1>8

LEMMA KeysAreInts == Keys \subseteq Int /\ Rows \subseteq Int
BY TreeAssumption DEF Keys, Rows

LEMMA Elements ==
  ASSUME NEW n, Heap(n), NEW x \in DOMAIN n
  PROVE  /\ \A i \in DOMAIN n[x].keys : n[x].keys[i] \in Keys /\ n[x].keys[i] \in Int
         /\ \A i \in DOMAIN n[x].rows : n[x].rows[i] \in Rows
         /\ \A i \in DOMAIN n[x].kids : n[x].kids[i] \in Addr
<1>1. \A S : \A q \in Seq(S) : \A i \in DOMAIN q : q[i] \in S
  OBVIOUS
<1>2. n[x].keys \in Seq(Keys) /\ n[x].rows \in Seq(Rows) /\ n[x].kids \in Seq(Addr)
  BY Indices
<1> QED
  BY <1>1, <1>2, KeysAreInts

\* Two children of a node are sent nothing in common.
LEMMA ViewsApart ==
  ASSUME NEW n, NEW s, Heap(n), Ascending(n), NEW x \in DOMAIN n, s[x] \subseteq Int,
         NEW i \in DOMAIN n[x].kids, NEW j \in DOMAIN n[x].kids, i < j
  PROVE  View(n, s, x, i) \cap View(n, s, x, j) = {}
<1>1. ~n[x].leaf
  BY Indices
<1>2. i \in 1 .. Len(n[x].keys) + 1 /\ j \in 1 .. Len(n[x].keys) + 1 /\ Len(n[x].keys) \in Nat
  BY <1>1, Indices
<1>3. i \in DOMAIN n[x].keys /\ j - 1 \in DOMAIN n[x].keys /\ i <= j - 1 /\ j > 1 /\ i <= Len(n[x].keys)
  BY <1>2, Indices
<1>4. n[x].keys[i] \in Int /\ n[x].keys[j - 1] \in Int
  BY <1>3, Elements
<1>5. n[x].keys[i] <= n[x].keys[j - 1]
  <2>1. CASE i = j - 1
    BY <1>4, <2>1
  <2>2. CASE i < j - 1
    BY <1>3, <1>4, <2>2 DEF Ascending
  <2> QED
    BY <1>2, <1>3, <2>1, <2>2
<1>6. ASSUME NEW v \in Int, n[x].keys[j - 1] <= v, v < n[x].keys[i]
      PROVE  FALSE
  BY <1>4, <1>5, <1>6
<1> QED
  BY <1>3, <1>6 DEF View

\* No two leaves of a tree have an integer in common.
LEMMA LeavesApart ==
  ASSUME NEW n, NEW o, NEW s, NEW h, NEW b \in Nat,
         Heap(n), Parents(n), Levels(n, h, b), Ascending(n), Spans(n, o, s)
  PROVE  \A x \in DOMAIN n : \A y, z \in Under(n, x) :
           n[y].leaf /\ n[z].leaf /\ y # z => s[y] \cap s[z] = {}
<1> DEFINE S == {x \in DOMAIN n : \A y, z \in Under(n, x) :
                   n[y].leaf /\ n[z].leaf /\ y # z => s[y] \cap s[z] = {}}
<1>1. ASSUME NEW x \in DOMAIN n, \A i \in DOMAIN n[x].kids : n[x].kids[i] \in S
      PROVE  x \in S
  <2> SUFFICES ASSUME NEW y \in Under(n, x), NEW z \in Under(n, x), n[y].leaf, n[z].leaf, y # z
               PROVE  s[y] \cap s[z] = {}
    OBVIOUS
  <2>1. CASE n[x].leaf
    <3>1. DOMAIN n[x].kids = {}
      BY <2>1, Indices
    <3> QED
      BY <3>1, UnderUnfold
  <2>2. CASE ~n[x].leaf
    <3>1. PICK i \in DOMAIN n[x].kids : y \in Under(n, n[x].kids[i])
      BY <2>2, UnderUnfold
    <3>2. PICK j \in DOMAIN n[x].kids : z \in Under(n, n[x].kids[j])
      BY <2>2, UnderUnfold
    <3>3. s[y] \subseteq View(n, s, x, i) /\ s[z] \subseteq View(n, s, x, j)
      BY <3>1, <3>2, SpanSent
    <3>4. CASE i = j
      BY <1>1, <3>1, <3>2, <3>4
    <3>5. s[x] \subseteq Int
      BY DEF Spans
    <3>6. i \in Nat /\ j \in Nat
      BY <2>2, Indices
    <3>7. CASE i < j
      BY <3>3, <3>5, <3>7, ViewsApart
    <3>8. CASE j < i
      BY <3>3, <3>5, <3>8, ViewsApart
    <3> QED
      BY <3>4, <3>6, <3>7, <3>8
  <2> QED
    BY <2>1, <2>2
<1>2. DOMAIN n \subseteq S
  <2> HIDE DEF S
  <2> QED
    BY <1>1, Downward
<1> QED
  BY <1>2

-----------------------------------------------------------------------------
(* Places in a node.                                                       *)

LEMMA MinIsLeast ==
  ASSUME NEW T \in SUBSET Nat, T # {}
  PROVE  Min(T) \in T /\ \A y \in T : Min(T) <= y
BY LeastNat DEF Min

\* Max is the greatest number of a set that has a bound and is not empty.
LEMMA MaxIsGreatest ==
  ASSUME NEW b \in Nat, NEW T \in SUBSET (0 .. b), T # {}
  PROVE  Max(T) \in T /\ \A y \in T : Max(T) >= y
<1> DEFINE D == {b - y : y \in T}
<1>1. D \in SUBSET Nat /\ D # {}
  <2>1. \A y \in T : y \in 0 .. b /\ b - y \in Nat
    OBVIOUS
  <2> QED
    BY <2>1
<1>2. PICK d \in D : \A e \in D : d <= e
  BY <1>1, LeastNat
<1>3. PICK x \in T : d = b - x
  OBVIOUS
<1>4. ASSUME NEW y \in T
      PROVE  x >= y
  <2>1. b - y \in D
    OBVIOUS
  <2>2. b - x <= b - y
    BY <1>2, <1>3, <2>1
  <2>3. x \in 0 .. b /\ y \in 0 .. b
    OBVIOUS
  <2> QED
    BY <2>2, <2>3
<1>5. \E z \in T : \A y \in T : z >= y
  BY <1>4
<1> QED
  BY <1>5 DEF Max

\* The keys before place i are not above k, the others are.
Splits(q, k, i) ==
  /\ i \in 1 .. Len(q) + 1
  /\ \A j \in DOMAIN q : j < i => q[j] <= k
  /\ \A j \in DOMAIN q : j >= i => k < q[j]

\* find_leaf goes to the child whose view has the key.
LEMMA ChildSplits ==
  ASSUME NEW n, Heap(n), Ascending(n), NEW x \in DOMAIN n, NEW k \in Int
  PROVE  Splits(n[x].keys, k, Child(n[x], k))
<1> DEFINE q == n[x].keys
           l == Len(q)
           T == {i \in DOMAIN q : k < q[i]} \cup {l + 1}
           c == Min(T)
<1>1. DOMAIN q = 1 .. l /\ l \in Nat /\ \A i \in DOMAIN q : q[i] \in Int
  BY Indices, Elements
<1>2. \A i, j \in DOMAIN q : i < j => q[i] < q[j]
  BY DEF Ascending
<1>3. c = Child(n[x], k)
  BY DEF Child
<1> HIDE DEF q, l
<1>4. T \in SUBSET Nat /\ T # {} /\ T \subseteq 1 .. l + 1
  BY <1>1
<1>5. c \in T /\ \A y \in T : c <= y
  <2> HIDE DEF T
  <2> QED
    BY <1>4, MinIsLeast
<1> HIDE DEF c
<1>6. c \in 1 .. l + 1
  BY <1>4, <1>5
<1>7. ASSUME NEW j \in DOMAIN q, j < c
      PROVE  q[j] <= k
  <2>1. j \notin T
    BY <1>1, <1>4, <1>5, <1>6, <1>7
  <2> QED
    BY <1>1, <2>1
<1>8. ASSUME NEW j \in DOMAIN q, j >= c
      PROVE  k < q[j]
  <2>1. c \in DOMAIN q /\ k < q[c]
    BY <1>1, <1>5, <1>6, <1>8
  <2>2. CASE j = c
    BY <2>1, <2>2
  <2>3. CASE j # c
    <3>1. c < j
      BY <1>1, <1>6, <1>8, <2>3
    <3>2. q[c] < q[j]
      BY <1>2, <2>1, <3>1
    <3> QED
      BY <1>1, <2>1, <3>2
  <2> QED
    BY <2>2, <2>3
<1> QED
  BY <1>3, <1>6, <1>7, <1>8 DEF Splits, q, l

LEMMA PlaceSplits ==
  ASSUME NEW n, Heap(n), Ascending(n), NEW x \in DOMAIN n, NEW k \in Int
  PROVE  Splits(n[x].keys, k, Place(n[x], k))
<1> DEFINE q == n[x].keys
           l == Len(q)
           T == {i \in DOMAIN q : q[i] <= k} \cup {0}
           c == Max(T)
<1>1. DOMAIN q = 1 .. l /\ l \in Nat /\ \A i \in DOMAIN q : q[i] \in Int
  BY Indices, Elements
<1>2. \A i, j \in DOMAIN q : i < j => q[i] < q[j]
  BY DEF Ascending
<1>3. c + 1 = Place(n[x], k)
  BY DEF Place
<1> HIDE DEF q, l
<1>4. T \in SUBSET (0 .. l) /\ T # {}
  BY <1>1
<1>5. c \in T /\ \A y \in T : c >= y
  <2> HIDE DEF T
  <2> QED
    BY <1>1, <1>4, MaxIsGreatest
<1> HIDE DEF c
<1>6. c \in 0 .. l
  BY <1>4, <1>5
<1>7. ASSUME NEW j \in DOMAIN q, j >= c + 1
      PROVE  k < q[j]
  <2>1. j \notin T
    BY <1>1, <1>4, <1>5, <1>6, <1>7
  <2> QED
    BY <1>1, <2>1
<1>8. ASSUME NEW j \in DOMAIN q, j < c + 1
      PROVE  q[j] <= k
  <2>1. c \in DOMAIN q /\ q[c] <= k
    BY <1>1, <1>5, <1>6, <1>8
  <2>2. CASE j = c
    BY <2>1, <2>2
  <2>3. CASE j # c
    <3>1. j < c
      BY <1>1, <1>6, <1>8, <2>3
    <3>2. q[j] < q[c]
      BY <1>2, <2>1, <3>1
    <3> QED
      BY <1>1, <2>1, <3>2
  <2> QED
    BY <2>2, <2>3
<1>9. c + 1 \in 1 .. l + 1
  BY <1>1, <1>6
<1> QED
  BY <1>3, <1>7, <1>8, <1>9 DEF Splits, q, l

LEMMA ChildSends ==
  ASSUME NEW n, NEW s, Heap(n), Ascending(n), NEW x \in DOMAIN n, ~n[x].leaf,
         NEW k \in Int, k \in s[x]
  PROVE  Child(n[x], k) \in DOMAIN n[x].kids /\ k \in View(n, s, x, Child(n[x], k))
<1> DEFINE c == Child(n[x], k)
<1>1. Splits(n[x].keys, k, c)
  BY ChildSplits
<1> HIDE DEF c
<1>2. c \in 1 .. Len(n[x].keys) + 1 /\ c \in DOMAIN n[x].kids
  BY <1>1, Indices DEF Splits
<1>3. c > 1 => n[x].keys[c - 1] <= k
  BY <1>1, <1>2, Indices DEF Splits
<1>4. c <= Len(n[x].keys) => k < n[x].keys[c]
  BY <1>1, <1>2, Indices DEF Splits
<1> QED
  BY <1>2, <1>3, <1>4 DEF View, c

-----------------------------------------------------------------------------
(* Steps that leave the heap as it is.                                     *)

LEMMA SentQuiet == \A o : ~IsRising(o) => \A s, x : Sent(o, s, x) = s[x]
BY DEF Sent

\* What holds of a call on its way down holds of every other, and of none.
LEMMA Quiet ==
  ASSUME NEW n, NEW r, NEW o, NEW p, NEW L, NEW s, ~IsRising(o), ~IsRising(p)
  PROVE  /\ Filled(n, r, o) => Filled(n, r, p)
         /\ Spans(n, o, s) => Spans(n, p, s)
         /\ Live(n, r, o, L) => Live(n, r, p, L)
         /\ Rooted(n, r, o, L, s) /\ r # Nil => Rooted(n, r, p, L, s)
<1>1. Filled(n, r, o) => Filled(n, r, p)
  BY DEF Filled
<1>2. \A x : Sent(o, s, x) = s[x] /\ Sent(p, s, x) = s[x]
  BY SentQuiet
<1>3. Spans(n, o, s) => Spans(n, p, s)
  BY <1>2 DEF Spans
<1>4. Live(n, r, o, L) => Live(n, r, p, L)
  BY DEF Live
<1>5. Rooted(n, r, o, L, s) /\ r # Nil => Rooted(n, r, p, L, s)
  BY <1>2 DEF Rooted
<1> QED
  BY <1>1, <1>2, <1>3, <1>4, <1>5

LEMMA IdleIsQuiet == ~IsRising(Idle)
BY DEF Idle, IsRising

\* A call that returns from its way down leaves a sound tree.
LEMMA Ended ==
  ASSUME NEW n, NEW r, NEW o, NEW m, NEW f, NEW L, NEW h, NEW b, NEW s,
         Sound(n, r, o, m, f, L, h, b, s), ~IsRising(o), r # Nil, NEW m2, NEW f2, f => f2
  PROVE  Sound(n, r, Idle, m2, f2, L, h, b, s)
<1>1. /\ Filled(n, r, Idle) /\ Spans(n, Idle, s) /\ Live(n, r, Idle, L)
      /\ Rooted(n, r, Idle, L, s)
  BY Quiet, IdleIsQuiet DEF Sound, Shape
<1>2. Calling(n, r, Idle, L, h, s) /\ Room(n, r, Idle, h) /\ Content(n, Idle, L, m2)
  BY IdleIsQuiet DEF Calling, Room, Content
<1>3. Whole(n, r, L, s, f2)
  BY DEF Sound, Whole
<1> QED
  BY <1>1, <1>2, <1>3 DEF Sound, Shape

LEMMA CallHasRoot ==
  ASSUME NEW L, NEW h, NEW b, NEW s, IsSound(L, h, b, s), op # Idle
  PROVE  /\ root # Nil /\ root \in L /\ root \in DOMAIN node /\ L \subseteq DOMAIN node
         /\ op \in Calls /\ op.at \in L /\ op.at \in DOMAIN node
         /\ op.key \in Keys /\ op.row \in Rows /\ op.key \in Int /\ op.row \in Int
<1>1. root # Nil /\ root \in L
  BY DEF IsSound, Sound, Shape, Rooted
<1>2. L \subseteq DOMAIN node
  BY DEF IsSound, Sound, Shape, Live
<1>3. op \in Calls /\ op.at \in L
  BY DEF IsSound, Sound, Shape, Calling
<1>4. op.key \in Keys /\ op.row \in Rows
  BY <1>3 DEF Calls
<1> QED
  BY <1>1, <1>2, <1>3, <1>4, KeysAreInts

LEMMA AtLeafIsQuiet == op.pc = "find_leaf" => ~IsRising(op) /\ op # Idle
BY DEF IsRising, Idle

LEMMA ReturnsStep ==
  ASSUME NEW L, NEW h, NEW b, NEW s, IsSound(L, h, b, s),
         bplus_search \/ InsertRefused \/ SplitFails
  PROVE  TreeInv'
<1>1. op.pc = "find_leaf" /\ op' = Idle /\ node' = node /\ root' = root /\ failed' \in BOOLEAN
      /\ (failed => failed')
  BY DEF bplus_search, InsertRefused, SplitFails, AtLeaf, Inserts, Return, IsSound
<1>2. root # Nil
  BY <1>1, AtLeafIsQuiet, CallHasRoot
<1>3. Sound(node, root, Idle, was', failed', L, h, b, s)
  BY <1>1, <1>2, AtLeafIsQuiet, Ended DEF IsSound
<1>4. IsSound(L, h, b, s)'
  BY <1>1, <1>3 DEF IsSound, Fits
<1> QED
  BY <1>4 DEF TreeInv

LEMMA FindLeafStep ==
  ASSUME NEW L, NEW h, NEW b, NEW s, IsSound(L, h, b, s), find_leaf
  PROVE  TreeInv'
<1> DEFINE x == op.at
           c == Child(node[x], op.key)
           y == node[x].kids[c]
<1>1. /\ op.pc = "find_leaf" /\ ~node[x].leaf /\ op' = [op EXCEPT !.at = y]
      /\ node' = node /\ root' = root /\ was' = was /\ failed' = failed
  BY DEF find_leaf
<1>2. ~IsRising(op) /\ op # Idle
  BY <1>1, AtLeafIsQuiet
<1>3. /\ root # Nil /\ op \in Calls /\ x \in L /\ x \in DOMAIN node
      /\ op.key \in Int /\ L \subseteq DOMAIN node
  BY <1>2, CallHasRoot
<1>4. op.key \in s[x] /\ op.right = Nil
  BY <1>2 DEF IsSound, Sound, Shape, Calling
<1>5. c \in DOMAIN node[x].kids /\ op.key \in View(node, s, x, c)
  BY <1>1, <1>3, <1>4, ChildSends DEF IsSound, Sound, Shape
<1>6. y \in L
  BY <1>3, <1>5 DEF IsSound, Sound, Shape, Live
<1>7. op.key \in s[y]
  <2>1. Sent(op, s, y) = View(node, s, x, c)
    BY <1>3, <1>5 DEF IsSound, Sound, Shape, Spans
  <2> QED
    BY <1>2, <1>5, <2>1, SentQuiet
<1>8. y \in Addr
  BY <1>3, <1>6 DEF IsSound, Sound, Shape, Heap
<1> HIDE DEF x, c, y
<1>9. op' \in Calls /\ op'.pc = op.pc /\ op'.kind = op.kind /\ op'.key = op.key /\ op'.row = op.row
      /\ op'.at = y /\ op'.right = op.right
  BY <1>1, <1>3, <1>8 DEF Calls
<1>10. ~IsRising(op') /\ op' # Idle
  BY <1>1, <1>9, AtLeafIsQuiet DEF IsRising, Idle
<1>11. /\ Filled(node, root, op') /\ Spans(node, op', s) /\ Live(node, root, op', L)
       /\ Rooted(node, root, op', L, s)
  BY <1>2, <1>3, <1>10, Quiet DEF IsSound, Sound, Shape
<1>12. Calling(node, root, op', L, h, s)
  BY <1>4, <1>6, <1>7, <1>9, <1>10 DEF Calling
<1>13. Room(node, root, op', h)
  BY <1>2, <1>9, <1>10 DEF IsSound, Sound, Shape, Room
<1>14. Content(node, op', L, was)
  BY <1>2, <1>9, <1>10 DEF IsSound, Sound, Content
<1>15. Sound(node, root, op', was, failed, L, h, b, s)
  BY <1>11, <1>12, <1>13, <1>14 DEF IsSound, Sound, Shape
<1>16. IsSound(L, h, b, s)'
  BY <1>1, <1>15 DEF IsSound
<1> QED
  BY <1>16 DEF TreeInv

\* A row has no part in the shape of a tree.
LEMMA SameButRows ==
  ASSUME NEW n, NEW r, NEW m, NEW f, NEW L, NEW h, NEW b, NEW s,
         Sound(n, r, Idle, m, f, L, h, b, s),
         NEW n2, Heap(n2), DOMAIN n2 = DOMAIN n,
         \A x \in DOMAIN n : /\ n2[x].leaf = n[x].leaf /\ n2[x].keys = n[x].keys
                             /\ n2[x].kids = n[x].kids /\ n2[x].parent = n[x].parent
                             /\ n2[x].next = n[x].next
  PROVE  Sound(n2, r, Idle, m, f, L, h, b, s)
<1>1. Parents(n2) /\ Levels(n2, h, b) /\ Ascending(n2)
  BY DEF Sound, Shape, Parents, Levels, Ascending
<1>2. Filled(n2, r, Idle)
  BY IdleIsQuiet DEF Sound, Shape, Filled
<1>3. \A x \in DOMAIN n : \A i : View(n2, s, x, i) = View(n, s, x, i)
  BY DEF View
<1>4. Spans(n2, Idle, s)
  BY <1>3, Zenon DEF Sound, Shape, Spans
<1>5. Live(n2, r, Idle, L)
  <2>1. \A x \in L : x \in DOMAIN n
    BY DEF Sound, Shape, Live
  <2> QED
    BY <2>1, IdleIsQuiet DEF Sound, Shape, Live
<1>6. Rooted(n2, r, Idle, L, s)
  BY <1>5 DEF Sound, Shape, Rooted, Live
<1>7. Calling(n2, r, Idle, L, h, s) /\ Room(n2, r, Idle, h) /\ Content(n2, Idle, L, m)
  BY IdleIsQuiet DEF Calling, Room, Content
<1>8. Whole(n2, r, L, s, f)
  <2>1. \A x \in L : x \in DOMAIN n
    BY DEF Sound, Shape, Live
  <2>2. Chained(n, r, L, s) => Chained(n2, r, L, s)
    BY <2>1 DEF Chained
  <2> QED
    BY <2>2 DEF Sound, Whole
<1> QED
  BY <1>1, <1>2, <1>4, <1>5, <1>6, <1>7, <1>8 DEF Sound, Shape

\* No node at all.
LEMMA Nothing ==
  \A m, f : Sound([a \in {} |-> NewLeaf], Nil, Idle, m, f, {}, [x \in {} |-> 0], 0, [x \in {} |-> Int])
<1> DEFINE n == [a \in {} |-> NewLeaf]
           h == [x \in {} |-> 0]
           s == [x \in {} |-> Int]
<1>1. DOMAIN n = {} /\ n \in [{} -> NodeSet] /\ h \in [{} -> 0 .. 0] /\ s \in [{} -> SUBSET Int]
  OBVIOUS
<1> HIDE DEF n, h, s
<1>2. Heap(n) /\ Parents(n) /\ Levels(n, h, 0) /\ Ascending(n) /\ Filled(n, Nil, Idle)
  BY <1>1 DEF Heap, Parents, Levels, Ascending, Filled
<1>3. Spans(n, Idle, s) /\ Live(n, Nil, Idle, {}) /\ Rooted(n, Nil, Idle, {}, s)
  BY <1>1 DEF Spans, Live, Rooted
<1>4. /\ Calling(n, Nil, Idle, {}, h, s) /\ Room(n, Nil, Idle, h)
      /\ \A m : Content(n, Idle, {}, m)
  BY IdleIsQuiet DEF Calling, Room, Content
<1>5. \A f : Whole(n, Nil, {}, s, f)
  BY <1>1 DEF Whole, Chained
<1> QED
  BY <1>2, <1>3, <1>4, <1>5 DEF Sound, Shape, n, h, s

LEMMA InitIsSound == Init => TreeInv
<1> SUFFICES ASSUME Init PROVE TreeInv
  OBVIOUS
<1>1. Sound(node, root, op, was, failed, {}, [x \in {} |-> 0], 0, [x \in {} |-> Int])
  BY Nothing DEF Init
<1>2. root \in Ptr /\ failed \in BOOLEAN /\ 0 \in Nat /\ Fits(node)
  BY DEF Init, Ptr, Fits
<1> QED
  BY <1>1, <1>2 DEF TreeInv, IsSound

LEMMA NewProcessStep ==
  ASSUME NewProcess
  PROVE  TreeInv'
<1>1. /\ node' = [a \in {} |-> NewLeaf] /\ root' = Nil /\ op' = Idle /\ failed' = FALSE
  BY DEF NewProcess
<1>2. Sound(node', root', op', was', failed', {}, [x \in {} |-> 0], 0, [x \in {} |-> Int])
  BY <1>1, Nothing
<1>3. root' \in Ptr /\ failed' \in BOOLEAN /\ 0 \in Nat /\ Fits(node')
  BY <1>1 DEF Ptr, Fits
<1>4. IsSound({}, [x \in {} |-> 0], 0, [x \in {} |-> Int])'
  BY <1>2, <1>3 DEF IsSound
<1> QED
  BY <1>4 DEF TreeInv

-----------------------------------------------------------------------------
(* Calls begin.                                                            *)

\* There is a live node on every level below the root's.
LEMMA EveryLevel ==
  ASSUME NEW n, NEW r, NEW o, NEW L, NEW h, NEW b \in Nat,
         Heap(n), Parents(n), Levels(n, h, b), Live(n, r, o, L), r \in L
  PROVE  \A l \in 0 .. h[r] : \E x \in L : h[x] = l
<1>1. \A x \in L : x \in DOMAIN n /\ h[x] \in Nat
  BY DEF Live, Levels
<1> DEFINE Bad == {j \in 0 .. h[r] : \A x \in L : h[x] + j # h[r]}
<1>2. SUFFICES ASSUME Bad # {}
               PROVE  FALSE
  <2>1. \A l \in 0 .. h[r] : h[r] - l \in 0 .. h[r]
    BY <1>1
  <2>2. \A l \in 0 .. h[r] : \E x \in L : h[x] + (h[r] - l) = h[r]
    BY <1>2, <2>1
  <2>3. TAKE l \in 0 .. h[r]
  <2>4. PICK x \in L : h[x] + (h[r] - l) = h[r]
    BY <2>2
  <2>5. h[x] = l
    BY <1>1, <2>4
  <2> QED
    BY <2>5
<1>3. Bad \in SUBSET Nat
  BY <1>1
<1>4. PICK j \in Bad : \A i \in Bad : j <= i
  <2> HIDE DEF Bad
  <2> QED
    BY <1>2, <1>3, LeastNat
<1>5. j # 0
  BY <1>1, <1>4
<1>6. PICK i \in Nat : j = i + 1
  BY <1>1, <1>4, <1>5
<1>7. i \notin Bad /\ i \in 0 .. h[r]
  BY <1>1, <1>4, <1>6
<1>8. PICK x \in L : h[x] + i = h[r]
  BY <1>7
<1>9. h[x] # 0
  BY <1>1, <1>4, <1>6, <1>8
<1>10. ~n[x].leaf
  BY <1>1, <1>9 DEF Levels
<1>11. 1 \in DOMAIN n[x].kids
  BY <1>1, <1>10, Indices
<1>12. n[x].kids[1] \in L /\ h[n[x].kids[1]] + 1 = h[x]
  BY <1>1, <1>11 DEF Live, Levels
<1>13. h[n[x].kids[1]] + j = h[r]
  BY <1>1, <1>6, <1>8, <1>12
<1> QED
  BY <1>4, <1>12, <1>13

\* There are at least as many internal nodes as there are levels of them.
LEMMA InternalNodes ==
  ASSUME NEW n, NEW r, NEW o, NEW L, NEW h, NEW b \in Nat,
         Heap(n), Parents(n), Levels(n, h, b), Live(n, r, o, L), r \in L
  PROVE  /\ IsFiniteSet({x \in L : ~n[x].leaf})
         /\ Cardinality({x \in L : ~n[x].leaf}) \in Nat
         /\ h[r] \in Nat /\ h[r] <= Cardinality({x \in L : ~n[x].leaf})
<1> DEFINE I == {x \in L : ~n[x].leaf}
           J == {x \in I : h[x] <= h[r]}
           f == [x \in J |-> h[x]]
<1>1. \A x \in L : x \in DOMAIN n /\ h[x] \in Nat /\ x \in Addr
  BY DEF Live, Levels, Heap
<1>2. IsFiniteSet(I) /\ IsFiniteSet(J) /\ Cardinality(J) <= Cardinality(I)
  <2>1. I \subseteq Addr /\ J \subseteq I
    BY <1>1
  <2>2. IsFiniteSet(I)
    BY <2>1, FS_Subset, TreeAssumption
  <2> QED
    BY <2>1, <2>2, FS_Subset
<1>3. \A x \in J : h[x] \in 1 .. h[r]
  BY <1>1 DEF Levels
<1>4. \A l \in 1 .. h[r] : \E x \in J : h[x] = l
  <2> SUFFICES ASSUME NEW l \in 1 .. h[r]
               PROVE  \E x \in J : h[x] = l
    OBVIOUS
  <2>1. PICK x \in L : h[x] = l
    BY <1>1, EveryLevel
  <2>2. ~n[x].leaf
    BY <1>1, <2>1 DEF Levels
  <2> QED
    BY <1>1, <2>1, <2>2
<1> HIDE DEF J, I
<1>5. f \in Surjection(J, 1 .. h[r])
  BY <1>3, <1>4 DEF Surjection
<1>6. Cardinality(1 .. h[r]) <= Cardinality(J)
  BY <1>2, <1>5, FS_Surjection
<1>7. Cardinality(1 .. h[r]) = h[r]
  BY <1>1, FS_Interval
<1>8. Cardinality(I) \in Nat /\ Cardinality(J) \in Nat /\ h[r] \in Nat
  BY <1>1, <1>2, FS_CardinalityType
<1>9. h[r] <= Cardinality(I)
  BY <1>2, <1>6, <1>7, <1>8
<1> QED
  BY <1>2, <1>8, <1>9 DEF I

LEMMA TreeIsLive ==
  ASSUME NEW L, NEW h, NEW b, NEW s, IsSound(L, h, b, s), ~IsRising(op)
  PROVE  Tree = L
<1>1. CASE root = Nil
  BY <1>1 DEF IsSound, Sound, Shape, Rooted, Tree
<1>2. CASE root # Nil
  <2>1. root \in L
    BY <1>2 DEF IsSound, Sound, Shape, Rooted
  <2>2. L = Under(node, root)
    BY <2>1, LiveIsUnder DEF IsSound, Sound, Shape
  <2> QED
    BY <1>2, <2>2 DEF Tree
<1> QED
  BY <1>1, <1>2

\* A key is in one leaf, in one place: Contents has the row beside it.
LEMMA ContentsHold ==
  ASSUME NEW L, NEW h, NEW b, NEW s, IsSound(L, h, b, s), ~IsRising(op), root # Nil
  PROVE  Holds(node, L, Contents)
<1>1. Tree = L /\ L \subseteq DOMAIN node /\ root \in DOMAIN node /\ L = Under(node, root)
  <2>1. Tree = L
    BY TreeIsLive
  <2> QED
    BY <2>1 DEF IsSound, Sound, Shape, Live, Rooted, Tree
<1>2. \A y, z \in L : node[y].leaf /\ node[z].leaf /\ y # z => s[y] \cap s[z] = {}
  BY <1>1, LeavesApart DEF IsSound, Sound, Shape
<1>3. \A x \in L : \A i \in DOMAIN node[x].keys : node[x].keys[i] \in s[x]
  BY <1>1 DEF IsSound, Sound, Shape, Spans
<1>4. DOMAIN Contents = UNION {Range(node[x].keys) : x \in Leaves}
  BY DEF Contents
<1>5. ASSUME NEW x \in L, node[x].leaf, NEW i \in DOMAIN node[x].keys
      PROVE  node[x].keys[i] \in DOMAIN Contents /\ Contents[node[x].keys[i]] = node[x].rows[i]
  <2> DEFINE k == node[x].keys[i]
             y == CHOOSE z \in Leaves : HasKey(node[z], k)
             j == CHOOSE l \in DOMAIN node[x].keys : node[x].keys[l] = k
  <2>1. x \in Leaves /\ HasKey(node[x], k) /\ k \in DOMAIN Contents
    BY <1>1, <1>4, <1>5 DEF Leaves, HasKey, Range
  <2>2. y \in Leaves /\ HasKey(node[y], k)
    BY <2>1
  <2>3. Contents[k] = RowOf(node[y], k)
    BY <2>1 DEF Contents
  <2> HIDE DEF y
  <2>4. y = x
    <3>1. y \in L /\ node[y].leaf /\ \E l \in DOMAIN node[y].keys : node[y].keys[l] = k
      BY <1>1, <2>2 DEF Leaves, HasKey, Range
    <3> QED
      BY <1>2, <1>3, <1>5, <3>1
  <2>5. j \in DOMAIN node[x].keys /\ node[x].keys[j] = k
    OBVIOUS
  <2>6. RowOf(node[x], k) = node[x].rows[j]
    BY DEF RowOf
  <2> HIDE DEF j
  <2>7. j = i
    <3>1. Heap(node) /\ Ascending(node) /\ x \in DOMAIN node
      BY <1>1 DEF IsSound, Sound, Shape
    <3>2. i \in Nat /\ j \in Nat /\ k \in Int
      BY <2>5, <3>1, Indices, Elements
    <3>3. i < j \/ j < i => FALSE
      BY <2>5, <3>1, <3>2 DEF Ascending
    <3> QED
      BY <3>2, <3>3
  <2> QED
    BY <2>1, <2>3, <2>4, <2>6, <2>7
<1>6. ASSUME NEW k \in DOMAIN Contents
      PROVE  \E x \in L : node[x].leaf /\ \E i \in DOMAIN node[x].keys : node[x].keys[i] = k
  BY <1>1, <1>4, <1>6 DEF Leaves, Range
<1>7. Contents = [k \in DOMAIN Contents |-> Contents[k]]
  BY DEF Contents
<1> QED
  BY <1>5, <1>6, <1>7 DEF Holds, Within

LEMMA CallStep ==
  ASSUME NEW L, NEW h, NEW b, NEW s, IsSound(L, h, b, s), Call
  PROVE  TreeInv'
<1>1. PICK kind \in Kinds, a \in Args :
        /\ kind # "search" => InTurn(a[1])
        /\ op' = [pc |-> "find_leaf", kind |-> kind, key |-> a[1], row |-> a[2],
                  at |-> root, right |-> Nil, sep |-> 0]
  BY DEF Call, Kinds
<1>2. /\ op = Idle /\ root # Nil /\ was' = Contents
      /\ node' = node /\ root' = root /\ failed' = failed
  BY DEF Call
<1>3. /\ op'.pc = "find_leaf" /\ op'.kind = kind /\ op'.key = a[1] /\ op'.row = a[2]
      /\ op'.at = root /\ op'.right = Nil /\ op'.sep = 0
  BY <1>1
<1>4. ~IsRising(op) /\ ~IsRising(op') /\ op' # Idle
  BY <1>2, <1>3, IdleIsQuiet DEF IsRising, Idle
<1>5. a[1] \in Keys /\ a[2] \in Rows
  BY DEF Keys, Rows
<1>6. root \in L /\ root \in Addr /\ s[root] = Int /\ Tree = L
  <2>1. root \in L /\ Sent(op, s, root) = Int
    BY <1>2 DEF IsSound, Sound, Shape, Rooted
  <2>2. root \in Addr
    BY <2>1 DEF IsSound, Sound, Shape, Live, Heap
  <2> QED
    BY <1>4, <2>1, <2>2, SentQuiet, TreeIsLive
<1>7. op' \in Calls
  <2>1. Nil \in Ptr
    BY DEF Ptr
  <2> QED
    BY <1>1, <1>5, <1>6, <2>1 DEF Calls
<1>8. /\ Filled(node, root, op') /\ Spans(node, op', s) /\ Live(node, root, op', L)
      /\ Rooted(node, root, op', L, s)
  BY <1>2, <1>4, Quiet DEF IsSound, Sound, Shape
<1>9. Calling(node, root, op', L, h, s)
  BY <1>3, <1>4, <1>5, <1>6, <1>7, KeysAreInts DEF Calling
<1>10. Room(node, root, op', h)
  <2>1. CASE kind = "search"
    BY <1>3, <1>4, <2>1 DEF Room
  <2>2. CASE kind # "search"
    <3>1. Cardinality(DOMAIN node) + Cardinality(Tree \ Leaves) + 2 <= Cardinality(Addr)
      BY <1>1, <2>2 DEF InTurn
    <3>2. Tree \ Leaves = {x \in L : ~node[x].leaf}
      BY <1>6 DEF Leaves
    <3>3. h[root] \in Nat /\ Cardinality(Tree \ Leaves) \in Nat /\ h[root] <= Cardinality(Tree \ Leaves)
      BY <1>6, <3>2, InternalNodes DEF IsSound, Sound, Shape
    <3>4. Cardinality(DOMAIN node) \in Nat /\ Cardinality(Addr) \in Nat
      <4>1. DOMAIN node \subseteq Addr
        BY DEF IsSound, Sound, Shape, Heap
      <4>2. IsFiniteSet(DOMAIN node) /\ IsFiniteSet(Addr)
        BY <4>1, FS_Subset, TreeAssumption
      <4> QED
        BY <4>2, FS_CardinalityType
    <3>5. Cardinality(DOMAIN node) + h[root] + 2 <= Cardinality(Addr)
      BY <3>1, <3>3, <3>4
    <3> QED
      BY <1>4, <3>5 DEF Room
  <2> QED
    BY <2>1, <2>2
<1>11. Content(node, op', L, Contents)
  BY <1>2, <1>4, ContentsHold DEF Content
<1>12. Sound(node, root, op', Contents, failed, L, h, b, s)
  BY <1>8, <1>9, <1>10, <1>11 DEF IsSound, Sound, Shape
<1>13. IsSound(L, h, b, s)'
  BY <1>2, <1>12 DEF IsSound
<1> QED
  BY <1>13 DEF TreeInv

-----------------------------------------------------------------------------
(* Trees begin and end.                                                    *)

\* A tree of one empty leaf.
LEMMA FirstLeaf ==
  ASSUME NEW a \in Addr, NEW n, n = [x \in {a} |-> NewLeaf], NEW m, NEW f, NEW b \in Nat
  PROVE  Sound(n, a, Idle, m, f, {a}, [x \in {a} |-> 0], b, [x \in {a} |-> Int])
<1> DEFINE h == [x \in {a} |-> 0]
           s == [x \in {a} |-> Int]
<1>1. DOMAIN n = {a} /\ n[a] = NewLeaf
  OBVIOUS
<1>2. /\ DOMAIN h = {a} /\ h[a] = 0 /\ h \in [{a} -> 0 .. b]
      /\ DOMAIN s = {a} /\ s[a] = Int /\ s \in [{a} -> SUBSET Int]
  OBVIOUS
<1> HIDE DEF h, s
<1>3. /\ NewLeaf.leaf = TRUE /\ NewLeaf.keys = <<>> /\ NewLeaf.kids = <<>> /\ NewLeaf.rows = <<>>
      /\ NewLeaf.parent = Nil /\ NewLeaf.next = Nil /\ NewLeaf \in NodeSet
  <2>1. Nil \in Ptr /\ <<>> \in Seq(Keys) /\ <<>> \in Seq(Rows) /\ <<>> \in Seq(Addr)
    BY DEF Ptr
  <2> QED
    BY <2>1 DEF NewLeaf, NodeSet
<1>4. n \in [{a} -> NodeSet]
  BY <1>3
<1>5. Len(<<>>) = 0 /\ DOMAIN <<>> = {} /\ MaxKeys \in Nat
  BY TreeAssumption
<1>6. Heap(n)
  BY <1>1, <1>3, <1>4, <1>5 DEF Heap
<1>7. Parents(n) /\ Levels(n, h, b) /\ Ascending(n)
  BY <1>1, <1>2, <1>3, <1>5 DEF Parents, Levels, Ascending
<1>8. Filled(n, a, Idle)
  BY <1>1, IdleIsQuiet DEF Filled
<1>9. Spans(n, Idle, s)
  BY <1>1, <1>2, <1>3, <1>5 DEF Spans
<1>10. Live(n, a, Idle, {a})
  BY <1>1, <1>3, <1>5 DEF Live
<1>11. Rooted(n, a, Idle, {a}, s)
  <2>1. a # Nil
    BY TreeAssumption
  <2> QED
    BY <1>1, <1>2, <1>3, <2>1, IdleIsQuiet, SentQuiet DEF Rooted
<1>12. Calling(n, a, Idle, {a}, h, s) /\ Room(n, a, Idle, h) /\ Content(n, Idle, {a}, m)
  BY IdleIsQuiet DEF Calling, Room, Content
<1>13. Whole(n, a, {a}, s, f)
  BY <1>1, <1>2, <1>3 DEF Whole, Chained
<1> QED
  BY <1>6, <1>7, <1>8, <1>9, <1>10, <1>11, <1>12, <1>13 DEF Sound, Shape, h, s

LEMMA CreateStep ==
  ASSUME NEW L, NEW h, NEW b, NEW s, IsSound(L, h, b, s), bplus_create
  PROVE  TreeInv'
<1>1. /\ op = Idle /\ root = Nil /\ failed = FALSE
      /\ root' = Fresh /\ node' = Alloc(node, Fresh, NewLeaf) /\ op' = op /\ failed' = failed
  BY DEF bplus_create, IsSound
<1>2. DOMAIN node = {}
  BY <1>1 DEF IsSound, Sound, Shape, Rooted, Whole
<1>3. Fresh \in Addr
  BY <1>2, TreeAssumption DEF Fresh
<1>4. node' = [x \in {Fresh} |-> NewLeaf]
  BY <1>1, <1>2 DEF Alloc
<1> DEFINE a == root'
<1>5. a \in Addr /\ a \in Ptr /\ node' = [x \in {a} |-> NewLeaf] /\ b \in Nat
  BY <1>1, <1>3, <1>4 DEF Ptr, IsSound
<1> HIDE DEF a
<1>6. Sound(node', a, Idle, was', failed', {a}, [x \in {a} |-> 0], b, [x \in {a} |-> Int])
  BY <1>5, FirstLeaf
<1>7. PICK L2, h2, s2 : Sound(node', a, Idle, was', failed', L2, h2, b, s2)
  BY <1>6
<1>8. Fits(node')
  <2>1. Len(<<>>) = 0 /\ MaxKeys \in Nat
    BY TreeAssumption
  <2>2. \A x \in DOMAIN node' : Len(node'[x].keys) = 0
    BY <1>5, <2>1 DEF NewLeaf
  <2> QED
    BY <2>1, <2>2 DEF Fits
<1>9. IsSound(L2, h2, b, s2)'
  BY <1>1, <1>5, <1>7, <1>8 DEF IsSound, a
<1> QED
  BY <1>9 DEF TreeInv

LEMMA CreateFailsStep ==
  ASSUME NEW L, NEW h, NEW b, NEW s, IsSound(L, h, b, s), CreateFails
  PROVE  TreeInv'
<1>1. UNCHANGED <<node, root, op, was>> /\ failed' = TRUE
  BY DEF CreateFails
<1>2. IsSound(L, h, b, s)'
  BY <1>1 DEF IsSound, Sound, Whole
<1> QED
  BY <1>2 DEF TreeInv

LEMMA DestroyStep ==
  ASSUME NEW L, NEW h, NEW b, NEW s, IsSound(L, h, b, s), bplus_destroy
  PROVE  TreeInv'
<1> DEFINE D  == DOMAIN node \ L
           n2 == [x \in D |-> node[x]]
           h2 == [x \in D |-> h[x]]
           s2 == [x \in D |-> s[x]]
<1>1. /\ op = Idle /\ root # Nil /\ root' = Nil /\ op' = Idle /\ failed' = failed
      /\ node' = Restrict(node, DOMAIN node \ Tree)
  BY DEF bplus_destroy
<1>2. node' = n2
  <2>1. Tree = L
    BY <1>1, IdleIsQuiet, TreeIsLive
  <2> QED
    BY <1>1, <2>1 DEF Restrict
<1>3. Sound(node, root, Idle, was, failed, L, h, b, s)
  BY <1>1 DEF IsSound
<1>4. DOMAIN n2 = D /\ D \subseteq DOMAIN node /\ \A x \in D : n2[x] = node[x]
  OBVIOUS
<1>5. DOMAIN h2 = D /\ DOMAIN s2 = D /\ \A x \in D : h2[x] = h[x] /\ s2[x] = s[x]
  OBVIOUS
<1>6. /\ n2 \in [D -> NodeSet] /\ h2 \in [D -> 0 .. b] /\ s2 \in [D -> SUBSET Int]
  BY <1>3 DEF Sound, Shape, Heap, Levels, Spans
<1> HIDE DEF n2, h2, s2
<1>7. \A x \in D : \A i \in DOMAIN node[x].kids : node[x].kids[i] \in D
  <2> SUFFICES ASSUME NEW x \in D, NEW i \in DOMAIN node[x].kids, node[x].kids[i] \in L
               PROVE  FALSE
    BY <1>3 DEF Sound, Shape, Parents
  <2> DEFINE y == node[x].kids[i]
  <2>1. node[y].parent = x
    BY <1>3 DEF Sound, Shape, Parents
  <2>2. y # root
    <3>1. x # Nil
      BY <1>3, TreeAssumption DEF Sound, Shape, Heap
    <3> QED
      BY <1>1, <1>3, <2>1, <3>1 DEF Sound, Shape, Rooted
  <2>3. node[y].parent \in L
    BY <1>3, <2>2, IdleIsQuiet DEF Sound, Shape, Live
  <2> QED
    BY <2>1, <2>3
<1>8. Heap(n2)
  BY <1>3, <1>4, <1>6 DEF Sound, Shape, Heap
<1>9. Parents(n2)
  BY <1>3, <1>4, <1>7 DEF Sound, Shape, Parents
<1>10. Levels(n2, h2, b)
  BY <1>3, <1>4, <1>5, <1>6, <1>7 DEF Sound, Shape, Levels
<1>11. Ascending(n2)
  BY <1>3, <1>4 DEF Sound, Shape, Ascending
<1>12. Filled(n2, Nil, Idle)
  <2>1. root \in L
    BY <1>1, <1>3 DEF Sound, Shape, Rooted
  <2> QED
    BY <1>3, <1>4, <2>1, IdleIsQuiet DEF Sound, Shape, Filled
<1>13. Spans(n2, Idle, s2)
  <2>1. \A x \in D : \A i : View(n2, s2, x, i) = View(node, s, x, i)
    BY <1>4, <1>5 DEF View
  <2>2. \A x \in D : \A i \in DOMAIN node[x].kids :
          Sent(Idle, s2, node[x].kids[i]) = Sent(Idle, s, node[x].kids[i])
    BY <1>5, <1>7, IdleIsQuiet, SentQuiet
  <2>3. \A x \in D : \A i \in DOMAIN n2[x].keys : n2[x].keys[i] \in s2[x]
    BY <1>3, <1>4, <1>5 DEF Sound, Shape, Spans
  <2>4. \A x \in D : \A v, w \in s2[x] : \A u \in Int : v <= u /\ u <= w => u \in s2[x]
    BY <1>3, <1>4, <1>5 DEF Sound, Shape, Spans
  <2>5. \A x \in D : \A i \in DOMAIN n2[x].kids : Sent(Idle, s2, n2[x].kids[i]) = View(n2, s2, x, i)
    BY <1>3, <1>4, <2>1, <2>2 DEF Sound, Shape, Spans
  <2> QED
    BY <1>4, <1>6, <2>3, <2>4, <2>5 DEF Spans
<1>14. Live(n2, Nil, Idle, {}) /\ Rooted(n2, Nil, Idle, {}, s2)
  BY DEF Live, Rooted
<1>15. /\ Calling(n2, Nil, Idle, {}, h2, s2) /\ Room(n2, Nil, Idle, h2)
       /\ Content(n2, Idle, {}, was')
  BY IdleIsQuiet DEF Calling, Room, Content
<1>16. Whole(n2, Nil, {}, s2, failed)
  BY <1>3, <1>4 DEF Sound, Whole, Chained
<1>17. Sound(n2, Nil, Idle, was', failed, {}, h2, b, s2)
  BY <1>8, <1>9, <1>10, <1>11, <1>12, <1>13, <1>14, <1>15, <1>16 DEF Sound, Shape
<1>18. PICK L3, h3, s3 : Sound(n2, Nil, Idle, was', failed, L3, h3, b, s3)
  BY <1>17
<1>19. root' \in Ptr /\ failed' \in BOOLEAN /\ b \in Nat /\ Fits(n2)
  BY <1>1, <1>4 DEF IsSound, Ptr, Fits
<1>20. IsSound(L3, h3, b, s3)'
  BY <1>1, <1>2, <1>18, <1>19 DEF IsSound
<1> QED
  BY <1>20 DEF TreeInv

-----------------------------------------------------------------------------
(* A leaf gets a key.                                                      *)

AscendingSeq(q) == \A i, j \in DOMAIN q : i < j => q[i] < q[j]

\* A new key, put where it splits the others, leaves them in order.
LEMMA InOrder ==
  ASSUME NEW q \in Seq(Keys), AscendingSeq(q), NEW k \in Keys, NEW i, Splits(q, k, i),
         \A j \in DOMAIN q : q[j] # k, NEW t \in Seq(Keys), IsInserted(t, q, i, k)
  PROVE  AscendingSeq(t)
<1> DEFINE l == Len(q)
<1>1. i \in 1 .. l + 1 /\ l \in Nat /\ DOMAIN q = 1 .. l
  BY DEF Splits
<1>2. /\ Len(t) = l + 1
      /\ \A j \in 1 .. l + 1 : t[j] = IF j < i THEN q[j] ELSE IF j = i THEN k ELSE q[j - 1]
  BY DEF IsInserted
<1>3. DOMAIN t = 1 .. l + 1
  BY <1>1, <1>2
<1>4. \A j \in 1 .. l : q[j] \in Int
  <2>1. \A j \in 1 .. l : q[j] \in Keys
    BY <1>1
  <2> QED
    BY <2>1, KeysAreInts
<1>5. k \in Int
  BY KeysAreInts
<1>6. \A j \in 1 .. l : j < i => q[j] < k
  BY <1>1, <1>4, <1>5 DEF Splits
<1>7. \A j \in 1 .. l : j >= i => k < q[j]
  BY <1>1 DEF Splits
<1>8. \A c, d \in 1 .. l : c < d => q[c] < q[d]
  BY <1>1 DEF AscendingSeq
<1> HIDE DEF l
<1>9. ASSUME NEW c \in 1 .. l + 1, NEW d \in 1 .. l + 1, c < d
      PROVE  t[c] < t[d]
  <2>1. CASE d < i
    <3>1. t[c] = q[c] /\ t[d] = q[d] /\ c \in 1 .. l /\ d \in 1 .. l
      BY <1>1, <1>2, <1>9, <2>1
    <3> QED
      BY <1>8, <1>9, <3>1
  <2>2. CASE d = i
    <3>1. t[c] = q[c] /\ t[d] = k /\ c \in 1 .. l /\ c < i
      BY <1>1, <1>2, <1>9, <2>2
    <3> QED
      BY <1>6, <3>1
  <2>3. CASE d > i /\ c < i
    <3>1. t[c] = q[c] /\ t[d] = q[d - 1] /\ c \in 1 .. l /\ d - 1 \in 1 .. l /\ c < d - 1
      BY <1>1, <1>2, <1>9, <2>3
    <3> QED
      BY <1>8, <3>1
  <2>4. CASE d > i /\ c = i
    <3>1. t[c] = k /\ t[d] = q[d - 1] /\ d - 1 \in 1 .. l /\ d - 1 >= i
      BY <1>1, <1>2, <1>9, <2>4
    <3> QED
      BY <1>7, <3>1
  <2>5. CASE c > i
    <3>1. /\ t[c] = q[c - 1] /\ t[d] = q[d - 1] /\ c - 1 \in 1 .. l /\ d - 1 \in 1 .. l
          /\ c - 1 < d - 1
      BY <1>1, <1>2, <1>9, <2>5
    <3> QED
      BY <1>8, <3>1
  <2> QED
    BY <1>1, <2>1, <2>2, <2>3, <2>4, <2>5
<1> QED
  BY <1>3, <1>9 DEF AscendingSeq

\* A leaf that gets keys of its span, and not fewer than it had.
LEMMA LeafFilled ==
  ASSUME NEW n, NEW r, NEW m, NEW f, NEW L, NEW h, NEW b, NEW s,
         Sound(n, r, Idle, m, f, L, h, b, s), NEW x \in DOMAIN n, n[x].leaf,
         NEW n2, Heap(n2), DOMAIN n2 = DOMAIN n, \A y \in DOMAIN n : y # x => n2[y] = n[y],
         n2[x].leaf = n[x].leaf, n2[x].kids = n[x].kids,
         n2[x].parent = n[x].parent, n2[x].next = n[x].next,
         Len(n[x].keys) <= Len(n2[x].keys), AscendingSeq(n2[x].keys),
         \A i \in DOMAIN n2[x].keys : n2[x].keys[i] \in s[x]
  PROVE  Sound(n2, r, Idle, m, f, L, h, b, s)
<1>1. \A y \in DOMAIN n : /\ n2[y].leaf = n[y].leaf /\ n2[y].kids = n[y].kids
                          /\ n2[y].parent = n[y].parent /\ n2[y].next = n[y].next
  OBVIOUS
<1>2. Parents(n2) /\ Levels(n2, h, b)
  BY <1>1 DEF Sound, Shape, Parents, Levels
<1>3. Ascending(n2)
  BY DEF Sound, Shape, Ascending, AscendingSeq
<1>4. Filled(n2, r, Idle)
  <2>1. \A y \in DOMAIN n : y # r => Len(n[y].keys) >= Least(n[y].leaf)
    BY DEF Sound, Shape, Filled
  <2>2. ASSUME NEW y \in DOMAIN n
        PROVE  Len(n[y].keys) <= Len(n2[y].keys)
    <3>1. CASE y = x
      BY <3>1
    <3>2. CASE y # x
      <4>1. n2[y] = n[y] /\ Len(n[y].keys) \in Nat
        BY <3>2, Indices DEF Sound, Shape
      <4> QED
        BY <4>1
    <3> QED
      BY <3>1, <3>2
  <2>3. \A y \in DOMAIN n : Least(n[y].leaf) \in Int /\ Len(n[y].keys) \in Int /\ Len(n2[y].keys) \in Int
    BY Indices, TreeAssumption DEF Sound, Shape, Least
  <2> QED
    BY <1>1, <2>1, <2>2, <2>3, IdleIsQuiet DEF Filled
<1>5. Spans(n2, Idle, s)
  <2>1. \A y \in DOMAIN n : y # x => \A i : View(n2, s, y, i) = View(n, s, y, i)
    BY DEF View
  <2>2. DOMAIN n2[x].kids = {}
    BY Indices DEF Sound, Shape
  <2>3. \A y \in DOMAIN n : \A i \in DOMAIN n2[y].kids : Sent(Idle, s, n2[y].kids[i]) = View(n2, s, y, i)
    BY <2>1, <2>2 DEF Sound, Shape, Spans
  <2>4. \A y \in DOMAIN n : \A i \in DOMAIN n2[y].keys : n2[y].keys[i] \in s[y]
    BY DEF Sound, Shape, Spans
  <2> QED
    BY <2>3, <2>4 DEF Sound, Shape, Spans
<1>6. Live(n2, r, Idle, L)
  <2>1. \A y \in L : y \in DOMAIN n
    BY DEF Sound, Shape, Live
  <2> QED
    BY <1>1, <2>1, IdleIsQuiet DEF Sound, Shape, Live
<1>7. Rooted(n2, r, Idle, L, s)
  BY <1>1, <1>6 DEF Sound, Shape, Rooted, Live
<1>8. Calling(n2, r, Idle, L, h, s) /\ Room(n2, r, Idle, h) /\ Content(n2, Idle, L, m)
  BY IdleIsQuiet DEF Calling, Room, Content
<1>9. Whole(n2, r, L, s, f)
  <2>1. \A y \in L : y \in DOMAIN n
    BY DEF Sound, Shape, Live
  <2>2. Chained(n, r, L, s) => Chained(n2, r, L, s)
    BY <1>1, <2>1 DEF Chained
  <2> QED
    BY <2>2 DEF Sound, Whole
<1> QED
  BY <1>2, <1>3, <1>4, <1>5, <1>6, <1>7, <1>8, <1>9 DEF Sound, Shape

\* What an insertion knows that has reached its leaf.
LEMMA AtInsertion ==
  ASSUME NEW L, NEW h, NEW b, NEW s, IsSound(L, h, b, s), Inserts
  PROVE  /\ ~IsRising(op) /\ op # Idle /\ op.pc = "find_leaf" /\ op.kind # "search" /\ op.right = Nil
         /\ node[op.at].leaf /\ op.key \in s[op.at]
         /\ \A j \in DOMAIN node[op.at].keys : node[op.at].keys[j] # op.key
         /\ Len(node[op.at].rows) = Len(node[op.at].keys)
         /\ AscendingSeq(node[op.at].keys)
<1>1. op.pc = "find_leaf" /\ node[op.at].leaf /\ op.kind # "search" /\ ~HasKey(node[op.at], op.key)
  BY DEF Inserts, AtLeaf, Found
<1>2. ~IsRising(op) /\ op # Idle
  BY <1>1, AtLeafIsQuiet
<1>3. op.key \in s[op.at] /\ op.right = Nil
  BY <1>2 DEF IsSound, Sound, Shape, Calling
<1>4. op.at \in DOMAIN node
  BY <1>2, CallHasRoot
<1>5. Len(node[op.at].rows) = Len(node[op.at].keys)
  BY <1>1, <1>4 DEF IsSound, Sound, Shape, Heap
<1>6. AscendingSeq(node[op.at].keys)
  BY <1>4 DEF IsSound, Sound, Shape, Ascending, AscendingSeq
<1>7. \A j \in DOMAIN node[op.at].keys : node[op.at].keys[j] # op.key
  BY <1>1 DEF HasKey, Range
<1> QED
  BY <1>1, <1>2, <1>3, <1>5, <1>6, <1>7


\* A leaf that gets a key and its row, both in the same place.
LEMMA HoldsAdded ==
  ASSUME NEW n, NEW L, NEW m, Holds(n, L, m), Heap(n), L \subseteq DOMAIN n,
         NEW x \in L, n[x].leaf, NEW k, k \notin DOMAIN m, NEW w,
         NEW i \in 1 .. Len(n[x].keys) + 1,
         NEW n2, n2[x].leaf, IsInserted(n2[x].keys, n[x].keys, i, k), n2[x].keys \in Seq(Keys),
         IsInserted(n2[x].rows, n[x].rows, i, w), \A y \in L : y # x => n2[y] = n[y]
  PROVE  Holds(n2, L, Added(m, k, w))
<1> DEFINE a  == Added(m, k, w)
           ks == n[x].keys
           l  == Len(ks)
<1>1. DOMAIN a = DOMAIN m \cup {k} /\ a[k] = w /\ \A y \in DOMAIN m : a[y] = m[y]
  BY DEF Added
<1>2. a = [y \in DOMAIN a |-> a[y]]
  BY DEF Added
<1> HIDE DEF a
<1>3. l \in Nat /\ DOMAIN ks = 1 .. l /\ Len(n[x].rows) = l /\ i \in 1 .. l + 1
  BY Indices DEF Heap
<1>4. DOMAIN n2[x].keys = 1 .. l + 1
  BY <1>3 DEF IsInserted
<1>5. \A j \in 1 .. l + 1 :
        /\ n2[x].keys[j] = IF j < i THEN ks[j] ELSE IF j = i THEN k ELSE ks[j - 1]
        /\ n2[x].rows[j] = IF j < i THEN n[x].rows[j] ELSE IF j = i THEN w ELSE n[x].rows[j - 1]
  BY <1>3 DEF IsInserted
<1>6. \A j \in 1 .. l : ks[j] \in DOMAIN m /\ m[ks[j]] = n[x].rows[j]
  BY <1>3 DEF Holds, Within
<1> HIDE DEF ks, l
<1>7. ASSUME NEW j \in 1 .. l + 1
      PROVE  n2[x].keys[j] \in DOMAIN a /\ a[n2[x].keys[j]] = n2[x].rows[j]
  <2>1. CASE j < i
    <3>1. j \in 1 .. l
      BY <1>3, <2>1
    <3> QED
      BY <1>1, <1>5, <1>6, <2>1, <3>1
  <2>2. CASE j = i
    BY <1>1, <1>5, <2>2
  <2>3. CASE j > i
    <3>1. j - 1 \in 1 .. l /\ ~(j < i) /\ j # i
      BY <1>3, <2>3
    <3> QED
      BY <1>1, <1>5, <1>6, <3>1
  <2> QED
    BY <1>3, <2>1, <2>2, <2>3
<1>8. Within(n2, L, a)
  <2> SUFFICES ASSUME NEW y \in L, n2[y].leaf, NEW j \in DOMAIN n2[y].keys
               PROVE  n2[y].keys[j] \in DOMAIN a /\ a[n2[y].keys[j]] = n2[y].rows[j]
    BY DEF Within
  <2>1. CASE y = x
    BY <1>4, <1>7, <2>1
  <2>2. CASE y # x
    BY <1>1, <2>2 DEF Holds, Within
  <2> QED
    BY <2>1, <2>2
<1>9. ASSUME NEW c \in DOMAIN a
      PROVE  \E y \in L : n2[y].leaf /\ \E j \in DOMAIN n2[y].keys : n2[y].keys[j] = c
  <2>1. CASE c = k
    BY <1>3, <1>4, <1>5, <2>1
  <2>2. CASE c # k
    <3>1. PICK y \in L : n[y].leaf /\ \E j \in DOMAIN n[y].keys : n[y].keys[j] = c
      BY <1>1, <2>2 DEF Holds
    <3>2. CASE y # x
      BY <3>1, <3>2
    <3>3. CASE y = x
      <4>1. PICK j \in 1 .. l : ks[j] = c
        BY <1>3, <3>1, <3>3 DEF ks
      <4>2. CASE j < i
        BY <1>3, <1>4, <1>5, <4>1, <4>2, SMTT(40)
      <4>3. CASE j >= i
        <5>1. j + 1 \in 1 .. l + 1 /\ ~(j + 1 < i) /\ j + 1 # i /\ (j + 1) - 1 = j
          BY <1>3, <4>3
        <5>2. n2[x].keys[j + 1] = c
          BY <1>5, <4>1, <5>1
        <5> QED
          BY <1>4, <5>1, <5>2
      <4> QED
        BY <1>3, <4>2, <4>3
    <3> QED
      BY <3>2, <3>3
  <2> QED
    BY <2>1, <2>2
<1> QED
  BY <1>2, <1>8, <1>9 DEF Holds, a

\* The leaf that the call has reached tells whether its key is in the tree, and
\* what its row is.
LEMMA LookedUp ==
  ASSUME NEW L, NEW h, NEW b, NEW s, IsSound(L, h, b, s), AtLeaf
  PROVE  /\ Holds(node, L, was)
         /\ Found <=> op.key \in DOMAIN was
         /\ Found => RowOf(node[op.at], op.key) = was[op.key]
<1>1. /\ ~IsRising(op) /\ op # Idle /\ op.key \in s[op.at] /\ node[op.at].leaf
  BY AtLeafIsQuiet DEF AtLeaf, IsSound, Sound, Shape, Calling
<1>2. Holds(node, L, was)
  BY <1>1 DEF IsSound, Sound, Content
<1>3. root # Nil /\ root \in L /\ root \in DOMAIN node /\ op.at \in L /\ L \subseteq DOMAIN node
  BY <1>1, CallHasRoot
<1>4. ASSUME Found
      PROVE  op.key \in DOMAIN was /\ RowOf(node[op.at], op.key) = was[op.key]
  <2> DEFINE i == CHOOSE j \in DOMAIN node[op.at].keys : node[op.at].keys[j] = op.key
  <2>1. i \in DOMAIN node[op.at].keys /\ node[op.at].keys[i] = op.key
    BY <1>4 DEF Found, HasKey, Range
  <2>2. RowOf(node[op.at], op.key) = node[op.at].rows[i]
    BY DEF RowOf
  <2> HIDE DEF i
  <2> QED
    BY <1>1, <1>2, <1>3, <2>1, <2>2 DEF Holds, Within
<1>5. ASSUME op.key \in DOMAIN was
      PROVE  Found
  <2>1. PICK y \in L : node[y].leaf /\ \E j \in DOMAIN node[y].keys : node[y].keys[j] = op.key
    BY <1>2, <1>5 DEF Holds
  <2>2. op.key \in s[y]
    BY <1>3, <2>1 DEF IsSound, Sound, Shape, Spans
  <2>3. L = Under(node, root)
    BY <1>1, <1>3, LiveIsUnder DEF IsSound, Sound, Shape
  <2>4. y = op.at
    <3>1. node[y].leaf /\ node[op.at].leaf /\ y # op.at => s[y] \cap s[op.at] = {}
      BY <1>3, <2>3, LeavesApart DEF IsSound, Sound, Shape
    <3> QED
      BY <1>1, <2>1, <2>2, <3>1
  <2> QED
    BY <2>1, <2>4 DEF Found, HasKey, Range
<1> QED
  BY <1>2, <1>4, <1>5

LEMMA KeyIsNew ==
  ASSUME NEW L, NEW h, NEW b, NEW s, IsSound(L, h, b, s), Inserts
  PROVE  op.key \notin DOMAIN was /\ Holds(node, L, was)
BY LookedUp DEF Inserts

\* What an insertion writes to its leaf.
NewKeys(i) == InsertAt(node[op.at].keys, i, op.key)
NewRows(i) == InsertAt(node[op.at].rows, i, op.row)
Grown(i)   == [node EXCEPT ![op.at].keys = NewKeys(i), ![op.at].rows = NewRows(i)]

LEMMA LeafWritten ==
  ASSUME NEW L, NEW h, NEW b, NEW s, IsSound(L, h, b, s), Inserts,
         NEW i, Splits(node[op.at].keys, op.key, i)
  PROVE  /\ NewKeys(i) \in Seq(Keys) /\ NewRows(i) \in Seq(Rows)
         /\ Len(NewKeys(i)) = Len(node[op.at].keys) + 1 /\ Len(NewRows(i)) = Len(NewKeys(i))
         /\ DOMAIN Grown(i) = DOMAIN node
         /\ \A y \in DOMAIN node : y # op.at => Grown(i)[y] = node[y]
         /\ Grown(i)[op.at].leaf /\ Grown(i)[op.at].keys = NewKeys(i)
         /\ Grown(i)[op.at].rows = NewRows(i) /\ Grown(i)[op.at].kids = node[op.at].kids
         /\ Grown(i)[op.at].parent = node[op.at].parent
         /\ Grown(i)[op.at].next = node[op.at].next
         /\ Heap(Grown(i))
         /\ IsInserted(NewKeys(i), node[op.at].keys, i, op.key)
         /\ IsInserted(NewRows(i), node[op.at].rows, i, op.row)
<1> DEFINE x  == op.at
           ks == NewKeys(i)
           rs == NewRows(i)
           n2 == Grown(i)
           z  == [node[x] EXCEPT !.keys = ks, !.rows = rs]
<1>1. /\ ~IsRising(op) /\ op # Idle /\ node[x].leaf /\ op.key \in s[x]
      /\ \A j \in DOMAIN node[x].keys : node[x].keys[j] # op.key
      /\ Len(node[x].rows) = Len(node[x].keys) /\ AscendingSeq(node[x].keys)
  BY AtInsertion
<1>2. /\ root # Nil /\ x \in DOMAIN node /\ op.key \in Keys /\ op.row \in Rows /\ op.key \in Int
      /\ Heap(node) /\ Ascending(node) /\ x \in L /\ L \subseteq DOMAIN node
  BY <1>1, CallHasRoot DEF IsSound, Sound, Shape
<1>3. /\ node[x] \in NodeSet /\ node[x].keys \in Seq(Keys) /\ node[x].rows \in Seq(Rows)
      /\ Len(node[x].keys) \in Nat /\ DOMAIN node[x].keys = 1 .. Len(node[x].keys)
  BY <1>2, Indices
<1>4. i \in 1 .. Len(node[x].keys) + 1 /\ i \in 1 .. Len(node[x].rows) + 1
  BY <1>1 DEF Splits
<1>5. ks \in Seq(Keys) /\ IsInserted(ks, node[x].keys, i, op.key)
  BY <1>2, <1>3, <1>4, Inserted DEF NewKeys
<1>6. rs \in Seq(Rows) /\ IsInserted(rs, node[x].rows, i, op.row)
  BY <1>2, <1>3, <1>4, Inserted DEF NewRows
<1>8. Len(ks) = Len(node[x].keys) + 1 /\ Len(rs) = Len(ks)
  BY <1>1, <1>5, <1>6 DEF IsInserted
<1> HIDE DEF x, ks, rs
<1>10. /\ z \in NodeSet /\ z.keys = ks /\ z.rows = rs /\ z.leaf = node[x].leaf
       /\ z.kids = node[x].kids /\ z.parent = node[x].parent /\ z.next = node[x].next
  BY <1>3, <1>5, <1>6 DEF NodeSet
<1>11. n2 = [node EXCEPT ![x] = z]
  BY <1>2, <1>3 DEF NodeSet, x, ks, rs, Grown
<1> HIDE DEF z, n2
<1>13. /\ DOMAIN n2 = DOMAIN node /\ n2[x] = z
       /\ \A y \in DOMAIN node : y # x => n2[y] = node[y]
  BY <1>2, <1>11
<1>14. Heap(n2)
  <2>1. n2 \in [DOMAIN node -> NodeSet]
    BY <1>2, <1>10, <1>11 DEF Heap
  <2>2. Len(z.rows) = Len(z.keys) /\ z.kids = <<>> /\ z.leaf
    BY <1>1, <1>2, <1>8, <1>10 DEF Heap, x
  <2>3. \A y \in DOMAIN node : y # x =>
          /\ n2[y].leaf => Len(n2[y].rows) = Len(n2[y].keys) /\ n2[y].kids = <<>>
          /\ ~n2[y].leaf => Len(n2[y].kids) = Len(n2[y].keys) + 1 /\ n2[y].rows = <<>>
    <3>1. \A y \in DOMAIN node :
          /\ node[y].leaf => Len(node[y].rows) = Len(node[y].keys) /\ node[y].kids = <<>>
          /\ ~node[y].leaf => Len(node[y].kids) = Len(node[y].keys) + 1 /\ node[y].rows = <<>>
      BY <1>2 DEF Heap
    <3> QED
      BY <1>13, <3>1, Zenon
  <2>4. DOMAIN n2 \subseteq Addr /\ n2 \in [DOMAIN n2 -> NodeSet]
    BY <1>2, <1>13, <2>1 DEF Heap
  <2>5. \A y \in DOMAIN n2 : y = x \/ (y \in DOMAIN node /\ y # x)
    BY <1>13
  <2>6. /\ n2[x].leaf => Len(n2[x].rows) = Len(n2[x].keys) /\ n2[x].kids = <<>>
        /\ ~n2[x].leaf => Len(n2[x].kids) = Len(n2[x].keys) + 1 /\ n2[x].rows = <<>>
    BY <1>13, <2>2
  <2> QED
    BY <2>3, <2>4, <2>5, <2>6, Zenon DEF Heap
<1> QED
  BY <1>1, <1>5, <1>6, <1>8, <1>10, <1>13, <1>14 DEF x, ks, rs, n2

\* The leaf of an insertion with the new key and row, before it is split if
\* they are too many for it.
LEMMA LeafGrown ==
  ASSUME NEW L, NEW h, NEW b, NEW s, IsSound(L, h, b, s), Inserts,
         NEW i, Splits(node[op.at].keys, op.key, i)
  PROVE  /\ \A m : Sound(Grown(i), root, Idle, m, failed, L, h, b, s)
         /\ Holds(Grown(i), L, Added(was, op.key, op.row))
<1> DEFINE n2 == Grown(i)
<1>0. /\ Heap(n2) /\ DOMAIN n2 = DOMAIN node
      /\ \A y \in DOMAIN node : y # op.at => n2[y] = node[y]
      /\ n2[op.at].leaf /\ n2[op.at].kids = node[op.at].kids
      /\ n2[op.at].parent = node[op.at].parent /\ n2[op.at].next = node[op.at].next
      /\ IsInserted(n2[op.at].keys, node[op.at].keys, i, op.key)
      /\ IsInserted(n2[op.at].rows, node[op.at].rows, i, op.row)
  BY LeafWritten
<1> HIDE DEF n2
<1> DEFINE x  == op.at
           ks == n2[x].keys
<1>1. /\ ~IsRising(op) /\ op # Idle /\ node[x].leaf /\ op.key \in s[x]
      /\ \A j \in DOMAIN node[x].keys : node[x].keys[j] # op.key
      /\ AscendingSeq(node[x].keys)
  BY AtInsertion
<1>2. /\ root # Nil /\ x \in DOMAIN node /\ op.key \in Keys /\ op.row \in Rows /\ op.key \in Int
      /\ Heap(node) /\ Ascending(node) /\ x \in L /\ L \subseteq DOMAIN node
  BY <1>1, CallHasRoot DEF IsSound, Sound, Shape
<1>3. /\ node[x].keys \in Seq(Keys) /\ Len(node[x].keys) \in Nat
      /\ DOMAIN node[x].keys = 1 .. Len(node[x].keys)
  BY <1>2, Indices
<1>4. i \in 1 .. Len(node[x].keys) + 1
  BY DEF Splits
<1>5. ks \in Seq(Keys) /\ DOMAIN ks = 1 .. Len(ks)
  BY <1>0, <1>2, Indices
<1>6. Len(ks) = Len(node[x].keys) + 1
  BY <1>0 DEF IsInserted
<1>7. AscendingSeq(ks)
  BY <1>0, <1>1, <1>2, <1>3, <1>5, InOrder
<1>15. \A j \in DOMAIN ks : ks[j] \in s[x]
  <2>1. \A j \in DOMAIN node[x].keys : node[x].keys[j] \in s[x]
    BY <1>2 DEF IsSound, Sound, Shape, Spans
  <2>2. DOMAIN ks = 1 .. Len(node[x].keys) + 1
    BY <1>5, <1>6
  <2> SUFFICES ASSUME NEW j \in 1 .. Len(node[x].keys) + 1
               PROVE  ks[j] \in s[x]
    BY <2>2
  <2>3. ks[j] = IF j < i THEN node[x].keys[j] ELSE IF j = i THEN op.key ELSE node[x].keys[j - 1]
    BY <1>0 DEF IsInserted
  <2>4. CASE j < i
    <3>1. j \in DOMAIN node[x].keys
      BY <1>3, <1>4, <2>4
    <3> QED
      BY <2>1, <2>3, <2>4, <3>1
  <2>5. CASE j = i
    BY <1>1, <2>3, <2>5
  <2>6. CASE j > i
    <3>1. j - 1 \in DOMAIN node[x].keys /\ ~(j < i) /\ j # i
      BY <1>3, <1>4, <2>6
    <3> QED
      BY <2>1, <2>3, <3>1
  <2> QED
    BY <1>4, <2>4, <2>5, <2>6
<1>16. ASSUME NEW m
       PROVE  Sound(n2, root, Idle, m, failed, L, h, b, s)
  <2>1. Sound(node, root, Idle, m, failed, L, h, b, s)
    BY <1>1, <1>2, Ended DEF IsSound
  <2>2. node[x].leaf /\ Len(node[x].keys) <= Len(n2[x].keys) /\ n2[x].leaf = node[x].leaf
    <3>1. Len(node[x].keys) <= Len(n2[x].keys)
      BY <1>3, <1>6
    <3> QED
      BY <1>0, <1>1, <1>2, <3>1, Indices
  <2> QED
    BY <1>0, <1>2, <1>7, <1>15, <2>1, <2>2, LeafFilled
<1>17. Holds(n2, L, Added(was, op.key, op.row))
  <2>1. op.key \notin DOMAIN was /\ Holds(node, L, was)
    BY KeyIsNew
  <2>2. \A y \in L : y # x => n2[y] = node[y]
    BY <1>0, <1>2
  <2> QED
    BY <1>0, <1>1, <1>2, <1>4, <1>5, <2>1, <2>2, HoldsAdded
<1> QED
  BY <1>16, <1>17 DEF n2

\* What is live when no call is on its way up is the tree.
LEMMA HeldUnder ==
  ASSUME NEW n, NEW r, NEW m0, NEW f, NEW L, NEW h, NEW b \in Nat, NEW s, NEW m,
         Sound(n, r, Idle, m0, f, L, h, b, s), r # Nil, Holds(n, L, m)
  PROVE  Holds(n, Under(n, r), m)
<1>1. L = Under(n, r)
  BY IdleIsQuiet, LiveIsUnder DEF Sound, Shape, Rooted
<1> QED
  BY <1>1

LEMMA LeafInsertStep ==
  ASSUME NEW L, NEW h, NEW b, NEW s, IsSound(L, h, b, s), leaf_insert_sorted
  PROVE  TreeInv' /\ Holds(node', Under(node', root'), Added(was, op.key, op.row))
<1> DEFINE x  == op.at
           i  == Place(node[x], op.key)
<1>1. /\ Inserts /\ ~Full /\ node' = Grown(i)
      /\ op' = Idle /\ root' = root /\ failed' = failed
  BY DEF leaf_insert_sorted, Return, Grown, NewKeys, NewRows
<1>2. /\ root # Nil /\ x \in DOMAIN node /\ op.key \in Int /\ Heap(node) /\ Ascending(node)
  BY <1>1, AtInsertion, CallHasRoot DEF IsSound, Sound, Shape
<1>3. Splits(node[x].keys, op.key, i)
  BY <1>2, PlaceSplits
<1> HIDE DEF i, x
<1>4. /\ DOMAIN node' = DOMAIN node /\ \A y \in DOMAIN node : y # x => node'[y] = node[y]
      /\ Len(node'[x].keys) = Len(node[x].keys) + 1
      /\ \A m : Sound(node', root, Idle, m, failed, L, h, b, s)
      /\ Holds(node', L, Added(was, op.key, op.row))
  BY <1>1, <1>3, LeafWritten, LeafGrown DEF x
<1>5. Fits(node')
  <2>1. Len(node[x].keys) < MaxKeys
    <3>1. Len(node[x].keys) # MaxKeys /\ MaxKeys \in Nat /\ Len(node[x].keys) \in Nat
      BY <1>1, <1>2, TreeAssumption, Indices DEF Full, x
    <3> QED
      BY <1>2, <3>1 DEF IsSound, Fits
  <2>2. Len(node'[x].keys) <= MaxKeys
    BY <1>2, <1>4, <2>1, TreeAssumption, Indices
  <2> QED
    BY <1>4, <2>2 DEF IsSound, Fits
<1>6. Sound(node', root, Idle, was', failed, L, h, b, s)
  BY <1>4
<1>7. IsSound(L, h, b, s)'
  BY <1>1, <1>5, <1>6 DEF IsSound
<1>8. Holds(node', Under(node', root'), Added(was, op.key, op.row))
  BY <1>1, <1>2, <1>4, <1>6, HeldUnder DEF IsSound
<1> QED
  BY <1>7, <1>8 DEF TreeInv

-----------------------------------------------------------------------------
(* A node is split.                                                        *)

\* t is the l elements of q that come after the first c.
IsPart(t, q, c, l) == Len(t) = l /\ \A j \in 1 .. l : t[j] = q[c + j]

LEMMA Parts ==
  \A S : \A q \in Seq(S) : \A c \in 0 .. Len(q) :
    /\ SubSeq(q, 1, c) \in Seq(S) /\ IsPart(SubSeq(q, 1, c), q, 0, c)
    /\ SubSeq(q, c + 1, Len(q)) \in Seq(S)
    /\ IsPart(SubSeq(q, c + 1, Len(q)), q, c, Len(q) - c)
<1> TAKE S
<1> TAKE q \in Seq(S)
<1> TAKE c \in 0 .. Len(q)
<1>1. SubSeq(q, 1, c) \in Seq(S) /\ IsPart(SubSeq(q, 1, c), q, 0, c)
  <2>1. 1 \in 1 .. Len(q) + 1 /\ c \in 1 - 1 .. Len(q) /\ (c - 1) + 1 = c
    OBVIOUS
  <2>2. /\ SubSeq(q, 1, c) \in Seq(S) /\ Len(SubSeq(q, 1, c)) = c
        /\ \A k \in 1 .. c : SubSeq(q, 1, c)[k] = q[(1 + k) - 1]
    BY <2>1, CutOut
  <2>3. \A k \in 1 .. c : (1 + k) - 1 = 0 + k
    OBVIOUS
  <2> QED
    BY <2>2, <2>3 DEF IsPart
<1>2. SubSeq(q, c + 1, Len(q)) \in Seq(S)
      /\ IsPart(SubSeq(q, c + 1, Len(q)), q, c, Len(q) - c)
  <2> DEFINE l == Len(q)
             i == c + 1
  <2>1. i \in 1 .. l + 1 /\ l \in i - 1 .. l /\ (l - i) + 1 = l - c
    OBVIOUS
  <2> HIDE DEF l, i
  <2>4. /\ SubSeq(q, i, l) \in Seq(S) /\ Len(SubSeq(q, i, l)) = (l - i) + 1
        /\ \A k \in 1 .. (l - i) + 1 : SubSeq(q, i, l)[k] = q[(i + k) - 1]
    BY <2>1, CutOut DEF l
  <2>2. /\ SubSeq(q, c + 1, l) \in Seq(S) /\ Len(SubSeq(q, c + 1, l)) = l - c
        /\ \A k \in 1 .. l - c : SubSeq(q, c + 1, l)[k] = q[((c + 1) + k) - 1]
    BY <2>1, <2>4 DEF i
  <2>3. \A k \in 1 .. l - c : ((c + 1) + k) - 1 = c + k
    OBVIOUS
  <2> QED
    BY <2>2, <2>3 DEF IsPart, l
<1> QED
  BY <1>1, <1>2

\* The span of x is cut at v, and a gets what is not below v.
Cut(n, s, x, a, v) ==
  [y \in DOMAIN n \cup {a} |-> IF y = a THEN {u \in s[x] : v <= u}
                               ELSE IF y = x THEN {u \in s[x] : u < v} ELSE s[y]]

SpansCut(n, s, s2, x, a, v, o) ==
  /\ s2 \in [DOMAIN n \cup {a} -> SUBSET Int]
  /\ s2[a] = {u \in s[x] : v <= u} /\ s2[x] = {u \in s[x] : u < v}
  /\ \A y \in DOMAIN n : y # x => s2[y] = s[y]
  /\ \A y \in DOMAIN n : Sent(o, s2, y) = s[y]
  /\ \A y \in DOMAIN n \cup {a} : \A u, w \in s2[y] : \A z \in Int :
       u <= z /\ z <= w => z \in s2[y]

LEMMA CutSpans ==
  ASSUME NEW n, NEW s, Spans(n, Idle, s), NEW x \in DOMAIN n, NEW a, a \notin DOMAIN n,
         NEW v \in Int, NEW o, IsRising(o), o.at = x, o.right = a
  PROVE  SpansCut(n, s, Cut(n, s, x, a, v), x, a, v, o)
<1> DEFINE s2 == Cut(n, s, x, a, v)
<1>1. s \in [DOMAIN n -> SUBSET Int]
  BY DEF Spans
<1>2. s2 \in [DOMAIN n \cup {a} -> SUBSET Int]
  BY <1>1 DEF Cut
<1>3. s2[a] = {u \in s[x] : v <= u} /\ s2[x] = {u \in s[x] : u < v}
  BY DEF Cut
<1>4. \A y \in DOMAIN n : y # x => s2[y] = s[y]
  BY DEF Cut
<1> HIDE DEF s2
<1>5. s2[x] \cup s2[a] = s[x]
  BY <1>1, <1>3
<1>6. \A y \in DOMAIN n : Sent(o, s2, y) = s[y]
  BY <1>4, <1>5 DEF Sent
<1>7. \A y \in DOMAIN n : \A u, w \in s[y] : \A z \in Int : u <= z /\ z <= w => z \in s[y]
  BY DEF Spans
<1>8. ASSUME NEW y \in DOMAIN n \cup {a}, NEW u \in s2[y], NEW w \in s2[y], NEW z \in Int,
             u <= z, z <= w
      PROVE  z \in s2[y]
  <2>1. u \in Int /\ w \in Int
    BY <1>2
  <2>2. CASE y = a
    <3>1. u \in s[x] /\ v <= u /\ w \in s[x]
      BY <1>3, <2>2
    <3>2. z \in s[x]
      BY <1>7, <1>8, <3>1
    <3>3. v <= z
      BY <1>8, <2>1, <3>1
    <3> QED
      BY <1>3, <2>2, <3>2, <3>3
  <2>3. CASE y = x
    <3>1. u \in s[x] /\ w < v /\ w \in s[x]
      BY <1>3, <2>3
    <3>2. z \in s[x]
      BY <1>7, <1>8, <3>1
    <3>3. z < v
      BY <1>8, <2>1, <3>1
    <3> QED
      BY <1>3, <2>3, <3>2, <3>3
  <2>4. CASE y # a /\ y # x
    BY <1>4, <1>7, <1>8, <2>4
  <2> QED
    BY <2>2, <2>3, <2>4
<1> QED
  BY <1>2, <1>3, <1>4, <1>6, <1>8 DEF s2, SpansCut

\* n2 is n with the leaf x cut in two: x keeps c keys, a gets the others.
LeafCut(n, n2, x, a, c) ==
  /\ DOMAIN n2 = DOMAIN n \cup {a}
  /\ \A y \in DOMAIN n : y # x => n2[y] = n[y]
  /\ n2[x].leaf /\ n2[x].kids = <<>> /\ n2[x].parent = n[x].parent /\ n2[x].next = a
  /\ n2[a].leaf /\ n2[a].kids = <<>> /\ n2[a].next = n[x].next
  /\ IsPart(n2[x].keys, n[x].keys, 0, c) /\ IsPart(n2[x].rows, n[x].rows, 0, c)
  /\ IsPart(n2[a].keys, n[x].keys, c, Len(n[x].keys) - c)
  /\ IsPart(n2[a].rows, n[x].rows, c, Len(n[x].keys) - c)

\* Where the keys of the two leaves come from.
LEMMA CutIndices ==
  ASSUME NEW n, Heap(n), NEW x \in DOMAIN n, NEW n2, Heap(n2), NEW a, a \notin DOMAIN n,
         NEW c \in 0 .. Len(n[x].keys), LeafCut(n, n2, x, a, c)
  PROVE  /\ DOMAIN n2[x].keys = 1 .. c /\ DOMAIN n2[a].keys = 1 .. Len(n[x].keys) - c
         /\ DOMAIN n[x].keys = 1 .. Len(n[x].keys) /\ Len(n[x].keys) \in Nat
         /\ \A j \in 1 .. c : n2[x].keys[j] = n[x].keys[j] /\ n2[x].rows[j] = n[x].rows[j]
         /\ \A j \in 1 .. Len(n[x].keys) - c :
              n2[a].keys[j] = n[x].keys[c + j] /\ n2[a].rows[j] = n[x].rows[c + j]
         /\ c \in Nat /\ Len(n[x].keys) - c \in Nat
<1>1. x \in DOMAIN n2 /\ a \in DOMAIN n2
  BY DEF LeafCut
<1>2. DOMAIN n[x].keys = 1 .. Len(n[x].keys) /\ Len(n[x].keys) \in Nat
  BY Indices
<1>3. c \in Nat /\ Len(n[x].keys) - c \in Nat
  BY <1>2
<1>4. Len(n2[x].keys) = c /\ Len(n2[a].keys) = Len(n[x].keys) - c
  BY DEF LeafCut, IsPart
<1>5. DOMAIN n2[x].keys = 1 .. c /\ DOMAIN n2[a].keys = 1 .. Len(n[x].keys) - c
  BY <1>1, <1>4, Indices
<1>6. \A j \in 1 .. c : n2[x].keys[j] = n[x].keys[j] /\ n2[x].rows[j] = n[x].rows[j]
  <2>1. \A j \in 1 .. c : 0 + j = j
    BY <1>3
  <2> QED
    BY <2>1 DEF LeafCut, IsPart
<1>7. \A j \in 1 .. Len(n[x].keys) - c :
        n2[a].keys[j] = n[x].keys[c + j] /\ n2[a].rows[j] = n[x].rows[c + j]
  BY DEF LeafCut, IsPart
<1> QED
  BY <1>2, <1>3, <1>5, <1>6, <1>7

LEMMA HoldsHalved ==
  ASSUME NEW n, Heap(n), NEW L, L \subseteq DOMAIN n, NEW m, Holds(n, L, m),
         NEW x \in L, n[x].leaf, NEW n2, Heap(n2), NEW a, a \notin DOMAIN n,
         NEW c \in 0 .. Len(n[x].keys), LeafCut(n, n2, x, a, c)
  PROVE  Holds(n2, L \cup {a}, m)
<1> DEFINE l == Len(n[x].keys)
<1>1. /\ DOMAIN n2[x].keys = 1 .. c /\ DOMAIN n2[a].keys = 1 .. l - c
      /\ DOMAIN n[x].keys = 1 .. l /\ l \in Nat /\ c \in Nat /\ l - c \in Nat
      /\ \A j \in 1 .. c : n2[x].keys[j] = n[x].keys[j] /\ n2[x].rows[j] = n[x].rows[j]
      /\ \A j \in 1 .. l - c : n2[a].keys[j] = n[x].keys[c + j] /\ n2[a].rows[j] = n[x].rows[c + j]
  BY CutIndices
<1>2. /\ \A y \in L : y # x => n2[y] = n[y]
      /\ n2[x].leaf /\ n2[a].leaf
  BY DEF LeafCut
<1>3. c \in 0 .. l
  OBVIOUS
<1> HIDE DEF l
<1>4. \A j \in 1 .. l : n[x].keys[j] \in DOMAIN m /\ m[n[x].keys[j]] = n[x].rows[j]
  BY <1>1 DEF Holds, Within
<1>5. Within(n2, L \cup {a}, m)
  <2> SUFFICES ASSUME NEW y \in L \cup {a}, n2[y].leaf, NEW j \in DOMAIN n2[y].keys
               PROVE  n2[y].keys[j] \in DOMAIN m /\ m[n2[y].keys[j]] = n2[y].rows[j]
    BY DEF Within
  <2>1. CASE y = x
    <3>1. j \in 1 .. c /\ j \in 1 .. l
      BY <1>1, <1>3, <2>1
    <3> QED
      BY <1>1, <1>4, <2>1, <3>1
  <2>2. CASE y = a
    <3>1. j \in 1 .. l - c /\ c + j \in 1 .. l
      BY <1>1, <1>3, <2>2
    <3> QED
      BY <1>1, <1>4, <2>2, <3>1, ZenonT(60)
  <2>3. CASE y # a /\ y # x
    BY <1>2, <2>3 DEF Holds, Within
  <2> QED
    BY <2>1, <2>2, <2>3
<1>6. ASSUME NEW k \in DOMAIN m
      PROVE  \E y \in L \cup {a} : n2[y].leaf /\ \E j \in DOMAIN n2[y].keys : n2[y].keys[j] = k
  <2>1. PICK y \in L : n[y].leaf /\ \E j \in DOMAIN n[y].keys : n[y].keys[j] = k
    BY DEF Holds
  <2>2. CASE y # x
    BY <1>2, <2>1, <2>2
  <2>3. CASE y = x
    <3>1. PICK j \in 1 .. l : n[x].keys[j] = k
      BY <1>1, <2>1, <2>3
    <3>2. CASE j <= c
      <4>1. j \in 1 .. c
        BY <3>2
      <4> QED
        BY <1>1, <1>2, <3>1, <4>1
    <3>3. CASE j > c
      <4>1. j - c \in 1 .. l - c /\ c + (j - c) = j
        BY <1>1, <3>3
      <4>2. n2[a].keys[j - c] = k
        BY <1>1, <3>1, <4>1
      <4> QED
        BY <1>1, <1>2, <4>1, <4>2
    <3> QED
      BY <1>1, <3>2, <3>3
  <2> QED
    BY <2>2, <2>3
<1> QED
  BY <1>5, <1>6 DEF Holds

\* The leaves are in order again.
LEMMA ChainedHalved ==
  ASSUME NEW n, NEW r, NEW L, NEW s, Heap(n), Spans(n, Idle, s), L \subseteq DOMAIN n, Chained(n, r, L, s),
         NEW x \in L, n[x].leaf, NEW n2, NEW a \in Addr, a \notin DOMAIN n, NEW c, LeafCut(n, n2, x, a, c),
         NEW v \in Int, NEW s2, s2[a] = {u \in s[x] : v <= u}, s2[x] = {u \in s[x] : u < v},
         \A y \in DOMAIN n : y # x => s2[y] = s[y]
  PROVE  Chained(n2, r, L \cup {a}, s2)
<1>1. /\ \A y \in L : y # x => n2[y] = n[y]
      /\ n2[x].leaf /\ n2[x].next = a /\ n2[a].leaf /\ n2[a].next = n[x].next /\ a # x
  BY DEF LeafCut
<1>2. \A y \in L : n[y].leaf /\ n[y].next # Nil => n[y].next \in L
  BY DEF Chained
<1>3. a # Nil /\ a \notin L
  BY TreeAssumption
<1>4. \A y \in DOMAIN n : s[y] \subseteq Int
  BY DEF Spans
<1>5. \A y \in L : s2[y] \subseteq s[y]
  BY <1>1
<1>6. ASSUME r # Nil
      PROVE  \E y \in L \cup {a} : n2[y].leaf /\ n2[y].next = Nil
  <2>1. PICK y \in L : n[y].leaf /\ n[y].next = Nil
    BY <1>6 DEF Chained
  <2> QED
    BY <1>1, <2>1
<1>7. ASSUME NEW y \in L, n[y].leaf, n[y].next # Nil, NEW u \in s[y], NEW w \in s[n[y].next]
      PROVE  u < w /\ \A t \in Int : u <= t /\ t <= w => t \in s[y] \/ t \in s[n[y].next]
  BY <1>7 DEF Chained
<1>8. ASSUME NEW y \in L, n[y].leaf, n[y].next = Nil, NEW u \in s[y], NEW t \in Int, u <= t
      PROVE  t \in s[y]
  BY <1>8 DEF Chained
<1>9. ASSUME NEW y \in L \cup {a}, n2[y].leaf, n2[y].next = Nil,
             NEW u \in s2[y], NEW t \in Int, u <= t
      PROVE  t \in s2[y]
  <2>1. CASE y = a
    <3>1. n[x].next = Nil /\ u \in s[x] /\ v <= u
      BY <1>1, <1>9, <2>1
    <3>2. t \in s[x]
      BY <1>8, <1>9, <3>1
    <3>3. v <= t
      BY <1>4, <1>9, <3>1
    <3> QED
      BY <2>1, <3>2, <3>3
  <2>2. CASE y # a
    <3>1. y \in L /\ y # x
      BY <1>1, <1>3, <1>9, <2>2
    <3> QED
      BY <1>1, <1>8, <1>9, <3>1
  <2> QED
    BY <2>1, <2>2
<1>10. ASSUME NEW y \in L \cup {a}, n2[y].leaf, n2[y].next # Nil
       PROVE  /\ n2[y].next \in L \cup {a} /\ n2[n2[y].next].leaf
              /\ \A u \in s2[y] : \A w \in s2[n2[y].next] :
                   u < w /\ \A t \in Int : u <= t /\ t <= w => t \in s2[y] \/ t \in s2[n2[y].next]
  <2>1. \A z \in L : n[z].leaf => n2[z].leaf
    BY <1>1
  <2>2. n2[y].next \in L \cup {a} /\ n2[n2[y].next].leaf
    <3>1. CASE y = x
      BY <1>1, <3>1
    <3>2. CASE y # x
      <4>1. PICK z \in L : n[z].leaf /\ n2[y].next = n[z].next
        BY <1>1, <1>10, <3>2
      <4>2. n[z].next \in L /\ n[n[z].next].leaf
        BY <1>10, <4>1 DEF Chained
      <4> QED
        BY <2>1, <4>1, <4>2
    <3> QED
      BY <3>1, <3>2
  <2>3. ASSUME NEW u \in s2[y], NEW w \in s2[n2[y].next]
        PROVE  u < w /\ \A t \in Int : u <= t /\ t <= w => t \in s2[y] \/ t \in s2[n2[y].next]
    <3>1. CASE y = x
      <4>1. u \in s[x] /\ u < v /\ w \in s[x] /\ v <= w /\ n2[y].next = a /\ u \in Int /\ w \in Int
        BY <1>1, <1>4, <2>3, <3>1
      <4>2. u < w
        BY <4>1
      <4>3. ASSUME NEW t \in Int, u <= t, t <= w
            PROVE  t \in s2[x] \/ t \in s2[a]
        <5>1. t \in s[x]
          BY <4>1, <4>3 DEF Spans
        <5> QED
          BY <5>1
      <4> QED
        BY <3>1, <4>1, <4>2, <4>3
    <3>2. CASE y # x
      <4> DEFINE p == IF y = a THEN x ELSE y
                 z == n[p].next
      <4>1. p \in L /\ n[p].leaf /\ n2[y].next = z /\ z # Nil /\ z \in L
        BY <1>1, <1>2, <1>10, <3>2
      <4>2. u \in s[p] /\ w \in s[z]
        BY <1>1, <1>5, <2>3, <3>2, <4>1
      <4>3. u < w
        BY <1>7, <4>1, <4>2
      <4>4. ASSUME NEW t \in Int, u <= t, t <= w
            PROVE  t \in s2[y] \/ t \in s2[z]
        <5>1. t \in s[p] \/ t \in s[z]
          BY <1>7, <4>1, <4>2, <4>4
        <5>2. u \in Int /\ w \in Int
          BY <1>4, <4>1, <4>2
        <5>3. ASSUME t \in s[z]
              PROVE  t \in s2[y] \/ t \in s2[z]
          <6>1. CASE z = x
            <7>1. w < v
              BY <2>3, <4>1, <6>1
            <7>2. t < v
              BY <4>4, <5>2, <7>1
            <7> QED
              BY <5>3, <6>1, <7>2
          <6>2. CASE z # x
            BY <4>1, <5>3, <6>2
          <6> QED
            BY <6>1, <6>2
        <5>4. ASSUME t \in s[p]
              PROVE  t \in s2[y] \/ t \in s2[z]
          <6>1. CASE y = a
            <7>1. v <= u
              BY <2>3, <6>1
            <7>2. v <= t
              BY <4>4, <5>2, <7>1
            <7> QED
              BY <5>4, <6>1, <7>2
          <6>2. CASE y # a
            BY <3>2, <5>4, <6>2
          <6> QED
            BY <6>1, <6>2
        <5> QED
          BY <5>1, <5>3, <5>4
      <4> QED
        BY <4>1, <4>3, <4>4
    <3> QED
      BY <3>1, <3>2
  <2> QED
    BY <2>2, <2>3
<1> QED
  BY <1>6, <1>9, <1>10 DEF Chained

\* A call on its way up, with what its node was split into.
Risen(o, x, a, v, m) ==
  /\ o \in Calls /\ IsRising(o) /\ o.kind # "search"
  /\ o.at = x /\ o.right = a /\ o.sep = v /\ o.sep \in Keys
  /\ o.key \notin DOMAIN m

LEMMA LeafSplit ==
  ASSUME NEW n, NEW r, NEW m0, NEW f, NEW L, NEW h, NEW b \in Nat, NEW s,
         Sound(n, r, Idle, m0, f, L, h, b, s), r # Nil,
         NEW x \in L, n[x].leaf, NEW a \in Addr, a \notin DOMAIN n,
         NEW c \in 1 .. Len(n[x].keys) - 1, c >= Least(TRUE), Len(n[x].keys) - c >= Least(TRUE),
         NEW n2, Heap(n2), LeafCut(n, n2, x, a, c),
         NEW m, NEW o, Risen(o, x, a, n[x].keys[c + 1], m),
         Holds(n, L, Added(m, o.key, o.row)),
         Cardinality(DOMAIN n) + h[r] + 2 <= Cardinality(Addr)
  PROVE  \E L2, h2, s2 : Sound(n2, r, o, m, f, L2, h2, b, s2)
<1> DEFINE v  == n[x].keys[c + 1]
           l  == Len(n[x].keys)
           L2 == L \cup {a}
           h2 == [y \in DOMAIN n \cup {a} |-> IF y = a THEN 0 ELSE h[y]]
           s2 == Cut(n, s, x, a, v)
<1>1. /\ Heap(n) /\ Parents(n) /\ Levels(n, h, b) /\ Ascending(n) /\ Filled(n, r, Idle)
      /\ Spans(n, Idle, s) /\ Live(n, r, Idle, L) /\ Rooted(n, r, Idle, L, s) /\ Whole(n, r, L, s, f)
  BY DEF Sound, Shape
<1>2. /\ L \subseteq DOMAIN n /\ x \in DOMAIN n /\ r \in L /\ a # x /\ a # r /\ a \notin L
      /\ h[x] = 0 /\ n[x].kids = <<>> /\ DOMAIN n[x].kids = {}
  BY <1>1, Indices DEF Live, Levels, Heap, Rooted
<1>3. /\ IsRising(o) /\ o.at = x /\ o.right = a /\ o.sep = v /\ v \in Keys /\ v \in Int
      /\ o \in Calls /\ o.kind # "search" /\ o.key \notin DOMAIN m
  BY KeysAreInts DEF Risen
<1>4. c \in 0 .. l /\ c \in Nat /\ l \in Nat /\ c + 1 \in 1 .. l /\ DOMAIN n[x].keys = 1 .. l
  BY <1>1, <1>2, Indices
<1>5. /\ DOMAIN n2[x].keys = 1 .. c /\ DOMAIN n2[a].keys = 1 .. l - c
      /\ \A j \in 1 .. c : n2[x].keys[j] = n[x].keys[j]
      /\ \A j \in 1 .. l - c : n2[a].keys[j] = n[x].keys[c + j]
  BY <1>1, <1>2, <1>4, CutIndices
<1>6. /\ DOMAIN n2 = DOMAIN n \cup {a} /\ \A y \in DOMAIN n : y # x => n2[y] = n[y]
      /\ n2[x].leaf /\ DOMAIN n2[x].kids = {} /\ n2[x].parent = n[x].parent
      /\ n2[a].leaf /\ DOMAIN n2[a].kids = {}
      /\ Len(n2[x].keys) = c /\ Len(n2[a].keys) = l - c
  <2>1. n2[x].kids = <<>> /\ n2[a].kids = <<>> /\ DOMAIN <<>> = {}
    BY DEF LeafCut
  <2> QED
    BY <2>1 DEF LeafCut, IsPart
<1>7. /\ s2 \in [DOMAIN n \cup {a} -> SUBSET Int]
      /\ s2[a] = {u \in s[x] : v <= u} /\ s2[x] = {u \in s[x] : u < v}
      /\ \A y \in DOMAIN n : y # x => s2[y] = s[y]
      /\ \A y \in DOMAIN n : Sent(o, s2, y) = s[y]
      /\ \A y \in DOMAIN n \cup {a} : \A u, w \in s2[y] : \A z \in Int :
           u <= z /\ z <= w => z \in s2[y]
  <2>1. SpansCut(n, s, s2, x, a, v, o)
    BY <1>1, <1>2, <1>3, CutSpans
  <2> QED
    BY <2>1 DEF SpansCut
<1>8. DOMAIN h2 = DOMAIN n \cup {a} /\ h2[a] = 0 /\ \A y \in DOMAIN n : h2[y] = h[y]
  BY <1>2
<1>9. h2 \in [DOMAIN n \cup {a} -> 0 .. b]
  BY <1>1 DEF Levels
<1> HIDE DEF h2, s2, l, v
<1>10. \A y \in DOMAIN n2 : y = a \/ y = x \/ (y \in DOMAIN n /\ y # x)
  BY <1>6
<1>11. Parents(n2)
  <2> SUFFICES ASSUME NEW y \in DOMAIN n2, NEW i \in DOMAIN n2[y].kids
               PROVE  /\ n2[y].kids[i] \in DOMAIN n2 /\ n2[n2[y].kids[i]].parent = y
                      /\ \A j \in DOMAIN n2[y].kids : n2[y].kids[i] = n2[y].kids[j] => i = j
    BY DEF Parents
  <2>1. y \in DOMAIN n /\ y # x /\ n2[y] = n[y]
    BY <1>6, <1>10
  <2>2. /\ n[y].kids[i] \in DOMAIN n /\ n[n[y].kids[i]].parent = y
        /\ \A j \in DOMAIN n[y].kids : n[y].kids[i] = n[y].kids[j] => i = j
    BY <1>1, <2>1 DEF Parents
  <2>3. \A z \in DOMAIN n : n2[z].parent = n[z].parent
    BY <1>6
  <2> QED
    BY <1>6, <2>1, <2>2, <2>3
<1>12. Levels(n2, h2, b)
  <2>1. \A y \in DOMAIN n : n2[y].leaf <=> n[y].leaf
    BY <1>6
  <2>2. ASSUME NEW y \in DOMAIN n2, NEW i \in DOMAIN n2[y].kids
        PROVE  h2[n2[y].kids[i]] + 1 = h2[y]
    <3>1. y \in DOMAIN n /\ y # x /\ n2[y] = n[y]
      BY <1>6, <1>10, <2>2
    <3>2. n[y].kids[i] \in DOMAIN n /\ h[n[y].kids[i]] + 1 = h[y]
      BY <1>1, <2>2, <3>1 DEF Parents, Levels
    <3> QED
      BY <1>8, <3>1, <3>2
  <2>3. \A y \in DOMAIN n2 : n2[y].leaf <=> h2[y] = 0
    BY <1>1, <1>6, <1>8, <2>1 DEF Levels
  <2> QED
    BY <1>6, <1>9, <2>2, <2>3 DEF Levels
<1>13. \A i, j \in 1 .. l : i < j => n[x].keys[i] < n[x].keys[j]
  BY <1>1, <1>2, <1>4 DEF Ascending
<1>14. Ascending(n2)
  <2> SUFFICES ASSUME NEW y \in DOMAIN n2, NEW i \in DOMAIN n2[y].keys, NEW j \in DOMAIN n2[y].keys, i < j
               PROVE  n2[y].keys[i] < n2[y].keys[j]
    BY DEF Ascending
  <2>1. CASE y = x
    <3>1. i \in 1 .. l /\ j \in 1 .. l /\ i \in 1 .. c /\ j \in 1 .. c
      BY <1>4, <1>5, <2>1
    <3> QED
      BY <1>5, <1>13, <2>1, <3>1
  <2>2. CASE y = a
    <3>1. /\ i \in 1 .. l - c /\ j \in 1 .. l - c /\ c + i \in 1 .. l /\ c + j \in 1 .. l
          /\ c + i < c + j
      BY <1>4, <1>5, <2>2
    <3> QED
      BY <1>5, <1>13, <2>2, <3>1
  <2>3. CASE y \in DOMAIN n /\ y # x
    BY <1>1, <1>6, <2>3 DEF Ascending
  <2> QED
    BY <1>10, <2>1, <2>2, <2>3
<1>15. Filled(n2, r, o)
  <2>1. Len(n2[x].keys) >= Least(TRUE) /\ Len(n2[a].keys) >= Least(TRUE)
    BY <1>6 DEF l
  <2>2. \A y \in DOMAIN n : y # r => Len(n[y].keys) >= Least(n[y].leaf)
    BY <1>1 DEF Filled
  <2>3. n2[x].leaf = TRUE /\ n2[a].leaf = TRUE
    BY <1>2, <1>6, Indices
  <2> QED
    BY <1>3, <1>6, <1>10, <2>1, <2>2, <2>3 DEF Filled
<1>16. \A j \in 1 .. l : n[x].keys[j] \in s[x] /\ n[x].keys[j] \in Int
  <2>1. \A j \in DOMAIN n[x].keys : n[x].keys[j] \in s[x]
    BY <1>1, <1>2 DEF Spans
  <2>2. \A j \in DOMAIN n[x].keys : n[x].keys[j] \in Int
    BY <1>1, <1>2, Elements
  <2> QED
    BY <1>4, <2>1, <2>2
<1>17. Spans(n2, o, s2)
  <2>1. ASSUME NEW y \in DOMAIN n2, NEW i \in DOMAIN n2[y].keys
        PROVE  n2[y].keys[i] \in s2[y]
    <3>1. CASE y = x
      <4>1. i \in 1 .. c /\ i \in 1 .. l /\ i < c + 1
        BY <1>4, <1>5, <2>1, <3>1
      <4>2. n[x].keys[i] < v
        BY <1>4, <1>13, <4>1 DEF v
      <4> QED
        BY <1>5, <1>7, <1>16, <3>1, <4>1, <4>2
    <3>2. CASE y = a
      <4>1. i \in 1 .. l - c /\ c + i \in 1 .. l /\ (i = 1 \/ c + 1 < c + i)
        BY <1>4, <1>5, <2>1, <3>2
      <4>2. v <= n[x].keys[c + i]
        BY <1>3, <1>4, <1>13, <1>16, <4>1 DEF v
      <4> QED
        BY <1>5, <1>7, <1>16, <3>2, <4>1, <4>2
    <3>3. CASE y \in DOMAIN n /\ y # x
      BY <1>1, <1>6, <1>7, <2>1, <3>3 DEF Spans
    <3> QED
      BY <1>10, <3>1, <3>2, <3>3
  <2>2. ASSUME NEW y \in DOMAIN n2, NEW i \in DOMAIN n2[y].kids
        PROVE  Sent(o, s2, n2[y].kids[i]) = View(n2, s2, y, i)
    <3>1. y \in DOMAIN n /\ y # x /\ n2[y] = n[y] /\ s2[y] = s[y]
      BY <1>6, <1>7, <1>10, <2>2
    <3>2. n[y].kids[i] \in DOMAIN n /\ Sent(Idle, s, n[y].kids[i]) = View(n, s, y, i)
      BY <1>1, <2>2, <3>1 DEF Parents, Spans
    <3>3. Sent(Idle, s, n[y].kids[i]) = s[n[y].kids[i]]
      BY IdleIsQuiet, SentQuiet
    <3>4. View(n2, s2, y, i) = View(n, s, y, i)
      BY <3>1 DEF View
    <3> QED
      BY <1>7, <3>1, <3>2, <3>3, <3>4
  <2> QED
    BY <1>6, <1>7, <2>1, <2>2 DEF Spans
<1>18. Live(n2, r, o, L2)
  <2>1. L2 \subseteq DOMAIN n2
    BY <1>2, <1>6
  <2>2. ASSUME NEW y \in L2, NEW i \in DOMAIN n2[y].kids
        PROVE  n2[y].kids[i] \in L2
    <3>1. y \in L /\ y # x /\ n2[y] = n[y]
      BY <1>2, <1>6, <2>2
    <3> QED
      BY <1>1, <2>2, <3>1 DEF Live
  <2>3. ASSUME NEW y \in L2, y # r, y # a
        PROVE  n2[y].parent \in L2 /\ \E i \in DOMAIN n2[n2[y].parent].kids : n2[n2[y].parent].kids[i] = y
    <3>1. y \in L /\ n2[y].parent = n[y].parent
      BY <1>2, <1>6, <2>3
    <3>2. n[y].parent \in L /\ \E i \in DOMAIN n[n[y].parent].kids : n[n[y].parent].kids[i] = y
      BY <1>1, <2>3, <3>1, IdleIsQuiet DEF Live
    <3>3. n[y].parent # x
      BY <1>2, <3>2
    <3> QED
      BY <1>2, <1>6, <3>1, <3>2, <3>3
  <2> QED
    BY <1>3, <2>1, <2>2, <2>3 DEF Live
<1>19. Rooted(n2, r, o, L2, s2)
  <2>1. n[r].parent = Nil /\ s[r] = Int
    BY <1>1, IdleIsQuiet, SentQuiet DEF Rooted
  <2>2. n2[r].parent = n[r].parent /\ Sent(o, s2, r) = s[r]
    BY <1>2, <1>6, <1>7
  <2> QED
    BY <1>2, <2>1, <2>2 DEF Rooted
<1>20. Calling(n2, r, o, L2, h2, s2)
  <2>1. ASSUME NEW y \in DOMAIN n2, NEW i \in DOMAIN n2[y].kids
        PROVE  n2[y].kids[i] # a
    <3>1. y \in DOMAIN n /\ y # x /\ n2[y] = n[y]
      BY <1>6, <1>10, <2>1
    <3> QED
      BY <1>1, <2>1, <3>1 DEF Parents
  <2>2. v \in s[x] /\ v <= v
    BY <1>4, <1>3, <1>16 DEF v
  <2>3. v \in s2[a]
    BY <1>7, <2>2
  <2>4. (\A u \in s2[x] : u < v) /\ (\A u \in s2[a] : v <= u)
    BY <1>7
  <2> QED
    BY <1>2, <1>3, <1>8, <2>1, <2>3, <2>4 DEF Calling
<1>21. Room(n2, r, o, h2)
  <2>1. h2[r] = h[r] /\ h2[x] = 0 /\ h[r] \in Int
    BY <1>1, <1>2, <1>8 DEF Levels
  <2>2. Cardinality(DOMAIN n2) = Cardinality(DOMAIN n) + 1 /\ Cardinality(DOMAIN n) \in Nat
        /\ Cardinality(Addr) \in Nat
    <3>1. IsFiniteSet(DOMAIN n) /\ IsFiniteSet(Addr)
      BY <1>1, FS_Subset, TreeAssumption DEF Heap
    <3> QED
      BY <1>6, <3>1, FS_AddElement, FS_CardinalityType
  <2>3. Cardinality(DOMAIN n2) + (h2[r] - h2[x]) + 1 <= Cardinality(Addr)
    BY <2>1, <2>2
  <2> QED
    BY <1>3, <2>3 DEF Room
<1>22. Content(n2, o, L2, m)
  <2>1. Holds(n2, L2, Added(m, o.key, o.row))
    BY <1>1, <1>2, <1>4, HoldsHalved DEF l
  <2> QED
    BY <1>3, <2>1 DEF Content
<1>23. Whole(n2, r, L2, s2, f)
  <2>1. ASSUME ~f
        PROVE  L2 = DOMAIN n2 /\ Chained(n2, r, L2, s2)
    <3>1. L = DOMAIN n /\ Chained(n, r, L, s)
      BY <1>1, <2>1 DEF Whole
    <3>2. Chained(n2, r, L2, s2)
      BY <1>1, <1>2, <1>3, <1>7, <3>1, ChainedHalved
    <3> QED
      BY <1>6, <3>1, <3>2
  <2> QED
    BY <2>1 DEF Whole
<1>24. Sound(n2, r, o, m, f, L2, h2, b, s2)
  BY <1>11, <1>12, <1>14, <1>15, <1>17, <1>18, <1>19, <1>20, <1>21, <1>22, <1>23 DEF Sound, Shape
<1> QED
  BY <1>24

LEMMA NewNode == /\ NewLeaf \in NodeSet /\ NewLeaf.leaf = TRUE /\ NewLeaf.kids = <<>> /\ NewLeaf.rows = <<>>
                 /\ NewLeaf.parent = Nil /\ NewLeaf.next = Nil
<1>1. Nil \in Ptr /\ <<>> \in Seq(Keys) /\ <<>> \in Seq(Rows) /\ <<>> \in Seq(Addr)
  BY DEF Ptr
<1> QED
  BY <1>1 DEF NewLeaf, NodeSet

\* The call knows that there is an address for what it allocates.
LEMMA FreshIsFree ==
  ASSUME Heap(node), Cardinality(DOMAIN node) + 1 <= Cardinality(Addr)
  PROVE  Fresh \in Addr /\ Fresh \notin DOMAIN node
<1>1. DOMAIN node \subseteq Addr /\ IsFiniteSet(Addr)
  BY TreeAssumption DEF Heap
<1>2. IsFiniteSet(DOMAIN node) /\ Cardinality(DOMAIN node) \in Nat /\ Cardinality(Addr) \in Nat
  BY <1>1, FS_Subset, FS_CardinalityType
<1>3. DOMAIN node # Addr
  <2>1. Cardinality(DOMAIN node) # Cardinality(Addr)
    BY <1>2
  <2> QED
    BY <2>1
<1>4. \E a \in Addr : a \notin DOMAIN node
  BY <1>1, <1>3
<1> QED
  BY <1>4 DEF Fresh

\* What an insertion writes that splits its leaf.
LEMMA SplitWritten ==
  ASSUME NEW L, NEW h, NEW b, NEW s, IsSound(L, h, b, s), leaf_split_insert,
         Fresh \in Addr, Fresh \notin DOMAIN node
  PROVE  LET i == Child(node[op.at], op.key)
             c == Split(MaxKeys + 1)
         IN  /\ Heap(node') /\ Fits(node')
             /\ LeafCut(Grown(i), node', op.at, Fresh, c)
             /\ Splits(node[op.at].keys, op.key, i)
             /\ Len(NewKeys(i)) = MaxKeys + 1 /\ NewKeys(i) \in Seq(Keys)
             /\ c \in 1 .. MaxKeys /\ c >= Least(TRUE) /\ (MaxKeys + 1) - c >= Least(TRUE)
<1> DEFINE x  == op.at
           i  == Child(node[x], op.key)
           c  == Split(MaxKeys + 1)
           ks == NewKeys(i)
           rs == NewRows(i)
           l  == MaxKeys + 1
           a  == Fresh
           n  == Grown(i)
           z  == [node[x] EXCEPT !.keys = SubSeq(ks, 1, c), !.rows = SubSeq(rs, 1, c), !.next = a]
           w  == RightLeaf(node[x], SubSeq(ks, c + 1, l), SubSeq(rs, c + 1, l))
<1>1. Inserts /\ Len(node[x].keys) = MaxKeys
  BY DEF leaf_split_insert, Full
<1>2. node' = Alloc([node EXCEPT ![x].keys = SubSeq(ks, 1, c), ![x].rows = SubSeq(rs, 1, c), ![x].next = a], a, w)
  BY DEF leaf_split_insert, NewKeys, NewRows
<1>3. /\ root # Nil /\ x \in DOMAIN node /\ op.key \in Int /\ Heap(node) /\ Ascending(node)
      /\ node[x].leaf /\ node[x].kids = <<>>
  BY <1>1, AtInsertion, CallHasRoot DEF IsSound, Sound, Shape, Heap
<1>4. Splits(node[x].keys, op.key, i)
  BY <1>3, ChildSplits
<1>5. /\ ks \in Seq(Keys) /\ rs \in Seq(Rows) /\ Len(ks) = l /\ Len(rs) = l
      /\ DOMAIN n = DOMAIN node /\ \A y \in DOMAIN node : y # x => n[y] = node[y]
      /\ n[x].leaf /\ n[x].keys = ks /\ n[x].rows = rs /\ n[x].kids = node[x].kids
      /\ n[x].parent = node[x].parent /\ n[x].next = node[x].next
  BY <1>1, <1>4, LeafWritten
<1>6. /\ c \in 1 .. MaxKeys /\ c >= Least(TRUE) /\ l - c >= Least(TRUE) /\ MaxKeys \in Nat /\ c \in 0 .. l
      /\ l - c \in 1 .. MaxKeys /\ c \in Nat /\ l - c \in Nat
  BY TreeAssumption DEF Split, Least
<1> HIDE DEF c, ks, rs, l, n, i
<1>7. /\ SubSeq(ks, 1, c) \in Seq(Keys) /\ IsPart(SubSeq(ks, 1, c), ks, 0, c)
      /\ SubSeq(rs, 1, c) \in Seq(Rows) /\ IsPart(SubSeq(rs, 1, c), rs, 0, c)
      /\ SubSeq(ks, c + 1, l) \in Seq(Keys) /\ IsPart(SubSeq(ks, c + 1, l), ks, c, l - c)
      /\ SubSeq(rs, c + 1, l) \in Seq(Rows) /\ IsPart(SubSeq(rs, c + 1, l), rs, c, l - c)
  <2>1. c \in 0 .. Len(ks) /\ c \in 0 .. Len(rs)
    BY <1>5, <1>6
  <2>2. /\ SubSeq(ks, 1, c) \in Seq(Keys) /\ IsPart(SubSeq(ks, 1, c), ks, 0, c)
        /\ SubSeq(ks, c + 1, Len(ks)) \in Seq(Keys) /\ IsPart(SubSeq(ks, c + 1, Len(ks)), ks, c, Len(ks) - c)
    BY <1>5, <2>1, Parts
  <2>3. /\ SubSeq(rs, 1, c) \in Seq(Rows) /\ IsPart(SubSeq(rs, 1, c), rs, 0, c)
        /\ SubSeq(rs, c + 1, Len(rs)) \in Seq(Rows) /\ IsPart(SubSeq(rs, c + 1, Len(rs)), rs, c, Len(rs) - c)
    BY <1>5, <2>1, Parts
  <2> QED
    BY <1>5, <2>2, <2>3
<1> DEFINE kx == SubSeq(ks, 1, c)
           rx == SubSeq(rs, 1, c)
           ka == SubSeq(ks, c + 1, l)
           ra == SubSeq(rs, c + 1, l)
<1>8. /\ kx \in Seq(Keys) /\ rx \in Seq(Rows) /\ ka \in Seq(Keys) /\ ra \in Seq(Rows)
      /\ IsPart(kx, ks, 0, c) /\ IsPart(rx, rs, 0, c) /\ IsPart(ka, ks, c, l - c) /\ IsPart(ra, rs, c, l - c)
  BY <1>7
<1>9. node' = Alloc([node EXCEPT ![x].keys = kx, ![x].rows = rx, ![x].next = a], a, w)
  BY <1>2
<1>10. /\ z = [node[x] EXCEPT !.keys = kx, !.rows = rx, !.next = a]
       /\ w = RightLeaf(node[x], ka, ra)
  OBVIOUS
<1> HIDE DEF kx, rx, ka, ra, a, x, z, w
<1>11. /\ Len(kx) = c /\ Len(rx) = c /\ Len(ka) = l - c /\ Len(ra) = l - c
  BY <1>8 DEF IsPart
<1>12. a \in Addr /\ a \in Ptr /\ a \notin DOMAIN node
  BY DEF a, Ptr
<1>13. node[x] \in NodeSet /\ node[x].parent \in Ptr /\ node[x].next \in Ptr
  BY <1>3, Indices
<1>14. /\ z \in NodeSet /\ z.keys = kx /\ z.rows = rx /\ z.leaf = node[x].leaf
       /\ z.kids = node[x].kids /\ z.parent = node[x].parent /\ z.next = a
  BY <1>8, <1>10, <1>12, <1>13 DEF NodeSet
<1>15. /\ w \in NodeSet /\ w.keys = ka /\ w.rows = ra /\ w.leaf = TRUE
       /\ w.kids = <<>> /\ w.next = node[x].next
  BY <1>8, <1>10, <1>13, NewNode DEF RightLeaf, NodeSet
<1>16. [node EXCEPT ![x].keys = kx, ![x].rows = rx, ![x].next = a] = [node EXCEPT ![x] = z]
  BY <1>3, <1>10, <1>13 DEF NodeSet
<1>17. node' = [y \in DOMAIN node \cup {a} |-> IF y = a THEN w ELSE IF y = x THEN z ELSE node[y]]
  BY <1>3, <1>9, <1>16 DEF Alloc
<1>18. /\ DOMAIN node' = DOMAIN node \cup {a} /\ node'[a] = w /\ node'[x] = z
       /\ \A y \in DOMAIN node : y # x => node'[y] = node[y]
  BY <1>3, <1>12, <1>17
<1>19. Heap(node')
  <2>1. node' \in [DOMAIN node \cup {a} -> NodeSet]
    BY <1>3, <1>14, <1>15, <1>17 DEF Heap
  <2>2. ASSUME NEW y \in DOMAIN node'
        PROVE  /\ node'[y].leaf => Len(node'[y].rows) = Len(node'[y].keys) /\ node'[y].kids = <<>>
               /\ ~node'[y].leaf => Len(node'[y].kids) = Len(node'[y].keys) + 1 /\ node'[y].rows = <<>>
    <3>1. CASE y = a
      BY <1>11, <1>15, <1>18, <3>1
    <3>2. CASE y = x
      BY <1>3, <1>11, <1>14, <1>18, <3>2
    <3>3. CASE y # a /\ y # x
      BY <1>3, <1>18, <3>3 DEF Heap
    <3> QED
      BY <3>1, <3>2, <3>3
  <2>3. DOMAIN node' \subseteq Addr
    BY <1>3, <1>12, <1>18 DEF Heap
  <2> QED
    BY <1>18, <2>1, <2>2, <2>3 DEF Heap
<1>20. Fits(node')
  <2>1. Len(node'[a].keys) <= MaxKeys /\ Len(node'[x].keys) <= MaxKeys
    BY <1>6, <1>11, <1>14, <1>15, <1>18
  <2> QED
    BY <1>18, <2>1 DEF IsSound, Fits
<1>21. LeafCut(n, node', x, a, c)
  BY <1>3, <1>5, <1>8, <1>14, <1>15, <1>18 DEF LeafCut
<1> QED
  BY <1>4, <1>5, <1>6, <1>19, <1>20, <1>21 DEF i, c, n, ks, l, x, a

LEMMA LeafSplitStep ==
  ASSUME NEW L, NEW h, NEW b, NEW s, IsSound(L, h, b, s), leaf_split_insert
  PROVE  TreeInv'
<1> DEFINE x  == op.at
           i  == Child(node[x], op.key)
           c  == Split(MaxKeys + 1)
           ks == NewKeys(i)
           a  == Fresh
           n  == Grown(i)
<1>1. /\ Inserts /\ root' = root /\ was' = was /\ failed' = failed
      /\ op' = [op EXCEPT !.pc = "insert_into_parent", !.right = a, !.sep = ks[c + 1]]
  BY DEF leaf_split_insert, NewKeys
<1>2. /\ ~IsRising(op) /\ op # Idle /\ op.kind # "search" /\ node[x].leaf
  BY <1>1, AtInsertion
<1>3. /\ root # Nil /\ x \in DOMAIN node /\ x \in L /\ Heap(node) /\ b \in Nat /\ op \in Calls
      /\ root \in L /\ L \subseteq DOMAIN node
  BY <1>2, CallHasRoot DEF IsSound, Sound, Shape
<1>4. Cardinality(DOMAIN node) + h[root] + 2 <= Cardinality(Addr)
  BY <1>2 DEF IsSound, Sound, Shape, Room
<1>5. a \in Addr /\ a \notin DOMAIN node
  <2>1. h[root] \in Nat /\ Cardinality(DOMAIN node) \in Nat /\ Cardinality(Addr) \in Nat
    <3>1. IsFiniteSet(DOMAIN node) /\ IsFiniteSet(Addr)
      BY <1>3, FS_Subset, TreeAssumption DEF Heap
    <3>2. h[root] \in Nat
      BY <1>3 DEF IsSound, Sound, Shape, Levels
    <3> QED
      BY <3>1, <3>2, FS_CardinalityType
  <2>2. Cardinality(DOMAIN node) + 1 <= Cardinality(Addr)
    BY <1>4, <2>1
  <2> QED
    BY <1>3, <2>2, FreshIsFree
<1>6. /\ Heap(node') /\ Fits(node') /\ LeafCut(n, node', x, a, c)
      /\ Splits(node[x].keys, op.key, i)
      /\ Len(ks) = MaxKeys + 1 /\ ks \in Seq(Keys)
      /\ c \in 1 .. MaxKeys /\ c >= Least(TRUE) /\ (MaxKeys + 1) - c >= Least(TRUE)
  BY <1>5, SplitWritten
<1> HIDE DEF i, c, a
<1>7. /\ DOMAIN n = DOMAIN node /\ n[x].leaf /\ n[x].keys = ks
      /\ \A m : Sound(n, root, Idle, m, failed, L, h, b, s)
      /\ Holds(n, L, Added(was, op.key, op.row))
  BY <1>1, <1>6, LeafWritten, LeafGrown
<1> HIDE DEF n, ks
<1>8. ks[c + 1] \in Keys /\ ks[c + 1] \in Int
  <2>1. c + 1 \in 1 .. Len(ks)
    BY <1>6, TreeAssumption
  <2>2. ks[c + 1] \in Keys
    BY <1>6, <2>1
  <2> QED
    BY <2>2, KeysAreInts
<1>9. Risen(op', x, a, ks[c + 1], was)
  <2>1. op.key \notin DOMAIN was
    BY <1>1, KeyIsNew
  <2>2. a \in Ptr
    BY <1>5 DEF Ptr
  <2> QED
    BY <1>1, <1>2, <1>3, <1>8, <2>1, <2>2 DEF Risen, Calls, IsRising
<1>10. op'.key = op.key /\ op'.row = op.row
  BY <1>1, <1>3 DEF Calls
<1>11. c \in 1 .. Len(n[x].keys) - 1 /\ Len(n[x].keys) - c >= Least(TRUE)
  <2>1. Len(n[x].keys) = MaxKeys + 1 /\ (MaxKeys + 1) - 1 = MaxKeys
    BY <1>6, <1>7, TreeAssumption
  <2> QED
    BY <1>6, <2>1
<1>12. \E L2, h2, s2 : Sound(node', root, op', was, failed, L2, h2, b, s2)
  <2>1. /\ Sound(n, root, Idle, was, failed, L, h, b, s) /\ a \notin DOMAIN n
        /\ Risen(op', x, a, n[x].keys[c + 1], was)
        /\ Holds(n, L, Added(was, op'.key, op'.row))
        /\ Cardinality(DOMAIN n) + h[root] + 2 <= Cardinality(Addr)
    BY <1>4, <1>5, <1>7, <1>9, <1>10
  <2> HIDE DEF x
  <2> QED
    BY <1>3, <1>5, <1>6, <1>7, <1>11, <2>1, LeafSplit DEF x
<1>13. PICK L2, h2, s2 : Sound(node', root, op', was, failed, L2, h2, b, s2)
  BY <1>12
<1>14. IsSound(L2, h2, b, s2)'
  BY <1>1, <1>3, <1>6, <1>13 DEF IsSound
<1> QED
  BY <1>14 DEF TreeInv

-----------------------------------------------------------------------------
(* A node gets a child.                                                    *)

LEMMA LeastIsPositive == Least(TRUE) >= 1 /\ Least(FALSE) >= 1 /\ Least(TRUE) \in Int /\ Least(FALSE) \in Int
BY TreeAssumption DEF Least

\* What a call knows on its way up.
IsUp(n, r, o, L, h, s) ==
  /\ o # Idle /\ r # Nil /\ r \in L /\ L \subseteq DOMAIN n /\ o \in Calls
  /\ o.at \in L /\ o.right \in L /\ o.right # o.at /\ o.right # r /\ o.kind # "search"
  /\ \A x \in DOMAIN n : \A i \in DOMAIN n[x].kids : n[x].kids[i] # o.right
  /\ h[o.right] = h[o.at] /\ o.sep \in s[o.right] /\ o.sep \in Keys /\ o.sep \in Int
  /\ \A v \in s[o.at] : v < o.sep
  /\ \A v \in s[o.right] : o.sep <= v
  /\ s[o.at] \subseteq Int /\ s[o.right] \subseteq Int
  /\ \E v \in s[o.at] : v \in Int

LEMMA OnTheWayUp ==
  ASSUME NEW n, NEW r, NEW o, NEW m, NEW f, NEW L, NEW h, NEW b \in Nat, NEW s,
         Sound(n, r, o, m, f, L, h, b, s), IsRising(o)
  PROVE  IsUp(n, r, o, L, h, s)
<1>1. o # Idle
  BY IdleIsQuiet
<1>2. /\ o.at \in L /\ o.right \in L /\ o.right # o.at /\ o.right # r /\ o.kind # "search" /\ o \in Calls
      /\ \A x \in DOMAIN n : \A i \in DOMAIN n[x].kids : n[x].kids[i] # o.right
      /\ h[o.right] = h[o.at] /\ o.sep \in s[o.right] /\ o.sep \in Keys
      /\ \A v \in s[o.at] : v < o.sep
      /\ \A v \in s[o.right] : o.sep <= v
  BY <1>1 DEF Sound, Shape, Calling
<1>3. r # Nil /\ r \in L /\ L \subseteq DOMAIN n
  BY <1>1 DEF Sound, Shape, Rooted, Live
<1>4. s[o.at] \subseteq Int /\ s[o.right] \subseteq Int
  BY <1>2, <1>3 DEF Sound, Shape, Spans
<1>5. 1 \in DOMAIN n[o.at].keys
  <2>1. Len(n[o.at].keys) >= Least(n[o.at].leaf) /\ Heap(n) /\ o.at \in DOMAIN n
    BY <1>2, <1>3 DEF Sound, Shape, Filled
  <2>2. n[o.at].leaf \in BOOLEAN /\ Len(n[o.at].keys) \in Nat /\ DOMAIN n[o.at].keys = 1 .. Len(n[o.at].keys)
    BY <2>1, Indices
  <2>3. Least(n[o.at].leaf) >= 1 /\ Least(n[o.at].leaf) \in Int
    BY <2>2, LeastIsPositive
  <2> QED
    BY <2>1, <2>2, <2>3
<1>6. n[o.at].keys[1] \in s[o.at]
  BY <1>2, <1>3, <1>5 DEF Sound, Shape, Spans
<1> QED
  BY <1>1, <1>2, <1>3, <1>4, <1>6, KeysAreInts DEF IsUp

\* f is n with a child more for p, next to child i.
KidAdded(n, f, p, i, v, a) ==
  /\ DOMAIN f = DOMAIN n
  /\ \A y \in DOMAIN n : y # p => f[y].keys = n[y].keys /\ f[y].kids = n[y].kids
  /\ \A y \in DOMAIN n : f[y].leaf = n[y].leaf /\ f[y].rows = n[y].rows /\ f[y].next = n[y].next
  /\ \A y \in DOMAIN n : y # a => f[y].parent = n[y].parent
  /\ f[a].parent = p
  /\ IsInserted(f[p].keys, n[p].keys, i, v)
  /\ IsInserted(f[p].kids, n[p].kids, i + 1, a)

\* The new separator lies between those on both sides of the child.
LEMMA SepSplits ==
  ASSUME NEW n, NEW r, NEW o, NEW m, NEW f, NEW L, NEW h, NEW b \in Nat, NEW s,
         Sound(n, r, o, m, f, L, h, b, s), IsRising(o),
         NEW p \in L, ~n[p].leaf, NEW i \in DOMAIN n[p].kids, n[p].kids[i] = o.at
  PROVE  /\ Splits(n[p].keys, o.sep, i) /\ \A j \in DOMAIN n[p].keys : n[p].keys[j] # o.sep
         /\ View(n, s, p, i) = s[o.at] \cup s[o.right]
<1> DEFINE q == n[p].keys
           l == Len(q)
           v == o.sep
<1>1. Heap(n) /\ Ascending(n) /\ Spans(n, o, s) /\ p \in DOMAIN n
  BY OnTheWayUp DEF Sound, Shape, IsUp
<1>2. /\ l \in Nat /\ DOMAIN q = 1 .. l /\ i \in 1 .. l + 1
      /\ \A j \in 1 .. l : q[j] \in Int
  BY <1>1, Indices, Elements
<1>3. \A c, d \in 1 .. l : c < d => q[c] < q[d]
  BY <1>1, <1>2 DEF Ascending
<1>4. View(n, s, p, i) = s[o.at] \cup s[o.right]
  BY <1>1 DEF Spans, Sent
<1>5. v \in Int /\ v \in View(n, s, p, i)
  BY <1>4, OnTheWayUp DEF IsUp
<1>6. PICK w \in s[o.at] : w \in Int /\ w < v /\ w \in View(n, s, p, i)
  BY <1>4, OnTheWayUp DEF IsUp
<1>7. (i > 1 => q[i - 1] <= w) /\ (i <= l => v < q[i])
  BY <1>5, <1>6 DEF View
<1> HIDE DEF q, l, v
<1>8. ASSUME NEW j \in 1 .. l, j < i
      PROVE  q[j] < v
  <2>1. i > 1 /\ i - 1 \in 1 .. l /\ (j = i - 1 \/ j < i - 1)
    BY <1>2, <1>8
  <2>2. q[j] <= q[i - 1]
    BY <1>2, <1>3, <2>1
  <2> QED
    BY <1>2, <1>5, <1>6, <1>7, <2>1, <2>2
<1>9. ASSUME NEW j \in 1 .. l, j >= i
      PROVE  v < q[j]
  <2>1. i <= l /\ i \in 1 .. l /\ (j = i \/ i < j)
    BY <1>2, <1>9
  <2>2. q[i] <= q[j]
    BY <1>2, <1>3, <2>1
  <2> QED
    BY <1>2, <1>5, <1>7, <2>1, <2>2
<1>10. \A j \in DOMAIN q : j < i => q[j] <= v
  BY <1>2, <1>5, <1>8
<1>11. \A j \in DOMAIN q : q[j] # v
  BY <1>2, <1>5, <1>8, <1>9
<1>12. Splits(q, v, i)
  BY <1>2, <1>9, <1>10 DEF Splits, l
<1> QED
  BY <1>4, <1>11, <1>12 DEF q, v

\* Child i is sent the keys from separator i - 1 on and below separator i.
Between(q, i, u) == (i > 1 => q[i - 1] <= u) /\ (i <= Len(q) => u < q[i])

LEMMA ViewIs == \A n, s, x, i, u : u \in View(n, s, x, i) <=> u \in s[x] /\ Between(n[x].keys, i, u)
BY DEF View, Between

\* Every child of p has the span that p sends to it.
SendsAll(n, s, p) == \A j \in DOMAIN n[p].kids : s[n[p].kids[j]] = View(n, s, p, j)

\* What find_leaf sends to the children of p when there is one more.
LEMMA ViewsAdded ==
  ASSUME NEW n, NEW r, NEW o, NEW m, NEW f, NEW L, NEW h, NEW b \in Nat, NEW s,
         Sound(n, r, o, m, f, L, h, b, s), IsRising(o),
         NEW p \in L, ~n[p].leaf, NEW i \in DOMAIN n[p].kids, n[p].kids[i] = o.at,
         NEW n2, Heap(n2), ~n2[p].leaf, KidAdded(n, n2, p, i, o.sep, o.right)
  PROVE  SendsAll(n2, s, p)
<1> DEFINE q == n[p].keys
           t == n2[p].keys
           c == n[p].kids
           d == n2[p].kids
           l == Len(q)
           v == o.sep
<1>1. Heap(n) /\ Spans(n, o, s) /\ Parents(n) /\ p \in DOMAIN n
  BY OnTheWayUp DEF Sound, Shape, IsUp
<1>2. Len(t) = l + 1 /\ Len(d) = Len(c) + 1 /\ DOMAIN n2 = DOMAIN n
  BY DEF KidAdded, IsInserted
<1>3. l \in Nat /\ i \in 1 .. l + 1 /\ DOMAIN c = 1 .. l + 1 /\ DOMAIN d = 1 .. l + 2 /\ Len(c) = l + 1
  <2>1. l \in Nat /\ DOMAIN c = 1 .. l + 1 /\ Len(c) = l + 1
    BY <1>1, Indices DEF Heap
  <2>2. DOMAIN d = 1 .. Len(t) + 1
    BY <1>1, <1>2, Indices
  <2> QED
    BY <1>2, <2>1, <2>2
<1>4. \A j \in 1 .. l + 1 : t[j] = IF j < i THEN q[j] ELSE IF j = i THEN v ELSE q[j - 1]
  BY DEF KidAdded, IsInserted
<1>5. \A j \in 1 .. l + 2 : d[j] = IF j < i + 1 THEN c[j] ELSE IF j = i + 1 THEN o.right ELSE c[j - 1]
  <2>1. Len(c) + 1 = l + 2
    BY <1>3
  <2> QED
    BY <2>1 DEF KidAdded, IsInserted
<1>6. View(n, s, p, i) = s[o.at] \cup s[o.right] /\ Splits(q, v, i)
  BY SepSplits
<1>7. ASSUME NEW j \in 1 .. l + 1, j # i
      PROVE  s[c[j]] = View(n, s, p, j)
  <2>1. c[j] # o.at
    BY <1>1, <1>3, <1>7 DEF Parents
  <2> QED
    BY <1>1, <1>3, <2>1 DEF Spans, Sent
<1>8. /\ \A u \in s[o.at] : u < v
      /\ \A u \in s[o.right] : v <= u
      /\ v \in Int /\ s[o.at] \subseteq Int /\ s[o.right] \subseteq Int
  BY OnTheWayUp DEF IsUp
<1>9. /\ \A j, u : u \in View(n2, s, p, j) <=> u \in s[p] /\ Between(t, j, u)
      /\ \A j, u : u \in View(n, s, p, j) <=> u \in s[p] /\ Between(q, j, u)
  BY ViewIs
<1>10. s[p] \subseteq Int /\ c[i] = o.at
  BY <1>1 DEF Spans
<1>11. \A j \in 1 .. l : /\ q[j] \in Int
                         /\ j < i => q[j] <= v
                         /\ j >= i => v < q[j]
  <2>1. \A j \in DOMAIN q : q[j] \in Int /\ (j < i => q[j] <= v) /\ (j >= i => v < q[j])
    BY <1>1, <1>6, Elements DEF Splits
  <2> QED
    BY <1>1, <2>1, Indices
<1>12. /\ \A j, u : Between(q, j, u) <=> (j > 1 => q[j - 1] <= u) /\ (j <= l => u < q[j])
       /\ \A j, u : Between(t, j, u) <=> (j > 1 => t[j - 1] <= u) /\ (j <= l + 1 => u < t[j])
  BY <1>2 DEF Between
<1> HIDE DEF q, t, c, d, l, v
<1>13. ASSUME NEW j \in 1 .. l + 2
       PROVE  s[d[j]] = View(n2, s, p, j)
  <2>1. CASE j < i
    <3>1. j \in 1 .. l + 1 /\ j # i /\ j <= l /\ j <= l + 1 /\ d[j] = c[j] /\ t[j] = q[j]
      BY <1>3, <1>4, <1>5, <2>1
    <3>2. j > 1 => t[j - 1] = q[j - 1]
      BY <1>3, <1>4, <2>1
    <3>3. \A u \in Int : Between(t, j, u) <=> Between(q, j, u)
      BY <1>12, <3>1, <3>2
    <3>4. View(n2, s, p, j) = View(n, s, p, j)
      BY <1>9, <1>10, <3>3
    <3> QED
      BY <1>7, <3>1, <3>4
  <2>2. CASE j = i
    <3>1. j <= l + 1 /\ d[j] = o.at /\ t[j] = v /\ j >= i
      BY <1>3, <1>4, <1>5, <1>10, <2>2
    <3>2. j > 1 => t[j - 1] = q[j - 1]
      BY <1>3, <1>4, <2>2
    <3>3. j <= l => q[j] \in Int /\ v < q[j]
      BY <1>3, <1>11, <2>2
    <3>4. \A u \in Int : Between(t, j, u) <=> Between(q, j, u) /\ u < v
      <4> TAKE u \in Int
      <4>1. Between(t, j, u) <=> (j > 1 => q[j - 1] <= u) /\ u < v
        BY <1>12, <3>1, <3>2
      <4>2. u < v => (j <= l => u < q[j])
        BY <1>8, <3>3
      <4>3. Between(q, j, u) <=> (j > 1 => q[j - 1] <= u) /\ (j <= l => u < q[j])
        BY <1>12
      <4> QED
        BY <4>1, <4>2, <4>3
    <3>5. View(n2, s, p, j) = {u \in View(n, s, p, i) : u < v}
      BY <1>9, <1>10, <2>2, <3>4
    <3>6. \A u \in Int : u \in s[o.at] \cup s[o.right] /\ u < v <=> u \in s[o.at]
      BY <1>8
    <3>7. {u \in s[o.at] \cup s[o.right] : u < v} = s[o.at]
      BY <1>8, <3>6
    <3> QED
      BY <1>6, <3>1, <3>5, <3>7
  <2>3. CASE j = i + 1
    <3>1. d[j] = o.right /\ j > 1 /\ j - 1 = i /\ t[i] = v
      BY <1>3, <1>4, <1>5, <2>3
    <3>2. (j <= l + 1 <=> i <= l) /\ (i <= l => t[j] = q[i])
      BY <1>3, <1>4, <2>3
    <3>3. i > 1 => q[i - 1] \in Int /\ q[i - 1] <= v
      BY <1>3, <1>11
    <3>4. \A u \in Int : Between(t, j, u) <=> Between(q, i, u) /\ v <= u
      <4> TAKE u \in Int
      <4>1. Between(t, j, u) <=> v <= u /\ (i <= l => u < q[i])
        BY <1>12, <3>1, <3>2
      <4>2. v <= u => (i > 1 => q[i - 1] <= u)
        BY <1>8, <3>3
      <4>3. Between(q, i, u) <=> (i > 1 => q[i - 1] <= u) /\ (i <= l => u < q[i])
        BY <1>12
      <4> QED
        BY <4>1, <4>2, <4>3
    <3>5. View(n2, s, p, j) = {u \in View(n, s, p, i) : v <= u}
      BY <1>9, <1>10, <3>4
    <3>6. \A u \in Int : u \in s[o.at] \cup s[o.right] /\ v <= u <=> u \in s[o.right]
      BY <1>8
    <3>7. {u \in s[o.at] \cup s[o.right] : v <= u} = s[o.right]
      BY <1>8, <3>6
    <3> QED
      BY <1>6, <3>1, <3>5, <3>7
  <2>4. CASE j > i + 1
    <3>1. /\ j - 1 \in 1 .. l + 1 /\ j - 1 # i /\ d[j] = c[j - 1]
          /\ j > 1 /\ j - 1 > 1 /\ t[j - 1] = q[(j - 1) - 1]
      BY <1>3, <1>4, <1>5, <2>4
    <3>2. (j <= l + 1 <=> j - 1 <= l) /\ (j <= l + 1 => t[j] = q[j - 1])
      BY <1>3, <1>4, <2>4
    <3>3. \A u \in Int : Between(t, j, u) <=> Between(q, j - 1, u)
      BY <1>12, <3>1, <3>2
    <3>4. View(n2, s, p, j) = View(n, s, p, j - 1)
      BY <1>9, <1>10, <3>3
    <3> QED
      BY <1>7, <3>1, <3>4
  <2> QED
    BY <1>3, <2>1, <2>2, <2>3, <2>4
<1> QED
  BY <1>3, <1>13 DEF d, SendsAll

\* Where the new child and the others are.
LEMMA KidPlaces ==
  ASSUME NEW n, Heap(n), NEW p \in DOMAIN n, ~n[p].leaf, NEW i \in DOMAIN n[p].kids,
         NEW n2, Heap(n2), ~n2[p].leaf, NEW v, NEW a, KidAdded(n, n2, p, i, v, a)
  PROVE  /\ i + 1 \in DOMAIN n2[p].kids /\ n2[p].kids[i + 1] = a
         /\ \A j \in DOMAIN n2[p].kids : j = i + 1 \/ \E k \in DOMAIN n[p].kids :
              /\ n2[p].kids[j] = n[p].kids[k]
              /\ k = IF j < i + 1 THEN j ELSE j - 1
         /\ \A k \in DOMAIN n[p].kids : \E j \in DOMAIN n2[p].kids : n2[p].kids[j] = n[p].kids[k]
<1> DEFINE c == n[p].kids
           d == n2[p].kids
           l == Len(c)
<1>1. l \in Nat /\ DOMAIN c = 1 .. l /\ i \in 1 .. l
  BY Indices DEF Heap
<1>2. p \in DOMAIN n2 /\ Len(d) = l + 1
  BY DEF KidAdded, IsInserted
<1>3. DOMAIN d = 1 .. l + 1
  BY <1>1, <1>2, Indices DEF Heap
<1>4. \A j \in 1 .. l + 1 : d[j] = IF j < i + 1 THEN c[j] ELSE IF j = i + 1 THEN a ELSE c[j - 1]
  BY DEF KidAdded, IsInserted
<1> HIDE DEF c, d, l
<1>5. i + 1 \in 1 .. l + 1 /\ d[i + 1] = a
  BY <1>1, <1>4
<1>6. ASSUME NEW j \in 1 .. l + 1, j # i + 1
      PROVE  \E k \in 1 .. l : d[j] = c[k] /\ k = IF j < i + 1 THEN j ELSE j - 1
  <2>1. CASE j < i + 1
    BY <1>1, <1>4, <2>1
  <2>2. CASE j > i + 1
    <3>1. j - 1 \in 1 .. l /\ ~(j < i + 1) /\ d[j] = c[j - 1]
      BY <1>1, <1>4, <2>2
    <3> QED
      BY <3>1
  <2> QED
    BY <1>1, <1>6, <2>1, <2>2
<1>7. ASSUME NEW k \in 1 .. l
      PROVE  \E j \in 1 .. l + 1 : d[j] = c[k]
  <2>1. CASE k < i + 1
    BY <1>1, <1>4, <2>1
  <2>2. CASE k >= i + 1
    <3>1. k + 1 \in 1 .. l + 1 /\ ~(k + 1 < i + 1) /\ k + 1 # i + 1 /\ (k + 1) - 1 = k
      BY <1>1, <2>2
    <3>2. d[k + 1] = c[k]
      BY <1>4, <3>1
    <3> QED
      BY <3>1, <3>2
  <2> QED
    BY <1>1, <2>1, <2>2
<1> QED
  BY <1>1, <1>3, <1>5, <1>6, <1>7 DEF c, d

\* A map is held by leaves, and stays when internal nodes change.
LEMMA HoldsSame ==
  ASSUME NEW n, NEW n2, NEW L, NEW L2, NEW m, Holds(n, L, m), L \subseteq DOMAIN n, L \subseteq L2,
         \A y \in L2 : n2[y].leaf => y \in L,
         \A y \in DOMAIN n : n2[y].leaf = n[y].leaf,
         \A y \in DOMAIN n : n[y].leaf => n2[y].keys = n[y].keys /\ n2[y].rows = n[y].rows
  PROVE  Holds(n2, L2, m)
<1>1. Within(n2, L2, m)
  BY DEF Holds, Within
<1> QED
  BY <1>1 DEF Holds

\* So does the chain of the leaves.
LEMMA ChainedSame ==
  ASSUME NEW n, NEW n2, NEW r, NEW r2, NEW L, NEW L2, NEW s, NEW s2,
         Chained(n, r, L, s), r # Nil, L \subseteq DOMAIN n, L \subseteq L2,
         \A y \in L2 : n2[y].leaf => y \in L,
         \A y \in DOMAIN n : n2[y].leaf = n[y].leaf /\ n2[y].next = n[y].next,
         \A y \in L : n[y].leaf => s2[y] = s[y]
  PROVE  Chained(n2, r2, L2, s2)
<1>1. \E x \in L2 : n2[x].leaf /\ n2[x].next = Nil
  BY DEF Chained
<1>2. ASSUME NEW x \in L2, n2[x].leaf
      PROVE  IF n2[x].next = Nil THEN \A v \in s2[x] : \A u \in Int : v <= u => u \in s2[x]
             ELSE /\ n2[x].next \in L2 /\ n2[n2[x].next].leaf
                  /\ \A v \in s2[x] : \A w \in s2[n2[x].next] :
                       /\ v < w
                       /\ \A u \in Int : v <= u /\ u <= w => u \in s2[x] \/ u \in s2[n2[x].next]
  <2>1. x \in L /\ n[x].leaf /\ n2[x].next = n[x].next /\ s2[x] = s[x]
    BY <1>2
  <2>2. CASE n[x].next = Nil
    BY <2>1, <2>2 DEF Chained
  <2>3. CASE n[x].next # Nil
    <3>1. n[x].next \in L /\ n[n[x].next].leaf
      BY <2>1, <2>3 DEF Chained
    <3>2. n2[n[x].next].leaf /\ s2[n[x].next] = s[n[x].next]
      BY <3>1
    <3> QED
      BY <2>1, <2>3, <3>1, <3>2 DEF Chained
  <2> QED
    BY <2>2, <2>3
<1> QED
  BY <1>1, <1>2 DEF Chained

\* When its parent knows the new node, whether or not there was room for it,
\* the tree is as it should be.
LEMMA KidJoined ==
  ASSUME NEW n, NEW r, NEW o, NEW m, NEW f, NEW L, NEW h, NEW b \in Nat, NEW s,
         Sound(n, r, o, m, f, L, h, b, s), IsRising(o),
         NEW p \in L, ~n[p].leaf, NEW i \in DOMAIN n[p].kids, n[p].kids[i] = o.at,
         NEW n2, Heap(n2), KidAdded(n, n2, p, i, o.sep, o.right)
  PROVE  /\ \A m2 : Sound(n2, r, Idle, m2, f, L, h, b, s)
         /\ Holds(n2, L, Added(m, o.key, o.row))
<1> DEFINE a == o.right
<1>1. /\ Heap(n) /\ Parents(n) /\ Levels(n, h, b) /\ Ascending(n) /\ Filled(n, r, o)
      /\ Spans(n, o, s) /\ Live(n, r, o, L) /\ Rooted(n, r, o, L, s) /\ Whole(n, r, L, s, f)
      /\ Content(n, o, L, m)
  BY DEF Sound, Shape
<1>2. /\ o # Idle /\ r # Nil /\ r \in L /\ L \subseteq DOMAIN n /\ o.at \in L /\ a \in L /\ a # o.at /\ a # r
      /\ \A x \in DOMAIN n : \A j \in DOMAIN n[x].kids : n[x].kids[j] # a
      /\ h[a] = h[o.at] /\ o.sep \in s[a] /\ o.sep \in Keys
  <2>1. IsUp(n, r, o, L, h, s)
    BY OnTheWayUp
  <2> QED
    BY <2>1 DEF IsUp
<1>3. /\ DOMAIN n2 = DOMAIN n
      /\ \A y \in DOMAIN n : y # p => n2[y].keys = n[y].keys /\ n2[y].kids = n[y].kids
      /\ \A y \in DOMAIN n : n2[y].leaf = n[y].leaf /\ n2[y].rows = n[y].rows /\ n2[y].next = n[y].next
      /\ \A y \in DOMAIN n : y # a => n2[y].parent = n[y].parent
      /\ n2[a].parent = p
      /\ IsInserted(n2[p].keys, n[p].keys, i, o.sep)
  BY DEF KidAdded
<1>4. p \in DOMAIN n /\ a \in DOMAIN n /\ ~n2[p].leaf
  BY <1>2, <1>3
<1>5. o.at # r
  <2>1. n[o.at].parent = p /\ n[r].parent = Nil /\ p # Nil
    BY <1>1, <1>2, <1>4, TreeAssumption DEF Parents, Rooted, Heap
  <2> QED
    BY <2>1
<1>6. /\ i + 1 \in DOMAIN n2[p].kids /\ n2[p].kids[i + 1] = a
      /\ \A j \in DOMAIN n2[p].kids : j = i + 1 \/ \E k \in DOMAIN n[p].kids :
           /\ n2[p].kids[j] = n[p].kids[k]
           /\ k = IF j < i + 1 THEN j ELSE j - 1
      /\ \A k \in DOMAIN n[p].kids : \E j \in DOMAIN n2[p].kids : n2[p].kids[j] = n[p].kids[k]
  BY <1>1, <1>4, KidPlaces
<1>7. DOMAIN n2[p].kids \subseteq Nat /\ i \in Nat
  BY <1>1, <1>3, <1>4, Indices
<1>20. SendsAll(n2, s, p)
  BY <1>4, ViewsAdded
<1> HIDE DEF a
<1>8. Parents(n2)
  <2> SUFFICES ASSUME NEW y \in DOMAIN n, NEW j \in DOMAIN n2[y].kids
               PROVE  /\ n2[y].kids[j] \in DOMAIN n /\ n2[n2[y].kids[j]].parent = y
                      /\ \A k \in DOMAIN n2[y].kids : n2[y].kids[j] = n2[y].kids[k] => j = k
    BY <1>3 DEF Parents
  <2>1. \A x \in DOMAIN n : \A k \in DOMAIN n[x].kids :
          /\ n[x].kids[k] \in DOMAIN n /\ n2[n[x].kids[k]].parent = x
          /\ \A k2 \in DOMAIN n[x].kids : n[x].kids[k] = n[x].kids[k2] => k = k2
    BY <1>1, <1>2, <1>3 DEF Parents
  <2>2. CASE y # p
    BY <1>3, <2>1, <2>2
  <2>3. CASE y = p /\ j = i + 1
    <3>1. n2[y].kids[j] \in DOMAIN n /\ n2[n2[y].kids[j]].parent = y
      BY <1>3, <1>4, <1>6, <2>3
    <3>2. ASSUME NEW k \in DOMAIN n2[p].kids, n2[p].kids[k] = a
          PROVE  k = i + 1
      BY <1>2, <1>4, <1>6, <3>2
    <3> QED
      BY <1>6, <2>3, <3>1, <3>2
  <2>4. CASE y = p /\ j # i + 1
    <3>1. PICK k \in DOMAIN n[p].kids :
            n2[p].kids[j] = n[p].kids[k] /\ k = IF j < i + 1 THEN j ELSE j - 1
      BY <1>6, <2>4
    <3>2. n2[y].kids[j] \in DOMAIN n /\ n2[n2[y].kids[j]].parent = y
      BY <1>4, <2>1, <2>4, <3>1
    <3>3. ASSUME NEW j2 \in DOMAIN n2[p].kids, n2[p].kids[j] = n2[p].kids[j2]
          PROVE  j = j2
      <4>1. j2 # i + 1
        BY <1>2, <1>4, <1>6, <3>1, <3>3
      <4>2. PICK k2 \in DOMAIN n[p].kids :
              n2[p].kids[j2] = n[p].kids[k2] /\ k2 = IF j2 < i + 1 THEN j2 ELSE j2 - 1
        BY <1>6, <4>1
      <4>3. k = k2
        BY <1>4, <2>1, <3>1, <3>3, <4>2
      <4>4. j \in Nat /\ j2 \in Nat
        BY <1>7, <2>4
      <4> QED
        BY <1>7, <2>4, <3>1, <4>1, <4>2, <4>3, <4>4
    <3> QED
      BY <2>4, <3>2, <3>3
  <2> QED
    BY <2>2, <2>3, <2>4
<1>9. Levels(n2, h, b)
  <2>1. h[a] + 1 = h[p]
    BY <1>1, <1>2, <1>4 DEF Levels
  <2>2. ASSUME NEW y \in DOMAIN n, NEW j \in DOMAIN n2[y].kids
        PROVE  h[n2[y].kids[j]] + 1 = h[y]
    <3>1. CASE y # p
      BY <1>1, <1>3, <2>2, <3>1 DEF Levels
    <3>2. CASE y = p /\ j = i + 1
      BY <1>6, <2>1, <3>2
    <3>3. CASE y = p /\ j # i + 1
      <4>1. PICK k \in DOMAIN n[p].kids : n2[p].kids[j] = n[p].kids[k]
        BY <1>6, <2>2, <3>3
      <4> QED
        BY <1>1, <1>4, <3>3, <4>1 DEF Levels
    <3> QED
      BY <3>1, <3>2, <3>3
  <2> QED
    BY <1>1, <1>3, <2>2 DEF Levels
<1>10. /\ Splits(n[p].keys, o.sep, i) /\ \A j \in DOMAIN n[p].keys : n[p].keys[j] # o.sep
       /\ View(n, s, p, i) = s[o.at] \cup s[a]
  <2>1. /\ Splits(n[p].keys, o.sep, i) /\ \A j \in DOMAIN n[p].keys : n[p].keys[j] # o.sep
        /\ View(n, s, p, i) = s[o.at] \cup s[o.right]
    BY SepSplits
  <2> QED
    BY <2>1 DEF a
<1>11. Ascending(n2)
  <2>1. AscendingSeq(n[p].keys) /\ n[p].keys \in Seq(Keys) /\ n2[p].keys \in Seq(Keys)
    BY <1>1, <1>3, <1>4, Indices DEF Ascending, AscendingSeq
  <2>2. AscendingSeq(n2[p].keys)
    BY <1>2, <1>3, <1>10, <2>1, InOrder
  <2>3. \A y \in DOMAIN n : AscendingSeq(n2[y].keys)
    <3> SUFFICES ASSUME NEW y \in DOMAIN n, y # p
                 PROVE  AscendingSeq(n2[y].keys)
      BY <2>2
    <3>1. AscendingSeq(n[y].keys) /\ n2[y].keys = n[y].keys
      BY <1>1, <1>3 DEF Ascending, AscendingSeq
    <3> QED
      BY <3>1
  <2> QED
    BY <1>3, <2>3 DEF Ascending, AscendingSeq
<1>12. Filled(n2, r, Idle)
  <2>1. \A y \in DOMAIN n : y # r => Len(n[y].keys) >= Least(n[y].leaf)
    BY <1>1 DEF Filled
  <2>2. p # r => Len(n2[p].keys) >= Least(n2[p].leaf)
    <3>1. Len(n2[p].keys) = Len(n[p].keys) + 1
      BY <1>3 DEF IsInserted
    <3>2. Len(n[p].keys) \in Nat /\ n2[p].leaf = FALSE /\ n[p].leaf = FALSE
      BY <1>1, <1>3, <1>4, Indices
    <3>3. Least(FALSE) \in Int
      BY LeastIsPositive
    <3>4. p # r => Len(n[p].keys) >= Least(FALSE)
      BY <1>4, <2>1, <3>2
    <3>5. \A k, l, c \in Int : k = l + 1 /\ l >= c => k >= c
      OBVIOUS
    <3>6. Len(n2[p].keys) \in Int /\ Len(n[p].keys) \in Int
      BY <3>1, <3>2
    <3>7. p # r => Len(n2[p].keys) >= Least(FALSE)
      BY <3>1, <3>3, <3>4, <3>5, <3>6, Zenon
    <3> QED
      BY <3>2, <3>7, Zenon
  <2>3. \A y \in DOMAIN n : y # p => Len(n2[y].keys) = Len(n[y].keys) /\ n2[y].leaf = n[y].leaf
    BY <1>3
  <2> QED
    BY <1>3, <2>1, <2>2, <2>3, IdleIsQuiet DEF Filled
<1>13. Spans(n2, Idle, s)
  <2>1. ASSUME NEW y \in DOMAIN n, NEW j \in DOMAIN n2[y].keys
        PROVE  n2[y].keys[j] \in s[y]
    <3>1. CASE y # p
      BY <1>1, <1>3, <2>1, <3>1 DEF Spans
    <3>2. CASE y = p
      <4>1. \A k \in DOMAIN n[p].keys : n[p].keys[k] \in s[p]
        BY <1>1, <1>4 DEF Spans
      <4>2. o.sep \in s[p]
        BY <1>2, <1>10, ViewIs
      <4>3. /\ DOMAIN n2[p].keys = 1 .. Len(n[p].keys) + 1 /\ Len(n[p].keys) \in Nat
            /\ DOMAIN n[p].keys = 1 .. Len(n[p].keys) /\ i \in 1 .. Len(n[p].keys) + 1
        BY <1>1, <1>3, <1>4, Indices DEF IsInserted
      <4>4. n2[p].keys[j] = IF j < i THEN n[p].keys[j] ELSE IF j = i THEN o.sep ELSE n[p].keys[j - 1]
        BY <1>3, <2>1, <3>2, <4>3 DEF IsInserted
      <4>5. (j < i => j \in DOMAIN n[p].keys) /\ (j > i => j - 1 \in DOMAIN n[p].keys)
        BY <2>1, <3>2, <4>3
      <4>6. j \in Nat
        BY <2>1, <3>2, <4>3
      <4> QED
        BY <1>7, <3>2, <4>1, <4>2, <4>4, <4>5, <4>6
    <3> QED
      BY <3>1, <3>2
  <2>2. ASSUME NEW y \in DOMAIN n, NEW j \in DOMAIN n2[y].kids
        PROVE  Sent(Idle, s, n2[y].kids[j]) = View(n2, s, y, j)
    <3>1. Sent(Idle, s, n2[y].kids[j]) = s[n2[y].kids[j]]
      BY IdleIsQuiet, SentQuiet
    <3>2. CASE y = p
      <4>1. s[n2[p].kids[j]] = View(n2, s, p, j)
        BY <1>20, <2>2, <3>2 DEF SendsAll
      <4> QED
        BY <3>1, <3>2, <4>1
    <3>3. CASE y # p
      <4>1. n2[y].kids = n[y].kids /\ n2[y].keys = n[y].keys /\ n[y].kids[j] # o.at
        <5>1. n2[y].kids = n[y].kids /\ n2[y].keys = n[y].keys
          BY <1>3, <3>3
        <5>2. n[n[y].kids[j]].parent = y /\ n[o.at].parent = p
          BY <1>1, <1>4, <2>2, <5>1 DEF Parents
        <5> QED
          BY <3>3, <5>1, <5>2
      <4>2. Sent(o, s, n[y].kids[j]) = View(n, s, y, j)
        BY <1>1, <2>2, <4>1 DEF Spans
      <4>3. Sent(o, s, n[y].kids[j]) = s[n[y].kids[j]]
        BY <4>1 DEF Sent
      <4>4. View(n2, s, y, j) = View(n, s, y, j)
        BY <4>1 DEF View
      <4> QED
        BY <3>1, <4>1, <4>2, <4>3, <4>4
    <3> QED
      BY <3>2, <3>3
  <2>3. s \in [DOMAIN n -> SUBSET Int]
        /\ \A x \in DOMAIN n : \A v, w \in s[x] : \A u \in Int : v <= u /\ u <= w => u \in s[x]
    BY <1>1 DEF Spans
  <2> QED
    BY <1>3, <2>1, <2>2, <2>3 DEF Spans
<1>14. Live(n2, r, Idle, L)
  <2>1. ASSUME NEW y \in L, NEW j \in DOMAIN n2[y].kids
        PROVE  n2[y].kids[j] \in L
    <3>1. CASE y # p
      BY <1>1, <1>2, <1>3, <2>1, <3>1 DEF Live
    <3>2. CASE y = p /\ j = i + 1
      BY <1>2, <1>6, <3>2
    <3>3. CASE y = p /\ j # i + 1
      BY <1>1, <1>6, <2>1, <3>3 DEF Live
    <3> QED
      BY <3>1, <3>2, <3>3
  <2>2. ASSUME NEW y \in L, y # r
        PROVE  n2[y].parent \in L /\ \E j \in DOMAIN n2[n2[y].parent].kids : n2[n2[y].parent].kids[j] = y
    <3>1. CASE y = a
      BY <1>3, <1>6, <3>1
    <3>2. CASE y # a
      <4>1. n[y].parent \in L /\ \E j \in DOMAIN n[n[y].parent].kids : n[n[y].parent].kids[j] = y
        BY <1>1, <2>2, <3>2 DEF Live, a
      <4>2. n2[y].parent = n[y].parent
        BY <1>2, <1>3, <3>2
      <4>3. CASE n[y].parent = p
        BY <1>6, <4>1, <4>2, <4>3
      <4>4. CASE n[y].parent # p
        BY <1>2, <1>3, <4>1, <4>2, <4>4
      <4> QED
        BY <4>3, <4>4
    <3> QED
      BY <3>1, <3>2
  <2> QED
    BY <1>2, <1>3, <2>1, <2>2, IdleIsQuiet DEF Live
<1>15. Rooted(n2, r, Idle, L, s)
  <2>1. n2[r].parent = Nil
    BY <1>1, <1>2, <1>3 DEF Rooted
  <2>2. Sent(Idle, s, r) = Int
    <3>1. Sent(o, s, r) = Int /\ Sent(o, s, r) = s[r]
      BY <1>1, <1>2, <1>5 DEF Rooted, Sent
    <3> QED
      BY <3>1, IdleIsQuiet, SentQuiet
  <2> QED
    BY <1>2, <2>1, <2>2 DEF Rooted
<1>16. Calling(n2, r, Idle, L, h, s) /\ Room(n2, r, Idle, h) /\ \A m2 : Content(n2, Idle, L, m2)
  BY IdleIsQuiet DEF Calling, Room, Content
<1>21. \A y \in L : n2[y].leaf => y \in L
  OBVIOUS
<1>17. Whole(n2, r, L, s, f)
  <2>1. Chained(n, r, L, s) => Chained(n2, r, L, s)
    BY <1>2, <1>3, <1>21, ChainedSame
  <2> QED
    BY <1>1, <1>3, <2>1 DEF Whole
<1>18. Holds(n2, L, Added(m, o.key, o.row))
  <2>1. Holds(n, L, Added(m, o.key, o.row))
    BY <1>1, <1>2 DEF Content
  <2>2. \A y \in DOMAIN n : n[y].leaf => n2[y].keys = n[y].keys /\ n2[y].rows = n[y].rows
    BY <1>3
  <2> QED
    BY <1>2, <1>3, <1>21, <2>1, <2>2, HoldsSame
<1>19. \A m2 : Sound(n2, r, Idle, m2, f, L, h, b, s)
  BY <1>8, <1>9, <1>11, <1>12, <1>13, <1>14, <1>15, <1>16, <1>17 DEF Sound, Shape
<1> QED
  BY <1>18, <1>19

\* The parent knows its child; and what has no parent is the root.
LEMMA RisingParent ==
  ASSUME NEW L, NEW h, NEW b, NEW s, IsSound(L, h, b, s), Rising
  PROVE  /\ Parent = Nil <=> op.at = root
         /\ Parent # Nil =>
              /\ Parent \in L /\ Parent \in DOMAIN node /\ ~node[Parent].leaf /\ Parent # op.right
              /\ KidNo(node[Parent], op.at) \in DOMAIN node[Parent].kids
              /\ node[Parent].kids[KidNo(node[Parent], op.at)] = op.at
              /\ KidNo(node[Parent], op.at) <= Len(node[Parent].kids)
              /\ h[op.at] + 1 = h[Parent]
<1> DEFINE p == Parent
<1>1. IsRising(op)
  BY DEF Rising, IsRising
<1>2. IsUp(node, root, op, L, h, s)
  BY <1>1, OnTheWayUp DEF IsSound
<1>3. /\ Heap(node) /\ Parents(node) /\ Levels(node, h, b) /\ Live(node, root, op, L)
      /\ Rooted(node, root, op, L, s)
  BY DEF IsSound, Sound, Shape
<1>4. \A x \in L : x \in DOMAIN node /\ x # Nil
  BY <1>2, <1>3, TreeAssumption DEF IsUp, Heap
<1>5. op.at = root => p = Nil
  BY <1>2, <1>3 DEF Parent, IsUp, Rooted
<1>6. ASSUME op.at # root
      PROVE  p \in L /\ \E i \in DOMAIN node[p].kids : node[p].kids[i] = op.at
  <2>1. op.at \in L /\ op.at # op.right
    BY <1>2 DEF IsUp
  <2> QED
    BY <1>3, <1>6, <2>1 DEF Live, Parent
<1>7. ASSUME p # Nil
      PROVE  /\ p \in L /\ p \in DOMAIN node /\ ~node[p].leaf /\ p # op.right
             /\ KidNo(node[p], op.at) \in DOMAIN node[p].kids
             /\ node[p].kids[KidNo(node[p], op.at)] = op.at
             /\ KidNo(node[p], op.at) <= Len(node[p].kids)
             /\ h[op.at] + 1 = h[p]
  <2>1. p \in L /\ p \in DOMAIN node
    BY <1>4, <1>5, <1>6, <1>7
  <2>2. PICK i \in DOMAIN node[p].kids : node[p].kids[i] = op.at
    BY <1>5, <1>6, <1>7
  <2>3. ~node[p].leaf
    BY <1>3, <2>1, <2>2, Indices
  <2>4. h[op.at] + 1 = h[p]
    BY <1>3, <2>1, <2>2 DEF Levels
  <2>5. h[op.right] = h[op.at] /\ h[op.at] \in Int
    <3>1. op.at \in L /\ h[op.right] = h[op.at]
      BY <1>2 DEF IsUp
    <3> QED
      BY <1>3, <1>4, <3>1 DEF Levels
  <2> DEFINE c == node[p].kids
             T == {j \in DOMAIN c : c[j] = op.at} \cup {Len(c) + 1}
  <2>6. DOMAIN c = 1 .. Len(c) /\ Len(c) \in Nat
    BY <1>3, <2>1, Indices
  <2>7. KidNo(node[p], op.at) = Min(T)
    BY DEF KidNo
  <2> HIDE DEF c
  <2>8. T \in SUBSET Nat /\ T # {} /\ i \in T
    BY <2>2, <2>6 DEF c
  <2>9. Min(T) \in T /\ Min(T) <= i
    <3> HIDE DEF T
    <3> QED
      BY <2>8, MinIsLeast
  <2>10. i <= Len(c) /\ i \in Nat
    BY <2>2, <2>6 DEF c
  <2>11. Min(T) # Len(c) + 1
    BY <2>6, <2>9, <2>10
  <2>12. Min(T) \in DOMAIN c /\ c[Min(T)] = op.at
    BY <2>9, <2>11
  <2>13. Min(T) <= Len(c)
    BY <2>6, <2>12
  <2>14. p # op.right
    BY <2>4, <2>5
  <2> QED
    BY <2>1, <2>3, <2>4, <2>7, <2>12, <2>13, <2>14 DEF c
<1> QED
  BY <1>5, <1>6, <1>4, <1>7

\* The heap in which the parent knows the new node, split or not.
Joined ==
  [node EXCEPT ![Parent].keys = InsertAt(@, KidNo(node[Parent], op.at), op.sep),
               ![Parent].kids = InsertAt(@, KidNo(node[Parent], op.at) + 1, op.right),
               ![op.right].parent = Parent]

LEMMA JoinedWritten ==
  ASSUME NEW L, NEW h, NEW b, NEW s, IsSound(L, h, b, s), Rising, Parent # Nil
  PROVE  /\ Heap(Joined)
         /\ KidAdded(node, Joined, Parent, KidNo(node[Parent], op.at), op.sep, op.right)
         /\ Joined[Parent].keys = InsertAt(node[Parent].keys, KidNo(node[Parent], op.at), op.sep)
         /\ Joined[Parent].kids = InsertAt(node[Parent].kids, KidNo(node[Parent], op.at) + 1, op.right)
         /\ Len(Joined[Parent].keys) = Len(node[Parent].keys) + 1
         /\ Joined[Parent].parent = node[Parent].parent
<1> DEFINE p  == Parent
           a  == op.right
           i  == KidNo(node[p], op.at)
           ks == InsertAt(node[p].keys, i, op.sep)
           ch == InsertAt(node[p].kids, i + 1, a)
           z  == [node[p] EXCEPT !.keys = ks, !.kids = ch]
           w  == [node[a] EXCEPT !.parent = p]
<1>1. /\ p \in L /\ p \in DOMAIN node /\ ~node[p].leaf /\ p # a
      /\ i \in DOMAIN node[p].kids
  BY RisingParent
<1>2. a \in DOMAIN node /\ a \in Addr /\ op.sep \in Keys /\ Heap(node) /\ p \in Ptr
  <2>1. IsUp(node, root, op, L, h, s)
    BY OnTheWayUp DEF IsSound, Rising, IsRising
  <2>2. Heap(node)
    BY DEF IsSound, Sound, Shape
  <2> QED
    BY <1>1, <2>1, <2>2 DEF IsUp, Heap, Ptr
<1>3. Joined = [node EXCEPT ![p].keys = ks, ![p].kids = ch, ![a].parent = p]
  BY <1>1, <1>2 DEF Joined
<1>4. /\ node[p] \in NodeSet /\ node[p].keys \in Seq(Keys) /\ node[p].kids \in Seq(Addr)
      /\ Len(node[p].keys) \in Nat /\ Len(node[p].kids) = Len(node[p].keys) + 1
      /\ node[p].rows = <<>> /\ i \in 1 .. Len(node[p].keys) + 1
      /\ node[a] \in NodeSet
  BY <1>1, <1>2, Indices DEF Heap
<1> HIDE DEF p, a, i
<1>5. ks \in Seq(Keys) /\ IsInserted(ks, node[p].keys, i, op.sep)
  BY <1>2, <1>4, Inserted
<1>6. ch \in Seq(Addr) /\ IsInserted(ch, node[p].kids, i + 1, a)
  <2>1. i + 1 \in 1 .. Len(node[p].kids) + 1
    BY <1>4
  <2> QED
    BY <1>2, <1>4, <2>1, Inserted
<1>7. Len(ks) = Len(node[p].keys) + 1 /\ Len(ch) = Len(ks) + 1
  BY <1>4, <1>5, <1>6 DEF IsInserted
<1> HIDE DEF ks, ch
<1>8. /\ z \in NodeSet /\ z.keys = ks /\ z.kids = ch /\ z.leaf = node[p].leaf
      /\ z.rows = node[p].rows /\ z.parent = node[p].parent /\ z.next = node[p].next
  BY <1>4, <1>5, <1>6 DEF NodeSet
<1>9. /\ w \in NodeSet /\ w.keys = node[a].keys /\ w.kids = node[a].kids /\ w.leaf = node[a].leaf
      /\ w.rows = node[a].rows /\ w.parent = p /\ w.next = node[a].next
  BY <1>2, <1>4 DEF NodeSet
<1>10. Joined = [y \in DOMAIN node |-> IF y = p THEN z ELSE IF y = a THEN w ELSE node[y]]
  <2>1. [node EXCEPT ![p].keys = ks, ![p].kids = ch] = [node EXCEPT ![p] = z]
    BY <1>1, <1>4 DEF NodeSet
  <2>2. [node EXCEPT ![p].keys = ks, ![p].kids = ch, ![a].parent = p]
        = [[node EXCEPT ![p].keys = ks, ![p].kids = ch] EXCEPT ![a].parent = p]
    OBVIOUS
  <2> HIDE DEF z
  <2>3. [[node EXCEPT ![p] = z] EXCEPT ![a].parent = p] = [[node EXCEPT ![p] = z] EXCEPT ![a] = w]
    BY <1>1, <1>2, <1>4
  <2> HIDE DEF w
  <2>4. [[node EXCEPT ![p] = z] EXCEPT ![a] = w]
        = [y \in DOMAIN node |-> IF y = p THEN z ELSE IF y = a THEN w ELSE node[y]]
    BY <1>1, <1>2
  <2> QED
    BY <1>3, <2>1, <2>2, <2>3, <2>4
<1> HIDE DEF z, w
<1>11. /\ DOMAIN Joined = DOMAIN node /\ Joined[p] = z /\ Joined[a] = w
       /\ \A y \in DOMAIN node : y # p /\ y # a => Joined[y] = node[y]
  BY <1>1, <1>2, <1>10
<1>12. Heap(Joined)
  <2>1. Joined \in [DOMAIN node -> NodeSet]
    BY <1>2, <1>8, <1>9, <1>10 DEF Heap
  <2>2. ASSUME NEW y \in DOMAIN node
        PROVE  /\ Joined[y].leaf => Len(Joined[y].rows) = Len(Joined[y].keys) /\ Joined[y].kids = <<>>
               /\ ~Joined[y].leaf => Len(Joined[y].kids) = Len(Joined[y].keys) + 1 /\ Joined[y].rows = <<>>
    <3>1. CASE y = p
      BY <1>1, <1>4, <1>7, <1>8, <1>11, <3>1
    <3>2. CASE y = a
      BY <1>2, <1>9, <1>11, <3>2 DEF Heap
    <3>3. CASE y # p /\ y # a
      BY <1>2, <1>11, <3>3 DEF Heap
    <3> QED
      BY <3>1, <3>2, <3>3
  <2> QED
    BY <1>2, <1>11, <2>1, <2>2 DEF Heap
<1>13. KidAdded(node, Joined, p, i, op.sep, a)
  <2>1. \A y \in DOMAIN node : y # p => Joined[y].keys = node[y].keys /\ Joined[y].kids = node[y].kids
    BY <1>9, <1>11
  <2>2. \A y \in DOMAIN node : Joined[y].leaf = node[y].leaf /\ Joined[y].rows = node[y].rows
                               /\ Joined[y].next = node[y].next
    BY <1>8, <1>9, <1>11
  <2>3. \A y \in DOMAIN node : y # a => Joined[y].parent = node[y].parent
    BY <1>8, <1>11
  <2> QED
    BY <1>5, <1>6, <1>8, <1>9, <1>11, <2>1, <2>2, <2>3 DEF KidAdded
<1> QED
  BY <1>7, <1>8, <1>11, <1>12, <1>13 DEF p, a, i, ks, ch

\* With the new node in its place the tree is sound, but for the room.
LEMMA JoinedIsSound ==
  ASSUME NEW L, NEW h, NEW b, NEW s, IsSound(L, h, b, s), Rising, Parent # Nil
  PROVE  /\ \A m : Sound(Joined, root, Idle, m, failed, L, h, b, s)
         /\ Holds(Joined, L, Added(was, op.key, op.row))
<1>1. /\ Parent \in L /\ ~node[Parent].leaf
      /\ KidNo(node[Parent], op.at) \in DOMAIN node[Parent].kids
      /\ node[Parent].kids[KidNo(node[Parent], op.at)] = op.at
  BY RisingParent
<1>2. /\ Heap(Joined)
      /\ KidAdded(node, Joined, Parent, KidNo(node[Parent], op.at), op.sep, op.right)
  BY JoinedWritten
<1>3. Sound(node, root, op, was, failed, L, h, b, s) /\ b \in Nat /\ IsRising(op)
  BY DEF IsSound, Rising, IsRising
<1> QED
  BY <1>1, <1>2, <1>3, KidJoined

LEMMA InsertIntoParentStep ==
  ASSUME NEW L, NEW h, NEW b, NEW s, IsSound(L, h, b, s), InsertIntoParent
  PROVE  TreeInv' /\ Holds(node', Under(node', root'), Added(was, op.key, op.row))
<1>1. /\ Rising /\ Parent # Nil /\ Len(node[Parent].keys) < MaxKeys /\ node' = Joined
      /\ op' = Idle /\ root' = root /\ failed' = failed
  BY DEF InsertIntoParent, Return, Joined
<1>2. /\ DOMAIN node' = DOMAIN node /\ Parent \in DOMAIN node
      /\ \A y \in DOMAIN node : y # Parent => node'[y].keys = node[y].keys
      /\ Len(node'[Parent].keys) = Len(node[Parent].keys) + 1
  <2>1. /\ KidAdded(node, Joined, Parent, KidNo(node[Parent], op.at), op.sep, op.right)
        /\ Len(Joined[Parent].keys) = Len(node[Parent].keys) + 1
    BY <1>1, JoinedWritten
  <2>2. Parent \in DOMAIN node
    BY <1>1, RisingParent
  <2> QED
    BY <1>1, <2>1, <2>2 DEF KidAdded
<1>3. Fits(node')
  <2>1. Len(node[Parent].keys) \in Nat /\ MaxKeys \in Nat
    BY <1>2, TreeAssumption, Indices DEF IsSound, Sound, Shape
  <2>2. Len(node'[Parent].keys) <= MaxKeys
    BY <1>1, <1>2, <2>1
  <2> QED
    BY <1>2, <2>2 DEF IsSound, Fits
<1>4. /\ Sound(node', root, Idle, was', failed, L, h, b, s)
      /\ Holds(node', L, Added(was, op.key, op.row))
  BY <1>1, JoinedIsSound
<1>5. IsSound(L, h, b, s)'
  BY <1>1, <1>3, <1>4 DEF IsSound
<1>6. root # Nil
  BY <1>1, OnTheWayUp DEF IsSound, Rising, IsRising, IsUp
<1>7. Holds(node', Under(node', root'), Added(was, op.key, op.row))
  <2>1. b \in Nat
    BY DEF IsSound
  <2>2. Holds(node', Under(node', root), Added(was, op.key, op.row))
    BY <1>4, <1>6, <2>1, HeldUnder
  <2> QED
    BY <1>1, <2>2
<1> QED
  BY <1>5, <1>7 DEF TreeInv

\* n2 is n with the internal node p cut in two: p keeps c keys, the next goes
\* up, and a gets the others.
NodeCut(n, n2, p, a, c) ==
  /\ DOMAIN n2 = DOMAIN n \cup {a}
  /\ \A y \in DOMAIN n : y # p => n2[y].keys = n[y].keys /\ n2[y].kids = n[y].kids
  /\ \A y \in DOMAIN n : n2[y].leaf = n[y].leaf /\ n2[y].rows = n[y].rows /\ n2[y].next = n[y].next
  /\ \A y \in DOMAIN n : n2[y].parent = IF \E j \in DOMAIN n2[a].kids : n2[a].kids[j] = y
                                        THEN a ELSE n[y].parent
  /\ n2[a].leaf = FALSE /\ n2[a].parent = Nil
  /\ IsPart(n2[p].keys, n[p].keys, 0, c) /\ IsPart(n2[p].kids, n[p].kids, 0, c + 1)
  /\ IsPart(n2[a].keys, n[p].keys, c + 1, Len(n[p].keys) - (c + 1))
  /\ IsPart(n2[a].kids, n[p].kids, c + 1, Len(n[p].keys) - c)

\* Where the keys and the children of the two nodes come from.
NodeIndices(n, n2, p, a, c, l) ==
  /\ DOMAIN n[p].keys = 1 .. l /\ DOMAIN n[p].kids = 1 .. l + 1
  /\ DOMAIN n2[p].keys = 1 .. c /\ DOMAIN n2[p].kids = 1 .. c + 1
  /\ DOMAIN n2[a].keys = 1 .. l - (c + 1) /\ DOMAIN n2[a].kids = 1 .. l - c
  /\ Len(n2[p].keys) = c /\ Len(n2[a].keys) = l - (c + 1)
  /\ \A j \in 1 .. c : n2[p].keys[j] = n[p].keys[j]
  /\ \A j \in 1 .. c + 1 : n2[p].kids[j] = n[p].kids[j]
  /\ \A j \in 1 .. l - (c + 1) : n2[a].keys[j] = n[p].keys[(c + 1) + j]
  /\ \A j \in 1 .. l - c : n2[a].kids[j] = n[p].kids[(c + 1) + j]

LEMMA CutNodeIndices ==
  ASSUME NEW n, Heap(n), NEW p \in DOMAIN n, ~n[p].leaf, NEW n2, Heap(n2), NEW a, a \notin DOMAIN n,
         NEW c \in 1 .. Len(n[p].keys) - 1, NodeCut(n, n2, p, a, c)
  PROVE  NodeIndices(n, n2, p, a, c, Len(n[p].keys)) /\ Len(n[p].keys) \in Nat
<1> DEFINE l == Len(n[p].keys)
<1>1. p \in DOMAIN n2 /\ a \in DOMAIN n2 /\ ~n2[p].leaf /\ ~n2[a].leaf
  BY DEF NodeCut
<1>2. DOMAIN n[p].keys = 1 .. l /\ DOMAIN n[p].kids = 1 .. l + 1 /\ l \in Nat
  BY Indices
<1>3. /\ IsPart(n2[p].keys, n[p].keys, 0, c) /\ IsPart(n2[p].kids, n[p].kids, 0, c + 1)
      /\ IsPart(n2[a].keys, n[p].keys, c + 1, l - (c + 1))
      /\ IsPart(n2[a].kids, n[p].kids, c + 1, l - c)
  BY DEF NodeCut
<1>4. /\ DOMAIN n2[p].keys = 1 .. Len(n2[p].keys) /\ DOMAIN n2[p].kids = 1 .. Len(n2[p].keys) + 1
      /\ DOMAIN n2[a].keys = 1 .. Len(n2[a].keys) /\ DOMAIN n2[a].kids = 1 .. Len(n2[a].keys) + 1
  BY <1>1, Indices
<1>5. c \in Nat /\ l - c \in Nat /\ l - (c + 1) \in Nat /\ (l - (c + 1)) + 1 = l - c
  BY <1>2
<1> HIDE DEF l
<1>6. Len(n2[p].keys) = c /\ Len(n2[a].keys) = l - (c + 1)
  BY <1>3 DEF IsPart
<1>7. \A j \in 1 .. c : n2[p].keys[j] = n[p].keys[j]
  <2>1. \A j \in 1 .. c : 0 + j = j
    BY <1>5
  <2> QED
    BY <1>3, <2>1 DEF IsPart
<1>8. \A j \in 1 .. c + 1 : n2[p].kids[j] = n[p].kids[j]
  <2>1. \A j \in 1 .. c + 1 : 0 + j = j
    BY <1>5
  <2> QED
    BY <1>3, <2>1 DEF IsPart
<1>9. /\ \A j \in 1 .. l - (c + 1) : n2[a].keys[j] = n[p].keys[(c + 1) + j]
      /\ \A j \in 1 .. l - c : n2[a].kids[j] = n[p].kids[(c + 1) + j]
  BY <1>3 DEF IsPart
<1>10. NodeIndices(n, n2, p, a, c, l)
  BY <1>2, <1>4, <1>5, <1>6, <1>7, <1>8, <1>9 DEF NodeIndices
<1> QED
  BY <1>2, <1>10 DEF l

\* What find_leaf sends to the children of the lower half and of the upper.
HalfViews(n, n2, s, s2, p, a, c, l) ==
  /\ \A j \in 1 .. c + 1 : View(n2, s2, p, j) = View(n, s, p, j)
  /\ \A j \in 1 .. l - c : View(n2, s2, a, j) = View(n, s, p, (c + 1) + j)

LEMMA ViewsHalved ==
  ASSUME NEW n, NEW s, Heap(n), Ascending(n), NEW p \in DOMAIN n, s[p] \subseteq Int, NEW n2, NEW a,
         NEW c \in 1 .. Len(n[p].keys) - 1, NodeIndices(n, n2, p, a, c, Len(n[p].keys)),
         NEW s2, NEW o, SpansCut(n, s, s2, p, a, n[p].keys[c + 1], o)
  PROVE  HalfViews(n, n2, s, s2, p, a, c, Len(n[p].keys))
<1> DEFINE l == Len(n[p].keys)
           q == n[p].keys
           v == q[c + 1]
           t == n2[p].keys
           g == n2[a].keys
<1>1. /\ l \in Nat /\ DOMAIN q = 1 .. l /\ \A j \in 1 .. l : q[j] \in Int
      /\ \A i, j \in 1 .. l : i < j => q[i] < q[j]
  <2>1. DOMAIN q = 1 .. l /\ l \in Nat
    BY Indices
  <2>2. (\A j \in DOMAIN q : q[j] \in Int) /\ \A i, j \in DOMAIN q : i < j => q[i] < q[j]
    BY Elements DEF Ascending
  <2> QED
    BY <2>1, <2>2
<1>2. /\ Len(t) = c /\ Len(g) = l - (c + 1)
      /\ \A j \in 1 .. c : t[j] = q[j]
      /\ \A j \in 1 .. l - (c + 1) : g[j] = q[(c + 1) + j]
  BY DEF NodeIndices
<1>3. /\ c \in Nat /\ c + 1 \in 1 .. l /\ v \in Int
  BY <1>1
<1>4. /\ \A j, u : u \in View(n2, s2, p, j) <=> u \in s[p] /\ u < v /\ Between(t, j, u)
      /\ \A j, u : u \in View(n2, s2, a, j) <=> u \in s[p] /\ v <= u /\ Between(g, j, u)
      /\ \A j, u : u \in View(n, s, p, j) <=> u \in s[p] /\ Between(q, j, u)
  BY ViewIs DEF SpansCut
<1>5. /\ \A j, u : Between(q, j, u) <=> (j > 1 => q[j - 1] <= u) /\ (j <= l => u < q[j])
      /\ \A j, u : Between(t, j, u) <=> (j > 1 => t[j - 1] <= u) /\ (j <= c => u < t[j])
      /\ \A j, u : Between(g, j, u) <=> (j > 1 => g[j - 1] <= u) /\ (j <= l - (c + 1) => u < g[j])
  BY <1>2 DEF Between
<1>6. v = q[c + 1]
  OBVIOUS
<1> HIDE DEF l, q, v, t, g
<1>7. ASSUME NEW j \in 1 .. c + 1
      PROVE  View(n2, s2, p, j) = View(n, s, p, j)
  <2>1. j > 1 => j - 1 \in 1 .. c /\ t[j - 1] = q[j - 1]
    BY <1>2, <1>3
  <2>2. j <= l /\ j \in 1 .. l /\ q[j] \in Int
    BY <1>1, <1>3
  <2>3. j <= c => t[j] = q[j] /\ q[j] < v
    BY <1>1, <1>2, <1>3, <1>6
  <2>4. ~(j <= c) => q[j] = v
    <3>1. ~(j <= c) => j = c + 1
      BY <1>3
    <3> QED
      BY <1>6, <3>1
  <2>5. \A u \in Int : u < v /\ Between(t, j, u) <=> Between(q, j, u)
    <3> TAKE u \in Int
    <3>1. Between(q, j, u) <=> (j > 1 => q[j - 1] <= u) /\ u < q[j]
      BY <1>5, <2>2
    <3>2. Between(t, j, u) <=> (j > 1 => q[j - 1] <= u) /\ (j <= c => u < q[j])
      BY <1>5, <2>1, <2>3
    <3>3. u < q[j] <=> u < v /\ (j <= c => u < q[j])
      BY <1>3, <2>2, <2>3, <2>4
    <3> QED
      BY <3>1, <3>2, <3>3
  <2>6. \A u : u \in View(n2, s2, p, j) <=> u \in View(n, s, p, j)
    BY <1>4, <2>5
  <2>7. View(n2, s2, p, j) \subseteq View(n, s, p, j) /\ View(n, s, p, j) \subseteq View(n2, s2, p, j)
    BY <2>6
  <2> QED
    BY <2>7
<1>8. ASSUME NEW j \in 1 .. l - c
      PROVE  View(n2, s2, a, j) = View(n, s, p, (c + 1) + j)
  <2> DEFINE k == (c + 1) + j
  <2>1. k \in Int /\ k > 1 /\ k - 1 \in 1 .. l /\ k - 1 = c + j /\ (k <= l => k \in 1 .. l)
    BY <1>1, <1>3
  <2>2. j > 1 => g[j - 1] = q[k - 1] /\ v < q[k - 1]
    <3> SUFFICES ASSUME j > 1
                 PROVE  g[j - 1] = q[k - 1] /\ v < q[k - 1]
      OBVIOUS
    <3>1. j - 1 \in 1 .. l - (c + 1) /\ (c + 1) + (j - 1) = k - 1 /\ c + 1 < k - 1
      BY <1>1, <1>3
    <3> QED
      BY <1>1, <1>2, <1>3, <1>6, <2>1, <3>1
  <2>3. j = 1 => q[k - 1] = v
    BY <1>3, <1>6
  <2>4. (j <= l - (c + 1) <=> k <= l) /\ (k <= l => g[j] = q[k])
    <3>1. (j <= l - (c + 1) <=> k <= l) /\ (k <= l => j \in 1 .. l - (c + 1))
      BY <1>1, <1>3
    <3> QED
      BY <1>2, <3>1
  <2>5. j = 1 \/ j > 1
    OBVIOUS
  <2>6. q[k - 1] \in Int
    BY <1>1, <2>1
  <2> HIDE DEF k
  <2>7. \A u \in Int : v <= u /\ Between(g, j, u) <=> Between(q, k, u)
    <3> TAKE u \in Int
    <3>1. Between(q, k, u) <=> q[k - 1] <= u /\ (k <= l => u < q[k])
      BY <1>5, <2>1
    <3>2. Between(g, j, u) <=> (j > 1 => q[k - 1] <= u) /\ (k <= l => u < q[k])
      BY <1>5, <2>2, <2>4
    <3>3. q[k - 1] <= u <=> v <= u /\ (j > 1 => q[k - 1] <= u)
      BY <1>3, <2>2, <2>3, <2>5, <2>6
    <3> QED
      BY <3>1, <3>2, <3>3
  <2>8. \A u : u \in View(n2, s2, a, j) <=> u \in View(n, s, p, k)
    BY <1>4, <2>7
  <2>9. View(n2, s2, a, j) \subseteq View(n, s, p, k) /\ View(n, s, p, k) \subseteq View(n2, s2, a, j)
    BY <2>8
  <2> QED
    BY <2>9 DEF k
<1> QED
  BY <1>7, <1>8 DEF l, HalfViews

\* Each child has one parent, and moves or stays.
LEMMA ParentsHalved ==
  ASSUME NEW n, Heap(n), Parents(n), NEW p \in DOMAIN n, ~n[p].leaf,
         NEW n2, Heap(n2), NEW a, a \notin DOMAIN n,
         NEW c \in 1 .. Len(n[p].keys) - 1, NodeCut(n, n2, p, a, c)
  PROVE  /\ Parents(n2)
         /\ \A j \in DOMAIN n2[p].kids : j \in DOMAIN n[p].kids /\ n2[p].kids[j] = n[p].kids[j]
         /\ \A j \in DOMAIN n2[a].kids : (c + 1) + j \in DOMAIN n[p].kids /\ n2[a].kids[j] = n[p].kids[(c + 1) + j]
         /\ \A j \in DOMAIN n[p].kids : \E y \in {p, a} : \E k \in DOMAIN n2[y].kids : n2[y].kids[k] = n[p].kids[j]
<1> DEFINE l == Len(n[p].keys)
<1>1. NodeIndices(n, n2, p, a, c, l) /\ l \in Nat
  BY CutNodeIndices
<1>2. /\ DOMAIN n2 = DOMAIN n \cup {a} /\ \A y \in DOMAIN n : y # p => n2[y].kids = n[y].kids
      /\ \A y \in DOMAIN n : n2[y].parent = IF \E j \in DOMAIN n2[a].kids : n2[a].kids[j] = y
                                            THEN a ELSE n[y].parent
  BY DEF NodeCut
<1>3. c \in Nat /\ c + 1 \in 1 .. l
  BY <1>1
<1> HIDE DEF l
<1>4. /\ DOMAIN n[p].kids = 1 .. l + 1 /\ DOMAIN n2[p].kids = 1 .. c + 1 /\ DOMAIN n2[a].kids = 1 .. l - c
      /\ \A j \in 1 .. c + 1 : n2[p].kids[j] = n[p].kids[j]
      /\ \A j \in 1 .. l - c : n2[a].kids[j] = n[p].kids[(c + 1) + j]
  BY <1>1 DEF NodeIndices
<1>5. \A j \in DOMAIN n2[p].kids : j \in DOMAIN n[p].kids /\ n2[p].kids[j] = n[p].kids[j]
  <2>1. \A j \in 1 .. c + 1 : j \in 1 .. l + 1
    BY <1>1, <1>3
  <2> QED
    BY <1>4, <2>1
<1>6. \A j \in DOMAIN n2[a].kids : (c + 1) + j \in DOMAIN n[p].kids /\ n2[a].kids[j] = n[p].kids[(c + 1) + j]
  <2>1. \A j \in 1 .. l - c : (c + 1) + j \in 1 .. l + 1
    BY <1>1, <1>3
  <2> QED
    BY <1>4, <2>1
<1>7. ASSUME NEW j \in DOMAIN n[p].kids
      PROVE  \E y \in {p, a} : \E k \in DOMAIN n2[y].kids : n2[y].kids[k] = n[p].kids[j]
  <2>1. CASE j <= c + 1
    <3>1. j \in 1 .. c + 1
      BY <1>1, <1>3, <1>4, <2>1
    <3> QED
      BY <1>4, <3>1
  <2>2. CASE ~(j <= c + 1)
    <3>1. j - (c + 1) \in 1 .. l - c /\ (c + 1) + (j - (c + 1)) = j
      BY <1>1, <1>3, <1>4, <2>2
    <3>2. n2[a].kids[j - (c + 1)] = n[p].kids[j]
      BY <1>4, <3>1
    <3> QED
      BY <1>4, <3>1, <3>2
  <2> QED
    BY <2>1, <2>2
<1>8. \A y \in DOMAIN n : \A j \in DOMAIN n[y].kids :
        /\ n[y].kids[j] \in DOMAIN n /\ n[n[y].kids[j]].parent = y
        /\ \A k \in DOMAIN n[y].kids : n[y].kids[j] = n[y].kids[k] => j = k
  BY DEF Parents
<1>9. ASSUME NEW j \in DOMAIN n2[p].kids, NEW k \in DOMAIN n2[a].kids
      PROVE  n2[p].kids[j] # n2[a].kids[k]
  <2>1. j \in 1 .. c + 1 /\ k \in 1 .. l - c /\ j # (c + 1) + k
    BY <1>3, <1>4
  <2> QED
    BY <1>5, <1>6, <1>8, <2>1
<1>10. ASSUME NEW y \in DOMAIN n2, NEW j \in DOMAIN n2[y].kids
       PROVE  /\ n2[y].kids[j] \in DOMAIN n2 /\ n2[n2[y].kids[j]].parent = y
              /\ \A k \in DOMAIN n2[y].kids : n2[y].kids[j] = n2[y].kids[k] => j = k
  <2>1. CASE y = a
    <3>1. n2[a].kids[j] \in DOMAIN n
      BY <1>6, <1>8, <1>10, <2>1
    <3>2. n2[n2[a].kids[j]].parent = a
      BY <1>2, <1>10, <2>1, <3>1
    <3>3. ASSUME NEW k \in DOMAIN n2[a].kids, n2[a].kids[j] = n2[a].kids[k]
          PROVE  j = k
      <4>1. (c + 1) + j = (c + 1) + k
        BY <1>6, <1>8, <1>10, <2>1, <3>3
      <4>2. j \in 1 .. l - c /\ k \in 1 .. l - c
        BY <1>4, <1>10, <2>1, <3>3
      <4> QED
        BY <1>3, <4>1, <4>2
    <3> QED
      BY <1>2, <2>1, <3>1, <3>2, <3>3
  <2>2. CASE y = p
    <3>1. n2[p].kids[j] \in DOMAIN n /\ n[n2[p].kids[j]].parent = p
      BY <1>5, <1>8, <1>10, <2>2
    <3>2. n2[n2[p].kids[j]].parent = p
      BY <1>2, <1>9, <1>10, <2>2, <3>1
    <3>3. \A k \in DOMAIN n2[p].kids : n2[p].kids[j] = n2[p].kids[k] => j = k
      BY <1>5, <1>8, <1>10, <2>2
    <3> QED
      BY <1>2, <2>2, <3>1, <3>2, <3>3
  <2>3. CASE y \in DOMAIN n /\ y # p
    <3>1. n2[y].kids = n[y].kids
      BY <1>2, <2>3
    <3>2. n[y].kids[j] \in DOMAIN n /\ n[n[y].kids[j]].parent = y
      BY <1>8, <1>10, <2>3, <3>1
    <3>3. \A k \in DOMAIN n2[a].kids : n2[a].kids[k] # n[y].kids[j]
      BY <1>6, <1>8, <2>3, <3>2
    <3>4. n2[n[y].kids[j]].parent = y
      BY <1>2, <3>2, <3>3
    <3> QED
      BY <1>2, <1>8, <1>10, <2>3, <3>1, <3>2, <3>4
  <2> QED
    BY <1>2, <2>1, <2>2, <2>3
<1>11. Parents(n2)
  BY <1>10 DEF Parents
<1> QED
  BY <1>5, <1>6, <1>7, <1>11

LEMMA NodeSplit ==
  ASSUME NEW n, NEW r, NEW m0, NEW f, NEW L, NEW h, NEW b \in Nat, NEW s,
         Sound(n, r, Idle, m0, f, L, h, b, s), r # Nil,
         NEW p \in L, ~n[p].leaf, NEW a \in Addr, a \notin DOMAIN n,
         NEW c \in 1 .. Len(n[p].keys) - 1, c >= Least(FALSE), Len(n[p].keys) - (c + 1) >= Least(FALSE),
         NEW n2, Heap(n2), NodeCut(n, n2, p, a, c),
         NEW m, NEW o, Risen(o, p, a, n[p].keys[c + 1], m),
         Holds(n, L, Added(m, o.key, o.row)),
         Cardinality(DOMAIN n) + (h[r] - h[p]) + 2 <= Cardinality(Addr)
  PROVE  \E L2, h2, s2 : Sound(n2, r, o, m, f, L2, h2, b, s2)
<1> DEFINE v  == n[p].keys[c + 1]
           l  == Len(n[p].keys)
           L2 == L \cup {a}
           h2 == [y \in DOMAIN n \cup {a} |-> IF y = a THEN h[p] ELSE h[y]]
           s2 == Cut(n, s, p, a, v)
<1>1. /\ Heap(n) /\ Parents(n) /\ Levels(n, h, b) /\ Ascending(n) /\ Filled(n, r, Idle)
      /\ Spans(n, Idle, s) /\ Live(n, r, Idle, L) /\ Rooted(n, r, Idle, L, s) /\ Whole(n, r, L, s, f)
  BY DEF Sound, Shape
<1>2. /\ L \subseteq DOMAIN n /\ p \in DOMAIN n /\ r \in L /\ a # p /\ a # r /\ a \notin L
      /\ n[r].parent = Nil /\ s[r] = Int /\ s[p] \subseteq Int
  <2>1. s[r] = Int
    BY <1>1, IdleIsQuiet, SentQuiet DEF Rooted
  <2> QED
    BY <1>1, <2>1 DEF Live, Rooted, Spans
<1>3. /\ IsRising(o) /\ o.at = p /\ o.right = a /\ o.sep = v /\ v \in Keys /\ v \in Int
      /\ o \in Calls /\ o.kind # "search" /\ o.key \notin DOMAIN m
  BY KeysAreInts DEF Risen
<1>4. NodeIndices(n, n2, p, a, c, l) /\ l \in Nat /\ c \in Nat /\ c + 1 \in 1 .. l
  <2>1. NodeIndices(n, n2, p, a, c, l) /\ l \in Nat
    BY <1>1, <1>2, CutNodeIndices
  <2> QED
    BY <2>1
<1>5. /\ DOMAIN n2 = DOMAIN n \cup {a}
      /\ \A y \in DOMAIN n : y # p => n2[y].keys = n[y].keys /\ n2[y].kids = n[y].kids
      /\ \A y \in DOMAIN n : n2[y].leaf = n[y].leaf /\ n2[y].rows = n[y].rows /\ n2[y].next = n[y].next
      /\ \A y \in DOMAIN n : n2[y].parent = IF \E j \in DOMAIN n2[a].kids : n2[a].kids[j] = y
                                            THEN a ELSE n[y].parent
      /\ n2[a].leaf = FALSE /\ n2[a].parent = Nil
  BY DEF NodeCut
<1>6. /\ Parents(n2)
      /\ \A j \in DOMAIN n2[p].kids : j \in DOMAIN n[p].kids /\ n2[p].kids[j] = n[p].kids[j]
      /\ \A j \in DOMAIN n2[a].kids : (c + 1) + j \in DOMAIN n[p].kids /\ n2[a].kids[j] = n[p].kids[(c + 1) + j]
      /\ \A j \in DOMAIN n[p].kids : \E y \in {p, a} : \E k \in DOMAIN n2[y].kids : n2[y].kids[k] = n[p].kids[j]
  BY <1>1, <1>2, ParentsHalved
<1>7. SpansCut(n, s, s2, p, a, v, o)
  BY <1>1, <1>2, <1>3, CutSpans
<1>8. /\ s2 \in [DOMAIN n \cup {a} -> SUBSET Int]
      /\ s2[a] = {u \in s[p] : v <= u} /\ s2[p] = {u \in s[p] : u < v}
      /\ \A y \in DOMAIN n : y # p => s2[y] = s[y]
      /\ \A y \in DOMAIN n : Sent(o, s2, y) = s[y]
      /\ \A y \in DOMAIN n \cup {a} : \A u, w \in s2[y] : \A z \in Int :
           u <= z /\ z <= w => z \in s2[y]
  BY <1>7 DEF SpansCut
<1>9. DOMAIN h2 = DOMAIN n \cup {a} /\ h2[a] = h[p] /\ \A y \in DOMAIN n : h2[y] = h[y]
  BY <1>2
<1>10. h2 \in [DOMAIN n \cup {a} -> 0 .. b]
  BY <1>1, <1>2 DEF Levels
<1>11. /\ \A j \in 1 .. c + 1 : View(n2, s2, p, j) = View(n, s, p, j)
       /\ \A j \in 1 .. l - c : View(n2, s2, a, j) = View(n, s, p, (c + 1) + j)
  <2>1. HalfViews(n, n2, s, s2, p, a, c, l)
    <3> HIDE DEF s2
    <3> QED
      BY <1>1, <1>2, <1>4, <1>7, ViewsHalved
  <2> QED
    BY <2>1 DEF HalfViews
<1>12. \A y \in DOMAIN n : \A j \in DOMAIN n[y].kids :
         /\ n[y].kids[j] \in DOMAIN n /\ h[n[y].kids[j]] + 1 = h[y] /\ n[n[y].kids[j]].parent = y
         /\ s[n[y].kids[j]] = View(n, s, y, j)
  <2>1. \A y \in DOMAIN n : \A j \in DOMAIN n[y].kids : Sent(Idle, s, n[y].kids[j]) = View(n, s, y, j)
    BY <1>1 DEF Spans
  <2>2. \A y \in DOMAIN n : \A j \in DOMAIN n[y].kids :
          n[y].kids[j] \in DOMAIN n /\ h[n[y].kids[j]] + 1 = h[y] /\ n[n[y].kids[j]].parent = y
    BY <1>1 DEF Parents, Levels
  <2>3. \A y : Sent(Idle, s, y) = s[y]
    BY IdleIsQuiet, SentQuiet
  <2> QED
    BY <2>1, <2>2, <2>3
<1>13. /\ DOMAIN n[p].keys = 1 .. l /\ DOMAIN n2[p].keys = 1 .. c /\ DOMAIN n2[a].keys = 1 .. l - (c + 1)
       /\ DOMAIN n2[p].kids = 1 .. c + 1 /\ DOMAIN n2[a].kids = 1 .. l - c
       /\ Len(n2[p].keys) = c /\ Len(n2[a].keys) = l - (c + 1)
       /\ \A j \in 1 .. c : n2[p].keys[j] = n[p].keys[j]
       /\ \A j \in 1 .. l - (c + 1) : n2[a].keys[j] = n[p].keys[(c + 1) + j]
  BY <1>4 DEF NodeIndices
<1> HIDE DEF h2, s2, l
<1>14. \A y \in DOMAIN n2 : y = a \/ y = p \/ (y \in DOMAIN n /\ y # p)
  BY <1>5
<1>15. Levels(n2, h2, b)
  <2>1. ASSUME NEW y \in DOMAIN n2, NEW j \in DOMAIN n2[y].kids
        PROVE  h2[n2[y].kids[j]] + 1 = h2[y]
    <3>1. CASE y = a
      BY <1>2, <1>6, <1>9, <1>12, <2>1, <3>1
    <3>2. CASE y = p
      BY <1>2, <1>6, <1>9, <1>12, <2>1, <3>2
    <3>3. CASE y \in DOMAIN n /\ y # p
      BY <1>5, <1>9, <1>12, <2>1, <3>3
    <3> QED
      BY <1>14, <3>1, <3>2, <3>3
  <2>2. \A y \in DOMAIN n2 : n2[y].leaf <=> h2[y] = 0
    <3>1. h[p] # 0
      BY <1>1, <1>2 DEF Levels
    <3>2. \A y \in DOMAIN n : n2[y].leaf <=> h2[y] = 0
      BY <1>1, <1>5, <1>9 DEF Levels
    <3>3. n2[a].leaf <=> h2[a] = 0
      BY <1>5, <1>9, <3>1
    <3> QED
      BY <1>5, <3>2, <3>3
  <2> QED
    BY <1>5, <1>10, <2>1, <2>2 DEF Levels
<1>16. /\ \A i, j \in 1 .. l : i < j => n[p].keys[i] < n[p].keys[j]
       /\ \A j \in 1 .. l : n[p].keys[j] \in s[p] /\ n[p].keys[j] \in Int
  <2>1. \A i, j \in DOMAIN n[p].keys : i < j => n[p].keys[i] < n[p].keys[j]
    BY <1>1, <1>2 DEF Ascending
  <2>2. \A j \in DOMAIN n[p].keys : n[p].keys[j] \in s[p] /\ n[p].keys[j] \in Int
    BY <1>1, <1>2, Elements DEF Spans
  <2> QED
    BY <1>13, <2>1, <2>2
<1>17. Ascending(n2)
  <2> SUFFICES ASSUME NEW y \in DOMAIN n2, NEW i \in DOMAIN n2[y].keys, NEW j \in DOMAIN n2[y].keys, i < j
               PROVE  n2[y].keys[i] < n2[y].keys[j]
    BY DEF Ascending
  <2>1. CASE y = p
    <3>1. i \in 1 .. l /\ j \in 1 .. l /\ i \in 1 .. c /\ j \in 1 .. c
      BY <1>4, <1>13, <2>1
    <3> QED
      BY <1>13, <1>16, <2>1, <3>1
  <2>2. CASE y = a
    <3>1. i \in 1 .. l - (c + 1) /\ j \in 1 .. l - (c + 1)
      BY <1>13, <2>2
    <3>2. /\ (c + 1) + i \in 1 .. l /\ (c + 1) + j \in 1 .. l
          /\ (c + 1) + i < (c + 1) + j
      BY <1>4, <3>1
    <3> QED
      BY <1>13, <1>16, <2>2, <3>1, <3>2
  <2>3. CASE y \in DOMAIN n /\ y # p
    BY <1>1, <1>5, <2>3 DEF Ascending
  <2> QED
    BY <1>14, <2>1, <2>2, <2>3
<1>18. Filled(n2, r, o)
  <2>1. n2[p].leaf = FALSE
    BY <1>1, <1>2, <1>5, Indices
  <2>2. Len(n2[p].keys) >= Least(n2[p].leaf) /\ Len(n2[a].keys) >= Least(n2[a].leaf)
    BY <1>5, <1>13, <2>1 DEF l
  <2>3. \A y \in DOMAIN n : y # r => Len(n[y].keys) >= Least(n[y].leaf)
    BY <1>1 DEF Filled
  <2>4. \A y \in DOMAIN n : y # p => n2[y].keys = n[y].keys /\ n2[y].leaf = n[y].leaf
    BY <1>5
  <2>5. \A y \in DOMAIN n2 : y # r \/ y = p => Len(n2[y].keys) >= Least(n2[y].leaf)
    BY <1>14, <2>2, <2>3, <2>4
  <2> QED
    BY <1>3, <2>5 DEF Filled
<1>19. Spans(n2, o, s2)
  <2>1. ASSUME NEW y \in DOMAIN n2, NEW i \in DOMAIN n2[y].keys
        PROVE  n2[y].keys[i] \in s2[y]
    <3>1. CASE y = p
      <4>1. i \in 1 .. c /\ i \in 1 .. l /\ i < c + 1
        BY <1>4, <1>13, <2>1, <3>1
      <4>2. n[p].keys[i] < v
        BY <1>4, <1>16, <4>1
      <4> QED
        BY <1>8, <1>13, <1>16, <3>1, <4>1, <4>2
    <3>2. CASE y = a
      <4>1. i \in 1 .. l - (c + 1) /\ (c + 1) + i \in 1 .. l /\ c + 1 < (c + 1) + i
        BY <1>4, <1>13, <2>1, <3>2, SMTT(40)
      <4>2. v < n[p].keys[(c + 1) + i]
        BY <1>4, <1>16, <4>1
      <4>3. v <= n[p].keys[(c + 1) + i]
        BY <1>3, <1>16, <4>1, <4>2
      <4> QED
        BY <1>8, <1>13, <1>16, <3>2, <4>1, <4>3
    <3>3. CASE y \in DOMAIN n /\ y # p
      BY <1>1, <1>5, <1>8, <2>1, <3>3 DEF Spans
    <3> QED
      BY <1>14, <3>1, <3>2, <3>3
  <2>2. ASSUME NEW y \in DOMAIN n2, NEW i \in DOMAIN n2[y].kids
        PROVE  Sent(o, s2, n2[y].kids[i]) = View(n2, s2, y, i)
    <3>1. CASE y = p
      <4>1. i \in DOMAIN n[p].kids /\ n2[p].kids[i] = n[p].kids[i] /\ i \in 1 .. c + 1
        BY <1>6, <1>13, <2>2, <3>1
      <4>2. View(n2, s2, p, i) = View(n, s, p, i)
        BY <1>11, <4>1
      <4>3. n[p].kids[i] \in DOMAIN n /\ s[n[p].kids[i]] = View(n, s, p, i)
        BY <1>2, <1>12, <4>1
      <4> QED
        BY <1>8, <3>1, <4>1, <4>2, <4>3
    <3>2. CASE y = a
      <4>1. /\ (c + 1) + i \in DOMAIN n[p].kids /\ n2[a].kids[i] = n[p].kids[(c + 1) + i]
            /\ i \in 1 .. l - c
        BY <1>6, <1>13, <2>2, <3>2
      <4>2. View(n2, s2, a, i) = View(n, s, p, (c + 1) + i)
        BY <1>11, <4>1
      <4>3. /\ n[p].kids[(c + 1) + i] \in DOMAIN n
            /\ s[n[p].kids[(c + 1) + i]] = View(n, s, p, (c + 1) + i)
        BY <1>2, <1>12, <4>1
      <4> QED
        BY <1>8, <3>2, <4>1, <4>2, <4>3
    <3>3. CASE y \in DOMAIN n /\ y # p
      <4>1. n2[y].kids = n[y].kids /\ n2[y].keys = n[y].keys /\ s2[y] = s[y]
        BY <1>5, <1>8, <3>3
      <4>2. n[y].kids[i] \in DOMAIN n /\ s[n[y].kids[i]] = View(n, s, y, i)
        BY <1>12, <2>2, <3>3, <4>1
      <4>3. View(n2, s2, y, i) = View(n, s, y, i)
        BY <4>1 DEF View
      <4> QED
        BY <1>8, <4>1, <4>2, <4>3
    <3> QED
      BY <1>14, <3>1, <3>2, <3>3
  <2> QED
    BY <1>5, <1>8, <2>1, <2>2 DEF Spans
<1>20. Live(n2, r, o, L2)
  <2>1. L2 \subseteq DOMAIN n2
    BY <1>2, <1>5
  <2>2. \A y \in L : \A j \in DOMAIN n[y].kids : n[y].kids[j] \in L
    BY <1>1 DEF Live
  <2>3. ASSUME NEW y \in L2, NEW i \in DOMAIN n2[y].kids
        PROVE  n2[y].kids[i] \in L2
    <3>1. CASE y = p
      BY <1>6, <2>2, <2>3, <3>1
    <3>2. CASE y = a
      BY <1>6, <2>2, <2>3, <3>2
    <3>3. CASE y # p /\ y # a
      BY <1>2, <1>5, <2>2, <2>3, <3>3
    <3> QED
      BY <3>1, <3>2, <3>3
  <2>4. ASSUME NEW y \in L2, y # r, y # a
        PROVE  n2[y].parent \in L2 /\ \E i \in DOMAIN n2[n2[y].parent].kids : n2[n2[y].parent].kids[i] = y
    <3>1. y \in L /\ y \in DOMAIN n
      BY <1>2, <2>4
    <3> DEFINE q == n[y].parent
    <3>2. q \in L /\ \E i \in DOMAIN n[q].kids : n[q].kids[i] = y
      BY <1>1, <2>4, <3>1, IdleIsQuiet DEF Live
    <3>3. CASE q # p
      <4>1. \A j \in DOMAIN n2[a].kids : n2[a].kids[j] # y
        BY <1>2, <1>6, <1>12, <3>3
      <4>2. n2[y].parent = q
        BY <1>5, <3>1, <4>1
      <4> QED
        BY <1>2, <1>5, <3>2, <3>3, <4>2
    <3>4. CASE q = p
      <4>1. PICK x \in {p, a} : \E k \in DOMAIN n2[x].kids : n2[x].kids[k] = y
        BY <1>6, <3>2, <3>4
      <4>2. x \in L2 /\ x \in DOMAIN n2
        BY <1>2, <1>5
      <4>3. n2[y].parent = x
        BY <1>6, <4>1, <4>2 DEF Parents
      <4> QED
        BY <4>1, <4>2, <4>3
    <3> QED
      BY <3>3, <3>4
  <2> QED
    BY <1>3, <2>1, <2>3, <2>4 DEF Live
<1>21. Rooted(n2, r, o, L2, s2)
  <2>1. \A j \in DOMAIN n2[a].kids : n2[a].kids[j] # r
    <3>1. p # Nil
      BY <1>1, <1>2, TreeAssumption DEF Heap
    <3> QED
      BY <1>2, <1>6, <1>12, <3>1
  <2>2. n2[r].parent = Nil /\ Sent(o, s2, r) = Int
    BY <1>2, <1>5, <1>8, <2>1
  <2> QED
    BY <1>2, <2>2 DEF Rooted
<1>22. Calling(n2, r, o, L2, h2, s2)
  <2>1. ASSUME NEW y \in DOMAIN n2, NEW i \in DOMAIN n2[y].kids
        PROVE  n2[y].kids[i] # a
    <3>1. CASE y = p \/ y = a
      BY <1>2, <1>6, <1>12, <2>1, <3>1
    <3>2. CASE y \in DOMAIN n /\ y # p
      BY <1>2, <1>5, <1>12, <2>1, <3>2
    <3> QED
      BY <1>14, <3>1, <3>2
  <2>2. v \in s[p] /\ v <= v
    BY <1>3, <1>4, <1>16
  <2>3. v \in s2[a]
    BY <1>8, <2>2
  <2>4. (\A u \in s2[p] : u < v) /\ (\A u \in s2[a] : v <= u)
    BY <1>8
  <2>5. h2[a] = h2[p]
    BY <1>2, <1>9
  <2> HIDE DEF v
  <2> QED
    BY <1>2, <1>3, <2>1, <2>3, <2>4, <2>5 DEF Calling
<1>23. Room(n2, r, o, h2)
  <2>1. h2[r] = h[r] /\ h2[p] = h[p] /\ h[r] \in Int /\ h[p] \in Int
    BY <1>1, <1>2, <1>9 DEF Levels
  <2>2. Cardinality(DOMAIN n2) = Cardinality(DOMAIN n) + 1 /\ Cardinality(DOMAIN n) \in Nat
        /\ Cardinality(Addr) \in Nat
    <3>1. IsFiniteSet(DOMAIN n) /\ IsFiniteSet(Addr)
      BY <1>1, FS_Subset, TreeAssumption DEF Heap
    <3> QED
      BY <1>5, <3>1, FS_AddElement, FS_CardinalityType
  <2>3. Cardinality(DOMAIN n2) + (h2[r] - h2[p]) + 1 <= Cardinality(Addr)
    BY <2>1, <2>2
  <2> QED
    BY <1>3, <2>3 DEF Room
<1>24. /\ \A y \in L2 : n2[y].leaf => y \in L
       /\ L \subseteq L2
  BY <1>5
<1>25. Content(n2, o, L2, m)
  <2>1. \A y \in DOMAIN n : n[y].leaf => n2[y].keys = n[y].keys /\ n2[y].rows = n[y].rows
    BY <1>5
  <2>2. \A y \in DOMAIN n : n2[y].leaf = n[y].leaf
    BY <1>5
  <2> HIDE DEF L2
  <2>3. Holds(n2, L2, Added(m, o.key, o.row))
    BY <1>2, <1>24, <2>1, <2>2, HoldsSame
  <2> QED
    BY <1>3, <2>3 DEF Content
<1>26. Whole(n2, r, L2, s2, f)
  <2>1. ASSUME ~f
        PROVE  L2 = DOMAIN n2 /\ Chained(n2, r, L2, s2)
    <3>1. L = DOMAIN n /\ Chained(n, r, L, s)
      BY <1>1, <2>1 DEF Whole
    <3>2. /\ \A y \in DOMAIN n : n2[y].leaf = n[y].leaf /\ n2[y].next = n[y].next
          /\ \A y \in L : n[y].leaf => s2[y] = s[y]
      BY <1>2, <1>5, <1>8
    <3>3. L2 = DOMAIN n2
      BY <1>5, <3>1
    <3> HIDE DEF L2
    <3>4. Chained(n2, r, L2, s2)
      BY <1>2, <1>24, <3>1, <3>2, ChainedSame
    <3> QED
      BY <3>3, <3>4
  <2> QED
    BY <2>1 DEF Whole
<1>27. Sound(n2, r, o, m, f, L2, h2, b, s2)
  BY <1>6, <1>15, <1>17, <1>18, <1>19, <1>20, <1>21, <1>22, <1>23, <1>25, <1>26 DEF Sound, Shape
<1> QED
  BY <1>27

\* No node that is live is above the root.
LEMMA LevelOfRoot ==
  ASSUME NEW n, NEW r, NEW o, NEW m, NEW f, NEW L, NEW h, NEW b \in Nat, NEW s,
         Sound(n, r, o, m, f, L, h, b, s), IsRising(o)
  PROVE  h[o.at] \in Nat /\ h[r] \in Nat /\ h[o.at] <= h[r]
<1> DEFINE S == {x \in L : h[x] <= h[r] \/ h[x] < h[o.right] \/ x = o.right}
<1>1. /\ r \in L /\ o.at \in L /\ o.right \in L /\ o.right # o.at /\ h[o.right] = h[o.at]
      /\ L \subseteq DOMAIN n
  <2>1. IsUp(n, r, o, L, h, s)
    BY OnTheWayUp
  <2> QED
    BY <2>1 DEF IsUp
<1>2. Parents(n) /\ Levels(n, h, b) /\ Live(n, r, o, L)
  BY DEF Sound, Shape
<1>3. \A x \in L : h[x] \in Nat
  BY <1>1, <1>2 DEF Levels
<1>4. r \in S /\ o.right \in S
  BY <1>1, <1>3
<1>5. ASSUME NEW x \in L, n[x].parent \in S, n[x].parent \in L
      PROVE  x \in S
  <2>1. CASE x = r \/ x = o.right
    BY <1>4, <2>1
  <2>2. CASE x # r /\ x # o.right
    <3>1. h[x] + 1 = h[n[x].parent]
      BY <1>1, <1>2, <2>2 DEF Live, Levels
    <3> QED
      BY <1>1, <1>3, <1>5, <3>1
  <2> QED
    BY <2>1, <2>2
<1>6. L \subseteq S
  <2> HIDE DEF S
  <2> QED
    BY <1>2, <1>4, <1>5, Upward
<1> QED
  BY <1>1, <1>3, <1>6

\* The nodes that have a as a child get a as their parent, and nothing else changes.
LEMMA Adopted ==
  ASSUME NEW n, n \in [DOMAIN n -> NodeSet], NEW a \in Ptr
  PROVE  /\ DOMAIN Adopt(n, a) = DOMAIN n /\ Adopt(n, a) \in [DOMAIN n -> NodeSet]
         /\ \A y \in DOMAIN n :
              /\ Adopt(n, a)[y].leaf = n[y].leaf /\ Adopt(n, a)[y].keys = n[y].keys
              /\ Adopt(n, a)[y].rows = n[y].rows /\ Adopt(n, a)[y].kids = n[y].kids
              /\ Adopt(n, a)[y].next = n[y].next
              /\ Adopt(n, a)[y].parent = IF y \in Range(n[a].kids) THEN a ELSE n[y].parent
<1> DEFINE g == Adopt(n, a)
           R == Range(n[a].kids)
<1>1. g = [b \in DOMAIN n |-> IF b \in R THEN [n[b] EXCEPT !.parent = a] ELSE n[b]]
  BY DEF Adopt
<1> HIDE DEF g, R
<1>2. DOMAIN g = DOMAIN n
  BY <1>1
<1>3. ASSUME NEW y \in DOMAIN n
      PROVE  /\ g[y] \in NodeSet
             /\ g[y].leaf = n[y].leaf /\ g[y].keys = n[y].keys /\ g[y].rows = n[y].rows
             /\ g[y].kids = n[y].kids /\ g[y].next = n[y].next
             /\ g[y].parent = IF y \in R THEN a ELSE n[y].parent
  <2>1. n[y] \in NodeSet
    OBVIOUS
  <2> DEFINE z == [n[y] EXCEPT !.parent = a]
  <2>2. /\ z \in NodeSet /\ z.leaf = n[y].leaf /\ z.keys = n[y].keys /\ z.rows = n[y].rows
        /\ z.kids = n[y].kids /\ z.next = n[y].next /\ z.parent = a
    BY <2>1 DEF NodeSet
  <2>3. g[y] = IF y \in R THEN z ELSE n[y]
    BY <1>1
  <2> HIDE DEF z
  <2> QED
    BY <2>1, <2>2, <2>3
<1>4. g \in [DOMAIN n -> NodeSet]
  <2>1. \A y \in DOMAIN n : g[y] \in NodeSet
    BY <1>3
  <2>2. g = [b \in DOMAIN g |-> g[b]]
    BY <1>1
  <2> QED
    BY <1>2, <2>1, <2>2
<1> QED
  BY <1>2, <1>3, <1>4 DEF g, R

\* Where the middle key is.
Mid == (MaxKeys + 1) \div 2

LEMMA MidIs == /\ Mid \in Nat /\ MaxKeys \in Nat /\ Mid \in 1 .. (MaxKeys + 1) - 1
               /\ Mid >= Least(FALSE) /\ (MaxKeys + 1) - (Mid + 1) >= Least(FALSE)
               /\ Mid <= MaxKeys /\ (MaxKeys + 1) - (Mid + 1) <= MaxKeys /\ Mid + 1 \in 0 .. MaxKeys + 1
               /\ Mid \in 0 .. MaxKeys + 1
               /\ Mid + 1 \in 0 .. MaxKeys + 2 /\ (MaxKeys + 2) - (Mid + 1) = (MaxKeys + 1) - Mid
BY TreeAssumption DEF Mid, Least

\* What an insertion writes that splits an internal node.
LEMMA NodeSplitWritten ==
  ASSUME NEW L, NEW h, NEW b, NEW s, IsSound(L, h, b, s), internal_split_insert,
         Fresh \in Addr, Fresh \notin DOMAIN node
  PROVE  /\ Heap(node') /\ Fits(node') /\ NodeCut(Joined, node', Parent, Fresh, Mid)
         /\ op' = [op EXCEPT !.at = Parent, !.sep = Joined[Parent].keys[Mid + 1], !.right = Fresh]
         /\ Len(Joined[Parent].keys) = MaxKeys + 1
<1> DEFINE p  == Parent
           a  == Fresh
           i  == KidNo(node[p], op.at)
           ks == InsertAt(node[p].keys, i, op.sep)
           ch == InsertAt(node[p].kids, i + 1, op.right)
           l  == MaxKeys + 1
           c  == Mid
           kp == SubSeq(ks, 1, c)
           cp == SubSeq(ch, 1, c + 1)
           ka == SubSeq(ks, c + 2, l)
           ca == SubSeq(ch, c + 2, l + 1)
           z  == [node[p] EXCEPT !.keys = kp, !.kids = cp]
           w  == [NewInternal EXCEPT !.keys = ka, !.kids = ca]
           n0 == Alloc([node EXCEPT ![p].keys = kp, ![p].kids = cp], a, w)
           n1 == Adopt(n0, p)
<1>1. Rising /\ p # Nil /\ Len(node[p].keys) = MaxKeys
  BY DEF internal_split_insert
<1>2. node' = Adopt(n1, a) /\ op' = [op EXCEPT !.at = p, !.sep = ks[c + 1], !.right = a]
  BY DEF internal_split_insert, Mid
<1>3. /\ p \in L /\ p \in DOMAIN node /\ ~node[p].leaf /\ i \in DOMAIN node[p].kids /\ p # op.right
  BY <1>1, RisingParent
<1>4. /\ Heap(Joined) /\ KidAdded(node, Joined, p, i, op.sep, op.right)
      /\ Joined[p].keys = ks /\ Joined[p].kids = ch /\ Len(Joined[p].keys) = Len(node[p].keys) + 1
      /\ Joined[p].parent = node[p].parent
  BY <1>1, JoinedWritten
<1>5. Sound(Joined, root, Idle, was, failed, L, h, b, s)
  BY <1>1, JoinedIsSound
<1> HIDE DEF i, ks, ch
<1>6. Parents(Joined) /\ Heap(node)
  BY <1>5 DEF Sound, Shape, IsSound
<1>7. /\ DOMAIN Joined = DOMAIN node /\ ~Joined[p].leaf
      /\ \A y \in DOMAIN node : y # p => Joined[y].keys = node[y].keys /\ Joined[y].kids = node[y].kids
      /\ \A y \in DOMAIN node : Joined[y].leaf = node[y].leaf /\ Joined[y].rows = node[y].rows
                                /\ Joined[y].next = node[y].next
      /\ \A y \in DOMAIN node : y # op.right => Joined[y].parent = node[y].parent
      /\ op.right \in Range(ch)
  <2>1. /\ DOMAIN Joined = DOMAIN node /\ ~Joined[p].leaf
        /\ \A y \in DOMAIN node : y # p => Joined[y].keys = node[y].keys /\ Joined[y].kids = node[y].kids
        /\ \A y \in DOMAIN node : Joined[y].leaf = node[y].leaf /\ Joined[y].rows = node[y].rows
                                  /\ Joined[y].next = node[y].next
        /\ \A y \in DOMAIN node : y # op.right => Joined[y].parent = node[y].parent
    BY <1>3, <1>4 DEF KidAdded
  <2>2. i + 1 \in DOMAIN Joined[p].kids /\ Joined[p].kids[i + 1] = op.right
    BY <1>3, <1>4, <1>6, <2>1, KidPlaces
  <2> QED
    BY <1>4, <2>1, <2>2 DEF Range
<1>8. /\ ks \in Seq(Keys) /\ ch \in Seq(Addr) /\ Len(ks) = l /\ Len(ch) = l + 1
      /\ DOMAIN ch = 1 .. l + 1 /\ l \in Nat
  <2>1. ks \in Seq(Keys) /\ ch \in Seq(Addr) /\ Len(ks) = l /\ DOMAIN ch = 1 .. l + 1
    BY <1>1, <1>3, <1>4, <1>7, Indices
  <2>2. Len(ch) = l + 1
    BY <1>3, <1>4, <1>7, <2>1 DEF Heap
  <2> QED
    BY <2>1, <2>2, TreeAssumption
<1>9. /\ c \in Nat /\ c \in 1 .. l - 1 /\ c \in 0 .. l /\ c + 1 \in 0 .. l /\ c + 1 \in 0 .. l + 1
      /\ (c + 1) + 1 = c + 2 /\ (l + 1) - (c + 1) = l - c
      /\ c <= MaxKeys /\ l - (c + 1) <= MaxKeys /\ MaxKeys \in Nat
  BY MidIs
<1>10. /\ kp \in Seq(Keys) /\ IsPart(kp, ks, 0, c) /\ cp \in Seq(Addr) /\ IsPart(cp, ch, 0, c + 1)
       /\ ka \in Seq(Keys) /\ IsPart(ka, ks, c + 1, l - (c + 1))
       /\ ca \in Seq(Addr) /\ IsPart(ca, ch, c + 1, l - c)
  <2> HIDE DEF l, c
  <2>1. c \in 0 .. Len(ks) /\ c + 1 \in 0 .. Len(ks) /\ c + 1 \in 0 .. Len(ch)
    BY <1>8, <1>9
  <2>2. kp \in Seq(Keys) /\ IsPart(kp, ks, 0, c)
    BY <1>8, <2>1, Parts
  <2>3. SubSeq(ks, (c + 1) + 1, Len(ks)) \in Seq(Keys)
        /\ IsPart(SubSeq(ks, (c + 1) + 1, Len(ks)), ks, c + 1, Len(ks) - (c + 1))
    BY <1>8, <2>1, Parts
  <2>4. cp \in Seq(Addr) /\ IsPart(cp, ch, 0, c + 1)
    BY <1>8, <2>1, Parts
  <2>5. SubSeq(ch, (c + 1) + 1, Len(ch)) \in Seq(Addr)
        /\ IsPart(SubSeq(ch, (c + 1) + 1, Len(ch)), ch, c + 1, Len(ch) - (c + 1))
    BY <1>8, <2>1, Parts
  <2>6. ka \in Seq(Keys) /\ IsPart(ka, ks, c + 1, l - (c + 1))
    BY <1>8, <1>9, <2>3
  <2>7. ca \in Seq(Addr) /\ IsPart(ca, ch, c + 1, l - c)
    BY <1>8, <1>9, <2>5
  <2> QED
    BY <2>2, <2>4, <2>6, <2>7
<1> HIDE DEF kp, cp, ka, ca, l, c
<1>11. Len(kp) = c /\ Len(cp) = c + 1 /\ Len(ka) = l - (c + 1) /\ Len(ca) = l - c
       /\ (l - (c + 1)) + 1 = l - c
  <2>1. Len(kp) = c /\ Len(cp) = c + 1 /\ Len(ka) = l - (c + 1) /\ Len(ca) = l - c
    BY <1>10 DEF IsPart
  <2> QED
    BY <1>8, <1>9, <2>1
<1>12. node[p] \in NodeSet /\ node[p].rows = <<>>
  BY <1>3, <1>6, Indices DEF Heap
<1>13. /\ z \in NodeSet /\ z.keys = kp /\ z.kids = cp /\ z.leaf = node[p].leaf
       /\ z.rows = node[p].rows /\ z.parent = node[p].parent /\ z.next = node[p].next
  BY <1>10, <1>12 DEF NodeSet
<1>14. /\ w \in NodeSet /\ w.keys = ka /\ w.kids = ca /\ w.leaf = FALSE
       /\ w.rows = <<>> /\ w.parent = Nil
  BY <1>10, NewNode DEF NewInternal, NodeSet
<1>15. [node EXCEPT ![p].keys = kp, ![p].kids = cp] = [node EXCEPT ![p] = z]
  BY <1>3, <1>12 DEF NodeSet
<1> HIDE DEF z, w, a, p
<1>16. n0 = [y \in DOMAIN node \cup {a} |-> IF y = a THEN w ELSE IF y = p THEN z ELSE node[y]]
  BY <1>3, <1>15 DEF Alloc
<1> HIDE DEF n0
<1>17. a \in Addr /\ a \in Ptr /\ a \notin DOMAIN node /\ p \in Ptr /\ a # p
  BY <1>3, <1>6 DEF a, Ptr, Heap
<1>18. /\ DOMAIN n0 = DOMAIN node \cup {a} /\ n0[a] = w /\ n0[p] = z
       /\ \A y \in DOMAIN node : y # p => n0[y] = node[y]
       /\ n0 \in [DOMAIN n0 -> NodeSet]
  <2>1. /\ DOMAIN n0 = DOMAIN node \cup {a} /\ n0[a] = w /\ n0[p] = z
        /\ \A y \in DOMAIN node : y # p => n0[y] = node[y]
    BY <1>3, <1>16, <1>17
  <2>2. n0 \in [DOMAIN node \cup {a} -> NodeSet]
    BY <1>6, <1>13, <1>14, <1>16 DEF Heap
  <2> QED
    BY <2>1, <2>2
<1>19. /\ DOMAIN n1 = DOMAIN n0 /\ n1 \in [DOMAIN n0 -> NodeSet]
       /\ \A y \in DOMAIN n0 :
            /\ n1[y].leaf = n0[y].leaf /\ n1[y].keys = n0[y].keys /\ n1[y].rows = n0[y].rows
            /\ n1[y].kids = n0[y].kids /\ n1[y].next = n0[y].next
            /\ n1[y].parent = IF y \in Range(cp) THEN p ELSE n0[y].parent
  <2>1. n0[p].kids = cp
    BY <1>13, <1>18
  <2> QED
    BY <1>17, <1>18, <2>1, Adopted
<1> HIDE DEF n1
<1>20. /\ DOMAIN node' = DOMAIN n0 /\ node' \in [DOMAIN n0 -> NodeSet]
       /\ \A y \in DOMAIN n0 :
            /\ node'[y].leaf = n0[y].leaf /\ node'[y].keys = n0[y].keys /\ node'[y].rows = n0[y].rows
            /\ node'[y].kids = n0[y].kids /\ node'[y].next = n0[y].next
            /\ node'[y].parent = IF y \in Range(ca) THEN a
                                 ELSE IF y \in Range(cp) THEN p ELSE n0[y].parent
  <2>1. n1[a].kids = ca /\ n1 \in [DOMAIN n1 -> NodeSet]
    BY <1>14, <1>18, <1>19
  <2>2. /\ DOMAIN node' = DOMAIN n1 /\ node' \in [DOMAIN n1 -> NodeSet]
        /\ \A y \in DOMAIN n1 :
            /\ node'[y].leaf = n1[y].leaf /\ node'[y].keys = n1[y].keys /\ node'[y].rows = n1[y].rows
            /\ node'[y].kids = n1[y].kids /\ node'[y].next = n1[y].next
            /\ node'[y].parent = IF y \in Range(n1[a].kids) THEN a ELSE n1[y].parent
    BY <1>2, <1>17, <2>1, Adopted
  <2> QED
    BY <1>19, <2>1, <2>2
<1>21. DOMAIN node' = DOMAIN node \cup {a}
  BY <1>18, <1>20
<1>22. Heap(node')
  <2>1. ASSUME NEW y \in DOMAIN node'
        PROVE  /\ node'[y].leaf => Len(node'[y].rows) = Len(node'[y].keys) /\ node'[y].kids = <<>>
               /\ ~node'[y].leaf => Len(node'[y].kids) = Len(node'[y].keys) + 1 /\ node'[y].rows = <<>>
    <3>1. CASE y = a
      BY <1>11, <1>14, <1>18, <1>20, <3>1
    <3>2. CASE y = p
      BY <1>3, <1>11, <1>12, <1>13, <1>18, <1>20, <3>2
    <3>3. CASE y \in DOMAIN node /\ y # p
      <4>1. n0[y] = node[y] /\ y \in DOMAIN n0
        BY <1>18, <3>3
      <4>2. /\ node'[y].leaf = node[y].leaf /\ node'[y].keys = node[y].keys
            /\ node'[y].rows = node[y].rows /\ node'[y].kids = node[y].kids
        BY <1>20, <4>1
      <4> QED
        BY <1>6, <3>3, <4>2 DEF Heap
    <3> QED
      BY <1>21, <3>1, <3>2, <3>3
  <2>2. DOMAIN node' \subseteq Addr
    BY <1>6, <1>17, <1>21 DEF Heap
  <2> QED
    BY <1>20, <2>1, <2>2 DEF Heap
<1>23. Fits(node')
  <2>1. Len(node'[a].keys) <= MaxKeys /\ Len(node'[p].keys) <= MaxKeys
    BY <1>3, <1>9, <1>11, <1>13, <1>14, <1>18, <1>20
  <2>2. \A y \in DOMAIN node : y # p => node'[y].keys = node[y].keys
    BY <1>18, <1>20
  <2> QED
    BY <1>21, <2>1, <2>2 DEF IsSound, Fits
<1>24. /\ node'[p].keys = kp /\ node'[p].kids = cp /\ node'[a].keys = ka /\ node'[a].kids = ca
       /\ node'[a].leaf = FALSE
  BY <1>3, <1>13, <1>14, <1>18, <1>20
<1>25. ASSUME NEW j \in DOMAIN ch
       PROVE  ch[j] \in Range(cp) \cup Range(ca)
  <2>1. DOMAIN cp = 1 .. c + 1 /\ DOMAIN ca = 1 .. l - c
    BY <1>10, <1>11
  <2>2. CASE j <= c + 1
    <3>1. j \in 1 .. c + 1 /\ 0 + j = j
      BY <1>8, <1>9, <2>2
    <3>2. cp[j] = ch[j]
      BY <1>10, <3>1 DEF IsPart
    <3> QED
      BY <2>1, <3>1, <3>2 DEF Range
  <2>3. CASE ~(j <= c + 1)
    <3>1. j - (c + 1) \in 1 .. l - c /\ (c + 1) + (j - (c + 1)) = j
      BY <1>8, <1>9, <2>3
    <3>2. ca[j - (c + 1)] = ch[j]
      BY <1>10, <3>1 DEF IsPart
    <3> QED
      BY <2>1, <3>1, <3>2 DEF Range
  <2> QED
    BY <2>2, <2>3
<1>26. Range(cp) \subseteq Range(ch) /\ Range(ca) \subseteq Range(ch)
  <2>1. DOMAIN cp = 1 .. c + 1 /\ DOMAIN ca = 1 .. l - c
    BY <1>10, <1>11
  <2>2. ASSUME NEW j \in 1 .. c + 1
        PROVE  j \in DOMAIN ch /\ cp[j] = ch[j]
    <3>1. j \in 1 .. l + 1 /\ 0 + j = j
      BY <1>8, <1>9
    <3> QED
      BY <1>8, <1>10, <3>1 DEF IsPart
  <2>3. ASSUME NEW j \in 1 .. l - c
        PROVE  (c + 1) + j \in DOMAIN ch /\ ca[j] = ch[(c + 1) + j]
    <3>1. (c + 1) + j \in 1 .. l + 1
      BY <1>8, <1>9
    <3> QED
      BY <1>8, <1>10, <3>1 DEF IsPart
  <2> QED
    BY <2>1, <2>2, <2>3 DEF Range
<1>27. \A y \in Range(ch) : y \in DOMAIN node /\ Joined[y].parent = p
  <2>1. \A j \in DOMAIN Joined[p].kids : Joined[p].kids[j] \in DOMAIN Joined /\ Joined[Joined[p].kids[j]].parent = p
    BY <1>3, <1>6, <1>7 DEF Parents
  <2>2. Joined[p].kids = ch /\ DOMAIN Joined = DOMAIN node
    BY <1>4, <1>7 DEF p
  <2> QED
    BY <2>1, <2>2 DEF Range
<1>28. op.right \in Range(cp) \cup Range(ca)
  BY <1>7, <1>25 DEF Range
<1>29. ASSUME NEW y \in DOMAIN node
       PROVE  node'[y].parent = IF \E j \in DOMAIN node'[a].kids : node'[a].kids[j] = y
                                THEN a ELSE Joined[y].parent
  <2>1. y \in Range(ca) <=> \E j \in DOMAIN node'[a].kids : node'[a].kids[j] = y
    BY <1>24 DEF Range
  <2>2. node'[y].parent = IF y \in Range(ca) THEN a ELSE IF y \in Range(cp) THEN p ELSE n0[y].parent
    BY <1>18, <1>20
  <2>3. CASE y \in Range(ca)
    BY <2>1, <2>2, <2>3
  <2>4. CASE y \notin Range(ca) /\ y \in Range(cp)
    BY <1>26, <1>27, <2>1, <2>2, <2>4
  <2>5. CASE y \notin Range(ca) /\ y \notin Range(cp)
    <3>1. y # op.right
      BY <1>28, <2>5
    <3>2. Joined[y].parent = node[y].parent
      BY <1>7, <3>1
    <3>3. n0[y].parent = node[y].parent
      BY <1>13, <1>18
    <3> QED
      BY <2>1, <2>2, <2>5, <3>2, <3>3
  <2> QED
    BY <2>3, <2>4, <2>5
<1>30. node'[a].parent = Nil
  <2>1. a \notin Range(ca) /\ a \notin Range(cp)
    BY <1>17, <1>26, <1>27
  <2> QED
    BY <1>14, <1>18, <1>20, <2>1
<1>31. NodeCut(Joined, node', p, a, c)
  <2>1. \A y \in DOMAIN node : y # p => node'[y].keys = Joined[y].keys /\ node'[y].kids = Joined[y].kids
    BY <1>7, <1>18, <1>20 DEF p
  <2>2. \A y \in DOMAIN node : node'[y].leaf = Joined[y].leaf /\ node'[y].rows = Joined[y].rows
                               /\ node'[y].next = Joined[y].next
    BY <1>7, <1>13, <1>18, <1>20
  <2>3. Joined[p].keys = ks /\ Joined[p].kids = ch /\ Len(Joined[p].keys) = l /\ DOMAIN Joined = DOMAIN node
    BY <1>4, <1>7, <1>8 DEF p
  <2> QED
    BY <1>10, <1>21, <1>24, <1>29, <1>30, <2>1, <2>2, <2>3 DEF NodeCut
<1>32. Joined[p].keys = ks /\ Len(Joined[p].keys) = l
  BY <1>4, <1>8 DEF p
<1> QED
  BY <1>2, <1>22, <1>23, <1>31, <1>32 DEF p, a, c, l

LEMMA InternalSplitStep ==
  ASSUME NEW L, NEW h, NEW b, NEW s, IsSound(L, h, b, s), internal_split_insert
  PROVE  TreeInv'
<1> DEFINE p == Parent
           a == Fresh
           v == Joined[p].keys[Mid + 1]
<1>1. Rising /\ p # Nil /\ root' = root /\ was' = was /\ failed' = failed
  BY DEF internal_split_insert
<1>2. /\ p \in L /\ p \in DOMAIN node /\ ~node[p].leaf /\ h[op.at] + 1 = h[p]
  BY <1>1, RisingParent
<1>3. Sound(node, root, op, was, failed, L, h, b, s) /\ b \in Nat /\ IsRising(op)
  BY <1>1 DEF IsSound, Rising, IsRising
<1>4. Heap(node) /\ IsFiniteSet(DOMAIN node) /\ Cardinality(DOMAIN node) \in Nat /\ Cardinality(Addr) \in Nat
  <2>1. Heap(node)
    BY <1>3 DEF Sound, Shape
  <2>2. IsFiniteSet(DOMAIN node) /\ IsFiniteSet(Addr)
    BY <2>1, FS_Subset, TreeAssumption DEF Heap
  <2> QED
    BY <2>1, <2>2, FS_CardinalityType
<1>5. h[op.at] \in Nat /\ h[root] \in Nat /\ h[op.at] <= h[root]
  BY <1>3, LevelOfRoot
<1>6. Cardinality(DOMAIN node) + (h[root] - h[op.at]) + 1 <= Cardinality(Addr)
  BY <1>3 DEF Sound, Shape, Room
<1>7. a \in Addr /\ a \notin DOMAIN node
  <2>1. Cardinality(DOMAIN node) + 1 <= Cardinality(Addr)
    BY <1>4, <1>5, <1>6
  <2> QED
    BY <1>4, <2>1, FreshIsFree
<1>8. /\ Heap(node') /\ Fits(node') /\ NodeCut(Joined, node', p, a, Mid)
      /\ op' = [op EXCEPT !.at = p, !.sep = v, !.right = a]
      /\ Len(Joined[p].keys) = MaxKeys + 1
  BY <1>7, NodeSplitWritten
<1>9. /\ Sound(Joined, root, Idle, was, failed, L, h, b, s)
      /\ Holds(Joined, L, Added(was, op.key, op.row))
  BY <1>1, JoinedIsSound
<1>10. DOMAIN Joined = DOMAIN node /\ ~Joined[p].leaf /\ Heap(Joined)
  BY <1>1, <1>2, JoinedWritten DEF KidAdded
<1>11. v \in Keys
  <2>1. Joined[p].keys \in Seq(Keys)
    BY <1>2, <1>10, Indices
  <2>2. Mid + 1 \in 1 .. Len(Joined[p].keys)
    BY <1>8, MidIs
  <2> QED
    BY <2>1, <2>2
<1>12. op \in Calls /\ op.kind # "search" /\ root # Nil /\ op.key \notin DOMAIN was /\ p \in Addr /\ a \in Ptr
  <2>1. IsUp(node, root, op, L, h, s)
    BY <1>3, OnTheWayUp
  <2>2. op.key \notin DOMAIN was
    BY <1>3, <2>1 DEF Sound, Content, IsUp
  <2> QED
    BY <1>2, <1>4, <1>7, <2>1, <2>2 DEF IsUp, Heap, Ptr
<1> HIDE DEF v, a, p
<1>13. /\ op'.at = p /\ op'.sep = v /\ op'.right = a /\ op'.pc = op.pc /\ op'.kind = op.kind
       /\ op'.key = op.key /\ op'.row = op.row /\ op' \in Calls
  <2>1. v \in Int
    BY <1>11, KeysAreInts
  <2> QED
    BY <1>8, <1>12, <2>1 DEF Calls
<1>14. Risen(op', p, a, v, was)
  BY <1>3, <1>11, <1>12, <1>13 DEF Risen, IsRising
<1>15. Cardinality(DOMAIN Joined) + (h[root] - h[p]) + 2 <= Cardinality(Addr)
  <2>1. h[op.at] + 1 = h[p]
    BY <1>2 DEF p
  <2> QED
    BY <1>4, <1>5, <1>6, <1>10, <2>1
<1>16. \E L2, h2, s2 : Sound(node', root, op', was, failed, L2, h2, b, s2)
  <2>1. /\ Mid \in 1 .. Len(Joined[p].keys) - 1 /\ Mid >= Least(FALSE)
        /\ Len(Joined[p].keys) - (Mid + 1) >= Least(FALSE)
    BY <1>8, MidIs
  <2>2. Risen(op', p, a, Joined[p].keys[Mid + 1], was)
    BY <1>14 DEF v
  <2>3. Holds(Joined, L, Added(was, op'.key, op'.row))
    BY <1>9, <1>13
  <2>4. p \in L /\ ~Joined[p].leaf /\ a \in Addr /\ a \notin DOMAIN Joined
    BY <1>2, <1>7, <1>10 DEF p, a
  <2> QED
    BY <1>3, <1>8, <1>9, <1>12, <1>15, <2>1, <2>2, <2>3, <2>4, NodeSplit
<1>17. PICK L2, h2, s2 : Sound(node', root, op', was, failed, L2, h2, b, s2)
  BY <1>16
<1>18. IsSound(L2, h2, b, s2)'
  BY <1>1, <1>3, <1>8, <1>17 DEF IsSound
<1> QED
  BY <1>18 DEF TreeInv

-----------------------------------------------------------------------------
(* The root is split.                                                      *)

\* f is n with the node a above the root, which was split in two.
RootAdded(n, f, o, a) ==
  /\ DOMAIN f = DOMAIN n \cup {a}
  /\ \A y \in DOMAIN n : f[y].leaf = n[y].leaf /\ f[y].keys = n[y].keys /\ f[y].rows = n[y].rows
                         /\ f[y].kids = n[y].kids /\ f[y].next = n[y].next
  /\ \A y \in DOMAIN n : f[y].parent = IF y = o.at \/ y = o.right THEN a ELSE n[y].parent
  /\ f[a].leaf = FALSE /\ f[a].keys = <<o.sep>> /\ f[a].kids = <<o.at, o.right>> /\ f[a].parent = Nil

\* What is not below sep goes to the second child of the new root.
LEMMA RootViews ==
  ASSUME NEW n2, NEW s2, NEW a, NEW v \in Int, NEW A \in SUBSET Int, NEW B \in SUBSET Int,
         n2[a].keys = <<v>>, s2[a] = Int, A \cup B = Int,
         \A u \in A : u < v, \A u \in B : v <= u
  PROVE  View(n2, s2, a, 1) = A /\ View(n2, s2, a, 2) = B
<1>1. \A u : u \in View(n2, s2, a, 1) <=> u \in Int /\ u < v
  BY DEF View
<1>2. \A u : u \in View(n2, s2, a, 2) <=> u \in Int /\ v <= u
  BY DEF View
<1>3. \A u \in Int : ~(u < v /\ v <= u)
  OBVIOUS
<1>4. \A u : u \in A <=> u \in Int /\ u < v
  BY <1>3
<1>5. \A u : u \in B <=> u \in Int /\ v <= u
  BY <1>3
<1>6. \A u : u \in View(n2, s2, a, 1) <=> u \in A
  BY <1>1, <1>4
<1>7. \A u : u \in View(n2, s2, a, 2) <=> u \in B
  BY <1>2, <1>5
<1> QED
  BY <1>6, <1>7

LEMMA RootMade ==
  ASSUME NEW n, NEW r, NEW o, NEW m, NEW f, NEW L, NEW h, NEW b \in Nat, NEW s,
         Sound(n, r, o, m, f, L, h, b, s), IsRising(o), o.at = r,
         NEW a \in Addr, a \notin DOMAIN n, NEW n2, Heap(n2), RootAdded(n, n2, o, a)
  PROVE  \E L2, h2, s2 :
           /\ \A m2 : Sound(n2, a, Idle, m2, f, L2, h2, b + 1, s2)
           /\ Holds(n2, L2, Added(m, o.key, o.row))
<1> DEFINE c  == o.right
           L2 == L \cup {a}
           h2 == [y \in DOMAIN n \cup {a} |-> IF y = a THEN h[r] + 1 ELSE h[y]]
           s2 == [y \in DOMAIN n \cup {a} |-> IF y = a THEN Int ELSE s[y]]
<1>1. /\ Heap(n) /\ Parents(n) /\ Levels(n, h, b) /\ Ascending(n) /\ Filled(n, r, o)
      /\ Spans(n, o, s) /\ Live(n, r, o, L) /\ Rooted(n, r, o, L, s) /\ Whole(n, r, L, s, f)
      /\ Content(n, o, L, m)
  BY DEF Sound, Shape
<1>2. /\ o # Idle /\ r # Nil /\ r \in L /\ L \subseteq DOMAIN n /\ c \in L /\ c # r
      /\ \A x \in DOMAIN n : \A j \in DOMAIN n[x].kids : n[x].kids[j] # c
      /\ h[c] = h[r] /\ o.sep \in Int
      /\ (\A v \in s[r] : v < o.sep) /\ (\A v \in s[c] : o.sep <= v)
      /\ s[r] \in SUBSET Int /\ s[c] \in SUBSET Int
  <2>1. IsUp(n, r, o, L, h, s)
    BY OnTheWayUp
  <2> QED
    BY <2>1 DEF IsUp
<1>3. r \in DOMAIN n /\ c \in DOMAIN n /\ a # r /\ a # c /\ a \notin L /\ a # Nil
  BY <1>2, TreeAssumption
<1>4. /\ DOMAIN n2 = DOMAIN n \cup {a}
      /\ \A y \in DOMAIN n : n2[y].leaf = n[y].leaf /\ n2[y].keys = n[y].keys /\ n2[y].rows = n[y].rows
                             /\ n2[y].kids = n[y].kids /\ n2[y].next = n[y].next
      /\ \A y \in DOMAIN n : n2[y].parent = IF y = r \/ y = c THEN a ELSE n[y].parent
      /\ n2[a].leaf = FALSE /\ n2[a].keys = <<o.sep>> /\ n2[a].kids = <<r, c>> /\ n2[a].parent = Nil
  BY DEF RootAdded
<1>5. /\ DOMAIN n2[a].kids = {1, 2} /\ n2[a].kids[1] = r /\ n2[a].kids[2] = c
      /\ DOMAIN n2[a].keys = {1} /\ n2[a].keys[1] = o.sep /\ Len(n2[a].keys) = 1
  BY <1>4
<1>6. s[r] \cup s[c] = Int
  BY <1>1, <1>2 DEF Rooted, Sent
<1>7. /\ DOMAIN h2 = DOMAIN n \cup {a} /\ h2[a] = h[r] + 1 /\ \A y \in DOMAIN n : h2[y] = h[y]
      /\ DOMAIN s2 = DOMAIN n \cup {a} /\ s2[a] = Int /\ \A y \in DOMAIN n : s2[y] = s[y]
      /\ s2 \in [DOMAIN n \cup {a} -> SUBSET Int]
  BY <1>1 DEF Spans
<1>8. h2 \in [DOMAIN n \cup {a} -> 0 .. b + 1] /\ h[r] + 1 # 0
  <2>1. \A y \in DOMAIN n : h[y] \in 0 .. b
    BY <1>1 DEF Levels
  <2>2. h[r] + 1 \in 0 .. b + 1 /\ h[r] + 1 # 0 /\ \A y \in DOMAIN n : h[y] \in 0 .. b + 1
    BY <1>3, <2>1
  <2> QED
    BY <2>2
<1> HIDE DEF h2, s2, c
<1>9. View(n2, s2, a, 1) = s[r] /\ View(n2, s2, a, 2) = s[c]
  <2> DEFINE A == s[r]
             B == s[c]
             v == o.sep
  <2>1. /\ A \in SUBSET Int /\ B \in SUBSET Int /\ v \in Int /\ A \cup B = Int
        /\ (\A u \in A : u < v) /\ (\A u \in B : v <= u) /\ n2[a].keys = <<v>> /\ s2[a] = Int
    BY <1>2, <1>4, <1>6, <1>7
  <2> HIDE DEF A, B, v
  <2>2. View(n2, s2, a, 1) = A /\ View(n2, s2, a, 2) = B
    BY <2>1, RootViews
  <2> QED
    BY <2>2 DEF A, B
<1>10. \A y \in DOMAIN n : \A j \in DOMAIN n[y].kids :
         /\ n[y].kids[j] \in DOMAIN n /\ n[y].kids[j] # a /\ n[y].kids[j] # r /\ n[y].kids[j] # c
         /\ h[n[y].kids[j]] + 1 = h[y] /\ n[n[y].kids[j]].parent = y
         /\ \A k \in DOMAIN n[y].kids : n[y].kids[j] = n[y].kids[k] => j = k
         /\ s[n[y].kids[j]] = View(n, s, y, j)
  <2>1. \A y \in DOMAIN n : \A j \in DOMAIN n[y].kids :
         /\ n[y].kids[j] \in DOMAIN n /\ n[n[y].kids[j]].parent = y
         /\ \A k \in DOMAIN n[y].kids : n[y].kids[j] = n[y].kids[k] => j = k
    BY <1>1 DEF Parents
  <2>2. n[r].parent = Nil /\ \A y \in DOMAIN n : y # Nil
    BY <1>1, <1>2, TreeAssumption DEF Rooted, Heap
  <2>3. \A y \in DOMAIN n : \A j \in DOMAIN n[y].kids : n[y].kids[j] # r /\ n[y].kids[j] # a
    BY <2>1, <2>2
  <2>4. \A y \in DOMAIN n : \A j \in DOMAIN n[y].kids : s[n[y].kids[j]] = View(n, s, y, j)
    BY <1>1, <2>3 DEF Spans, Sent
  <2>5. \A y \in DOMAIN n : \A j \in DOMAIN n[y].kids : h[n[y].kids[j]] + 1 = h[y]
    BY <1>1 DEF Levels
  <2> QED
    BY <1>2, <2>1, <2>3, <2>4, <2>5
<1>11. Parents(n2)
  <2>1. ASSUME NEW y \in DOMAIN n, NEW j \in DOMAIN n2[y].kids
        PROVE  /\ n2[y].kids[j] \in DOMAIN n2 /\ n2[n2[y].kids[j]].parent = y
               /\ \A k \in DOMAIN n2[y].kids : n2[y].kids[j] = n2[y].kids[k] => j = k
    <3>1. n2[y].kids = n[y].kids
      BY <1>4
    <3>2. n[y].kids[j] \in DOMAIN n /\ n2[n[y].kids[j]].parent = y
      BY <1>4, <1>10, <2>1, <3>1
    <3> QED
      BY <1>4, <1>10, <2>1, <3>1, <3>2
  <2>2. ASSUME NEW j \in DOMAIN n2[a].kids
        PROVE  /\ n2[a].kids[j] \in DOMAIN n2 /\ n2[n2[a].kids[j]].parent = a
               /\ \A k \in DOMAIN n2[a].kids : n2[a].kids[j] = n2[a].kids[k] => j = k
    BY <1>2, <1>3, <1>4, <1>5, <2>2
  <2> QED
    BY <1>4, <2>1, <2>2 DEF Parents
<1>12. Levels(n2, h2, b + 1)
  <2>1. ASSUME NEW y \in DOMAIN n2, NEW j \in DOMAIN n2[y].kids
        PROVE  h2[n2[y].kids[j]] + 1 = h2[y]
    <3>1. CASE y = a
      BY <1>2, <1>3, <1>5, <1>7, <2>1, <3>1
    <3>2. CASE y \in DOMAIN n
      BY <1>4, <1>7, <1>10, <2>1, <3>2
    <3> QED
      BY <1>4, <3>1, <3>2
  <2>2. \A y \in DOMAIN n2 : n2[y].leaf <=> h2[y] = 0
    BY <1>1, <1>4, <1>7, <1>8 DEF Levels
  <2> QED
    BY <1>4, <1>8, <2>1, <2>2 DEF Levels
<1>13. Ascending(n2)
  <2>1. ASSUME NEW y \in DOMAIN n2
        PROVE  \A i, j \in DOMAIN n2[y].keys : i < j => n2[y].keys[i] < n2[y].keys[j]
    <3>1. CASE y = a
      BY <1>5, <3>1
    <3>2. CASE y \in DOMAIN n
      BY <1>1, <1>4, <3>2 DEF Ascending
    <3> QED
      BY <1>4, <3>1, <3>2
  <2> QED
    BY <2>1 DEF Ascending
<1>14. Filled(n2, a, Idle)
  <2>1. \A y \in DOMAIN n : Len(n[y].keys) >= Least(n[y].leaf)
    BY <1>1 DEF Filled
  <2>2. \A y \in DOMAIN n2 : y # a => Len(n2[y].keys) >= Least(n2[y].leaf)
    BY <1>4, <2>1
  <2> QED
    BY <2>2, IdleIsQuiet DEF Filled
<1>15. Spans(n2, Idle, s2)
  <2>1. ASSUME NEW y \in DOMAIN n2, NEW i \in DOMAIN n2[y].keys
        PROVE  n2[y].keys[i] \in s2[y]
    <3>1. CASE y = a
      BY <1>2, <1>5, <1>7, <2>1, <3>1
    <3>2. CASE y \in DOMAIN n
      BY <1>1, <1>4, <1>7, <2>1, <3>2 DEF Spans
    <3> QED
      BY <1>4, <3>1, <3>2
  <2>2. ASSUME NEW y \in DOMAIN n2, NEW i \in DOMAIN n2[y].kids
        PROVE  Sent(Idle, s2, n2[y].kids[i]) = View(n2, s2, y, i)
    <3>1. Sent(Idle, s2, n2[y].kids[i]) = s2[n2[y].kids[i]]
      BY IdleIsQuiet, SentQuiet
    <3>2. CASE y = a
      <4>1. i = 1 \/ i = 2
        BY <1>5, <2>2, <3>2
      <4> QED
        BY <1>3, <1>5, <1>7, <1>9, <3>1, <3>2, <4>1
    <3>3. CASE y \in DOMAIN n
      <4>1. n2[y].kids = n[y].kids /\ n2[y].keys = n[y].keys /\ s2[y] = s[y]
        BY <1>4, <1>7, <3>3
      <4>2. View(n2, s2, y, i) = View(n, s, y, i)
        BY <4>1 DEF View
      <4> QED
        BY <1>7, <1>10, <2>2, <3>1, <3>3, <4>1, <4>2
    <3> QED
      BY <1>4, <3>2, <3>3
  <2>3. ASSUME NEW x \in DOMAIN n2, NEW v \in s2[x], NEW w \in s2[x], NEW u \in Int, v <= u, u <= w
        PROVE  u \in s2[x]
    <3>1. CASE x = a
      BY <1>7, <2>3, <3>1
    <3>2. CASE x \in DOMAIN n
      BY <1>1, <1>7, <2>3, <3>2 DEF Spans
    <3> QED
      BY <1>4, <3>1, <3>2
  <2> QED
    BY <1>4, <1>7, <2>1, <2>2, <2>3 DEF Spans
<1>16. Live(n2, a, Idle, L2)
  <2>1. ASSUME NEW y \in L2, NEW i \in DOMAIN n2[y].kids
        PROVE  n2[y].kids[i] \in L2
    <3>1. CASE y = a
      BY <1>2, <1>5, <2>1, <3>1
    <3>2. CASE y \in L
      BY <1>1, <1>2, <1>4, <2>1, <3>2 DEF Live
    <3> QED
      BY <3>1, <3>2
  <2>2. ASSUME NEW y \in L, y # r, y # c
        PROVE  n2[y].parent \in L2 /\ \E i \in DOMAIN n2[n2[y].parent].kids : n2[n2[y].parent].kids[i] = y
    <3>1. n[y].parent \in L /\ \E i \in DOMAIN n[n[y].parent].kids : n[n[y].parent].kids[i] = y
      BY <1>1, <2>2 DEF Live, c
    <3> QED
      BY <1>2, <1>4, <2>2, <3>1
  <2>3. ASSUME NEW y \in {r, c}
        PROVE  n2[y].parent \in L2 /\ \E i \in DOMAIN n2[n2[y].parent].kids : n2[n2[y].parent].kids[i] = y
    BY <1>2, <1>3, <1>4, <1>5, <2>3
  <2> QED
    BY <1>2, <1>4, <2>1, <2>2, <2>3 DEF Live
<1>17. Rooted(n2, a, Idle, L2, s2)
  BY <1>3, <1>4, <1>7, IdleIsQuiet, SentQuiet DEF Rooted
<1>18. Calling(n2, a, Idle, L2, h2, s2) /\ Room(n2, a, Idle, h2) /\ \A m2 : Content(n2, Idle, L2, m2)
  BY IdleIsQuiet DEF Calling, Room, Content
<1>19. L \subseteq L2 /\ \A y \in L2 : n2[y].leaf => y \in L
  BY <1>4
<1>20. Holds(n2, L2, Added(m, o.key, o.row))
  <2>1. Holds(n, L, Added(m, o.key, o.row))
    BY <1>1, <1>2 DEF Content
  <2> HIDE DEF L2
  <2> QED
    BY <1>2, <1>4, <1>19, <2>1, HoldsSame
<1>21. Whole(n2, a, L2, s2, f)
  <2>1. ASSUME ~f
        PROVE  L2 = DOMAIN n2 /\ Chained(n2, a, L2, s2)
    <3>1. L = DOMAIN n /\ Chained(n, r, L, s)
      BY <1>1, <2>1 DEF Whole
    <3>2. L2 = DOMAIN n2 /\ \A y \in L : s2[y] = s[y]
      BY <1>4, <1>7, <3>1
    <3> HIDE DEF L2
    <3> QED
      BY <1>2, <1>4, <1>19, <3>1, <3>2, ChainedSame
  <2> QED
    BY <2>1 DEF Whole
<1>22. \A m2 : Sound(n2, a, Idle, m2, f, L2, h2, b + 1, s2)
  <2> HIDE DEF L2
  <2> QED
    BY <1>4, <1>11, <1>12, <1>13, <1>14, <1>15, <1>16, <1>17, <1>18, <1>21 DEF Sound, Shape
<1> QED
  BY <1>20, <1>22

\* What a new root writes.
LEMMA RootWritten ==
  ASSUME NEW L, NEW h, NEW b, NEW s, IsSound(L, h, b, s), NewRoot,
         Fresh \in Addr, Fresh \notin DOMAIN node
  PROVE  Heap(node') /\ Fits(node') /\ RootAdded(node, node', op, Fresh)
<1> DEFINE a == Fresh
           x == op.at
           c == op.right
           v == op.sep
           z == [node[x] EXCEPT !.parent = a]
           w == [node[c] EXCEPT !.parent = a]
           q == [NewInternal EXCEPT !.keys = <<v>>, !.kids = <<x, c>>]
           n0 == [node EXCEPT ![x].parent = a, ![c].parent = a]
<1>1. IsUp(node, root, op, L, h, s) /\ Heap(node)
  <2>1. IsRising(op)
    BY DEF NewRoot, Rising, IsRising
  <2> QED
    BY <2>1, OnTheWayUp DEF IsSound, Sound, Shape
<1>2. /\ x \in DOMAIN node /\ c \in DOMAIN node /\ x # c /\ v \in Keys /\ a \in Ptr /\ a \in Addr
      /\ a \notin DOMAIN node /\ node[x] \in NodeSet /\ node[c] \in NodeSet /\ x \in Addr /\ c \in Addr
      /\ a # x /\ a # c
  BY <1>1 DEF IsUp, Heap, Ptr
<1>3. node' = Alloc(n0, a, q)
  BY DEF NewRoot
<1> HIDE DEF a, x, c, v
<1>4. /\ z \in NodeSet /\ z.keys = node[x].keys /\ z.rows = node[x].rows /\ z.kids = node[x].kids
      /\ z.leaf = node[x].leaf /\ z.next = node[x].next /\ z.parent = a
  BY <1>2 DEF NodeSet
<1>5. /\ w \in NodeSet /\ w.keys = node[c].keys /\ w.rows = node[c].rows /\ w.kids = node[c].kids
      /\ w.leaf = node[c].leaf /\ w.next = node[c].next /\ w.parent = a
  BY <1>2 DEF NodeSet
<1>6. /\ q \in NodeSet /\ q.keys = <<v>> /\ q.kids = <<x, c>> /\ q.rows = <<>> /\ q.leaf = FALSE
      /\ q.parent = Nil
  <2>1. <<v>> \in Seq(Keys) /\ <<x, c>> \in Seq(Addr)
    BY <1>2
  <2> QED
    BY <2>1, NewNode DEF NewInternal, NodeSet
<1>7. n0 = [y \in DOMAIN node |-> IF y = x THEN z ELSE IF y = c THEN w ELSE node[y]]
  BY <1>2
<1> HIDE DEF z, w, q, n0
<1>8. node' = [y \in DOMAIN node \cup {a} |-> IF y = a THEN q ELSE IF y = x THEN z
                                             ELSE IF y = c THEN w ELSE node[y]]
  BY <1>2, <1>3, <1>7 DEF Alloc
<1>9. /\ DOMAIN node' = DOMAIN node \cup {a} /\ node'[a] = q /\ node'[x] = z /\ node'[c] = w
      /\ \A y \in DOMAIN node : y # x /\ y # c => node'[y] = node[y]
  BY <1>2, <1>8
<1>10. Len(q.keys) = 1 /\ Len(q.kids) = Len(q.keys) + 1
  <2>1. Len(<<v>>) = 1 /\ Len(<<x, c>>) = 2 /\ 2 = 1 + 1
    OBVIOUS
  <2> QED
    BY <1>6, <2>1, Zenon
<1>11. node' \in [DOMAIN node' -> NodeSet]
  <2>1. \A y \in DOMAIN node : node[y] \in NodeSet
    BY <1>1 DEF Heap
  <2> QED
    BY <1>4, <1>5, <1>6, <1>8, <1>9, <2>1
<1>12. \A y \in DOMAIN node :
         /\ node'[y].leaf = node[y].leaf /\ node'[y].keys = node[y].keys /\ node'[y].rows = node[y].rows
         /\ node'[y].kids = node[y].kids /\ node'[y].next = node[y].next
         /\ node'[y].parent = IF y = x \/ y = c THEN a ELSE node[y].parent
  BY <1>4, <1>5, <1>9
<1>13. RootAdded(node, node', op, a)
  BY <1>6, <1>9, <1>12 DEF RootAdded, x, c, v
<1>14. Heap(node')
  <2>1. ASSUME NEW y \in DOMAIN node'
        PROVE  /\ node'[y].leaf => Len(node'[y].rows) = Len(node'[y].keys) /\ node'[y].kids = <<>>
               /\ ~node'[y].leaf => Len(node'[y].kids) = Len(node'[y].keys) + 1 /\ node'[y].rows = <<>>
    <3>1. CASE y = a
      BY <1>6, <1>9, <1>10, <3>1
    <3>2. CASE y \in DOMAIN node
      BY <1>1, <1>12, <3>2 DEF Heap
    <3> QED
      BY <1>9, <3>1, <3>2
  <2>2. DOMAIN node' \subseteq Addr
    BY <1>1, <1>2, <1>9 DEF Heap
  <2> QED
    BY <1>11, <2>1, <2>2 DEF Heap
<1>15. Fits(node')
  <2>1. Len(node'[a].keys) = 1
    BY <1>9, <1>10
  <2>2. \A y \in DOMAIN node : Len(node[y].keys) <= MaxKeys
    BY DEF IsSound, Fits
  <2>3. 1 <= MaxKeys
    BY TreeAssumption
  <2> QED
    BY <1>9, <1>12, <2>1, <2>2, <2>3 DEF Fits
<1> QED
  BY <1>13, <1>14, <1>15 DEF a

LEMMA NewRootStep ==
  ASSUME NEW L, NEW h, NEW b, NEW s, IsSound(L, h, b, s), NewRoot
  PROVE  TreeInv' /\ Holds(node', Under(node', root'), Added(was, op.key, op.row))
<1> DEFINE a == Fresh
<1>1. Rising /\ Parent = Nil /\ op' = Idle /\ root' = a /\ failed' = failed
  BY DEF NewRoot, Return
<1>2. Sound(node, root, op, was, failed, L, h, b, s) /\ b \in Nat /\ IsRising(op)
  BY <1>1 DEF IsSound, Rising, IsRising
<1>3. op.at = root
  BY <1>1, RisingParent
<1>4. Heap(node) /\ Cardinality(DOMAIN node) \in Nat /\ Cardinality(Addr) \in Nat
  <2>1. Heap(node)
    BY <1>2 DEF Sound, Shape
  <2>2. IsFiniteSet(DOMAIN node) /\ IsFiniteSet(Addr)
    BY <2>1, FS_Subset, TreeAssumption DEF Heap
  <2> QED
    BY <2>1, <2>2, FS_CardinalityType
<1>5. a \in Addr /\ a \notin DOMAIN node
  <2>1. Cardinality(DOMAIN node) + (h[root] - h[op.at]) + 1 <= Cardinality(Addr)
    BY <1>2 DEF Sound, Shape, Room
  <2>2. h[root] \in Nat
    BY <1>2, LevelOfRoot
  <2>3. Cardinality(DOMAIN node) + 1 <= Cardinality(Addr)
    BY <1>3, <1>4, <2>1, <2>2
  <2> QED
    BY <1>4, <2>3, FreshIsFree
<1>6. Heap(node') /\ Fits(node') /\ RootAdded(node, node', op, a)
  BY <1>5, RootWritten
<1>7. PICK L2, h2, s2 :
        /\ \A m2 : Sound(node', a, Idle, m2, failed, L2, h2, b + 1, s2)
        /\ Holds(node', L2, Added(was, op.key, op.row))
  BY <1>2, <1>3, <1>5, <1>6, RootMade
<1>8. IsSound(L2, h2, b + 1, s2)'
  <2>1. a \in Ptr /\ b + 1 \in Nat
    BY <1>2, <1>5 DEF Ptr
  <2> QED
    BY <1>1, <1>6, <1>7, <2>1 DEF IsSound
<1>9. Holds(node', Under(node', root'), Added(was, op.key, op.row))
  <2>1. a # Nil /\ b + 1 \in Nat
    BY <1>2, <1>5, TreeAssumption
  <2>2. Sound(node', a, Idle, was, failed, L2, h2, b + 1, s2)
    BY <1>7
  <2> HIDE DEF a
  <2>3. Holds(node', Under(node', a), Added(was, op.key, op.row))
    BY <1>7, <2>1, <2>2, HeldUnder
  <2> QED
    BY <1>1, <2>3
<1> QED
  BY <1>8, <1>9 DEF TreeInv

-----------------------------------------------------------------------------
(* The way up is given up.                                                 *)

\* Every node under x but x itself has a parent under x, which lists it, and
\* none is above x.
LEMMA UnderParent ==
  ASSUME NEW n, NEW h, NEW b \in Nat, Parents(n), Levels(n, h, b), NEW x \in DOMAIN n
  PROVE  /\ \A y \in Under(n, x) : y = x \/ (/\ n[y].parent \in Under(n, x)
                                            /\ \E i \in DOMAIN n[n[y].parent].kids :
                                                 n[n[y].parent].kids[i] = y)
         /\ \A y \in Under(n, x) : h[y] <= h[x]
<1> DEFINE U == Under(n, x)
           Listed(y) == n[y].parent \in U /\ \E i \in DOMAIN n[n[y].parent].kids :
                                               n[n[y].parent].kids[i] = y
           S == {y \in U : y = x \/ Listed(y)}
           T == {y \in U : h[y] <= h[x]}
<1>1. x \in U /\ U \subseteq DOMAIN n /\ Closed(n, U) /\ \A S0 : x \in S0 /\ Closed(n, S0) => U \subseteq S0
  BY UnderLeast
<1> HIDE DEF U
<1>2. Closed(n, S)
  <2> SUFFICES ASSUME NEW y \in S, y \in DOMAIN n, NEW i \in DOMAIN n[y].kids
               PROVE  n[y].kids[i] \in S
    BY DEF Closed
  <2>1. n[y].kids[i] \in U
    BY <1>1 DEF Closed
  <2>2. n[n[y].kids[i]].parent = y
    BY DEF Parents
  <2>3. Listed(n[y].kids[i])
    BY <2>2
  <2> QED
    BY <2>1, <2>3
<1>3. Closed(n, T)
  <2> SUFFICES ASSUME NEW y \in T, y \in DOMAIN n, NEW i \in DOMAIN n[y].kids
               PROVE  n[y].kids[i] \in T
    BY DEF Closed
  <2>1. n[y].kids[i] \in U /\ n[y].kids[i] \in DOMAIN n
    BY <1>1 DEF Closed
  <2>2. h[n[y].kids[i]] + 1 = h[y]
    BY DEF Levels
  <2>3. h[n[y].kids[i]] \in Nat /\ h[y] \in Nat /\ h[x] \in Nat
    BY <2>1 DEF Levels
  <2> QED
    BY <2>1, <2>2, <2>3
<1>4. h[x] <= h[x]
  BY DEF Levels
<1>5. x \in S /\ x \in T
  BY <1>1, <1>4
<1>6. U \subseteq S /\ U \subseteq T
  <2> HIDE DEF S, T
  <2> QED
    BY <1>1, <1>2, <1>3, <1>5
<1> QED
  BY <1>6 DEF U

\* What the new node was to have goes back to the node it was split from, and
\* to the last node on every level below.
Widened(n, o, s) ==
  [y \in DOMAIN n |-> IF y \in Under(n, o.at) /\ o.sep - 1 \in s[y] THEN s[y] \cup s[o.right] ELSE s[y]]

\* The number below sep is in the span of at.
LEMMA BelowSep ==
  ASSUME NEW n, NEW r, NEW o, NEW m, NEW f, NEW L, NEW h, NEW b \in Nat, NEW s,
         Sound(n, r, o, m, f, L, h, b, s), IsRising(o)
  PROVE  o.sep - 1 \in s[o.at]
<1> DEFINE x == o.at
           v == o.sep
           w == o.sep - 1
           C == s[x] \cup s[o.right]
<1>1. /\ Heap(n) /\ Spans(n, o, s) /\ Live(n, r, o, L) /\ Rooted(n, r, o, L, s) /\ Ascending(n)
  BY DEF Sound, Shape
<1>2. /\ r # Nil /\ x \in L /\ L \subseteq DOMAIN n /\ o.right # x /\ v \in s[o.right] /\ v \in Int
      /\ (\A u \in s[x] : u < v) /\ (\A u \in s[o.right] : v <= u) /\ \E u \in s[x] : u \in Int
  <2>1. IsUp(n, r, o, L, h, s)
    BY OnTheWayUp
  <2> QED
    BY <2>1 DEF IsUp
<1>3. Sent(o, s, x) = C
  BY DEF Sent
<1>4. PICK u \in s[x] : u \in Int
  BY <1>2
<1>5. u \in C /\ v \in C /\ w \in Int /\ u <= w /\ w < v /\ ~(v <= w)
  BY <1>2, <1>4
<1> HIDE DEF x, v, w, C
<1>6. w \in C
  <2>1. CASE x = r
    BY <1>1, <1>2, <1>3, <1>5, <2>1 DEF Rooted
  <2>2. CASE x # r
    <3>1. n[x].parent \in L /\ \E i \in DOMAIN n[n[x].parent].kids : n[n[x].parent].kids[i] = x
      BY <1>1, <1>2, <2>2 DEF Live
    <3> DEFINE p == n[x].parent
    <3>2. PICK i \in DOMAIN n[p].kids : n[p].kids[i] = x
      BY <3>1
    <3>3. p \in DOMAIN n
      BY <1>2, <3>1
    <3> HIDE DEF p
    <3>4. C = View(n, s, p, i)
      BY <1>1, <1>3, <3>2, <3>3 DEF Spans
    <3>5. /\ u \in s[p] /\ v \in s[p]
          /\ i > 1 => n[p].keys[i - 1] <= u
          /\ i <= Len(n[p].keys) => v < n[p].keys[i]
      BY <1>5, <3>4 DEF View
    <3>6. w \in s[p]
      <4>1. w <= v
        BY <1>2, <1>5
      <4> QED
        BY <1>1, <1>5, <3>3, <3>5, <4>1 DEF Spans
    <3>7. ~n[p].leaf /\ DOMAIN n[p].kids = 1 .. Len(n[p].keys) + 1 /\ Len(n[p].keys) \in Nat
          /\ DOMAIN n[p].keys = 1 .. Len(n[p].keys)
      BY <1>1, <3>2, <3>3, Indices
    <3>8. \A j \in 1 .. Len(n[p].keys) : n[p].keys[j] \in Int
      BY <1>1, <3>3, <3>7, Elements
    <3>9. i > 1 => n[p].keys[i - 1] <= w
      <4> SUFFICES ASSUME i > 1 PROVE n[p].keys[i - 1] <= w
        OBVIOUS
      <4>1. i - 1 \in 1 .. Len(n[p].keys)
        BY <3>2, <3>7
      <4>2. n[p].keys[i - 1] \in Int
        BY <3>8, <4>1
      <4> QED
        BY <1>4, <1>5, <3>5, <4>2
    <3>10. i <= Len(n[p].keys) => w < n[p].keys[i]
      <4> SUFFICES ASSUME i <= Len(n[p].keys) PROVE w < n[p].keys[i]
        OBVIOUS
      <4>1. i \in 1 .. Len(n[p].keys)
        BY <3>2, <3>7
      <4>2. n[p].keys[i] \in Int
        BY <3>8, <4>1
      <4> QED
        BY <1>2, <1>5, <3>5, <4>2
    <3>11. w \in View(n, s, p, i)
      BY <3>6, <3>9, <3>10 DEF View
    <3> QED
      BY <3>4, <3>11
  <2> QED
    BY <2>1, <2>2
<1>7. w \notin s[o.right]
  BY <1>2, <1>5
<1>8. w \in s[x]
  BY <1>6, <1>7 DEF C
<1> QED
  BY <1>8 DEF w, x

\* A number that is above all of q is where the number below it is, if that is
\* not below any of q.
LEMMA BetweenSame ==
  ASSUME NEW q, NEW l \in Nat, Len(q) = l, NEW i \in 1 .. l + 1, \A j \in 1 .. l : q[j] \in Int,
         NEW v \in Int, NEW u \in Int, v <= u, \A j \in 1 .. l : q[j] < v
  PROVE  Between(q, i, u) <=> Between(q, i, v - 1)
<1>1. \A j \in 1 .. l : q[j] <= v - 1 /\ q[j] <= u /\ ~(u < q[j]) /\ ~(v - 1 < q[j])
  OBVIOUS
<1>2. CASE i <= l
  <2>1. i \in 1 .. l
    BY <1>2
  <2>2. ~(u < q[i]) /\ ~(v - 1 < q[i])
    BY <1>1, <2>1
  <2> QED
    BY <1>2, <2>2 DEF Between
<1>3. CASE ~(i <= l)
  <2>1. i > 1 => i - 1 \in 1 .. l
    BY <1>3
  <2>2. i > 1 => q[i - 1] <= u /\ q[i - 1] <= v - 1
    BY <1>1, <2>1
  <2> QED
    BY <1>3, <2>2 DEF Between
<1> QED
  BY <1>2, <1>3

LEMMA WidenedSpans ==
  ASSUME NEW n, NEW r, NEW o, NEW m, NEW f, NEW L, NEW h, NEW b \in Nat, NEW s,
         Sound(n, r, o, m, f, L, h, b, s), IsRising(o)
  PROVE  Spans(n, Idle, Widened(n, o, s)) /\ Widened(n, o, s)[r] = Int
<1> DEFINE x  == o.at
           v  == o.sep
           w  == v - 1
           R  == s[o.right]
           U  == Under(n, x)
           s2 == Widened(n, o, s)
<1>1. /\ Heap(n) /\ Parents(n) /\ Levels(n, h, b) /\ Spans(n, o, s) /\ Rooted(n, r, o, L, s)
      /\ s \in [DOMAIN n -> SUBSET Int]
  BY DEF Sound, Shape, Spans
<1>2. /\ r # Nil /\ r \in L /\ L \subseteq DOMAIN n /\ x \in DOMAIN n /\ v \in R /\ v \in Int
      /\ (\A u \in s[x] : u < v) /\ (\A u \in R : v <= u) /\ R \subseteq Int /\ o.right \in DOMAIN n
  <2>1. IsUp(n, r, o, L, h, s)
    BY OnTheWayUp
  <2> QED
    BY <2>1 DEF IsUp
<1>3. w \in s[x]
  BY BelowSep
<1>4. Sent(o, s, x) = s[x] \cup R /\ \A c : c # x => Sent(o, s, c) = s[c]
  BY DEF Sent
<1>5. /\ x \in U /\ U \subseteq DOMAIN n /\ Closed(n, U) /\ \A y \in U : h[y] <= h[x]
      /\ \A y \in U : y = x \/ n[y].parent \in U
  BY <1>1, <1>2, UnderLeast, UnderParent
<1>6. \A y \in U : s[y] \subseteq s[x]
  BY <1>1, <1>2, SpanWithin
<1>7. s2 = [y \in DOMAIN n |-> IF y \in U /\ w \in s[y] THEN s[y] \cup R ELSE s[y]]
  BY DEF Widened
<1>8. w \in Int /\ w < v
  BY <1>2
<1> HIDE DEF x, v, w, R, U, s2
<1>9. /\ DOMAIN s2 = DOMAIN n /\ s2 \in [DOMAIN n -> SUBSET Int]
      /\ \A y \in DOMAIN n : s2[y] = IF y \in U /\ w \in s[y] THEN s[y] \cup R ELSE s[y]
  <2>1. \A y \in DOMAIN n : s[y] \in SUBSET Int
    BY <1>1
  <2> QED
    BY <1>2, <1>7, <2>1
<1>10. \A y \in DOMAIN n : \A u : u \in s2[y] <=> u \in s[y] \/ (y \in U /\ w \in s[y] /\ u \in R)
  BY <1>9
<1>11. ASSUME NEW y \in DOMAIN n, NEW u1 \in s2[y], NEW u2 \in s2[y], NEW u \in Int, u1 <= u, u <= u2
       PROVE  u \in s2[y]
  <2>1. \A z \in DOMAIN n : \A a1, a2 \in s[z] : \A a \in Int : a1 <= a /\ a <= a2 => a \in s[z]
    BY <1>1 DEF Spans
  <2>2. \A a1, a2 \in R : \A a \in Int : a1 <= a /\ a <= a2 => a \in R
    BY <1>2, <2>1 DEF R
  <2>3. CASE ~(y \in U /\ w \in s[y])
    BY <1>9, <1>11, <2>1, <2>3
  <2>4. CASE y \in U /\ w \in s[y]
    <3>1. s2[y] = s[y] \cup R /\ s[y] \subseteq Int
      BY <1>1, <1>9, <2>4
    <3>2. u1 \in Int /\ u2 \in Int /\ \A a \in s[y] : a < v
      BY <1>2, <1>6, <2>4, <3>1
    <3>3. CASE u2 \in s[y]
      <4>1. u1 \in s[y]
        <5>1. u1 < v
          BY <1>2, <1>11, <3>2, <3>3
        <5>2. u1 \notin R
          BY <1>2, <3>2, <5>1
        <5> QED
          BY <3>1, <5>2
      <4> QED
        BY <1>11, <2>1, <3>1, <3>3, <4>1
    <3>4. CASE u2 \in R /\ u < v
      <4>1. u1 \in s[y]
        <5>1. u1 < v
          BY <1>2, <1>11, <3>2, <3>4
        <5>2. u1 \notin R
          BY <1>2, <3>2, <5>1
        <5> QED
          BY <3>1, <5>2
      <4>2. u <= w
        BY <1>2, <3>4 DEF w
      <4> QED
        BY <1>11, <2>1, <2>4, <3>1, <4>1, <4>2
    <3>5. CASE u2 \in R /\ ~(u < v)
      <4>1. v <= u
        BY <1>2, <3>5
      <4> QED
        BY <1>2, <1>11, <2>2, <3>1, <3>5, <4>1
    <3> QED
      BY <3>1, <3>3, <3>4, <3>5
  <2> QED
    BY <2>3, <2>4
<1>12. ASSUME NEW y \in DOMAIN n, NEW i \in DOMAIN n[y].keys
       PROVE  n[y].keys[i] \in s2[y]
  <2>1. n[y].keys[i] \in s[y]
    BY <1>1, <1>12 DEF Spans
  <2> QED
    BY <1>10, <2>1
<1>13. ASSUME NEW y \in DOMAIN n, NEW i \in DOMAIN n[y].kids
       PROVE  s2[n[y].kids[i]] = View(n, s2, y, i)
  <2> DEFINE c == n[y].kids[i]
             q == n[y].keys
  <2>1. c \in DOMAIN n /\ n[c].parent = y /\ h[c] + 1 = h[y] /\ h[c] \in Nat /\ h[x] \in Nat
    BY <1>1, <1>2, <1>13 DEF Parents, Levels
  <2>2. Sent(o, s, c) = View(n, s, y, i)
    BY <1>1, <1>13 DEF Spans
  <2>3. ~n[y].leaf /\ i \in 1 .. Len(q) + 1 /\ DOMAIN q = 1 .. Len(q) /\ Len(q) \in Nat
    BY <1>1, <1>13, Indices
  <2>4. y \in U => c \in U
    BY <1>5, <1>13 DEF Closed
  <2> HIDE DEF c, q
  <2>5. \A u : u \in View(n, s, y, i) <=> u \in s[y] /\ Between(q, i, u)
    BY ViewIs DEF q
  <2>6. \A u : u \in View(n, s2, y, i) <=> u \in s2[y] /\ Between(q, i, u)
    BY ViewIs DEF q
  <2>7. CASE y \in U
    <3>1. c # x
      <4>1. h[y] <= h[x] /\ h[y] \in Int
        BY <1>5, <2>1, <2>7
      <4>2. h[c] # h[x]
        BY <2>1, <4>1
      <4> QED
        BY <4>2
    <3>2. \A u : u \in s[c] <=> u \in s[y] /\ Between(q, i, u)
      BY <1>4, <2>2, <2>5, <3>1
    <3>3. \A u : u \in s2[c] <=> u \in s[c] \/ (w \in s[c] /\ u \in R)
      BY <1>10, <2>1, <2>4, <2>7
    <3>4. \A u \in R : Between(q, i, u) <=> Between(q, i, w)
      <4>1. \A j \in 1 .. Len(q) : q[j] \in Int /\ q[j] < v
        <5>1. \A j \in DOMAIN n[y].keys : n[y].keys[j] \in s[y]
          BY <1>1, <1>5, <2>7 DEF Spans
        <5>2. \A a \in s[y] : a \in Int /\ a < v
          BY <1>1, <1>2, <1>6, <2>7
        <5> QED
          BY <2>3, <5>1, <5>2 DEF q
      <4> TAKE u \in R
      <4>2. u \in Int /\ v <= u
        BY <1>2
      <4>3. Between(q, i, u) <=> Between(q, i, v - 1)
        BY <1>2, <2>3, <4>1, <4>2, BetweenSame
      <4> QED
        BY <4>3 DEF w
    <3>5. \A u : u \in s2[y] <=> u \in s[y] \/ (w \in s[y] /\ u \in R)
      BY <1>10, <2>7
    <3>6. \A u : u \in View(n, s2, y, i) <=> u \in s2[c]
      BY <2>6, <3>2, <3>3, <3>4, <3>5
    <3> QED
      BY <3>6 DEF c
  <2>8. CASE y \notin U
    <3>1. s2[y] = s[y]
      BY <1>9, <2>8
    <3>2. View(n, s2, y, i) = View(n, s, y, i)
      BY <3>1 DEF View
    <3>3. c = x \/ c \notin U
      BY <1>5, <2>1, <2>8
    <3>4. s2[c] = Sent(o, s, c)
      <4>1. CASE c = x
        BY <1>2, <1>3, <1>4, <1>5, <1>9, <4>1
      <4>2. CASE c # x
        BY <1>4, <1>9, <2>1, <3>3, <4>2
      <4> QED
        BY <4>1, <4>2
    <3> QED
      BY <2>2, <3>2, <3>4 DEF c
  <2> QED
    BY <2>7, <2>8
<1>14. Spans(n, Idle, s2)
  <2>1. ASSUME NEW y \in DOMAIN n, NEW i \in DOMAIN n[y].kids
        PROVE  Sent(Idle, s2, n[y].kids[i]) = View(n, s2, y, i)
    BY <1>13, IdleIsQuiet, SentQuiet
  <2> QED
    BY <1>9, <1>11, <1>12, <2>1 DEF Spans
<1>15. s2[r] = Int
  <2>1. Sent(o, s, r) = Int /\ r \in DOMAIN n /\ s2[r] \subseteq Int
    BY <1>1, <1>2, <1>9 DEF Rooted
  <2>2. CASE r = x
    BY <1>3, <1>4, <1>5, <1>9, <2>1, <2>2
  <2>3. CASE r # x
    <3>1. s[r] = Int
      BY <1>4, <2>1, <2>3
    <3>2. s[r] \subseteq s2[r]
      BY <1>9, <2>1
    <3> QED
      BY <2>1, <3>1, <3>2
  <2> QED
    BY <2>2, <2>3
<1> QED
  BY <1>14, <1>15 DEF s2

\* The tree without the new node is sound, and what it holds it ought to hold.
LEMMA GivenUp ==
  ASSUME NEW n, NEW r, NEW o, NEW m, NEW f, NEW L, NEW h, NEW b \in Nat, NEW s,
         Sound(n, r, o, m, f, L, h, b, s), IsRising(o),
         NEW n2, Heap(n2), DOMAIN n2 = DOMAIN n,
         \A y \in DOMAIN n : n2[y].leaf = n[y].leaf /\ n2[y].keys = n[y].keys
                             /\ n2[y].rows = n[y].rows /\ n2[y].kids = n[y].kids,
         \A y \in DOMAIN n : y # o.right => n2[y].parent = n[y].parent
  PROVE  /\ \A m2 : Sound(n2, r, Idle, m2, TRUE, Under(n2, r), h, b, Widened(n, o, s))
         /\ Within(n2, Under(n2, r), Added(m, o.key, o.row))
<1> DEFINE c  == o.right
           s2 == Widened(n, o, s)
           L2 == Under(n2, r)
<1>1. /\ Heap(n) /\ Parents(n) /\ Levels(n, h, b) /\ Ascending(n) /\ Filled(n, r, o)
      /\ Live(n, r, o, L) /\ Rooted(n, r, o, L, s) /\ Content(n, o, L, m)
  BY DEF Sound, Shape
<1>2. /\ o # Idle /\ r # Nil /\ r \in L /\ L \subseteq DOMAIN n /\ r \in DOMAIN n /\ c # r
      /\ \A x \in DOMAIN n : \A j \in DOMAIN n[x].kids : n[x].kids[j] # c
  <2>1. IsUp(n, r, o, L, h, s)
    BY OnTheWayUp
  <2> QED
    BY <2>1 DEF IsUp
<1>3. Spans(n, Idle, s2) /\ s2[r] = Int
  BY WidenedSpans
<1> HIDE DEF c, s2
<1>4. /\ \A y \in DOMAIN n : n2[y].leaf = n[y].leaf /\ n2[y].keys = n[y].keys
                             /\ n2[y].rows = n[y].rows /\ n2[y].kids = n[y].kids
      /\ \A y \in DOMAIN n : y # c => n2[y].parent = n[y].parent
  BY DEF c
<1>5. Parents(n2)
  BY <1>1, <1>2, <1>4 DEF Parents
<1>6. Levels(n2, h, b) /\ Ascending(n2)
  BY <1>1, <1>4 DEF Levels, Ascending
<1>7. Filled(n2, r, Idle)
  <2>1. \A y \in DOMAIN n : y # r => Len(n[y].keys) >= Least(n[y].leaf)
    BY <1>1 DEF Filled
  <2> QED
    BY <1>4, <2>1, IdleIsQuiet DEF Filled
<1>8. Spans(n2, Idle, s2)
  <2>1. ASSUME NEW y \in DOMAIN n, NEW i \in DOMAIN n2[y].kids
        PROVE  Sent(Idle, s2, n2[y].kids[i]) = View(n2, s2, y, i)
    <3>1. Sent(Idle, s2, n[y].kids[i]) = View(n, s2, y, i)
      BY <1>3, <1>4, <2>1 DEF Spans
    <3>2. View(n, s2, y, i) = View(n2, s2, y, i)
      BY <1>4 DEF View
    <3> QED
      BY <1>4, <3>1, <3>2
  <2> QED
    BY <1>3, <1>4, <2>1 DEF Spans
<1>9. /\ r \in L2 /\ L2 \subseteq DOMAIN n /\ Closed(n2, L2)
      /\ \A S : r \in S /\ Closed(n2, S) => L2 \subseteq S
      /\ \A y \in L2 : y = r \/ (/\ n2[y].parent \in L2
                                 /\ \E i \in DOMAIN n2[n2[y].parent].kids : n2[n2[y].parent].kids[i] = y)
  BY <1>2, <1>5, <1>6, UnderLeast, UnderParent
<1> HIDE DEF L2
<1>10. Live(n2, r, Idle, L2)
  <2>1. \A x \in L2 : \A i \in DOMAIN n2[x].kids : n2[x].kids[i] \in L2
    BY <1>9 DEF Closed
  <2> QED
    BY <1>9, <2>1 DEF Live
<1>11. Rooted(n2, r, Idle, L2, s2)
  <2>1. n2[r].parent = Nil
    BY <1>1, <1>2, <1>4 DEF Rooted
  <2> QED
    BY <1>2, <1>3, <1>9, <2>1, IdleIsQuiet, SentQuiet DEF Rooted
<1>12. Calling(n2, r, Idle, L2, h, s2) /\ Room(n2, r, Idle, h) /\ \A m2 : Content(n2, Idle, L2, m2)
  BY IdleIsQuiet DEF Calling, Room, Content
<1>13. L2 \subseteq L
  <2>1. Closed(n2, L)
    BY <1>1, <1>2, <1>4 DEF Live, Closed
  <2> QED
    BY <1>2, <1>9, <2>1
<1>14. Within(n2, L2, Added(m, o.key, o.row))
  <2>1. Within(n, L, Added(m, o.key, o.row))
    BY <1>1, <1>2 DEF Content, Holds
  <2> QED
    BY <1>4, <1>9, <1>13, <2>1 DEF Within
<1>15. \A m2 : Sound(n2, r, Idle, m2, TRUE, L2, h, b, s2)
  BY <1>5, <1>6, <1>7, <1>8, <1>10, <1>11, <1>12 DEF Sound, Shape, Whole
<1> QED
  BY <1>14, <1>15 DEF L2, s2

LEMMA RiseFailsStep ==
  ASSUME NEW L, NEW h, NEW b, NEW s, IsSound(L, h, b, s), RiseFails
  PROVE  TreeInv' /\ Within(node', Under(node', root'), Added(was, op.key, op.row))
<1> DEFINE c == op.right
           z == [node[c] EXCEPT !.parent = Nil]
           s2 == Widened(node, op, s)
<1>1. Rising /\ op' = Idle /\ root' = root
  BY DEF RiseFails, Return
<1>2. Sound(node, root, op, was, failed, L, h, b, s) /\ b \in Nat /\ IsRising(op) /\ Heap(node) /\ Fits(node)
  BY <1>1 DEF IsSound, Rising, IsRising, Sound, Shape
<1>3. node' = [node EXCEPT ![c].parent = Nil] /\ failed' = TRUE
  <2>1. ~(Parent # Nil /\ KidNo(node[Parent], op.at) > Len(node[Parent].kids))
    <3> SUFFICES ASSUME Parent # Nil
                 PROVE  ~(KidNo(node[Parent], op.at) > Len(node[Parent].kids))
      OBVIOUS
    <3>1. /\ KidNo(node[Parent], op.at) \in DOMAIN node[Parent].kids /\ Parent \in DOMAIN node
          /\ KidNo(node[Parent], op.at) <= Len(node[Parent].kids) /\ ~node[Parent].leaf
      BY <1>1, RisingParent
    <3>2. KidNo(node[Parent], op.at) \in Int /\ Len(node[Parent].kids) \in Int
      BY <1>2, <3>1, Indices
    <3> QED
      BY <3>1, <3>2
  <2> QED
    BY <2>1 DEF RiseFails
<1>4. c \in DOMAIN node /\ node[c] \in NodeSet /\ root # Nil
  <2>1. IsUp(node, root, op, L, h, s)
    BY <1>2, OnTheWayUp
  <2> QED
    BY <1>2, <2>1 DEF IsUp, Heap
<1> HIDE DEF c
<1>5. /\ z \in NodeSet /\ z.keys = node[c].keys /\ z.rows = node[c].rows /\ z.kids = node[c].kids
      /\ z.leaf = node[c].leaf /\ z.next = node[c].next /\ z.parent = Nil
  BY <1>4 DEF NodeSet, Ptr
<1>6. node' = [node EXCEPT ![c] = z]
  BY <1>3, <1>4
<1> HIDE DEF z
<1>7. DOMAIN node' = DOMAIN node /\ node'[c] = z /\ \A y \in DOMAIN node : y # c => node'[y] = node[y]
  BY <1>4, <1>6
<1>8. \A y \in DOMAIN node : node'[y].leaf = node[y].leaf /\ node'[y].keys = node[y].keys
                             /\ node'[y].rows = node[y].rows /\ node'[y].kids = node[y].kids
  BY <1>5, <1>7
<1>9. \A y \in DOMAIN node : y # op.right => node'[y].parent = node[y].parent
  BY <1>7 DEF c
<1>10. Heap(node')
  <2>1. node' \in [DOMAIN node' -> NodeSet]
    BY <1>2, <1>4, <1>5, <1>6 DEF Heap
  <2> QED
    BY <1>2, <1>7, <1>8, <2>1 DEF Heap
<1>11. Fits(node')
  BY <1>2, <1>7, <1>8 DEF Fits
<1>12. /\ \A m2 : Sound(node', root, Idle, m2, TRUE, Under(node', root), h, b, s2)
       /\ Within(node', Under(node', root), Added(was, op.key, op.row))
  BY <1>2, <1>7, <1>8, <1>9, <1>10, GivenUp
<1> HIDE DEF s2
<1>13. PICK L2, t2 : Sound(node', root, Idle, was', TRUE, L2, h, b, t2)
  BY <1>12
<1>14. IsSound(L2, h, b, t2)'
  <2>1. root \in Ptr
    BY DEF IsSound
  <2> QED
    BY <1>1, <1>2, <1>3, <1>11, <1>13, <2>1 DEF IsSound
<1>15. Within(node', Under(node', root'), Added(was, op.key, op.row))
  BY <1>1, <1>12
<1> QED
  BY <1>14, <1>15 DEF TreeInv

-----------------------------------------------------------------------------
(* A row is replaced.                                                      *)

\* No two leaves, and no two places in a leaf, have the same key.
LEMMA KeyIsOnce ==
  ASSUME NEW L, NEW h, NEW b, NEW s, IsSound(L, h, b, s), ~IsRising(op),
         NEW x \in L, NEW y \in L, node[x].leaf, node[y].leaf,
         NEW i \in DOMAIN node[x].keys, NEW j \in DOMAIN node[y].keys,
         node[x].keys[i] = node[y].keys[j]
  PROVE  x = y /\ i = j
<1>1. /\ Heap(node) /\ Parents(node) /\ Levels(node, h, b) /\ Ascending(node) /\ Spans(node, op, s)
      /\ Live(node, root, op, L) /\ Rooted(node, root, op, L, s) /\ b \in Nat
  BY DEF IsSound, Sound, Shape
<1>2. root \in L /\ L \subseteq DOMAIN node
  BY <1>1 DEF Rooted, Live
<1>3. L = Under(node, root)
  BY <1>1, <1>2, LiveIsUnder
<1>4. node[x].keys[i] \in s[x] /\ node[y].keys[j] \in s[y]
  BY <1>1, <1>2 DEF Spans
<1>5. \A c \in DOMAIN node : \A p, q \in Under(node, c) :
        node[p].leaf /\ node[q].leaf /\ p # q => s[p] \cap s[q] = {}
  BY <1>1, LeavesApart
<1>6. x = y
  BY <1>2, <1>3, <1>4, <1>5
<1>7. i \in Int /\ j \in Int /\ node[x].keys[i] \in Int /\ x \in DOMAIN node
  BY <1>1, <1>2, <1>6, Indices, Elements
<1>8. ~(i < j) /\ ~(j < i)
  BY <1>1, <1>6, <1>7 DEF Ascending
<1> QED
  BY <1>6, <1>7, <1>8

LEMMA ReplaceRowStep ==
  ASSUME NEW L, NEW h, NEW b, NEW s, IsSound(L, h, b, s), ReplaceRow
  PROVE  TreeInv' /\ Holds(node', Under(node', root'), Added(was, op.key, op.row))
<1> DEFINE x == op.at
           i == CHOOSE j \in DOMAIN node[x].keys : node[x].keys[j] = op.key
<1>1. /\ op.pc = "find_leaf" /\ node[x].leaf /\ HasKey(node[x], op.key)
      /\ node' = [node EXCEPT ![x].rows[i] = op.row]
      /\ op' = Idle /\ root' = root /\ failed' = failed
  BY DEF ReplaceRow, AtLeaf, Found, Return
<1>2. ~IsRising(op) /\ op # Idle
  BY <1>1, AtLeafIsQuiet
<1>3. root # Nil /\ x \in DOMAIN node /\ op.row \in Rows
  BY <1>2, CallHasRoot
<1>4. Sound(node, root, Idle, was', failed, L, h, b, s)
  BY <1>2, <1>3, Ended DEF IsSound
<1>5. Heap(node)
  BY DEF IsSound, Sound, Shape
<1>6. i \in DOMAIN node[x].keys
  BY <1>1 DEF HasKey, Range
<1> HIDE DEF i, x
<1>7. i \in 1 .. Len(node[x].rows) /\ i \in DOMAIN node[x].rows
  BY <1>1, <1>3, <1>5, <1>6, Indices DEF Heap
<1>8. node[x] \in NodeSet /\ node[x].rows \in Seq(Rows)
  BY <1>3, <1>5, Indices
<1> DEFINE z == [node[x] EXCEPT !.rows = [node[x].rows EXCEPT ![i] = op.row]]
<1>9. node' = [node EXCEPT ![x] = z]
  BY <1>1
<1>10. /\ [node[x].rows EXCEPT ![i] = op.row] \in Seq(Rows)
      /\ Len([node[x].rows EXCEPT ![i] = op.row]) = Len(node[x].rows)
  BY <1>3, <1>8, <1>7, ExceptSeq
<1>11. /\ z \in NodeSet /\ z.leaf = node[x].leaf /\ z.keys = node[x].keys /\ z.kids = node[x].kids
      /\ z.parent = node[x].parent /\ z.next = node[x].next /\ Len(z.rows) = Len(node[x].rows)
      /\ z.rows = [node[x].rows EXCEPT ![i] = op.row]
  BY <1>8, <1>10 DEF NodeSet
<1> HIDE DEF z
<1>12. DOMAIN node' = DOMAIN node /\ \A y \in DOMAIN node : node'[y] = IF y = x THEN z ELSE node[y]
  BY <1>3, <1>9
<1>13. Heap(node')
  <2>1. node' \in [DOMAIN node -> NodeSet]
    BY <1>5, <1>9, <1>11 DEF Heap
  <2>2. \A y \in DOMAIN node : node'[y].rows = <<>> <=> node[y].rows = <<>>
    <3>1. \A S : \A q \in Seq(S) : q = <<>> <=> Len(q) = 0
      OBVIOUS
    <3>2. z.rows \in Seq(Rows)
      BY <1>11 DEF NodeSet
    <3> QED
      BY <1>8, <1>11, <1>12, <3>1, <3>2
  <2> QED
    BY <1>1, <1>5, <1>11, <1>12, <2>1, <2>2 DEF Heap
<1>14. \A y \in DOMAIN node :
         /\ node'[y].leaf = node[y].leaf /\ node'[y].keys = node[y].keys
         /\ node'[y].kids = node[y].kids /\ node'[y].parent = node[y].parent
         /\ node'[y].next = node[y].next
  BY <1>11, <1>12
<1>15. Fits(node')
  BY <1>11, <1>12 DEF IsSound, Fits
<1>16. Sound(node', root, Idle, was', failed, L, h, b, s)
  BY <1>4, <1>12, <1>13, <1>14, SameButRows
<1>17. IsSound(L, h, b, s)'
  BY <1>1, <1>16, <1>15 DEF IsSound
<1>18. Holds(node', L, Added(was, op.key, op.row))
  <2> DEFINE m2 == Added(was, op.key, op.row)
  <2>1. Holds(node, L, was) /\ L \subseteq DOMAIN node /\ x \in L
    BY <1>2, CallHasRoot DEF IsSound, Sound, Content, x
  <2>2. \A y \in L : node[y].leaf => \A j \in DOMAIN node[y].keys :
          node[y].keys[j] \in DOMAIN was /\ was[node[y].keys[j]] = node[y].rows[j]
    BY <2>1 DEF Holds, Within
  <2>3. node[x].keys[i] = op.key /\ x \in L
    BY <1>1, <2>1 DEF i, x, HasKey, Range
  <2>4. op.key \in DOMAIN was
    BY <1>1, <1>6, <2>2, <2>3
  <2>5. DOMAIN m2 = DOMAIN was /\ \A k \in DOMAIN was : m2[k] = IF k = op.key THEN op.row ELSE was[k]
    BY <2>4 DEF Added
  <2>6. m2 = [k \in DOMAIN m2 |-> m2[k]]
    BY DEF Added
  <2> HIDE DEF m2
  <2>7. ASSUME NEW y \in L, node'[y].leaf, NEW j \in DOMAIN node'[y].keys
        PROVE  node'[y].keys[j] \in DOMAIN m2 /\ m2[node'[y].keys[j]] = node'[y].rows[j]
    <3>1. /\ node'[y].keys = node[y].keys /\ node[y].leaf /\ j \in DOMAIN node[y].keys
          /\ node[y].keys[j] \in DOMAIN was /\ was[node[y].keys[j]] = node[y].rows[j]
      BY <1>14, <2>1, <2>2, <2>7
    <3>2. CASE y = x /\ j = i
      <4>1. node'[y].rows[j] = op.row
        BY <1>7, <1>11, <1>12, <2>1, <3>2
      <4> QED
        BY <2>3, <2>4, <2>5, <3>1, <3>2, <4>1
    <3>3. CASE ~(y = x /\ j = i)
      <4>1. node[y].keys[j] # op.key
        BY <1>1, <1>2, <1>6, <2>3, <3>1, <3>3, KeyIsOnce
      <4>2. node'[y].rows[j] = node[y].rows[j]
        <5>1. CASE y = x
          <6>1. j \in DOMAIN node[x].rows
            BY <1>1, <1>3, <1>5, <3>1, <5>1, Indices
          <6> QED
            BY <1>7, <1>11, <1>12, <2>1, <3>3, <5>1, <6>1
        <5>2. CASE y # x
          BY <1>12, <2>1, <5>2
        <5> QED
          BY <5>1, <5>2
      <4> QED
        BY <2>5, <3>1, <4>1, <4>2
    <3> QED
      BY <3>2, <3>3
  <2>8. \A k \in DOMAIN m2 : \E y \in L : node'[y].leaf /\ \E j \in DOMAIN node'[y].keys : node'[y].keys[j] = k
    BY <1>14, <2>1, <2>5 DEF Holds
  <2> QED
    BY <2>6, <2>7, <2>8 DEF Holds, Within, m2
<1>19. Holds(node', Under(node', root'), Added(was, op.key, op.row))
  BY <1>1, <1>3, <1>16, <1>18, HeldUnder DEF IsSound
<1> QED
  BY <1>17, <1>19 DEF TreeInv
==============================================================================
