------------------------- MODULE CsvStorage_proofs -------------------------
(***************************************************************************)
(* Proofs about one table file, for every buffer size, every set of rows   *)
(* and any number of processes that append: the header keeps its number of *)
(* cells, and a row its number and its cells, whatever is appended later.  *)
(***************************************************************************)
EXTENDS CsvStorage, SequenceTheorems, FiniteSetTheorems, TLAPS

-----------------------------------------------------------------------------
(* Numbers and sequences.                                                  *)

LEMMA LeastNat ==
  ASSUME NEW T \in SUBSET Nat, T # {}
  PROVE  \E x \in T : \A y \in T : x <= y
<1>1. PICK x \in T : \A y \in T : ~(<<y, x>> \in OpToRel(<, Nat))
  BY NatLessThanWellFounded, WFMin
<1>2. ASSUME NEW y \in T
      PROVE  x <= y
  <2>1. ~(<<y, x>> \in OpToRel(<, Nat))
    BY <1>1
  <2>2. <<y, x>> \in Nat \X Nat /\ <<y, x>>[1] = y /\ <<y, x>>[2] = x
    OBVIOUS
  <2>3. ~(y < x)
    BY <2>1, <2>2 DEF OpToRel
  <2> QED
    BY <2>3
<1> QED
  BY <1>2

\* Min is the least number of a set that is not empty.
LEMMA MinIsLeast ==
  ASSUME NEW T \in SUBSET Nat, T # {}
  PROVE  Min(T) \in T /\ \A y \in T : Min(T) <= y
BY LeastNat DEF Min

\* The first of the positions of T, which are from p to l; l + 1 if there is none.
LEMMA FirstOf ==
  ASSUME NEW l \in Nat, NEW p \in 1 .. l + 1, NEW T \in SUBSET (p .. l)
  PROVE  /\ Min(T \cup {l + 1}) \in p .. l + 1
         /\ Min(T \cup {l + 1}) <= l => Min(T \cup {l + 1}) \in T
         /\ \A q \in T : Min(T \cup {l + 1}) <= q
<1> DEFINE S == T \cup {l + 1}
<1>1. S \in SUBSET Nat /\ S # {}
  OBVIOUS
<1> DEFINE m == Min(S)
<1>2. m \in S /\ \A y \in S : m <= y
  BY <1>1, MinIsLeast
<1> HIDE DEF m
<1>3. /\ m \in p .. l + 1
      /\ m <= l => m \in T
      /\ \A q \in T : m <= q
  BY <1>2
<1> QED
  BY <1>3 DEF m

\* A part of a sequence.
LEMMA CutOf ==
  ASSUME NEW S, NEW s \in Seq(S), NEW a \in Nat \ {0}, NEW b \in Nat, b <= Len(s)
  PROVE  /\ SubSeq(s, a, b) \in Seq(S)
         /\ Len(SubSeq(s, a, b)) = IF a <= b THEN (b - a) + 1 ELSE 0
         /\ \A j \in 1 .. (b - a) + 1 : SubSeq(s, a, b)[j] = s[(a + j) - 1]
<1>1. (\A j \in a .. b : s[j] \in S) /\ a \in Int /\ b \in Int
  OBVIOUS
<1>2. /\ SubSeq(s, a, b) \in Seq(S)
      /\ Len(SubSeq(s, a, b)) = IF a <= b THEN b - a + 1 ELSE 0
      /\ \A j \in 1 .. b - a + 1 : SubSeq(s, a, b)[j] = s[a + j - 1]
  BY <1>1, SubSeqProperties
<1> QED
  BY <1>2

\* Lists that are joined.
LEMMA OneAndRest ==
  ASSUME NEW S, NEW t \in S, NEW r \in Seq(S)
  PROVE  /\ <<t>> \o r \in Seq(S) /\ Len(<<t>> \o r) = Len(r) + 1 /\ Len(r) \in Nat
         /\ (<<t>> \o r)[1] = t
         /\ \A j \in 1 .. Len(r) : (<<t>> \o r)[j + 1] = r[j]
<1>1. <<t>> \in Seq(S) /\ Len(<<t>>) = 1 /\ <<t>>[1] = t
  OBVIOUS
<1> DEFINE o == <<t>>
<1> HIDE DEF o
<1>2. o \in Seq(S) /\ Len(o) = 1 /\ o[1] = t
  BY <1>1 DEF o
<1>3. /\ o \o r \in Seq(S) /\ Len(o \o r) = Len(o) + Len(r) /\ Len(r) \in Nat
      /\ \A i \in 1 .. Len(o) + Len(r) : (o \o r)[i] = IF i <= Len(o) THEN o[i] ELSE r[i - Len(o)]
  BY <1>2, ConcatProperties, LenProperties
<1>4. (o \o r)[1] = t /\ \A j \in 1 .. Len(r) : (o \o r)[j + 1] = r[j]
  BY <1>2, <1>3
<1> QED
  BY <1>2, <1>3, <1>4 DEF o

-----------------------------------------------------------------------------
(* Recursion over the positions of a text.                                 *)

\* What a recursion from position to later position computes: where it goes on
\* from q, if it does, what it starts or ends with there, and whether it joins.
Walk(nx, a, joins, f, q) ==
  IF nx[q] = 0 THEN a[q] ELSE IF joins THEN a[q] \o f[nx[q]] ELSE f[nx[q]]

IsWalk(l, nx, a, joins, f) == f = [q \in 1 .. l + 1 |-> Walk(nx, a, joins, f, q)]

\* Such a recursion ends: there is a function that satisfies it.
LEMMA WalkEnds ==
  ASSUME NEW l \in Nat, NEW nx, NEW a, NEW joins \in BOOLEAN,
         \A q \in 1 .. l + 1 : nx[q] \in Nat /\ (nx[q] # 0 => q < nx[q] /\ nx[q] <= l + 1)
  PROVE  \E f : IsWalk(l, nx, a, joins, f)
<1> DEFINE UpTo(f, k) == \A q \in 1 .. l + 1 : (l + 1) - q <= k => f[q] = Walk(nx, a, joins, f, q)
           Bad        == {k \in Nat : ~ \E f : UpTo(f, k)}
<1>1. ASSUME NEW f, NEW g, NEW q \in 1 .. l + 1, nx[q] # 0 => f[nx[q]] = g[nx[q]]
      PROVE  Walk(nx, a, joins, f, q) = Walk(nx, a, joins, g, q)
  BY <1>1 DEF Walk
<1>2. ASSUME NEW k \in Nat, \A i \in Nat : i < k => \E f : UpTo(f, i)
      PROVE  \E f : UpTo(f, k)
  <2>1. PICK f : \A q \in 1 .. l + 1 : (l + 1) - q < k => f[q] = Walk(nx, a, joins, f, q)
    <3>1. CASE k = 0
      BY <3>1
    <3>2. CASE k # 0
      <4>1. PICK i \in Nat : i + 1 = k
        BY <3>2
      <4>2. PICK f : UpTo(f, i)
        <5>1. i < k
          BY <4>1
        <5> HIDE DEF UpTo
        <5> QED
          BY <1>2, <5>1
      <4>3. \A q \in 1 .. l + 1 : (l + 1) - q < k => (l + 1) - q <= i
        BY <4>1
      <4> QED
        BY <4>2, <4>3
    <3> QED
      BY <3>1, <3>2
  <2> DEFINE g == [q \in 1 .. l + 1 |-> Walk(nx, a, joins, f, q)]
  <2>2. \A q \in 1 .. l + 1 : g[q] = Walk(nx, a, joins, f, q)
    OBVIOUS
  <2> HIDE DEF g
  <2>3. ASSUME NEW q \in 1 .. l + 1, (l + 1) - q <= k
        PROVE  g[q] = Walk(nx, a, joins, g, q)
    <3>1. nx[q] # 0 => nx[q] \in 1 .. l + 1 /\ (l + 1) - nx[q] < k
      BY <2>3
    <3>2. nx[q] # 0 => f[nx[q]] = g[nx[q]]
      BY <2>1, <2>2, <3>1
    <3> QED
      BY <1>1, <2>2, <3>2
  <2>4. UpTo(g, k)
    BY <2>3
  <2> QED
    BY <2>4
<1>3. \E f : UpTo(f, l + 1)
  <2> SUFFICES ASSUME ~ \E f : UpTo(f, l + 1)
               PROVE  FALSE
    OBVIOUS
  <2> HIDE DEF UpTo
  <2>1. Bad \in SUBSET Nat /\ Bad # {}
    OBVIOUS
  <2>2. PICK k \in Bad : \A i \in Bad : k <= i
    BY <2>1, LeastNat
  <2>3. \A i \in Nat : i < k => \E f : UpTo(f, i)
    BY <2>2
  <2> QED
    BY <1>2, <2>2, <2>3
<1>4. PICK f : \A q \in 1 .. l + 1 : f[q] = Walk(nx, a, joins, f, q)
  <2>1. \A q \in 1 .. l + 1 : (l + 1) - q <= l + 1
    OBVIOUS
  <2> QED
    BY <1>3, <2>1
<1> DEFINE g == [q \in 1 .. l + 1 |-> Walk(nx, a, joins, f, q)]
<1>5. \A q \in 1 .. l + 1 : g[q] = Walk(nx, a, joins, f, q) /\ g[q] = f[q]
  BY <1>4
<1>6. g = [q \in 1 .. l + 1 |-> g[q]]
  OBVIOUS
<1> HIDE DEF g
<1>7. \A q \in 1 .. l + 1 : g[q] = Walk(nx, a, joins, g, q)
  <2> TAKE q \in 1 .. l + 1
  <2>1. nx[q] # 0 => nx[q] \in 1 .. l + 1
    OBVIOUS
  <2>2. nx[q] # 0 => f[nx[q]] = g[nx[q]]
    BY <1>5, <2>1
  <2> QED
    BY <1>1, <1>5, <2>2
<1>8. IsWalk(l, nx, a, joins, g)
  BY <1>6, <1>7 DEF IsWalk
<1> QED
  BY <1>8

-----------------------------------------------------------------------------
(* What fgets reads.                                                       *)

LEMMA FirstInIs ==
  ASSUME NEW s, Len(s) \in Nat, NEW p \in 1 .. Len(s) + 1, NEW B
  PROVE  /\ FirstIn(s, p, B) \in p .. Len(s) + 1
         /\ FirstIn(s, p, B) <= Len(s) => s[FirstIn(s, p, B)] \in B
         /\ \A q \in p .. Len(s) : s[q] \in B => FirstIn(s, p, B) <= q
<1> DEFINE T == {q \in p .. Len(s) : s[q] \in B}
<1>1. T \in SUBSET (p .. Len(s)) /\ \A q : q \in T <=> q \in p .. Len(s) /\ s[q] \in B
  OBVIOUS
<1>2. FirstIn(s, p, B) = Min(T \cup {Len(s) + 1})
  BY DEF FirstIn
<1> HIDE DEF T
<1>3. /\ Min(T \cup {Len(s) + 1}) \in p .. Len(s) + 1
      /\ Min(T \cup {Len(s) + 1}) <= Len(s) => Min(T \cup {Len(s) + 1}) \in T
      /\ \A q \in T : Min(T \cup {Len(s) + 1}) <= q
  BY <1>1, FirstOf
<1> QED
  BY <1>1, <1>2, <1>3

LEMMA FirstOutIs ==
  ASSUME NEW s, Len(s) \in Nat, NEW p \in 1 .. Len(s) + 1, NEW B
  PROVE  /\ FirstOut(s, p, B) \in p .. Len(s) + 1
         /\ FirstOut(s, p, B) <= Len(s) => s[FirstOut(s, p, B)] \notin B
         /\ \A q \in p .. Len(s) : s[q] \notin B => FirstOut(s, p, B) <= q
<1> DEFINE T == {q \in p .. Len(s) : s[q] \notin B}
<1>1. T \in SUBSET (p .. Len(s)) /\ \A q : q \in T <=> q \in p .. Len(s) /\ s[q] \notin B
  OBVIOUS
<1>2. FirstOut(s, p, B) = Min(T \cup {Len(s) + 1})
  BY DEF FirstOut
<1> HIDE DEF T
<1>3. /\ Min(T \cup {Len(s) + 1}) \in p .. Len(s) + 1
      /\ Min(T \cup {Len(s) + 1}) <= Len(s) => Min(T \cup {Len(s) + 1}) \in T
      /\ \A q \in T : Min(T \cup {Len(s) + 1}) <= q
  BY <1>1, FirstOf
<1> QED
  BY <1>1, <1>2, <1>3

\* The piece that begins at p is as long as it can get, whatever follows it.
Ends(f, p) == f[LineEnd(f, p)] = "nl" \/ LineEnd(f, p) = p + LineCap - 2

LEMMA LineEndIs ==
  ASSUME NEW f, Len(f) \in Nat, NEW p \in 1 .. Len(f)
  PROVE  /\ LineEnd(f, p) \in p .. Len(f) /\ LineEnd(f, p) <= p + LineCap - 2
         /\ \A q \in p .. Len(f) : f[q] = "nl" => LineEnd(f, p) <= q
         /\ Ends(f, p) \/ LineEnd(f, p) = Len(f)
<1> DEFINE n == FirstIn(f, p, {"nl"})
           T == {n, p + LineCap - 2, Len(f)}
<1>1. LineCap \in Nat /\ LineCap >= 2
  BY CsvAssumption
<1>2. /\ n \in p .. Len(f) + 1
      /\ n <= Len(f) => f[n] \in {"nl"}
      /\ \A q \in p .. Len(f) : f[q] \in {"nl"} => n <= q
  BY FirstInIs
<1>3. LineEnd(f, p) = Min(T)
  BY DEF LineEnd
<1> HIDE DEF n
<1>4. T \in SUBSET Nat /\ T # {} /\ \A x \in T : x >= p
  BY <1>1, <1>2
<1> DEFINE e == Min(T)
<1>5. e \in T /\ \A x \in T : e <= x
  <2> HIDE DEF T
  <2> QED
    BY <1>4, MinIsLeast
<1> HIDE DEF e
<1>6. e \in p .. Len(f) /\ e <= p + LineCap - 2 /\ e <= n
  BY <1>1, <1>4, <1>5
<1>7. e = n \/ e = p + LineCap - 2 \/ e = Len(f)
  BY <1>5
<1>8. e = n => f[e] = "nl"
  BY <1>2, <1>6
<1>9. \A q \in p .. Len(f) : f[q] = "nl" => e <= q
  BY <1>2, <1>6
<1> QED
  BY <1>3, <1>6, <1>7, <1>8, <1>9 DEF Ends, e

LEMMA PieceIs ==
  ASSUME NEW S, NEW f \in Seq(S), NEW p \in 1 .. Len(f)
  PROVE  /\ fgets(f, p) \in Seq(S)
         /\ Len(fgets(f, p)) = (LineEnd(f, p) - p) + 1
         /\ \A j \in 1 .. (LineEnd(f, p) - p) + 1 : fgets(f, p)[j] = f[(p + j) - 1]
         /\ Len(fgets(f, p)) \in Nat \ {0} /\ p + Len(fgets(f, p)) \in p + 1 .. Len(f) + 1
<1>1. Len(f) \in Nat
  OBVIOUS
<1>2. LineEnd(f, p) \in p .. Len(f)
  BY <1>1, LineEndIs
<1>3. PICK e \in p .. Len(f) : e = LineEnd(f, p)
  BY <1>2
<1>4. p \in Nat \ {0} /\ e \in Nat /\ e <= Len(f) /\ p <= e
  BY <1>1, <1>3
<1>5. /\ SubSeq(f, p, e) \in Seq(S)
      /\ Len(SubSeq(f, p, e)) = IF p <= e THEN (e - p) + 1 ELSE 0
      /\ \A j \in 1 .. (e - p) + 1 : SubSeq(f, p, e)[j] = f[(p + j) - 1]
  BY <1>4, CutOf
<1>6. fgets(f, p) = SubSeq(f, p, e)
  BY <1>3 DEF fgets
<1> QED
  BY <1>1, <1>3, <1>4, <1>5, <1>6

-----------------------------------------------------------------------------
(* A file to which bytes were appended.                                    *)

Extends(g, f) == Len(f) <= Len(g) /\ \A i \in 1 .. Len(f) : g[i] = f[i]

LEMMA AppendedExtends ==
  ASSUME NEW S, NEW f \in Seq(S), NEW t \in Seq(S)
  PROVE  f \o t \in Seq(S) /\ Extends(f \o t, f) /\ Len(f \o t) = Len(f) + Len(t)
<1>1. /\ f \o t \in Seq(S) /\ Len(f \o t) = Len(f) + Len(t)
      /\ \A i \in 1 .. Len(f) + Len(t) : (f \o t)[i] = IF i <= Len(f) THEN f[i] ELSE t[i - Len(f)]
  BY ConcatProperties, LenProperties
<1>2. Len(f) \in Nat /\ Len(t) \in Nat
  OBVIOUS
<1> QED
  BY <1>1, <1>2 DEF Extends

\* The piece that begins at p gets longer only if the file was all it had.
LEMMA PieceGrows ==
  ASSUME NEW S, NEW f \in Seq(S), NEW g \in Seq(S), Extends(g, f), NEW p \in 1 .. Len(f)
  PROVE  /\ Extends(fgets(g, p), fgets(f, p)) /\ p \in 1 .. Len(g)
         /\ Ends(f, p) => fgets(g, p) = fgets(f, p) /\ Ends(g, p)
<1>1. Len(f) \in Nat /\ Len(g) \in Nat /\ Len(f) <= Len(g) /\ p \in 1 .. Len(g)
  BY DEF Extends
<1>2. LineCap \in Nat /\ LineCap >= 2
  BY CsvAssumption
<1> DEFINE d == LineEnd(f, p)
           e == LineEnd(g, p)
<1>3. /\ d \in p .. Len(f) /\ d <= p + LineCap - 2
      /\ \A q \in p .. Len(f) : f[q] = "nl" => d <= q
  BY <1>1, LineEndIs
<1>4. /\ e \in p .. Len(g) /\ e <= p + LineCap - 2
      /\ \A q \in p .. Len(g) : g[q] = "nl" => e <= q
      /\ Ends(g, p) \/ e = Len(g)
  BY <1>1, LineEndIs
<1>5. Ends(f, p) <=> f[d] = "nl" \/ d = p + LineCap - 2
  BY DEF Ends
<1>6. Ends(g, p) <=> g[e] = "nl" \/ e = p + LineCap - 2
  BY DEF Ends
<1> HIDE DEF d, e
<1>7. \A q \in 1 .. Len(f) : g[q] = f[q]
  BY DEF Extends
<1>8. d <= e
  <2> SUFFICES ASSUME e < d
               PROVE  FALSE
    BY <1>3, <1>4
  <2>1. e \in p .. Len(f) /\ e # Len(g) /\ e # p + LineCap - 2
    BY <1>1, <1>2, <1>3, <1>4
  <2>2. f[e] = "nl"
    BY <1>4, <1>6, <1>7, <2>1
  <2> QED
    BY <1>3, <2>1, <2>2
<1>9. ASSUME Ends(f, p)
      PROVE  e = d /\ Ends(g, p)
  <2>1. CASE f[d] = "nl"
    <3>1. g[d] = "nl" /\ d \in p .. Len(g)
      BY <1>1, <1>3, <1>7, <2>1
    <3>2. e <= d
      BY <1>4, <3>1
    <3>3. e = d
      BY <1>3, <1>4, <1>8, <3>2
    <3> QED
      BY <1>6, <3>1, <3>3
  <2>2. CASE d = p + LineCap - 2
    <3>1. e = d
      BY <1>3, <1>4, <1>8, <2>2
    <3> QED
      BY <1>6, <2>2, <3>1
  <2> QED
    BY <1>5, <1>9, <2>1, <2>2
<1> DEFINE x == fgets(f, p)
           y == fgets(g, p)
<1>10. /\ x \in Seq(S) /\ Len(x) = (d - p) + 1
       /\ \A j \in 1 .. (d - p) + 1 : x[j] = f[(p + j) - 1]
  BY PieceIs DEF d
<1>11. /\ y \in Seq(S) /\ Len(y) = (e - p) + 1
       /\ \A j \in 1 .. (e - p) + 1 : y[j] = g[(p + j) - 1]
  BY <1>1, PieceIs DEF e
<1> HIDE DEF x, y
<1>12. ASSUME NEW j \in 1 .. (d - p) + 1
       PROVE  y[j] = x[j]
  <2>1. j \in 1 .. (e - p) + 1 /\ (p + j) - 1 \in 1 .. Len(f)
    BY <1>1, <1>3, <1>4, <1>8
  <2> QED
    BY <1>7, <1>10, <1>11, <2>1
<1>13. Extends(y, x)
  BY <1>3, <1>4, <1>8, <1>10, <1>11, <1>12 DEF Extends
<1>14. e = d => y = x
  BY <1>10, <1>11, <1>12
<1> QED
  BY <1>1, <1>9, <1>13, <1>14 DEF x, y

-----------------------------------------------------------------------------
(* The rows of a file.                                                     *)

IsScan(f, c) ==
  c = [p \in 1 .. Len(f) + 1 |->
        IF p > Len(f) THEN <<>>
        ELSE LET line == fgets(f, p) IN
             (IF is_blank_line(line) THEN <<>> ELSE <<line>>) \o c[p + Len(line)]]

\* The rows from position p on.
Scan(f, p) == (CHOOSE c : IsScan(f, c))[p]

LEMMA ScanExists ==
  ASSUME NEW S, NEW f \in Seq(S)
  PROVE  \E c : IsScan(f, c)
<1> DEFINE l     == Len(f)
           is(p) == IF is_blank_line(fgets(f, p)) THEN <<>> ELSE <<fgets(f, p)>>
           nx    == [p \in 1 .. l + 1 |-> IF p > l THEN 0 ELSE p + Len(fgets(f, p))]
           a     == [p \in 1 .. l + 1 |-> IF p > l THEN <<>> ELSE is(p)]
<1>1. l \in Nat /\ \A p \in 1 .. l : p + Len(fgets(f, p)) \in p + 1 .. l + 1
  BY PieceIs
<1>2. \A p \in 1 .. l + 1 : nx[p] = IF p > l THEN 0 ELSE p + Len(fgets(f, p))
  OBVIOUS
<1>3. \A p \in 1 .. l + 1 : a[p] = IF p > l THEN <<>> ELSE is(p)
  OBVIOUS
<1> HIDE DEF nx, a, l, is
<1>4. \A p \in 1 .. l + 1 : nx[p] \in Nat /\ (nx[p] # 0 => p < nx[p] /\ nx[p] <= l + 1)
  BY <1>1, <1>2
<1>5. PICK c : IsWalk(l, nx, a, TRUE, c)
  BY <1>1, <1>4, WalkEnds
<1>6. \A p \in 1 .. l + 1 :
        Walk(nx, a, TRUE, c, p) = IF p > l THEN <<>> ELSE is(p) \o c[p + Len(fgets(f, p))]
  <2> TAKE p \in 1 .. l + 1
  <2>1. CASE p > l
    BY <1>2, <1>3, <2>1 DEF Walk
  <2>2. CASE ~(p > l)
    <3>1. nx[p] = p + Len(fgets(f, p)) /\ nx[p] # 0 /\ a[p] = is(p)
      BY <1>1, <1>2, <1>3, <2>2, SMTT(40)
    <3> QED
      BY <2>2, <3>1 DEF Walk
  <2> QED
    BY <2>1, <2>2
<1>7. IsScan(f, c)
  BY <1>5, <1>6 DEF IsScan, IsWalk, l, is
<1> QED
  BY <1>7

LEMMA ScanIs ==
  ASSUME NEW S, NEW f \in Seq(S)
  PROVE  /\ DataPieces(f) = Scan(f, 1 + Len(fgets(f, 1)))
         /\ Scan(f, Len(f) + 1) = <<>>
         /\ \A p \in 1 .. Len(f) :
              Scan(f, p) = (IF is_blank_line(fgets(f, p)) THEN <<>> ELSE <<fgets(f, p)>>)
                             \o Scan(f, p + Len(fgets(f, p)))
<1> DEFINE c == CHOOSE d : IsScan(f, d)
<1>1. IsScan(f, c)
  BY ScanExists
<1>2. \A p : Scan(f, p) = c[p]
  BY DEF Scan
<1>3. DataPieces(f) = Scan(f, 1 + Len(fgets(f, 1)))
  BY DEF DataPieces, Scan, IsScan
<1> HIDE DEF c
<1>4. Len(f) \in Nat
  OBVIOUS
<1>5. \A p \in 1 .. Len(f) : p \in 1 .. Len(f) + 1 /\ ~(p > Len(f))
  BY <1>4
<1>6. Len(f) + 1 \in 1 .. Len(f) + 1 /\ Len(f) + 1 > Len(f)
  BY <1>4
<1> QED
  BY <1>1, <1>2, <1>3, <1>5, <1>6 DEF IsScan

\* What holds at a position if it holds at all later ones holds at all of them.
LEMMA Downwards ==
  ASSUME NEW l \in Nat, NEW G, \A p \in 1 .. l + 1 : (\A q \in p + 1 .. l + 1 : q \in G) => p \in G
  PROVE  \A p \in 1 .. l + 1 : p \in G
<1> SUFFICES ASSUME \E p \in 1 .. l + 1 : p \notin G
             PROVE  FALSE
  OBVIOUS
<1> DEFINE T == {k \in 0 .. l : (l + 1) - k \notin G}
<1>1. T \in SUBSET Nat /\ T # {}
  <2>1. PICK p \in 1 .. l + 1 : p \notin G
    OBVIOUS
  <2>2. (l + 1) - p \in 0 .. l /\ (l + 1) - ((l + 1) - p) = p
    OBVIOUS
  <2>3. (l + 1) - p \in T
    BY <2>1, <2>2
  <2>4. 0 .. l \subseteq Nat /\ T \subseteq 0 .. l
    OBVIOUS
  <2> HIDE DEF T
  <2> QED
    BY <2>3, <2>4
<1>2. PICK k \in T : \A j \in T : k <= j
  BY <1>1, LeastNat
<1>3. PICK p \in 1 .. l + 1 : p = (l + 1) - k
  OBVIOUS
<1>4. ASSUME NEW q \in p + 1 .. l + 1
      PROVE  q \in G
  <2>1. (l + 1) - q \in 0 .. l /\ (l + 1) - ((l + 1) - q) = q /\ (l + 1) - q < k
    BY <1>3
  <2>2. (l + 1) - q \notin T
    BY <1>2, <2>1
  <2> QED
    BY <2>1, <2>2
<1> QED
  BY <1>2, <1>3, <1>4

LEMMA ScanTypes ==
  ASSUME NEW S, NEW f \in Seq(S)
  PROVE  \A p \in 1 .. Len(f) + 1 : Scan(f, p) \in Seq(Seq(S))
<1> DEFINE l == Len(f)
           G == {p \in 1 .. l + 1 : Scan(f, p) \in Seq(Seq(S))}
<1>1. l \in Nat
  OBVIOUS
<1>2. ASSUME NEW p \in 1 .. l + 1, \A q \in p + 1 .. l + 1 : q \in G
      PROVE  p \in G
  <2>1. CASE p = l + 1
    <3>1. Scan(f, p) = <<>>
      BY <2>1, ScanIs
    <3>2. <<>> \in Seq(Seq(S))
      OBVIOUS
    <3> QED
      BY <3>1, <3>2
  <2>2. CASE p # l + 1
    <3>1. p \in 1 .. l
      BY <1>1, <2>2
    <3>2. fgets(f, p) \in Seq(S) /\ p + Len(fgets(f, p)) \in p + 1 .. l + 1
      BY <3>1, PieceIs
    <3> DEFINE i == IF is_blank_line(fgets(f, p)) THEN <<>> ELSE <<fgets(f, p)>>
    <3>3. Scan(f, p) = i \o Scan(f, p + Len(fgets(f, p)))
      BY <3>1, ScanIs
    <3>4. Scan(f, p + Len(fgets(f, p))) \in Seq(Seq(S)) /\ i \in Seq(Seq(S))
      BY <1>2, <3>2
    <3> HIDE DEF i
    <3>5. Scan(f, p) \in Seq(Seq(S))
      BY <3>3, <3>4, ConcatProperties
    <3> QED
      BY <3>5
  <2> QED
    BY <2>1, <2>2
<1> HIDE DEF l, G
<1>3. \A p \in 1 .. l + 1 : p \in G
  BY <1>1, <1>2, Downwards
<1> QED
  BY <1>3 DEF l, G

\* Two lists of pieces agree but for the last piece of the first, if whole says
\* so not even for that.
Agree(S, x, y, whole) ==
  \E a \in Seq(S), b \in Seq(S), r \in Seq(S) :
    x = a \o b /\ y = a \o r /\ Len(b) <= 1 /\ (whole => b = <<>>)

LEMMA AgreeBy ==
  ASSUME NEW S, NEW a \in Seq(S), NEW b \in Seq(S), NEW r \in Seq(S), Len(b) <= 1,
         NEW whole, whole => b = <<>>
  PROVE  Agree(S, a \o b, a \o r, whole)
BY DEF Agree

LEMMA ScansAgree ==
  ASSUME NEW S, NEW f \in Seq(S), NEW g \in Seq(S), Extends(g, f)
  PROVE  \A p \in 1 .. Len(f) + 1 :
           Agree(Seq(S), Scan(f, p), Scan(g, p), f[Len(f)] = "nl")
<1> DEFINE l == Len(f)
           W == f[l] = "nl"
           P == Seq(S)
           G == {p \in 1 .. l + 1 : Agree(P, Scan(f, p), Scan(g, p), W)}
<1>1. l \in Nat /\ Len(g) \in Nat /\ l <= Len(g)
  BY DEF Extends
<1>2. ASSUME NEW p \in 1 .. l + 1, \A q \in p + 1 .. l + 1 : q \in G
      PROVE  Agree(P, Scan(f, p), Scan(g, p), W)
  <2>0. p \in 1 .. Len(g) + 1 /\ <<>> \in Seq(P) /\ Len(<<>>) = 0
    BY <1>1
  <2>1. Scan(g, p) \in Seq(P) /\ Scan(f, p) \in Seq(P)
    BY <2>0, ScanTypes
  <2>2. Scan(g, p) = <<>> \o Scan(g, p)
    BY <2>1, ConcatEmptySeq
  <2>3. CASE p = l + 1
    <3>1. Scan(f, p) = <<>> /\ <<>> = <<>> \o <<>>
      BY <2>0, <2>3, ScanIs, ConcatEmptySeq
    <3> HIDE DEF P
    <3>2. PICK e \in Seq(P) : e = <<>> /\ Len(e) <= 1
      <4>1. <<>> \in Seq(P) /\ Len(<<>>) <= 1
        OBVIOUS
      <4> QED
        BY <4>1
    <3>3. Agree(P, e \o e, e \o Scan(g, p), W)
      BY <2>1, <3>2, AgreeBy
    <3> QED
      BY <2>2, <3>1, <3>2, <3>3
  <2>4. CASE p # l + 1
    <3>1. p \in 1 .. l /\ p \in 1 .. Len(g)
      BY <1>1, <2>4
    <3> DEFINE x == fgets(f, p)
               i == IF is_blank_line(x) THEN <<>> ELSE <<x>>
    <3>2. x \in P /\ p + Len(x) \in p + 1 .. l + 1 /\ Len(x) = (LineEnd(f, p) - p) + 1
      BY <3>1, PieceIs
    <3>3. i \in Seq(P) /\ Len(i) <= 1
      BY <3>2
    <3>4. Scan(f, p) = i \o Scan(f, p + Len(x))
      BY <3>1, ScanIs
    <3>5. CASE Ends(f, p)
      <4>1. fgets(g, p) = x
        BY <3>1, <3>5, PieceGrows
      <4>2. Scan(g, p) = i \o Scan(g, p + Len(x))
        BY <3>1, <4>1, ScanIs
      <4>3. p + Len(x) \in G
        BY <1>2, <3>2
      <4> HIDE DEF x, i, W, P
      <4>4. PICK a \in Seq(P), b \in Seq(P), r \in Seq(P) :
              /\ Scan(f, p + Len(x)) = a \o b /\ Scan(g, p + Len(x)) = a \o r
              /\ Len(b) <= 1 /\ (W => b = <<>>)
        BY <4>3 DEF Agree
      <4>7. i \o a \in Seq(P)
        BY <3>3, ConcatProperties
      <4>8. (i \o a) \o b = i \o (a \o b)
        BY <3>3, ConcatAssociative
      <4>9. (i \o a) \o r = i \o (a \o r)
        BY <3>3, ConcatAssociative, SMTT(40)
      <4>6. Scan(f, p) = (i \o a) \o b /\ Scan(g, p) = (i \o a) \o r
        BY <3>4, <4>2, <4>4, <4>8, <4>9
      <4>10. Agree(P, (i \o a) \o b, (i \o a) \o r, W)
        BY <4>4, <4>7, AgreeBy
      <4> QED
        BY <4>6, <4>10
    <3>6. CASE ~Ends(f, p)
      <4>1. LineEnd(f, p) = l /\ ~W
        BY <1>1, <3>1, <3>6, LineEndIs DEF Ends
      <4>2. p + Len(x) = l + 1
        BY <1>1, <3>1, <3>2, <4>1
      <4>3. Scan(f, p + Len(x)) = <<>>
        BY <4>2, ScanIs
      <4> HIDE DEF x, i, W, P
      <4>4. i \o <<>> = i /\ <<>> \o i = i
        BY <3>3, ConcatEmptySeq
      <4>5. Scan(f, p) = <<>> \o i
        BY <3>4, <4>3, <4>4
      <4>6. Agree(P, <<>> \o i, <<>> \o Scan(g, p), W)
        BY <2>0, <2>1, <3>3, <4>1, AgreeBy
      <4> QED
        BY <2>2, <4>5, <4>6
    <3> QED
      BY <3>5, <3>6
  <2> QED
    BY <2>3, <2>4
<1>3. \A p \in 1 .. l + 1 : (\A q \in p + 1 .. l + 1 : q \in G) => p \in G
  BY <1>2
<1> HIDE DEF l, G
<1>4. \A p \in 1 .. l + 1 : p \in G
  BY <1>1, <1>3, Downwards
<1> QED
  BY <1>4 DEF l, G

LEMMA PiecesAgree ==
  ASSUME NEW S, NEW f \in Seq(S), NEW g \in Seq(S), Extends(g, f), f # <<>>
  PROVE  Agree(Seq(S), DataPieces(f), DataPieces(g), f[Len(f)] = "nl")
<1>1. 1 \in 1 .. Len(f) /\ 1 \in 1 .. Len(g) /\ Len(f) \in Nat /\ Len(g) \in Nat
  BY DEF Extends
<1> DEFINE x == fgets(f, 1)
           W == f[Len(f)] = "nl"
           P == Seq(S)
<1>2. x \in Seq(S) /\ 1 + Len(x) \in 2 .. Len(f) + 1 /\ Len(x) = (LineEnd(f, 1) - 1) + 1
  BY <1>1, PieceIs
<1>3. CASE Ends(f, 1)
  <2>1. fgets(g, 1) = x
    BY <1>1, <1>3, PieceGrows
  <2>2. DataPieces(f) = Scan(f, 1 + Len(x)) /\ DataPieces(g) = Scan(g, 1 + Len(x))
    BY <2>1, ScanIs
  <2> HIDE DEF x
  <2>3. 1 + Len(x) \in 1 .. Len(f) + 1
    BY <1>2
  <2> QED
    BY <2>2, <2>3, ScansAgree
<1>4. CASE ~Ends(f, 1)
  <2>1. LineEnd(f, 1) = Len(f) /\ ~W
    BY <1>1, <1>4, LineEndIs DEF Ends
  <2>2. 1 + Len(x) = Len(f) + 1
    BY <1>1, <1>2, <2>1
  <2>3. DataPieces(f) = <<>>
    BY <2>2, ScanIs
  <2>4. fgets(g, 1) \in Seq(S) /\ 1 + Len(fgets(g, 1)) \in 1 .. Len(g) + 1
    BY <1>1, PieceIs
  <2>5. DataPieces(g) \in Seq(P)
    <3>1. DataPieces(g) = Scan(g, 1 + Len(fgets(g, 1)))
      BY ScanIs
    <3> QED
      BY <2>4, <3>1, ScanTypes
  <2> HIDE DEF P
  <2>6. PICK e \in Seq(P) : e = <<>> /\ Len(e) <= 1 /\ e \o e = e
    <3>1. <<>> \in Seq(P) /\ Len(<<>>) <= 1
      OBVIOUS
    <3> QED
      BY <3>1, ConcatEmptySeq
  <2>7. Agree(P, e \o e, e \o DataPieces(g), W)
    BY <2>5, <2>6, AgreeBy
  <2>8. e \o DataPieces(g) = DataPieces(g)
    BY <2>5, <2>6, ConcatEmptySeq
  <2> QED
    BY <2>3, <2>6, <2>7, <2>8 DEF P
<1> QED
  BY <1>3, <1>4

\* The rows are sequences of the cells of the pieces.
LEMMA RowsAre ==
  ASSUME NEW S, NEW f \in Seq(S), f # <<>>
  PROVE  /\ DataPieces(f) \in Seq(Seq(S))
         /\ Len(Rows(f)) = Len(DataPieces(f)) /\ data_row_count(f) = Len(DataPieces(f))
         /\ DOMAIN Rows(f) = 1 .. Len(DataPieces(f)) /\ Rows(f) \in Seq({Rows(f)[k] : k \in DOMAIN Rows(f)})
         /\ \A k \in 1 .. Len(DataPieces(f)) : Rows(f)[k] = parse_csv_line(DataPieces(f)[k])
<1>1. 1 \in 1 .. Len(f)
  OBVIOUS
<1>2. DataPieces(f) \in Seq(Seq(S))
  <2>1. fgets(f, 1) \in Seq(S) /\ 1 + Len(fgets(f, 1)) \in 1 .. Len(f) + 1
    BY <1>1, PieceIs
  <2>2. DataPieces(f) = Scan(f, 1 + Len(fgets(f, 1)))
    BY ScanIs
  <2> QED
    BY <2>1, <2>2, ScanTypes
<1> DEFINE d == DataPieces(f)
           cells(k) == parse_csv_line(d[k])
<1>3. Rows(f) = [k \in DOMAIN d |-> cells(k)] /\ data_row_count(f) = Len(d)
  BY DEF Rows, data_row_count
<1> HIDE DEF cells
<1>4. d \in Seq(Seq(S))
  BY <1>2
<1> HIDE DEF d
<1>5. PICK n \in Nat : n = Len(d) /\ DOMAIN d = 1 .. n
  BY <1>4
<1> DEFINE v == {cells(k) : k \in 1 .. n}
<1>6. \A r : r = [k \in 1 .. n |-> cells(k)] =>
        Len(r) = n /\ DOMAIN r = 1 .. n /\ r \in Seq(v) /\ \A k \in 1 .. n : r[k] = cells(k)
  OBVIOUS
<1>7. Rows(f) = [k \in 1 .. n |-> cells(k)]
  BY <1>3, <1>5
<1>8. /\ Len(Rows(f)) = n /\ DOMAIN Rows(f) = 1 .. n /\ Rows(f) \in Seq(v)
      /\ \A k \in 1 .. n : Rows(f)[k] = cells(k)
  BY <1>6, <1>7
<1>9. v = {Rows(f)[k] : k \in 1 .. n}
  BY <1>8
<1> HIDE DEF v
<1>10. Rows(f) \in Seq({Rows(f)[k] : k \in DOMAIN Rows(f)})
  BY <1>8, <1>9
<1> QED
  BY <1>3, <1>4, <1>5, <1>8, <1>10 DEF d, cells

\* A row other than the last one, and the last one too after a line feed, is
\* the same in a file to which bytes were appended.
LEMMA RowsKept ==
  ASSUME NEW S, NEW f \in Seq(S), NEW g \in Seq(S), Extends(g, f), f # <<>>
  PROVE  \A k \in 1 .. Len(Rows(f)) :
           k < Len(Rows(f)) \/ f[Len(f)] = "nl" => k \in 1 .. Len(Rows(g)) /\ Rows(g)[k] = Rows(f)[k]
<1>0. g # <<>>
  BY DEF Extends
<1> DEFINE W == f[Len(f)] = "nl"
<1>1. PICK a \in Seq(Seq(S)), b \in Seq(Seq(S)), r \in Seq(Seq(S)) :
        DataPieces(f) = a \o b /\ DataPieces(g) = a \o r /\ Len(b) <= 1 /\ (W => b = <<>>)
  BY PiecesAgree DEF Agree
<1> HIDE DEF W
<1>2. /\ Len(a \o b) = Len(a) + Len(b) /\ Len(a \o r) = Len(a) + Len(r)
      /\ Len(a) \in Nat /\ Len(b) \in Nat /\ Len(r) \in Nat
      /\ \A k \in 1 .. Len(a) + Len(b) : (a \o b)[k] = IF k <= Len(a) THEN a[k] ELSE b[k - Len(a)]
      /\ \A k \in 1 .. Len(a) + Len(r) : (a \o r)[k] = IF k <= Len(a) THEN a[k] ELSE r[k - Len(a)]
  BY ConcatProperties, LenProperties
<1>3. /\ Len(Rows(f)) = Len(a) + Len(b)
      /\ \A k \in 1 .. Len(a) + Len(b) : Rows(f)[k] = parse_csv_line((a \o b)[k])
  BY <1>1, <1>2, RowsAre, ZenonT(60)
<1>4. /\ Len(Rows(g)) = Len(a) + Len(r)
      /\ \A k \in 1 .. Len(a) + Len(r) : Rows(g)[k] = parse_csv_line((a \o r)[k])
  BY <1>0, <1>1, <1>2, RowsAre
<1>5. ASSUME NEW k \in 1 .. Len(Rows(f)), k < Len(Rows(f)) \/ W
      PROVE  k \in 1 .. Len(Rows(g)) /\ Rows(g)[k] = Rows(f)[k]
  <2>1. k <= Len(a)
    BY <1>1, <1>2, <1>3, <1>5
  <2>2. k \in 1 .. Len(a) + Len(b) /\ k \in 1 .. Len(a) + Len(r)
    BY <1>2, <2>1
  <2>3. (a \o b)[k] = a[k] /\ (a \o r)[k] = a[k]
    BY <1>2, <2>1, <2>2
  <2> QED
    BY <1>3, <1>4, <2>2, <2>3
<1> QED
  BY <1>5 DEF W

-----------------------------------------------------------------------------
(* Where a cell ends.                                                      *)

\* The quote that ends a quoted cell of which the bytes before q are read, and
\* the text from q on.
IsClosing(s, f) ==
  f = [q \in 1 .. Len(s) + 1 |->
        IF q > Len(s) \/ Closes(s, q) THEN q ELSE f[q + Width(s, q)]]

IsText(s, f) ==
  f = [q \in 1 .. Len(s) + 1 |->
        IF q > Len(s) \/ Closes(s, q) THEN <<>> ELSE <<s[q]>> \o f[q + Width(s, q)]]

CloseFrom(s, q) == (CHOOSE f : IsClosing(s, f))[q]
TextFrom(s, q)  == (CHOOSE f : IsText(s, f))[q]

LEMMA NextByte ==
  ASSUME NEW s, Len(s) \in Nat, NEW q \in 1 .. Len(s), ~Closes(s, q)
  PROVE  q + Width(s, q) \in q + 1 .. Len(s) + 1
<1>1. CASE s[q] # Quote
  BY <1>1 DEF Width
<1>2. CASE s[q] = Quote
  <2>1. q < Len(s)
    BY <1>2 DEF Closes
  <2> QED
    BY <1>2, <2>1 DEF Width
<1> QED
  BY <1>1, <1>2

LEMMA ClosingExists ==
  ASSUME NEW s, Len(s) \in Nat
  PROVE  (\E f : IsClosing(s, f)) /\ (\E f : IsText(s, f))
<1> DEFINE l  == Len(s)
           Stops(q) == q > l \/ Closes(s, q)
           nx == [q \in 1 .. l + 1 |-> IF Stops(q) THEN 0 ELSE q + Width(s, q)]
           a  == [q \in 1 .. l + 1 |-> q]
           b  == [q \in 1 .. l + 1 |-> IF Stops(q) THEN <<>> ELSE <<s[q]>>]
<1>1. \A q \in 1 .. l + 1 : ~Stops(q) => q + Width(s, q) \in q + 1 .. l + 1
  BY NextByte
<1>2. \A q \in 1 .. l + 1 : nx[q] = IF Stops(q) THEN 0 ELSE q + Width(s, q)
  OBVIOUS
<1>3. \A q \in 1 .. l + 1 : a[q] = q /\ b[q] = IF Stops(q) THEN <<>> ELSE <<s[q]>>
  OBVIOUS
<1>4. l \in Nat
  OBVIOUS
<1> HIDE DEF nx, a, b, l
<1>5. \A q \in 1 .. l + 1 : nx[q] \in Nat /\ (nx[q] # 0 => q < nx[q] /\ nx[q] <= l + 1)
  <2> HIDE DEF Stops
  <2> QED
    BY <1>1, <1>2, <1>4
<1>6. PICK f : IsWalk(l, nx, a, FALSE, f)
  BY <1>4, <1>5, WalkEnds
<1>7. PICK g : IsWalk(l, nx, b, TRUE, g)
  BY <1>4, <1>5, WalkEnds
<1>8. ASSUME NEW q \in 1 .. l + 1
      PROVE  /\ Walk(nx, a, FALSE, f, q) = IF Stops(q) THEN q ELSE f[q + Width(s, q)]
             /\ Walk(nx, b, TRUE, g, q) = IF Stops(q) THEN <<>> ELSE <<s[q]>> \o g[q + Width(s, q)]
  <2> HIDE DEF Stops
  <2>1. CASE Stops(q)
    BY <1>2, <1>3, <2>1 DEF Walk
  <2>2. CASE ~Stops(q)
    <3>1. nx[q] = q + Width(s, q) /\ nx[q] # 0
      BY <1>1, <1>2, <1>4, <2>2
    <3> QED
      BY <1>3, <2>2, <3>1 DEF Walk
  <2> QED
    BY <2>1, <2>2
<1>9. IsClosing(s, f)
  BY <1>6, <1>8 DEF IsClosing, IsWalk, l
<1>10. IsText(s, g)
  BY <1>7, <1>8 DEF IsText, IsWalk, l
<1> QED
  BY <1>9, <1>10

LEMMA ClosingIs ==
  ASSUME NEW s, Len(s) \in Nat
  PROVE  /\ \A p : ClosingQuote(s, p) = CloseFrom(s, p + 1) /\ QuotedText(s, p) = TextFrom(s, p + 1)
         /\ \A q \in 1 .. Len(s) + 1 :
              /\ CloseFrom(s, q) = IF q > Len(s) \/ Closes(s, q) THEN q ELSE CloseFrom(s, q + Width(s, q))
              /\ TextFrom(s, q) = IF q > Len(s) \/ Closes(s, q) THEN <<>>
                                  ELSE <<s[q]>> \o TextFrom(s, q + Width(s, q))
<1> DEFINE c == CHOOSE f : IsClosing(s, f)
           d == CHOOSE f : IsText(s, f)
<1>1. IsClosing(s, c) /\ IsText(s, d)
  BY ClosingExists
<1>2. \A q : CloseFrom(s, q) = c[q] /\ TextFrom(s, q) = d[q]
  BY DEF CloseFrom, TextFrom
<1>3. \A p : ClosingQuote(s, p) = CloseFrom(s, p + 1) /\ QuotedText(s, p) = TextFrom(s, p + 1)
  BY DEF ClosingQuote, QuotedText, CloseFrom, TextFrom, IsClosing, IsText
<1> HIDE DEF c, d
<1> QED
  BY <1>1, <1>2, <1>3, ZenonT(60) DEF IsClosing, IsText

LEMMA CloseFromIn ==
  ASSUME NEW s, Len(s) \in Nat
  PROVE  \A q \in 1 .. Len(s) + 1 : CloseFrom(s, q) \in q .. Len(s) + 1
<1> DEFINE l == Len(s)
           G == {q \in 1 .. l + 1 : CloseFrom(s, q) \in q .. l + 1}
<1>1. ASSUME NEW q \in 1 .. l + 1, \A r \in q + 1 .. l + 1 : r \in G
      PROVE  q \in G
  <2>1. CloseFrom(s, q) = IF q > l \/ Closes(s, q) THEN q ELSE CloseFrom(s, q + Width(s, q))
    BY ClosingIs
  <2>2. CASE q > l \/ Closes(s, q)
    BY <2>1, <2>2
  <2>3. CASE ~(q > l \/ Closes(s, q))
    <3>1. PICK r \in q + 1 .. l + 1 : r = q + Width(s, q)
      BY <2>3, NextByte
    <3>2. CloseFrom(s, r) \in r .. l + 1
      BY <1>1
    <3>3. r .. l + 1 \subseteq q .. l + 1
      OBVIOUS
    <3>4. CloseFrom(s, q) \in q .. l + 1
      BY <2>1, <2>3, <3>1, <3>2, <3>3
    <3> QED
      BY <3>4
  <2> QED
    BY <2>2, <2>3
<1>2. \A q \in 1 .. l + 1 : (\A r \in q + 1 .. l + 1 : r \in G) => q \in G
  BY <1>1
<1> HIDE DEF G
<1>3. \A q \in 1 .. l + 1 : q \in G
  BY <1>2, Downwards
<1> QED
  BY <1>3 DEF G

LEMMA ClosingQuoteIs ==
  ASSUME NEW s, Len(s) \in Nat, NEW p \in 1 .. Len(s)
  PROVE  ClosingQuote(s, p) \in p + 1 .. Len(s) + 1
<1>1. PICK q \in 1 .. Len(s) + 1 : q = p + 1
  OBVIOUS
<1> QED
  BY <1>1, ClosingIs, CloseFromIn

LEMMA CellEndIs ==
  ASSUME NEW s, Len(s) \in Nat, NEW p \in 1 .. Len(s) + 1
  PROVE  CellEnd(s, p) \in p .. Len(s) + 1
<1>1. CASE ~Quoted(s, p)
  BY <1>1, FirstInIs DEF CellEnd
<1>2. CASE Quoted(s, p)
  <2>1. p \in 1 .. Len(s)
    BY <1>2 DEF Quoted
  <2>2. ClosingQuote(s, p) \in p + 1 .. Len(s) + 1
    BY <2>1, ClosingQuoteIs
  <2>3. CASE ClosingQuote(s, p) > Len(s)
    BY <1>2, <2>3 DEF CellEnd
  <2>4. CASE ~(ClosingQuote(s, p) > Len(s))
    <3>1. PICK q \in 1 .. Len(s) + 1 : q = ClosingQuote(s, p) + 1 /\ q > p
      BY <2>2, <2>4
    <3>2. FirstOut(s, q, {" "}) \in q .. Len(s) + 1
      BY FirstOutIs
    <3>3. CellEnd(s, p) = FirstOut(s, q, {" "})
      BY <1>2, <2>4, <3>1 DEF CellEnd
    <3>4. q .. Len(s) + 1 \subseteq p .. Len(s) + 1
      BY <3>1
    <3> QED
      BY <3>2, <3>3, <3>4
  <2> QED
    BY <2>3, <2>4
<1> QED
  BY <1>1, <1>2

LEMMA FirstInGrows ==
  ASSUME NEW s, NEW u, Len(s) \in Nat, Len(u) \in Nat, Extends(u, s), NEW p \in 1 .. Len(s) + 1, NEW B,
         p \in 1 .. Len(u) + 1
  PROVE  /\ FirstIn(s, p, B) <= Len(s) => FirstIn(u, p, B) = FirstIn(s, p, B)
         /\ FirstIn(s, p, B) > Len(s) => FirstIn(u, p, B) > Len(s)
<1> DEFINE m == FirstIn(s, p, B)
           n == FirstIn(u, p, B)
<1>1. /\ m \in p .. Len(s) + 1
      /\ m <= Len(s) => s[m] \in B
      /\ \A q \in p .. Len(s) : s[q] \in B => m <= q
  BY FirstInIs
<1>2. /\ n \in p .. Len(u) + 1
      /\ n <= Len(u) => u[n] \in B
      /\ \A q \in p .. Len(u) : u[q] \in B => n <= q
  BY FirstInIs
<1> HIDE DEF m, n
<1>3. Len(s) <= Len(u) /\ \A q \in 1 .. Len(s) : u[q] = s[q]
  BY DEF Extends
<1>4. n <= Len(s) => m <= n
  BY <1>1, <1>2, <1>3
<1>5. m <= Len(s) => n <= m
  BY <1>1, <1>2, <1>3
<1> QED
  BY <1>1, <1>2, <1>4, <1>5 DEF m, n

LEMMA FirstOutGrows ==
  ASSUME NEW s, NEW u, Len(s) \in Nat, Len(u) \in Nat, Extends(u, s), NEW p \in 1 .. Len(s) + 1, NEW B,
         p \in 1 .. Len(u) + 1
  PROVE  /\ FirstOut(s, p, B) <= Len(s) => FirstOut(u, p, B) = FirstOut(s, p, B)
         /\ FirstOut(s, p, B) > Len(s) => FirstOut(u, p, B) > Len(s)
<1> DEFINE m == FirstOut(s, p, B)
           n == FirstOut(u, p, B)
<1>1. /\ m \in p .. Len(s) + 1
      /\ m <= Len(s) => s[m] \notin B
      /\ \A q \in p .. Len(s) : s[q] \notin B => m <= q
  BY FirstOutIs
<1>2. /\ n \in p .. Len(u) + 1
      /\ n <= Len(u) => u[n] \notin B
      /\ \A q \in p .. Len(u) : u[q] \notin B => n <= q
  BY FirstOutIs
<1> HIDE DEF m, n
<1>3. Len(s) <= Len(u) /\ \A q \in 1 .. Len(s) : u[q] = s[q]
  BY DEF Extends
<1>4. n <= Len(s) => m <= n
  BY <1>1, <1>2, <1>3
<1>5. m <= Len(s) => n <= m
  BY <1>1, <1>2, <1>3
<1> QED
  BY <1>1, <1>2, <1>4, <1>5 DEF m, n

\* A quote that ends a cell still does with a line feed after the line.
LEMMA ClosingWithLineFeed ==
  ASSUME NEW s, NEW u, Len(s) \in Nat, Len(u) = Len(s) + 1, Extends(u, s), u[Len(u)] = "nl"
  PROVE  \A q \in 1 .. Len(s) + 1 :
           /\ CloseFrom(s, q) <= Len(s) => CloseFrom(u, q) = CloseFrom(s, q)
           /\ CloseFrom(s, q) > Len(s) => CloseFrom(u, q) > Len(u)
<1> DEFINE l == Len(s)
           Same(q) == /\ CloseFrom(s, q) <= l => CloseFrom(u, q) = CloseFrom(s, q)
                      /\ CloseFrom(s, q) > l => CloseFrom(u, q) > Len(u)
           G == {q \in 1 .. l + 1 : Same(q)}
<1>1. l \in Nat /\ Len(u) = l + 1 /\ Len(u) \in Nat /\ Quote # "nl"
  BY DEF Quote
<1>2. \A q \in 1 .. l : u[q] = s[q]
  BY DEF Extends
<1>3. ASSUME NEW q \in 1 .. l
      PROVE  (Closes(u, q) <=> Closes(s, q)) /\ Width(u, q) = Width(s, q)
  <2>1. u[q] = s[q] /\ q < Len(u)
    BY <1>1, <1>2
  <2>2. CASE q < l
    <3>1. u[q + 1] = s[q + 1]
      BY <1>1, <1>2, <2>2
    <3> QED
      BY <2>1, <2>2, <3>1 DEF Closes, Width
  <2>3. CASE q = l
    <3>1. u[q + 1] # Quote /\ ~(q < l)
      BY <1>1, <2>3
    <3> QED
      BY <2>1, <3>1 DEF Closes, Width
  <2> QED
    BY <1>1, <2>2, <2>3
<1>4. ASSUME NEW q \in 1 .. l + 1, \A r \in q + 1 .. l + 1 : r \in G
      PROVE  Same(q)
  <2>1. CloseFrom(s, q) = IF q > l \/ Closes(s, q) THEN q ELSE CloseFrom(s, q + Width(s, q))
    BY ClosingIs
  <2>2. q \in 1 .. Len(u) + 1
    BY <1>1
  <2>3. CloseFrom(u, q) = IF q > Len(u) \/ Closes(u, q) THEN q ELSE CloseFrom(u, q + Width(u, q))
    BY <1>1, <2>2, ClosingIs
  <2>4. CASE q = l + 1
    <3>1. CloseFrom(s, q) = q /\ q > l
      BY <1>1, <2>1, <2>4
    <3>2. ~Closes(u, q) /\ Width(u, q) = 1 /\ ~(q > Len(u))
      BY <1>1, <2>4 DEF Closes, Width
    <3>3. PICK r \in 1 .. Len(u) + 1 : r = q + 1 /\ r > Len(u)
      BY <1>1, <2>4
    <3>4. CloseFrom(u, r) = r
      BY <1>1, <3>3, ClosingIs
    <3>5. CloseFrom(u, q) = r
      BY <2>3, <3>2, <3>3, <3>4
    <3> QED
      BY <3>1, <3>3, <3>5
  <2>5. CASE q \in 1 .. l
    <3>1. (Closes(u, q) <=> Closes(s, q)) /\ Width(u, q) = Width(s, q) /\ ~(q > l) /\ ~(q > Len(u))
      BY <1>1, <1>3, <2>5
    <3>2. CASE Closes(s, q)
      <4>1. CloseFrom(s, q) = q /\ CloseFrom(u, q) = q
        BY <2>1, <2>3, <3>1, <3>2
      <4> QED
        BY <3>1, <4>1
    <3>3. CASE ~Closes(s, q)
      <4>1. PICK r \in q + 1 .. l + 1 : r = q + Width(s, q)
        BY <2>5, <3>3, NextByte
      <4>2. CloseFrom(s, q) = CloseFrom(s, r) /\ CloseFrom(u, q) = CloseFrom(u, r)
        BY <2>1, <2>3, <3>1, <3>3, <4>1
      <4>3. Same(r)
        BY <1>4, <4>1
      <4> QED
        BY <4>2, <4>3
    <3> QED
      BY <3>2, <3>3
  <2> QED
    BY <1>1, <2>4, <2>5
<1>5. \A q \in 1 .. l + 1 : (\A r \in q + 1 .. l + 1 : r \in G) => q \in G
  BY <1>4
<1> HIDE DEF G
<1>6. \A q \in 1 .. l + 1 : q \in G
  BY <1>1, <1>5, Downwards
<1> QED
  BY <1>6 DEF G

\* With a line feed after it, every cell but the last ends where it did, and the
\* last still reaches the end.
LEMMA CellEndWithLineFeed ==
  ASSUME NEW s, NEW u, Len(s) \in Nat, Len(u) = Len(s) + 1, Extends(u, s), u[Len(u)] = "nl",
         NEW p \in 1 .. Len(s) + 1
  PROVE  /\ CellEnd(s, p) <= Len(s) => CellEnd(u, p) = CellEnd(s, p)
         /\ CellEnd(s, p) > Len(s) => CellEnd(u, p) > Len(s)
<1>1. Len(u) \in Nat /\ p \in 1 .. Len(u) + 1 /\ p \in 1 .. Len(u)
  OBVIOUS
<1>2. \A q \in 1 .. Len(s) : u[q] = s[q]
  BY DEF Extends
<1>3. Quote # "nl"
  BY DEF Quote
<1>4. Quoted(u, p) <=> Quoted(s, p)
  <2>1. CASE p \in 1 .. Len(s)
    BY <1>1, <1>2, <2>1 DEF Quoted
  <2>2. CASE p = Len(s) + 1
    BY <1>3, <2>2 DEF Quoted
  <2> QED
    BY <2>1, <2>2
<1>5. CASE ~Quoted(s, p)
  <2>1. CellEnd(s, p) = FirstIn(s, p, {",", "nl", "cr"}) /\ CellEnd(u, p) = FirstIn(u, p, {",", "nl", "cr"})
    BY <1>4, <1>5 DEF CellEnd
  <2> DEFINE B == {",", "nl", "cr"}
  <2> HIDE DEF B
  <2>2. /\ FirstIn(s, p, B) <= Len(s) => FirstIn(u, p, B) = FirstIn(s, p, B)
        /\ FirstIn(s, p, B) > Len(s) => FirstIn(u, p, B) > Len(s)
    BY <1>1, FirstInGrows
  <2> QED
    BY <2>1, <2>2 DEF B
<1>6. CASE Quoted(s, p)
  <2>1. p \in 1 .. Len(s)
    BY <1>6 DEF Quoted
  <2> DEFINE c == ClosingQuote(s, p)
             d == ClosingQuote(u, p)
  <2>2. c \in p + 1 .. Len(s) + 1
    BY <2>1, ClosingQuoteIs
  <2>3. PICK n \in 1 .. Len(s) + 1 : n = p + 1
    BY <2>1
  <2>4. (c <= Len(s) => d = c) /\ (c > Len(s) => d > Len(u))
    <3>1. c = CloseFrom(s, n) /\ d = CloseFrom(u, n)
      BY <1>1, <2>3, ClosingIs
    <3> QED
      BY <3>1, ClosingWithLineFeed
  <2>5. /\ CellEnd(s, p) = IF c > Len(s) THEN Len(s) + 1 ELSE FirstOut(s, c + 1, {" "})
        /\ CellEnd(u, p) = IF d > Len(u) THEN Len(u) + 1 ELSE FirstOut(u, d + 1, {" "})
    BY <1>4, <1>6 DEF CellEnd
  <2> HIDE DEF c, d
  <2>6. CASE c <= Len(s)
    <3>1. c \in p + 1 .. Len(s) /\ c \in p + 1 .. Len(u)
      BY <2>2, <2>6
    <3>5. d = c
      BY <2>4, <2>6
    <3>6. PICK b \in 1 .. Len(s) + 1 : b = c + 1 /\ b \in 1 .. Len(u) + 1
      BY <3>1
    <3>7. CellEnd(s, p) = FirstOut(s, b, {" "}) /\ CellEnd(u, p) = FirstOut(u, b, {" "})
      <4>1. ~(c > Len(s)) /\ ~(d > Len(u))
        BY <3>1, <3>5
      <4> QED
        BY <2>5, <3>5, <3>6, <4>1
    <3> DEFINE B == {" "}
    <3> HIDE DEF B
    <3>8. /\ FirstOut(s, b, B) <= Len(s) => FirstOut(u, b, B) = FirstOut(s, b, B)
          /\ FirstOut(s, b, B) > Len(s) => FirstOut(u, b, B) > Len(s)
      BY <1>1, <3>6, FirstOutGrows
    <3> QED
      BY <3>7, <3>8 DEF B
  <2>7. CASE ~(c <= Len(s))
    <3>0. c > Len(s)
      BY <2>2, <2>7
    <3>1. CellEnd(s, p) = Len(s) + 1
      BY <2>5, <3>0
    <3>4. d > Len(u)
      BY <2>4, <3>0
    <3>5. CellEnd(u, p) = Len(u) + 1
      BY <2>5, <3>4
    <3> QED
      BY <3>1, <3>5
  <2> QED
    BY <2>6, <2>7
<1> QED
  BY <1>5, <1>6

-----------------------------------------------------------------------------
(* The cells of a line.                                                    *)

\* Another cell follows the one that begins at p.
GoesOn(s, p) == CellEnd(s, p) <= Len(s) /\ s[CellEnd(s, p)] = ","

IsCells(s, c) ==
  c = [p \in 1 .. Len(s) + 1 |->
        LET e == CellEnd(s, p) IN
        <<CellText(s, p)>> \o IF e <= Len(s) /\ s[e] = "," THEN c[e + 1] ELSE <<>>]

\* The cells from position p on.
Cells(s, p) == (CHOOSE c : IsCells(s, c))[p]

LEMMA NextCell ==
  ASSUME NEW s, Len(s) \in Nat, NEW p \in 1 .. Len(s) + 1, GoesOn(s, p)
  PROVE  CellEnd(s, p) + 1 \in p + 1 .. Len(s) + 1
<1>1. CellEnd(s, p) \in p .. Len(s) + 1 /\ CellEnd(s, p) <= Len(s)
  BY CellEndIs DEF GoesOn
<1> QED
  BY <1>1

LEMMA CellsExist ==
  ASSUME NEW s, Len(s) \in Nat
  PROVE  \E c : IsCells(s, c)
<1> DEFINE l  == Len(s)
           nx == [p \in 1 .. l + 1 |-> IF GoesOn(s, p) THEN CellEnd(s, p) + 1 ELSE 0]
           a  == [p \in 1 .. l + 1 |-> <<CellText(s, p)>>]
<1>1. l \in Nat /\ \A p \in 1 .. l + 1 : GoesOn(s, p) => CellEnd(s, p) + 1 \in p + 1 .. l + 1
  BY NextCell
<1>2. \A p \in 1 .. l + 1 : nx[p] = IF GoesOn(s, p) THEN CellEnd(s, p) + 1 ELSE 0
  OBVIOUS
<1>3. \A p \in 1 .. l + 1 : a[p] = <<CellText(s, p)>>
  OBVIOUS
<1> HIDE DEF nx, a, l
<1>4. \A p \in 1 .. l + 1 : nx[p] \in Nat /\ (nx[p] # 0 => p < nx[p] /\ nx[p] <= l + 1)
  BY <1>1, <1>2
<1>5. PICK c : IsWalk(l, nx, a, TRUE, c)
  BY <1>1, <1>4, WalkEnds
<1>6. \A p \in 1 .. l + 1 :
        Walk(nx, a, TRUE, c, p) =
          <<CellText(s, p)>> \o IF GoesOn(s, p) THEN c[CellEnd(s, p) + 1] ELSE <<>>
  <2> TAKE p \in 1 .. l + 1
  <2>1. CASE GoesOn(s, p)
    <3>1. nx[p] = CellEnd(s, p) + 1 /\ nx[p] # 0
      BY <1>1, <1>2, <2>1
    <3> QED
      BY <1>3, <2>1, <3>1 DEF Walk
  <2>2. CASE ~GoesOn(s, p)
    <3>1. nx[p] = 0
      BY <1>2, <2>2
    <3> DEFINE t == CellText(s, p)
    <3> HIDE DEF t
    <3>2. <<t>> \o <<>> = <<t>>
      OBVIOUS
    <3> QED
      BY <1>3, <2>2, <3>1, <3>2 DEF Walk, t
  <2> QED
    BY <2>1, <2>2
<1>7. IsCells(s, c)
  BY <1>5, <1>6 DEF IsCells, IsWalk, l, GoesOn
<1> QED
  BY <1>7

LEMMA CellsAre ==
  ASSUME NEW s, Len(s) \in Nat
  PROVE  /\ parse_csv_line(s) = Cells(s, 1)
         /\ \A p \in 1 .. Len(s) + 1 :
              Cells(s, p) = <<CellText(s, p)>> \o
                              IF GoesOn(s, p) THEN Cells(s, CellEnd(s, p) + 1) ELSE <<>>
<1> DEFINE c == CHOOSE d : IsCells(s, d)
<1>1. IsCells(s, c)
  BY CellsExist
<1>2. \A p : Cells(s, p) = c[p]
  BY DEF Cells
<1>3. parse_csv_line(s) = Cells(s, 1)
  BY DEF parse_csv_line, Cells, IsCells
<1> HIDE DEF c
<1> QED
  BY <1>1, <1>2, <1>3 DEF IsCells, GoesOn

LEMMA CellCount ==
  ASSUME NEW s, Len(s) \in Nat
  PROVE  \A p \in 1 .. Len(s) + 1 :
           /\ Cells(s, p) \in Seq({CellText(s, q) : q \in 1 .. Len(s) + 1})
           /\ Len(Cells(s, p)) = 1 + IF GoesOn(s, p) THEN Len(Cells(s, CellEnd(s, p) + 1)) ELSE 0
<1> DEFINE l == Len(s)
           C == {CellText(s, q) : q \in 1 .. l + 1}
           G == {p \in 1 .. l + 1 :
                  /\ Cells(s, p) \in Seq(C)
                  /\ Len(Cells(s, p)) = 1 + IF GoesOn(s, p) THEN Len(Cells(s, CellEnd(s, p) + 1)) ELSE 0}
<1>1. ASSUME NEW p \in 1 .. l + 1, \A q \in p + 1 .. l + 1 : q \in G
      PROVE  p \in G
  <2> DEFINE t == CellText(s, p)
             r == IF GoesOn(s, p) THEN Cells(s, CellEnd(s, p) + 1) ELSE <<>>
  <2>1. Cells(s, p) = <<t>> \o r
    BY CellsAre
  <2>2. t \in C
    OBVIOUS
  <2>3. r \in Seq(C) /\ Len(r) = IF GoesOn(s, p) THEN Len(Cells(s, CellEnd(s, p) + 1)) ELSE 0
    <3>1. CASE GoesOn(s, p)
      <4>1. CellEnd(s, p) + 1 \in G
        BY <1>1, <3>1, NextCell
      <4>2. Cells(s, CellEnd(s, p) + 1) \in Seq(C)
        BY <4>1
      <4> QED
        BY <3>1, <4>2
    <3>2. CASE ~GoesOn(s, p)
      <4>1. <<>> \in Seq(C) /\ Len(<<>>) = 0
        OBVIOUS
      <4> QED
        BY <3>2, <4>1
    <3> QED
      BY <3>1, <3>2
  <2> HIDE DEF t, r, C
  <2>4. <<t>> \o r \in Seq(C) /\ Len(<<t>> \o r) = Len(r) + 1 /\ Len(r) \in Nat
    BY <2>2, <2>3, OneAndRest
  <2>5. Cells(s, p) \in Seq(C) /\ Len(Cells(s, p)) = 1 + Len(r)
    BY <2>1, <2>4
  <2> QED
    BY <2>3, <2>5
<1>2. \A p \in 1 .. l + 1 : (\A q \in p + 1 .. l + 1 : q \in G) => p \in G
  BY <1>1
<1> HIDE DEF G
<1>3. \A p \in 1 .. l + 1 : p \in G
  BY <1>2, Downwards
<1> QED
  BY <1>3 DEF G

\* A line feed after a line is in no cell of its own.
LEMMA CountWithLineFeed ==
  ASSUME NEW s, NEW u, Len(s) \in Nat, Len(u) = Len(s) + 1, Extends(u, s), u[Len(u)] = "nl"
  PROVE  Len(parse_csv_line(u)) = Len(parse_csv_line(s))
<1> DEFINE l == Len(s)
           G == {p \in 1 .. l + 1 : Len(Cells(u, p)) = Len(Cells(s, p))}
<1>1. l \in Nat /\ Len(u) = l + 1 /\ Len(u) \in Nat
  OBVIOUS
<1>2. ASSUME NEW p \in 1 .. l + 1, \A q \in p + 1 .. l + 1 : q \in G
      PROVE  p \in G
  <2>1. p \in 1 .. Len(u) + 1
    BY <1>1
  <2>2. /\ CellEnd(s, p) <= l => CellEnd(u, p) = CellEnd(s, p)
        /\ CellEnd(s, p) > l => CellEnd(u, p) > l
    BY CellEndWithLineFeed
  <2>3. CellEnd(s, p) \in p .. l + 1
    BY CellEndIs
  <2>4. CellEnd(u, p) \in p .. Len(u) + 1
    BY <1>1, <2>1, CellEndIs
  <2>5. /\ Len(Cells(s, p)) = 1 + IF GoesOn(s, p) THEN Len(Cells(s, CellEnd(s, p) + 1)) ELSE 0
        /\ Len(Cells(u, p)) = 1 + IF GoesOn(u, p) THEN Len(Cells(u, CellEnd(u, p) + 1)) ELSE 0
    BY <1>1, <2>1, CellCount
  <2>6. CASE CellEnd(s, p) <= l
    <3>1. CellEnd(u, p) = CellEnd(s, p) /\ CellEnd(u, p) <= Len(u)
      BY <1>1, <2>2, <2>3, <2>6
    <3>2. u[CellEnd(s, p)] = s[CellEnd(s, p)]
      BY <2>3, <2>6 DEF Extends
    <3>3. GoesOn(u, p) <=> GoesOn(s, p)
      BY <2>6, <3>1, <3>2 DEF GoesOn
    <3>4. GoesOn(s, p) => CellEnd(s, p) + 1 \in G
      BY <1>2, NextCell
    <3>5. GoesOn(s, p) => Len(Cells(u, CellEnd(u, p) + 1)) = Len(Cells(s, CellEnd(s, p) + 1))
      BY <3>1, <3>4
    <3>6. Len(Cells(u, p)) = Len(Cells(s, p))
      BY <2>5, <3>3, <3>5
    <3> QED
      BY <3>6
  <2>7. CASE CellEnd(s, p) > l
    <3>1. ~GoesOn(s, p)
      <4>1. GoesOn(s, p) => CellEnd(s, p) <= l
        BY DEF GoesOn
      <4> QED
        BY <2>3, <2>7, <4>1
    <3>2. ~GoesOn(u, p)
      <4> SUFFICES ASSUME GoesOn(u, p)
                   PROVE  FALSE
        OBVIOUS
      <4>0. CellEnd(u, p) <= Len(u)
        BY DEF GoesOn
      <4>1. CellEnd(u, p) = Len(u)
        BY <1>1, <2>2, <2>4, <2>7, <4>0
      <4>2. u[Len(u)] = ","
        BY <4>1 DEF GoesOn
      <4> QED
        BY <4>2
    <3>3. Len(Cells(u, p)) = Len(Cells(s, p))
      BY <2>5, <3>1, <3>2
    <3> QED
      BY <3>3
  <2> QED
    BY <2>3, <2>6, <2>7
<1>3. \A p \in 1 .. l + 1 : (\A q \in p + 1 .. l + 1 : q \in G) => p \in G
  BY <1>2
<1> HIDE DEF G
<1>4. \A p \in 1 .. l + 1 : p \in G
  BY <1>1, <1>3, Downwards
<1>5. 1 \in G
  BY <1>1, <1>4
<1>6. Len(Cells(u, 1)) = Len(Cells(s, 1))
  BY <1>5 DEF G
<1> QED
  BY <1>1, <1>6, CellsAre

\* Nor does anything count that follows a CR before which there is no quote.
LEMMA CountUpToCR ==
  ASSUME NEW s, NEW u, Len(s) \in Nat, Len(u) \in Nat, Extends(u, s), NEW q \in 1 .. Len(s),
         s[q] = "cr", \A j \in 1 .. q : s[j] # Quote
  PROVE  Len(parse_csv_line(u)) = Len(parse_csv_line(s))
<1> DEFINE G == {p \in 1 .. q : Len(Cells(u, p)) = Len(Cells(s, p))}
           B == {",", "nl", "cr"}
<1>1. PICK l \in Nat : l + 1 = q
  <2>1. q - 1 \in Nat /\ (q - 1) + 1 = q
    OBVIOUS
  <2> QED
    BY <2>1
<1>2. Len(s) <= Len(u) /\ \A j \in 1 .. Len(s) : u[j] = s[j]
  BY DEF Extends
<1>3. ASSUME NEW p \in 1 .. q, \A r \in p + 1 .. q : r \in G
      PROVE  p \in G
  <2>1. p \in 1 .. Len(s) + 1 /\ p \in 1 .. Len(u) + 1 /\ p \in 1 .. Len(s) /\ p \in 1 .. Len(u)
    BY <1>2
  <2>2. ~Quoted(s, p) /\ ~Quoted(u, p)
    BY <1>2, <2>1 DEF Quoted
  <2>3. CellEnd(s, p) = FirstIn(s, p, B) /\ CellEnd(u, p) = FirstIn(u, p, B)
    BY <2>2 DEF CellEnd
  <2>4. s[q] \in B
    OBVIOUS
  <2> HIDE DEF B
  <2>5. /\ FirstIn(s, p, B) \in p .. Len(s) + 1
        /\ \A j \in p .. Len(s) : s[j] \in B => FirstIn(s, p, B) <= j
    BY <2>1, FirstInIs
  <2>6. FirstIn(s, p, B) <= q
    <3>1. q \in p .. Len(s)
      OBVIOUS
    <3> QED
      BY <2>4, <2>5, <3>1
  <2>7. FirstIn(s, p, B) <= Len(s)
    BY <2>5, <2>6
  <2>8. FirstIn(u, p, B) = FirstIn(s, p, B)
    BY <2>1, <2>7, FirstInGrows
  <2>9. PICK e \in p .. q : e = CellEnd(s, p) /\ e = CellEnd(u, p)
    BY <2>3, <2>5, <2>6, <2>8
  <2>10. u[e] = s[e] /\ e <= Len(s) /\ e <= Len(u)
    BY <1>2, <2>9
  <2>11. GoesOn(u, p) <=> GoesOn(s, p)
    BY <2>9, <2>10 DEF GoesOn
  <2>12. GoesOn(s, p) => e + 1 \in p + 1 .. q
    <3>1. GoesOn(s, p) => e # q
      BY <2>9 DEF GoesOn
    <3> QED
      BY <3>1
  <2>13. GoesOn(s, p) => e + 1 \in G
    BY <1>3, <2>12
  <2>14. GoesOn(s, p) => Len(Cells(u, e + 1)) = Len(Cells(s, e + 1))
    BY <2>13
  <2>15. Len(Cells(s, p)) = 1 + IF GoesOn(s, p) THEN Len(Cells(s, e + 1)) ELSE 0
    BY <2>1, <2>9, CellCount
  <2>16. Len(Cells(u, p)) = 1 + IF GoesOn(u, p) THEN Len(Cells(u, e + 1)) ELSE 0
    BY <2>1, <2>9, CellCount
  <2>17. Len(Cells(u, p)) = Len(Cells(s, p))
    BY <2>11, <2>14, <2>15, <2>16
  <2> QED
    BY <2>17
<1>4. \A p \in 1 .. l + 1 : (\A r \in p + 1 .. l + 1 : r \in G) => p \in G
  BY <1>1, <1>3
<1> HIDE DEF G
<1>5. \A p \in 1 .. l + 1 : p \in G
  BY <1>4, Downwards
<1>6. 1 \in G
  BY <1>5
<1>7. Len(Cells(u, 1)) = Len(Cells(s, 1))
  BY <1>6 DEF G
<1> QED
  BY <1>7, CellsAre

-----------------------------------------------------------------------------
(* Lists of lists, joined.                                                 *)

\* What holds of a number if it holds of all smaller ones holds of all of them.
LEMMA Upwards ==
  ASSUME NEW l \in Nat, NEW G, \A p \in 1 .. l : (\A q \in 1 .. l : q < p => q \in G) => p \in G
  PROVE  \A p \in 1 .. l : p \in G
<1> SUFFICES ASSUME \E p \in 1 .. l : p \notin G
             PROVE  FALSE
  OBVIOUS
<1> DEFINE T == {p \in 1 .. l : p \notin G}
<1>1. T \in SUBSET Nat /\ T # {}
  OBVIOUS
<1>2. PICK p \in T : \A q \in T : p <= q
  BY <1>1, LeastNat
<1>3. ASSUME NEW q \in 1 .. l, q < p
      PROVE  q \in G
  <2>1. q \notin T
    BY <1>2, <1>3
  <2> QED
    BY <2>1
<1> QED
  BY <1>2, <1>3

IsFlat(ss, n, f) == f = [i \in 1 .. n |-> IF i = 1 THEN ss[i] ELSE f[i - 1] \o ss[i]]

LEMMA FlatExists ==
  ASSUME NEW ss, NEW m \in Nat
  PROVE  \A n \in 1 .. m : \E f : IsFlat(ss, n, f)
<1> DEFINE G == {n \in 1 .. m : \E f : IsFlat(ss, n, f)}
<1>1. ASSUME NEW n \in 1 .. m, \A q \in 1 .. m : q < n => q \in G
      PROVE  n \in G
  <2>1. CASE n = 1
    <3> DEFINE f == [i \in 1 .. n |-> ss[i]]
    <3>1. \A i \in 1 .. n : i = 1
      BY <2>1
    <3>2. f = [i \in 1 .. n |-> IF i = 1 THEN ss[i] ELSE f[i - 1] \o ss[i]]
      BY <3>1
    <3> HIDE DEF f
    <3>3. IsFlat(ss, n, f)
      BY <3>2 DEF IsFlat
    <3> QED
      BY <3>3
  <2>2. CASE n # 1
    <3>1. PICK k \in 1 .. m : k + 1 = n /\ k < n
      <4>1. n - 1 \in 1 .. m /\ (n - 1) + 1 = n
        BY <2>2
      <4> QED
        BY <4>1
    <3>2. PICK f : IsFlat(ss, k, f)
      BY <1>1, <3>1
    <3>3. \A i \in 1 .. k : f[i] = IF i = 1 THEN ss[i] ELSE f[i - 1] \o ss[i]
      BY <3>2 DEF IsFlat
    <3> DEFINE step(h, i) == IF i = 1 THEN ss[i] ELSE h[i - 1] \o ss[i]
               g == [i \in 1 .. n |-> step(f, i)]
    <3>4. \A i \in 1 .. n : g[i] = step(f, i)
      OBVIOUS
    <3>5. g = [i \in 1 .. n |-> g[i]]
      OBVIOUS
    <3> HIDE DEF g
    <3>6. \A i \in 1 .. k : g[i] = f[i]
      BY <3>1, <3>3, <3>4
    <3>7. ASSUME NEW i \in 1 .. n
          PROVE  g[i] = step(g, i)
      <4>1. i # 1 => i - 1 \in 1 .. k
        BY <3>1
      <4>2. i # 1 => g[i - 1] = f[i - 1]
        BY <3>6, <4>1
      <4> QED
        BY <3>4, <4>2
    <3>8. IsFlat(ss, n, g)
      BY <3>5, <3>7 DEF IsFlat
    <3> QED
      BY <3>8
  <2> QED
    BY <2>1, <2>2
<1>2. \A n \in 1 .. m : (\A q \in 1 .. m : q < n => q \in G) => n \in G
  BY <1>1
<1> HIDE DEF G
<1>3. \A n \in 1 .. m : n \in G
  BY <1>2, Upwards
<1> QED
  BY <1>3 DEF G

\* The first i of the lists, joined.
Joined(ss, i) == (CHOOSE f : IsFlat(ss, Len(ss), f))[i]

LEMMA JoinedIs ==
  ASSUME NEW S, NEW ss \in Seq(Seq(S))
  PROVE  /\ ss # <<>> => FlattenSeq(ss) = Joined(ss, Len(ss))
         /\ ss = <<>> => FlattenSeq(ss) = <<>>
         /\ \A i \in 1 .. Len(ss) :
              /\ Joined(ss, i) = IF i = 1 THEN ss[1] ELSE Joined(ss, i - 1) \o ss[i]
              /\ Joined(ss, i) \in Seq(S)
<1>1. ss = <<>> => FlattenSeq(ss) = <<>>
  BY DEF FlattenSeq
<1>2. PICK l \in Nat : l = Len(ss)
  OBVIOUS
<1> DEFINE c == CHOOSE f : IsFlat(ss, Len(ss), f)
<1>3. ASSUME ss # <<>>
      PROVE  FlattenSeq(ss) = Joined(ss, Len(ss))
  <2>1. Len(ss) # 0
    BY <1>3
  <2> QED
    BY <2>1 DEF FlattenSeq, Joined, IsFlat
<1>4. \A i \in 1 .. l : Joined(ss, i) = IF i = 1 THEN ss[i] ELSE Joined(ss, i - 1) \o ss[i]
  <2>1. CASE l = 0
    BY <2>1
  <2>2. CASE l # 0
    <3>1. l \in 1 .. l
      BY <2>2
    <3>2. \E f : IsFlat(ss, l, f)
      BY <3>1, FlatExists
    <3>3. IsFlat(ss, l, c)
      BY <1>2, <3>2
    <3>4. \A i : Joined(ss, i) = c[i]
      BY DEF Joined
    <3> HIDE DEF c
    <3> QED
      BY <3>3, <3>4 DEF IsFlat
  <2> QED
    BY <2>1, <2>2
<1> DEFINE G == {i \in 1 .. l : Joined(ss, i) \in Seq(S)}
<1>5. ASSUME NEW i \in 1 .. l, \A q \in 1 .. l : q < i => q \in G
      PROVE  i \in G
  <2>1. ss[i] \in Seq(S)
    BY <1>2
  <2>2. CASE i = 1
    BY <1>4, <2>1, <2>2
  <2>3. CASE i # 1
    <3>1. PICK k \in 1 .. l : k = i - 1 /\ k < i
      BY <2>3
    <3>2. Joined(ss, k) \in Seq(S)
      BY <1>5, <3>1
    <3>3. Joined(ss, i) = Joined(ss, k) \o ss[i]
      BY <1>4, <2>3, <3>1
    <3>4. Joined(ss, k) \o ss[i] \in Seq(S)
      BY <2>1, <3>2, ConcatProperties
    <3> QED
      BY <3>3, <3>4
  <2> QED
    BY <2>2, <2>3
<1>6. \A i \in 1 .. l : (\A q \in 1 .. l : q < i => q \in G) => i \in G
  BY <1>5
<1> HIDE DEF G
<1>7. \A i \in 1 .. l : i \in G
  BY <1>6, Upwards
<1>8. \A i \in 1 .. l : Joined(ss, i) \in Seq(S)
  BY <1>7 DEF G
<1> QED
  BY <1>1, <1>2, <1>3, <1>4, <1>8

LEMMA FlattenType ==
  ASSUME NEW S, NEW ss \in Seq(Seq(S))
  PROVE  FlattenSeq(ss) \in Seq(S)
<1>1. CASE ss = <<>>
  <2>1. <<>> \in Seq(S)
    OBVIOUS
  <2> QED
    BY <1>1, <2>1, JoinedIs
<1>2. CASE ss # <<>>
  <2>1. Len(ss) \in 1 .. Len(ss)
    BY <1>2
  <2> QED
    BY <1>2, <2>1, JoinedIs
<1> QED
  BY <1>1, <1>2

-----------------------------------------------------------------------------
(* The bytes of a row.                                                     *)

LEMMA ByteTypes == Quote \in Bytes /\ "," \in Bytes /\ "nl" \in Bytes /\ "cr" \in Bytes /\ "x" \in Bytes
BY DEF Bytes, Space, Quote

LEMMA ShortSeqs ==
  ASSUME NEW S, NEW x \in S, NEW y \in S
  PROVE  /\ <<x>> \in Seq(S) /\ Len(<<x>>) = 1 /\ <<x>>[1] = x
         /\ <<x, y>> \in Seq(S) /\ Len(<<x, y>>) = 2 /\ <<x, y>>[1] = x /\ <<x, y>>[2] = y
OBVIOUS

LEMMA EscapedType ==
  ASSUME NEW S, Quote \in S, NEW t \in Seq(S)
  PROVE  append_csv_escaped(t) \in Seq(S)
<1> DEFINE f(k) == IF t[k] = Quote THEN <<Quote, Quote>> ELSE <<t[k]>>
           q    == <<Quote>>
<1>1. ASSUME NEW k \in 1 .. Len(t)
      PROVE  f(k) \in Seq(S)
  <2>1. t[k] \in S
    OBVIOUS
  <2>2. <<t[k]>> \in Seq(S)
    BY <2>1, ShortSeqs
  <2>3. <<Quote, Quote>> \in Seq(S)
    BY ShortSeqs
  <2> QED
    BY <2>2, <2>3
<1>2. q \in Seq(S)
  BY ShortSeqs
<1>3. append_csv_escaped(t) = q \o FlattenSeq([k \in DOMAIN t |-> f(k)]) \o q
  BY DEF append_csv_escaped
<1> HIDE DEF f, q
<1>4. PICK n \in Nat : n = Len(t) /\ DOMAIN t = 1 .. n
  OBVIOUS
<1>5. [k \in 1 .. n |-> f(k)] \in Seq(Seq(S))
  BY <1>1, <1>4
<1> DEFINE m == FlattenSeq([k \in DOMAIN t |-> f(k)])
<1>6. m \in Seq(S)
  BY <1>4, <1>5, FlattenType
<1> HIDE DEF m
<1>7. q \o m \in Seq(S)
  BY <1>2, <1>6, ConcatProperties
<1>8. (q \o m) \o q \in Seq(S)
  BY <1>2, <1>7, ConcatProperties
<1> QED
  BY <1>3, <1>8 DEF m

LEMMA FieldType ==
  ASSUME NEW S, Quote \in S, NEW v \in SqlValue, v.text \in Seq(S)
  PROVE  Field(v) \in Seq(S)
<1>1. v.kind \in {"INT", "STRING", "NULL"}
  BY DEF SqlValue
<1>2. <<>> \in Seq(S) /\ append_csv_escaped(v.text) \in Seq(S)
  BY EscapedType
<1>3. CASE v.kind = "INT"
  BY <1>3 DEF Field
<1>4. CASE v.kind = "STRING"
  BY <1>2, <1>4 DEF Field
<1>5. CASE v.kind = "NULL"
  BY <1>2, <1>5 DEF Field
<1> QED
  BY <1>1, <1>3, <1>4, <1>5

\* The texts of a row have no other bytes than those of S.
TextsIn(r, S) == \A c \in 1 .. Len(r) : r[c].text \in Seq(S)

MarksIn(S) == Quote \in S /\ "," \in S

LEMMA RowBytesType ==
  ASSUME NEW S, MarksIn(S), NEW r \in Seq(SqlValue), TextsIn(r, S)
  PROVE  RowBytes(r) \in Seq(S)
<1> DEFINE comma == <<",">>
           f(c)  == IF c = 1 THEN Field(r[c]) ELSE comma \o Field(r[c])
<1>1. comma \in Seq(S)
  BY ShortSeqs DEF MarksIn
<1>2. ASSUME NEW c \in 1 .. Len(r)
      PROVE  f(c) \in Seq(S)
  <2>1. Field(r[c]) \in Seq(S)
    <3>1. r[c] \in SqlValue
      OBVIOUS
    <3>2. r[c].text \in Seq(S)
      BY DEF TextsIn
    <3>3. Quote \in S
      BY DEF MarksIn
    <3> QED
      BY <3>1, <3>2, <3>3, FieldType
  <2> HIDE DEF comma
  <2>2. comma \o Field(r[c]) \in Seq(S)
    BY <1>1, <2>1, ConcatProperties
  <2> QED
    BY <2>1, <2>2
<1>3. RowBytes(r) = FlattenSeq([c \in DOMAIN r |-> f(c)])
  BY DEF RowBytes
<1> HIDE DEF f
<1>4. PICK n \in Nat : n = Len(r) /\ DOMAIN r = 1 .. n
  OBVIOUS
<1>5. [c \in 1 .. n |-> f(c)] \in Seq(Seq(S))
  BY <1>2, <1>4
<1> QED
  BY <1>3, <1>4, <1>5, FlattenType

-----------------------------------------------------------------------------
(* The header.                                                             *)

\* Whatever is appended, the header keeps its number of cells.
HeaderStable(f) ==
  LET header == fgets(f, 1) IN
  \/ Last(header) = "nl" \/ Len(header) = LineCap - 1
  \/ \E q \in DOMAIN header : header[q] = "cr" /\ \A j \in 1 .. q : header[j] # Quote

LEMMA HeaderIs ==
  ASSUME NEW f \in Seq(Bytes), f # <<>>
  PROVE  /\ 1 \in 1 .. Len(f) /\ Len(f) \in Nat
         /\ fgets(f, 1) \in Seq(Bytes) /\ Len(fgets(f, 1)) \in Nat \ {0}
         /\ Len(fgets(f, 1)) = LineEnd(f, 1) /\ LineEnd(f, 1) \in 1 .. Len(f)
         /\ \A j \in 1 .. LineEnd(f, 1) : fgets(f, 1)[j] = f[j]
         /\ Last(fgets(f, 1)) = f[LineEnd(f, 1)]
         /\ Ends(f, 1) <=> Last(fgets(f, 1)) = "nl" \/ Len(fgets(f, 1)) = LineCap - 1
         /\ Ends(f, 1) \/ LineEnd(f, 1) = Len(f)
         /\ column_count(f) = Len(parse_csv_line(fgets(f, 1)))
<1>1. 1 \in 1 .. Len(f) /\ Len(f) \in Nat
  OBVIOUS
<1> DEFINE e == LineEnd(f, 1)
           h == fgets(f, 1)
<1>2. e \in 1 .. Len(f) /\ (Ends(f, 1) \/ e = Len(f))
  BY <1>1, LineEndIs
<1>3. /\ h \in Seq(Bytes) /\ Len(h) = (e - 1) + 1
      /\ \A j \in 1 .. (e - 1) + 1 : h[j] = f[(1 + j) - 1]
      /\ Len(h) \in Nat \ {0}
  BY <1>1, PieceIs
<1>4. LineCap \in Nat /\ LineCap >= 2
  BY CsvAssumption
<1>5. Ends(f, 1) <=> f[e] = "nl" \/ e = 1 + LineCap - 2
  BY DEF Ends
<1>6. column_count(f) = Len(parse_csv_line(h))
  BY DEF column_count
<1> HIDE DEF e, h
<1>7. Len(h) = e
  BY <1>2, <1>3
<1>8. \A j \in 1 .. e : h[j] = f[j]
  <2> TAKE j \in 1 .. e
  <2>1. j \in 1 .. (e - 1) + 1 /\ (1 + j) - 1 = j
    BY <1>2
  <2> QED
    BY <1>3, <2>1
<1>9. Last(h) = f[e]
  BY <1>2, <1>7, <1>8 DEF Last
<1>10. e = 1 + LineCap - 2 <=> e = LineCap - 1
  BY <1>2, <1>4
<1> QED
  BY <1>1, <1>2, <1>3, <1>5, <1>6, <1>7, <1>8, <1>9, <1>10 DEF e, h

LEMMA StableStays ==
  ASSUME NEW f \in Seq(Bytes), NEW g \in Seq(Bytes), f # <<>>, Extends(g, f), HeaderStable(f)
  PROVE  HeaderStable(g) /\ column_count(g) = column_count(f)
<1>1. g # <<>>
  BY DEF Extends
<1> DEFINE h == fgets(f, 1)
           k == fgets(g, 1)
<1>2. /\ 1 \in 1 .. Len(f) /\ h \in Seq(Bytes)
      /\ Ends(f, 1) <=> Last(h) = "nl" \/ Len(h) = LineCap - 1
      /\ column_count(f) = Len(parse_csv_line(h))
  BY HeaderIs
<1>3. k \in Seq(Bytes) /\ column_count(g) = Len(parse_csv_line(k))
  BY <1>1, HeaderIs
<1>4. Extends(k, h) /\ (Ends(f, 1) => k = h)
  BY <1>2, PieceGrows
<1>5. HeaderStable(f) <=> \/ Last(h) = "nl" \/ Len(h) = LineCap - 1
                          \/ \E q \in DOMAIN h : h[q] = "cr" /\ \A j \in 1 .. q : h[j] # Quote
  BY DEF HeaderStable
<1>6. HeaderStable(g) <=> \/ Last(k) = "nl" \/ Len(k) = LineCap - 1
                          \/ \E q \in DOMAIN k : k[q] = "cr" /\ \A j \in 1 .. q : k[j] # Quote
  BY DEF HeaderStable
<1> HIDE DEF h, k
<1>7. CASE Ends(f, 1)
  <2>1. k = h
    BY <1>4, <1>7
  <2> QED
    BY <1>2, <1>3, <1>5, <1>6, <2>1
<1>8. CASE ~Ends(f, 1)
  <2>1. PICK q \in DOMAIN h : h[q] = "cr" /\ \A j \in 1 .. q : h[j] # Quote
    BY <1>2, <1>5, <1>8
  <2>2. Len(h) \in Nat /\ Len(k) \in Nat /\ DOMAIN h = 1 .. Len(h) /\ DOMAIN k = 1 .. Len(k)
    BY <1>2, <1>3
  <2>3. Len(parse_csv_line(k)) = Len(parse_csv_line(h))
    BY <1>4, <2>1, <2>2, CountUpToCR
  <2>4. Len(h) <= Len(k) /\ \A j \in 1 .. Len(h) : k[j] = h[j]
    BY <1>4 DEF Extends
  <2>5. q \in DOMAIN k /\ k[q] = "cr"
    BY <2>1, <2>2, <2>4
  <2>6. \A j \in 1 .. q : k[j] # Quote
    BY <2>1, <2>2, <2>4
  <2> QED
    BY <1>2, <1>3, <1>6, <2>3, <2>5, <2>6
<1> QED
  BY <1>7, <1>8

\* A header that is not stable is all there is.
LEMMA OpenHeader ==
  ASSUME NEW f \in Seq(Bytes), f # <<>>, ~HeaderStable(f)
  PROVE  /\ fgets(f, 1) = f /\ LineEnd(f, 1) = Len(f) /\ ~Ends(f, 1)
         /\ Last(f) # "nl" /\ (Last(f) # "cr" => LineIsOpen(f))
<1> DEFINE h == fgets(f, 1)
<1>1. /\ h \in Seq(Bytes) /\ Len(h) = LineEnd(f, 1)
      /\ \A j \in 1 .. LineEnd(f, 1) : h[j] = f[j]
      /\ Ends(f, 1) <=> Last(h) = "nl" \/ Len(h) = LineCap - 1
      /\ Ends(f, 1) \/ LineEnd(f, 1) = Len(f)
  BY HeaderIs
<1>2. ~(Last(h) = "nl" \/ Len(h) = LineCap - 1)
  BY DEF HeaderStable
<1> HIDE DEF h
<1>3. ~Ends(f, 1) /\ LineEnd(f, 1) = Len(f)
  BY <1>1, <1>2
<1>4. h = f
  BY <1>1, <1>3
<1>5. Last(f) # "nl"
  BY <1>2, <1>4
<1>6. Last(f) # "cr" => LineIsOpen(f)
  BY <1>5 DEF LineIsOpen
<1> QED
  BY <1>3, <1>4, <1>5, <1>6 DEF h

LEMMA NewLineEndsHeader ==
  ASSUME NEW f \in Seq(Bytes), NEW g \in Seq(Bytes), f # <<>>, Extends(g, f), Len(g) > Len(f),
         g[Len(f) + 1] = "nl", ~HeaderStable(f)
  PROVE  HeaderStable(g) /\ column_count(g) = column_count(f)
<1>1. g # <<>> /\ Len(f) \in Nat /\ Len(g) \in Nat /\ Len(f) + 1 \in 1 .. Len(g) /\ LineCap \in Nat
  BY CsvAssumption DEF Extends
<1>2. fgets(f, 1) = f /\ LineEnd(f, 1) = Len(f) /\ ~Ends(f, 1)
  BY OpenHeader
<1> DEFINE k == fgets(g, 1)
           e == LineEnd(g, 1)
<1>3. /\ 1 \in 1 .. Len(f) /\ 1 \in 1 .. Len(g)
      /\ k \in Seq(Bytes) /\ Len(k) = e /\ e \in 1 .. Len(g)
      /\ \A j \in 1 .. e : k[j] = g[j]
      /\ Last(k) = g[e]
      /\ Ends(g, 1) \/ e = Len(g)
      /\ column_count(g) = Len(parse_csv_line(k))
      /\ column_count(f) = Len(parse_csv_line(f))
  BY <1>1, <1>2, HeaderIs
<1>4. e <= Len(f) + 1
  BY <1>1, <1>3, LineEndIs
<1>5. Extends(k, f)
  BY <1>2, <1>3, PieceGrows
<1>6. Len(f) <= e
  BY <1>3, <1>5 DEF Extends
<1>7. e # Len(f)
  <2> SUFFICES ASSUME e = Len(f)
               PROVE  FALSE
    OBVIOUS
  <2>1. Ends(g, 1)
    BY <1>1, <1>3
  <2>2. g[e] = f[e]
    BY <1>3 DEF Extends
  <2>3. Ends(f, 1)
    BY <1>2, <2>1, <2>2 DEF Ends
  <2> QED
    BY <1>2, <2>3
<1>8. e = Len(f) + 1
  BY <1>1, <1>3, <1>4, <1>6, <1>7
<1>9. Last(k) = "nl" /\ k[Len(k)] = "nl" /\ Len(k) = Len(f) + 1
  BY <1>3, <1>8
<1>10. HeaderStable(g)
  BY <1>9 DEF HeaderStable
<1> HIDE DEF k, e
<1>11. Len(parse_csv_line(k)) = Len(parse_csv_line(f))
  BY <1>1, <1>5, <1>9, CountWithLineFeed
<1> QED
  BY <1>3, <1>10, <1>11

LEMMA HeaderKept ==
  ASSUME NEW f \in Seq(Bytes), f # <<>>, NEW t \in Seq(Bytes),
         HeaderStable(f) \/ t = <<>> \/ t[1] = "nl"
  PROVE  /\ f \o t \in Seq(Bytes) /\ f \o t # <<>>
         /\ column_count(f \o t) = column_count(f)
         /\ HeaderStable(f) \/ t # <<>> => HeaderStable(f \o t)
<1> DEFINE g == f \o t
<1>1. g \in Seq(Bytes) /\ Extends(g, f) /\ Len(g) = Len(f) + Len(t)
  BY AppendedExtends
<1>2. Len(f) \in Nat \ {0} /\ Len(t) \in Nat
  OBVIOUS
<1>3. t # <<>> => g[Len(f) + 1] = t[1] /\ Len(g) > Len(f)
  <2>1. \A i \in 1 .. Len(f) + Len(t) : g[i] = IF i <= Len(f) THEN f[i] ELSE t[i - Len(f)]
    BY ConcatProperties
  <2> HIDE DEF g
  <2>2. t # <<>> => Len(t) # 0
    OBVIOUS
  <2> SUFFICES ASSUME t # <<>>
               PROVE  g[Len(f) + 1] = t[1] /\ Len(g) > Len(f)
    OBVIOUS
  <2>3. PICK j \in 1 .. Len(f) + Len(t) : j = Len(f) + 1 /\ ~(j <= Len(f)) /\ j - Len(f) = 1
    BY <1>2, <2>2
  <2>4. g[j] = t[1]
    BY <2>1, <2>3
  <2> QED
    BY <1>1, <1>2, <2>2, <2>3, <2>4
<1>4. t = <<>> => g = f
  BY ConcatEmptySeq
<1> HIDE DEF g
<1>5. g # <<>>
  BY <1>1, <1>2 DEF Extends
<1>6. CASE HeaderStable(f)
  BY <1>1, <1>5, <1>6, StableStays DEF g
<1>7. CASE t = <<>>
  BY <1>4, <1>7 DEF g
<1>8. CASE ~HeaderStable(f) /\ t # <<>>
  <2>1. t[1] = "nl"
    BY <1>8
  <2>2. HeaderStable(g) /\ column_count(g) = column_count(f)
    BY <1>1, <1>3, <1>8, <2>1, NewLineEndsHeader
  <2> QED
    BY <1>1, <1>5, <2>2 DEF g
<1> QED
  BY <1>6, <1>7, <1>8

-----------------------------------------------------------------------------
(* The inductive invariant.                                                *)

\* The header keeps its cells: it is stable, or it is an open line and every
\* process that is about to write knows that.
HeaderEnds ==
  file # <<>> =>
    \/ HeaderStable(file)
    \/ Last(fgets(file, 1)) # "cr" /\ \A w \in Writers : pc[w] = "write" => need_newline[w]

IInv == TypeOK /\ HeaderEnds

\* A process that is appending: its row, and its file, are not empty.
LEMMA AppendingRow ==
  ASSUME TypeOK, NEW w \in Writers, pc[w] # "idle"
  PROVE  /\ row[w] \in InsertRows[w] /\ row[w] \in Seq(SqlValue) /\ row[w] # <<>>
         /\ Len(row[w]) = column_count(file) /\ file # <<>> /\ file \in Seq(Bytes)
<1>1. row[w] \in InsertRows[w] /\ Len(row[w]) = column_count(file) /\ file \in Seq(Bytes)
  BY DEF TypeOK
<1>2. row[w] \in Seq(SqlValue) /\ row[w] # <<>>
  BY <1>1, CsvAssumption
<1>3. file # <<>>
  <2>1. Len(row[w]) # 0
    BY <1>2
  <2> QED
    BY <1>1, <2>1 DEF column_count
<1> QED
  BY <1>1, <1>2, <1>3

LEMMA WrittenIs ==
  ASSUME TypeOK, NEW w \in Writers, pc[w] = "write"
  PROVE  /\ Written(w) \in Seq(Bytes)
         /\ need_newline[w] => Written(w)[1] = "nl" /\ Written(w) # <<>>
<1>1. row[w] \in Seq(SqlValue)
  BY AppendingRow
<1> DEFINE r == RowBytes(row[w])
           n == <<"nl">>
<1>2. r \in Seq(Bytes)
  <2> HIDE DEF r
  <2>1. MarksIn(Bytes)
    BY ByteTypes DEF MarksIn
  <2>2. TextsIn(row[w], Bytes)
    BY <1>1 DEF SqlValue, TextsIn
  <2> QED
    BY <1>1, <2>1, <2>2, RowBytesType DEF r
<1>3. n \in Seq(Bytes) /\ Len(n) = 1 /\ n[1] = "nl"
  BY ByteTypes, ShortSeqs
<1>4. Written(w) = IF need_newline[w] THEN n \o r ELSE <<>> \o r
  BY DEF Written
<1>5. <<>> \o r = r
  BY <1>2, ConcatEmptySeq
<1>6. n \o r \in Seq(Bytes) /\ Len(n \o r) = Len(r) + 1 /\ (n \o r)[1] = "nl"
  <2> HIDE DEF r
  <2>1. "nl" \in Bytes
    BY ByteTypes
  <2>2. <<"nl">> \o r \in Seq(Bytes) /\ Len(<<"nl">> \o r) = Len(r) + 1 /\ (<<"nl">> \o r)[1] = "nl"
    BY <1>2, <2>1, OneAndRest
  <2> QED
    BY <2>2
<1>7. Len(r) \in Nat
  BY <1>2
<1> HIDE DEF n, r
<1>8. n \o r # <<>>
  BY <1>6, <1>7
<1> QED
  BY <1>2, <1>4, <1>5, <1>6, <1>8

\* What a step of w appends, nothing or some of the first bytes of Written(w).
Appends(w, t) ==
  /\ file' = file \o t /\ t \in Seq(Bytes)
  /\ need_newline[w] => t = <<>> \/ t[1] = "nl"

LEMMA WriteAppends ==
  ASSUME TypeOK, NEW w \in Writers, write(w) \/ write_fails(w)
  PROVE  pc[w] = "write" /\ Return(w) /\ \E t : Appends(w, t)
<1>1. pc[w] = "write" /\ Return(w)
  BY DEF write, write_fails
<1>2. Written(w) \in Seq(Bytes) /\ (need_newline[w] => Written(w)[1] = "nl")
  BY <1>1, WrittenIs
<1>3. CASE write(w)
  BY <1>1, <1>2, <1>3 DEF write, Appends
<1>4. CASE write_fails(w)
  <2> DEFINE u == Written(w)
  <2>1. PICK k \in 0 .. Len(u) : file' = file \o SubSeq(u, 1, k)
    BY <1>4 DEF write_fails
  <2> HIDE DEF u
  <2>2. u \in Seq(Bytes) /\ k \in Nat /\ k <= Len(u) /\ 1 \in Nat \ {0}
    BY <1>2 DEF u
  <2>3. /\ SubSeq(u, 1, k) \in Seq(Bytes)
        /\ Len(SubSeq(u, 1, k)) = IF 1 <= k THEN (k - 1) + 1 ELSE 0
        /\ \A j \in 1 .. (k - 1) + 1 : SubSeq(u, 1, k)[j] = u[(1 + j) - 1]
    BY <2>2, CutOf
  <2> DEFINE t == SubSeq(u, 1, k)
  <2> HIDE DEF t
  <2>4. t \in Seq(Bytes) /\ (k = 0 => t = <<>>)
    <3>1. t \in Seq(Bytes) /\ (k = 0 => Len(t) = 0)
      BY <2>2, <2>3 DEF t
    <3> QED
      BY <3>1
  <2>5. k # 0 => t[1] = u[1]
    <3>1. k # 0 => 1 \in 1 .. (k - 1) + 1 /\ (1 + 1) - 1 = 1
      BY <2>2
    <3> QED
      BY <2>3, <3>1 DEF t
  <2>6. need_newline[w] => t = <<>> \/ t[1] = "nl"
    BY <1>2, <2>4, <2>5 DEF u
  <2>7. Appends(w, t)
    BY <2>1, <2>4, <2>6 DEF Appends, t
  <2> QED
    BY <1>1, <2>7
<1> QED
  BY <1>3, <1>4

LEMMA InitHolds == Init => IInv
<1> SUFFICES ASSUME Init
             PROVE  IInv
  OBVIOUS
<1>1. file \in InitFiles /\ file \in Seq(Bytes)
  BY CsvAssumption DEF Init
<1>2. TypeOK
  BY <1>1 DEF Init, TypeOK
<1>3. ASSUME file # <<>>
      PROVE  HeaderStable(file) \/ Last(fgets(file, 1)) # "cr"
  <2> DEFINE h == fgets(file, 1)
  <2>1. Last(h) = "cr" => Quote \notin ToSet(h) \/ Len(h) = LineCap - 1
    BY <1>1, <1>3, HeaderAssumption DEF HeaderStands
  <2>2. h \in Seq(Bytes) /\ Len(h) \in Nat \ {0}
    BY <1>1, <1>3, HeaderIs
  <2>3. HeaderStable(file) <=> \/ Last(h) = "nl" \/ Len(h) = LineCap - 1
                               \/ \E q \in DOMAIN h : h[q] = "cr" /\ \A j \in 1 .. q : h[j] # Quote
    BY DEF HeaderStable
  <2> HIDE DEF h
  <2>4. ASSUME Last(h) = "cr", Quote \notin ToSet(h)
        PROVE  \E q \in DOMAIN h : h[q] = "cr" /\ \A j \in 1 .. q : h[j] # Quote
    <3>1. Len(h) \in DOMAIN h /\ h[Len(h)] = "cr"
      BY <2>2, <2>4 DEF Last
    <3>2. \A j \in 1 .. Len(h) : h[j] # Quote
      BY <2>2, <2>4 DEF ToSet
    <3> QED
      BY <3>1, <3>2
  <2> QED
    BY <2>1, <2>3, <2>4 DEF h
<1>4. \A w \in Writers : pc[w] # "write"
  BY DEF Init
<1> QED
  BY <1>2, <1>3, <1>4 DEF IInv, HeaderEnds

LEMMA BeginKeeps ==
  ASSUME IInv, NEW w \in Writers, NEW r \in InsertRows[w], append_insert_row(w, r)
  PROVE  IInv'
<1>1. TypeOK'
  BY DEF IInv, append_insert_row, TypeOK, HeaderTakes, column_count
<1>2. \A v \in Writers : pc'[v] = "write" => pc[v] = "write" /\ need_newline'[v] = need_newline[v]
  BY DEF IInv, TypeOK, append_insert_row
<1>3. file' = file
  BY DEF append_insert_row
<1> QED
  BY <1>1, <1>2, <1>3 DEF IInv, HeaderEnds

LEMMA MeasureKeeps ==
  ASSUME IInv, NEW w \in Writers, measure(w)
  PROVE  IInv'
<1>0. TypeOK
  BY DEF IInv
<1>1. LineIsOpen(file) \in BOOLEAN
  BY DEF LineIsOpen
<1>2. TypeOK'
  BY <1>0, <1>1 DEF measure, TypeOK, column_count
<1>3. file # <<>> /\ file \in Seq(Bytes) /\ file' = file
  BY <1>0, AppendingRow DEF measure
<1>4. CASE HeaderStable(file)
  BY <1>2, <1>3, <1>4 DEF IInv, HeaderEnds
<1>5. CASE ~HeaderStable(file)
  <2>1. Last(fgets(file, 1)) # "cr" /\ \A v \in Writers : pc[v] = "write" => need_newline[v]
    BY <1>3, <1>5 DEF IInv, HeaderEnds
  <2>2. LineIsOpen(file)
    BY <1>3, <1>5, <2>1, OpenHeader
  <2>3. \A v \in Writers : pc'[v] = "write" => need_newline'[v]
    BY <1>0, <2>1, <2>2 DEF measure, TypeOK
  <2> QED
    BY <1>2, <1>3, <2>1, <2>3 DEF IInv, HeaderEnds
<1> QED
  BY <1>4, <1>5

\* When an INSERT returns, what the others are doing stays.
LEMMA ReturnKeeps ==
  ASSUME IInv, NEW w \in Writers, pc[w] # "idle", Return(w),
         file' \in Seq(Bytes), file' # <<>>, column_count(file') = column_count(file),
         \/ HeaderStable(file')
         \/ file' = file
  PROVE  IInv'
<1>0. TypeOK /\ file # <<>>
  BY AppendingRow DEF IInv
<1>1. /\ pc' = [pc EXCEPT ![w] = "idle"] /\ row' = [row EXCEPT ![w] = <<>>]
      /\ need_newline' = [need_newline EXCEPT ![w] = FALSE]
  BY DEF Return
<1>2. column_count(file)' = column_count(file)
  <2>1. column_count(file)' = column_count(file')
    BY DEF column_count
  <2> QED
    BY <2>1
<1>3. TypeOK'
  BY <1>0, <1>1, <1>2 DEF TypeOK
<1>4. \A v \in Writers : pc'[v] = "write" => pc[v] = "write" /\ need_newline'[v] = need_newline[v]
  BY <1>0, <1>1 DEF TypeOK
<1>5. HeaderEnds'
  <2>1. CASE HeaderStable(file')
    BY <2>1 DEF HeaderEnds, HeaderStable
  <2>2. CASE file' = file
    BY <1>4, <2>2 DEF IInv, HeaderEnds, HeaderStable
  <2> QED
    BY <2>1, <2>2
<1> QED
  BY <1>3, <1>5 DEF IInv

LEMMA WriteKeeps ==
  ASSUME IInv, NEW w \in Writers, write(w) \/ write_fails(w)
  PROVE  IInv' /\ column_count(file') = column_count(file)
<1>0. TypeOK
  BY DEF IInv
<1>1. pc[w] = "write" /\ Return(w)
  BY <1>0, WriteAppends
<1>2. PICK t : Appends(w, t)
  BY <1>0, WriteAppends
<1>3. file \in Seq(Bytes) /\ file # <<>>
  BY <1>0, <1>1, AppendingRow
<1>4. t \in Seq(Bytes) /\ file' = file \o t /\ (need_newline[w] => t = <<>> \/ t[1] = "nl")
  BY <1>2 DEF Appends
<1>5. HeaderStable(file) \/ t = <<>> \/ t[1] = "nl"
  BY <1>1, <1>3, <1>4 DEF IInv, HeaderEnds
<1>6. /\ file' \in Seq(Bytes) /\ file' # <<>>
      /\ column_count(file') = column_count(file)
      /\ HeaderStable(file) \/ t # <<>> => HeaderStable(file')
  BY <1>3, <1>4, <1>5, HeaderKept
<1>7. t = <<>> => file' = file
  BY <1>3, <1>4, ConcatEmptySeq
<1> QED
  BY <1>1, <1>6, <1>7, ReturnKeeps

LEMMA OpenFailsKeeps ==
  ASSUME IInv, NEW w \in Writers, open_fails(w)
  PROVE  IInv'
<1>1. pc[w] # "idle" /\ Return(w) /\ file' = file
  BY DEF open_fails
<1>2. file \in Seq(Bytes) /\ file # <<>>
  BY <1>1, AppendingRow DEF IInv
<1> QED
  BY <1>1, <1>2, ReturnKeeps

LEMMA StutterKeeps == IInv /\ UNCHANGED vars => IInv'
BY DEF IInv, TypeOK, HeaderEnds, vars, column_count, HeaderStable

LEMMA StepKeeps == IInv /\ [Next]_vars => IInv'
<1> SUFFICES ASSUME IInv, [Next]_vars
             PROVE  IInv'
  OBVIOUS
<1>1. ASSUME NEW w \in Writers, NEW r \in InsertRows[w], append_insert_row(w, r)
      PROVE  IInv'
  BY <1>1, BeginKeeps
<1>2. ASSUME NEW w \in Writers, NEW r \in InsertRows[w], Refuse(w, r)
      PROVE  IInv'
  BY <1>2, StutterKeeps DEF Refuse
<1>3. ASSUME NEW w \in Writers, measure(w)
      PROVE  IInv'
  BY <1>3, MeasureKeeps
<1>4. ASSUME NEW w \in Writers, open_fails(w)
      PROVE  IInv'
  BY <1>4, OpenFailsKeeps
<1>5. ASSUME NEW w \in Writers, write(w) \/ write_fails(w)
      PROVE  IInv'
  BY <1>5, WriteKeeps
<1> QED
  BY <1>1, <1>2, <1>3, <1>4, <1>5, StutterKeeps DEF Next

LEMMA Invariant == Spec => []IInv
<1>1. Init => IInv
  BY InitHolds
<1>2. IInv /\ [Next]_vars => IInv'
  BY StepKeeps
<1> QED
  BY <1>1, <1>2, PTL DEF Spec

\* While a row is being written it has a value for each column, although other
\* processes append to the file, and parts of rows, in between.
THEOREM TypeCorrect == Spec => []TypeOK
<1>1. IInv => TypeOK
  BY DEF IInv
<1> QED
  BY <1>1, Invariant, PTL

-----------------------------------------------------------------------------
(* Rows keep their numbers.                                                *)

LEMMA EqualCuts ==
  ASSUME NEW A, NEW B, NEW x \in Seq(A), NEW y \in Seq(B), NEW a \in Nat \ {0}, NEW b \in Nat,
         b <= Len(x), b <= Len(y), \A j \in a .. b : x[j] = y[j]
  PROVE  SubSeq(x, a, b) = SubSeq(y, a, b) /\ Len(SubSeq(x, a, b)) = IF a <= b THEN (b - a) + 1 ELSE 0
<1> DEFINE u == SubSeq(x, a, b)
           v == SubSeq(y, a, b)
<1>1. /\ u \in Seq(A) /\ Len(u) = (IF a <= b THEN (b - a) + 1 ELSE 0)
      /\ \A j \in 1 .. (b - a) + 1 : u[j] = x[(a + j) - 1]
  BY CutOf
<1>2. /\ v \in Seq(B) /\ Len(v) = (IF a <= b THEN (b - a) + 1 ELSE 0)
      /\ \A j \in 1 .. (b - a) + 1 : v[j] = y[(a + j) - 1]
  BY CutOf
<1> HIDE DEF u, v
<1>3. ASSUME NEW j \in 1 .. (b - a) + 1
      PROVE  u[j] = v[j]
  <2>1. (a + j) - 1 \in a .. b
    OBVIOUS
  <2> QED
    BY <1>1, <1>2, <2>1
<1>4. \A j \in 1 .. Len(u) : u[j] = v[j]
  BY <1>1, <1>3
<1>5. u = v
  <2>1. Len(u) = Len(v)
    BY <1>1, <1>2
  <2>2. u \in Seq(A) /\ v \in Seq(B)
    BY <1>1, <1>2
  <2> QED
    BY <1>4, <2>1, <2>2, SMTT(30)
<1> QED
  BY <1>1, <1>5 DEF u, v

LEMMA RowReadAgain ==
  ASSUME NEW f \in Seq(Bytes), NEW g \in Seq(Bytes), f # <<>>, g # <<>>,
         column_count(g) = column_count(f), NEW n \in Nat,
         n + 1 <= Len(Rows(f)), n + 1 <= Len(Rows(g)), \A j \in 1 .. n + 1 : Rows(g)[j] = Rows(f)[j]
  PROVE  read_table_row(g, n) = read_table_row(f, n)
<1> DEFINE x == Rows(f)
           y == Rows(g)
           A == {x[k] : k \in DOMAIN x}
           B == {y[k] : k \in DOMAIN y}
<1>1. x \in Seq(A) /\ y \in Seq(B)
  BY RowsAre
<1> HIDE DEF x, y, A, B
<1>2. PICK b \in Nat \ {0} : b = n + 1
  OBVIOUS
<1>3. b <= Len(x) /\ b <= Len(y) /\ \A j \in 1 .. b : x[j] = y[j]
  BY <1>2 DEF x, y
<1>4. Len(x) \in Nat /\ Len(y) \in Nat
  BY <1>1
<1>5. Min({b, Len(x)}) = b /\ Min({b, Len(y)}) = b
  <2>1. {b, Len(x)} \in SUBSET Nat /\ {b, Len(x)} # {} /\ {b, Len(y)} \in SUBSET Nat /\ {b, Len(y)} # {}
    BY <1>4
  <2>2. Min({b, Len(x)}) \in {b, Len(x)} /\ \A z \in {b, Len(x)} : Min({b, Len(x)}) <= z
    BY <2>1, MinIsLeast
  <2>3. Min({b, Len(y)}) \in {b, Len(y)} /\ \A z \in {b, Len(y)} : Min({b, Len(y)}) <= z
    BY <2>1, MinIsLeast
  <2> QED
    BY <1>3, <1>4, <2>2, <2>3
<1>6. SubSeq(x, 1, b) = SubSeq(y, 1, b) /\ Len(SubSeq(x, 1, b)) = b
  <2>1. SubSeq(x, 1, b) = SubSeq(y, 1, b) /\ Len(SubSeq(x, 1, b)) = IF 1 <= b THEN (b - 1) + 1 ELSE 0
    BY <1>1, <1>3, EqualCuts
  <2> QED
    BY <2>1
<1>7. SubSeq(x, b, b) = SubSeq(y, b, b)
  <2>1. \A j \in b .. b : x[j] = y[j]
    BY <1>3
  <2> QED
    BY <1>1, <1>3, <2>1, EqualCuts
<1> DEFINE s == SubSeq(x, 1, b)
           Ill(h) == \E k \in DOMAIN s : ~WellFormed(h, s[k])
<1>8. read_table_row(f, n) = IF Ill(f) THEN Failed
                             ELSE Table(SubSeq(x, b, Len(s)))
  BY <1>2, <1>5 DEF read_table_row, x
<1>9. read_table_row(g, n) = IF Ill(g) THEN Failed
                             ELSE Table(SubSeq(y, b, Len(s)))
  BY <1>2, <1>5, <1>6 DEF read_table_row, y
<1>10. \A k : WellFormed(g, s[k]) <=> WellFormed(f, s[k])
  BY DEF WellFormed
<1>11. Ill(g) <=> Ill(f)
  BY <1>10
<1>12. Len(s) = b
  BY <1>6
<1> HIDE DEF s
<1>13. CASE Ill(f)
  BY <1>8, <1>9, <1>11, <1>13
<1>14. CASE ~Ill(f)
  <2>1. read_table_row(f, n) = Table(SubSeq(x, b, b))
    BY <1>8, <1>12, <1>14
  <2>2. read_table_row(g, n) = Table(SubSeq(y, b, b))
    BY <1>9, <1>11, <1>12, <1>14
  <2> QED
    BY <1>7, <2>1, <2>2
<1> QED
  BY <1>13, <1>14

RowsStayNow ==
  \A n \in 0 .. data_row_count(file) - 1 :
    \/ ~read_table_row(file, n).ok
    \/ /\ n = data_row_count(file) - 1
       /\ ~Closed(file) \/ Last(file) = "cr" \/ \E w \in Writers : Glued(w)
    \/ read_table_row(file', n) = read_table_row(file, n)

LEMMA WriteKeepsRows ==
  ASSUME IInv, NEW w \in Writers, write(w) \/ write_fails(w), file' # file
  PROVE  RowsStayNow
<1>0. TypeOK
  BY DEF IInv
<1>1. PICK t : Appends(w, t) /\ pc[w] = "write"
  BY <1>0, WriteAppends
<1> DEFINE f == file
           g == file'
<1>2. f \in Seq(Bytes) /\ f # <<>>
  BY <1>0, <1>1, AppendingRow
<1>3. g \in Seq(Bytes) /\ g # <<>> /\ column_count(g) = column_count(f)
  <2>1. IInv' /\ column_count(g) = column_count(f)
    BY WriteKeeps
  <2>2. g \in Seq(Bytes)
    BY <2>1 DEF IInv, TypeOK
  <2>3. row[w] # <<>> /\ Len(row[w]) = column_count(f) /\ row[w] \in Seq(SqlValue)
    BY <1>0, <1>1, AppendingRow
  <2>4. column_count(f) # 0
    BY <2>3
  <2>5. g # <<>>
    BY <2>1, <2>4 DEF column_count
  <2> QED
    BY <2>1, <2>2, <2>5
<1>4. t \in Seq(Bytes) /\ g = f \o t /\ (need_newline[w] => t = <<>> \/ t[1] = "nl")
  BY <1>1 DEF Appends
<1>5. Extends(g, f) /\ Len(g) = Len(f) + Len(t)
  BY <1>2, <1>4, AppendedExtends
<1>6. t # <<>>
  BY <1>2, <1>4, ConcatEmptySeq
<1>7. \A i \in 1 .. Len(f) + Len(t) : g[i] = IF i <= Len(f) THEN f[i] ELSE t[i - Len(f)]
  BY <1>2, <1>4, ConcatProperties
<1>8. Len(f) \in Nat \ {0} /\ Len(t) \in Nat \ {0}
  BY <1>2, <1>4, <1>6
<1>9. data_row_count(f) = Len(Rows(f)) /\ Len(Rows(f)) \in Nat
  <2>1. /\ DataPieces(f) \in Seq(Seq(Bytes))
        /\ Len(Rows(f)) = Len(DataPieces(f)) /\ data_row_count(f) = Len(DataPieces(f))
    BY <1>2, RowsAre
  <2> QED
    BY <2>1
<1>10. \A j \in 1 .. Len(Rows(f)) :
         j < Len(Rows(f)) \/ f[Len(f)] = "nl" => j \in 1 .. Len(Rows(g)) /\ Rows(g)[j] = Rows(f)[j]
  BY <1>2, <1>3, <1>5, RowsKept
<1>11. ASSUME Closed(f), Last(f) # "cr", ~Glued(w), f[Len(f)] # "nl"
       PROVE  \A j \in 1 .. Len(Rows(f)) : j \in 1 .. Len(Rows(g)) /\ Rows(g)[j] = Rows(f)[j]
  <2>1. LineIsOpen(f)
    BY <1>11 DEF LineIsOpen, Last
  <2>2. need_newline[w]
    BY <1>1, <1>11, <2>1 DEF Glued
  <2>3. t[1] = "nl"
    BY <1>4, <1>6, <2>2
  <2> DEFINE n == <<"nl">>
             c == f \o n
  <2>4. n \in Seq(Bytes) /\ Len(n) = 1 /\ n[1] = "nl"
    BY ByteTypes, ShortSeqs
  <2> HIDE DEF n
  <2>5. /\ c \in Seq(Bytes) /\ Len(c) = Len(f) + 1
        /\ \A i \in 1 .. Len(f) + 1 : c[i] = IF i <= Len(f) THEN f[i] ELSE n[i - Len(f)]
    BY <1>2, <2>4, ConcatProperties, SMTT(40)
  <2>6. Rows(f) = Rows(c)
    BY <1>11 DEF Closed, n
  <2> HIDE DEF c, g, f
  <2>7. PICK e \in Nat : e = Len(f) + 1 /\ e - Len(f) = 1 /\ ~(e <= Len(f)) /\ e <= Len(f) + Len(t)
    BY <1>8
  <2>8. c[e] = "nl" /\ g[e] = "nl"
    BY <1>7, <1>8, <2>3, <2>4, <2>5, <2>7
  <2>9. ASSUME NEW i \in 1 .. e
        PROVE  g[i] = c[i]
    <3>1. CASE i = e
      BY <2>8, <3>1
    <3>2. CASE i # e
      <4>1. i <= Len(f) /\ i \in 1 .. Len(f) + 1 /\ i \in 1 .. Len(f) + Len(t)
        BY <1>8, <2>7, <3>2
      <4> QED
        BY <1>7, <2>5, <4>1
    <3> QED
      BY <3>1, <3>2
  <2>10. Extends(g, c)
    BY <1>5, <2>5, <2>7, <2>9 DEF Extends
  <2>11. c # <<>> /\ c[Len(c)] = "nl"
    BY <1>8, <2>5, <2>7, <2>8
  <2> QED
    BY <1>3, <2>5, <2>6, <2>10, <2>11, RowsKept
<1> HIDE DEF f, g
<1>12. ASSUME NEW n \in 0 .. data_row_count(f) - 1,
              n # data_row_count(f) - 1 \/ (Closed(f) /\ Last(f) # "cr" /\ ~Glued(w))
       PROVE  read_table_row(g, n) = read_table_row(f, n)
  <2>1. n \in Nat /\ n + 1 <= Len(Rows(f))
    BY <1>9
  <2>2. ASSUME NEW j \in 1 .. n + 1
        PROVE  j \in 1 .. Len(Rows(g)) /\ Rows(g)[j] = Rows(f)[j]
    <3>1. j \in 1 .. Len(Rows(f))
      BY <1>9, <2>1
    <3>2. CASE n # data_row_count(f) - 1
      <4>1. j < Len(Rows(f))
        BY <1>9, <3>2
      <4> QED
        BY <1>10, <3>1, <4>1
    <3>3. CASE f[Len(f)] = "nl"
      BY <1>10, <3>1, <3>3
    <3>4. CASE n = data_row_count(f) - 1 /\ f[Len(f)] # "nl"
      BY <1>11, <1>12, <3>1, <3>4
    <3> QED
      BY <3>2, <3>3, <3>4
  <2>3. n + 1 \in 1 .. n + 1 /\ \A j \in 1 .. n + 1 : Rows(g)[j] = Rows(f)[j]
    BY <2>1, <2>2
  <2>4. n + 1 <= Len(Rows(g))
    BY <2>1, <2>2, <2>3
  <2> QED
    BY <1>2, <1>3, <2>1, <2>3, <2>4, RowReadAgain
<1>13. \A n \in 0 .. data_row_count(f) - 1 :
         \/ n = data_row_count(f) - 1 /\ (~Closed(f) \/ Last(f) = "cr" \/ \E v \in Writers : Glued(v))
         \/ read_table_row(g, n) = read_table_row(f, n)
  BY <1>12
<1> QED
  BY <1>13 DEF RowsStayNow, f, g

\* A row keeps its number and its cells whatever is appended later.
THEOREM RowsStayCorrect == Spec => RowsStay
<1>1. IInv /\ [Next]_vars => [RowsStayNow]_file
  <2> SUFFICES ASSUME IInv, [Next]_vars, file' # file
               PROVE  RowsStayNow
    OBVIOUS
  <2>1. PICK w \in Writers : write(w) \/ write_fails(w)
    BY DEF Next, vars, append_insert_row, Refuse, measure, open_fails
  <2> QED
    BY <2>1, WriteKeepsRows
<1> QED
  BY <1>1, Invariant, PTL DEF Spec, RowsStay, RowsStayNow

-----------------------------------------------------------------------------
(* A row that is appended after a line end.                                *)

\* What is appended after a line feed changes no piece before it.
LEMMA ScanAppend ==
  ASSUME NEW S, NEW f \in Seq(S), NEW g \in Seq(S), Extends(g, f), f # <<>>, f[Len(f)] = "nl"
  PROVE  DataPieces(g) = DataPieces(f) \o Scan(g, Len(f) + 1) /\ Scan(g, Len(f) + 1) \in Seq(Seq(S))
<1> DEFINE P == Seq(S)
<1>1. PICK l \in Nat : l = Len(f)
  OBVIOUS
<1>2. l <= Len(g) /\ Len(g) \in Nat /\ l # 0
  BY <1>1 DEF Extends
<1> DEFINE last == Scan(g, l + 1)
           G == {p \in 1 .. l + 1 : Scan(g, p) = Scan(f, p) \o last}
<1>3. last \in Seq(P)
  BY <1>2, ScanTypes
<1>4. ASSUME NEW p \in 1 .. l
      PROVE  Ends(f, p)
  BY <1>1, <1>4, LineEndIs DEF Ends
<1>5. ASSUME NEW p \in 1 .. l + 1, \A q \in p + 1 .. l + 1 : q \in G
      PROVE  p \in G
  <2>1. CASE p = l + 1
    <3>1. Scan(f, p) = <<>>
      BY <1>1, <2>1, ScanIs
    <3>2. <<>> \o last = last
      BY <1>3, ConcatEmptySeq
    <3> QED
      BY <2>1, <3>1, <3>2
  <2>2. CASE p # l + 1
    <3>1. p \in 1 .. Len(f) /\ p \in 1 .. Len(g)
      BY <1>1, <1>2, <2>2
    <3> DEFINE x == fgets(f, p)
               i == IF is_blank_line(x) THEN <<>> ELSE <<x>>
    <3>2. fgets(g, p) = x
      BY <1>1, <1>4, <3>1, PieceGrows
    <3>3. x \in P /\ p + Len(x) \in p + 1 .. l + 1
      BY <1>1, <3>1, PieceIs
    <3>4. Scan(f, p) = i \o Scan(f, p + Len(x))
      BY <3>1, ScanIs
    <3>5. Scan(g, p) = i \o Scan(g, p + Len(x))
      BY <3>1, <3>2, ScanIs
    <3>6. p + Len(x) \in G
      BY <1>5, <3>3
    <3>7. Scan(g, p + Len(x)) = Scan(f, p + Len(x)) \o last
      BY <3>6
    <3>8. i \in Seq(P)
      BY <3>3
    <3>9. Scan(f, p + Len(x)) \in Seq(P)
      <4>1. p + Len(x) \in 1 .. Len(f) + 1
        BY <1>1, <3>3
      <4> QED
        BY <4>1, ScanTypes
    <3> DEFINE y == Scan(f, p + Len(x))
    <3> HIDE DEF i, y, last, P
    <3>10. (i \o y) \o last = i \o (y \o last)
      BY <1>3, <3>8, <3>9, ConcatAssociative DEF y
    <3>11. Scan(g, p) = Scan(f, p) \o last
      BY <3>4, <3>5, <3>7, <3>10 DEF y
    <3> QED
      BY <3>11
  <2> QED
    BY <2>1, <2>2
<1>6. \A p \in 1 .. l + 1 : (\A q \in p + 1 .. l + 1 : q \in G) => p \in G
  BY <1>5
<1> HIDE DEF G
<1>7. \A p \in 1 .. l + 1 : p \in G
  BY <1>6, Downwards
<1> DEFINE x == fgets(f, 1)
<1>8. 1 \in 1 .. l /\ 1 \in 1 .. Len(f) /\ 1 \in 1 .. Len(g)
  BY <1>1, <1>2
<1>9. fgets(g, 1) = x /\ 1 + Len(x) \in 1 .. l + 1
  BY <1>1, <1>4, <1>8, PieceGrows, PieceIs
<1>10. DataPieces(f) = Scan(f, 1 + Len(x)) /\ DataPieces(g) = Scan(g, 1 + Len(x))
  BY <1>9, ScanIs
<1>11. 1 + Len(x) \in G
  BY <1>7, <1>9
<1>12. Scan(g, 1 + Len(x)) = Scan(f, 1 + Len(x)) \o last
  BY <1>11 DEF G
<1> QED
  BY <1>1, <1>3, <1>10, <1>12

LEMMA LastPiece ==
  ASSUME NEW f \in Seq(Bytes), NEW x \in Seq(Bytes), x # <<>>, Len(x) < LineCap,
         \A j \in 1 .. Len(x) : x[j] # "nl"
  PROVE  Scan(f \o x, Len(f) + 1) = IF is_blank_line(x) THEN <<>> ELSE <<x>>
<1> DEFINE g == f \o x
<1>1. /\ g \in Seq(Bytes) /\ Len(g) = Len(f) + Len(x)
      /\ \A i \in 1 .. Len(f) + Len(x) : g[i] = IF i <= Len(f) THEN f[i] ELSE x[i - Len(f)]
  BY ConcatProperties
<1>2. Len(f) \in Nat /\ Len(x) \in Nat \ {0} /\ LineCap \in Nat /\ Len(g) \in Nat
  BY CsvAssumption
<1> HIDE DEF g
<1>0. Len(g) = Len(f) + Len(x)
  BY <1>1
<1>3. PICK p \in 1 .. Len(g) : p = Len(f) + 1
  BY <1>0, <1>2
<1> DEFINE e == LineEnd(g, p)
           y == fgets(g, p)
<1>4. e \in p .. Len(g) /\ (Ends(g, p) \/ e = Len(g))
  BY <1>2, LineEndIs
<1>5. /\ y \in Seq(Bytes) /\ Len(y) = (e - p) + 1
      /\ \A j \in 1 .. (e - p) + 1 : y[j] = g[(p + j) - 1]
  BY <1>1, PieceIs
<1>6. Ends(g, p) <=> g[e] = "nl" \/ e = p + LineCap - 2
  BY DEF Ends
<1> HIDE DEF e, y
<1>7. ASSUME NEW q \in p .. Len(g)
      PROVE  q - Len(f) \in 1 .. Len(x) /\ g[q] = x[q - Len(f)]
  <2>1. q \in 1 .. Len(f) + Len(x) /\ ~(q <= Len(f)) /\ q - Len(f) \in 1 .. Len(x)
    BY <1>1, <1>2, <1>3
  <2> QED
    BY <1>1, <2>1
<1>8. g[e] # "nl"
  BY <1>4, <1>7
<1>9. e = Len(g)
  <2>1. p + LineCap - 2 >= Len(g)
    BY <1>0, <1>2, <1>3
  <2>2. e = p + LineCap - 2 \/ e = Len(g)
    BY <1>4, <1>6, <1>8
  <2> QED
    BY <1>2, <1>4, <2>1, <2>2
<1>10. Len(y) = Len(x)
  BY <1>1, <1>2, <1>3, <1>5, <1>9
<1>11. ASSUME NEW j \in 1 .. Len(x)
       PROVE  y[j] = x[j]
  <2>1. j \in 1 .. (e - p) + 1
    BY <1>5, <1>10
  <2>2. PICK q \in p .. Len(g) : q = (p + j) - 1 /\ q - Len(f) = j
    <3>1. (p + j) - 1 \in p .. Len(g) /\ ((p + j) - 1) - Len(f) = j
      BY <1>0, <1>2, <1>3
    <3> QED
      BY <3>1
  <2> QED
    BY <1>5, <1>7, <2>1, <2>2
<1>12. y = x
  BY <1>5, <1>10, <1>11
<1>13. p + Len(y) = Len(g) + 1
  BY <1>1, <1>2, <1>3, <1>10
<1>14. Scan(g, p) = (IF is_blank_line(y) THEN <<>> ELSE <<y>>) \o Scan(g, p + Len(y))
  BY <1>1, ScanIs DEF y
<1>15. Scan(g, Len(g) + 1) = <<>>
  BY <1>1, ScanIs
<1> DEFINE i == IF is_blank_line(x) THEN <<>> ELSE <<x>>
<1>16. i \in Seq(Seq(Bytes))
  OBVIOUS
<1> HIDE DEF i
<1>17. i \o <<>> = i
  BY <1>16, ConcatEmptySeq
<1>18. Scan(g, p) = i \o <<>>
  BY <1>12, <1>13, <1>14, <1>15 DEF i
<1> QED
  BY <1>3, <1>17, <1>18 DEF g, i

\* A line feed after a line feed is a blank line.
LEMMA SecondLineFeed ==
  ASSUME NEW f \in Seq(Bytes), f # <<>>, f[Len(f)] = "nl"
  PROVE  Rows(f \o <<"nl">>) = Rows(f)
<1> DEFINE n == <<"nl">>
           g == f \o n
<1>1. n \in Seq(Bytes) /\ Len(n) = 1 /\ n[1] = "nl"
  BY ByteTypes, ShortSeqs
<1> HIDE DEF n
<1>2. /\ g \in Seq(Bytes) /\ Len(g) = Len(f) + 1 /\ Extends(g, f)
      /\ \A i \in 1 .. Len(f) + 1 : g[i] = IF i <= Len(f) THEN f[i] ELSE n[i - Len(f)]
  BY <1>1, ConcatProperties, AppendedExtends, SMTT(40)
<1> HIDE DEF g
<1>3. PICK p \in 1 .. Len(g) : p = Len(f) + 1 /\ p = Len(g) /\ p - Len(f) = 1 /\ ~(p <= Len(f))
  BY <1>2
<1>4. g[p] = "nl"
  BY <1>1, <1>2, <1>3
<1> DEFINE y == fgets(g, p)
<1>5. LineEnd(g, p) = p
  BY <1>3, LineEndIs
<1>6. y \in Seq(Bytes) /\ Len(y) = 1 /\ y[1] = "nl"
  <2>1. /\ y \in Seq(Bytes) /\ Len(y) = (p - p) + 1
        /\ \A j \in 1 .. (p - p) + 1 : y[j] = g[(p + j) - 1]
    BY <1>2, <1>5, PieceIs
  <2>2. (p - p) + 1 = 1 /\ (p + 1) - 1 = p
    OBVIOUS
  <2> QED
    BY <1>4, <2>1, <2>2
<1>7. is_blank_line(y)
  <2> HIDE DEF y
  <2>1. ASSUME NEW j \in DOMAIN y
        PROVE  y[j] \in Space
    <3>1. j = 1
      BY <1>6
    <3> QED
      BY <1>6, <3>1 DEF Space
  <2> QED
    BY <2>1 DEF is_blank_line, ToSet
<1>8. Scan(g, p) = <<>>
  <2>1. Scan(g, p) = (IF is_blank_line(y) THEN <<>> ELSE <<y>>) \o Scan(g, p + Len(y))
    BY <1>2, ScanIs
  <2>2. p + Len(y) = Len(g) + 1
    BY <1>3, <1>6
  <2>3. Scan(g, Len(g) + 1) = <<>>
    BY <1>2, ScanIs
  <2>4. Scan(g, p) = <<>> \o <<>>
    BY <1>7, <2>1, <2>2, <2>3
  <2> QED
    BY <2>4
<1>9. DataPieces(g) = DataPieces(f)
  <2>1. DataPieces(g) = DataPieces(f) \o <<>>
    BY <1>2, <1>3, <1>8, ScanAppend
  <2>2. DataPieces(f) \in Seq(Seq(Bytes))
    BY RowsAre
  <2> QED
    BY <2>1, <2>2, ConcatEmptySeq
<1>10. g # <<>>
  BY <1>2, <1>3
<1>11. Rows(g) = Rows(f)
  BY <1>9, <1>10 DEF Rows
<1> QED
  BY <1>11 DEF g, n

\* One line after a line end is one more row, or none if it is blank.
LEMMA RowAppended ==
  ASSUME NEW f \in Seq(Bytes), f # <<>>, f[Len(f)] = "nl",
         NEW x \in Seq(Bytes), x # <<>>, Len(x) < LineCap, \A j \in 1 .. Len(x) : x[j] # "nl"
  PROVE  /\ is_blank_line(x) => Rows(f \o x) = Rows(f)
         /\ ~is_blank_line(x) => Rows(f \o x) = Append(Rows(f), parse_csv_line(x))
<1> DEFINE g == f \o x
<1>1. g \in Seq(Bytes) /\ Extends(g, f) /\ Len(g) = Len(f) + Len(x)
  BY AppendedExtends
<1>2. Len(f) \in Nat \ {0} /\ Len(x) \in Nat
  OBVIOUS
<1>3. Scan(g, Len(f) + 1) = IF is_blank_line(x) THEN <<>> ELSE <<x>>
  BY LastPiece
<1> HIDE DEF g
<1>4. g # <<>>
  BY <1>1, <1>2
<1> DEFINE d == DataPieces(f)
<1>5. d \in Seq(Seq(Bytes)) /\ DataPieces(g) = d \o Scan(g, Len(f) + 1)
  BY <1>1, RowsAre, ScanAppend
<1>6. CASE is_blank_line(x)
  <2>1. DataPieces(g) = d
    BY <1>3, <1>5, <1>6, ConcatEmptySeq
  <2>2. Rows(g) = Rows(f)
    BY <1>4, <2>1 DEF Rows
  <2> QED
    BY <1>6, <2>2 DEF g
<1>7. CASE ~is_blank_line(x)
  <2> DEFINE o == <<x>>
  <2>1. o \in Seq(Seq(Bytes)) /\ Len(o) = 1 /\ o[1] = x
    OBVIOUS
  <2>2. DataPieces(g) = d \o o
    BY <1>3, <1>5, <1>7
  <2> HIDE DEF o, d
  <2>13. d \in Seq(Seq(Bytes))
    BY <1>5 DEF d
  <2>12. /\ Len(d \o o) = Len(d) + Len(o)
         /\ \A i \in 1 .. Len(d) + Len(o) : (d \o o)[i] = IF i <= Len(d) THEN d[i] ELSE o[i - Len(d)]
    BY <2>1, <2>13, ConcatProperties
  <2>3. /\ Len(d \o o) = Len(d) + 1 /\ Len(d) \in Nat
        /\ \A i \in 1 .. Len(d) + 1 : (d \o o)[i] = IF i <= Len(d) THEN d[i] ELSE o[i - Len(d)]
    BY <2>1, <2>12, <2>13
  <2>4. /\ Len(Rows(f)) = Len(d) /\ DOMAIN Rows(f) = 1 .. Len(d)
        /\ Rows(f) \in Seq({Rows(f)[k] : k \in DOMAIN Rows(f)})
        /\ \A k \in 1 .. Len(d) : Rows(f)[k] = parse_csv_line(d[k])
    BY RowsAre DEF d
  <2>5. /\ Len(Rows(g)) = Len(d) + 1 /\ DOMAIN Rows(g) = 1 .. Len(d) + 1
        /\ Rows(g) \in Seq({Rows(g)[k] : k \in DOMAIN Rows(g)})
        /\ \A k \in 1 .. Len(d) + 1 : Rows(g)[k] = parse_csv_line((d \o o)[k])
    BY <1>1, <1>4, <2>2, <2>3, RowsAre
  <2> DEFINE r == Rows(f)
             v == Rows(g)
             y == parse_csv_line(x)
             A == {r[k] : k \in DOMAIN r}
             B == {v[k] : k \in DOMAIN v}
             n == Len(d)
  <2>6. n \in Nat /\ n + 1 \in 1 .. n + 1 /\ ~(n + 1 <= n) /\ (n + 1) - n = 1
    BY <2>3
  <2>7. v[n + 1] = y
    BY <2>1, <2>3, <2>5, <2>6
  <2>8. \A k \in 1 .. n : v[k] = r[k]
    <3> TAKE k \in 1 .. n
    <3>1. k \in 1 .. n + 1 /\ k <= n
      BY <2>6
    <3> QED
      BY <2>3, <2>4, <2>5, <3>1
  <2>9. r \in Seq(A) /\ Len(r) = n
    BY <2>4
  <2>10. v \in Seq(B) /\ Len(v) = n + 1
    BY <2>5
  <2> HIDE DEF r, v, y, A, B, n
  <2>11. v = Append(r, y)
    <3>1. Append(r, y) \in Seq(A \cup {y}) /\ Len(Append(r, y)) = n + 1
      BY <2>9
    <3>2. \A k \in 1 .. n + 1 : Append(r, y)[k] = IF k = n + 1 THEN y ELSE r[k]
      BY <2>6, <2>9
    <3>3. ASSUME NEW k \in 1 .. n + 1
          PROVE  Append(r, y)[k] = v[k]
      <4>1. CASE k = n + 1
        BY <2>7, <3>2, <4>1
      <4>2. CASE k # n + 1
        <5>1. k \in 1 .. n
          BY <2>6, <4>2
        <5> QED
          BY <2>8, <3>2, <4>2, <5>1
      <4> QED
        BY <4>1, <4>2
    <3> QED
      BY <2>10, <3>1, <3>3
  <2> QED
    BY <1>7, <2>11 DEF g, r, v, y
<1> QED
  BY <1>6, <1>7

-----------------------------------------------------------------------------
(* Where the bytes of a row are.                                           *)

\* Where the k-th of the lists begins, after how many elements.
Begin(ss, k) == IF k = 1 THEN 0 ELSE Len(Joined(ss, k - 1))

LEMMA JoinedAt ==
  ASSUME NEW S, NEW ss \in Seq(Seq(S)), ss # <<>>
  PROVE  /\ Begin(ss, 1) = 0
         /\ \A k \in 1 .. Len(ss) :
              /\ Begin(ss, k) \in Nat
              /\ Begin(ss, k + 1) = Begin(ss, k) + Len(ss[k])
              /\ Begin(ss, k) + Len(ss[k]) <= Len(FlattenSeq(ss))
              /\ \A i \in 1 .. Len(ss[k]) : FlattenSeq(ss)[Begin(ss, k) + i] = ss[k][i]
         /\ Len(FlattenSeq(ss)) = Begin(ss, Len(ss) + 1)
<1> DEFINE l    == Len(ss)
           J(m) == Joined(ss, m)
           Holds(m) == \A k \in 1 .. m :
                         /\ Begin(ss, k) \in Nat /\ Begin(ss, k + 1) = Begin(ss, k) + Len(ss[k])
                         /\ Begin(ss, k) + Len(ss[k]) <= Len(J(m))
                         /\ \A i \in 1 .. Len(ss[k]) : J(m)[Begin(ss, k) + i] = ss[k][i]
           G == {m \in 1 .. l : Holds(m)}
<1>1. l \in Nat \ {0} /\ \A k \in 1 .. l : ss[k] \in Seq(S) /\ Len(ss[k]) \in Nat
  OBVIOUS
<1>2. \A m \in 1 .. l : J(m) = (IF m = 1 THEN ss[1] ELSE J(m - 1) \o ss[m]) /\ J(m) \in Seq(S)
  BY JoinedIs
<1>3. \A k \in 1 .. l : Begin(ss, k + 1) = Len(J(k))
  <2> TAKE k \in 1 .. l
  <2>1. k + 1 # 1 /\ (k + 1) - 1 = k
    OBVIOUS
  <2> QED
    BY <2>1 DEF Begin
<1>4. ASSUME NEW m \in 1 .. l, \A q \in 1 .. l : q < m => q \in G
      PROVE  Holds(m)
  <2>1. CASE m = 1
    <3>0. 1 \in 1 .. l
      BY <1>1
    <3>1. J(1) = ss[1] /\ Begin(ss, 1) = 0 /\ Begin(ss, 1 + 1) = Len(J(1))
      <4>1. J(1) = ss[1]
        BY <1>2, <3>0
      <4>2. Begin(ss, 1) = 0
        BY DEF Begin
      <4>3. Begin(ss, 1 + 1) = Len(J(1))
        BY <1>3, <3>0
      <4> QED
        BY <4>1, <4>2, <4>3
    <3>2. \A k \in 1 .. m : k = 1
      BY <2>1
    <3> HIDE DEF J
    <3>3. Len(ss[1]) \in Nat
      BY <1>1
    <3>4. \A i \in 1 .. Len(ss[1]) : J(1)[Begin(ss, 1) + i] = ss[1][i]
      BY <3>1, <3>3
    <3> QED
      BY <2>1, <3>1, <3>2, <3>3, <3>4
  <2>2. CASE m # 1
    <3>1. PICK h \in 1 .. l : h = m - 1 /\ h < m /\ h + 1 = m
      <4>1. m - 1 \in 1 .. l /\ m - 1 < m /\ (m - 1) + 1 = m
        BY <1>1, <2>2
      <4> QED
        BY <4>1
    <3>2. Holds(h)
      BY <1>4, <3>1
    <3>3. J(m) = J(h) \o ss[m] /\ J(h) \in Seq(S) /\ ss[m] \in Seq(S)
      BY <1>1, <1>2, <2>2, <3>1
    <3>4. Begin(ss, m) = Len(J(h)) /\ Begin(ss, m + 1) = Len(J(m))
      BY <1>3, <3>1
    <3> HIDE DEF J, G
    <3>5. /\ Len(J(m)) = Len(J(h)) + Len(ss[m]) /\ Len(J(h)) \in Nat /\ Len(ss[m]) \in Nat
          /\ \A i \in 1 .. Len(J(h)) + Len(ss[m]) :
               J(m)[i] = IF i <= Len(J(h)) THEN J(h)[i] ELSE ss[m][i - Len(J(h))]
      BY <3>3, ConcatProperties, LenProperties
    <3>6. ASSUME NEW k \in 1 .. m
          PROVE  /\ Begin(ss, k) \in Nat /\ Begin(ss, k + 1) = Begin(ss, k) + Len(ss[k])
                 /\ Begin(ss, k) + Len(ss[k]) <= Len(J(m))
                 /\ \A i \in 1 .. Len(ss[k]) : J(m)[Begin(ss, k) + i] = ss[k][i]
      <4>0. Len(J(h)) \in Nat /\ Len(ss[m]) \in Nat
        BY <3>5
      <4>1. CASE k = m
        <5>1. Begin(ss, k) = Len(J(h)) /\ Begin(ss, k + 1) = Len(J(h)) + Len(ss[k])
          BY <3>4, <3>5, <4>1
        <5>2. ASSUME NEW i \in 1 .. Len(ss[k])
              PROVE  J(m)[Begin(ss, k) + i] = ss[k][i]
          <6>0. i \in 1 .. Len(ss[m])
            BY <4>1
          <6>1. PICK j \in 1 .. Len(J(h)) + Len(ss[m]) :
                  j = Len(J(h)) + i /\ ~(j <= Len(J(h))) /\ j - Len(J(h)) = i
            BY <4>0, <6>0
          <6> QED
            BY <3>5, <4>1, <5>1, <6>1
        <5> QED
          BY <3>5, <4>1, <5>1, <5>2
      <4>2. CASE k # m
        <5>1. k \in 1 .. h
          BY <3>1, <4>2
        <5>2. /\ Begin(ss, k) \in Nat /\ Begin(ss, k + 1) = Begin(ss, k) + Len(ss[k])
              /\ Begin(ss, k) + Len(ss[k]) <= Len(J(h))
              /\ \A i \in 1 .. Len(ss[k]) : J(h)[Begin(ss, k) + i] = ss[k][i]
          BY <3>2, <5>1
        <5>3. Len(ss[k]) \in Nat
          <6>1. k \in 1 .. l
            OBVIOUS
          <6> QED
            BY <1>1, <6>1
        <5>4. ASSUME NEW i \in 1 .. Len(ss[k])
              PROVE  J(m)[Begin(ss, k) + i] = ss[k][i]
          <6>0. Begin(ss, k) \in Nat /\ Begin(ss, k) + Len(ss[k]) <= Len(J(h))
            BY <5>2
          <6>1. PICK x \in Nat : x = Begin(ss, k)
            BY <6>0
          <6>2. i \in Nat /\ 1 <= i /\ x + i <= Len(J(h))
            BY <5>3, <6>0, <6>1
          <6>3. x + i \in 1 .. Len(J(h)) + Len(ss[m]) /\ x + i <= Len(J(h))
            BY <4>0, <6>2
          <6>4. J(m)[x + i] = J(h)[x + i]
            BY <3>5, <6>3
          <6> QED
            BY <5>2, <6>1, <6>4
        <5> QED
          BY <3>5, <5>2, <5>3, <5>4
      <4> QED
        BY <4>1, <4>2
    <3> QED
      BY <3>6
  <2> QED
    BY <2>1, <2>2
<1>5. \A m \in 1 .. l : (\A q \in 1 .. l : q < m => q \in G) => m \in G
  BY <1>4
<1> HIDE DEF G
<1>6. \A m \in 1 .. l : m \in G
  BY <1>1, <1>5, Upwards
<1>7. l \in G
  BY <1>1, <1>6
<1>8. Holds(l)
  BY <1>7 DEF G
<1>9. FlattenSeq(ss) = J(l)
  BY JoinedIs
<1>10. Begin(ss, l + 1) = Len(J(l))
  BY <1>1, <1>3
<1>11. Begin(ss, 1) = 0
  BY DEF Begin
<1> QED
  BY <1>8, <1>9, <1>10, <1>11

\* Where the bytes of a text are between its quotes.
IsPlace(t, b) ==
  /\ b[1] = 2 /\ \A k \in 1 .. Len(t) + 1 : b[k] \in Nat
  /\ Len(append_csv_escaped(t)) = b[Len(t) + 1]
  /\ append_csv_escaped(t)[1] = Quote /\ append_csv_escaped(t)[b[Len(t) + 1]] = Quote
  /\ \A k \in 1 .. Len(t) :
       /\ b[k + 1] = b[k] + (IF t[k] = Quote THEN 2 ELSE 1) /\ b[k + 1] <= b[Len(t) + 1]
       /\ append_csv_escaped(t)[b[k]] = t[k]
       /\ t[k] = Quote => append_csv_escaped(t)[b[k] + 1] = Quote

LEMMA EscapedPlaces ==
  ASSUME NEW t \in Seq(Bytes)
  PROVE  \E b : IsPlace(t, b)
<1> DEFINE f(k) == IF t[k] = Quote THEN <<Quote, Quote>> ELSE <<t[k]>>
           q    == <<Quote>>
           ss   == [k \in DOMAIN t |-> f(k)]
           m    == FlattenSeq(ss)
           E    == append_csv_escaped(t)
<1>1. PICK l \in Nat : l = Len(t) /\ DOMAIN t = 1 .. l
  OBVIOUS
<1>2. ASSUME NEW k \in 1 .. l
      PROVE  /\ f(k) \in Seq(Bytes) /\ Len(f(k)) = (IF t[k] = Quote THEN 2 ELSE 1)
             /\ f(k)[1] = t[k] /\ (t[k] = Quote => f(k)[2] = Quote)
  <2> HIDE DEF f, q, ss, m, E
  <2>0. Quote \in Bytes
    BY ByteTypes
  <2>1. t[k] \in Bytes /\ Quote \in Bytes
    BY <1>1, <2>0
  <2>2. CASE t[k] = Quote
    BY <2>1, <2>2, ShortSeqs DEF f
  <2>3. CASE t[k] # Quote
    BY <2>1, <2>3, ShortSeqs DEF f
  <2> QED
    BY <2>2, <2>3
<1>3. q \in Seq(Bytes) /\ Len(q) = 1 /\ q[1] = Quote
  BY ByteTypes, ShortSeqs
<1>4. E = (q \o m) \o q
  BY DEF append_csv_escaped
<1> HIDE DEF f, q, E
<1>5. ss \in Seq(Seq(Bytes)) /\ Len(ss) = l /\ \A k \in 1 .. l : ss[k] = f(k)
  BY <1>1, <1>2
<1> HIDE DEF ss
<1>6. m \in Seq(Bytes)
  BY <1>5, FlattenType
<1> DEFINE b == [k \in 1 .. l + 1 |-> IF l = 0 THEN 2 ELSE 2 + Begin(ss, k)]
<1>7. /\ l # 0 => Begin(ss, 1) = 0 /\ Len(m) = Begin(ss, l + 1)
      /\ \A k \in 1 .. l :
           /\ Begin(ss, k) \in Nat /\ Begin(ss, k + 1) = Begin(ss, k) + Len(f(k))
           /\ Begin(ss, k) + Len(f(k)) <= Len(m)
           /\ \A i \in 1 .. Len(f(k)) : m[Begin(ss, k) + i] = f(k)[i]
  <2>1. CASE l = 0
    BY <2>1
  <2>2. CASE l # 0
    <3>1. ss # <<>>
      BY <1>5, <2>2
    <3> QED
      BY <1>5, <3>1, JoinedAt
  <2> QED
    BY <2>1, <2>2
<1>8. l = 0 => m = <<>> /\ Len(m) = 0
  <2>1. l = 0 => ss = <<>>
    BY <1>5
  <2> QED
    BY <1>5, <2>1, JoinedIs
<1>9. Len(m) \in Nat
  BY <1>6
<1> HIDE DEF m
<1>10. /\ q \o m \in Seq(Bytes) /\ Len(q \o m) = 1 + Len(m)
       /\ \A i \in 1 .. 1 + Len(m) : (q \o m)[i] = IF i <= 1 THEN q[i] ELSE m[i - 1]
  <2>1. /\ q \o m \in Seq(Bytes) /\ Len(q \o m) = Len(q) + Len(m)
        /\ \A i \in 1 .. Len(q) + Len(m) : (q \o m)[i] = IF i <= Len(q) THEN q[i] ELSE m[i - Len(q)]
    BY <1>3, <1>6, ConcatProperties
  <2> QED
    BY <1>3, <2>1
<1>11. /\ Len(E) = (1 + Len(m)) + 1
       /\ \A i \in 1 .. (1 + Len(m)) + 1 : E[i] = IF i <= 1 + Len(m) THEN (q \o m)[i] ELSE q[i - (1 + Len(m))]
  BY <1>3, <1>4, <1>10, ConcatProperties
<1>12. E[1] = Quote /\ E[Len(m) + 2] = Quote /\ Len(E) = Len(m) + 2
  <2>1. E[1] = Quote
    BY <1>3, <1>9, <1>10, <1>11
  <2>2. PICK e \in 1 .. (1 + Len(m)) + 1 : e = Len(m) + 2 /\ ~(e <= 1 + Len(m)) /\ e - (1 + Len(m)) = 1
    BY <1>9
  <2> QED
    BY <1>3, <1>9, <1>11, <2>1, <2>2
<1>13. \A i \in 1 .. Len(m) : E[i + 1] = m[i]
  <2> TAKE i \in 1 .. Len(m)
  <2>1. PICK e \in 1 .. (1 + Len(m)) + 1 : e = i + 1 /\ e <= 1 + Len(m) /\ ~(e <= 1) /\ e - 1 = i /\ e \in 1 .. 1 + Len(m)
    BY <1>9
  <2> QED
    BY <1>10, <1>11, <2>1
<1>14. \A k \in 1 .. l + 1 : b[k] = IF l = 0 THEN 2 ELSE 2 + Begin(ss, k)
  OBVIOUS
<1> HIDE DEF b
<1>15. b[1] = 2 /\ b[l + 1] = Len(m) + 2
  BY <1>7, <1>8, <1>9, <1>14
<1>16. ASSUME NEW k \in 1 .. l
       PROVE  /\ b[k] \in Nat /\ b[k + 1] = b[k] + (IF t[k] = Quote THEN 2 ELSE 1) /\ b[k + 1] <= b[l + 1]
              /\ E[b[k]] = t[k] /\ (t[k] = Quote => E[b[k] + 1] = Quote)
  <2> DEFINE w == IF t[k] = Quote THEN 2 ELSE 1
  <2>1. Len(f(k)) = w /\ f(k)[1] = t[k] /\ (w = 2 => f(k)[2] = Quote) /\ w \in 1 .. 2
    BY <1>2
  <2>9. t[k] = Quote => w = 2
    OBVIOUS
  <2> HIDE DEF w
  <2>2. PICK a \in Nat : a = Begin(ss, k) /\ Begin(ss, k + 1) = a + w /\ a + w <= Len(m)
                         /\ \A i \in 1 .. w : m[a + i] = f(k)[i]
    BY <1>7, <2>1
  <2>3. b[k] = 2 + a /\ b[k + 1] = 2 + (a + w)
    <3>1. l # 0 /\ k \in 1 .. l + 1 /\ k + 1 \in 1 .. l + 1
      OBVIOUS
    <3> QED
      BY <1>14, <2>2, <3>1
  <2>4. m[a + 1] = t[k] /\ a + 1 \in 1 .. Len(m)
    BY <1>9, <2>1, <2>2
  <2>5. E[(a + 1) + 1] = t[k]
    BY <1>13, <2>4
  <2>6. w = 2 => m[a + 2] = Quote /\ a + 2 \in 1 .. Len(m)
    BY <1>9, <2>1, <2>2
  <2>7. w = 2 => E[(a + 2) + 1] = Quote
    BY <1>13, <2>6
  <2>8. (a + 1) + 1 = 2 + a /\ (a + 2) + 1 = (2 + a) + 1 /\ b[k + 1] = b[k] + w /\ b[k + 1] <= b[l + 1]
    BY <1>9, <1>15, <2>1, <2>2, <2>3, SMTT(40)
  <2>10. b[k] \in Nat /\ E[b[k]] = t[k] /\ (w = 2 => E[b[k] + 1] = Quote)
    BY <2>3, <2>5, <2>7, <2>8
  <2> QED
    BY <2>8, <2>9, <2>10 DEF w
<1>17. \A k \in 1 .. l + 1 : b[k] \in Nat
  <2> TAKE k \in 1 .. l + 1
  <2>1. CASE k = l + 1
    BY <1>9, <1>15, <2>1
  <2>2. CASE k # l + 1
    BY <1>16, <2>2
  <2> QED
    BY <2>1, <2>2
<1>18. IsPlace(t, b)
  BY <1>1, <1>12, <1>15, <1>16, <1>17 DEF IsPlace, E
<1> QED
  BY <1>18

-----------------------------------------------------------------------------
(* A cell is read back as it was written.                                  *)

\* s has the bytes of F after its first a bytes, as far as it goes, and then a
\* comma.
Carries(s, a, F) ==
  /\ \A i \in 1 .. Len(F) : a + i <= Len(s) => s[a + i] = F[i]
  /\ a + Len(F) + 1 <= Len(s) => s[a + Len(F) + 1] = ","

\* x is a part of t from its k-th byte on.
PartOf(x, t, k) ==
  x \in Seq(Bytes) /\ Len(x) + k <= Len(t) + 1 /\ \A i \in 1 .. Len(x) : x[i] = t[(k + i) - 1]

LEMMA NoPart ==
  ASSUME NEW t \in Seq(Bytes), NEW k \in 1 .. Len(t) + 1
  PROVE  PartOf(<<>>, t, k) /\ Len(<<>>) = 0
<1>1. <<>> \in Seq(Bytes) /\ Len(<<>>) = 0
  OBVIOUS
<1>2. PICK e \in Seq(Bytes) : e = <<>> /\ Len(e) = 0
  BY <1>1
<1>3. Len(t) \in Nat
  OBVIOUS
<1>4. PartOf(e, t, k)
  BY <1>2, <1>3 DEF PartOf
<1> QED
  BY <1>2, <1>4

LEMMA LongerPart ==
  ASSUME NEW t \in Seq(Bytes), NEW k \in 1 .. Len(t), NEW x, PartOf(x, t, k + 1)
  PROVE  PartOf(<<t[k]>> \o x, t, k) /\ Len(<<t[k]>> \o x) = Len(x) + 1 /\ Len(x) \in Nat
<1> DEFINE y == <<t[k]>> \o x
<1>1. x \in Seq(Bytes) /\ Len(x) + (k + 1) <= Len(t) + 1 /\ \A i \in 1 .. Len(x) : x[i] = t[((k + 1) + i) - 1]
  BY DEF PartOf
<1>2. t[k] \in Bytes
  OBVIOUS
<1>3. /\ y \in Seq(Bytes) /\ Len(y) = Len(x) + 1 /\ Len(x) \in Nat /\ y[1] = t[k]
      /\ \A j \in 1 .. Len(x) : y[j + 1] = x[j]
  BY <1>1, <1>2, OneAndRest
<1> HIDE DEF y
<1>4. ASSUME NEW i \in 1 .. Len(y)
      PROVE  y[i] = t[(k + i) - 1]
  <2>1. CASE i = 1
    BY <1>3, <2>1
  <2>2. CASE i # 1
    <3>1. PICK j \in 1 .. Len(x) : i = j + 1 /\ ((k + 1) + j) - 1 = (k + i) - 1
      <4>1. i - 1 \in 1 .. Len(x) /\ i = (i - 1) + 1 /\ ((k + 1) + (i - 1)) - 1 = (k + i) - 1
        BY <1>3, <2>2
      <4> QED
        BY <4>1
    <3> QED
      BY <1>1, <1>3, <3>1
  <2> QED
    BY <2>1, <2>2
<1>5. Len(y) + k <= Len(t) + 1
  BY <1>1, <1>3
<1>6. PartOf(y, t, k)
  BY <1>3, <1>4, <1>5 DEF PartOf
<1> QED
  BY <1>3, <1>6 DEF y

LEMMA WholePart ==
  ASSUME NEW t \in Seq(Bytes), NEW x, PartOf(x, t, 1)
  PROVE  x \in Seq(Bytes) /\ Extends(t, x) /\ (Len(x) = Len(t) => x = t)
<1>1. x \in Seq(Bytes) /\ Len(x) + 1 <= Len(t) + 1 /\ \A i \in 1 .. Len(x) : x[i] = t[(1 + i) - 1]
  BY DEF PartOf
<1>2. \A i \in 1 .. Len(x) : x[i] = t[i]
  <2> TAKE i \in 1 .. Len(x)
  <2>1. (1 + i) - 1 = i
    OBVIOUS
  <2> QED
    BY <1>1, <2>1
<1>3. Len(x) <= Len(t)
  <2>1. Len(x) \in Nat /\ Len(t) \in Nat
    BY <1>1
  <2> QED
    BY <1>1, <2>1
<1> QED
  BY <1>1, <1>2, <1>3 DEF Extends

\* Inside a text that was written between quotes.
LEMMA EscapedRead ==
  ASSUME NEW t \in Seq(Bytes), NEW b, IsPlace(t, b), NEW s \in Seq(Bytes), NEW a \in Nat, a < Len(s),
         Carries(s, a, append_csv_escaped(t))
  PROVE  LET e == a + Len(append_csv_escaped(t)) IN
         /\ PartOf(TextFrom(s, a + 2), t, 1)
         /\ e <= Len(s) => Len(TextFrom(s, a + 2)) = Len(t) /\ CloseFrom(s, a + 2) = e
         /\ e > Len(s)  => CloseFrom(s, a + 2) >= Len(s) /\ CloseFrom(s, a + 2) \in Nat
<1> DEFINE E == append_csv_escaped(t)
           B == b[Len(t) + 1]
           e == a + B
           q(k) == a + b[k]
           T(k) == TextFrom(s, q(k))
           C(k) == CloseFrom(s, q(k))
           Good(k) ==
             q(k) <= Len(s) + 1 =>
               /\ PartOf(T(k), t, k)
               /\ e <= Len(s) => Len(T(k)) + k = Len(t) + 1 /\ C(k) = e
               /\ e > Len(s)  => C(k) >= Len(s) /\ C(k) \in Nat
<1>1. PICK l \in Nat : l = Len(t)
  OBVIOUS
<1>2. PICK n \in Nat : n = Len(s)
  OBVIOUS
<1>3. /\ b[1] = 2 /\ \A k \in 1 .. l + 1 : b[k] \in Nat
      /\ B = b[l + 1] /\ Len(E) = B /\ E[B] = Quote
      /\ \A k \in 1 .. l : /\ b[k + 1] = b[k] + (IF t[k] = Quote THEN 2 ELSE 1) /\ b[k + 1] <= B
                           /\ E[b[k]] = t[k] /\ (t[k] = Quote => E[b[k] + 1] = Quote)
  BY <1>1 DEF IsPlace
<1> HIDE DEF E, B
<1>4. /\ \A i \in 1 .. B : a + i <= n => s[a + i] = E[i]
      /\ e + 1 <= n => s[e + 1] = ","
  BY <1>2, <1>3 DEF Carries, E
<1>5. B \in Nat /\ e \in Nat /\ \A k \in 1 .. l + 1 : q(k) \in Nat \ {0} /\ q(k) <= e /\ b[k] \in 1 .. B
  <2>1. B \in Nat
    BY <1>3
  <2>2. \A k \in 1 .. l + 1 : b[k] <= B
    <3> TAKE k \in 1 .. l + 1
    <3>1. CASE k = l + 1
      BY <1>3, <2>1, <3>1
    <3>2. CASE k # l + 1
      <4>1. k \in 1 .. l /\ k + 1 \in 1 .. l + 1
        BY <3>2
      <4>2. b[k] <= b[k + 1] /\ b[k + 1] <= B /\ b[k] \in Nat /\ b[k + 1] \in Nat
        BY <1>3, <4>1
      <4> QED
        BY <2>1, <4>2
    <3> QED
      BY <3>1, <3>2
  <2>3. \A k \in 1 .. l + 1 : b[k] # 0
    <3> TAKE k \in 1 .. l + 1
    <3>1. b[k] # 0
      <4> DEFINE G == {j \in 1 .. l + 1 : b[j] >= 2}
      <4>1. ASSUME NEW j \in 1 .. l + 1, \A i \in 1 .. l + 1 : i < j => i \in G
            PROVE  j \in G
        <5>1. CASE j = 1
          BY <1>3, <5>1
        <5>2. CASE j # 1
          <6>1. PICK i \in 1 .. l : i + 1 = j /\ i < j
            <7>1. j - 1 \in 1 .. l /\ (j - 1) + 1 = j /\ j - 1 < j
              BY <5>2
            <7> QED
              BY <7>1
          <6>2. i \in 1 .. l + 1 /\ b[i] >= 2
            BY <4>1, <6>1
          <6>3. b[i] \in Nat /\ b[j] = b[i] + (IF t[i] = Quote THEN 2 ELSE 1)
            BY <1>3, <6>1, <6>2
          <6> QED
            BY <6>2, <6>3
        <5> QED
          BY <5>1, <5>2
      <4>2. \A j \in 1 .. l + 1 : (\A i \in 1 .. l + 1 : i < j => i \in G) => j \in G
        BY <4>1
      <4> HIDE DEF G
      <4>4. PICK m \in Nat : m = l + 1
        OBVIOUS
      <4>3. \A j \in 1 .. m : j \in G
        BY <4>2, <4>4, Upwards
      <4>5. k \in G
        BY <4>3, <4>4
      <4>6. b[k] >= 2
        BY <4>5 DEF G
      <4> QED
        BY <4>6
    <3> QED
      BY <3>1
  <2>4. ASSUME NEW k \in 1 .. l + 1
        PROVE  q(k) \in Nat \ {0} /\ q(k) <= e /\ b[k] \in 1 .. B
    <3>1. b[k] \in Nat /\ b[k] <= B /\ b[k] # 0
      BY <1>3, <2>2, <2>3, <2>4
    <3> QED
      BY <2>1, <3>1
  <2> QED
    BY <2>1, <2>4
<1>6. Len(s) \in Nat /\ \A p \in 1 .. n + 1 :
        /\ CloseFrom(s, p) = IF p > n \/ Closes(s, p) THEN p ELSE CloseFrom(s, p + Width(s, p))
        /\ TextFrom(s, p) = IF p > n \/ Closes(s, p) THEN <<>>
                            ELSE <<s[p]>> \o TextFrom(s, p + Width(s, p))
  BY <1>2, ClosingIs
<1>7. ASSUME NEW k \in 1 .. l + 1, \A j \in k + 1 .. l + 1 : Good(j), q(k) <= n + 1
      PROVE  /\ PartOf(T(k), t, k)
             /\ e <= n => Len(T(k)) + k = l + 1 /\ C(k) = e
             /\ e > n  => C(k) >= n /\ C(k) \in Nat
  <2>1. q(k) \in 1 .. n + 1 /\ q(k) <= e /\ e \in Nat /\ b[k] \in 1 .. B /\ k \in Nat
    BY <1>5, <1>7
  <2>2. /\ C(k) = IF q(k) > n \/ Closes(s, q(k)) THEN q(k) ELSE CloseFrom(s, q(k) + Width(s, q(k)))
        /\ T(k) = IF q(k) > n \/ Closes(s, q(k)) THEN <<>>
                  ELSE <<s[q(k)]>> \o TextFrom(s, q(k) + Width(s, q(k)))
    BY <1>6, <2>1
  <2>3. q(k) <= n => s[q(k)] = E[b[k]]
    BY <1>4, <2>1
  <2>4. k \in 1 .. Len(t) + 1
    BY <1>1
  <2>5. PartOf(<<>>, t, k) /\ Len(<<>>) = 0
    BY <2>4, NoPart
  <2>6. CASE q(k) > n
    <3>1. T(k) = <<>> /\ C(k) = q(k) /\ ~(e <= n)
      BY <2>1, <2>2, <2>6
    <3> QED
      BY <2>1, <2>5, <2>6, <3>1
  <2>7. CASE q(k) <= n /\ k = l + 1
    <3>1. q(k) = e /\ b[k] = B
      BY <1>3, <2>7
    <3>2. s[e] = Quote /\ (e < n => s[e + 1] # Quote)
      <4>1. s[e] = Quote
        BY <1>3, <2>3, <2>7, <3>1
      <4>2. e < n => s[e + 1] = ","
        <5>1. e < n => e + 1 <= n
          BY <2>1
        <5>2. e + 1 <= n => s[e + 1] = ","
          BY <1>4
        <5> QED
          BY <5>1, <5>2
      <4>3. "," # Quote
        BY DEF Quote
      <4> QED
        BY <4>1, <4>2, <4>3
    <3>3. Closes(s, q(k))
      BY <1>2, <3>1, <3>2 DEF Closes
    <3>4. T(k) = <<>> /\ C(k) = e
      BY <2>2, <3>1, <3>3
    <3>5. Len(T(k)) = 0
      BY <2>5, <3>4
    <3> QED
      BY <2>1, <2>5, <2>7, <3>1, <3>4, <3>5
  <2>8. CASE q(k) <= n /\ k # l + 1
    <3>1. k \in 1 .. l /\ k + 1 \in 1 .. l + 1 /\ k \in 1 .. Len(t)
      BY <1>1, <2>8
    <3>2. /\ q(k + 1) = q(k) + (IF t[k] = Quote THEN 2 ELSE 1) /\ q(k + 1) <= e
          /\ s[q(k)] = t[k] /\ q(k + 1) \in Nat
          /\ (t[k] = Quote => E[b[k] + 1] = Quote)
      <4>1. b[k + 1] = b[k] + (IF t[k] = Quote THEN 2 ELSE 1) /\ E[b[k]] = t[k]
            /\ (t[k] = Quote => E[b[k] + 1] = Quote)
        BY <1>3, <3>1
      <4>2. q(k + 1) <= e /\ q(k + 1) \in Nat
        BY <1>5, <3>1
      <4>3. s[q(k)] = t[k]
        BY <2>3, <2>8, <4>1
      <4>4. q(k + 1) = q(k) + (IF t[k] = Quote THEN 2 ELSE 1)
        <5>1. b[k] \in Nat
          BY <2>1
        <5>2. CASE t[k] = Quote
          BY <4>1, <5>1, <5>2
        <5>3. CASE t[k] # Quote
          BY <4>1, <5>1, <5>3
        <5> QED
          BY <5>2, <5>3
      <4> QED
        BY <4>1, <4>2, <4>3, <4>4
    <3>3. CASE t[k] = Quote /\ q(k) = n
      <4>1. Closes(s, q(k))
        BY <1>2, <3>2, <3>3 DEF Closes
      <4>2. T(k) = <<>> /\ C(k) = n
        BY <2>2, <3>3, <4>1
      <4>3. q(k + 1) = n + 2
        BY <3>2, <3>3
      <4>4. e > n
        BY <2>1, <3>2, <4>3
      <4> QED
        BY <2>1, <2>5, <4>2, <4>4
    <3>4. CASE ~(t[k] = Quote /\ q(k) = n)
      <4>1. ~Closes(s, q(k)) /\ q(k) + Width(s, q(k)) = q(k + 1)
        <5>1. CASE t[k] = Quote
          <6>1. q(k) < n
            BY <2>1, <2>8, <3>4, <5>1
          <6>2. b[k] < B
            BY <2>1, <3>2, <5>1, <1>5
          <6>3. PICK i \in 1 .. B : i = b[k] + 1 /\ a + i = q(k) + 1 /\ a + i <= n
            <7>1. b[k] + 1 \in 1 .. B /\ a + (b[k] + 1) = q(k) + 1
              BY <1>5, <2>1, <6>2
            <7> QED
              BY <2>1, <6>1, <7>1
          <6>4. s[q(k) + 1] = Quote
            BY <1>4, <3>2, <5>1, <6>3
          <6> QED
            BY <1>2, <3>2, <5>1, <6>1, <6>4 DEF Closes, Width
        <5>2. CASE t[k] # Quote
          BY <3>2, <5>2 DEF Closes, Width
        <5> QED
          BY <5>1, <5>2
      <4>2. T(k) = <<t[k]>> \o T(k + 1) /\ C(k) = C(k + 1)
        <5>1. ~(q(k) > n \/ Closes(s, q(k)))
          BY <2>1, <2>8, <4>1
        <5>2. T(k) = <<s[q(k)]>> \o TextFrom(s, q(k) + Width(s, q(k)))
          BY <2>2, <5>1
        <5>3. C(k) = CloseFrom(s, q(k) + Width(s, q(k)))
          BY <2>2, <5>1
        <5>4. s[q(k)] = t[k]
          BY <3>2
        <5> QED
          BY <4>1, <5>2, <5>3, <5>4
      <4>3. q(k + 1) <= n + 1
        <5>1. CASE t[k] = Quote
          BY <2>1, <2>8, <3>2, <3>4, <5>1, SMTT(40)
        <5>2. CASE t[k] # Quote
          BY <2>1, <2>8, <3>2, <5>2
        <5> QED
          BY <5>1, <5>2
      <4>4. k + 1 \in k + 1 .. l + 1
        BY <3>1
      <4>5. Good(k + 1)
        BY <1>7, <4>4
      <4>6. /\ PartOf(T(k + 1), t, k + 1)
            /\ e <= n => Len(T(k + 1)) + (k + 1) = l + 1 /\ C(k + 1) = e
            /\ e > n  => C(k + 1) >= n /\ C(k + 1) \in Nat
        BY <1>1, <1>2, <4>3, <4>5
      <4> DEFINE x == T(k + 1)
                 y == <<t[k]>> \o x
      <4>7. PartOf(y, t, k) /\ Len(y) = Len(x) + 1 /\ Len(x) \in Nat
        <5> HIDE DEF T
        <5> QED
          BY <3>1, <4>6, LongerPart
      <4>8. T(k) = y
        BY <4>2
      <4> HIDE DEF x, y, T, C
      <4>9. e <= n => Len(x) + (k + 1) = l + 1
        BY <4>6 DEF x
      <4>10. e <= n => Len(y) + k = l + 1
        BY <2>1, <4>7, <4>9
      <4> QED
        BY <4>2, <4>6, <4>7, <4>8, <4>10
    <3> QED
      BY <3>3, <3>4
  <2> QED
    BY <2>1, <2>6, <2>7, <2>8
<1>8. ASSUME NEW k \in 1 .. l + 1, \A j \in k + 1 .. l + 1 : Good(j)
      PROVE  Good(k)
  BY <1>1, <1>2, <1>7, <1>8
<1> DEFINE G == {k \in 1 .. l + 1 : Good(k)}
<1> HIDE DEF Good
<1>9. \A k \in 1 .. l + 1 : (\A j \in k + 1 .. l + 1 : j \in G) => k \in G
  BY <1>8
<1> HIDE DEF G
<1>10. \A k \in 1 .. l + 1 : k \in G
  BY <1>9, Downwards
<1>11. Good(1)
  BY <1>10 DEF G
<1>12. q(1) = a + 2 /\ q(1) <= Len(s) + 1
  BY <1>2, <1>3
<1>13. /\ PartOf(T(1), t, 1)
       /\ e <= Len(s) => Len(T(1)) + 1 = Len(t) + 1 /\ C(1) = e
       /\ e > Len(s)  => C(1) >= Len(s) /\ C(1) \in Nat
  BY <1>11, <1>12 DEF Good
<1>14. T(1) = TextFrom(s, a + 2) /\ C(1) = CloseFrom(s, a + 2)
  BY <1>12
<1>15. Len(T(1)) \in Nat
  BY <1>13 DEF PartOf
<1>16. Len(T(1)) + 1 = Len(t) + 1 => Len(T(1)) = Len(t)
  BY <1>1, <1>15
<1> HIDE DEF T, C
<1>17. e = a + Len(E)
  BY <1>3
<1> QED
  BY <1>13, <1>14, <1>16, <1>17 DEF E

\* A cell whose text was written as it is: digits, or nothing.
LEMMA PlainRead ==
  ASSUME NEW t \in Seq(Bytes), \A i \in 1 .. Len(t) : t[i] = "x",
         NEW s \in Seq(Bytes), NEW a \in Nat, a <= Len(s), Carries(s, a, t)
  PROVE  /\ a + Len(t) <= Len(s) => CellText(s, a + 1) = t /\ CellEnd(s, a + 1) = a + Len(t) + 1
         /\ a + Len(t) > Len(s)  => /\ CellText(s, a + 1) \in Seq(Bytes) /\ Extends(t, CellText(s, a + 1))
                                    /\ CellEnd(s, a + 1) = Len(s) + 1
<1> DEFINE B == {",", "nl", "cr"}
           e == FirstIn(s, a + 1, B)
<1>1. PICK n \in Nat : n = Len(s)
  OBVIOUS
<1>2. PICK l \in Nat : l = Len(t)
  OBVIOUS
<1>3. PICK p \in 1 .. n + 1 : p = a + 1
  BY <1>1
<1>4. /\ \A i \in 1 .. l : a + i <= n => s[a + i] = "x"
      /\ a + l + 1 <= n => s[a + l + 1] = ","
      /\ \A i \in 1 .. l : a + i <= n => s[a + i] = t[i]
  BY <1>1, <1>2 DEF Carries
<1>5. "x" \notin B /\ "," \in B /\ "x" # Quote /\ "," # Quote
  BY DEF Quote
<1> HIDE DEF B
<1>6. /\ e \in p .. n + 1 /\ (e <= n => s[e] \in B)
      /\ \A q \in p .. n : s[q] \in B => e <= q
  BY <1>1, <1>3, FirstInIs
<1>7. ~Quoted(s, p)
  <2>1. CASE p > n
    BY <1>1, <2>1 DEF Quoted
  <2>2. CASE p <= n /\ l = 0
    <3>1. a + l + 1 = p
      BY <1>3, <2>2
    <3> QED
      BY <1>4, <1>5, <2>2, <3>1 DEF Quoted
  <2>3. CASE p <= n /\ l # 0
    <3>1. 1 \in 1 .. l
      BY <2>3
    <3> QED
      BY <1>3, <1>4, <1>5, <2>3, <3>1 DEF Quoted
  <2> QED
    BY <2>1, <2>2, <2>3
<1>8. CellEnd(s, p) = e /\ CellText(s, p) = SubSeq(s, p, e - 1)
  BY <1>3, <1>7 DEF CellEnd, CellText, B
<1> HIDE DEF e
<1>9. ASSUME NEW q \in p .. n, q <= a + l
      PROVE  q - a \in 1 .. l /\ s[q] = "x" /\ s[q] = t[q - a]
  <2>1. PICK i \in 1 .. l : i = q - a /\ a + i = q /\ a + i <= n
    <3>1. q - a \in 1 .. l /\ a + (q - a) = q
      BY <1>3, <1>9
    <3> QED
      BY <1>3, <3>1
  <2>2. s[a + i] = "x" /\ s[a + i] = t[i]
    BY <1>4, <2>1
  <2> QED
    BY <2>1, <2>2
<1>10. ASSUME NEW c \in Nat, e = c + 1, c <= n, a <= c, c <= a + l
       PROVE  /\ CellText(s, p) \in Seq(Bytes) /\ Extends(t, CellText(s, p))
              /\ Len(CellText(s, p)) = c - a
  <2> DEFINE x == CellText(s, p)
  <2>1. e - 1 = c /\ p \in Nat \ {0} /\ p + c - p = c
    BY <1>3, <1>10
  <2>2. x = SubSeq(s, p, c)
    BY <1>8, <2>1
  <2>3. /\ x \in Seq(Bytes) /\ Len(x) = (IF p <= c THEN (c - p) + 1 ELSE 0)
        /\ \A j \in 1 .. (c - p) + 1 : x[j] = s[(p + j) - 1]
    BY <1>1, <1>10, <2>1, <2>2, CutOf
  <2> HIDE DEF x
  <2>4. Len(x) = c - a
    <3>1. Len(x) = IF p <= c THEN (c - p) + 1 ELSE 0
      BY <2>3
    <3>2. CASE p <= c
      BY <1>3, <1>10, <3>1, <3>2
    <3>3. CASE ~(p <= c)
      BY <1>3, <1>10, <3>1, <3>3
    <3> QED
      BY <3>2, <3>3
  <2>5. ASSUME NEW i \in 1 .. Len(x)
        PROVE  t[i] = x[i]
    <3>1. i \in 1 .. (c - p) + 1
      BY <1>3, <1>10, <2>4
    <3>2. PICK q \in p .. n : q = (p + i) - 1 /\ q <= a + l /\ q - a = i
      <4>1. (p + i) - 1 \in p .. n /\ (p + i) - 1 <= a + l /\ ((p + i) - 1) - a = i
        BY <1>3, <1>10, <2>4
      <4> QED
        BY <4>1
    <3> QED
      BY <1>9, <2>3, <3>1, <3>2
  <2>6. Len(x) <= Len(t)
    BY <1>2, <1>10, <2>4
  <2> QED
    BY <2>3, <2>4, <2>5, <2>6 DEF Extends, x
<1>11. e <= n => ~(e <= a + l)
  <2> SUFFICES ASSUME e <= n, e <= a + l
               PROVE  FALSE
    OBVIOUS
  <2>1. e \in p .. n
    BY <1>6
  <2>2. s[e] = "x"
    BY <1>9, <2>1
  <2> QED
    BY <1>5, <1>6, <2>2
<1>12. CASE a + l <= n
  <2>1. e = a + l + 1
    <3>1. CASE a + l + 1 <= n
      <4>0. s[a + l + 1] \in B
        BY <1>4, <1>5, <3>1
      <4>1. a + l + 1 \in p .. n /\ s[a + l + 1] \in B
        BY <1>3, <3>1, <4>0
      <4>2. e <= a + l + 1
        BY <1>6, <4>1
      <4> QED
        BY <1>3, <1>6, <1>11, <3>1, <4>2
    <3>2. CASE ~(a + l + 1 <= n)
      BY <1>3, <1>6, <1>11, <1>12, <3>2
    <3> QED
      BY <3>1, <3>2
  <2>2. PICK c \in Nat : c = a + l /\ e = c + 1 /\ c <= n /\ a <= c /\ c <= a + l /\ c - a = l
    BY <1>12, <2>1
  <2>3. /\ CellText(s, p) \in Seq(Bytes) /\ Extends(t, CellText(s, p))
        /\ Len(CellText(s, p)) = l
    BY <1>10, <2>2
  <2> DEFINE x == CellText(s, p)
  <2> HIDE DEF x
  <2>4. x \in Seq(Bytes) /\ Len(x) = Len(t) /\ \A i \in 1 .. Len(x) : t[i] = x[i]
    BY <1>2, <2>3 DEF Extends, x
  <2>5. x = t
    BY <2>4
  <2> QED
    BY <1>1, <1>2, <1>3, <1>8, <1>12, <2>1, <2>5 DEF x
<1>13. CASE a + l > n
  <2>1. e = n + 1
    BY <1>3, <1>6, <1>11, <1>13
  <2>2. n <= a + l /\ a <= n
    BY <1>1, <1>13
  <2> QED
    BY <1>1, <1>2, <1>3, <1>8, <1>10, <1>13, <2>1, <2>2
<1> QED
  BY <1>1, <1>2, <1>12, <1>13

\* A cell that was written between quotes.
LEMMA QuotedRead ==
  ASSUME NEW t \in Seq(Bytes), NEW s \in Seq(Bytes), NEW a \in Nat, a <= Len(s),
         Carries(s, a, append_csv_escaped(t))
  PROVE  LET n == Len(append_csv_escaped(t)) IN
         /\ n \in Nat
         /\ a + n <= Len(s) => CellText(s, a + 1) = t /\ CellEnd(s, a + 1) = a + n + 1
         /\ a + n > Len(s)  => /\ CellText(s, a + 1) \in Seq(Bytes) /\ Extends(t, CellText(s, a + 1))
                               /\ CellEnd(s, a + 1) = Len(s) + 1
<1> DEFINE E == append_csv_escaped(t)
           e == a + Len(E)
<1>1. PICK b : IsPlace(t, b)
  BY EscapedPlaces
<1>2. E[1] = Quote /\ E[Len(E)] = Quote /\ Len(E) \in Nat \ {0, 1}
  <2>1. Len(E) = b[Len(t) + 1] /\ E[1] = Quote /\ E[Len(E)] = Quote /\ b[Len(t) + 1] \in Nat
    <3>1. Len(t) + 1 \in 1 .. Len(t) + 1
      OBVIOUS
    <3> QED
      BY <1>1, <3>1 DEF IsPlace
  <2>2. b[1] = 2 /\ Len(t) \in Nat
    BY <1>1 DEF IsPlace
  <2>3. CASE Len(t) = 0
    BY <2>1, <2>2, <2>3
  <2>4. CASE Len(t) # 0
    <3>1. 1 \in 1 .. Len(t) /\ 1 + 1 \in 1 .. Len(t) + 1
      BY <2>2, <2>4
    <3>2. /\ b[1 + 1] = b[1] + (IF t[1] = Quote THEN 2 ELSE 1) /\ b[1 + 1] <= b[Len(t) + 1]
      BY <1>1, <3>1 DEF IsPlace
    <3> QED
      BY <2>1, <2>2, <3>2
  <2> QED
    BY <2>3, <2>4
<1>3. PICK l \in Nat : l = Len(s)
  OBVIOUS
<1>4. PICK p \in 1 .. l + 1 : p = a + 1 /\ p + 1 = a + 2
  BY <1>3
<1>5. CASE a < l
  <2>1. /\ PartOf(TextFrom(s, a + 2), t, 1)
        /\ e <= l => Len(TextFrom(s, a + 2)) = Len(t) /\ CloseFrom(s, a + 2) = e
        /\ e > l  => CloseFrom(s, a + 2) >= l /\ CloseFrom(s, a + 2) \in Nat
    BY <1>1, <1>3, <1>5, EscapedRead
  <2>2. Quoted(s, p)
    <3>1. 1 \in 1 .. Len(E) /\ a + 1 <= Len(s)
      BY <1>2, <1>3, <1>5
    <3>2. s[a + 1] = E[1]
      BY <3>1 DEF Carries
    <3> QED
      BY <1>2, <1>4, <3>1, <3>2 DEF Quoted
  <2>3. QuotedText(s, p) = TextFrom(s, a + 2) /\ ClosingQuote(s, p) = CloseFrom(s, a + 2)
    BY <1>3, <1>4, ClosingIs
  <2> DEFINE x == TextFrom(s, a + 2)
             c == CloseFrom(s, a + 2)
  <2>4. CellText(s, p) = x
    BY <2>2, <2>3 DEF CellText
  <2> DEFINE B == {" "}
  <2>5. CellEnd(s, p) = IF c > Len(s) THEN Len(s) + 1 ELSE FirstOut(s, c + 1, B)
    BY <2>2, <2>3 DEF CellEnd
  <2>11. "," \notin B
    OBVIOUS
  <2>6. c \in Nat /\ c <= l + 1 /\ c # 0
    <3>1. a + 2 \in 1 .. Len(s) + 1
      BY <1>3, <1>5
    <3>2. c \in a + 2 .. Len(s) + 1
      BY <1>3, <3>1, CloseFromIn
    <3> QED
      BY <1>3, <3>2
  <2>7. x \in Seq(Bytes) /\ Extends(t, x) /\ (Len(x) = Len(t) => x = t)
    BY <2>1, WholePart
  <2>8. /\ e <= l => Len(x) = Len(t) /\ c = e
        /\ e > l  => c >= l
    BY <2>1
  <2> HIDE DEF x, c, E, B
  <2>9. CASE e <= l
    <3>1. x = t /\ c = e /\ c <= Len(s) /\ c + 1 \in 1 .. Len(s) + 1
      BY <1>3, <2>6, <2>7, <2>8, <2>9
    <3> DEFINE o == FirstOut(s, c + 1, B)
    <3>2. CellEnd(s, p) = o
      BY <1>3, <2>5, <2>6, <3>1
    <3>3. /\ o \in c + 1 .. Len(s) + 1
          /\ \A q \in c + 1 .. Len(s) : s[q] \notin B => o <= q
      BY <1>3, <3>1, FirstOutIs
    <3> HIDE DEF o
    <3>4. e + 1 <= Len(s) => s[e + 1] = ","
      BY DEF Carries, E
    <3>5. o = c + 1
      <4>1. CASE c + 1 <= Len(s)
        <5>1. c + 1 \in c + 1 .. Len(s)
          BY <1>3, <2>6, <4>1
        <5>2. s[c + 1] \notin B
          BY <2>11, <3>1, <3>4, <4>1
        <5>3. o <= c + 1
          BY <3>3, <5>1, <5>2
        <5> QED
          BY <2>6, <3>3, <5>3
      <4>2. CASE ~(c + 1 <= Len(s))
        BY <1>3, <2>6, <3>3, <4>2
      <4> QED
        BY <4>1, <4>2
    <3> QED
      BY <1>2, <1>3, <1>4, <2>4, <2>9, <3>1, <3>2, <3>5 DEF E
  <2>10. CASE e > l
    <3>1. CellEnd(s, p) = l + 1
      <4>1. CASE c > Len(s)
        BY <1>3, <2>5, <4>1
      <4>2. CASE ~(c > Len(s))
        <5>1. c = l /\ c + 1 = l + 1 /\ c + 1 \in 1 .. Len(s) + 1
          BY <1>3, <2>6, <2>8, <2>10, <4>2
        <5>2. FirstOut(s, c + 1, B) \in c + 1 .. Len(s) + 1
          BY <1>3, <5>1, FirstOutIs
        <5>3. FirstOut(s, c + 1, B) = l + 1
          BY <1>3, <5>1, <5>2
        <5> QED
          BY <2>5, <4>2, <5>3
      <4> QED
        BY <4>1, <4>2
    <3> QED
      BY <1>2, <1>3, <1>4, <2>4, <2>7, <2>10, <3>1 DEF E
  <2> QED
    BY <1>2, <1>3, <2>9, <2>10
<1>6. CASE a = l
  <2>1. e > l
    BY <1>2, <1>3, <1>6
  <2>2. p = l + 1 /\ p > Len(s)
    BY <1>3, <1>4, <1>6
  <2>3. ~Quoted(s, p)
    BY <1>3, <2>2 DEF Quoted
  <2> DEFINE B == {",", "nl", "cr"}
             o == FirstIn(s, p, B)
  <2>4. CellEnd(s, p) = o /\ CellText(s, p) = SubSeq(s, p, o - 1)
    BY <2>3 DEF CellEnd, CellText
  <2> HIDE DEF B
  <2>5. o \in p .. Len(s) + 1
    BY <1>3, FirstInIs
  <2> HIDE DEF o
  <2>6. o = l + 1 /\ o - 1 = l
    BY <1>3, <2>2, <2>5
  <2>7. /\ SubSeq(s, p, l) \in Seq(Bytes)
        /\ Len(SubSeq(s, p, l)) = IF p <= l THEN (l - p) + 1 ELSE 0
    BY <1>3, CutOf
  <2> DEFINE x == CellText(s, p)
  <2>8. x = SubSeq(s, p, l)
    BY <2>4, <2>6
  <2> HIDE DEF x
  <2>9. x \in Seq(Bytes) /\ Len(x) = 0
    BY <2>2, <2>7, <2>8
  <2>10. Extends(t, x)
    BY <2>9 DEF Extends
  <2> QED
    BY <1>2, <1>3, <1>4, <2>1, <2>4, <2>6, <2>9, <2>10 DEF x
<1> QED
  BY <1>3, <1>5, <1>6

LEMMA FieldRead ==
  ASSUME NEW v \in SqlValue, NEW s \in Seq(Bytes), NEW a \in Nat, a <= Len(s), Carries(s, a, Field(v))
  PROVE  LET n == Len(Field(v)) IN
         /\ n \in Nat
         /\ a + n <= Len(s) => CellText(s, a + 1) = v.text /\ CellEnd(s, a + 1) = a + n + 1
         /\ a + n > Len(s)  => /\ CellText(s, a + 1) \in Seq(Bytes) /\ Extends(v.text, CellText(s, a + 1))
                               /\ CellEnd(s, a + 1) = Len(s) + 1
<1> DEFINE t == v.text
<1>1. /\ v.kind \in {"INT", "STRING", "NULL"} /\ t \in Seq(Bytes)
      /\ v.kind = "INT" => ToSet(t) = {"x"}
      /\ v.kind = "NULL" => t = <<>>
  BY DEF SqlValue
<1>2. Len(t) \in Nat
  BY <1>1
<1>3. CASE v.kind = "STRING"
  <2>1. Field(v) = append_csv_escaped(t)
    BY <1>3 DEF Field
  <2> HIDE DEF t
  <2> DEFINE n == Len(append_csv_escaped(t))
  <2>2. /\ n \in Nat
        /\ a + n <= Len(s) => CellText(s, a + 1) = t /\ CellEnd(s, a + 1) = a + n + 1
        /\ a + n > Len(s)  => /\ CellText(s, a + 1) \in Seq(Bytes) /\ Extends(t, CellText(s, a + 1))
                              /\ CellEnd(s, a + 1) = Len(s) + 1
    BY <1>1, <2>1, QuotedRead
  <2> QED
    BY <2>1, <2>2 DEF t
<1>4. CASE v.kind # "STRING"
  <2>1. Field(v) = t
    <3>1. CASE v.kind = "INT"
      BY <3>1 DEF Field
    <3>2. CASE v.kind = "NULL"
      <4>1. Field(v) = <<>>
        BY <3>2 DEF Field
      <4>2. t = <<>>
        BY <3>2 DEF SqlValue
      <4> QED
        BY <4>1, <4>2
    <3> QED
      BY <1>1, <1>4, <3>1, <3>2
  <2>2. \A i \in 1 .. Len(t) : t[i] = "x"
    <3>1. CASE v.kind = "INT"
      <4>1. ToSet(t) = {"x"}
        BY <3>1 DEF SqlValue
      <4> HIDE DEF t
      <4>2. \A i \in DOMAIN t : t[i] \in {"x"}
        BY <4>1 DEF ToSet
      <4> QED
        BY <1>1, <4>2
    <3>2. CASE v.kind = "NULL"
      <4>1. t = <<>>
        BY <3>2 DEF SqlValue
      <4>2. Len(t) = 0
        BY <4>1
      <4> QED
        BY <4>2
    <3> QED
      BY <1>1, <1>4, <3>1, <3>2
  <2> HIDE DEF t
  <2> DEFINE n == Len(t)
  <2>3. /\ a + n <= Len(s) => CellText(s, a + 1) = t /\ CellEnd(s, a + 1) = a + n + 1
        /\ a + n > Len(s)  => /\ CellText(s, a + 1) \in Seq(Bytes) /\ Extends(t, CellText(s, a + 1))
                              /\ CellEnd(s, a + 1) = Len(s) + 1
    BY <1>1, <2>1, <2>2, PlainRead
  <2> QED
    BY <1>2, <2>1, <2>3 DEF t
<1> QED
  BY <1>3, <1>4

-----------------------------------------------------------------------------
(* A row is read back as it was written, and a part of it as a part.       *)

\* After how many bytes of a row each of its fields begins.
IsStart(r, a) ==
  /\ a[1] = 0 /\ Len(RowBytes(r)) = a[Len(r)] + Len(Field(r[Len(r)]))
  /\ \A c \in 1 .. Len(r) :
       /\ a[c] \in Nat /\ a[c] + Len(Field(r[c])) <= Len(RowBytes(r))
       /\ \A i \in 1 .. Len(Field(r[c])) : RowBytes(r)[a[c] + i] = Field(r[c])[i]
       /\ c < Len(r) => /\ a[c + 1] = a[c] + Len(Field(r[c])) + 1
                        /\ a[c + 1] <= Len(RowBytes(r)) /\ RowBytes(r)[a[c + 1]] = ","

LEMMA FieldOfRow ==
  ASSUME NEW r \in Seq(SqlValue), NEW c \in 1 .. Len(r)
  PROVE  r[c] \in SqlValue /\ Field(r[c]) \in Seq(Bytes) /\ r[c].text \in Seq(Bytes)
<1>1. r[c] \in SqlValue
  OBVIOUS
<1>2. r[c].text \in Seq(Bytes)
  BY <1>1 DEF SqlValue
<1> QED
  BY <1>1, <1>2, ByteTypes, FieldType

LEMMA RowStarts ==
  ASSUME NEW r \in Seq(SqlValue), r # <<>>
  PROVE  \E a : IsStart(r, a)
<1> DEFINE comma == <<",">>
           F(c)  == Field(r[c])
           f(c)  == IF c = 1 THEN F(c) ELSE comma \o F(c)
           ss    == [c \in DOMAIN r |-> f(c)]
           m     == RowBytes(r)
           h(c)  == IF c = 1 THEN 0 ELSE 1
<1>1. PICK n \in Nat \ {0} : n = Len(r) /\ DOMAIN r = 1 .. n
  OBVIOUS
<1>2. \A c \in 1 .. n : F(c) \in Seq(Bytes)
  BY <1>1, FieldOfRow
<1>3. comma \in Seq(Bytes) /\ Len(comma) = 1 /\ comma[1] = ","
  BY ByteTypes, ShortSeqs
<1>4. m = FlattenSeq(ss)
  BY DEF RowBytes
<1> HIDE DEF F, comma, m
<1>5. ASSUME NEW c \in 1 .. n
      PROVE  /\ f(c) \in Seq(Bytes) /\ Len(f(c)) = h(c) + Len(F(c)) /\ Len(F(c)) \in Nat
             /\ \A i \in 1 .. Len(F(c)) : f(c)[h(c) + i] = F(c)[i]
             /\ c # 1 => f(c)[1] = ","
  <2>1. F(c) \in Seq(Bytes)
    BY <1>2
  <2>2. CASE c = 1
    BY <2>1, <2>2
  <2>3. CASE c # 1
    <3>1. f(c) = <<",">> \o F(c) /\ h(c) = 1
      BY <2>3 DEF comma
    <3>2. PICK e \in Bytes : e = ","
      BY ByteTypes
    <3> HIDE DEF f, h
    <3>3. f(c) = <<e>> \o F(c) /\ h(c) = 1
      BY <3>1, <3>2
    <3>4. /\ f(c) \in Seq(Bytes) /\ Len(f(c)) = Len(F(c)) + 1 /\ Len(F(c)) \in Nat
          /\ f(c)[1] = e /\ \A i \in 1 .. Len(F(c)) : f(c)[i + 1] = F(c)[i]
      BY <2>1, <3>3, OneAndRest
    <3>5. Len(F(c)) \in Nat /\ h(c) = 1
      BY <3>3, <3>4
    <3>6. \A i \in 1 .. Len(F(c)) : h(c) + i = i + 1
      BY <3>5
    <3>7. Len(F(c)) + 1 = h(c) + Len(F(c))
      BY <3>5
    <3> QED
      BY <3>2, <3>4, <3>6, <3>7
  <2> QED
    BY <2>2, <2>3
<1> HIDE DEF f
<1>6. ss \in Seq(Seq(Bytes)) /\ Len(ss) = n /\ \A c \in 1 .. n : ss[c] = f(c)
  <2>1. \A c \in 1 .. n : f(c) \in Seq(Bytes)
    BY <1>5
  <2> QED
    BY <1>1, <2>1
<1> HIDE DEF ss
<1>7. ss # <<>>
  BY <1>6
<1>8. /\ Begin(ss, 1) = 0
      /\ \A c \in 1 .. n :
           /\ Begin(ss, c) \in Nat /\ Begin(ss, c + 1) = Begin(ss, c) + Len(f(c))
           /\ Begin(ss, c) + Len(f(c)) <= Len(m)
           /\ \A i \in 1 .. Len(f(c)) : m[Begin(ss, c) + i] = f(c)[i]
      /\ Len(m) = Begin(ss, n + 1)
  BY <1>4, <1>6, <1>7, JoinedAt, SMTT(40)
<1> DEFINE a == [c \in 1 .. n |-> Begin(ss, c) + h(c)]
<1>9. \A c \in 1 .. n : a[c] = Begin(ss, c) + h(c)
  OBVIOUS
<1>10. \A c : h(c) \in {0, 1} /\ (c = 1 => h(c) = 0) /\ (c # 1 => h(c) = 1)
  OBVIOUS
<1> HIDE DEF a, h
<1>11. Len(m) \in Nat
  <2>1. Begin(ss, n) \in Nat /\ Begin(ss, n + 1) = Begin(ss, n) + Len(f(n)) /\ Len(f(n)) \in Nat
    <3>1. n \in 1 .. n
      OBVIOUS
    <3> QED
      <4>1. Begin(ss, n) \in Nat /\ Begin(ss, n + 1) = Begin(ss, n) + Len(f(n))
        BY <1>8, <3>1
      <4>2. f(n) \in Seq(Bytes)
        BY <1>5, <3>1
      <4> QED
        BY <4>1, <4>2
  <2>2. Begin(ss, n + 1) \in Nat
    BY <2>1
  <2> QED
    BY <1>8, <2>2
<1>12. ASSUME NEW c \in 1 .. n
       PROVE  /\ a[c] \in Nat /\ a[c] + Len(F(c)) <= Len(m) /\ a[c] + Len(F(c)) = Begin(ss, c + 1)
              /\ \A i \in 1 .. Len(F(c)) : m[a[c] + i] = F(c)[i]
              /\ c # 1 => a[c] \in 1 .. Len(m) /\ m[a[c]] = ","
  <2>1. PICK x \in Nat : x = Begin(ss, c)
    BY <1>8
  <2>2. PICK d \in {0, 1} : d = h(c) /\ (c # 1 => d = 1)
    BY <1>10
  <2>3. PICK y \in Nat : y = Len(F(c))
    BY <1>5
  <2>4. /\ Len(f(c)) = d + y /\ \A i \in 1 .. y : f(c)[d + i] = F(c)[i]
    BY <1>5, <2>2, <2>3
  <2>5. /\ Begin(ss, c + 1) = x + (d + y) /\ x + (d + y) <= Len(m)
        /\ \A i \in 1 .. d + y : m[x + i] = f(c)[i]
    BY <1>8, <2>1, <2>4
  <2>6. a[c] = x + d
    BY <1>9, <2>1, <2>2
  <2>7. ASSUME NEW i \in 1 .. y
        PROVE  m[a[c] + i] = F(c)[i]
    <3>1. PICK j \in 1 .. d + y : j = d + i /\ x + j = a[c] + i
      <4>1. d + i \in 1 .. d + y /\ x + (d + i) = (x + d) + i
        OBVIOUS
      <4> QED
        BY <2>6, <4>1
    <3> QED
      BY <2>4, <2>5, <3>1
  <2>8. ASSUME c # 1
        PROVE  a[c] \in 1 .. Len(m) /\ m[a[c]] = ","
    <3>1. d = 1 /\ 1 \in 1 .. d + y
      BY <2>2, <2>8
    <3>2. m[x + 1] = f(c)[1] /\ f(c)[1] = ","
      BY <1>5, <2>5, <2>8, <3>1
    <3>3. x + 1 \in 1 .. Len(m)
      <4>1. x + (1 + y) <= Len(m)
        BY <2>5, <3>1
      <4> QED
        BY <1>11, <4>1
    <3> QED
      BY <2>6, <3>1, <3>2, <3>3
  <2>9. a[c] \in Nat /\ a[c] + y <= Len(m) /\ a[c] + y = Begin(ss, c + 1)
    <3>1. (x + d) + y = x + (d + y)
      OBVIOUS
    <3> QED
      BY <2>5, <2>6, <3>1
  <2> QED
    BY <2>3, <2>7, <2>8, <2>9
<1>13. ASSUME NEW c \in 1 .. n, c < n
       PROVE  a[c + 1] = a[c] + Len(F(c)) + 1 /\ a[c + 1] <= Len(m) /\ m[a[c + 1]] = ","
  <2>1. c + 1 \in 1 .. n /\ c + 1 # 1
    BY <1>13
  <2>2. a[c + 1] = Begin(ss, c + 1) + 1
    BY <1>9, <1>10, <2>1
  <2>3. a[c] + Len(F(c)) = Begin(ss, c + 1)
    BY <1>12
  <2>4. a[c + 1] \in 1 .. Len(m) /\ m[a[c + 1]] = ","
    BY <1>12, <2>1
  <2>5. a[c + 1] <= Len(m)
    <3>1. a[c + 1] \in 1 .. Len(m)
      BY <2>4
    <3> QED
      BY <1>11, <3>1
  <2> QED
    BY <2>2, <2>3, <2>4, <2>5
<1>14. a[1] = 0
  <2>1. a[1] = Begin(ss, 1) + h(1)
    BY <1>9
  <2>2. Begin(ss, 1) = 0
    BY <1>8
  <2>3. h(1) = 0
    BY <1>10
  <2> QED
    BY <2>1, <2>2, <2>3
<1>15. Len(m) = a[n] + Len(F(n))
  <2>1. n \in 1 .. n
    OBVIOUS
  <2> QED
    BY <1>8, <1>12, <2>1
<1>16. IsStart(r, a)
  BY <1>1, <1>12, <1>13, <1>14, <1>15 DEF IsStart, m, F
<1> QED
  BY <1>16

\* The cells x are the texts of r from its c-th value on, the last of them cut
\* short, perhaps.
PartOfRow(x, r, c) ==
  /\ x \in Seq(Seq(Bytes)) /\ x # <<>> /\ Len(x) + c <= Len(r) + 1
  /\ \A j \in 1 .. Len(x) : /\ j < Len(x) => x[j] = r[(c + j) - 1].text
                            /\ Extends(r[(c + j) - 1].text, x[j])
WholeRow(x, r, c) ==
  /\ Len(x) + c = Len(r) + 1
  /\ \A j \in 1 .. Len(x) : x[j] = r[(c + j) - 1].text

LEMMA OneCell ==
  ASSUME NEW r \in Seq(SqlValue), NEW c \in 1 .. Len(r), NEW y \in Seq(Bytes), Extends(r[c].text, y)
  PROVE  /\ PartOfRow(<<y>>, r, c)
         /\ c = Len(r) /\ y = r[c].text => WholeRow(<<y>>, r, c)
<1> DEFINE o == <<y>>
<1>1. o \in Seq(Seq(Bytes)) /\ Len(o) = 1 /\ o[1] = y
  OBVIOUS
<1>2. Len(r) \in Nat
  OBVIOUS
<1> HIDE DEF o
<1>3. \A j \in 1 .. Len(o) : j = 1 /\ (c + j) - 1 = c /\ ~(j < Len(o))
  BY <1>1
<1>4. Len(o) + c <= Len(r) + 1 /\ o # <<>> /\ (c = Len(r) => Len(o) + c = Len(r) + 1)
  <2>1. PICK n \in Nat : n = Len(r)
    BY <1>2
  <2>2. Len(o) = 1 /\ c \in 1 .. n
    BY <1>1, <2>1
  <2>3. Len(o) + c <= n + 1 /\ (c = n => Len(o) + c = n + 1)
    BY <2>2
  <2>4. o # <<>>
    BY DEF o
  <2> QED
    BY <2>1, <2>3, <2>4
<1>5. PartOfRow(o, r, c)
  BY <1>1, <1>3, <1>4 DEF PartOfRow
<1>6. c = Len(r) /\ y = r[c].text => WholeRow(o, r, c)
  BY <1>1, <1>3, <1>4 DEF WholeRow
<1> QED
  BY <1>5, <1>6 DEF o

LEMMA MoreCells ==
  ASSUME NEW r \in Seq(SqlValue), NEW c \in 1 .. Len(r), c < Len(r), NEW x, PartOfRow(x, r, c + 1),
         r[c].text \in Seq(Bytes)
  PROVE  /\ PartOfRow(<<r[c].text>> \o x, r, c)
         /\ WholeRow(x, r, c + 1) => WholeRow(<<r[c].text>> \o x, r, c)
<1> DEFINE t == r[c].text
           R(j) == r[j].text
           y == <<t>> \o x
<1>1. PICK n \in Nat : n = Len(r)
  OBVIOUS
<1>2. /\ x \in Seq(Seq(Bytes)) /\ x # <<>> /\ Len(x) + (c + 1) <= n + 1
      /\ \A j \in 1 .. Len(x) : /\ j < Len(x) => x[j] = R(((c + 1) + j) - 1)
                                /\ Extends(R(((c + 1) + j) - 1), x[j])
  BY <1>1 DEF PartOfRow
<1>3. R(c) = t /\ Extends(t, t) /\ t \in Seq(Bytes)
  BY DEF Extends
<1> HIDE DEF R, t
<1>4. /\ y \in Seq(Seq(Bytes)) /\ Len(y) = Len(x) + 1 /\ Len(x) \in Nat
      /\ y[1] = t /\ \A j \in 1 .. Len(x) : y[j + 1] = x[j]
  BY <1>2, <1>3, OneAndRest
<1> HIDE DEF y
<1>5. ASSUME NEW j \in 1 .. Len(y)
      PROVE  /\ j < Len(y) => y[j] = R((c + j) - 1)
             /\ Extends(R((c + j) - 1), y[j])
  <2>1. CASE j = 1
    <3>1. (c + j) - 1 = c /\ j < Len(y)
      <4>1. Len(x) # 0
        BY <1>2
      <4> QED
        BY <1>4, <2>1, <4>1
    <3> QED
      BY <1>3, <1>4, <2>1, <3>1
  <2>2. CASE j # 1
    <3>1. PICK i \in 1 .. Len(x) : j = i + 1 /\ ((c + 1) + i) - 1 = (c + j) - 1 /\ (j < Len(y) => i < Len(x))
      <4>1. /\ j - 1 \in 1 .. Len(x) /\ j = (j - 1) + 1 /\ ((c + 1) + (j - 1)) - 1 = (c + j) - 1
            /\ j < Len(y) => j - 1 < Len(x)
        BY <1>4, <2>2
      <4> QED
        BY <4>1
    <3> QED
      BY <1>2, <1>4, <3>1
  <2> QED
    BY <2>1, <2>2
<1>6. Len(y) + c <= n + 1 /\ y # <<>>
  BY <1>2, <1>4
<1>7. PartOfRow(y, r, c)
  BY <1>1, <1>4, <1>5, <1>6 DEF PartOfRow, R
<1>8. ASSUME WholeRow(x, r, c + 1)
      PROVE  WholeRow(y, r, c)
  <2>1. Len(x) + (c + 1) = n + 1 /\ \A j \in 1 .. Len(x) : x[j] = R(((c + 1) + j) - 1)
    BY <1>1, <1>8 DEF WholeRow, R
  <2>2. ASSUME NEW j \in 1 .. Len(y)
        PROVE  y[j] = R((c + j) - 1)
    <3>1. CASE j = 1
      <4>1. (c + j) - 1 = c
        BY <3>1
      <4> QED
        BY <1>3, <1>4, <3>1, <4>1
    <3>2. CASE j # 1
      <4>1. PICK i \in 1 .. Len(x) : j = i + 1 /\ ((c + 1) + i) - 1 = (c + j) - 1
        <5>1. j - 1 \in 1 .. Len(x) /\ j = (j - 1) + 1 /\ ((c + 1) + (j - 1)) - 1 = (c + j) - 1
          BY <1>4, <3>2
        <5> QED
          BY <5>1
      <4> QED
        BY <1>4, <2>1, <4>1
    <3> QED
      BY <3>1, <3>2
  <2>3. Len(y) + c = n + 1
    BY <1>4, <2>1
  <2> QED
    BY <1>1, <2>2, <2>3 DEF WholeRow, R
<1> QED
  BY <1>7, <1>8 DEF y, t

LEMMA PartReadBack ==
  ASSUME NEW r \in Seq(SqlValue), r # <<>>, NEW s \in Seq(Bytes), Extends(RowBytes(r), s)
  PROVE  /\ PartOfRow(parse_csv_line(s), r, 1)
         /\ Len(s) = Len(RowBytes(r)) => WholeRow(parse_csv_line(s), r, 1)
<1> DEFINE m    == RowBytes(r)
           F(c) == Field(r[c])
           t(c) == r[c].text
           x(p) == Cells(s, p)
<1>1. PICK l \in Nat : l = Len(s)
  OBVIOUS
<1>2. PICK n \in Nat \ {0} : n = Len(r)
  OBVIOUS
<1>3. PICK a : IsStart(r, a)
  BY RowStarts
<1> DEFINE e(c) == a[c] + Len(F(c)) + 1
<1>4. m \in Seq(Bytes) /\ Len(m) \in Nat
  <2>1. TextsIn(r, Bytes)
    BY FieldOfRow DEF TextsIn
  <2>2. MarksIn(Bytes)
    BY ByteTypes DEF MarksIn
  <2> QED
    BY <2>1, <2>2, RowBytesType
<1>5. ASSUME NEW c \in 1 .. n
      PROVE  /\ r[c] \in SqlValue /\ F(c) \in Seq(Bytes) /\ t(c) \in Seq(Bytes) /\ Len(F(c)) \in Nat
             /\ a[c] \in Nat /\ a[c] + Len(F(c)) <= Len(m)
             /\ \A i \in 1 .. Len(F(c)) : m[a[c] + i] = F(c)[i]
             /\ c < n => a[c + 1] = e(c) /\ e(c) <= Len(m) /\ m[e(c)] = ","
             /\ c = n => e(c) = Len(m) + 1
  <2>1. r[c] \in SqlValue /\ F(c) \in Seq(Bytes) /\ t(c) \in Seq(Bytes)
    BY <1>2, FieldOfRow
  <2>2. Len(F(c)) \in Nat
    BY <2>1
  <2>3. /\ a[c] \in Nat /\ a[c] + Len(F(c)) <= Len(m)
        /\ \A i \in 1 .. Len(F(c)) : m[a[c] + i] = F(c)[i]
    BY <1>2, <1>3 DEF IsStart
  <2>4. c < n => a[c + 1] = e(c) /\ e(c) <= Len(m) /\ m[e(c)] = ","
    BY <1>2, <1>3 DEF IsStart
  <2>5. c = n => Len(m) = a[c] + Len(F(c))
    BY <1>2, <1>3 DEF IsStart
  <2> QED
    BY <2>1, <2>2, <2>3, <2>4, <2>5
<1>6. l <= Len(m) /\ \A i \in 1 .. l : m[i] = s[i]
  BY <1>1 DEF Extends
<1> HIDE DEF m, F
<1>7. ASSUME NEW c \in 1 .. n, a[c] <= l
      PROVE  Carries(s, a[c], F(c)) /\ (e(c) <= l => c < n /\ s[e(c)] = ",")
  <2>1. \A i \in 1 .. Len(F(c)) : a[c] + i <= Len(s) => s[a[c] + i] = F(c)[i]
    <3> SUFFICES ASSUME NEW i \in 1 .. Len(F(c)), a[c] + i <= Len(s)
                 PROVE  s[a[c] + i] = F(c)[i]
      OBVIOUS
    <3>1. a[c] \in Nat /\ Len(F(c)) \in Nat
      BY <1>5
    <3>2. a[c] + i \in 1 .. l
      BY <1>1, <3>1
    <3>3. m[a[c] + i] = s[a[c] + i]
      BY <1>6, <3>2
    <3> QED
      BY <1>5, <3>3
  <2>2. ASSUME e(c) <= l
        PROVE  c < n /\ s[e(c)] = ","
    <3>1. a[c] \in Nat /\ Len(F(c)) \in Nat
      BY <1>5
    <3>2. e(c) \in 1 .. l
      BY <2>2, <3>1
    <3>3. c # n
      <4>1. c = n => e(c) = Len(m) + 1
        BY <1>5
      <4> QED
        BY <1>4, <1>6, <2>2, <4>1
    <3>4. c < n
      BY <3>3
    <3>5. m[e(c)] = ","
      BY <1>5, <3>4
    <3>6. m[e(c)] = s[e(c)]
      BY <1>6, <3>2
    <3> QED
      BY <3>4, <3>5, <3>6
  <2> QED
    BY <1>1, <2>1, <2>2 DEF Carries
<1>8. \A p \in 1 .. l + 1 :
        x(p) = <<CellText(s, p)>> \o IF GoesOn(s, p) THEN x(CellEnd(s, p) + 1) ELSE <<>>
  BY <1>1, CellsAre
<1> HIDE DEF x, e
<1> DEFINE Good(c) ==
             a[c] <= l => /\ PartOfRow(x(a[c] + 1), r, c)
                          /\ l = Len(m) => WholeRow(x(a[c] + 1), r, c)
<1>9. ASSUME NEW c \in 1 .. n, \A q \in c + 1 .. n : Good(q), a[c] <= l
      PROVE  /\ PartOfRow(x(a[c] + 1), r, c)
             /\ l = Len(m) => WholeRow(x(a[c] + 1), r, c)
  <2>1. PICK p \in 1 .. l + 1 : p = a[c] + 1
    <3>1. a[c] \in Nat
      BY <1>5
    <3>2. a[c] + 1 \in 1 .. l + 1
      BY <1>9, <3>1
    <3> QED
      BY <3>2
  <2> DEFINE T == CellText(s, p)
             z == CellEnd(s, p)
             k == a[c] + Len(F(c))
  <2>2. /\ k <= l => T = t(c) /\ z = k + 1
        /\ k > l  => T \in Seq(Bytes) /\ Extends(t(c), T) /\ z = l + 1
    <3>1. r[c] \in SqlValue /\ a[c] \in Nat /\ a[c] <= Len(s) /\ Carries(s, a[c], Field(r[c]))
      BY <1>1, <1>5, <1>7, <1>9 DEF F
    <3>2. PICK v \in SqlValue : v = r[c]
      BY <3>1
    <3>3. PICK d \in Nat : d = a[c]
      BY <3>1
    <3>4. d <= Len(s) /\ Carries(s, d, Field(v))
      BY <3>1, <3>2, <3>3
    <3>5. LET N == Len(Field(v)) IN
          /\ N \in Nat
          /\ d + N <= Len(s) => CellText(s, d + 1) = v.text /\ CellEnd(s, d + 1) = d + N + 1
          /\ d + N > Len(s)  => /\ CellText(s, d + 1) \in Seq(Bytes) /\ Extends(v.text, CellText(s, d + 1))
                                /\ CellEnd(s, d + 1) = Len(s) + 1
      BY <3>4, FieldRead
    <3> QED
      BY <1>1, <2>1, <3>2, <3>3, <3>5 DEF F
  <2>3. x(p) = <<T>> \o IF GoesOn(s, p) THEN x(z + 1) ELSE <<>>
    BY <1>8
  <2>4. GoesOn(s, p) <=> z <= l /\ s[z] = ","
    BY <1>1 DEF GoesOn
  <2>8. e(c) <= l => c < n /\ s[e(c)] = ","
    BY <1>7, <1>9
  <2>9. t(c) \in Seq(Bytes)
    BY <1>5
  <2>5. /\ k \in Nat /\ k <= Len(m) /\ k + 1 = e(c)
        /\ c < n => a[c + 1] = e(c) /\ e(c) <= Len(m)
        /\ e(c) <= l => c < n
    <3>1. a[c] \in Nat /\ Len(F(c)) \in Nat
      BY <1>5
    <3>2. k \in Nat /\ k + 1 = e(c)
      BY <3>1 DEF e
    <3>3. c < n => a[c + 1] = e(c) /\ e(c) <= Len(m)
      BY <1>5 DEF e
    <3>4. k <= Len(m)
      BY <1>5
    <3> QED
      BY <2>8, <3>2, <3>3, <3>4
  <2> HIDE DEF T, z, k, t
  <2>6. CASE k < l
    <3>0. k <= l /\ k + 1 <= l
      BY <2>5, <2>6
    <3>1. z = e(c) /\ e(c) <= l /\ T = t(c)
      BY <2>2, <2>5, <3>0
    <3>2. c < n /\ s[z] = ","
      BY <2>8, <3>1
    <3>3. GoesOn(s, p)
      BY <2>4, <3>1, <3>2
    <3>4. x(p) = <<t(c)>> \o x(a[c + 1] + 1)
      BY <2>3, <2>5, <3>1, <3>2, <3>3
    <3>9. c < n
      BY <3>2
    <3>5. c + 1 \in c + 1 .. n /\ a[c + 1] <= l
      BY <2>5, <3>1, <3>9
    <3>6. Good(c + 1)
      BY <1>9, <3>5
    <3>7. /\ PartOfRow(x(a[c + 1] + 1), r, c + 1)
          /\ l = Len(m) => WholeRow(x(a[c + 1] + 1), r, c + 1)
      BY <3>5, <3>6
    <3> DEFINE y == x(a[c + 1] + 1)
    <3> HIDE DEF y
    <3>8. /\ PartOfRow(<<r[c].text>> \o y, r, c)
          /\ WholeRow(y, r, c + 1) => WholeRow(<<r[c].text>> \o y, r, c)
      <4>1. c \in 1 .. Len(r) /\ c < Len(r) /\ PartOfRow(y, r, c + 1) /\ r[c].text \in Seq(Bytes)
        BY <1>2, <2>9, <3>2, <3>7 DEF y, t
      <4> QED
        BY <4>1, MoreCells
    <3> QED
      BY <2>1, <3>4, <3>7, <3>8 DEF y, t
  <2>7. CASE ~(k < l)
    <3>1. z = l + 1 /\ T \in Seq(Bytes) /\ Extends(t(c), T)
      <4>1. CASE k = l
        <5>1. T = t(c) /\ z = l + 1
          BY <2>2, <4>1
        <5> QED
          BY <2>9, <5>1 DEF Extends
      <4>2. CASE k # l
        <5>1. k > l
          BY <2>5, <2>7, <4>2
        <5> QED
          BY <2>2, <5>1
      <4> QED
        BY <4>1, <4>2
    <3>2. ~GoesOn(s, p)
      <4>1. ~(z <= l)
        BY <3>1
      <4> QED
        BY <2>4, <4>1
    <3>3. x(p) = <<T>>
      <4>1. x(p) = <<T>> \o <<>>
        BY <2>3, <3>2
      <4>2. <<T>> \in Seq(Seq(Bytes))
        BY <3>1
      <4> QED
        BY <4>1, <4>2, ConcatEmptySeq
    <3>4. l = Len(m) => c = n /\ T = t(c)
      <4> SUFFICES ASSUME l = Len(m)
                   PROVE  c = n /\ T = t(c)
        OBVIOUS
      <4>1. k = l
        BY <2>5, <2>7
      <4>2. T = t(c)
        BY <2>2, <4>1
      <4>3. ~(c < n)
        BY <2>5, <4>1
      <4> QED
        BY <4>2, <4>3
    <3>5. /\ PartOfRow(<<T>>, r, c)
          /\ c = n /\ T = t(c) => WholeRow(<<T>>, r, c)
      <4>1. c \in 1 .. Len(r) /\ Extends(r[c].text, T) /\ T \in Seq(Bytes)
        BY <1>2, <3>1 DEF t
      <4>2. /\ PartOfRow(<<T>>, r, c)
            /\ c = Len(r) /\ T = r[c].text => WholeRow(<<T>>, r, c)
        BY <4>1, OneCell
      <4> QED
        BY <1>2, <4>2 DEF t
    <3> QED
      BY <2>1, <3>3, <3>4, <3>5
  <2> QED
    BY <2>6, <2>7
<1>10. ASSUME NEW c \in 1 .. n, \A q \in c + 1 .. n : Good(q)
       PROVE  Good(c)
  BY <1>9, <1>10
<1> DEFINE G == {c \in 1 .. n : Good(c)}
<1> HIDE DEF Good
<1>11. \A c \in 1 .. n : (\A q \in c + 1 .. n : q \in G) => c \in G
  BY <1>10
<1> HIDE DEF G
<1>12. \A c \in 1 .. n : c \in G
  <2>1. PICK d \in Nat : d + 1 = n
    <3>1. n - 1 \in Nat /\ (n - 1) + 1 = n
      OBVIOUS
    <3> QED
      BY <3>1
  <2>2. \A c \in 1 .. d + 1 : (\A q \in c + 1 .. d + 1 : q \in G) => c \in G
    BY <1>11, <2>1
  <2>3. \A c \in 1 .. d + 1 : c \in G
    BY <2>2, Downwards
  <2> QED
    BY <2>1, <2>3
<1>13. 1 \in 1 .. n
  OBVIOUS
<1>14. 1 \in G
  BY <1>12, <1>13
<1>15. Good(1) /\ a[1] = 0
  BY <1>3, <1>14 DEF G, IsStart
<1>16. /\ PartOfRow(x(0 + 1), r, 1)
       /\ l = Len(m) => WholeRow(x(0 + 1), r, 1)
  BY <1>15 DEF Good
<1>17. x(0 + 1) = parse_csv_line(s)
  BY <1>1, CellsAre DEF x
<1> QED
  BY <1>1, <1>16, <1>17 DEF m

-----------------------------------------------------------------------------
(* What a write leaves.                                                    *)

LEMMA OneLineRow ==
  ASSUME NEW r \in Seq(SqlValue), OneLine(r)
  PROVE  /\ RowBytes(r) \in Seq(Bytes) /\ RowBytes(r) # <<>> /\ Len(RowBytes(r)) < LineCap
         /\ \A j \in 1 .. Len(RowBytes(r)) : RowBytes(r)[j] # "nl"
         /\ ~is_blank_line(RowBytes(r))
<1> DEFINE S == Bytes \ {"nl"}
           m == RowBytes(r)
<1>1. Len(m) < LineCap /\ ~is_blank_line(m)
  BY DEF OneLine
<1>2. MarksIn(S)
  BY ByteTypes DEF MarksIn, Quote
<1>3. TextsIn(r, S)
  <2> SUFFICES ASSUME NEW c \in 1 .. Len(r)
               PROVE  r[c].text \in Seq(S)
    BY DEF TextsIn
  <2> DEFINE t == r[c].text
  <2>1. t \in Seq(Bytes)
    BY FieldOfRow
  <2>2. "nl" \notin ToSet(t)
    BY DEF OneLine
  <2> HIDE DEF t
  <2>3. \A j \in 1 .. Len(t) : t[j] \in Bytes /\ t[j] \in ToSet(t)
    BY <2>1 DEF ToSet
  <2>4. \A j \in 1 .. Len(t) : t[j] \in S
    BY <2>2, <2>3
  <2> HIDE DEF S
  <2>5. t \in Seq(S)
    BY <2>1, <2>4
  <2> QED
    BY <2>5 DEF t
<1> HIDE DEF m
<1>4. m \in Seq(S)
  <2> HIDE DEF S
  <2> QED
    BY <1>2, <1>3, RowBytesType DEF m
<1>5. \A j \in 1 .. Len(m) : m[j] \in S
  BY <1>4
<1>6. \A j \in 1 .. Len(m) : m[j] \in Bytes /\ m[j] # "nl"
  BY <1>5
<1>7. m \in Seq(Bytes)
  <2> HIDE DEF S
  <2>1. \A j \in 1 .. Len(m) : m[j] \in Bytes
    BY <1>6
  <2> QED
    BY <1>4, <2>1
<1>8. m # <<>>
  <2>1. is_blank_line(<<>>)
    BY DEF is_blank_line, ToSet
  <2> QED
    BY <1>1, <2>1
<1> QED
  BY <1>1, <1>6, <1>7, <1>8 DEF m

\* The file, with a line end after it if w writes one.
Ended(w) == IF need_newline[w] THEN file \o <<"nl">> ELSE file

LEMMA EndedIs ==
  ASSUME TypeOK, NEW w \in Writers, pc[w] = "write", Plain(w)
  PROVE  /\ Ended(w) \in Seq(Bytes) /\ Ended(w) # <<>> /\ Ended(w)[Len(Ended(w))] = "nl"
         /\ Rows(Ended(w)) = Rows(file \o <<"nl">>)
<1> DEFINE n == <<"nl">>
           c == file \o n
<1>1. file \in Seq(Bytes) /\ file # <<>>
  BY AppendingRow
<1>2. n \in Seq(Bytes) /\ Len(n) = 1 /\ n[1] = "nl"
  BY ByteTypes, ShortSeqs
<1> HIDE DEF n
<1>3. /\ c \in Seq(Bytes) /\ Len(c) = Len(file) + Len(n)
      /\ \A i \in 1 .. Len(file) + Len(n) : c[i] = IF i <= Len(file) THEN file[i] ELSE n[i - Len(file)]
  BY <1>1, <1>2, ConcatProperties
<1> HIDE DEF c
<1>4. Len(c) = Len(file) + 1 /\ Len(file) \in Nat
  BY <1>1, <1>2, <1>3
<1>5. PICK e \in 1 .. Len(file) + 1 : e = Len(c) /\ ~(e <= Len(file)) /\ e - Len(file) = 1
  BY <1>4
<1>6. c[e] = "nl"
  BY <1>2, <1>3, <1>5
<1>7. CASE need_newline[w]
  <2>1. Ended(w) = c
    BY <1>7 DEF Ended, c, n
  <2>2. c # <<>>
    BY <1>3, <1>4
  <2> QED
    BY <1>3, <1>5, <1>6, <2>1, <2>2 DEF c, n
<1>8. CASE ~need_newline[w]
  <2>1. Ended(w) = file
    BY <1>8 DEF Ended
  <2>2. ~LineIsOpen(file) /\ Last(file) # "cr"
    BY <1>8 DEF Plain, Glued
  <2>3. file[Len(file)] = "nl"
    BY <2>2 DEF LineIsOpen, Last
  <2>4. Rows(file \o <<"nl">>) = Rows(file)
    BY <1>1, <2>3, SecondLineFeed
  <2> QED
    BY <1>1, <2>1, <2>3, <2>4
<1> QED
  BY <1>7, <1>8

\* A write appends a first part of the row to that, or leaves the file as it is.
LEMMA WriteIs ==
  ASSUME TypeOK, NEW w \in Writers, Plain(w), write(w) \/ write_fails(w)
  PROVE  /\ pc[w] = "write"
         /\ write(w) => file' = Ended(w) \o RowBytes(row[w])
         /\ \/ file' = file
            \/ \E y \in Seq(Bytes) : Extends(RowBytes(row[w]), y) /\ file' = Ended(w) \o y
<1> DEFINE n == <<"nl">>
           m == RowBytes(row[w])
           u == Written(w)
<1>1. pc[w] = "write"
  BY DEF write, write_fails
<1>2. file \in Seq(Bytes) /\ row[w] \in Seq(SqlValue)
  BY <1>1, AppendingRow
<1>3. m \in Seq(Bytes)
  BY <1>2, OneLineRow DEF Plain
<1>4. n \in Seq(Bytes) /\ Len(n) = 1
  BY ByteTypes, ShortSeqs
<1>5. u = (IF need_newline[w] THEN n ELSE <<>>) \o m
  BY DEF Written
<1>6. need_newline[w] => Ended(w) = file \o n
  BY DEF Ended
<1>7. ~need_newline[w] => Ended(w) = file
  BY DEF Ended
<1> HIDE DEF n, m, u
<1>8. ~need_newline[w] => u = m
  <2>1. <<>> \o m = m
    BY <1>3, ConcatEmptySeq
  <2> QED
    BY <1>5, <2>1
<1>9. need_newline[w] => u = n \o m
  BY <1>5
<1>10. file \o u = Ended(w) \o m
  <2>1. CASE need_newline[w]
    <3>1. (file \o n) \o m = file \o (n \o m)
      BY <1>2, <1>3, <1>4, ConcatAssociative
    <3> QED
      BY <1>6, <1>9, <2>1, <3>1
  <2>2. CASE ~need_newline[w]
    BY <1>7, <1>8, <2>2
  <2> QED
    BY <2>1, <2>2
<1>11. write(w) => file' = Ended(w) \o m
  BY <1>10 DEF write, u
<1>12. Extends(m, m)
  BY DEF Extends
<1>13. ASSUME write_fails(w)
       PROVE  \/ file' = file
              \/ \E y \in Seq(Bytes) : Extends(m, y) /\ file' = Ended(w) \o y
  <2>1. PICK k \in 0 .. Len(u) : file' = file \o SubSeq(u, 1, k)
    BY <1>13 DEF write_fails, u
  <2>2. CASE ~need_newline[w]
    <3>1. k \in Nat /\ k <= Len(m) /\ u = m
      BY <1>8, <2>2
    <3> DEFINE y == SubSeq(m, 1, k)
    <3>2. /\ y \in Seq(Bytes) /\ Len(y) = (IF 1 <= k THEN (k - 1) + 1 ELSE 0)
          /\ \A j \in 1 .. (k - 1) + 1 : y[j] = m[(1 + j) - 1]
      BY <1>3, <3>1, CutOf
    <3> HIDE DEF y
    <3>3. Len(y) = k /\ \A j \in 1 .. k : y[j] = m[j]
      <4>1. Len(y) = k
        BY <3>1, <3>2
      <4>2. ASSUME NEW j \in 1 .. k
            PROVE  y[j] = m[j]
        <5>1. j \in 1 .. (k - 1) + 1 /\ (1 + j) - 1 = j
          BY <3>1
        <5> QED
          BY <3>2, <5>1
      <4> QED
        BY <4>1, <4>2
    <3>4. Extends(m, y)
      BY <3>1, <3>3 DEF Extends
    <3> QED
      BY <1>7, <2>1, <2>2, <3>1, <3>2, <3>4 DEF y
  <2>3. CASE need_newline[w] /\ k = 0
    <3>1. u \in Seq(Bytes)
      BY <1>1, WrittenIs DEF u
    <3> DEFINE z == SubSeq(u, 1, k)
    <3>2. z \in Seq(Bytes) /\ Len(z) = (IF 1 <= k THEN (k - 1) + 1 ELSE 0)
      <4>1. k <= Len(u) /\ k \in Nat
        OBVIOUS
      <4> QED
        BY <3>1, <4>1, CutOf
    <3> HIDE DEF z
    <3>3. z = <<>>
      BY <2>3, <3>2
    <3>4. file' = file \o z
      BY <2>1 DEF z
    <3> QED
      BY <1>2, <3>3, <3>4, ConcatEmptySeq
  <2>4. CASE need_newline[w] /\ k # 0
    <3>1. u = n \o m
      BY <1>9, <2>4
    <3>2. /\ u \in Seq(Bytes) /\ Len(u) = Len(n) + Len(m)
          /\ \A i \in 1 .. Len(n) + Len(m) : u[i] = IF i <= Len(n) THEN n[i] ELSE m[i - Len(n)]
      BY <1>3, <1>4, <3>1, ConcatProperties
    <3>3. /\ Len(u) = 1 + Len(m) /\ Len(m) \in Nat
          /\ \A i \in 1 .. 1 + Len(m) : u[i] = IF i <= 1 THEN n[i] ELSE m[i - 1]
      BY <1>3, <1>4, <3>2
    <3>4. PICK d \in Nat : k = d + 1 /\ d <= Len(m)
      <4>1. k - 1 \in Nat /\ k = (k - 1) + 1 /\ k - 1 <= Len(m)
        <5>1. k <= 1 + Len(m) /\ k \in Nat \ {0} /\ Len(m) \in Nat
          BY <2>4, <3>3
        <5> QED
          BY <5>1
      <4> QED
        BY <4>1
    <3> DEFINE y == SubSeq(m, 1, d)
               z == SubSeq(u, 1, k)
    <3>5. /\ y \in Seq(Bytes) /\ Len(y) = (IF 1 <= d THEN (d - 1) + 1 ELSE 0)
          /\ \A j \in 1 .. (d - 1) + 1 : y[j] = m[(1 + j) - 1]
      BY <1>3, <3>4, CutOf
    <3>6. /\ z \in Seq(Bytes) /\ Len(z) = (IF 1 <= k THEN (k - 1) + 1 ELSE 0)
          /\ \A j \in 1 .. (k - 1) + 1 : z[j] = u[(1 + j) - 1]
      <4>1. k \in Nat /\ k <= Len(u)
        OBVIOUS
      <4> QED
        BY <3>2, <4>1, CutOf
    <3> HIDE DEF y, z
    <3>7. Len(y) = d /\ \A j \in 1 .. d : y[j] = m[j]
      <4>1. Len(y) = d
        BY <3>4, <3>5
      <4>2. ASSUME NEW j \in 1 .. d
            PROVE  y[j] = m[j]
        <5>1. j \in 1 .. (d - 1) + 1 /\ (1 + j) - 1 = j
          OBVIOUS
        <5> QED
          BY <3>5, <5>1
      <4> QED
        BY <4>1, <4>2
    <3>8. Extends(m, y)
      BY <3>4, <3>7 DEF Extends
    <3>9. Len(z) = d + 1
      BY <3>4, <3>6
    <3>10. /\ n \o y \in Seq(Bytes) /\ Len(n \o y) = Len(n) + Len(y)
           /\ \A i \in 1 .. Len(n) + Len(y) : (n \o y)[i] = IF i <= Len(n) THEN n[i] ELSE y[i - Len(n)]
      BY <1>4, <3>5, ConcatProperties
    <3>11. /\ Len(n \o y) = 1 + d
           /\ \A i \in 1 .. 1 + d : (n \o y)[i] = IF i <= 1 THEN n[i] ELSE y[i - 1]
      BY <1>4, <3>7, <3>10
    <3>12. ASSUME NEW i \in 1 .. d + 1
           PROVE  z[i] = (n \o y)[i]
      <4>1. z[i] = u[i]
        <5>1. i \in 1 .. (k - 1) + 1 /\ (1 + i) - 1 = i
          BY <3>4
        <5> QED
          BY <3>6, <5>1
      <4>2. i \in 1 .. 1 + Len(m) /\ i \in 1 .. 1 + d
        BY <3>3, <3>4
      <4>3. u[i] = (IF i <= 1 THEN n[i] ELSE m[i - 1]) /\ (n \o y)[i] = (IF i <= 1 THEN n[i] ELSE y[i - 1])
        BY <3>3, <3>11, <4>2
      <4>4. CASE i <= 1
        BY <4>1, <4>3, <4>4
      <4>5. CASE ~(i <= 1)
        <5>1. i - 1 \in 1 .. d
          BY <4>5
        <5> QED
          BY <3>7, <4>1, <4>3, <4>5, <5>1
      <4> QED
        BY <4>4, <4>5
    <3>13. z = n \o y
      <4>1. PICK v \in Seq(Bytes) : v = n \o y
        BY <3>10
      <4>2. Len(v) = d + 1 /\ \A i \in 1 .. d + 1 : z[i] = v[i]
        BY <3>11, <3>12, <4>1
      <4>3. z = v
        BY <3>6, <3>9, <4>2
      <4> QED
        BY <4>1, <4>3
    <3>14. file \o (n \o y) = (file \o n) \o y
      BY <1>2, <1>4, <3>5, ConcatAssociative
    <3>15. file' = Ended(w) \o y
      BY <1>6, <2>1, <2>4, <3>13, <3>14 DEF z
    <3> QED
      BY <3>5, <3>8, <3>15
  <2> QED
    BY <2>2, <2>3, <2>4
<1> QED
  BY <1>1, <1>3, <1>11, <1>12, <1>13 DEF m

\* What the file then holds: one more row, or part of one, or the rows it had.
LEMMA RowWritten ==
  ASSUME TypeOK, NEW w \in Writers, Plain(w), pc[w] = "write",
         NEW y \in Seq(Bytes), Extends(RowBytes(row[w]), y)
  PROVE  LET rows == Rows(Ended(w) \o y)
             closed == Rows(file \o <<"nl">>) IN
         /\ \/ rows = closed
            \/ rows = Append(closed, parse_csv_line(y)) /\ PartOfRow(parse_csv_line(y), row[w], 1)
         /\ y = RowBytes(row[w]) =>
              /\ rows = Append(closed, parse_csv_line(y)) /\ WholeRow(parse_csv_line(y), row[w], 1)
              /\ PartOfRow(parse_csv_line(y), row[w], 1)
<1> DEFINE r == row[w]
           m == RowBytes(r)
           c == Ended(w)
           closed == Rows(file \o <<"nl">>)
<1>1. r \in Seq(SqlValue) /\ r # <<>>
  BY AppendingRow
<1>2. /\ m \in Seq(Bytes) /\ m # <<>> /\ Len(m) < LineCap /\ \A j \in 1 .. Len(m) : m[j] # "nl"
      /\ ~is_blank_line(m)
  BY <1>1, OneLineRow DEF Plain
<1>3. c \in Seq(Bytes) /\ c # <<>> /\ c[Len(c)] = "nl" /\ Rows(c) = closed
  BY EndedIs
<1>4. /\ PartOfRow(parse_csv_line(y), r, 1)
      /\ Len(y) = Len(m) => WholeRow(parse_csv_line(y), r, 1)
  BY <1>1, PartReadBack
<1>5. Extends(m, y)
  OBVIOUS
<1> HIDE DEF r, m, c, closed
<1>6. Len(y) < LineCap /\ \A j \in 1 .. Len(y) : y[j] # "nl"
  <2>1. Len(y) <= Len(m) /\ \A j \in 1 .. Len(y) : m[j] = y[j]
    BY <1>5 DEF Extends
  <2>2. Len(y) \in Nat /\ Len(m) \in Nat /\ LineCap \in Nat
    BY <1>2, CsvAssumption
  <2>3. Len(m) < LineCap
    BY <1>2
  <2>4. Len(y) < LineCap
    BY <2>1, <2>2, <2>3
  <2>5. \A j \in 1 .. Len(y) : j \in 1 .. Len(m)
    BY <2>1, <2>2
  <2> QED
    BY <1>2, <2>1, <2>4, <2>5
<1>7. y # <<>> => /\ is_blank_line(y) => Rows(c \o y) = closed
                  /\ ~is_blank_line(y) => Rows(c \o y) = Append(closed, parse_csv_line(y))
  BY <1>3, <1>6, RowAppended
<1>8. y = <<>> => Rows(c \o y) = closed
  BY <1>3, ConcatEmptySeq
<1>9. y = m => y # <<>> /\ ~is_blank_line(y)
  BY <1>2
<1> QED
  BY <1>4, <1>7, <1>8, <1>9 DEF r, m, c, closed

LEMMA LastAppended ==
  ASSUME NEW f \in Seq(Bytes), f # <<>>, NEW x
  PROVE  /\ Last(Append(Rows(f), x)) = x /\ Len(Append(Rows(f), x)) = Len(Rows(f)) + 1 /\ Len(Rows(f)) \in Nat
         /\ \A k \in 1 .. Len(Rows(f)) + 1 :
              Append(Rows(f), x)[k] = IF k = Len(Rows(f)) + 1 THEN x ELSE Rows(f)[k]
         /\ Append(Rows(f), x) \in Seq({Rows(f)[k] : k \in DOMAIN Rows(f)} \cup {x})
<1> DEFINE R == Rows(f)
           A == {R[k] : k \in DOMAIN R}
<1>1. R \in Seq(A)
  BY RowsAre
<1> HIDE DEF R, A
<1>2. R \in Seq(A \cup {x})
  BY <1>1
<1>3. /\ Append(R, x) \in Seq(A \cup {x}) /\ Len(Append(R, x)) = Len(R) + 1 /\ Len(R) \in Nat
      /\ \A k \in 1 .. Len(R) + 1 : Append(R, x)[k] = IF k = Len(R) + 1 THEN x ELSE R[k]
  BY <1>1, <1>2
<1>4. Last(Append(R, x)) = x
  <2>1. Len(R) + 1 \in 1 .. Len(R) + 1
    BY <1>3
  <2> QED
    BY <1>3, <2>1 DEF Last
<1> QED
  BY <1>3, <1>4 DEF R, A

\* A part of a row, as the property says it.
LEMMA PartIsPrefix ==
  ASSUME NEW r \in Seq(SqlValue), NEW x, PartOfRow(x, r, 1)
  PROVE  /\ Len(x) <= Len(r) /\ \A c \in 1 .. Len(x) - 1 : x[c] = r[c].text
         /\ IsPrefix(Last(x), r[Len(x)].text)
<1> DEFINE R(j) == r[j].text
<1>1. /\ x \in Seq(Seq(Bytes)) /\ x # <<>> /\ Len(x) + 1 <= Len(r) + 1
      /\ \A j \in 1 .. Len(x) : /\ j < Len(x) => x[j] = R((1 + j) - 1)
                                /\ Extends(R((1 + j) - 1), x[j])
  BY DEF PartOfRow
<1>2. PICK n \in Nat \ {0} : n = Len(x)
  BY <1>1
<1>3. Len(r) \in Nat
  OBVIOUS
<1>4. n <= Len(r)
  BY <1>1, <1>2, <1>3
<1>5. \A c \in 1 .. Len(r) : R(c) \in Seq(Bytes)
  BY FieldOfRow
<1> HIDE DEF R
<1>6. \A j \in 1 .. n : /\ j < n => x[j] = R(j)
                        /\ Extends(R(j), x[j])
  <2> TAKE j \in 1 .. n
  <2>1. (1 + j) - 1 = j
    OBVIOUS
  <2> QED
    BY <1>1, <1>2, <2>1
<1>7. n \in 1 .. n /\ n \in 1 .. Len(r)
  BY <1>3, <1>4
<1> DEFINE y == x[n]
           t == R(n)
<1>8. y \in Seq(Bytes) /\ t \in Seq(Bytes) /\ Extends(t, y)
  BY <1>1, <1>2, <1>5, <1>6, <1>7
<1> HIDE DEF y, t
<1>9. PICK b \in Nat : b = Len(y)
  BY <1>8
<1>10. b <= Len(y) /\ b <= Len(t) /\ \A j \in 1 .. b : y[j] = t[j]
  BY <1>8, <1>9 DEF Extends
<1>11. SubSeq(y, 1, b) = SubSeq(t, 1, b)
  BY <1>8, <1>10, EqualCuts
<1>12. IsPrefix(y, t)
  BY <1>9, <1>10, <1>11 DEF IsPrefix
<1>13. \A c \in 1 .. n - 1 : x[c] = R(c)
  <2> TAKE c \in 1 .. n - 1
  <2>1. c \in 1 .. n /\ c < n
    OBVIOUS
  <2> QED
    BY <1>6, <2>1
<1>14. Last(x) = y
  BY <1>2 DEF Last, y
<1> QED
  BY <1>2, <1>4, <1>12, <1>13, <1>14 DEF R, t

TornNow(w) ==
  LET before == Rows(file)
      closed == Rows(file \o <<"nl">>)
      after  == Rows(file') IN
  \/ after \in {before, closed}
  \/ LET torn == Last(after) IN
     /\ after = Append(closed, torn)
     /\ Len(torn) <= Len(row[w])
     /\ \A c \in 1 .. Len(torn) - 1 : torn[c] = row[w][c].text
     /\ IsPrefix(Last(torn), row[w][Len(torn)].text)

LEMMA TornLeavesPrefix ==
  ASSUME TypeOK, NEW w \in Writers, write_fails(w), Plain(w)
  PROVE  TornNow(w)
<1> DEFINE closed == Rows(file \o <<"nl">>)
<1>1. pc[w] = "write" /\ file \in Seq(Bytes) /\ file # <<>> /\ row[w] \in Seq(SqlValue)
  BY WriteIs, AppendingRow
<1>2. CASE file' = file
  BY <1>2 DEF TornNow
<1>3. CASE file' # file
  <2>1. PICK y \in Seq(Bytes) : Extends(RowBytes(row[w]), y) /\ file' = Ended(w) \o y
    BY <1>3, WriteIs
  <2> DEFINE x == parse_csv_line(y)
  <2>2. \/ Rows(file') = closed
        \/ Rows(file') = Append(closed, x) /\ PartOfRow(x, row[w], 1)
    BY <1>1, <2>1, RowWritten
  <2>3. CASE Rows(file') = closed
    BY <2>3 DEF TornNow
  <2>4. CASE Rows(file') = Append(closed, x) /\ PartOfRow(x, row[w], 1)
    <3>1. Last(Rows(file')) = x
      <4>1. closed = Rows(Ended(w)) /\ Ended(w) \in Seq(Bytes) /\ Ended(w) # <<>>
        BY <1>1, EndedIs
      <4> HIDE DEF x, closed
      <4>2. Last(Append(closed, x)) = x
        BY <4>1, LastAppended
      <4> QED
        BY <2>4, <4>2
    <3> HIDE DEF x
    <3>2. /\ Len(x) <= Len(row[w]) /\ \A c \in 1 .. Len(x) - 1 : x[c] = row[w][c].text
          /\ IsPrefix(Last(x), row[w][Len(x)].text)
      BY <1>1, <2>4, PartIsPrefix
    <3> QED
      BY <2>4, <3>1, <3>2 DEF TornNow
  <2> QED
    BY <2>2, <2>3, <2>4
<1> QED
  BY <1>2, <1>3

\* A write that stops half-way leaves nothing, or one row of the first of its
\* values, the last of them cut short; no other row changes.
THEOREM TornWriteLeavesPrefixCorrect == Spec => TornWriteLeavesPrefix
<1>1. IInv /\ [Next]_vars => [\A w \in Writers : write_fails(w) /\ Plain(w) => TornNow(w)]_vars
  BY TornLeavesPrefix DEF IInv
<1> QED
  BY <1>1, Invariant, PTL DEF Spec, TornWriteLeavesPrefix, TornNow

\* A row that is read back whole is the row that was given.
LEMMA WholeIsGiven ==
  ASSUME NEW r \in Seq(SqlValue), NEW x, PartOfRow(x, r, 1), WholeRow(x, r, 1)
  PROVE  x = [c \in DOMAIN r |-> r[c].text] /\ Len(x) = Len(r)
<1> DEFINE R(j) == r[j].text
<1>1. /\ x \in Seq(Seq(Bytes)) /\ Len(x) + 1 = Len(r) + 1
      /\ \A j \in 1 .. Len(x) : x[j] = R((1 + j) - 1)
  BY DEF PartOfRow, WholeRow
<1>2. PICK n \in Nat : n = Len(r) /\ DOMAIN r = 1 .. n
  OBVIOUS
<1> HIDE DEF R
<1>3. Len(x) = n
  <2>1. Len(x) \in Nat /\ Len(x) + 1 = n + 1
    BY <1>1, <1>2
  <2> QED
    BY <2>1
<1>4. \A j \in 1 .. n : x[j] = R(j)
  <2> TAKE j \in 1 .. n
  <2>1. (1 + j) - 1 = j
    OBVIOUS
  <2> QED
    BY <1>1, <1>3, <2>1
<1>5. x = [c \in 1 .. n |-> R(c)]
  <2>1. DOMAIN x = 1 .. n /\ x = [j \in DOMAIN x |-> x[j]]
    BY <1>1, <1>3
  <2> QED
    BY <1>4, <2>1
<1> QED
  BY <1>2, <1>3, <1>5 DEF R

LEMMA LastRowRead ==
  ASSUME NEW f \in Seq(Bytes), NEW g \in Seq(Bytes), f # <<>>, g # <<>>,
         column_count(g) = column_count(f), read_table(f).ok,
         NEW x, Len(x) = column_count(f), Rows(g) = Append(Rows(f), x)
  PROVE  /\ read_table(g) = Table(Append(read_table(f).rows, x))
         /\ read_table_row(g, data_row_count(g) - 1) = Table(<<x>>)
<1> DEFINE R == Rows(f)
           v == Rows(g)
           A == {R[k] : k \in DOMAIN R} \cup {x}
           n == Len(R)
<1>1. read_table(f) = Table(R) /\ \A k \in DOMAIN R : WellFormed(f, R[k])
  <2>1. read_table(f) = IF f # <<>> /\ \A k \in DOMAIN R : WellFormed(f, R[k]) THEN Table(R) ELSE Failed
    BY DEF read_table
  <2>2. ~Failed.ok
    BY DEF Failed
  <2> QED
    BY <2>1, <2>2
<1>2. DOMAIN R = 1 .. n
  BY RowsAre
<1>3. /\ v \in Seq(A) /\ Len(v) = n + 1 /\ n \in Nat
      /\ \A k \in 1 .. n + 1 : v[k] = IF k = n + 1 THEN x ELSE R[k]
  <2> DEFINE y == Append(Rows(f), x)
  <2>1. /\ Len(y) = Len(Rows(f)) + 1 /\ Len(Rows(f)) \in Nat
        /\ \A k \in 1 .. Len(Rows(f)) + 1 : y[k] = IF k = Len(Rows(f)) + 1 THEN x ELSE Rows(f)[k]
        /\ y \in Seq({Rows(f)[k] : k \in DOMAIN Rows(f)} \cup {x})
    BY LastAppended
  <2>2. v = y
    OBVIOUS
  <2> HIDE DEF y, v
  <2> QED
    BY <2>1, <2>2
<1>4. data_row_count(g) = n + 1
  <2>1. data_row_count(g) = Len(Rows(g))
    BY RowsAre
  <2> QED
    BY <1>3, <2>1
<1>5. \A k : WellFormed(g, k) <=> WellFormed(f, k)
  BY DEF WellFormed
<1>6. WellFormed(f, x)
  BY DEF WellFormed
<1>7. ASSUME NEW k \in 1 .. n + 1
      PROVE  WellFormed(g, v[k])
  <2> HIDE DEF R, v, A, n
  <2>1. CASE k = n + 1
    BY <1>3, <1>5, <1>6, <2>1
  <2>2. CASE k # n + 1
    <3>1. k \in 1 .. n
      BY <1>3, <2>2
    <3>2. v[k] = R[k]
      BY <1>3, <2>2
    <3> QED
      BY <1>1, <1>2, <1>5, <3>1, <3>2
  <2> QED
    BY <2>1, <2>2
<1>8. DOMAIN v = 1 .. n + 1
  BY <1>3
<1>9. read_table(g) = Table(v)
  BY <1>7, <1>8 DEF read_table
<1>10. Table(R).rows = R
  BY DEF Table
<1>11. v = Append(R, x)
  OBVIOUS
<1>12. read_table(g) = Table(Append(read_table(f).rows, x))
  BY <1>1, <1>9, <1>10, <1>11
<1> HIDE DEF R, v, A, n
<1>13. PICK b \in Nat \ {0} : b = n + 1
  BY <1>3
<1>14. (data_row_count(g) - 1) + 1 = b /\ Len(v) = b
  BY <1>3, <1>4, <1>13
<1>15. Min({b, b}) = b
  <2>1. {b, b} \in SUBSET Nat /\ {b, b} # {}
    OBVIOUS
  <2>2. Min({b, b}) \in {b, b}
    BY <2>1, MinIsLeast
  <2> QED
    BY <2>2
<1> DEFINE s == SubSeq(v, 1, b)
<1>16. /\ s \in Seq(A) /\ Len(s) = (IF 1 <= b THEN (b - 1) + 1 ELSE 0)
       /\ \A j \in 1 .. (b - 1) + 1 : s[j] = v[(1 + j) - 1]
  <2>1. b <= Len(v)
    BY <1>14
  <2> QED
    BY <1>3, <2>1, CutOf
<1> HIDE DEF s
<1>17. Len(s) = b /\ DOMAIN s = 1 .. b
  BY <1>16
<1>18. \A k \in DOMAIN s : WellFormed(g, s[k])
  <2> TAKE k \in DOMAIN s
  <2>1. k \in 1 .. b /\ k \in 1 .. (b - 1) + 1 /\ (1 + k) - 1 = k
    BY <1>17
  <2>2. s[k] = v[k]
    BY <1>16, <2>1
  <2> QED
    BY <1>7, <1>13, <2>1, <2>2
<1> DEFINE m == data_row_count(g) - 1
<1>19. m + 1 = b
  BY <1>14
<1> HIDE DEF m
<1>20. read_table_row(g, m) = Table(SubSeq(v, b, b))
  <2>1. read_table_row(g, m) =
          IF g = <<>> \/ \E k \in DOMAIN SubSeq(v, 1, Min({b, b})) : ~WellFormed(g, SubSeq(v, 1, Min({b, b}))[k]) THEN Failed
          ELSE Table(SubSeq(v, b, Len(SubSeq(v, 1, Min({b, b})))))
    BY <1>14, <1>19 DEF read_table_row, v
  <2> QED
    BY <1>15, <1>17, <1>18, <2>1 DEF s
<1>21. SubSeq(v, b, b) = <<x>>
  <2> DEFINE z == SubSeq(v, b, b)
  <2>1. /\ z \in Seq(A) /\ Len(z) = (IF b <= b THEN (b - b) + 1 ELSE 0)
        /\ \A j \in 1 .. (b - b) + 1 : z[j] = v[(b + j) - 1]
    <3>1. b <= Len(v)
      BY <1>14
    <3> QED
      BY <1>3, <3>1, CutOf
  <2> HIDE DEF z
  <2>2. Len(z) = 1 /\ z[1] = v[b]
    <3>1. 1 \in 1 .. (b - b) + 1 /\ (b + 1) - 1 = b
      OBVIOUS
    <3> QED
      BY <2>1, <3>1
  <2>3. v[b] = x
    BY <1>3, <1>13
  <2>4. z = <<x>>
    BY <2>1, <2>2, <2>3
  <2> QED
    BY <2>4 DEF z
<1> QED
  BY <1>12, <1>20, <1>21 DEF m

RowIsLastNow(w) ==
  LET before == read_table(file \o <<"nl">>)
      given  == [c \in DOMAIN row[w] |-> row[w][c].text] IN
  before.ok =>
    /\ read_table_row(file', data_row_count(file') - 1) = Table(<<given>>)
    /\ read_table(file') = Table(Append(before.rows, given))

LEMMA AppendsLast ==
  ASSUME IInv, NEW w \in Writers, write(w), Plain(w)
  PROVE  RowIsLastNow(w)
<1> DEFINE n == <<"nl">>
           f == file \o n
           g == file'
           r == row[w]
           m == RowBytes(r)
           x == parse_csv_line(m)
           given == [c \in DOMAIN r |-> r[c].text]
<1>1. TypeOK /\ pc[w] = "write"
  BY WriteIs DEF IInv
<1>2. file \in Seq(Bytes) /\ file # <<>> /\ r \in Seq(SqlValue) /\ Len(r) = column_count(file)
  BY <1>1, AppendingRow
<1>3. n \in Seq(Bytes) /\ n[1] = "nl"
  BY ByteTypes, ShortSeqs
<1>4. m \in Seq(Bytes) /\ Extends(m, m)
  BY <1>2, OneLineRow DEF Plain, Extends
<1>5. /\ Rows(g) = Append(Rows(f), x) /\ WholeRow(x, r, 1) /\ PartOfRow(x, r, 1)
  <2>1. g = Ended(w) \o m
    BY <1>1, WriteIs
  <2> QED
    BY <1>1, <1>4, <2>1, RowWritten
<1>6. x = given /\ Len(x) = Len(r)
  <2> HIDE DEF x, r
  <2>1. x = [c \in DOMAIN r |-> r[c].text] /\ Len(x) = Len(r)
    BY <1>2, <1>5, WholeIsGiven
  <2> QED
    BY <2>1
<1>7. f \in Seq(Bytes) /\ f # <<>> /\ column_count(f) = column_count(file)
  <2> HIDE DEF n
  <2> QED
    BY <1>2, <1>3, HeaderKept
<1>8. g \in Seq(Bytes) /\ g # <<>> /\ column_count(g) = column_count(file)
  <2>1. IInv' /\ column_count(g) = column_count(file)
    BY WriteKeeps
  <2>2. g \in Seq(Bytes)
    BY <2>1 DEF IInv, TypeOK
  <2>3. r # <<>>
    BY <1>1, AppendingRow
  <2>4. column_count(file) # 0
    BY <1>2, <2>3
  <2>5. g # <<>>
    BY <2>1, <2>4 DEF column_count
  <2> QED
    BY <2>1, <2>2, <2>5
<1> HIDE DEF f, g, x, given, m, r
<1>9. ASSUME read_table(f).ok
      PROVE  /\ read_table(g) = Table(Append(read_table(f).rows, given))
             /\ read_table_row(g, data_row_count(g) - 1) = Table(<<given>>)
  <2>1. Len(x) = column_count(f) /\ column_count(g) = column_count(f)
    BY <1>2, <1>6, <1>7, <1>8
  <2>2. /\ read_table(g) = Table(Append(read_table(f).rows, x))
        /\ read_table_row(g, data_row_count(g) - 1) = Table(<<x>>)
    BY <1>5, <1>7, <1>8, <1>9, <2>1, LastRowRead
  <2> QED
    BY <1>6, <2>2
<1> QED
  BY <1>9 DEF RowIsLastNow, f, g, given, r

\* An appended row is found under the number the executor gives it, with the
\* very texts of the INSERT, and the table reads as before with it at its end.
THEOREM AppendedRowIsLastCorrect == Spec => AppendedRowIsLast
<1>1. IInv /\ [Next]_vars => [\A w \in Writers : write(w) /\ Plain(w) => RowIsLastNow(w)]_vars
  BY AppendsLast
<1> QED
  BY <1>1, Invariant, PTL DEF Spec, AppendedRowIsLast, RowIsLastNow
=============================================================================
