-------------------------- MODULE SqlEngine_proofs --------------------------
(***************************************************************************)
(* Proofs about SqlEngine, for every value of its constants: what its      *)
(* states and steps are like, and then that on every table whose first     *)
(* column is id it does only what the abstract table PkTable allows.       *)
(***************************************************************************)
EXTENDS SqlEngine, TLAPS, FiniteSetTheorems, SequenceTheorems, WellFoundedInduction

-----------------------------------------------------------------------------
(* Lemmas about the readers and the loader.                                *)

\* A set of integers that is bounded above and not empty has a largest
\* element, which is what Max returns.
LEMMA MaxOfBounded ==
  ASSUME NEW S \in SUBSET Int, NEW b \in Int, S # {}, \A x \in S : x <= b
  PROVE  Max(S) \in S /\ \A x \in S : x <= Max(S)
<1> DEFINE T == {b - x : x \in S}
           R == {ss \in Nat \X Nat : ss[1] < ss[2]}
<1>0. IsWellFoundedOn(R, Nat)
  BY NatLessThanWellFounded DEF OpToRel
<1>1. T \subseteq Nat /\ T # {}
  <2>1. \A x \in S : b - x \in Nat
    OBVIOUS
  <2>2. T \subseteq Nat
    BY <2>1
  <2>3. T # {}
    OBVIOUS
  <2> QED
    BY <2>2, <2>3
<1>2. PICK m \in T : \A y \in T : ~(<<y, m>> \in R)
  <2> HIDE DEF T, R
  <2> QED BY <1>0, <1>1, WFMin
<1>3. ASSUME NEW y \in T
      PROVE  m <= y
  <2> HIDE DEF T
  <2>1. y \in Nat /\ m \in Nat /\ <<y, m>> \in Nat \X Nat
    BY <1>1
  <2>2. ~(<<y, m>> \in R)
    BY <1>2
  <2> QED BY <2>1, <2>2
<1>4. PICK x \in S : m = b - x
  OBVIOUS
<1>5. \A y \in S : y <= x
  BY <1>3, <1>4
<1>6. \E z \in S : \A y \in S : z >= y
  BY <1>5
<1> QED
  BY <1>6 DEF Max

\* The lines with something on them are finitely many lines of the file.
LEMMA NonBlankFinite ==
  ASSUME NEW f \in Seq(Line)
  PROVE  /\ NonBlank(f) \subseteq 1 .. Len(f)
         /\ IsFiniteSet(NonBlank(f))
         /\ data_row_count(f) \in Nat
         /\ \A i : IsFiniteSet({j \in NonBlank(f) : j < i}) /\ RowNo(f, i) \in Nat
<1>1. NonBlank(f) \subseteq 1 .. Len(f)
  BY DEF NonBlank
<1>2. Len(f) \in Nat
  BY LenProperties
<1>3. IsFiniteSet(NonBlank(f))
  <2>1. IsFiniteSet(1 .. Len(f))
    BY <1>2, FS_Interval
  <2> QED BY <1>1, <2>1, FS_Subset
<1>4. ASSUME NEW i
      PROVE  IsFiniteSet({j \in NonBlank(f) : j < i})
  BY <1>3, FS_Subset
<1> QED
  BY <1>1, <1>3, <1>4, FS_CardinalityType DEF data_row_count, RowNo

\* Row numbers grow with line numbers, so no two rows share one.
LEMMA RowNoGrows ==
  ASSUME NEW f \in Seq(Line), NEW i \in NonBlank(f), NEW j \in NonBlank(f), i < j
  PROVE  RowNo(f, i) < RowNo(f, j)
<1> DEFINE I == {k \in NonBlank(f) : k < i}
           J == {k \in NonBlank(f) : k < j}
<1>1. i \in Int /\ j \in Int /\ NonBlank(f) \subseteq Int
  BY NonBlankFinite DEF NonBlank
<1>2. I \subseteq J /\ i \in J /\ i \notin I
  BY <1>1
<1>3. IsFiniteSet(J) /\ IsFiniteSet(I)
  BY NonBlankFinite
<1>4. Cardinality(I) <= Cardinality(J) /\ Cardinality(I) # Cardinality(J)
  BY <1>2, <1>3, FS_Subset
<1> QED
  BY <1>3, <1>4, FS_CardinalityType DEF RowNo

LEMMA RowNoInjective ==
  ASSUME NEW f \in Seq(Line), NEW i \in NonBlank(f), NEW j \in NonBlank(f),
         RowNo(f, i) = RowNo(f, j)
  PROVE  i = j
<1>1. i \in Int /\ j \in Int
  BY DEF NonBlank
<1>2. RowNo(f, i) \in Nat
  BY NonBlankFinite
<1> QED
  BY <1>1, <1>2, RowNoGrows

\* A line added at the end moves no row, and is the last row if it is one.
LEMMA AppendLine ==
  ASSUME NEW f \in Seq(Line), NEW l \in Line
  PROVE  LET g == f \o <<l>> IN
         /\ g \in Seq(Line)
         /\ Len(g) = Len(f) + 1 /\ g[Len(g)] = l
         /\ \A i \in 1 .. Len(f) : g[i] = f[i]
         /\ NonBlank(g) = NonBlank(f) \cup (IF l.cells = 0 THEN {} ELSE {Len(g)})
         /\ \A i \in 1 .. Len(g) : RowNo(g, i) = RowNo(f, i)
         /\ RowNo(g, Len(g)) = data_row_count(f)
         /\ data_row_count(g) = data_row_count(f) + (IF l.cells = 0 THEN 0 ELSE 1)
<1> DEFINE g == f \o <<l>>
<1>0. <<l>> \in Seq(Line) /\ Len(<<l>>) = 1 /\ <<l>>[1] = l
  OBVIOUS
<1>1. g \in Seq(Line) /\ Len(g) = Len(f) + 1 /\ Len(f) \in Nat
  BY <1>0, ConcatProperties, LenProperties
<1>2. \A i \in 1 .. Len(f) : g[i] = f[i]
  BY <1>0, <1>1, ConcatProperties
<1>3. g[Len(g)] = l
  BY <1>0, <1>1, ConcatProperties
<1> HIDE DEF g
<1>4. NonBlank(g) = NonBlank(f) \cup (IF l.cells = 0 THEN {} ELSE {Len(g)})
  BY <1>1, <1>2, <1>3 DEF NonBlank
<1>5. ASSUME NEW i \in 1 .. Len(g)
      PROVE  {j \in NonBlank(g) : j < i} = {j \in NonBlank(f) : j < i}
  BY <1>1, <1>4, <1>5
<1>6. \A i \in 1 .. Len(g) : RowNo(g, i) = RowNo(f, i)
  BY <1>5 DEF RowNo
<1>7. {j \in NonBlank(f) : j < Len(g)} = NonBlank(f)
  BY <1>1 DEF NonBlank
<1>8. RowNo(g, Len(g)) = data_row_count(f)
  BY <1>1, <1>6, <1>7 DEF RowNo, data_row_count
<1>9. data_row_count(g) = data_row_count(f) + (IF l.cells = 0 THEN 0 ELSE 1)
  <2>1. IsFiniteSet(NonBlank(f)) /\ Len(g) \notin NonBlank(f) /\ data_row_count(f) \in Nat
    BY <1>1, NonBlankFinite DEF NonBlank
  <2>2. CASE l.cells = 0
    BY <1>4, <2>1, <2>2 DEF data_row_count
  <2>3. CASE l.cells # 0
    BY <1>4, <2>1, <2>3, FS_AddElement DEF data_row_count
  <2> QED BY <2>2, <2>3
<1> QED
  BY <1>1, <1>2, <1>3, <1>4, <1>6, <1>8, <1>9 DEF g

-----------------------------------------------------------------------------
(* The inductive invariant.                                                *)

\* The lines of t whose rows the process has, or had when it loaded t, told
\* its index about: all rows, but for the one an INSERT is busy with.
Known(t) ==
  IF Settled(t) THEN NonBlank(file[t]) ELSE NonBlank(file[t]) \ {Len(file[t])}

\* The entry e of t agrees with the header of t, and its index with the rows of
\* the file f on the lines K, all of which are well-formed.
Fits(t, e, f, K) ==
  /\ e.id_pk = Header[t].idpk
  /\ Header[t].ncol > 0
  /\ \A i \in K : WellFormed(t, f, i)
  /\ e.id_pk =>
       /\ DOMAIN e.tree = {f[i].id : i \in K}
       /\ \A i \in K : e.tree[f[i].id] = RowNo(f, i)
       /\ MaxInt \notin DOMAIN e.tree => \A k \in DOMAIN e.tree : k < e.next_id

\* What is known of an entry of any table, and of an index where no row was broken
\* up.
FitsIfWhole(t, e, f, K) ==
  /\ e.id_pk = Header[t].idpk
  /\ Header[t].ncol > 0
  /\ Whole(f) => Fits(t, e, f, K)

EntInv(t) ==
  pc \in Running /\ ent[t].loaded => FitsIfWhole(t, ent[t], file[t], Known(t))

\* There is a line with this id and this value.
Stored(f, k, v) == \E i \in NonBlank(f) : f[i].id = k /\ f[i].val = v

\* The INSERT in progress took its id from the entry it will update; what it has
\* written is on file, in the last line if it is one line.
JobInv ==
  LET t == job.table f == file[job.table] IN
  /\ pc \in {"append", "count", "index"} =>
       /\ ent[t].loaded
       /\ job.indexed = ent[t].id_pk
       /\ job.indexed => job.id = ent[t].next_id
  /\ pc \in {"count", "index"} /\ job.indexed => Stored(file[t], job.id, job.val)
  /\ pc \in {"count", "index"} /\ Whole(f) =>
       /\ Len(f) \in NonBlank(f) => WellFormed(t, f, Len(f))
       /\ job.indexed => Len(f) \in NonBlank(f) /\ f[Len(f)].id = job.id
       /\ pc = "index" /\ job.indexed => job.row = RowNo(f, Len(f))

\* A process begins with nothing loaded.
DownInv == pc = "down" => \A t \in Tables : ent[t] = Unloaded

\* What was reported as stored is a row of its file.
AckInv == \A a \in acked : Header[a.table].idpk /\ Stored(file[a.table], a.id, a.val)

IInv == TypeOK /\ (\A t \in Tables : EntInv(t)) /\ JobInv /\ DownInv /\ AckInv

-----------------------------------------------------------------------------
(* Types.                                                                  *)

LEMMA IdType == 0 \in Id /\ 1 \in Id /\ MaxInt \in Id /\ Id \subseteq Int
BY EngineAssumption DEF Id, MinInt

LEMMA SuccType == ASSUME NEW n \in Id PROVE Succ(n) \in Id
BY EngineAssumption DEF Succ, Id, MinInt

LEMMA UnloadedType == IsEnt(Unloaded)
BY IdType DEF IsEnt, IsTree, Unloaded, EmptyTree

\* What LineOf returns, in a file where every id names one row.
LEMMA LineOfProps ==
  ASSUME NEW f \in Seq(Line), NEW k \in Ids(f)
  PROVE  LineOf(f, k) \in NonBlank(f) /\ f[LineOf(f, k)].id = k
BY DEF LineOf, Ids

\* The entry that loading a file makes: an index of its rows, and a next id
\* above all of them unless the largest integer is one of them.
LEMMA LoadedEntProps ==
  ASSUME NEW t \in Tables, NEW f \in Seq(Line), Loadable(t, f),
         NEW e, e = LoadedEnt(t, f)
  PROVE  IsEnt(e) /\ e.loaded = TRUE /\ Fits(t, e, f, NonBlank(f))
<1>0. Header[t].ncol > 0 /\ \A i \in NonBlank(f) : WellFormed(t, f, i)
  BY DEF Loadable, read_table_ok
<1>1. CASE Header[t].idpk = FALSE
  <2>1. e = [loaded |-> TRUE, id_pk |-> FALSE, next_id |-> 1, tree |-> EmptyTree]
    BY <1>1 DEF LoadedEnt, Unloaded
  <2>2. IsEnt(e)
    BY <2>1, IdType DEF IsEnt, IsTree, EmptyTree
  <2>3. e.loaded = TRUE /\ e.id_pk = FALSE
    BY <2>1
  <2> QED
    BY <1>0, <1>1, <2>2, <2>3 DEF Fits
<1>2. CASE Header[t].idpk = TRUE
  <2>1. PICK m : m = Max(Ids(f) \cup {0})
    OBVIOUS
  <2>2. PICK tree : tree = [k \in Ids(f) |-> RowNo(f, LineOf(f, k))]
    OBVIOUS
  <2>3. e = [loaded |-> TRUE, id_pk |-> TRUE, next_id |-> Succ(m), tree |-> tree]
    BY <1>2, <2>1, <2>2 DEF LoadedEnt
  <2>4. /\ \A i \in NonBlank(f) : f[i].id \in Id
        /\ \A i, j \in NonBlank(f) : f[i].id = f[j].id => i = j
    BY <1>2 DEF Loadable
  <2>5. Ids(f) \subseteq Id
    BY <2>4 DEF Ids
  <2>6. \A i \in NonBlank(f) : f[i].id \in Ids(f) /\ LineOf(f, f[i].id) = i
    BY <2>4, LineOfProps DEF Ids
  <2>7. IsTree(tree)
    BY <2>2, <2>5, NonBlankFinite DEF IsTree
  <2>8. m \in Ids(f) \cup {0} /\ \A k \in Ids(f) \cup {0} : k <= m
    <3> DEFINE S == Ids(f) \cup {0}
    <3>1. S \in SUBSET Int /\ S # {} /\ MaxInt \in Int /\ \A x \in S : x <= MaxInt
      BY <2>5, IdType DEF Id, MinInt
    <3> HIDE DEF S
    <3>2. Max(S) \in S /\ \A x \in S : x <= Max(S)
      BY <3>1, MaxOfBounded
    <3> QED
      BY <2>1, <3>2 DEF S
  <2>9. IsEnt(e)
    <3>1. Succ(m) \in Id
      BY <2>5, <2>8, IdType, SuccType
    <3> QED
      BY <2>3, <2>7, <3>1 DEF IsEnt
  <2>10. ASSUME MaxInt \notin Ids(f), NEW k \in Ids(f)
         PROVE  k < Succ(m)
    <3>1. m # MaxInt /\ m \in Int /\ k \in Int /\ k <= m
      BY <2>5, <2>8, <2>10, IdType, EngineAssumption
    <3>2. Succ(m) = m + 1
      BY <3>1 DEF Succ
    <3> QED
      BY <3>1, <3>2
  <2>11. \A i \in NonBlank(f) : tree[f[i].id] = RowNo(f, i)
    BY <2>2, <2>6
  <2>12. e.loaded = TRUE /\ e.id_pk = TRUE /\ e.next_id = Succ(m) /\ e.tree = tree
    BY <2>3
  <2>13. DOMAIN e.tree = Ids(f)
    BY <2>2, <2>12
  <2>14. \A i \in NonBlank(f) : e.tree[f[i].id] = RowNo(f, i)
    BY <2>11, <2>12
  <2>15. MaxInt \notin Ids(f) => \A k \in Ids(f) : k < e.next_id
    BY <2>10, <2>12
  <2> QED
    BY <1>0, <1>2, <2>9, <2>12, <2>13, <2>14, <2>15 DEF Fits, Ids
<1> QED
  BY <1>1, <1>2, EngineAssumption

\* What ensure_loaded returns, or leaves when it fails, is an entry.
LEMMA EnsureLoadedType ==
  ASSUME TypeOK, NEW t \in Tables
  PROVE  /\ CanLoad(t) => IsEnt(ensure_loaded(t))
         /\ IsEnt(EntAfterLoad(t))
<1>1. file[t] \in Seq(Line) /\ IsEnt(ent[t])
  BY DEF TypeOK
<1>2. CanLoad(t) => IsEnt(ensure_loaded(t))
  BY <1>1, LoadedEntProps DEF CanLoad, ensure_loaded
<1> QED
  BY <1>2, UnloadedType DEF EntAfterLoad

\* The one line, if any, that a row is if it is not broken up.
RowText(t, id, v) ==
  IF v = NullVal /\ Header[t].ncol = 1 /\ ~Header[t].idpk
  THEN <<>> ELSE <<[cells |-> Header[t].ncol, id |-> id, val |-> v]>>

\* What an INSERT writes is that line, or several of which the first has its id
\* and its text.
LEMMA RowTextIs ==
  ASSUME NEW t \in Tables, NEW id \in Id \cup {NoId}, NEW v \in Values \ Split, NEW x \in RowTexts(t, id, v)
  PROVE  x = RowText(t, id, v) /\ x \in Seq(Line)
<1> DEFINE l == [cells |-> Header[t].ncol, id |-> id, val |-> v]
<1>1. x = RowText(t, id, v)
  BY DEF RowTexts, RowText
<1>2. x = <<>> \/ x = <<l>>
  BY <1>1 DEF RowText
<1>3. l \in Line
  BY EngineAssumption DEF Line
<1>4. <<>> \in Seq(Line) /\ <<l>> \in Seq(Line)
  BY <1>3
<1> QED
  BY <1>1, <1>2, <1>4

BeginsWith(x, id, v) ==
  \E l \in Line, r \in Seq(Line) : x = <<l>> \o r /\ l.cells # 0 /\ l.id = id /\ l.val = v

SplitRow(id, v, c, r) == <<[cells |-> c, id |-> id, val |-> v]>> \o r

LEMMA SplitText ==
  ASSUME NEW t \in Tables, NEW id \in Id \cup {NoId}, NEW v \in Split, NEW x \in RowTexts(t, id, v)
  PROVE  x \in Seq(Line) /\ BeginsWith(x, id, v)
<1> DEFINE cs == (IF Header[t].idpk THEN 2 ELSE 1) .. Header[t].ncol
<1>1. x \in {SplitRow(id, v, c, r) : c \in cs, r \in Rests}
  BY SMTT(40) DEF RowTexts, SplitRow
<1>2. PICK c \in cs, r \in Rests : x = SplitRow(id, v, c, r)
  BY <1>1
<1>3. Header[t].ncol \in Nat /\ v \in Values /\ r \in Seq(Line)
  BY EngineAssumption
<1>4. c \in Nat /\ c # 0
  BY <1>3
<1> DEFINE l == [cells |-> c, id |-> id, val |-> v]
<1>5. l \in Line /\ l.cells # 0 /\ l.id = id /\ l.val = v
  BY <1>3, <1>4 DEF Line
<1>6. x = <<l>> \o r
  BY <1>2 DEF SplitRow
<1> HIDE DEF l
<1>7. x \in Seq(Line)
  BY <1>3, <1>5, <1>6, ConcatProperties
<1> QED
  BY <1>3, <1>5, <1>6, <1>7 DEF BeginsWith

\* A write that stops half-way leaves no line, one that is not blank, or what a
\* text that is broken up may leave when it is written.
LEMMA TornLine ==
  ASSUME NEW t \in Tables, NEW id \in Id \cup {NoId}, NEW v \in Values, NEW x \in TornText(t, id, v)
  PROVE  \/ x = <<>>
         \/ \E l \in Line : x = <<l>> /\ l.cells # 0 /\ l.val \notin Split
         \/ v \in Split /\ x \in RowTexts(t, id, v)
<1> DEFINE cuts == {<<1, y>> : y \in CutId(id)} \cup {<<c, id>> : c \in 2 .. Header[t].ncol}
<1>1. SUFFICES ASSUME NEW c \in cuts, NEW w \in RowVals(t) \ Split,
                      x = <<[cells |-> c[1], id |-> c[2], val |-> w]>>
               PROVE  \E l \in Line : x = <<l>> /\ l.cells # 0 /\ l.val \notin Split
  BY DEF TornText
<1>2. Header[t].ncol \in Nat /\ w \in Values
  BY EngineAssumption DEF RowVals
<1>3. c[1] \in Nat /\ c[1] # 0 /\ c[2] \in Id \cup {NoId}
  BY <1>2 DEF CutId
<1> HIDE DEF cuts
<1>4. [cells |-> c[1], id |-> c[2], val |-> w] \in Line
  BY <1>2, <1>3 DEF Line
<1> QED
  BY <1>1, <1>3, <1>4

\* What is appended to a file are lines.
LEMMA TextType ==
  ASSUME NEW t \in Tables, NEW id \in Id \cup {NoId}, NEW v \in Values
  PROVE  /\ RowTexts(t, id, v) \subseteq Seq(Line)
         /\ TornText(t, id, v) \subseteq Seq(Line)
<1>1. <<>> \in Seq(Line) /\ \A l \in Line : <<l>> \in Seq(Line)
  OBVIOUS
<1>2. RowTexts(t, id, v) \subseteq Seq(Line)
  BY RowTextIs, SplitText
<1>3. TornText(t, id, v) \subseteq Seq(Line)
  BY <1>1, <1>2, TornLine
<1> QED
  BY <1>2, <1>3

\* Lines added at the end leave the lines before them in place, and if a row of
\* the file, or of what is added, was broken up, a row of the longer file is.
LEMMA Longer ==
  ASSUME NEW f \in Seq(Line), NEW x \in Seq(Line)
  PROVE  /\ f \o x \in Seq(Line)
         /\ \A i \in NonBlank(f) : i \in NonBlank(f \o x) /\ (f \o x)[i] = f[i]
         /\ \A i \in 1 .. Len(x) : Len(f) + i \in 1 .. Len(f \o x) /\ (f \o x)[Len(f) + i] = x[i]
         /\ Whole(f \o x) <=> Whole(f) /\ Whole(x)
<1> DEFINE g == f \o x
<1>1. g \in Seq(Line) /\ Len(g) = Len(f) + Len(x) /\ Len(f) \in Nat /\ Len(x) \in Nat
      /\ \A i \in 1 .. Len(f) + Len(x) : g[i] = IF i <= Len(f) THEN f[i] ELSE x[i - Len(f)]
  BY ConcatProperties, LenProperties
<1>2. DOMAIN f = 1 .. Len(f) /\ DOMAIN x = 1 .. Len(x) /\ DOMAIN g = 1 .. Len(g)
  BY <1>1, LenProperties
<1> HIDE DEF g
<1>3. ASSUME NEW i \in 1 .. Len(x) PROVE Len(f) + i \in 1 .. Len(g) /\ g[Len(f) + i] = x[i]
  <2>1. Len(f) + i \in 1 .. Len(f) + Len(x) /\ ~(Len(f) + i <= Len(f)) /\ (Len(f) + i) - Len(f) = i
    BY <1>1
  <2>2. g[Len(f) + i] = x[(Len(f) + i) - Len(f)]
    BY <1>1, <2>1
  <2> QED
    BY <1>1, <2>1, <2>2
<1>4. \A i \in 1 .. Len(f) : i \in 1 .. Len(g) /\ g[i] = f[i]
  BY <1>1
<1>5. \A i \in NonBlank(f) : i \in NonBlank(g) /\ g[i] = f[i]
  BY <1>4 DEF NonBlank
<1>6. ASSUME NEW i \in 1 .. Len(g), i \notin 1 .. Len(f)
      PROVE  i - Len(f) \in 1 .. Len(x) /\ g[i] = x[i - Len(f)]
  BY <1>1, <1>6
<1>7. Whole(g) <=> Whole(f) /\ Whole(x)
  BY <1>2, <1>3, <1>4, <1>6 DEF Whole
<1> QED
  BY <1>1, <1>3, <1>5, <1>7 DEF g

LEMMA WholeLine == \A l : Whole(<<l>>) <=> l.val \notin Split
BY DEF Whole

\* What an INSERT writes of a text that is broken up shows in the file.
LEMMA SplitShows ==
  ASSUME NEW t \in Tables, NEW id \in Id \cup {NoId}, NEW v \in Split, NEW x \in RowTexts(t, id, v),
         NEW f \in Seq(Line)
  PROVE  /\ ~Whole(f \o x)
         /\ Stored(f \o x, id, v)
<1>1. PICK l \in Line, r \in Seq(Line) : x = <<l>> \o r /\ l.cells # 0 /\ l.id = id /\ l.val = v
  <2>1. BeginsWith(x, id, v)
    BY SplitText
  <2> QED
    BY <2>1 DEF BeginsWith
<1>2. x \in Seq(Line) /\ Len(x) >= 1 /\ Len(x) \in Nat /\ x[1] = l
  BY <1>1, ConcatProperties, LenProperties
<1>3. ~Whole(x)
  <2>1. <<l>> \in Seq(Line) /\ ~Whole(<<l>>)
    BY <1>1, WholeLine
  <2> QED
    BY <1>1, <2>1, Longer
<1>4. Len(f) + 1 \in 1 .. Len(f \o x) /\ (f \o x)[Len(f) + 1] = l
  BY <1>2, Longer
<1>5. Len(f) + 1 \in NonBlank(f \o x)
  BY <1>1, <1>4 DEF NonBlank
<1> QED
  BY <1>1, <1>2, <1>3, <1>4, <1>5, Longer DEF Stored

\* An assignment of entries to tables stays one when an entry is replaced.
LEMMA EntUpdate ==
  ASSUME TypeOK, NEW t \in Tables, NEW e, IsEnt(e)
  PROVE  LET u == [ent EXCEPT ![t] = e] IN
         /\ u = [s \in Tables |-> u[s]]
         /\ u[t] = e
         /\ \A s \in Tables : s # t => u[s] = ent[s]
         /\ \A s \in Tables : IsEnt(u[s])
<1>1. ent = [s \in Tables |-> ent[s]] /\ \A s \in Tables : IsEnt(ent[s])
  BY DEF TypeOK
<1>2. [ent EXCEPT ![t] = e] = [s \in Tables |-> IF s = t THEN e ELSE ent[s]]
  BY <1>1
<1> QED
  BY <1>1, <1>2

\* A statement that fails ends the run, with entries for all tables.
LEMMA FailType ==
  ASSUME TypeOK, NEW e, Fail(e), file' \in [Tables -> Seq(Line)], acked' = acked,
         e = [t \in Tables |-> e[t]], \A t \in Tables : IsEnt(e[t])
  PROVE  TypeOK'
BY DEF TypeOK, Fail, AfterFailure, Running

\* Entering an id that an index lacks gives an entry again, and so does losing
\* part of the ids.
LEMMA IndexedType ==
  ASSUME NEW e, IsEnt(e), NEW k \in Id, NEW n \in Nat
  PROVE  /\ IsEnt(Indexed(e, k, n))
         /\ \A S \in SUBSET DOMAIN TreeInsert(e.tree, k, n) :
              IsEnt([e EXCEPT !.tree = Restrict(TreeInsert(e.tree, k, n), S)])
<1>1. e \in [loaded : BOOLEAN, id_pk : BOOLEAN, next_id : Id, tree : {e.tree}]
      /\ IsTree(e.tree)
  BY DEF IsEnt
<1>2. IsTree(TreeInsert(e.tree, k, n))
  BY <1>1 DEF IsTree, TreeInsert
<1>3. ASSUME NEW T, IsTree(T), NEW m \in Id
      PROVE  IsEnt([e EXCEPT !.tree = T, !.next_id = m])
  BY <1>1, <1>3 DEF IsEnt
<1>4. e.next_id \in Id /\ Succ(k) \in Id
  BY <1>1, SuccType
<1>5. IsEnt(Indexed(e, k, n))
  <2> DEFINE T == TreeInsert(e.tree, k, n)
             m == IF k >= e.next_id THEN Succ(k) ELSE e.next_id
  <2>1. Indexed(e, k, n) = [e EXCEPT !.tree = T, !.next_id = m]
    BY DEF Indexed
  <2>2. m \in Id /\ IsTree(T)
    BY <1>2, <1>4
  <2> HIDE DEF T, m
  <2>3. IsEnt([e EXCEPT !.tree = T, !.next_id = m])
    BY <1>3, <2>2
  <2> QED
    BY <2>1, <2>3
<1>6. ASSUME NEW S \in SUBSET DOMAIN TreeInsert(e.tree, k, n)
      PROVE  IsEnt([e EXCEPT !.tree = Restrict(TreeInsert(e.tree, k, n), S)])
  <2>1. IsTree(Restrict(TreeInsert(e.tree, k, n), S))
    BY <1>2, <1>6 DEF IsTree, Restrict
  <2> QED
    BY <1>1, <2>1 DEF IsEnt
<1> QED
  BY <1>5, <1>6

LEMMA TypeInit == Init => TypeOK
<1> SUFFICES ASSUME Init PROVE TypeOK
  OBVIOUS
<1>1. file \in [Tables -> Seq(Line)]
  BY EngineAssumption DEF Init
<1>2. ent = [t \in Tables |-> ent[t]] /\ \A t \in Tables : IsEnt(ent[t])
  BY UnloadedType DEF Init
<1> QED
  BY <1>1, <1>2 DEF Init, TypeOK, Running

LEMMA TypeStep == TypeOK /\ [Next]_vars => TypeOK'
<1> SUFFICES ASSUME TypeOK, [Next]_vars PROVE TypeOK'
  OBVIOUS
<1>1. CASE UNCHANGED vars
  BY <1>1 DEF TypeOK, vars
<1>2. CASE Start
  BY <1>2 DEF Start, TypeOK, Running
<1>3. CASE EndScript
  BY <1>3 DEF EndScript, TypeOK, Running
<1>4. CASE Exit \/ Crash
  <2>1. Down
    BY <1>4 DEF Exit, Crash
  <2>2. ent' = [t \in Tables |-> ent'[t]] /\ \A t \in Tables : IsEnt(ent'[t])
    BY <2>1, UnloadedType DEF Down
  <2> QED
    BY <2>1, <2>2 DEF Down, TypeOK, Running
<1>5. ASSUME NEW t \in Tables, NEW n \in 0 .. Header[t].ncol + 1, NEW v \in RowVals(t),
             prepare_insert_values(t, n, v)
      PROVE  TypeOK'
  <2> DEFINE e == ensure_loaded(t)
  <2>1. IsEnt(e) /\ ent' = [ent EXCEPT ![t] = e]
    BY <1>5, EnsureLoadedType DEF prepare_insert_values, CanPrepare
  <2>2. ent' = [s \in Tables |-> ent'[s]] /\ \A s \in Tables : IsEnt(ent'[s])
    BY <2>1, EntUpdate
  <2>3. /\ e.id_pk \in BOOLEAN /\ e.next_id \in Id
        /\ Header[t].ncol \in Nat /\ n \in Nat /\ v \in Values
        /\ data_row_count(file[t]) \in Nat
    BY <2>1, EngineAssumption, NonBlankFinite DEF IsEnt, RowVals, TypeOK
  <2>4. job' \in Job
    BY <1>5, <2>3 DEF prepare_insert_values, Job
  <2> QED
    BY <1>5, <2>2, <2>4 DEF prepare_insert_values, TypeOK, Running
<1>6. ASSUME NEW t \in Tables, NEW n \in 0 .. Header[t].ncol + 1, PrepareFails(t, n)
      PROVE  TypeOK'
  <2>1. PICK e : e \in {ent[t], EntAfterLoad(t)} /\ Fail([ent EXCEPT ![t] = e])
    BY <1>6 DEF PrepareFails
  <2>2. IsEnt(e)
    BY <2>1, EnsureLoadedType DEF TypeOK
  <2>3. file' \in [Tables -> Seq(Line)] /\ acked' = acked
    BY <1>6 DEF PrepareFails, TypeOK
  <2> QED
    BY <2>1, <2>2, <2>3, EntUpdate, FailType
<1>7. CASE append_insert_row
  <2>1. job \in Job /\ file \in [Tables -> Seq(Line)]
    BY <1>7 DEF append_insert_row, TypeOK
  <2>2. job.table \in Tables /\ job.id \in Id \cup {NoId} /\ job.val \in Values
    BY <2>1 DEF Job
  <2>3. PICK x \in RowTexts(job.table, job.id, job.val) : file' = [file EXCEPT ![job.table] = @ \o x]
    BY <1>7 DEF append_insert_row
  <2>4. x \in Seq(Line) /\ file[job.table] \o x \in Seq(Line)
    BY <2>1, <2>2, TextType, ConcatProperties
  <2>5. file' \in [Tables -> Seq(Line)]
    BY <2>1, <2>3, <2>4
  <2> QED
    BY <1>7, <2>1, <2>5 DEF append_insert_row, TypeOK, Running
<1>8. CASE AppendRefused
  BY <1>8, FailType DEF AppendRefused, TypeOK
<1>9. CASE AppendFails
  <2>1. job \in Job /\ file \in [Tables -> Seq(Line)]
    BY <1>9 DEF AppendFails, TypeOK
  <2>2. job.table \in Tables /\ job.id \in Id \cup {NoId} /\ job.val \in Values
    BY <2>1 DEF Job
  <2>3. PICK x \in TornText(job.table, job.id, job.val) : file' = [file EXCEPT ![job.table] = @ \o x]
    BY <1>9 DEF AppendFails
  <2>4. x \in Seq(Line) /\ file[job.table] \o x \in Seq(Line)
    BY <2>1, <2>2, TextType, ConcatProperties
  <2>5. file' \in [Tables -> Seq(Line)]
    BY <2>1, <2>3, <2>4
  <2> QED
    BY <1>9, <2>5, FailType DEF AppendFails, TypeOK
<1>10. CASE count_rows
  <2>1. job \in Job /\ file[job.table] \in Seq(Line)
    BY <1>10 DEF count_rows, TypeOK, Job
  <2>2. data_row_count(file[job.table]) \in Nat \ {0}
    BY <1>10, <2>1, NonBlankFinite DEF count_rows
  <2>3. job' \in Job
    BY <1>10, <2>1, <2>2 DEF count_rows, Job
  <2> QED
    BY <1>10, <2>3 DEF count_rows, TypeOK, Running
<1>11. CASE CountFails
  BY <1>11, FailType DEF CountFails, TypeOK
<1>12. CASE on_append_success
  <2> DEFINE t == job.table
  <2>1. job \in Job /\ t \in Tables /\ IsEnt(ent[t]) /\ job.row \in Nat /\ job.val \in Values
    BY <1>12 DEF on_append_success, TypeOK, Job
  <2>2. CASE job.indexed = FALSE
    BY <1>12, <2>2 DEF on_append_success, TypeOK, Running
  <2>3. CASE job.indexed = TRUE
    <3>1. job.id \in Id
      BY <2>1, <2>3 DEF Job
    <3>2. IsEnt(Indexed(ent[t], job.id, job.row))
      BY <2>1, <3>1, IndexedType
    <3>3. ent' = [s \in Tables |-> ent'[s]] /\ \A s \in Tables : IsEnt(ent'[s])
      BY <1>12, <2>1, <2>3, <3>2, EntUpdate DEF on_append_success
    <3>4. acked' \subseteq [table : Tables, id : Id, val : Values]
      BY <1>12, <2>1, <2>3, <3>1 DEF on_append_success, TypeOK
    <3> QED
      BY <1>12, <3>3, <3>4 DEF on_append_success, TypeOK, Running
  <2> QED
    BY <2>1, <2>2, <2>3 DEF Job
<1>13. CASE IndexFails
  <2> DEFINE t == job.table
             grown == TreeInsert(ent[t].tree, job.id, job.row)
  <2>1. job \in Job /\ t \in Tables /\ IsEnt(ent[t]) /\ job.row \in Nat /\ job.id \in Id
    BY <1>13 DEF IndexFails, TypeOK, Job
  <2>2. file' \in [Tables -> Seq(Line)] /\ acked' = acked
    BY <1>13 DEF IndexFails, TypeOK
  <2>3. CASE Fail(ent)
    BY <2>2, <2>3, FailType DEF TypeOK
  <2>4. ASSUME NEW S \in SUBSET DOMAIN grown, Fail([ent EXCEPT ![t].tree = Restrict(grown, S)])
        PROVE  TypeOK'
    <3>1. [ent EXCEPT ![t].tree = Restrict(grown, S)]
            = [ent EXCEPT ![t] = [ent[t] EXCEPT !.tree = Restrict(grown, S)]]
      OBVIOUS
    <3>2. IsEnt([ent[t] EXCEPT !.tree = Restrict(grown, S)])
      BY <2>1, IndexedType
    <3> DEFINE u == [ent EXCEPT ![t] = [ent[t] EXCEPT !.tree = Restrict(grown, S)]]
    <3>3. u = [s \in Tables |-> u[s]] /\ \A s \in Tables : IsEnt(u[s])
      BY <2>1, <3>2, EntUpdate
    <3>4. Fail(u)
      BY <2>4, <3>1
    <3> HIDE DEF u
    <3> QED
      BY <2>2, <3>3, <3>4, FailType
  <2> QED
    BY <1>13, <2>3, <2>4 DEF IndexFails
<1>14. ASSUME NEW t \in Tables, NEW n \in Literal, SelectWhere(t, n)
       PROVE  TypeOK'
  <2>1. IsEnt(ensure_loaded(t)) /\ ent' = [ent EXCEPT ![t] = ensure_loaded(t)]
    BY <1>14, EnsureLoadedType DEF SelectWhere
  <2>2. ent' = [s \in Tables |-> ent'[s]] /\ \A s \in Tables : IsEnt(ent'[s])
    BY <2>1, EntUpdate
  <2> QED
    BY <1>14, <2>2 DEF SelectWhere, TypeOK
<1>15. ASSUME NEW t \in Tables, SelectScan(t)
       PROVE  TypeOK'
  BY <1>15 DEF SelectScan, TypeOK, vars
<1>16. ASSUME NEW t \in Tables, SelectFails(t)
       PROVE  TypeOK'
  <2>1. PICK e : e \in {ent[t], EntAfterLoad(t)} /\ Fail([ent EXCEPT ![t] = e])
    BY <1>16 DEF SelectFails
  <2>2. IsEnt(e)
    BY <2>1, EnsureLoadedType DEF TypeOK
  <2>3. file' \in [Tables -> Seq(Line)] /\ acked' = acked
    BY <1>16 DEF SelectFails, TypeOK
  <2> QED
    BY <2>1, <2>2, <2>3, EntUpdate, FailType
<1> QED
  BY <1>1, <1>2, <1>3, <1>4, <1>5, <1>6, <1>7, <1>8, <1>9, <1>10, <1>11, <1>12,
     <1>13, <1>14, <1>15, <1>16 DEF Next

\* Files stay sequences of lines, entries stay entries with a 64-bit next id,
\* and the INSERT in progress stays complete, whatever fails (week7_index.c,
\* executor_execute_insert).
THEOREM TypeCorrect == Spec => []TypeOK
BY TypeInit, TypeStep, PTL DEF Spec

-----------------------------------------------------------------------------
(* The invariant.                                                          *)

\* Between two statements a table that is loaded, or can be, has an entry that
\* fits its whole file, if no row of it was broken up.
LEMMA EnsureLoadedFits ==
  ASSUME TypeOK, NEW t \in Tables, EntInv(t), Settled(t), CanLoad(t),
         NEW e, e = ensure_loaded(t)
  PROVE  e.loaded = TRUE /\ FitsIfWhole(t, e, file[t], NonBlank(file[t]))
<1>1. file[t] \in Seq(Line) /\ IsEnt(ent[t])
  BY DEF TypeOK
<1>2. CASE ent[t].loaded
  <2>1. ent[t].loaded = TRUE
    BY <1>1, <1>2 DEF IsEnt
  <2> QED
    BY <1>2, <2>1 DEF EntInv, Settled, Known, ensure_loaded
<1>3. CASE ~ent[t].loaded
  <2>1. e = LoadedEnt(t, file[t]) /\ Loadable(t, file[t])
    BY <1>3 DEF CanLoad, ensure_loaded
  <2>2. e.loaded = TRUE /\ Fits(t, e, file[t], NonBlank(file[t]))
    BY <1>1, <2>1, LoadedEntProps
  <2> QED
    BY <2>2 DEF FitsIfWhole, Fits
<1> QED
  BY <1>2, <1>3

\* A line added at the end leaves the rows before it where the index has them.
LEMMA AppendFits ==
  ASSUME NEW t \in Tables, NEW e, NEW f \in Seq(Line), NEW l \in Line,
         Fits(t, e, f, NonBlank(f))
  PROVE  LET g == f \o <<l>> IN Fits(t, e, g, NonBlank(g) \ {Len(g)})
<1> DEFINE g == f \o <<l>>
<1>1. /\ g \in Seq(Line) /\ Len(g) = Len(f) + 1
      /\ \A i \in 1 .. Len(f) : g[i] = f[i]
      /\ NonBlank(g) = NonBlank(f) \cup (IF l.cells = 0 THEN {} ELSE {Len(g)})
      /\ \A i \in 1 .. Len(g) : RowNo(g, i) = RowNo(f, i)
  BY AppendLine
<1> HIDE DEF g
<1>2. Len(f) \in Nat /\ NonBlank(f) \subseteq 1 .. Len(f)
  BY LenProperties, NonBlankFinite
<1>3. NonBlank(g) \ {Len(g)} = NonBlank(f)
  BY <1>1, <1>2
<1>4. \A i \in NonBlank(f) : g[i] = f[i] /\ RowNo(g, i) = RowNo(f, i)
  BY <1>1, <1>2
<1>5. {g[i].id : i \in NonBlank(f)} = {f[i].id : i \in NonBlank(f)}
  BY <1>4
<1>6. Fits(t, e, g, NonBlank(f))
  BY <1>4, <1>5 DEF Fits, WellFormed
<1> QED
  BY <1>3, <1>6 DEF g

\* Entering the id of the last row of a file makes the index fit the file.
LEMMA IndexedFits ==
  ASSUME NEW t \in Tables, NEW e, IsEnt(e), NEW f \in Seq(Line), NEW id \in Id,
         e.id_pk = TRUE, Fits(t, e, f, NonBlank(f) \ {Len(f)}),
         Len(f) \in NonBlank(f), WellFormed(t, f, Len(f)), f[Len(f)].id = id,
         id = e.next_id, id \notin DOMAIN e.tree,
         NEW u, u = Indexed(e, id, RowNo(f, Len(f)))
  PROVE  u.loaded = e.loaded /\ Fits(t, u, f, NonBlank(f))
<1> DEFINE n == RowNo(f, Len(f))
           K == NonBlank(f) \ {Len(f)}
<1>1. DOMAIN e.tree = {f[i].id : i \in K} /\ \A i \in K : e.tree[f[i].id] = RowNo(f, i)
  BY DEF Fits
<1>2. e.next_id \in Id /\ e = [loaded |-> e.loaded, id_pk |-> e.id_pk, next_id |-> e.next_id, tree |-> e.tree]
      /\ DOMAIN e.tree \subseteq Int
  BY IdType DEF IsEnt, IsTree
<1>3. u.tree = TreeInsert(e.tree, id, n) /\ u.next_id = Succ(id)
      /\ u.id_pk = TRUE /\ u.loaded = e.loaded
  BY <1>2, IdType DEF Indexed
<1>4. DOMAIN u.tree = DOMAIN e.tree \cup {id}
  BY <1>3 DEF TreeInsert
<1>5. DOMAIN u.tree = {f[i].id : i \in NonBlank(f)}
  BY <1>1, <1>4
<1>6. \A i \in NonBlank(f) : u.tree[f[i].id] = RowNo(f, i)
  BY <1>1, <1>3 DEF TreeInsert
<1>7. ASSUME MaxInt \notin DOMAIN u.tree, NEW k \in DOMAIN u.tree
      PROVE  k < u.next_id
  <2>1. id # MaxInt /\ MaxInt \notin DOMAIN e.tree /\ id \in Int /\ k \in Int
    BY <1>2, <1>4, <1>7, IdType
  <2>2. u.next_id = id + 1
    BY <1>3, <2>1 DEF Succ
  <2>3. k <= id
    BY <1>4, <1>7, <2>1 DEF Fits
  <2> QED
    BY <2>1, <2>2, <2>3
<1>8. \A i \in NonBlank(f) : WellFormed(t, f, i)
  BY DEF Fits
<1> QED
  BY <1>3, <1>5, <1>6, <1>7, <1>8 DEF Fits

\* An exited process keeps nothing that anyone will look at.
LEMMA ExitInv == ASSUME TypeOK', AckInv', pc' = "exit" PROVE IInv'
BY DEF IInv, EntInv, JobInv, DownInv, Running

LEMMA InvInit == Init => IInv
BY TypeInit DEF Init, IInv, EntInv, JobInv, DownInv, AckInv, Running

\* While nothing of a table changes, its entry goes on fitting its file.
LEMMA EntInvKept ==
  ASSUME NEW s \in Tables, EntInv(s), pc \in Running, ent'[s] = ent[s], file'[s] = file[s],
         Settled(s) <=> Settled(s)'
  PROVE  EntInv(s)'
BY DEF EntInv, FitsIfWhole, Whole, Known, Fits, WellFormed, NonBlank, RowNo

\* Files only grow at their end.
LEMMA FilesGrow ==
  ASSUME TypeOK, [Next]_vars, NEW t \in Tables
  PROVE  file'[t] = file[t] \/ \E x \in Seq(Line) : file'[t] = file[t] \o x
<1>1. CASE append_insert_row \/ AppendFails
  <2>1. job \in Job /\ file \in [Tables -> Seq(Line)]
    BY <1>1 DEF append_insert_row, AppendFails, TypeOK
  <2>2. job.table \in Tables /\ job.id \in Id \cup {NoId} /\ job.val \in Values
    BY <2>1 DEF Job
  <2>3. \E x \in Seq(Line) : file' = [file EXCEPT ![job.table] = @ \o x]
    BY <1>1, <2>2, TextType DEF append_insert_row, AppendFails
  <2> QED
    BY <2>1, <2>3
<1>2. CASE file' = file
  BY <1>2
<1> QED
  BY <1>1, <1>2 DEF Next, Start, EndScript, Exit, Crash, Down, prepare_insert_values, PrepareFails,
     AppendRefused, count_rows, CountFails, on_append_success, IndexFails, SelectWhere,
     SelectScan, SelectFails, vars

\* So what is stored stays stored, and what is reported as stored is.
LEMMA AckStep == IInv /\ [Next]_vars => AckInv'
<1> SUFFICES ASSUME IInv, [Next]_vars, NEW a \in acked'
             PROVE  Header[a.table].idpk /\ Stored(file[a.table], a.id, a.val)'
  BY DEF AckInv
<1>0. TypeOK /\ JobInv /\ AckInv /\ \A s \in Tables : EntInv(s)
  BY DEF IInv
<1>1. CASE a \in acked
  <2> DEFINE f == file[a.table]
             g == file'[a.table]
  <2>1. a.table \in Tables /\ f \in Seq(Line)
    BY <1>0, <1>1 DEF TypeOK
  <2>2. PICK i \in NonBlank(f) : f[i].id = a.id /\ f[i].val = a.val
    BY <1>0, <1>1 DEF AckInv, Stored
  <2>3. i \in NonBlank(g) /\ g[i] = f[i]
    <3>1. CASE g = f
      BY <2>2, <3>1
    <3>2. ASSUME NEW x \in Seq(Line), g = f \o x
          PROVE  i \in NonBlank(g) /\ g[i] = f[i]
      <4>1. i \in NonBlank(f \o x) /\ (f \o x)[i] = f[i]
        BY <2>1, <2>2, Longer
      <4> QED
        BY <3>2, <4>1
    <3> QED
      BY <1>0, <2>1, <3>1, <3>2, FilesGrow
  <2>4. Stored(file[a.table], a.id, a.val)'
    BY <2>2, <2>3 DEF Stored
  <2> QED
    BY <1>0, <1>1, <2>4 DEF AckInv
<1>2. CASE a \notin acked
  <2>1. on_append_success
    BY <1>2 DEF Next, Start, EndScript, Exit, Crash, Down, prepare_insert_values, PrepareFails,
       append_insert_row, AppendFails, AppendRefused, count_rows, CountFails, IndexFails,
       SelectWhere, SelectScan, SelectFails, vars
  <2>2. /\ pc = "index" /\ job \in Job /\ file' = file
        /\ job.indexed /\ a = [table |-> job.table, id |-> job.id, val |-> job.val]
    BY <1>0, <1>2, <2>1 DEF on_append_success, TypeOK
  <2>3. Stored(file[job.table], job.id, job.val)
    BY <1>0, <2>2 DEF JobInv
  <2>4. Header[a.table].idpk
    <3>1. job.table \in Tables /\ ent[job.table].loaded /\ ent[job.table].id_pk
      BY <1>0, <2>2 DEF JobInv, Job
    <3> QED
      BY <1>0, <2>2, <3>1 DEF EntInv, FitsIfWhole, Running
  <2> QED
    BY <2>2, <2>3, <2>4 DEF Stored
<1> QED
  BY <1>1, <1>2

\* A table between two statements, with an entry that fits its file.
LEMMA EntInvSettled ==
  ASSUME NEW s \in Tables, Settled(s)', FitsIfWhole(s, ent'[s], file'[s], NonBlank(file'[s]))
  PROVE  EntInv(s)'
BY DEF EntInv, Known

\* Every step keeps the invariant.
LEMMA InvStep == IInv /\ [Next]_vars => IInv'
<1> SUFFICES ASSUME IInv, [Next]_vars PROVE IInv'
  OBVIOUS
<1> USE DEF Running
<1>0. TypeOK /\ TypeOK' /\ AckInv' /\ JobInv /\ DownInv /\ \A s \in Tables : EntInv(s)
  BY TypeStep, AckStep DEF IInv
<1>1. CASE UNCHANGED vars
  <2>1. JobInv' /\ DownInv'
    BY <1>0, <1>1 DEF vars, JobInv, DownInv, Stored, Whole, WellFormed, NonBlank, RowNo
  <2>2. ASSUME NEW s \in Tables PROVE EntInv(s)'
    BY <1>0, <1>1 DEF vars, EntInv, FitsIfWhole, Whole, Known, Settled, Fits, WellFormed, NonBlank, RowNo
  <2> QED
    BY <1>0, <2>1, <2>2 DEF IInv
<1>2. CASE Start
  BY <1>0, <1>2 DEF Start, IInv, EntInv, JobInv, DownInv, Unloaded
<1>3. CASE Exit \/ Crash
  BY <1>0, <1>3 DEF Exit, Crash, Down, IInv, EntInv, JobInv, DownInv
<1>4. CASE pc' = "exit"
  BY <1>0, <1>4, ExitInv
<1>5. ASSUME NEW t \in Tables, NEW n \in 0 .. Header[t].ncol + 1, NEW v \in RowVals(t),
             prepare_insert_values(t, n, v)
      PROVE  IInv'
  <2> DEFINE e == ensure_loaded(t)
  <2>1. /\ pc = "ready" /\ pc' = "append" /\ file' = file
        /\ ent' = [ent EXCEPT ![t] = e] /\ CanLoad(t)
    BY <1>5 DEF prepare_insert_values, CanPrepare
  <2>2. e.loaded = TRUE /\ FitsIfWhole(t, e, file[t], NonBlank(file[t]))
    BY <1>0, <2>1, EnsureLoadedFits DEF Settled
  <2>3. ent'[t] = e /\ \A s \in Tables : s # t => ent'[s] = ent[s]
    BY <1>0, <2>1, EnsureLoadedType, EntUpdate
  <2>4. ASSUME NEW s \in Tables PROVE EntInv(s)'
    <3>1. CASE s = t
      BY <2>1, <2>2, <2>3, <3>1, EntInvSettled DEF Settled
    <3>2. CASE s # t
      BY <1>0, <2>1, <2>3, <3>2, EntInvKept DEF Settled
    <3> QED
      BY <3>1, <3>2
  <2>5. JobInv'
    BY <1>5, <2>1, <2>2, <2>3 DEF prepare_insert_values, JobInv
  <2> QED
    BY <1>0, <2>1, <2>4, <2>5 DEF IInv, DownInv
<1>6. CASE append_insert_row
  <2> DEFINE t == job.table
             f == file[t]
             e == ent[t]
  <2>1. /\ pc = "append" /\ pc' = "count" /\ ent' = ent /\ job' = job /\ job \in Job
        /\ t \in Tables /\ f \in Seq(Line) /\ file \in [Tables -> Seq(Line)]
        /\ job.id \in Id \cup {NoId} /\ job.val \in Values
    BY <1>0, <1>6 DEF append_insert_row, TypeOK, Job
  <2>2. e.loaded /\ job.indexed = e.id_pk /\ (job.indexed => job.id = e.next_id)
    BY <1>0, <2>1 DEF JobInv
  <2>3. FitsIfWhole(t, e, f, NonBlank(f))
    BY <1>0, <2>1, <2>2 DEF EntInv, Known, Settled
  <2>4. PICK x \in RowTexts(t, job.id, job.val) : file' = [file EXCEPT ![t] = f \o x]
    BY <1>6 DEF append_insert_row
  <2> DEFINE g == f \o x
  <2>5. x \in Seq(Line) /\ file'[t] = g /\ \A s \in Tables : s # t => file'[s] = file[s]
    BY <2>1, <2>4, TextType
  <2>6. ASSUME Whole(g)
        PROVE  Fits(t, e, f, NonBlank(f)) /\ x = RowText(t, job.id, job.val)
    <3>1. Whole(f) /\ job.val \notin Split
      BY <2>1, <2>4, <2>5, <2>6, Longer, SplitShows
    <3>2. x = RowText(t, job.id, job.val)
      BY <2>1, <2>4, <3>1, RowTextIs
    <3> QED
      BY <2>3, <3>1, <3>2 DEF FitsIfWhole
  <2>7. ASSUME Whole(g)
        PROVE  /\ Fits(t, e, g, NonBlank(g) \ {Len(g)})
               /\ Len(g) \in NonBlank(g) => WellFormed(t, g, Len(g))
               /\ job.indexed => Len(g) \in NonBlank(g) /\ g[Len(g)].id = job.id
    <3>1. CASE x = <<>>
      <4>1. g = f
        BY <2>1, <3>1, ConcatEmptySeq
      <4>2. ~Header[t].idpk
        BY <2>6, <2>7, <3>1 DEF RowText
      <4>3. e.id_pk = FALSE /\ job.indexed = FALSE
        BY <2>1, <2>2, <2>6, <2>7, <4>2 DEF Fits, Job
      <4> QED
        BY <2>6, <2>7, <4>1, <4>3 DEF Fits
    <3>2. CASE x # <<>>
      <4> DEFINE l == [cells |-> Header[t].ncol, id |-> job.id, val |-> job.val]
      <4>1. x = <<l>>
        BY <2>6, <2>7, <3>2 DEF RowText
      <4>2. l \in Line /\ l.cells = Header[t].ncol /\ l.cells # 0
            /\ l.id = job.id
        <5>1. Header[t].ncol \in Nat /\ Header[t].ncol > 0
          BY <2>1, <2>6, <2>7, EngineAssumption DEF Fits
        <5>2. job.id \in Id \cup {NoId} /\ job.val \in Values
          BY <2>1 DEF Job
        <5> QED
          BY <5>1, <5>2 DEF Line
      <4> HIDE DEF l
      <4>3. Len(g) \in NonBlank(g) /\ g[Len(g)] = l
        BY <2>1, <4>1, <4>2, AppendLine
      <4>4. Fits(t, e, g, NonBlank(g) \ {Len(g)})
        BY <2>1, <2>6, <2>7, <4>1, <4>2, AppendFits
      <4> QED
        BY <4>2, <4>3, <4>4 DEF WellFormed
    <3> QED
      BY <3>1, <3>2
  <2>8. ASSUME job.indexed
        PROVE  Stored(g, job.id, job.val)
    <3>1. CASE job.val \in Split
      BY <2>1, <2>4, <3>1, SplitShows
    <3>2. CASE job.val \notin Split
      <4> DEFINE l == [cells |-> Header[t].ncol, id |-> job.id, val |-> job.val]
      <4>1. Header[t].idpk /\ Header[t].ncol \in Nat /\ Header[t].ncol # 0
        BY <2>1, <2>2, <2>3, <2>8, EngineAssumption DEF FitsIfWhole
      <4>2. x = <<l>>
        <5>1. x = RowText(t, job.id, job.val)
          BY <2>1, <2>4, <3>2, RowTextIs
        <5> QED
          BY <4>1, <5>1 DEF RowText
      <4>3. l \in Line /\ l.cells # 0 /\ l.id = job.id /\ l.val = job.val
        BY <2>1, <4>1 DEF Line
      <4> HIDE DEF l
      <4>4. Len(g) \in NonBlank(g) /\ g[Len(g)] = l
        BY <2>1, <4>2, <4>3, AppendLine
      <4> QED
        BY <4>3, <4>4 DEF Stored
    <3> QED
      BY <3>1, <3>2
  <2> HIDE DEF g
  <2>9. ASSUME NEW s \in Tables PROVE EntInv(s)'
    <3>1. CASE s = t
      <4>1. Known(s)' = NonBlank(g) \ {Len(g)}
        BY <2>1, <2>5, <3>1 DEF Known, Settled, NonBlank
      <4>2. FitsIfWhole(t, e, file'[t], Known(s)') /\ ent'[s] = e
        BY <2>1, <2>3, <2>5, <2>7, <3>1, <4>1 DEF FitsIfWhole
      <4> QED
        BY <3>1, <4>2 DEF EntInv, FitsIfWhole, Fits, WellFormed, NonBlank, RowNo, Whole
    <3>2. CASE s # t
      BY <1>0, <2>1, <2>5, <3>2, EntInvKept DEF Settled
    <3> QED
      BY <3>1, <3>2
  <2>10. JobInv'
    BY <2>1, <2>2, <2>5, <2>7, <2>8 DEF JobInv, WellFormed, NonBlank, Stored, Whole
  <2> QED
    BY <1>0, <2>1, <2>9, <2>10 DEF IInv, DownInv
<1>7. CASE count_rows
  <2>1. /\ pc = "count" /\ pc' = "index" /\ UNCHANGED <<file, ent>> /\ job \in Job
        /\ job' = [job EXCEPT !.row = data_row_count(file[job.table]) - 1]
        /\ file[job.table] \in Seq(Line)
    BY <1>0, <1>7 DEF count_rows, TypeOK, Job
  <2>2. /\ job'.table = job.table /\ job'.indexed = job.indexed
        /\ job'.id = job.id /\ job'.val = job.val
        /\ job'.row = data_row_count(file[job.table]) - 1
    BY <2>1 DEF Job
  <2>3. ASSUME NEW s \in Tables PROVE EntInv(s)'
    BY <1>0, <2>1, <2>2, EntInvKept DEF Settled
  <2>4. ASSUME NEW f \in Seq(Line), Len(f) \in NonBlank(f)
        PROVE  RowNo(f, Len(f)) = data_row_count(f) - 1
    <3>1. {j \in NonBlank(f) : j < Len(f)} = NonBlank(f) \ {Len(f)}
      BY <2>4, LenProperties, NonBlankFinite
    <3> QED
      BY <2>4, <3>1, NonBlankFinite, FS_RemoveElement, FS_CardinalityType DEF RowNo, data_row_count
  <2>5. JobInv'
    <3>1. job.indexed /\ Whole(file[job.table]) =>
            job'.row = RowNo(file[job.table], Len(file[job.table]))
      BY <1>0, <2>1, <2>2, <2>4 DEF JobInv
    <3> QED
      BY <1>0, <2>1, <2>2, <3>1 DEF JobInv, WellFormed, NonBlank, RowNo, Stored, Whole
  <2> QED
    BY <1>0, <2>1, <2>3, <2>5 DEF IInv, DownInv
<1>8. CASE on_append_success
  <2> DEFINE t == job.table
             f == file[t]
  <2>1. /\ pc = "index" /\ pc' = "ready" /\ file' = file /\ job \in Job
        /\ job' = NoJob /\ t \in Tables /\ f \in Seq(Line) /\ IsEnt(ent[t])
    BY <1>0, <1>8 DEF on_append_success, TypeOK, Job
  <2>2. /\ ent[t].loaded /\ job.indexed = ent[t].id_pk
        /\ job.indexed => job.id = ent[t].next_id
        /\ Whole(f) =>
             /\ Len(f) \in NonBlank(f) => WellFormed(t, f, Len(f))
             /\ job.indexed => /\ Len(f) \in NonBlank(f) /\ f[Len(f)].id = job.id
                               /\ job.row = RowNo(f, Len(f))
    BY <1>0, <2>1 DEF JobInv
  <2>3. FitsIfWhole(t, ent[t], f, NonBlank(f) \ {Len(f)})
    BY <1>0, <2>1, <2>2 DEF EntInv, Known, Settled
  <2>4. /\ \A s \in Tables : s # t => ent'[s] = ent[s]
        /\ FitsIfWhole(t, ent'[t], f, NonBlank(f))
    <3>1. CASE job.indexed = TRUE
      <4>1. /\ job.id \in Id /\ job.id \notin DOMAIN ent[t].tree
            /\ ent' = [ent EXCEPT ![t] = Indexed(ent[t], job.id, job.row)]
        BY <1>8, <2>1, <3>1 DEF on_append_success, Job
      <4>2. ent'[t] = Indexed(ent[t], job.id, job.row)
            /\ \A s \in Tables : s # t => ent'[s] = ent[s]
        BY <1>0, <2>1, <4>1 DEF TypeOK
      <4>3. Whole(f) => Fits(t, Indexed(ent[t], job.id, RowNo(f, Len(f))), f, NonBlank(f))
        BY <2>1, <2>2, <2>3, <3>1, <4>1, IndexedFits DEF FitsIfWhole
      <4>4. Indexed(ent[t], job.id, job.row).id_pk = ent[t].id_pk
        BY <2>1 DEF Indexed, IsEnt
      <4> QED
        BY <2>2, <2>3, <3>1, <4>2, <4>3, <4>4 DEF FitsIfWhole
    <3>2. CASE job.indexed = FALSE
      <4>1. ent' = ent
        BY <1>8, <3>2 DEF on_append_success
      <4> QED
        BY <2>2, <2>3, <3>2, <4>1 DEF FitsIfWhole, Fits
    <3> QED
      BY <2>1, <3>1, <3>2 DEF Job
  <2>5. ASSUME NEW s \in Tables PROVE EntInv(s)'
    <3>1. CASE s = t
      BY <2>1, <2>4, <3>1, EntInvSettled DEF Settled
    <3>2. CASE s # t
      BY <1>0, <2>1, <2>4, <3>2, EntInvKept DEF Settled
    <3> QED
      BY <3>1, <3>2
  <2> QED
    BY <1>0, <2>1, <2>5 DEF IInv, DownInv, JobInv
<1>9. ASSUME NEW t \in Tables, NEW n \in Literal, SelectWhere(t, n)
      PROVE  IInv'
  <2> DEFINE e == ensure_loaded(t)
  <2>1. /\ pc = "ready" /\ pc' = pc /\ file' = file /\ job' = job
        /\ ent' = [ent EXCEPT ![t] = e] /\ CanLoad(t)
    BY <1>9 DEF SelectWhere
  <2>2. e.loaded = TRUE /\ FitsIfWhole(t, e, file[t], NonBlank(file[t]))
    BY <1>0, <2>1, EnsureLoadedFits DEF Settled
  <2>3. ent'[t] = e /\ \A s \in Tables : s # t => ent'[s] = ent[s]
    BY <1>0, <2>1, EnsureLoadedType, EntUpdate
  <2>4. ASSUME NEW s \in Tables PROVE EntInv(s)'
    <3>1. CASE s = t
      BY <2>1, <2>2, <2>3, <3>1, EntInvSettled DEF Settled
    <3>2. CASE s # t
      BY <1>0, <2>1, <2>3, <3>2, EntInvKept DEF Settled
    <3> QED
      BY <3>1, <3>2
  <2> QED
    BY <1>0, <2>1, <2>4 DEF IInv, DownInv, JobInv
<1>10. ASSUME NEW t \in Tables, SelectScan(t)
       PROVE  IInv'
  BY <1>1, <1>10 DEF SelectScan
<1> QED
  <2>1. CASE \/ EndScript \/ AppendRefused \/ AppendFails \/ CountFails \/ IndexFails
             \/ \E t \in Tables : SelectFails(t)
                  \/ \E n \in 0 .. Header[t].ncol + 1 : PrepareFails(t, n)
    <3>1. pc' = "exit"
      BY <2>1 DEF EndScript, AppendRefused, AppendFails, CountFails, IndexFails,
                  SelectFails, PrepareFails, Fail, AfterFailure
    <3> QED
      BY <1>4, <3>1
  <2> QED
    BY <1>1, <1>2, <1>3, <1>5, <1>6, <1>7, <1>8, <1>9, <1>10, <2>1 DEF Next

THEOREM InvCorrect == Spec => []IInv
BY InvInit, InvStep, PTL DEF Spec

-----------------------------------------------------------------------------
(* What follows from it.                                                   *)

\* An index that fits a file finds the rows a scan finds.
LEMMA FitsFinds ==
  ASSUME NEW t \in Tables, NEW e, NEW f \in Seq(Line), NEW k,
         Fits(t, e, f, NonBlank(f)), e.id_pk = TRUE
  PROVE  /\ where_rows(e, f, k) = scan_rows(f, k)
         /\ where_ok(t, e, f, k)
<1>1. /\ DOMAIN e.tree = {f[i].id : i \in NonBlank(f)}
      /\ \A i \in NonBlank(f) : e.tree[f[i].id] = RowNo(f, i)
      /\ Header[t].ncol > 0 /\ \A i \in NonBlank(f) : WellFormed(t, f, i)
  BY DEF Fits
<1>2. read_table_row_ok(t, f, IF k \in DOMAIN e.tree THEN e.tree[k] ELSE NoRow)
  BY <1>1 DEF read_table_row_ok
<1>3. CASE k \in DOMAIN e.tree
  <2>1. PICK i \in NonBlank(f) : f[i].id = k
    BY <1>1, <1>3
  <2>2. e.tree[k] = RowNo(f, i)
    BY <1>1, <2>1
  <2>3. \A j \in NonBlank(f) : RowNo(f, j) = RowNo(f, i) => j = i
    BY RowNoInjective
  <2>4. where_rows(e, f, k) = {i}
    BY <1>3, <2>2, <2>3 DEF where_rows, read_table_row
  <2>5. scan_rows(f, k) = {i}
    BY <1>1, <2>1, <2>2, <2>3 DEF scan_rows
  <2> QED
    BY <1>2, <1>3, <2>4, <2>5, FS_Singleton DEF where_ok
<1>4. CASE k \notin DOMAIN e.tree
  <2>1. where_rows(e, f, k) = {}
    <3>1. ASSUME NEW i \in NonBlank(f) PROVE RowNo(f, i) # -1
      <4>1. RowNo(f, i) \in Nat
        BY NonBlankFinite
      <4> QED
        BY <4>1
    <3> QED
      BY <1>4, <3>1 DEF where_rows, read_table_row, NoRow
  <2>2. scan_rows(f, k) = {}
    BY <1>1, <1>4 DEF scan_rows
  <2> QED
    BY <1>2, <1>4, <2>1, <2>2, FS_EmptySet DEF where_ok
<1> QED
  BY <1>3, <1>4

LEMMA LoadedFinds ==
  ASSUME NEW t \in Tables, NEW f \in Seq(Line), Loadable(t, f), Header[t].idpk, NEW k
  PROVE  where_rows(LoadedEnt(t, f), f, k) = scan_rows(f, k)
<1>1. PICK e : e = LoadedEnt(t, f)
  OBVIOUS
<1>2. Fits(t, e, f, NonBlank(f))
  BY <1>1, LoadedEntProps
<1>3. e.id_pk = TRUE
  BY <1>1 DEF LoadedEnt
<1> QED
  BY <1>1, <1>2, <1>3, FitsFinds

\* Between statements the index lists exactly the ids on file, at their rows
\* (week7_ensure_loaded, week7_on_append_success, executor_execute_insert).
THEOREM IndexAgreesCorrect == Spec => []IndexAgrees
<1>1. IInv => IndexAgrees
  BY DEF IInv, EntInv, FitsIfWhole, IndexAgrees, HasIndex, Settled, Known, Fits, Ids
<1> QED
  BY <1>1, InvCorrect, PTL

\* Between statements the next id is above every id on file, unless the
\* largest integer is one of them (week7_index.c, next_id).
THEOREM NextIdIsFreshCorrect == Spec => []NextIdIsFresh
<1>1. IInv => NextIdIsFresh
  BY DEF IInv, EntInv, FitsIfWhole, NextIdIsFresh, HasIndex, Settled, Known, Fits, Ids
<1> QED
  BY <1>1, InvCorrect, PTL

\* SELECT ... WHERE id = k finds through the index what a full scan finds, and
\* does not fail (executor_execute_select).
THEOREM WhereAgreesCorrect == Spec => []WhereAgreesWithScan
<1>1. ASSUME IInv, NEW t \in Tables, Settled(t), Whole(file[t]), CanLoad(t),
             ensure_loaded(t).id_pk, NEW k \in Id
      PROVE  /\ where_rows(ensure_loaded(t), file[t], k)
                  = scan_rows(file[t], k)
             /\ where_ok(t, ensure_loaded(t), file[t], k)
  <2>1. TypeOK /\ EntInv(t) /\ file[t] \in Seq(Line)
    BY <1>1 DEF IInv, TypeOK
  <2>2. Fits(t, ensure_loaded(t), file[t], NonBlank(file[t]))
    BY <1>1, <2>1, EnsureLoadedFits DEF FitsIfWhole
  <2>3. ensure_loaded(t).id_pk = TRUE
    BY <1>1, <2>1, EnsureLoadedType DEF IsEnt
  <2> QED
    BY <2>1, <2>2, <2>3, FitsFinds
<1>2. ASSUME IInv, NEW t \in Tables, Settled(t), Whole(file[t]), CanLoad(t),
             ensure_loaded(t).id_pk, NEW n \in Literal, InRange(n, Ids(file[t]))
      PROVE  /\ where_rows(ensure_loaded(t), file[t], strtoll(n)) = scan_rows(file[t], n)
             /\ where_ok(t, ensure_loaded(t), file[t], strtoll(n))
  <2>1. strtoll(n) \in Id /\ (n \in Id => strtoll(n) = n)
    BY EngineAssumption DEF strtoll, Literal, Id, MinInt
  <2>2. /\ where_rows(ensure_loaded(t), file[t], strtoll(n)) = scan_rows(file[t], strtoll(n))
        /\ where_ok(t, ensure_loaded(t), file[t], strtoll(n))
    BY <1>1, <1>2, <2>1
  <2>3. CASE n \in Id
    BY <2>1, <2>2, <2>3
  <2>4. CASE n \notin Id
    <3>1. Ids(file[t]) \subseteq Id
      <4>1. Fits(t, ensure_loaded(t), file[t], NonBlank(file[t]))
        BY <1>2, EnsureLoadedFits DEF IInv, TypeOK, FitsIfWhole
      <4>2. ensure_loaded(t).id_pk /\ DOMAIN ensure_loaded(t).tree \subseteq Id
        BY <1>2, EnsureLoadedType DEF IInv, TypeOK, IsEnt, IsTree
      <4>3. DOMAIN ensure_loaded(t).tree = {file[t][i].id : i \in NonBlank(file[t])}
        BY <4>1, <4>2 DEF Fits
      <4> QED
        BY <4>2, <4>3 DEF Ids
    <3>2. strtoll(n) \notin Ids(file[t]) /\ n \notin Ids(file[t])
      BY <1>2, <2>4, <3>1, EngineAssumption DEF InRange, strtoll, Literal, Id, MinInt
    <3>3. scan_rows(file[t], strtoll(n)) = {} /\ scan_rows(file[t], n) = {}
      BY <3>2 DEF scan_rows, Ids
    <3> QED
      BY <2>2, <3>3
  <2> QED
    BY <2>3, <2>4
<1>3. IInv => WhereAgreesWithScan
  BY <1>2 DEF WhereAgreesWithScan
<1> QED
  BY <1>3, InvCorrect, PTL

\* What an INSERT reported as stored is found by every later process that can
\* load its table (executor_execute_insert, week7_ensure_loaded).
THEOREM AckedRowFoundCorrect == Spec => []AckedRowFound
<1>1. ASSUME IInv, NEW a \in acked, Loadable(a.table, file[a.table])
      PROVE  \E i \in NonBlank(file[a.table]) :
                /\ where_rows(LoadedEnt(a.table, file[a.table]), file[a.table], a.id) = {i}
                /\ file[a.table][i].id = a.id /\ file[a.table][i].val = a.val
  <2> DEFINE t == a.table
             f == file[t]
  <2>1. t \in Tables /\ f \in Seq(Line) /\ Header[t].idpk
    BY <1>1 DEF IInv, AckInv, TypeOK
  <2>2. PICK i \in NonBlank(f) : f[i].id = a.id /\ f[i].val = a.val
    BY <1>1 DEF IInv, AckInv, Stored
  <2>5. where_rows(LoadedEnt(t, f), f, a.id) = scan_rows(f, a.id)
    BY <1>1, <2>1, LoadedFinds
  <2>6. \A j \in NonBlank(f) : f[j].id = a.id => j = i
    BY <1>1, <2>1, <2>2 DEF Loadable
  <2>7. scan_rows(f, a.id) = {i}
    BY <2>2, <2>6 DEF scan_rows
  <2> QED
    BY <2>2, <2>5, <2>7
<1>2. IInv => AckedRowFound
  BY <1>1 DEF AckedRowFound
<1> QED
  BY <1>2, InvCorrect, PTL

\* A row whose id is above all others keeps a file loadable.
LEMMA AppendLoadable ==
  ASSUME NEW t \in Tables, NEW f \in Seq(Line), NEW l \in Line, Loadable(t, f),
         l.cells = Header[t].ncol,
         Header[t].idpk => l.id \in Id /\ \A k \in Ids(f) : k < l.id
  PROVE  Loadable(t, f \o <<l>>)
<1> DEFINE g == f \o <<l>>
<1>1. /\ g \in Seq(Line) /\ Len(g) = Len(f) + 1 /\ g[Len(g)] = l
      /\ \A i \in 1 .. Len(f) : g[i] = f[i]
      /\ NonBlank(g) = NonBlank(f) \cup (IF l.cells = 0 THEN {} ELSE {Len(g)})
  BY AppendLine
<1> HIDE DEF g
<1>2. NonBlank(f) \subseteq 1 .. Len(f)
  BY NonBlankFinite
<1>3. \A i \in NonBlank(g) : \/ i \in NonBlank(f) /\ g[i] = f[i]
                             \/ i = Len(g) /\ g[i] = l
  BY <1>1, <1>2
<1>4. read_table_ok(t, g)
  BY <1>3 DEF Loadable, read_table_ok, WellFormed
<1>5. CASE ~Header[t].idpk
  BY <1>4, <1>5 DEF Loadable, g
<1>6. CASE Header[t].idpk
  <2>1. ASSUME NEW i \in NonBlank(f)
        PROVE  f[i].id # l.id
    <3>1. f[i].id \in Ids(f) /\ f[i].id \in Id
      BY <1>6 DEF Ids, Loadable
    <3>2. f[i].id < l.id /\ f[i].id \in Int
      BY <1>6, <3>1, IdType
    <3> QED
      BY <3>2
  <2>2. \A i \in NonBlank(g) : g[i].id \in Id
    BY <1>3, <1>6 DEF Loadable
  <2>3. \A i, j \in NonBlank(g) : g[i].id = g[j].id => i = j
    BY <1>3, <1>6, <2>1 DEF Loadable
  <2> QED
    BY <1>4, <2>2, <2>3 DEF Loadable, g
<1> QED
  BY <1>5, <1>6

\* A loadable table becomes unloadable only by a torn write, by an INSERT of a
\* text that the readers break up, or when the largest integer is on file
\* (executor_execute_insert as a whole).
THEOREM LoadableKeptCorrect == Spec => LoadableKept
<1> DEFINE Kept == \A t \in Tables :
             Loadable(t, file[t]) /\ Whole(file[t]) /\ MaxInt \notin Ids(file[t]) =>
               \/ Loadable(t, file'[t])
               \/ AppendFails
               \/ append_insert_row /\ job.val \in Split
<1>1. ASSUME IInv, [Next]_vars PROVE Kept \/ UNCHANGED vars
  <2> SUFFICES ASSUME NEW s \in Tables, Loadable(s, file[s]), Whole(file[s]), MaxInt \notin Ids(file[s]),
                      ~AppendFails, ~(append_insert_row /\ job.val \in Split),
                      file'[s] # file[s], Next
               PROVE  Loadable(s, file'[s])
    BY <1>1
  <2>1. append_insert_row
    BY DEF Next, Start, EndScript, Exit, Crash, Down, prepare_insert_values, PrepareFails,
           AppendRefused, count_rows, CountFails, on_append_success, IndexFails, SelectWhere,
           SelectScan, SelectFails, vars
  <2> DEFINE f == file[s]
             l == [cells |-> Header[s].ncol, id |-> job.id, val |-> job.val]
  <2>2. /\ pc = "append" /\ job \in Job /\ f \in Seq(Line)
        /\ file \in [Tables -> Seq(Line)]
        /\ job.table \in Tables /\ job.id \in Id \cup {NoId} /\ job.val \in Values \ Split
    BY <1>1, <2>1 DEF append_insert_row, IInv, TypeOK, Job
  <2>3. s = job.table /\ file'[s] = f \o RowText(s, job.id, job.val)
    <3>1. PICK x \in RowTexts(job.table, job.id, job.val) :
                 file' = [file EXCEPT ![job.table] = @ \o x]
      BY <2>1 DEF append_insert_row
    <3>2. x = RowText(job.table, job.id, job.val)
      BY <2>2, RowTextIs
    <3> QED
      BY <2>2, <3>1, <3>2
  <2>4. RowText(s, job.id, job.val) = <<l>>
    BY <2>2, <2>3, ConcatEmptySeq DEF RowText
  <2>5. /\ ent[s].loaded /\ job.indexed = ent[s].id_pk
        /\ job.indexed => job.id = ent[s].next_id
        /\ Fits(s, ent[s], f, NonBlank(f))
    BY <1>1, <2>2, <2>3 DEF IInv, JobInv, EntInv, FitsIfWhole, Known, Settled, Running
  <2>6. l \in Line /\ l.cells = Header[s].ncol /\ l.id = job.id
    <3>1. Header[s].ncol \in Nat
      BY EngineAssumption
    <3>2. job.id \in Id \cup {NoId} /\ job.val \in Values
      BY <2>2 DEF Job
    <3> QED
      BY <3>1, <3>2 DEF Line
  <2> HIDE DEF l
  <2>7. ASSUME Header[s].idpk
        PROVE  l.id \in Id /\ \A k \in Ids(f) : k < l.id
    <3>1. job.indexed /\ job.id = ent[s].next_id
      BY <2>5, <2>6, <2>7 DEF Fits
    <3>2. job.id \in Id
      BY <2>2, <3>1 DEF Job
    <3>3. DOMAIN ent[s].tree = Ids(f) /\ \A k \in DOMAIN ent[s].tree : k < ent[s].next_id
      BY <2>5, <3>1 DEF Fits, Ids
    <3> QED
      BY <2>6, <3>1, <3>2, <3>3
  <2>8. Loadable(s, f \o <<l>>)
    BY <2>2, <2>6, <2>7, AppendLoadable
  <2> QED
    BY <2>3, <2>4, <2>8
<1>2. IInv /\ [Next]_vars => [Kept]_vars
  BY <1>1
<1> QED
  BY <1>2, InvCorrect, PTL DEF Spec, LoadableKept

-----------------------------------------------------------------------------
(* The next id is not only above the ids of the index but follows them.    *)

\* The next id is one more than the largest id, or than 0.
Follows(e) ==
  MaxInt \notin DOMAIN e.tree =>
    /\ e.next_id - 1 \in DOMAIN e.tree \cup {0}
    /\ \A k \in DOMAIN e.tree \cup {0} : k < e.next_id

NextIdInv ==
  \A t \in Tables : pc \in Running /\ ent[t].loaded /\ ent[t].id_pk => Follows(ent[t])

\* A set of ids and 0 has a largest element, and it is the one that belongs to
\* the set and is not below any other.
LEMMA MaxOfIds ==
  ASSUME NEW K \in SUBSET Id
  PROVE  /\ Max(K \cup {0}) \in K \cup {0}
         /\ \A k \in K \cup {0} : k <= Max(K \cup {0})
<1> DEFINE S == K \cup {0}
<1>1. S \in SUBSET Int /\ S # {} /\ MaxInt \in Int /\ \A x \in S : x <= MaxInt
  <2>1. MaxInt \in Nat \ {0}
    BY EngineAssumption
  <2>2. \A x \in Id : x \in Int /\ x <= MaxInt
    BY <2>1 DEF Id, MinInt
  <2> QED
    BY <2>1, <2>2
<1> HIDE DEF S
<1>2. Max(S) \in S /\ \A x \in S : x <= Max(S)
  BY <1>1, MaxOfBounded
<1> QED
  BY <1>2 DEF S

\* The entry made from a file follows its ids.
LEMMA LoadedFollows ==
  ASSUME NEW t \in Tables, NEW f \in Seq(Line), Loadable(t, f),
         NEW e, e = LoadedEnt(t, f), e.id_pk
  PROVE  Follows(e)
<1>1. Header[t].idpk
  <2>1. CASE ~Header[t].idpk
    BY <2>1 DEF LoadedEnt, Unloaded
  <2> QED
    BY <2>1
<1>2. e.tree = [k \in Ids(f) |-> RowNo(f, LineOf(f, k))] /\ e.next_id = Succ(Max(Ids(f) \cup {0}))
  BY <1>1 DEF LoadedEnt
<1>3. Ids(f) \in SUBSET Id
  BY <1>1 DEF Loadable, Ids
<1>4. PICK m : m = Max(Ids(f) \cup {0})
  OBVIOUS
<1>5. m \in Ids(f) \cup {0} /\ \A k \in Ids(f) \cup {0} : k <= m
  BY <1>3, <1>4, MaxOfIds
<1>6. ASSUME MaxInt \notin Ids(f)
      PROVE  Succ(m) - 1 = m /\ \A k \in Ids(f) \cup {0} : k < Succ(m)
  <2>1. m # MaxInt /\ m \in Int /\ Ids(f) \cup {0} \subseteq Int
    BY <1>3, <1>5, <1>6, IdType, EngineAssumption
  <2>2. Succ(m) = m + 1
    BY <2>1 DEF Succ
  <2> QED
    BY <1>5, <2>1, <2>2
<1>7. DOMAIN e.tree = Ids(f) /\ e.next_id = Succ(m)
  BY <1>2, <1>4
<1> QED
  BY <1>5, <1>6, <1>7 DEF Follows

\* So does an entry that has taken its next id in.
LEMMA IndexedFollows ==
  ASSUME NEW e, IsEnt(e), Follows(e), NEW id \in Id, id = e.next_id, NEW n,
         NEW u, u = Indexed(e, id, n)
  PROVE  Follows(u)
<1>1. e.next_id \in Id /\ DOMAIN e.tree \subseteq Int
      /\ e = [loaded |-> e.loaded, id_pk |-> e.id_pk, next_id |-> e.next_id, tree |-> e.tree]
  BY IdType DEF IsEnt, IsTree
<1>2. u.tree = TreeInsert(e.tree, id, n) /\ u.next_id = Succ(id)
  BY <1>1, IdType DEF Indexed
<1>3. DOMAIN u.tree = DOMAIN e.tree \cup {id}
  BY <1>2 DEF TreeInsert
<1>4. ASSUME MaxInt \notin DOMAIN u.tree
      PROVE  /\ u.next_id - 1 \in DOMAIN u.tree \cup {0}
             /\ \A k \in DOMAIN u.tree \cup {0} : k < u.next_id
  <2>1. id # MaxInt /\ id \in Int /\ MaxInt \notin DOMAIN e.tree
    BY <1>3, <1>4, IdType
  <2>2. u.next_id = id + 1
    BY <1>2, <2>1 DEF Succ
  <2>3. \A k \in DOMAIN e.tree \cup {0} : k < id
    BY <2>1 DEF Follows
  <2> QED
    BY <1>1, <1>3, <2>1, <2>2, <2>3
<1> QED
  BY <1>4 DEF Follows

LEMMA NextIdInit == Init => NextIdInv
BY DEF Init, NextIdInv, Running

\* Loading a table, if need be, gives an entry that follows its ids.
LEMMA EnsureLoadedFollows ==
  ASSUME TypeOK, NextIdInv, NEW t \in Tables, pc \in Running, CanLoad(t),
         NEW e, e = ensure_loaded(t), e.id_pk
  PROVE  Follows(e)
<1>1. file[t] \in Seq(Line)
  BY DEF TypeOK
<1> QED
  BY <1>1, LoadedFollows DEF NextIdInv, CanLoad, ensure_loaded

LEMMA NextIdStep == IInv /\ NextIdInv /\ [Next]_vars => NextIdInv'
<1> SUFFICES ASSUME IInv, NextIdInv, [Next]_vars, NEW s \in Tables,
                    pc' \in Running, ent'[s].loaded, ent'[s].id_pk
             PROVE  Follows(ent'[s])
  BY DEF NextIdInv, Follows
<1>0. TypeOK /\ JobInv /\ DownInv
  BY DEF IInv
<1>1. CASE pc \in Running /\ ent'[s] = ent[s]
  BY <1>1 DEF NextIdInv
<1>2. ASSUME pc = "ready", NEW t \in Tables, CanLoad(t),
             ent' = [ent EXCEPT ![t] = ensure_loaded(t)]
      PROVE  Follows(ent'[s])
  <2>1. ent'[t] = ensure_loaded(t) /\ \A r \in Tables : r # t => ent'[r] = ent[r]
    BY <1>0, <1>2, EnsureLoadedType, EntUpdate, ZenonT(60)
  <2>2. CASE s = t
    BY <1>0, <1>2, <2>1, <2>2, EnsureLoadedFollows DEF Running
  <2>3. CASE s # t
    BY <1>1, <1>2, <2>1, <2>3 DEF Running
  <2> QED
    BY <2>2, <2>3
<1>3. CASE on_append_success
  <2>1. pc = "index" /\ job \in Job /\ job.table \in Tables /\ ent[job.table].loaded
        /\ job.indexed = ent[job.table].id_pk /\ (job.indexed => job.id = ent[job.table].next_id)
    BY <1>0, <1>3 DEF on_append_success, TypeOK, JobInv, Job
  <2>2. CASE ~job.indexed \/ s # job.table
    BY <1>0, <1>1, <1>3, <2>1, <2>2 DEF on_append_success, Running, TypeOK
  <2>3. CASE job.indexed /\ s = job.table
    <3>1. ent'[s] = Indexed(ent[s], job.id, job.row) /\ IsEnt(ent[s])
      BY <1>0, <1>3, <2>1, <2>3 DEF on_append_success, TypeOK
    <3>2. Follows(ent[s]) /\ job.id \in Id
      BY <2>1, <2>3 DEF NextIdInv, Job, Running
    <3> QED
      BY <2>1, <2>3, <3>1, <3>2, IndexedFollows
  <2> QED
    BY <2>2, <2>3
<1>4. CASE Start
  BY <1>0, <1>4 DEF Start, DownInv, Unloaded
<1>5. CASE pc' \in {"down", "exit"}
  BY <1>5 DEF Running
<1>6. CASE append_insert_row \/ count_rows
  BY <1>1, <1>6 DEF append_insert_row, count_rows, Running
<1>7. CASE UNCHANGED vars
  BY <1>1, <1>7 DEF vars
<1>8. CASE \E t \in Tables : \/ \E n \in Literal : SelectWhere(t, n)
                             \/ \E n \in 0 .. Header[t].ncol + 1, v \in RowVals(t) :
                                   prepare_insert_values(t, n, v)
  BY <1>2, <1>8 DEF SelectWhere, prepare_insert_values, CanPrepare
<1> QED
  <2>1. CASE EndScript \/ Exit \/ Crash \/ AppendRefused \/ AppendFails \/ CountFails \/ IndexFails
             \/ \E t \in Tables : SelectFails(t)
                  \/ \E n \in 0 .. Header[t].ncol + 1 : PrepareFails(t, n)
    <3>1. pc' \in {"down", "exit"}
      BY <2>1 DEF EndScript, Exit, Crash, Down, AppendRefused, AppendFails, CountFails,
                  IndexFails, SelectFails, PrepareFails, Fail, AfterFailure
    <3> QED
      BY <1>5, <3>1
  <2> QED
    BY <1>3, <1>4, <1>6, <1>7, <1>8, <2>1 DEF Next, SelectScan
LEMMA NextIdCorrect == Spec => []NextIdInv
<1>1. Spec => []IInv
  BY InvCorrect
<1> QED
  BY <1>1, NextIdInit, NextIdStep, PTL DEF Spec

-----------------------------------------------------------------------------
(* What an added line makes of the rows.                                   *)

\* The rows of a file, as the abstract table has them.
RowsOf(t, f) ==
  IF ~Whole(f) THEN [ok |-> FALSE, brokenUp |-> TRUE]
  ELSE IF Loadable(t, f)
  THEN [ok |-> TRUE, rows |-> [k \in Ids(f) |-> f[LineOf(f, k)].val]]
  ELSE [ok |-> FALSE, rows |-> EmptyTree]

\* A line with an id of its own adds its row and leaves the others as they are.
LEMMA FreshLine ==
  ASSUME NEW t \in Tables, NEW f \in Seq(Line), NEW l \in Line,
         Header[t].idpk, Loadable(t, f), l.cells # 0, l.cells = Header[t].ncol,
         l.id \in Id, l.id \notin Ids(f)
  PROVE  LET g == f \o <<l>> IN
         /\ Loadable(t, g)
         /\ Ids(g) = Ids(f) \cup {l.id}
         /\ [k \in Ids(g) |-> g[LineOf(g, k)].val]
              = [k \in Ids(f) \cup {l.id} |-> IF k = l.id THEN l.val ELSE f[LineOf(f, k)].val]
<1> DEFINE g == f \o <<l>>
<1>1. /\ g \in Seq(Line) /\ Len(g) = Len(f) + 1 /\ g[Len(g)] = l
      /\ \A i \in 1 .. Len(f) : g[i] = f[i]
      /\ NonBlank(g) = NonBlank(f) \cup {Len(g)}
  BY AppendLine
<1> HIDE DEF g
<1>2. NonBlank(f) \subseteq 1 .. Len(f)
  BY NonBlankFinite
<1>3. \A i \in NonBlank(g) : \/ i \in NonBlank(f) /\ g[i] = f[i]
                             \/ i = Len(g) /\ g[i] = l
  BY <1>1, <1>2
<1>4. \A i \in NonBlank(f) : g[i] = f[i] /\ f[i].id \in Ids(f)
  BY <1>1, <1>2 DEF Ids
<1>5. Ids(g) = Ids(f) \cup {l.id}
  BY <1>1, <1>3, <1>4 DEF Ids
<1>6. Loadable(t, g)
  <2>1. read_table_ok(t, g)
    BY <1>3 DEF Loadable, read_table_ok, WellFormed
  <2>2. \A i \in NonBlank(g) : g[i].id \in Id
    BY <1>3 DEF Loadable
  <2>3. \A i, j \in NonBlank(g) : g[i].id = g[j].id => i = j
    BY <1>3, <1>4 DEF Loadable
  <2> QED
    BY <2>1, <2>2, <2>3 DEF Loadable
<1>7. LineOf(g, l.id) = Len(g)
  <2>1. LineOf(g, l.id) \in NonBlank(g) /\ g[LineOf(g, l.id)].id = l.id
    BY <1>1, <1>5, LineOfProps
  <2> QED
    BY <1>3, <1>4, <2>1
<1>8. ASSUME NEW k \in Ids(f)
      PROVE  g[LineOf(g, k)].val = f[LineOf(f, k)].val
  <2>1. LineOf(f, k) \in NonBlank(f) /\ f[LineOf(f, k)].id = k
    BY LineOfProps
  <2>2. LineOf(g, k) \in NonBlank(g) /\ g[LineOf(g, k)].id = k
    BY <1>1, <1>5, LineOfProps
  <2>3. LineOf(f, k) \in NonBlank(g) /\ g[LineOf(f, k)] = f[LineOf(f, k)]
    BY <1>1, <1>4, <2>1
  <2>4. LineOf(g, k) = LineOf(f, k)
    BY <1>6, <2>1, <2>2, <2>3 DEF Loadable
  <2> QED
    BY <2>3, <2>4
<1>9. [k \in Ids(g) |-> g[LineOf(g, k)].val]
        = [k \in Ids(f) \cup {l.id} |-> IF k = l.id THEN l.val ELSE f[LineOf(f, k)].val]
  BY <1>1, <1>5, <1>7, <1>8
<1> QED
  BY <1>5, <1>6, <1>9 DEF g

\* Any other line that is not blank spoils the table.
LEMMA SpoilingLine ==
  ASSUME NEW t \in Tables, NEW f \in Seq(Line), NEW l \in Line,
         Header[t].idpk, l.cells # 0, Loadable(t, f \o <<l>>)
  PROVE  l.cells = Header[t].ncol /\ l.id \in Id /\ l.id \notin Ids(f)
<1> DEFINE g == f \o <<l>>
<1>1. /\ g \in Seq(Line) /\ Len(g) = Len(f) + 1 /\ g[Len(g)] = l
      /\ \A i \in 1 .. Len(f) : g[i] = f[i]
      /\ NonBlank(g) = NonBlank(f) \cup {Len(g)}
  BY AppendLine
<1>2. Loadable(t, g)
  OBVIOUS
<1> HIDE DEF g
<1>3. NonBlank(f) \subseteq 1 .. Len(f) /\ Len(f) \in Nat
  BY NonBlankFinite, LenProperties
<1>4. l.cells = Header[t].ncol /\ l.id \in Id
  BY <1>1, <1>2 DEF Loadable, read_table_ok, WellFormed
<1>5. \A i \in NonBlank(f) : i \in NonBlank(g) /\ g[i] = f[i] /\ i # Len(g)
  BY <1>1, <1>3
<1>6. l.id \notin Ids(f)
  BY <1>1, <1>2, <1>5 DEF Ids, Loadable
<1> QED
  BY <1>4, <1>6
-----------------------------------------------------------------------------
(* The steps of the engine as steps of PkTable.                            *)

Store == [t \in PkTables |-> Rows(t)]

\* An INSERT that is about to append to a table with an id, none of whose rows was
\* broken up, finds the file loadable, with the ids of its index.
LEMMA AppendingTo ==
  ASSUME IInv, NextIdInv, pc = "append", NEW t, t = job.table, t \in PkTables, Whole(file[t])
  PROVE  /\ file[t] \in Seq(Line) /\ job \in Job
         /\ Loadable(t, file[t])
         /\ job.id \in Id /\ job.val \in Values /\ Header[t].ncol # 0
         /\ MaxInt \notin Ids(file[t]) =>
              job.id \notin Ids(file[t]) /\ job.id = Max(Ids(file[t]) \cup {0}) + 1
<1> DEFINE f == file[t]
           e == ent[t]
<1>1. /\ TypeOK /\ JobInv /\ EntInv(t) /\ t \in Tables /\ Header[t].idpk
      /\ f \in Seq(Line) /\ job \in Job /\ IsEnt(e)
  BY DEF IInv, TypeOK, PkTables
<1>2. e.loaded /\ job.indexed = e.id_pk /\ (job.indexed => job.id = e.next_id)
  BY <1>1 DEF JobInv
<1>3. Fits(t, e, f, NonBlank(f))
  BY <1>1, <1>2 DEF EntInv, FitsIfWhole, Known, Settled, Running
<1>4. e.id_pk /\ job.id = e.next_id /\ job.id \in Id /\ job.val \in Values
  BY <1>1, <1>2, <1>3 DEF Fits, Job
<1>5. DOMAIN e.tree = Ids(f) /\ DOMAIN e.tree \subseteq Id
  BY <1>1, <1>3, <1>4 DEF Fits, Ids, IsEnt, IsTree
<1>6. Loadable(t, f)
  <2>1. \A i \in NonBlank(f) : f[i].id \in Id
    BY <1>5 DEF Ids
  <2>2. \A i, j \in NonBlank(f) : f[i].id = f[j].id => i = j
    BY <1>1, <1>3, <1>4, RowNoInjective DEF Fits
  <2> QED
    BY <1>3, <2>1, <2>2 DEF Loadable, read_table_ok, Fits
<1>7. ASSUME MaxInt \notin Ids(f)
      PROVE  job.id \notin Ids(f) /\ job.id = Max(Ids(f) \cup {0}) + 1
  <2>1. Follows(e)
    BY <1>1, <1>2, <1>4 DEF NextIdInv, Running
  <2>2. job.id - 1 \in Ids(f) \cup {0} /\ \A k \in Ids(f) \cup {0} : k < job.id
    BY <1>4, <1>5, <1>7, <2>1 DEF Follows
  <2>3. PICK m : m = Max(Ids(f) \cup {0})
    OBVIOUS
  <2>4. m \in Ids(f) \cup {0} /\ \A k \in Ids(f) \cup {0} : k <= m
    BY <1>5, <2>3, MaxOfIds
  <2>5. Ids(f) \cup {0} \subseteq Int /\ job.id \in Int
    BY <1>4, <1>5, IdType
  <2>6. job.id - 1 <= m /\ m < job.id /\ m \in Int
    BY <2>2, <2>4, <2>5
  <2>7. job.id = m + 1
    BY <2>5, <2>6
  <2>8. job.id \notin Ids(f)
    BY <2>2, <2>5
  <2> QED
    BY <2>3, <2>7, <2>8
<1>8. Header[t].ncol # 0
  BY <1>1, <1>3, EngineAssumption DEF Fits
<1> QED
  BY <1>1, <1>4, <1>6, <1>7, <1>8

LEMMA OtherRows ==
  ASSUME NEW b, NEW Q, NEW R, NEW r, r = [ok |-> b, rows |-> Q]
  PROVE  [r EXCEPT !.rows = R] = [ok |-> b, rows |-> R]
OBVIOUS

\* A line l that is appended to t, and is not blank, adds a row under an id of
\* its own or makes the table unreadable.
LEMMA LineInStore ==
  ASSUME NEW t \in PkTables, NEW l \in Line, l.cells # 0, l.val \notin Split,
         file \in [Tables -> Seq(Line)], Loadable(t, file[t]), Whole(file[t]),
         file' = [file EXCEPT ![t] = @ \o <<l>>]
  PROVE  \/ /\ l.id \in Id \ DOMAIN Store[t].rows
            /\ l.cells = Header[t].ncol
            /\ Store' = [Store EXCEPT ![t].rows = Abstract!WithRow(@, l.id, l.val)]
         \/ /\ ~(l.id \in Id \ Ids(file[t]) /\ l.cells = Header[t].ncol)
            /\ Store' = [Store EXCEPT ![t] = Abstract!Unreadable]
<1> DEFINE f == file[t]
           g == f \o <<l>>
<1>1. t \in Tables /\ Header[t].idpk /\ PkTables \subseteq Tables /\ f \in Seq(Line)
  BY DEF PkTables
<1>2. file'[t] = g /\ \A s \in Tables : s # t => file'[s] = file[s]
  BY <1>1
<1>3. \A s \in PkTables : Store[s] = RowsOf(s, file[s]) /\ Store'[s] = RowsOf(s, file'[s])
  BY DEF Store, Rows, RowsOf
<1>4. \A s \in PkTables : s # t => Store'[s] = Store[s]
  BY <1>1, <1>2, <1>3
<1>5. DOMAIN Store = PkTables /\ DOMAIN Store' = PkTables
      /\ Store' = [s \in PkTables |-> Store'[s]] /\ Store = [s \in PkTables |-> Store[s]]
  BY DEF Store
<1>6. Whole(g)
  <2>1. <<l>> \in Seq(Line) /\ Whole(<<l>>)
    BY WholeLine
  <2> QED
    BY <1>1, <2>1, Longer
<1>7. Store[t] = [ok |-> TRUE, rows |-> [k \in Ids(f) |-> f[LineOf(f, k)].val]]
  BY <1>3 DEF RowsOf
<1>8. CASE l.cells = Header[t].ncol /\ l.id \in Id /\ l.id \notin Ids(f)
  <2>1. /\ Loadable(t, g) /\ Ids(g) = Ids(f) \cup {l.id}
        /\ [k \in Ids(g) |-> g[LineOf(g, k)].val]
              = [k \in Ids(f) \cup {l.id} |-> IF k = l.id THEN l.val ELSE f[LineOf(f, k)].val]
    <3>1. PICK y : y = f
      OBVIOUS
    <3>2. y \in Seq(Line) /\ t \in Tables /\ Header[t].idpk /\ Loadable(t, y) /\ l.cells # 0
          /\ l.cells = Header[t].ncol /\ l.id \in Id /\ l.id \notin Ids(y)
      BY <1>1, <1>8, <3>1
    <3>3. /\ Loadable(t, y \o <<l>>) /\ Ids(y \o <<l>>) = Ids(y) \cup {l.id}
          /\ [k \in Ids(y \o <<l>>) |-> (y \o <<l>>)[LineOf(y \o <<l>>, k)].val]
                = [k \in Ids(y) \cup {l.id} |-> IF k = l.id THEN l.val ELSE y[LineOf(y, k)].val]
      BY <3>2, FreshLine
    <3> QED
      BY <3>1, <3>3
  <2>2. PICK R : R = [k \in Ids(g) |-> g[LineOf(g, k)].val]
    OBVIOUS
  <2>3. Store'[t] = [ok |-> TRUE, rows |-> R]
    <3>1. RowsOf(t, g) = [ok |-> TRUE, rows |-> R]
      BY <1>6, <2>1, <2>2 DEF RowsOf
    <3> QED
      BY <1>2, <1>3, <3>1
  <2>4. Store'[t] = [Store[t] EXCEPT !.rows = Abstract!WithRow(Store[t].rows, l.id, l.val)]
    <3>1. PICK Q : Q = [k \in Ids(f) |-> f[LineOf(f, k)].val]
      OBVIOUS
    <3>2. Store[t] = [ok |-> TRUE, rows |-> Q]
      BY <1>7, <3>1
    <3>3. Abstract!WithRow(Q, l.id, l.val) = R
      BY <2>1, <2>2, <3>1 DEF Abstract!WithRow
    <3>4. Store[t].rows = Q
      BY <3>2
    <3>5. Abstract!WithRow(Store[t].rows, l.id, l.val) = R
      BY <3>3, <3>4
    <3>6. PICK b, r : b = TRUE /\ r = Store[t]
      OBVIOUS
    <3>7. r = [ok |-> b, rows |-> Q]
      BY <3>2, <3>6
    <3>8. [r EXCEPT !.rows = R] = [ok |-> b, rows |-> R]
      BY <3>7, OtherRows
    <3> QED
      BY <2>3, <3>5, <3>6, <3>8
  <2>5. Store' = [Store EXCEPT ![t].rows = Abstract!WithRow(@, l.id, l.val)]
    BY <1>4, <1>5, <2>4
  <2> QED
    BY <1>7, <1>8, <2>5
<1>9. CASE ~(l.cells = Header[t].ncol /\ l.id \in Id /\ l.id \notin Ids(f))
  <2>1. ~Loadable(t, g)
    BY <1>1, <1>9, SpoilingLine
  <2>2. Store'[t] = Abstract!Unreadable
    BY <1>2, <1>3, <1>6, <2>1 DEF RowsOf, EmptyTree, Abstract!Unreadable, Abstract!NoRows
  <2>3. Store' = [Store EXCEPT ![t] = Abstract!Unreadable]
    BY <1>4, <1>5, <2>2
  <2> QED
    BY <1>9, <2>3
<1> QED
  BY <1>8, <1>9

\* A table with a row that is broken up is given up, and stays so.
LEMMA BrokenInStore ==
  ASSUME NEW t \in PkTables, NEW x \in Seq(Line), file \in [Tables -> Seq(Line)],
         file' = [file EXCEPT ![t] = @ \o x], ~Whole(file'[t])
  PROVE  /\ Store' = [Store EXCEPT ![t] = Abstract!BrokenUp]
         /\ ~Whole(file[t]) => Store' = Store
<1>1. t \in Tables /\ PkTables \subseteq Tables
  BY DEF PkTables
<1>2. \A s \in PkTables : s # t => file'[s] = file[s]
  BY <1>1
<1>3. \A s \in PkTables : s # t => Store'[s] = Store[s]
  BY <1>2 DEF Store, Rows
<1>4. Store'[t] = Abstract!BrokenUp
  BY DEF Store, Rows, Abstract!BrokenUp
<1>5. /\ Store' = [s \in PkTables |-> Store'[s]] /\ Store = [s \in PkTables |-> Store[s]]
  BY DEF Store
<1>6. ~Whole(file[t]) => Store[t] = Abstract!BrokenUp
  BY DEF Store, Rows, Abstract!BrokenUp
<1> QED
  BY <1>3, <1>4, <1>5, <1>6

LEMMA RefinesInit == Init => Abstract!Init
<1> SUFFICES ASSUME Init PROVE Abstract!Init
  OBVIOUS
<1>1. (pc \in Running) = FALSE
  BY DEF Init, Running
<1>2. ASSUME NEW t \in PkTables
      PROVE  Rows(t).ok \/ Rows(t) \in {Abstract!Unreadable, Abstract!BrokenUp}
  BY DEF Rows, EmptyTree, Abstract!Unreadable, Abstract!NoRows, Abstract!BrokenUp
<1> QED
  BY <1>1, <1>2 DEF Abstract!Init

\* A step that leaves the files alone starts the process, ends it, or is no
\* step of the abstract table at all.
LEMMA RefinesFileKept ==
  ASSUME file' = file
  PROVE  Abstract!Run \/ Abstract!Stop \/ UNCHANGED Abstract!vars
<1>1. Store' = Store
  BY DEF Store, Rows
<1>2. (pc \in Running)' \in BOOLEAN /\ (pc \in Running) \in BOOLEAN
  OBVIOUS
<1>3. CASE (pc \in Running)' = TRUE
  BY <1>1, <1>3 DEF Abstract!Run, Store
<1>4. CASE (pc \in Running)' = FALSE
  BY <1>1, <1>4 DEF Abstract!Stop, Store
<1> QED
  BY <1>2, <1>3, <1>4

\* The append of an INSERT.
LEMMA RefinesAppend ==
  ASSUME IInv, NextIdInv, append_insert_row
  PROVE  Abstract!Next \/ UNCHANGED Abstract!vars
<1> DEFINE t == job.table
           l == [cells |-> Header[t].ncol, id |-> job.id, val |-> job.val]
<1>1. /\ pc = "append" /\ pc' = "count" /\ job \in Job /\ t \in Tables
      /\ file \in [Tables -> Seq(Line)]
      /\ job.id \in Id \cup {NoId} /\ job.val \in Values
  BY DEF append_insert_row, IInv, TypeOK, Job
<1>2. (pc \in Running) = TRUE /\ (pc \in Running)' = TRUE
  BY <1>1 DEF Running
<1>3. PICK x \in RowTexts(t, job.id, job.val) : file' = [file EXCEPT ![t] = @ \o x]
  BY DEF append_insert_row
<1>4. x \in Seq(Line) /\ file'[t] = file[t] \o x
  BY <1>1, <1>3, TextType
<1>5. CASE t \notin PkTables
  <2>1. \A s \in PkTables : file'[s] = file[s]
    BY <1>1, <1>5, <1>3 DEF PkTables
  <2>2. Store' = Store
    BY <2>1 DEF Store, Rows
  <2> QED
    BY <1>2, <2>2 DEF Abstract!vars, Store
<1>6. CASE t \in PkTables /\ ~Whole(file[t])
  <2>1. ~Whole(file'[t])
    BY <1>1, <1>4, <1>6, Longer
  <2>2. Store' = Store
    BY <1>1, <1>3, <1>4, <1>6, <2>1, BrokenInStore
  <2> QED
    BY <1>2, <2>2 DEF Abstract!vars, Store
<1>7. CASE t \in PkTables /\ Whole(file[t]) /\ ~Whole(file'[t])
  <2>1. Store' = [Store EXCEPT ![t] = Abstract!BrokenUp]
    BY <1>1, <1>3, <1>4, <1>7, BrokenInStore
  <2>2. Store[t].ok = TRUE
    BY <1>1, <1>7, AppendingTo DEF Store, Rows
  <2>3. Abstract!BreakUp(t)
    BY <1>2, <2>1, <2>2 DEF Abstract!BreakUp, Store
  <2> QED
    BY <1>7, <2>3 DEF Abstract!Next
<1>8. CASE t \in PkTables /\ Whole(file[t]) /\ Whole(file'[t])
  <2>0. job.val \notin Split
    BY <1>1, <1>8, <1>3, <1>4, SplitShows
  <2>1. /\ Loadable(t, file[t])
        /\ job.id \in Id /\ job.val \in Values /\ Header[t].ncol # 0
        /\ MaxInt \notin Ids(file[t]) =>
             job.id \notin Ids(file[t]) /\ job.id = Max(Ids(file[t]) \cup {0}) + 1
    BY <1>1, <1>8, AppendingTo
  <2>2. x = <<l>>
    <3>1. x = RowText(t, job.id, job.val)
      BY <1>1, <1>3, <2>0, RowTextIs
    <3> QED
      BY <1>8, <3>1 DEF RowText, PkTables
  <2>3. l \in Line /\ l.cells # 0 /\ l.cells = Header[t].ncol /\ l.id = job.id /\ l.val = job.val
    BY <1>1, <2>1, EngineAssumption DEF Line
  <2>4. file' = [file EXCEPT ![t] = @ \o <<l>>]
    BY <1>3, <2>2
  <2>5. Store[t].ok = TRUE /\ DOMAIN Store[t].rows = Ids(file[t])
    BY <1>8, <2>1 DEF Store, Rows
  <2> HIDE DEF l
  <2>6. CASE MaxInt \notin Ids(file[t])
    <3>1. Store' = [Store EXCEPT ![t].rows = Abstract!WithRow(@, l.id, l.val)]
      BY <1>1, <1>8, <2>1, <2>3, <2>4, <2>6, <2>0, LineInStore
    <3>2. l.id = Max(DOMAIN Store[t].rows \cup {0}) + 1
      BY <2>1, <2>3, <2>5, <2>6
    <3>3. l.id = Abstract!Max(DOMAIN Store[t].rows \cup {0}) + 1
      BY <3>2 DEF Abstract!Max, Max
    <3>4. Abstract!Insert(t, job.val)
      BY <1>2, <2>3, <2>5, <2>6, <3>1, <3>3 DEF Abstract!Insert, Store
    <3> QED
      BY <1>8, <2>1, <3>4 DEF Abstract!Next
  <2>7. CASE MaxInt \in Ids(file[t])
    <3>1. \/ /\ l.id \in Id \ DOMAIN Store[t].rows
             /\ Store' = [Store EXCEPT ![t].rows = Abstract!WithRow(@, l.id, l.val)]
          \/ Store' = [Store EXCEPT ![t] = Abstract!Unreadable]
      BY <1>1, <1>8, <2>1, <2>3, <2>4, <2>0, LineInStore
    <3>2. Abstract!Saturated(t)
      BY <1>2, <2>1, <2>3, <2>5, <2>7, <3>1 DEF Abstract!Saturated, Store
    <3> QED
      BY <1>8, <3>2 DEF Abstract!Next
  <2> QED
    BY <2>6, <2>7
<1> QED
  BY <1>5, <1>8, <1>6, <1>7

\* The write of an INSERT that fails.
LEMMA RefinesTornWrite ==
  ASSUME IInv, NextIdInv, AppendFails
  PROVE  Abstract!Next \/ UNCHANGED Abstract!vars
<1> DEFINE t == job.table
<1>1. /\ pc = "append" /\ pc' = "exit" /\ job \in Job /\ t \in Tables
      /\ file \in [Tables -> Seq(Line)]
      /\ job.id \in Id \cup {NoId} /\ job.val \in Values
  BY DEF AppendFails, Fail, AfterFailure, IInv, TypeOK, Job
<1>2. (pc \in Running) = TRUE /\ (pc \in Running)' = FALSE
  BY <1>1 DEF Running
<1>3. PICK text \in TornText(t, job.id, job.val) : file' = [file EXCEPT ![t] = @ \o text]
  BY DEF AppendFails
<1>4. text \in Seq(Line) /\ file'[t] = file[t] \o text
  BY <1>1, <1>3, TextType
<1>5. CASE t \notin PkTables
  <2>1. \A s \in PkTables : file'[s] = file[s]
    BY <1>1, <1>3, <1>5 DEF PkTables
  <2>2. Store' = Store
    BY <2>1 DEF Store, Rows
  <2>3. Abstract!Stop
    BY <1>2, <2>2 DEF Abstract!Stop, Store
  <2> QED
    BY <2>3 DEF Abstract!Next
<1>6. CASE text = <<>>
  <2>1. file[t] \o text = file[t]
    BY <1>1, <1>6, ConcatEmptySeq
  <2>2. file' = file
    BY <1>1, <1>3, <2>1
  <2> QED
    BY <2>2, RefinesFileKept DEF Abstract!Next
<1>7. CASE t \in PkTables /\ ~Whole(file[t])
  <2>1. ~Whole(file'[t])
    BY <1>1, <1>4, <1>7, Longer
  <2>2. Store' = Store
    BY <1>1, <1>3, <1>4, <1>7, <2>1, BrokenInStore
  <2>3. Abstract!Stop
    BY <1>2, <2>2 DEF Abstract!Stop, Store
  <2> QED
    BY <2>3 DEF Abstract!Next
<1>8. CASE t \in PkTables /\ Whole(file[t]) /\ ~Whole(file'[t])
  <2>1. Store' = [Store EXCEPT ![t] = Abstract!BrokenUp]
    BY <1>1, <1>3, <1>4, <1>8, BrokenInStore
  <2>2. Store[t].ok = TRUE
    BY <1>1, <1>8, AppendingTo DEF Store, Rows
  <2>3. Abstract!BreakUp(t)
    BY <1>2, <2>1, <2>2 DEF Abstract!BreakUp, Store
  <2> QED
    BY <1>8, <2>3 DEF Abstract!Next
<1>9. CASE t \in PkTables /\ Whole(file[t]) /\ Whole(file'[t]) /\ text # <<>>
  <2>1. Loadable(t, file[t]) /\ job.id \in Id /\ Header[t].ncol # 0
    BY <1>1, <1>9, AppendingTo
  <2>2. PICK l \in Line : text = <<l>> /\ l.cells # 0 /\ l.val \notin Split
    <3>1. job.val \notin Split \/ text \notin RowTexts(t, job.id, job.val)
      BY <1>1, <1>4, <1>9, SplitShows
    <3> QED
      BY <1>1, <1>3, <1>9, <3>1, TornLine
  <2>3. file' = [file EXCEPT ![t] = @ \o <<l>>]
    BY <1>3, <2>2
  <2>4. Store[t].ok = TRUE
    BY <1>9, <2>1 DEF Store, Rows
  <2>5. \/ /\ l.id \in Id \ DOMAIN Store[t].rows
           /\ Store' = [Store EXCEPT ![t].rows = Abstract!WithRow(@, l.id, l.val)]
        \/ Store' = [Store EXCEPT ![t] = Abstract!Unreadable]
    BY <1>1, <1>9, <2>1, <2>2, <2>3, LineInStore
  <2>6. l.val \in Values
    BY DEF Line
  <2>7. Abstract!Tear(t)
    BY <1>2, <2>4, <2>5, <2>6 DEF Abstract!Tear, Store
  <2> QED
    BY <1>9, <2>7 DEF Abstract!Next
<1> QED
  BY <1>5, <1>6, <1>7, <1>8, <1>9

LEMMA RefinesStep == IInv /\ NextIdInv /\ [Next]_vars => [Abstract!Next]_(Abstract!vars)
<1> SUFFICES ASSUME IInv, NextIdInv, [Next]_vars
             PROVE  Abstract!Next \/ UNCHANGED Abstract!vars
  OBVIOUS
<1>1. CASE append_insert_row
  BY <1>1, RefinesAppend
<1>2. CASE AppendFails
  BY <1>2, RefinesTornWrite
<1>3. CASE file' = file
  BY <1>3, RefinesFileKept DEF Abstract!Next
<1> QED
  BY <1>1, <1>2, <1>3 DEF Next, Start, EndScript, Exit, Crash, Down, prepare_insert_values,
     PrepareFails, AppendRefused, count_rows, CountFails, on_append_success, IndexFails,
     SelectWhere, SelectScan, SelectFails, vars

\* The engine implements the abstract table: an INSERT adds one row under the
\* id that follows the largest, nothing else changes a row, and damage comes
\* only from a torn write that ends its process, from a text that the readers
\* break up, or when the largest integer has been used
\* (executor_execute_insert, week7_index.c).
THEOREM PkTableImplemented == Spec => ImplementsPkTable
<1>1. Spec => []IInv
  BY InvCorrect
<1>2. Spec => []NextIdInv
  BY NextIdCorrect
<1> QED
  BY <1>1, <1>2, RefinesInit, RefinesStep, PTL DEF Spec, ImplementsPkTable, Abstract!Spec
=============================================================================
