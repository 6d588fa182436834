----------------------------- MODULE SqlEngine -----------------------------
(***************************************************************************)
(* The execution core of the SQL processor: one process at a time runs a   *)
(* script against CSV files (csv_storage.c), keeping for every table it    *)
(* touches an id index and the next id to hand out (week7_index.c).  An    *)
(* INSERT is four steps -- prepare the values, append the line, count the  *)
(* rows, enter the new id in the index -- and it can fail, or the process  *)
(* can die, between any two of them; what was appended is never taken back.*)
(* The index lives in memory only and is rebuilt from the file by the next *)
(* process that needs it.                                                  *)
(*                                                                         *)
(* A file is the sequence of its lines after the header, a line being what *)
(* the readers make of it: how many cells it has (0: whitespace only), the *)
(* id its first cell holds under the strict parser (NoId: not an integer)  *)
(* and the rest of its text, `val'.  A row is one line, or several if the  *)
(* readers break it up (Split).  Bytes, line ends and quoting are the      *)
(* subject of CsvStorage; the B+ tree that holds the index is the subject  *)
(* of BPlusTree and is here the map it implements.                         *)
(***************************************************************************)
EXTENDS Integers, Sequences, FiniteSets, FiniteSetsExt

CONSTANTS
  Tables,     \* names of tables
  Header,     \* Header[t].ncol: columns (0: no file, or an empty one);
              \* Header[t].idpk: the first column is named id
  Values,     \* the text of a row after its id
  NullVal,    \* the value of a row all of whose fields are NULL
  Split,      \* the texts whose row is several lines for the readers: a string
              \* with a line feed, or a row longer than what fgets reads at once
  Rests,      \* what can follow the first line of such a row, cut short or not
  NoId,       \* a first cell that is not an integer
  MaxInt,     \* INT64_MAX
  Radix,      \* 10: the base ids are written in
  InitFiles,  \* InitFiles[t]: the files t may have before the first process
  MaxLines,   \* bound: an INSERT starts only on a file with fewer lines
  Faults      \* which of "memory", "read", "write", "crash" may happen

MinInt == -MaxInt - 1
Id     == MinInt .. MaxInt
Line   == [cells : Nat, id : Id \cup {NoId}, val : Values]

ASSUME EngineAssumption ==
  /\ Header \in [Tables -> [ncol : Nat, idpk : BOOLEAN]]
  /\ MaxInt \in Nat \ {0}
  /\ Radix \in Nat \ {0, 1}
  /\ NoId \notin Id
  /\ NullVal \in Values
  /\ Split \subseteq Values \ {NullVal}
  /\ Rests \subseteq Seq(Line)
  /\ \A t \in Tables : InitFiles[t] \subseteq Seq(Line)
  /\ MaxLines \in Nat

VARIABLES
  file,    \* file[t]: the lines of data/t.csv after the header
  ent,     \* ent[t]: the process's cache entry for t (Ent, week7_index.c)
  pc,      \* where the process is
  job,     \* the INSERT it is executing
  acked    \* history: [table, id, val] of every INSERT reported as done

vars == <<file, ent, pc, job, acked>>

-----------------------------------------------------------------------------
(* Readers: what a line number, a row number and a row count mean.         *)

\* Every reader skips the lines that hold only whitespace.
NonBlank(f) == {i \in 1 .. Len(f) : f[i].cells # 0}

\* Mutant: numbers the rows from -1.
RowNoFromMinusOne(f, i) == Cardinality({j \in NonBlank(f) : j < i}) - 1

\* The 0-based row number of line i: the position read_table gives it.
RowNo(f, i) == Cardinality({j \in NonBlank(f) : j < i})

data_row_count(f) == Cardinality(NonBlank(f))

\* A line with another number of cells than the header fails the reader.
WellFormed(t, f, i) == f[i].cells = Header[t].ncol

read_table_ok(t, f) ==
  /\ Header[t].ncol > 0
  /\ \A i \in NonBlank(f) : WellFormed(t, f, i)

\* read_table_row for a row number, or for NoRow ((size_t)-1, a number no
\* row has): it reads, and checks, the lines up to the row it is after.
NoRow == -1
\* Mutant: counts the blank lines too.
read_table_row_with_blanks(f, n) == {i \in NonBlank(f) : i - 1 = n}

read_table_row(f, n) == {i \in NonBlank(f) : RowNo(f, i) = n}
read_table_row_ok(t, f, n) ==
  /\ Header[t].ncol > 0
  /\ \A i \in NonBlank(f) : (n = NoRow \/ RowNo(f, i) <= n) => WellFormed(t, f, i)

-----------------------------------------------------------------------------
(* The id index of a table.                                                *)

EmptyTree == [k \in {} |-> 0]
Unloaded  == [loaded |-> FALSE, id_pk |-> FALSE, next_id |-> 1, tree |-> EmptyTree]

\* Mutant: a wider integer.
SuccUnbounded(n) == n + 1

\* next_id is an int64_t: past the largest value it wraps around.
Succ(n) == IF n = MaxInt THEN MinInt ELSE n + 1

Ids(f) == {f[i].id : i \in NonBlank(f)}
LineOf(f, k) == CHOOSE i \in NonBlank(f) : f[i].id = k

\* The loader takes a file only if every row's id parses and none repeats.
Loadable(t, f) ==
  /\ read_table_ok(t, f)
  /\ Header[t].idpk =>
       /\ \A i \in NonBlank(f) : f[i].id \in Id
       /\ \A i, j \in NonBlank(f) : f[i].id = f[j].id => i = j

\* Mutant: the loader numbers lines, not rows.
LoadedEntByLine(t, f) ==
  IF Header[t].idpk
  THEN [loaded |-> TRUE, id_pk |-> TRUE,
        next_id |-> Succ(Max(Ids(f) \cup {0})),
        tree |-> [k \in Ids(f) |-> LineOf(f, k) - 1]]
  ELSE [Unloaded EXCEPT !.loaded = TRUE]

LoadedEnt(t, f) ==
  IF Header[t].idpk
  THEN [loaded |-> TRUE, id_pk |-> TRUE,
        next_id |-> Succ(Max(Ids(f) \cup {0})),
        tree |-> [k \in Ids(f) |-> RowNo(f, LineOf(f, k))]]
  ELSE [Unloaded EXCEPT !.loaded = TRUE]

\* ensure_loaded: an entry that is loaded is used as it is.
CanLoad(t) == ent[t].loaded \/ Loadable(t, file[t])
ensure_loaded(t) == IF ent[t].loaded THEN ent[t] ELSE LoadedEnt(t, file[t])

\* bplus_insert of a key that is not there.
TreeInsert(tree, k, n) ==
  [x \in DOMAIN tree \cup {k} |-> IF x = k THEN n ELSE tree[x]]

\* Mutants: next_id moves on one id too late; it never moves.
IndexedLate(e, id, n) ==
  [e EXCEPT !.tree = TreeInsert(@, id, n), !.next_id = IF id > @ THEN Succ(id) ELSE @]
IndexedKeepsNextId(e, id, n) == [e EXCEPT !.tree = TreeInsert(@, id, n)]

\* on_append_success: the new id is entered and never handed out again.
Indexed(e, id, n) ==
  [e EXCEPT !.tree    = TreeInsert(@, id, n),
            !.next_id = IF id >= @ THEN Succ(id) ELSE @]

\* The lines WHERE id = k prints, given the entry e.
where_rows(e, f, k) ==
  read_table_row(f, IF k \in DOMAIN e.tree THEN e.tree[k] ELSE NoRow)

-----------------------------------------------------------------------------
(* What append_insert_row writes.                                          *)

\* A table that has only an id stores nothing else.
RowVals(t) ==
  IF Header[t].idpk /\ Header[t].ncol = 1 THEN {NullVal} ELSE Values

\* A row is one line, an empty one if it is a lone empty field; of a text to be
\* broken up the first line has the id, for an id is short, and what else fits.
RowTexts(t, id, v) ==
  LET Cells(c) == [cells |-> c, id |-> id, val |-> v]
      first    == IF Header[t].idpk THEN 2 ELSE 1
  IN  IF v \in Split
      THEN {<<Cells(c)>> \o r : c \in first .. Header[t].ncol, r \in Rests}
      ELSE IF v = NullVal /\ Header[t].ncol = 1 /\ ~Header[t].idpk
           THEN {<<>>} ELSE {<<Cells(Header[t].ncol)>>}

\* No row of the file was broken up.
Whole(f) == \A i \in DOMAIN f : f[i].val \notin Split

\* What can be left of an id whose last digits were not written.
CutId(id) ==
  IF id \notin Id THEN {NoId}
  ELSE {NoId, id} \cup {p \in Id : \E k \in 1 .. MaxInt : /\ p # 0
          /\ p = IF id < 0 THEN -((-id) \div Radix^k) ELSE id \div Radix^k}

\* A write that stopped half-way: no line yet, one cut in its first cell or in a
\* later one, or more than the first line of a text to be broken up.
TornText(t, id, v) ==
  LET cuts == {<<1, x>> : x \in CutId(id)} \cup {<<c, id>> : c \in 2 .. Header[t].ncol}
  IN  {<<>>} \cup {<<[cells |-> c[1], id |-> c[2], val |-> w]>> : c \in cuts, w \in RowVals(t) \ Split}
        \cup (IF v \in Split THEN RowTexts(t, id, v) ELSE {})

-----------------------------------------------------------------------------
NoJob == [table |-> "none"]
Job   == {j \in [table : Tables, n : Nat, val : Values, indexed : BOOLEAN,
                 id : Id \cup {NoId}, had : Nat, row : Nat] : j.indexed => j.id \in Id}

Running == {"ready", "append", "count", "index"}

IsTree(T) == /\ T = [k \in DOMAIN T |-> T[k]]
             /\ DOMAIN T \subseteq Id
             /\ \A k \in DOMAIN T : T[k] \in Nat

IsEnt(e) == /\ e \in [loaded : BOOLEAN, id_pk : BOOLEAN, next_id : Id, tree : {e.tree}]
            /\ IsTree(e.tree)

\* Files hold lines, the entries are entries -- with an int64_t for next_id
\* and row numbers for payloads -- and an INSERT in progress is complete.
TypeOK ==
  /\ file \in [Tables -> Seq(Line)]
  /\ ent = [t \in Tables |-> ent[t]] /\ \A t \in Tables : IsEnt(ent[t])
  /\ pc \in Running \cup {"down", "exit"}
  /\ pc \in {"append", "count", "index"} => job \in Job
  /\ acked \subseteq [table : Tables, id : Id, val : Values]

Init ==
  /\ file \in [Tables -> UNION {InitFiles[t] : t \in Tables}]
  /\ \A t \in Tables : file[t] \in InitFiles[t]
  /\ ent = [t \in Tables |-> Unloaded]
  /\ pc = "down"
  /\ job = NoJob
  /\ acked = {}

-----------------------------------------------------------------------------
(* Statements.  A statement that fails ends the run (run_sql_text returns  *)
(* the first non-zero code, and main exits with it).                       *)

\* Mutant: the run goes on after a failed statement.
AfterFailureGoOn == "ready"
AfterFailure == "exit"

Fail(e) == /\ pc' = AfterFailure
           /\ ent' = e
           /\ job' = NoJob

\* The entry of t once ensure_loaded has been called, failing or not.
EntAfterLoad(t) == IF CanLoad(t) THEN ensure_loaded(t) ELSE Unloaded

Start == /\ pc = "down"
         /\ pc' = "ready"
         /\ UNCHANGED <<file, ent, job, acked>>

\* The script is over, or its next statement does not parse.
EndScript == /\ pc = "ready"
             /\ pc' = "exit"
             /\ UNCHANGED <<file, ent, job, acked>>

\* The process's memory goes with it.
Down == /\ pc' = "down"
        /\ ent' = [t \in Tables |-> Unloaded]
        /\ job' = NoJob
        /\ UNCHANGED <<file, acked>>

Exit  == pc = "exit" /\ Down
Crash == "crash" \in Faults /\ pc \in Running /\ Down

\* The values an INSERT of n values into t may have, and where it stops.
CanPrepare(t, n) ==
  /\ CanLoad(t)
  /\ ensure_loaded(t).id_pk => n = Header[t].ncol \/ n + 1 = Header[t].ncol

prepare_insert_values(t, n, v) ==
  LET e == ensure_loaded(t) IN
  /\ pc = "ready" /\ Len(file[t]) < MaxLines
  /\ CanPrepare(t, n)
  /\ ent' = [ent EXCEPT ![t] = e]
  /\ job' = [table |-> t, n |-> IF e.id_pk THEN Header[t].ncol ELSE n, val |-> v,
             indexed |-> e.id_pk, id |-> IF e.id_pk THEN e.next_id ELSE NoId,
             had |-> data_row_count(file[t]), row |-> 0]
  /\ pc' = "append"
  /\ UNCHANGED <<file, acked>>

PrepareFails(t, n) ==
  /\ pc = "ready" /\ Len(file[t]) < MaxLines
  /\ \/ /\ ~CanPrepare(t, n)
        /\ Fail([ent EXCEPT ![t] = EntAfterLoad(t)])
     \/ /\ "memory" \in Faults
        /\ \E e \in {ent[t], EntAfterLoad(t)} : Fail([ent EXCEPT ![t] = e])
  /\ UNCHANGED <<file, acked>>

append_insert_row ==
  LET t == job.table IN
  /\ pc = "append"
  /\ job.n = Header[t].ncol
  /\ \E text \in RowTexts(t, job.id, job.val) : file' = [file EXCEPT ![t] = @ \o text]
  /\ pc' = "count"
  /\ UNCHANGED <<ent, job, acked>>

AppendRefused == /\ pc = "append"
                 /\ job.n # Header[job.table].ncol
                 /\ Fail(ent)
                 /\ UNCHANGED <<file, acked>>

\* Mutant: the result of fputc and fclose is not looked at.
AppendFailsUnnoticed ==
  /\ pc = "append" /\ job.n = Header[job.table].ncol /\ "write" \in Faults
  /\ \E text \in TornText(job.table, job.id, job.val) :
        file' = [file EXCEPT ![job.table] = @ \o text]
  /\ pc' = "count"
  /\ UNCHANGED <<ent, job, acked>>

AppendFails ==
  /\ pc = "append" /\ job.n = Header[job.table].ncol /\ "write" \in Faults
  /\ \E text \in TornText(job.table, job.id, job.val) :
        file' = [file EXCEPT ![job.table] = @ \o text]
  /\ Fail(ent)
  /\ UNCHANGED acked

count_rows ==
  LET total == data_row_count(file[job.table]) IN
  /\ pc = "count"
  /\ total # 0
  /\ job' = [job EXCEPT !.row = total - 1]
  /\ pc' = "index"
  /\ UNCHANGED <<file, ent, acked>>

\* Mutant: the row is taken back when it cannot be counted.
CountFailsUndone ==
  /\ pc = "count"
  /\ data_row_count(file[job.table]) = 0 \/ "read" \in Faults
  /\ file' = [file EXCEPT ![job.table] = SubSeq(@, 1, Len(@) - 1)]
  /\ Fail(ent)
  /\ UNCHANGED acked

CountFails == /\ pc = "count"
              /\ data_row_count(file[job.table]) = 0 \/ "read" \in Faults
              /\ Fail(ent)
              /\ UNCHANGED <<file, acked>>

\* The INSERT succeeds: at once for a table without an id, and otherwise
\* when bplus_insert took the new id.
on_append_success ==
  LET t == job.table IN
  /\ pc = "index"
  /\ job.indexed => job.id \notin DOMAIN ent[t].tree
  /\ ent' = IF job.indexed THEN [ent EXCEPT ![t] = Indexed(@, job.id, job.row)] ELSE ent
  /\ acked' = IF job.indexed
              THEN acked \cup {[table |-> t, id |-> job.id, val |-> job.val]} ELSE acked
  /\ pc' = "ready"
  /\ job' = NoJob
  /\ UNCHANGED file

\* The id is there already; or there is no memory for the split it needs,
\* and then part of the keys can no longer be reached from the root.
IndexFails ==
  LET t == job.table
      grown == TreeInsert(ent[t].tree, job.id, job.row) IN
  /\ pc = "index" /\ job.indexed
  /\ \/ job.id \in DOMAIN ent[t].tree /\ Fail(ent)
     \/ /\ "memory" \in Faults /\ job.id \notin DOMAIN ent[t].tree
        /\ \E S \in SUBSET DOMAIN grown :
             Fail([ent EXCEPT ![t].tree = Restrict(grown, S)])
  /\ UNCHANGED <<file, acked>>

\* The integers a script may write after WHERE id =, one too small and one too
\* large included; strtoll makes those the smallest and the largest.
Literal == MinInt - 1 .. MaxInt + 1

strtoll(n) == IF n > MaxInt THEN MaxInt ELSE IF n < MinInt THEN MinInt ELSE n

\* SELECT ... WHERE id = n: loads the index, reads the one row.
where_ok(t, e, f, k) ==
  /\ read_table_row_ok(t, f, IF k \in DOMAIN e.tree THEN e.tree[k] ELSE NoRow)
  /\ Cardinality(where_rows(e, f, k)) = IF k \in DOMAIN e.tree THEN 1 ELSE 0

SelectWhere(t, n) ==
  /\ pc = "ready" /\ CanLoad(t)
  /\ ensure_loaded(t).id_pk
  /\ where_ok(t, ensure_loaded(t), file[t], strtoll(n))
  /\ ent' = [ent EXCEPT ![t] = ensure_loaded(t)]
  /\ UNCHANGED <<file, pc, job, acked>>

\* SELECT without WHERE reads the whole file and touches no state.
SelectScan(t) == pc = "ready" /\ read_table_ok(t, file[t]) /\ UNCHANGED vars

\* A SELECT can always fail: it may name a column the table has not.
SelectFails(t) ==
  /\ pc = "ready"
  /\ \E e \in {ent[t], EntAfterLoad(t)} : Fail([ent EXCEPT ![t] = e])
  /\ UNCHANGED <<file, acked>>

Next ==
  \/ Start \/ EndScript \/ Exit \/ Crash
  \/ \E t \in Tables : \E n \in 0 .. Header[t].ncol + 1 :
        \/ PrepareFails(t, n)
        \/ \E v \in RowVals(t) : prepare_insert_values(t, n, v)
  \/ append_insert_row \/ AppendRefused \/ AppendFails
  \/ count_rows \/ CountFails
  \/ on_append_success \/ IndexFails
  \/ \E t \in Tables : \/ \E n \in Literal : SelectWhere(t, n)
                       \/ SelectScan(t)
                       \/ SelectFails(t)

Spec == Init /\ [][Next]_vars

-----------------------------------------------------------------------------
(* Properties.                                                             *)

\* The process is running and not between the append of a row to t and the
\* entry of that row in the index of t.
Settled(t) == pc \in Running /\ (pc \in {"count", "index"} => job.table # t)

HasIndex(t) == ent[t].loaded /\ ent[t].id_pk

\* Whenever a statement can look at it, the index of a table lists exactly
\* the ids that are on file, each with the row number under which the reader
\* finds its row -- across failed statements, lost processes and files
\* written by hand, blank lines included (week7_ensure_loaded,
\* week7_on_append_success, and the row number executor_execute_insert makes
\* of the row count).  This and the next two promise nothing of a table with
\* a row that the readers break up: its lines are counted as rows.
IndexAgrees ==
  \A t \in Tables : Settled(t) /\ HasIndex(t) /\ Whole(file[t]) =>
    /\ DOMAIN ent[t].tree = Ids(file[t])
    /\ \A i \in NonBlank(file[t]) : ent[t].tree[file[t][i].id] = RowNo(file[t], i)

\* The id the next INSERT will write is above every id on file, as long as
\* the largest integer is not one of them (next_id of week7_index.c).
NextIdIsFresh ==
  \A t \in Tables : Settled(t) /\ HasIndex(t) /\ Whole(file[t]) /\ MaxInt \notin Ids(file[t]) =>
    \A k \in Ids(file[t]) : k < ent[t].next_id

\* The lines whose id a reader of the whole file finds equal to n.
scan_rows(f, n) == {i \in NonBlank(f) : f[i].id = n}

\* n is an id, or outside the type at an end that no row has.
InRange(n, K) == (n > MaxInt => MaxInt \notin K) /\ (n < MinInt => MinInt \notin K)

\* SELECT ... WHERE id = n through the index prints the very rows a full scan
\* of the table would keep, and does not fail, for every table that is loaded
\* or can be (executor_execute_select, both of its paths).  An integer outside
\* the type finds nothing either, unless the end of the type it is turned into
\* is an id on file.
WhereAgreesWithScan ==
  \A t \in Tables : Settled(t) /\ Whole(file[t]) /\ CanLoad(t) /\ ensure_loaded(t).id_pk =>
    \A n \in Literal : InRange(n, Ids(file[t])) =>
      /\ where_rows(ensure_loaded(t), file[t], strtoll(n)) = scan_rows(file[t], n)
      /\ where_ok(t, ensure_loaded(t), file[t], strtoll(n))

\* A loadable table becomes unloadable -- a row of another width, an id the
\* strict parser refuses, an id that is there already -- in three ways only: by
\* a write that stopped half-way, by an INSERT of a text that the readers break
\* up (a line feed, a row longer than their buffer), or when the largest
\* integer is on file and what follows it is outside the type
\* (executor_execute_insert as a whole).
LoadableKept ==
  [][\A t \in Tables :
        Loadable(t, file[t]) /\ Whole(file[t]) /\ MaxInt \notin Ids(file[t]) =>
          \/ Loadable(t, file'[t])
          \/ AppendFails
          \/ append_insert_row /\ job.val \in Split]_vars

\* A row an INSERT reported as stored is the one row every later process that
\* can load the table finds under its id, with the values of that INSERT, or
\* with the first line of them if the readers broke it up.
AckedRowFound ==
  \A a \in acked : LET f == file[a.table] IN Loadable(a.table, f) =>
    \E i \in NonBlank(f) :
      /\ where_rows(LoadedEnt(a.table, f), f, a.id) = {i}
      /\ f[i].id = a.id /\ f[i].val = a.val

\* docs/03-api-reference.md:63: an INSERT that succeeds adds one data row at
\* the end of the CSV file.
AckedInsertAddsOneRow ==
  [][pc = "index" /\ pc' = "ready" =>
        data_row_count(file[job.table]) = job.had + 1]_vars

\* docs/03-api-reference.md:71: the id an INSERT writes is the largest id on
\* file plus one, hence above all of them.
WrittenIdIsAboveStored ==
  [][pc = "append" /\ pc' = "count" /\ job.indexed =>
        \A k \in Ids(file[job.table]) : k < job.id]_vars

-----------------------------------------------------------------------------
(* The tables with an id, as PkTable sees them.                            *)

\* A table with a row that was broken up is given up for good.
Rows(t) ==
  LET f == file[t] IN
  IF ~Whole(f) THEN [ok |-> FALSE, brokenUp |-> TRUE]
  ELSE IF Loadable(t, f)
  THEN [ok |-> TRUE, rows |-> [k \in Ids(f) |-> f[LineOf(f, k)].val]]
  ELSE [ok |-> FALSE, rows |-> EmptyTree]

PkTables == {t \in Tables : Header[t].idpk}

Abstract == INSTANCE PkTable WITH
              Tables <- PkTables, Keys <- Id, TopId <- MaxInt,
              store <- [t \in PkTables |-> Rows(t)],
              alive <- pc \in Running

\* The engine, with its failures and restarts, does to the rows only what
\* PkTable allows: fresh increasing ids, one row per INSERT, no loss, and
\* damage only by a torn write that ends its process, by a text that the
\* readers break up, or after the largest integer was used.
ImplementsPkTable == Abstract!Spec
=============================================================================
