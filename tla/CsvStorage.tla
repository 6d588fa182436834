----------------------------- MODULE CsvStorage -----------------------------
(***************************************************************************)
(* One table file, byte for byte, as csv_storage.c reads it and appends to *)
(* it.  All readers take the file apart with fgets, into pieces that end   *)
(* after a line feed or where the buffer is full, skip the pieces that are *)
(* only white space, and split the others into cells.  append_insert_row   *)
(* opens the file three times -- to compare the number of values with the  *)
(* header, to look at the last byte, to append -- and the write can stop   *)
(* after any byte.  A row is written without a line end, and no lock keeps *)
(* other processes out between the look and the write.  SqlEngine, which   *)
(* sees a file as the list of its lines, rests on the properties here.     *)
(***************************************************************************)
EXTENDS Integers, Sequences, SequencesExt

CONSTANTS
  LineCap,     \* CSV_LINE_CAP, 8192: fgets reads one byte less
  Writers,     \* processes that append
  InsertRows,  \* InsertRows[w]: the values an INSERT of w may have, [kind, text] each
  InitFiles,   \* the files there may be before the first INSERT
  MaxBytes     \* bound: w starts an INSERT only on a file with fewer than
               \* MaxBytes[w] bytes

Quote == "dq"
Space == {" ", "cr", "nl"}
Bytes == Space \cup {Quote, ",", "x"}

\* The digits of an INT mean nothing to a reader; a NULL has no text.
SqlValue == {v \in [kind : {"INT", "STRING", "NULL"}, text : Seq(Bytes)] :
               /\ v.kind = "INT" => v.text # <<>> /\ ToSet(v.text) = {"x"}
               /\ v.kind = "NULL" => v.text = <<>>}

ASSUME CsvAssumption ==
  /\ LineCap \in Nat \ {0, 1} /\ MaxBytes \in [Writers -> Nat]
  /\ InitFiles \subseteq Seq(Bytes)
  /\ \A w \in Writers : InsertRows[w] \subseteq Seq(SqlValue) \ {<<>>}

VARIABLES
  file,         \* the bytes of data/t.csv
  pc,           \* pc[w]: the INSERT of w, "idle", "measure" or "write"
  row,          \* its values
  need_newline  \* the last byte of the file was not a line end

vars == <<file, pc, row, need_newline>>

-----------------------------------------------------------------------------
(* The pieces of a file, and the cells of a piece.                         *)

\* The positions from p on whose byte is (is not) in B; else the one after.
FirstIn(s, p, B)  == Min({q \in p .. Len(s) : s[q] \in B} \cup {Len(s) + 1})
FirstOut(s, p, B) == Min({q \in p .. Len(s) : s[q] \notin B} \cup {Len(s) + 1})

\* The last byte of the piece that begins at p.
LineEnd(f, p) == Min({FirstIn(f, p, {"nl"}), p + LineCap - 2, Len(f)})
fgets(f, p)   == SubSeq(f, p, LineEnd(f, p))

\* What is asked of the header of a table: if it is all there is and ends with
\* a lone CR, which an INSERT takes for a line end, no quote hides that CR from
\* the readers, who would take the row for a part of the header.
HeaderStands(f) ==
  LET header == fgets(f, 1) IN
  Last(header) = "cr" => Quote \notin ToSet(header) \/ Len(header) = LineCap - 1

ASSUME HeaderAssumption == \A f \in InitFiles \ {<<>>} : HeaderStands(f)

is_blank_line(s) == ToSet(s) \subseteq Space

\* The pieces after the header that are rows.
DataPieces(f) ==
  LET from[p \in 1 .. Len(f) + 1] ==
        IF p > Len(f) THEN <<>>
        ELSE LET line == fgets(f, p) IN
             (IF is_blank_line(line) THEN <<>> ELSE <<line>>) \o from[p + Len(line)]
  IN  from[1 + Len(fgets(f, 1))]

\* In a quoted cell two quotes stand for one, and a quote alone ends the cell.
Closes(s, q) == s[q] = Quote /\ (q < Len(s) => s[q + 1] # Quote)
Width(s, q)  == IF s[q] = Quote THEN 2 ELSE 1

\* The quote that ends the cell opened at p, and the text between.
ClosingQuote(s, p) ==
  LET from[q \in 1 .. Len(s) + 1] ==
        IF q > Len(s) \/ Closes(s, q) THEN q ELSE from[q + Width(s, q)]
  IN  from[p + 1]

QuotedText(s, p) ==
  LET from[q \in 1 .. Len(s) + 1] ==
        IF q > Len(s) \/ Closes(s, q) THEN <<>> ELSE <<s[q]>> \o from[q + Width(s, q)]
  IN  from[p + 1]

Quoted(s, p) == p <= Len(s) /\ s[p] = Quote

CellText(s, p) == IF Quoted(s, p) THEN QuotedText(s, p)
                  ELSE SubSeq(s, p, FirstIn(s, p, {",", "nl", "cr"}) - 1)

\* Where the reader stands after the cell that begins at p.
CellEnd(s, p) ==
  IF ~Quoted(s, p) THEN FirstIn(s, p, {",", "nl", "cr"})
  ELSE IF ClosingQuote(s, p) > Len(s) THEN Len(s) + 1
  ELSE FirstOut(s, ClosingQuote(s, p) + 1, {" "})

\* What follows a cell and is not a comma is not looked at.
parse_csv_line(s) ==
  LET from[p \in 1 .. Len(s) + 1] ==
        LET e == CellEnd(s, p) IN
        <<CellText(s, p)>> \o IF e <= Len(s) /\ s[e] = "," THEN from[e + 1] ELSE <<>>
  IN  from[1]

-----------------------------------------------------------------------------
(* Readers.                                                                *)

column_count(f) == IF f = <<>> THEN 0 ELSE Len(parse_csv_line(fgets(f, 1)))

\* The cells of the rows.
Rows(f) == IF f = <<>> THEN <<>>
           ELSE LET d == DataPieces(f) IN [k \in DOMAIN d |-> parse_csv_line(d[k])]

Failed      == [ok |-> FALSE, rows |-> <<>>]
Table(rows) == [ok |-> TRUE, rows |-> rows]

WellFormed(f, r) == Len(r) = column_count(f)

read_table(f) ==
  IF f # <<>> /\ \A k \in DOMAIN Rows(f) : WellFormed(f, Rows(f)[k])
  THEN Table(Rows(f)) ELSE Failed

\* Row n, counted from 0: the rows before it, and itself, are checked.
read_table_row(f, n) ==
  LET rows == Rows(f)
      seen == SubSeq(rows, 1, Min({n + 1, Len(rows)}))
  IN  IF f = <<>> \/ \E k \in DOMAIN seen : ~WellFormed(f, seen[k]) THEN Failed
      ELSE Table(SubSeq(rows, n + 1, Len(seen)))

data_row_count(f) == IF f = <<>> THEN 0 ELSE Len(DataPieces(f))

-----------------------------------------------------------------------------
(* What append_insert_row writes.                                          *)

\* Mutant: a quote inside the text is written once.
append_csv_escaped_once(t) == <<Quote>> \o t \o <<Quote>>
append_csv_escaped(t) ==
  <<Quote>> \o FlattenSeq([k \in DOMAIN t |-> IF t[k] = Quote THEN <<Quote, Quote>>
                                              ELSE <<t[k]>>]) \o <<Quote>>

Field(v) == CASE v.kind = "INT"    -> v.text
              [] v.kind = "STRING" -> append_csv_escaped(v.text)
              [] v.kind = "NULL"   -> <<>>

RowBytes(r) ==
  FlattenSeq([c \in DOMAIN r |-> IF c = 1 THEN Field(r[c]) ELSE <<",">> \o Field(r[c])])

\* Mutant: only a file without a single line end gets one.
LineIsOpenAtAll(f) == \A q \in DOMAIN f : f[q] \notin {"nl", "cr"}
LineIsOpen(f) == Last(f) \notin {"nl", "cr"}

Written(w) == (IF need_newline[w] THEN <<"nl">> ELSE <<>>) \o RowBytes(row[w])

\* Mutant: fewer values than columns are let through.
HeaderTakesFewer(f, r) == f # <<>> /\ Len(r) <= column_count(f)
HeaderTakes(f, r)      == f # <<>> /\ Len(r) = column_count(f)

-----------------------------------------------------------------------------
\* While a row is being written it has a value for each column.
TypeOK ==
  /\ file \in Seq(Bytes)
  /\ pc \in [Writers -> {"idle", "measure", "write"}]
  /\ DOMAIN row = Writers
  /\ \A w \in Writers :
        IF pc[w] = "idle" THEN row[w] = <<>>
        ELSE row[w] \in InsertRows[w] /\ Len(row[w]) = column_count(file)
  /\ need_newline \in [Writers -> BOOLEAN]

Init == /\ file \in InitFiles
        /\ pc = [w \in Writers |-> "idle"]
        /\ row = [w \in Writers |-> <<>>]
        /\ need_newline = [w \in Writers |-> FALSE]

append_insert_row(w, r) ==
  /\ pc[w] = "idle" /\ Len(file) < MaxBytes[w]
  /\ HeaderTakes(file, r)
  /\ pc' = [pc EXCEPT ![w] = "measure"]
  /\ row' = [row EXCEPT ![w] = r]
  /\ UNCHANGED <<file, need_newline>>

Refuse(w, r) == /\ pc[w] = "idle" /\ ~HeaderTakes(file, r)
                /\ UNCHANGED vars

measure(w) == /\ pc[w] = "measure"
              /\ need_newline' = [need_newline EXCEPT ![w] = LineIsOpen(file)]
              /\ pc' = [pc EXCEPT ![w] = "write"]
              /\ UNCHANGED <<file, row>>

Return(w) == /\ pc' = [pc EXCEPT ![w] = "idle"]
             /\ row' = [row EXCEPT ![w] = <<>>]
             /\ need_newline' = [need_newline EXCEPT ![w] = FALSE]

open_fails(w) == pc[w] = "measure" /\ Return(w) /\ UNCHANGED file

write(w) == /\ pc[w] = "write"
            /\ Return(w)
            /\ file' = file \o Written(w)

\* The device is full, or the process is gone: some of the bytes are there.
write_fails(w) ==
  /\ pc[w] = "write"
  /\ Return(w)
  /\ LET text == Written(w) IN
     \E k \in 0 .. Len(text) : file' = file \o SubSeq(text, 1, k)

Next == \E w \in Writers :
          \/ \E r \in InsertRows[w] : append_insert_row(w, r) \/ Refuse(w, r)
          \/ measure(w) \/ open_fails(w) \/ write(w) \/ write_fails(w)

Spec == Init /\ [][Next]_vars

-----------------------------------------------------------------------------
(* Properties.                                                             *)

\* A line feed at the end of the file would change no row: the last row is
\* not a quoted cell that has no closing quote.
Closed(f) == Rows(f) = Rows(f \o <<"nl">>)

\* A line end that w found when it looked, and that is not the last byte any
\* more: another process has appended since, and w will write into its row.
Glued(w) == pc[w] = "write" /\ ~need_newline[w] /\ LineIsOpen(file)

\* A row that one fgets reads whole.  `Plain' is what is asked of the rows
\* and of the file below: no line feed in a string, a row that fits the
\* buffer and is not an empty line, a file that does not end with a lone CR,
\* and nobody between the look at the last byte and the write -- unless both
\* writers saw an open line, and one line feed too many is written.
OneLine(r) == /\ \A c \in DOMAIN r : "nl" \notin ToSet(r[c].text)
              /\ Len(RowBytes(r)) < LineCap
              /\ ~is_blank_line(RowBytes(r))
Plain(w) == OneLine(row[w]) /\ Last(file) # "cr" /\ ~Glued(w)

\* The row number the executor gives a new row -- the row count after the
\* append, minus one -- is the number under which read_table_row finds that
\* row, with the very texts of the INSERT; and the whole table reads as
\* before with that row at its end (append_csv_escaped against
\* parse_csv_line, data_row_count against both readers).
AppendedRowIsLast ==
  [][\A w \in Writers : write(w) /\ Plain(w) =>
       LET before == read_table(file \o <<"nl">>)
           given  == [c \in DOMAIN row[w] |-> row[w][c].text] IN
       before.ok =>
         /\ read_table_row(file', data_row_count(file') - 1) = Table(<<given>>)
         /\ read_table(file') = Table(Append(before.rows, given))]_vars

\* A row keeps its number and its cells whatever is appended later, rows with
\* line feeds, rows past the buffer and torn writes included, by one process
\* or by several: the row numbers the index caches stay right.  Only the last
\* row may change, when its quote was never closed, when the file ends with a
\* lone CR, or when a second process wrote it after a first had looked at the
\* last byte (read_table_row).
RowsStay ==
  [][\A n \in 0 .. data_row_count(file) - 1 :
       \/ ~read_table_row(file, n).ok
       \/ /\ n = data_row_count(file) - 1
          /\ ~Closed(file) \/ Last(file) = "cr" \/ \E w \in Writers : Glued(w)
       \/ read_table_row(file', n) = read_table_row(file, n)]_file

\* A write that stops half-way leaves nothing, or one row of the first of its
\* values, the last of them cut short; no other row changes (what SqlEngine
\* calls TornText).
TornWriteLeavesPrefix ==
  [][\A w \in Writers : write_fails(w) /\ Plain(w) =>
       LET before == Rows(file)
           closed == Rows(file \o <<"nl">>)
           after  == Rows(file') IN
       \/ after \in {before, closed}
       \/ LET torn == Last(after) IN
          /\ after = Append(closed, torn)
          /\ Len(torn) <= Len(row[w])
          /\ \A c \in 1 .. Len(torn) - 1 : torn[c] = row[w][c].text
          /\ IsPrefix(Last(torn), row[w][Len(torn)].text)]_vars

\* docs/03-api-reference.md:63: a successful INSERT adds one data row at the
\* end of the CSV file, serialised with the quoting of RFC 4180.
InsertAddsOneRow ==
  [][\A w \in Writers : write(w) =>
       data_row_count(file') = data_row_count(file) + 1]_vars
=============================================================================
