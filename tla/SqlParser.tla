----------------------------- MODULE SqlParser ------------------------------
(***************************************************************************)
(* How execute_one_statement reads one statement: parser_parse_insert, and *)
(* if that returns -1, from the first token again, parser_parse_select     *)
(* (parser.c).  Both take one token after the other from lexer_next, store *)
(* what they need in heap blocks as they go -- the table name, an array    *)
(* that doubles when it is full, one string per value or column -- and     *)
(* must give every block back when they return -1, at whatever token or    *)
(* allocation that happens.  The tokens of the statement are chosen as     *)
(* they are first read, and are the same when they are read again.         *)
(***************************************************************************)
EXTENDS SqlGrammar

CONSTANTS
  FirstCap,   \* size of the first array: 4
  MaxTokens,  \* bound: token number MaxTokens of a statement is eof
  MayFail     \* one allocation (bound) may fail

ASSUME ParserAssumption == FirstCap \in Nat \ {0} /\ MaxTokens \in Nat \ {0} /\ MayFail \in BOOLEAN

VARIABLES
  text,    \* the tokens of the statement, as far as they were read
  pos,     \* how many of them the parser has read
  pc,      \* which token it reads next, or how it ended
  blocks,  \* live blocks: "table", "list" (vals or cols), "stmt"
  texts,   \* live strings of values or columns, by number
  n, cap,  \* elements in the list, and room for them
  sel,     \* select_all and has_where
  oom      \* history: an allocation failed

vars == <<text, pos, pc, blocks, texts, n, cap, sel, oom>>

InsertReads == {"INSERT", "INTO", "table", "VALUES", "(", "first", "sep", "value", "end"}
SelectReads == {"SELECT", "what", "col_sep", "column", "FROM", "sel_table",
                "after_table", "where_id", "=", "where_int", "sel_end"}
Parsing     == InsertReads \cup SelectReads
NoSel       == [all |-> FALSE, where |-> FALSE]

TypeOK ==
  /\ text \in Seq(TokenKinds) /\ Len(text) <= MaxTokens
  /\ pos \in 0 .. Len(text)
  /\ pc \in Parsing \cup {"insert", "select", "error"}
  /\ blocks \subseteq {"table", "list", "stmt"}
  /\ n \in Nat /\ cap \in Nat /\ texts \subseteq 1 .. n
  /\ sel \in [all : BOOLEAN, where : BOOLEAN]
  /\ oom \in BOOLEAN

Init ==
  /\ text = <<>> /\ pos = 0 /\ pc = "INSERT"
  /\ blocks = {} /\ texts = {} /\ n = 0 /\ cap = 0
  /\ sel = NoSel /\ oom = FALSE

-----------------------------------------------------------------------------
\* The kinds lexer_next can answer: what it answered before, or anything; at
\* the end of the text it answers eof for ever.
lexer_next ==
  IF pos < Len(text) THEN {text[pos + 1]}
  ELSE IF Len(text) = MaxTokens - 1 \/ (text # <<>> /\ Last(text) = "eof")
  THEN {"eof"}
  ELSE TokenKinds

\* Token k of K is read at the place `at' of the parser.
Read(at, K) ==
  /\ pc = at
  /\ \E k \in lexer_next \cap K :
       text' = IF pos < Len(text) THEN text ELSE Append(text, k)

Token == text'[pos + 1]

Goto(place) == pc' = place /\ pos' = pos + 1

\* free(table) and free_values_partial or free_columns_partial.
\* Mutant: the strings of the list are forgotten.
FreeListOnly(bs) == blocks' = blocks \ bs /\ texts' = texts
Free(bs) ==
  /\ blocks' = blocks \ bs
  /\ texts' = IF "list" \in bs THEN texts \ (1 .. n) ELSE texts

\* return -1: the other parser starts from the first token, or none is left.
Reject(bs) ==
  /\ Free(bs)
  /\ pc' = IF pc \in InsertReads THEN "SELECT" ELSE "error"
  /\ pos' = 0 /\ n' = 0 /\ cap' = 0 /\ sel' = NoSel

Refused(at, K, bs) == Read(at, TokenKinds \ K) /\ Reject(bs) /\ UNCHANGED oom
NoMemory(at, K, bs) ==
  /\ MayFail /\ ~oom
  /\ Read(at, K) /\ Reject(bs)
  /\ oom' = TRUE

lexer_expect(at, kind, place, bs) ==
  \/ /\ Read(at, {kind}) /\ Goto(place)
     /\ UNCHANGED <<blocks, texts, n, cap, sel, oom>>
  \/ Refused(at, {kind}, bs)

table_name(at, place, bs) ==
  \/ /\ Read(at, Identifiers) /\ Goto(place)
     /\ blocks' = blocks \cup {"table"}
     /\ UNCHANGED <<texts, n, cap, sel, oom>>
  \/ NoMemory(at, Identifiers, bs)
  \/ Refused(at, Identifiers, bs)

\* The first array; and one twice as long when the next element needs it.
\* Mutant: it grows one element too late.
NewCapLate == IF n > cap THEN cap * 2 ELSE cap
NewCap     == IF n >= cap THEN cap * 2 ELSE cap

\* value_from_token and dup_slice: the element n + 1; NULL has no string.
Store(k) == /\ n' = n + 1
            /\ texts' = IF k = "NULL" THEN texts ELSE texts \cup {n + 1}

-----------------------------------------------------------------------------
(* INSERT INTO name VALUES ( values )                                      *)

open_values ==
  \/ /\ Read("(", {"("}) /\ Goto("first")
     /\ blocks' = blocks \cup {"list"} /\ cap' = FirstCap
     /\ UNCHANGED <<texts, n, sel, oom>>
  \/ NoMemory("(", {"("}, {"table"})
  \/ Refused("(", {"("}, {"table"})

close_values(at) ==
  /\ Read(at, {")"}) /\ Goto("end")
  /\ UNCHANGED <<blocks, texts, n, cap, sel, oom>>

first_value ==
  \/ close_values("first")
  \/ /\ Read("first", Literals) /\ Goto("sep") /\ Store(Token)
     /\ UNCHANGED <<blocks, cap, sel, oom>>
  \/ NoMemory("first", Literals \ {"NULL"}, {"table", "list"})
  \/ Refused("first", Literals \cup {")"}, {"table", "list"})

value_separator ==
  \/ close_values("sep")
  \/ /\ Read("sep", {","}) /\ Goto("value")
     /\ UNCHANGED <<blocks, texts, n, cap, sel, oom>>
  \/ Refused("sep", {",", ")"}, {"table", "list"})

next_value ==
  \/ /\ Read("value", Literals) /\ Goto("sep") /\ cap' = NewCap /\ Store(Token)
     /\ UNCHANGED <<blocks, sel, oom>>
  \/ NoMemory("value", IF n >= cap THEN TokenKinds \ {")", "error"}
                       ELSE Literals \ {"NULL"}, {"table", "list"})
  \/ Refused("value", Literals, {"table", "list"})

\* Mutant: the array of an INSERT without values is kept.
insert_done_keeps_list ==
  \/ /\ Read("end", Terminators) /\ Goto("insert")
     /\ blocks' = blocks \cup {"stmt"}
     /\ UNCHANGED <<texts, n, cap, sel, oom>>
  \/ NoMemory("end", Terminators, {"table", "list"})
  \/ Refused("end", Terminators, {"table", "list"})

insert_done ==
  \/ /\ Read("end", Terminators) /\ Goto("insert")
     /\ blocks' = (IF n = 0 THEN blocks \ {"list"} ELSE blocks) \cup {"stmt"}
     /\ UNCHANGED <<texts, n, cap, sel, oom>>
  \/ NoMemory("end", Terminators, {"table", "list"})
  \/ Refused("end", Terminators, {"table", "list"})

-----------------------------------------------------------------------------
(* SELECT columns FROM name, and WHERE id = int                            *)

select_what ==
  \/ /\ Read("what", {"*"}) /\ Goto("FROM")
     /\ sel' = [sel EXCEPT !.all = TRUE]
     /\ UNCHANGED <<blocks, texts, n, cap, oom>>
  \/ /\ Read("what", Identifiers) /\ Goto("col_sep")
     /\ blocks' = blocks \cup {"list"} /\ cap' = FirstCap /\ Store(Token)
     /\ UNCHANGED <<sel, oom>>
  \/ NoMemory("what", Identifiers, {})
  \/ Refused("what", Identifiers \cup {"*"}, {})

\* Mutant: a trailing comma is let through.
column_separator_loose ==
  \/ \E c \in {<<",", "column">>, <<"FROM", "sel_table">>, <<",", "FROM">>} :
       /\ Read("col_sep", {c[1]}) /\ Goto(c[2])
       /\ UNCHANGED <<blocks, texts, n, cap, sel, oom>>
  \/ Refused("col_sep", {",", "FROM"}, {"list"})

column_separator ==
  \/ \E c \in {<<",", "column">>, <<"FROM", "sel_table">>} :
       /\ Read("col_sep", {c[1]}) /\ Goto(c[2])
       /\ UNCHANGED <<blocks, texts, n, cap, sel, oom>>
  \/ Refused("col_sep", {",", "FROM"}, {"list"})

next_column ==
  \/ /\ Read("column", Identifiers) /\ Goto("col_sep") /\ cap' = NewCap /\ Store(Token)
     /\ UNCHANGED <<blocks, sel, oom>>
  \/ NoMemory("column", Identifiers, {"list"})
  \/ Refused("column", Identifiers, {"list"})

\* SelectStmt is allocated; SELECT * has no columns.
select_done(at) ==
  \/ /\ Read(at, Terminators) /\ Goto("select")
     /\ blocks' = blocks \cup {"stmt"}
     /\ UNCHANGED <<texts, n, cap, sel, oom>>
  \/ NoMemory(at, Terminators, {"table", "list"})

after_table ==
  \/ select_done("after_table")
  \/ /\ Read("after_table", {"WHERE"}) /\ Goto("where_id")
     /\ UNCHANGED <<blocks, texts, n, cap, sel, oom>>
  \/ Refused("after_table", Terminators \cup {"WHERE"}, {"table", "list"})

\* The digits are copied, converted and freed at once.
where_int ==
  \/ /\ Read("where_int", {"int"}) /\ Goto("sel_end")
     /\ sel' = [sel EXCEPT !.where = TRUE]
     /\ UNCHANGED <<blocks, texts, n, cap, oom>>
  \/ NoMemory("where_int", {"int"}, {"table", "list"})
  \/ Refused("where_int", {"int"}, {"table", "list"})

where_end == select_done("sel_end") \/ Refused("sel_end", Terminators, {"table", "list"})

-----------------------------------------------------------------------------
parse_insert ==
  \/ lexer_expect("INSERT", "INSERT", "INTO", {})
  \/ lexer_expect("INTO", "INTO", "table", {})
  \/ table_name("table", "VALUES", {})
  \/ lexer_expect("VALUES", "VALUES", "(", {"table"})
  \/ open_values \/ first_value \/ value_separator \/ next_value \/ insert_done

parse_select ==
  \/ lexer_expect("SELECT", "SELECT", "what", {})
  \/ select_what \/ column_separator \/ next_column
  \/ lexer_expect("FROM", "FROM", "sel_table", {})
  \/ table_name("sel_table", "after_table", {"list"})
  \/ after_table
  \/ lexer_expect("where_id", "id", "=", {"table", "list"})
  \/ lexer_expect("=", "=", "where_int", {"table", "list"})
  \/ where_int \/ where_end

Next == parse_insert \/ parse_select
Spec == Init /\ [][Next]_vars

-----------------------------------------------------------------------------
(* Properties.                                                             *)

Consumed == SubSeq(text, 1, pos)

\* A statement is taken exactly when it is one of the language, by the parser
\* of its kind and with the number of values or columns it has; if no
\* allocation failed, what is refused is not even the beginning of one
\* (parser_parse_insert and, after it, parser_parse_select).
AcceptsTheLanguage ==
  /\ pc = "insert" => /\ IsInsert(Consumed)
                      /\ n = IF ValueList(Consumed) = <<>> THEN 0
                             ELSE ListLength(ValueList(Consumed))
  /\ pc = "select" => \E i \in 1 .. pos :
       /\ Consumed[i] = "FROM" /\ IsSelectAt(Consumed, i)
       /\ sel.all = (ColumnList(Consumed, i) = <<"*">>)
       /\ n = IF sel.all THEN 0 ELSE ListLength(ColumnList(Consumed, i))
       /\ sel.where = (\E j \in 1 .. pos : Consumed[j] = "WHERE")
  /\ pc = "error" /\ ~oom => SentenceEnds(text) = {} /\ ~Viable(text)

\* Whatever token or allocation ends a parser, its blocks are freed; what a
\* statement keeps is its table, its list if it has elements, and one string
\* for each element that is not NULL (the error returns of parser.c).
NothingLeaked ==
  /\ pc \in {"SELECT", "error"} => blocks = {} /\ texts = {}
  /\ pc = "insert" =>
       /\ blocks = {"table", "stmt"} \cup (IF n = 0 THEN {} ELSE {"list"})
       /\ texts = {i \in 1 .. n : ValueList(Consumed)[2 * i - 1] # "NULL"}
  /\ pc = "select" =>
       /\ blocks = {"table", "stmt"} \cup (IF sel.all THEN {} ELSE {"list"})
       /\ texts = 1 .. n

\* No element is written past the end of the array (vals[n], cols[ncols]).
InBounds == n <= cap
=============================================================================
