----------------------------- MODULE SqlScript ------------------------------
(***************************************************************************)
(* How a script becomes statements: run_file reads it, run_sql_text cuts   *)
(* it at every `;' that is outside a '...' string (sql_processor.c), each  *)
(* piece goes through the lexer (SqlLexer) and the two parsers (SqlGrammar)*)
(* to the executor, and the first piece that fails ends the run with its   *)
(* exit code.  The cutter and the lexer each have their own idea of where  *)
(* strings and comments are: the cutter knows of no comments.  The program *)
(* of the demo does the same and writes a trace of it, one event per line  *)
(* (sql_trace.c).                                                          *)
(***************************************************************************)
EXTENDS SqlLexer

CONSTANT Scripts  \* the scripts that may be run

ASSUME ScriptAssumption == Scripts \subseteq Seq(Characters)

VARIABLES
  script,     \* the text of the file
  written,    \* history: its statements as the lexer reads them
  plain,      \* history: cutter and lexer see the same ends of statements in it
  traced,     \* the program is sql_processor_trace
  pc,         \* "open", "scan", "statement", "lex", "execute" or "exit"
  i, start,   \* the next character to look at; the first of the next piece
  in_string,  \* the cutter is between two quotes
  stmt_no,    \* number of the piece
  piece,      \* the piece a statement is made from
  done,       \* history: the statements executed, as tokens
  rc,         \* the exit code
  trace       \* the events written to the trace

input == <<script, written, plain>>
cut   == <<i, start, in_string, stmt_no, piece>>
vars  == <<input, traced, pc, cut, done, rc, trace, lexer_vars>>

-----------------------------------------------------------------------------
\* trim_start and trim_end: isspace knows more white space than the lexer.
Blanks == Space \cup {"ff"}

Trim(s) ==
  LET solid == {p \in 1 .. Len(s) : s[p] \notin Blanks}
  IN  IF solid = {} THEN <<>> ELSE SubSeq(s, Min(solid), Max(solid))

\* The statement the parsers make of the tokens of a piece, if they make one:
\* the tokens up to its end.
Parses(t)    == SentenceEnds(t) # {}
Statement(t) == SubSeq(t, 1, Min(SentenceEnds(t)))

\* The statements of a script as its writer means them: what the lexer reads
\* in the whole text, with a statement ending at every `;' it finds.
AfterBom(s) == IF s # <<>> /\ s[1] = "bom" THEN Tail(s) ELSE s

StatementsOf(s) ==
  LET t      == Kinds(Lex(AfterBom(s)))
      ends   == {j \in DOMAIN t : t[j] \in {";", "eof", "error"}}
      end(k) == CHOOSE e \in ends \cup {0} : Cardinality({x \in ends : x <= e}) = k
      all    == [k \in 1 .. Cardinality(ends) |-> SubSeq(t, end(k - 1) + 1, end(k))]
  IN  IF Last(all) = <<"eof">> THEN Front(all) ELSE all

\* No comment has a character in it that means something to the cutter, and
\* what is white space to the cutter only is in the strings.
IsPlain(s) ==
  LET body   == AfterBom(s)
      tokens == ToSet(Lex(body)) IN
  \A q \in DOMAIN body :
    /\ body[q] \in {"'", ";"} => \E t \in tokens : q \in t.at .. t.to
    /\ body[q] = "ff" => \E t \in tokens : t.kind = "string" /\ q \in t.at .. t.to

-----------------------------------------------------------------------------
TypeOK ==
  /\ LexerTypeOK
  /\ script \in Seq(Characters) /\ traced \in BOOLEAN
  /\ pc \in {"open", "scan", "statement", "lex", "execute", "exit"}
  /\ start \in 1 .. Len(script) + 1 /\ i \in 1 .. Len(script) + 1
  /\ in_string \in BOOLEAN
  /\ stmt_no \in 0 .. Len(script)
  /\ written \in Seq(Seq(TokenKinds)) /\ plain \in BOOLEAN
  /\ done \in Seq(Seq(TokenKinds))
  /\ rc \in {0, 2, 3}

Init ==
  /\ script \in Scripts /\ traced \in BOOLEAN
  /\ written = StatementsOf(script) /\ plain = IsPlain(script)
  /\ pc = "open" /\ i = 1 /\ start = 1 /\ in_string = FALSE
  /\ stmt_no = 0 /\ piece = <<>> /\ done = <<>> /\ rc = 0 /\ trace = <<>>
  /\ lexer_off

-----------------------------------------------------------------------------
(* The trace.                                                              *)

Write(events) == trace' = IF traced THEN trace \o events ELSE trace

\* What is written for a character: for one that may not stand in a JSON
\* string, a backslash and a letter ("u000c" and "u0001" stand for the four
\* digits of other control characters).
\* Mutant: a backslash is written as it is.
Escape_no_backslash(c) ==
  CASE c = "dq"  -> <<"bs", "dq">>
    [] c = "nl"  -> <<"bs", "n">>
    [] c = "cr"  -> <<"bs", "r">>
    [] c = "tab" -> <<"bs", "t">>
    [] c = "ff"  -> <<"bs", "u000c">>
    [] c = "ctl" -> <<"bs", "u0001">>
    [] OTHER     -> <<c>>
Escape(c) ==
  CASE c \in {"dq", "bs"} -> <<"bs", c>>
    [] c = "nl"  -> <<"bs", "n">>
    [] c = "cr"  -> <<"bs", "r">>
    [] c = "tab" -> <<"bs", "t">>
    [] c = "ff"  -> <<"bs", "u000c">>
    [] c = "ctl" -> <<"bs", "u0001">>
    [] OTHER     -> <<c>>

json_write_string(s) ==
  LET rest[k \in 1 .. Len(s) + 1] ==
        IF k > Len(s) THEN <<"dq">> ELSE Escape(s[k]) \o rest[k + 1]
  IN  <<"dq">> \o rest[1]

Event(step, data) == [step |-> step, no |-> stmt_no, data |-> data]
Start          == Event("statement_start", json_write_string(piece))
LexerTokensAre(t) == Event("lexer_tokens", t)
ParserResult(data) == Event("parser_result", data)
ExecutorCall(kind) == Event("executor_call", <<kind>>)
End(code)      == Event("statement_end", <<code>>)
ProcessEnd(code) == [step |-> "process_end", no |-> 0, data |-> <<code>>]
BrokenLine     == [step |-> "trace_parse_error", no |-> 0, data |-> <<>>]

\* trace_lexer_tokens: lexer_next returns -1 for what it cannot read, and that
\* ends the list, as does a token whose text finds no memory to be copied.
ListedTokens(t) == Prefixes(IF Last(t) = "error" THEN Front(t) ELSE t)

\* trace_insert_ast and trace_select_ast: the values, or the columns; there is
\* nothing of the WHERE in it.
Elements(s) == [k \in 1 .. (Len(s) + 1) \div 2 |-> s[2 * k - 1]]

InsertAst(s) == <<"insert", Elements(ValueList(s))>>

SelectAst(s) == <<"select", IF s[2] = "*" THEN <<>>
                            ELSE Elements(ColumnList(s, Find(s, 1, "FROM")))>>

Ast(s) == IF s[1] = "INSERT" THEN InsertAst(s) ELSE SelectAst(s)

\* The run returns code.
Exit(code, events) ==
  /\ pc' = "exit" /\ rc' = code
  /\ Write(events \o <<ProcessEnd(code)>>)

OpenFails ==
  /\ pc = "open"
  /\ Exit(3, <<>>)
  /\ UNCHANGED <<input, traced, cut, done, lexer_vars>>

\* main of the trace program: without a trace file nothing is read.
NoTraceFile ==
  /\ pc = "open" /\ traced
  /\ pc' = "exit" /\ rc' = 3
  /\ UNCHANGED <<input, traced, cut, done, trace, lexer_vars>>

-----------------------------------------------------------------------------
(* The cutter.                                                             *)

\* Mutant: the BOM is left to the first statement.
FirstPiece_with_bom(s) == 1
FirstPiece(s) == IF s # <<>> /\ s[1] = "bom" THEN 2 ELSE 1

Open ==
  /\ pc = "open"
  /\ pc' = "scan" /\ start' = FirstPiece(script)
  /\ UNCHANGED <<input, traced, i, in_string, stmt_no, piece, done, rc, trace, lexer_vars>>

Scanning == pc = "scan" /\ i <= Len(script)

Step(n) ==
  /\ i' = i + n
  /\ UNCHANGED <<input, traced, pc, start, stmt_no, piece, done, rc, trace, lexer_vars>>

PairedQuote == in_string /\ script[i] = "'" /\ i < Len(script) /\ script[i + 1] = "'"

\* Mutant: the end of the text is not looked at.
EscapedQuoteAtEnd == /\ Scanning /\ in_string /\ script[i] = "'"
                     /\ i < Len(script) => script[i + 1] = "'"
                     /\ Step(2) /\ UNCHANGED in_string
EscapedQuote == Scanning /\ PairedQuote /\ Step(2) /\ UNCHANGED in_string
CloseString  == /\ Scanning /\ in_string /\ script[i] = "'" /\ ~PairedQuote
                /\ Step(1) /\ in_string' = FALSE
OpenString   == /\ Scanning /\ ~in_string /\ script[i] = "'"
                /\ Step(1) /\ in_string' = TRUE
OtherChar    == /\ Scanning /\ script[i] # "'" /\ (in_string \/ script[i] # ";")
                /\ Step(1) /\ UNCHANGED in_string

Cut(to) ==
  /\ stmt_no' = stmt_no + 1
  /\ piece' = Trim(SubSeq(script, start, to))
  /\ pc' = "statement"
  /\ start' = to + 1
  /\ i' = to + 1
  /\ UNCHANGED <<input, traced, done, rc, trace, lexer_vars>>

\* Mutant: a `;' cuts inside a string too.
SemicolonAnywhere == Scanning /\ script[i] = ";" /\ Cut(i) /\ in_string' = FALSE
Semicolon == Scanning /\ ~in_string /\ script[i] = ";" /\ Cut(i) /\ UNCHANGED in_string

AtEnd == pc = "scan" /\ i > Len(script)

\* What follows the last `;' is a statement too.
\* Mutant: one without a number of its own.
LastPieceUncounted ==
  /\ AtEnd /\ start <= Len(script)
  /\ piece' = Trim(SubSeq(script, start, Len(script)))
  /\ pc' = "statement" /\ start' = Len(script) + 1
  /\ UNCHANGED <<input, traced, i, in_string, stmt_no, done, rc, trace, lexer_vars>>

LastPiece == /\ AtEnd /\ start <= Len(script)
         /\ Cut(Len(script)) /\ UNCHANGED in_string

Finish == /\ AtEnd /\ start > Len(script)
          /\ Exit(0, <<>>)
          /\ UNCHANGED <<input, traced, cut, done, lexer_vars>>

-----------------------------------------------------------------------------
(* execute_one_statement.                                                  *)

Blank == /\ pc = "statement" /\ piece = <<>>
         /\ pc' = "scan"
         /\ UNCHANGED <<input, traced, cut, done, rc, trace, lexer_vars>>

\* The copy of the statement for the trace finds no memory: its line breaks off
\* where the text should follow, and process_end is written into that line.
NoMemoryForTrace ==
  /\ pc = "statement" /\ piece # <<>> /\ traced
  /\ pc' = "exit" /\ rc' = 3 /\ Write(<<BrokenLine>>)
  /\ UNCHANGED <<input, traced, cut, done, lexer_vars>>

BeginStatement ==
  /\ pc = "statement" /\ piece # <<>>
  /\ pc' = "lex" /\ Write(<<Start>>)
  /\ lexer_init(piece)
  /\ UNCHANGED <<input, traced, cut, done, rc>>

\* The trace lexes all of the piece, and only then the parsers read it.
Lexing == /\ pc = "lex" /\ lexer_next
          /\ UNCHANGED <<input, traced, pc, cut, done, rc, trace>>

Lexed == pc = "lex" /\ lex_pc = "end"
PieceTokens == Kinds(toks)

Parse ==
  LET t == PieceTokens IN
  /\ Lexed /\ Parses(t)
  /\ pc' = "execute"
  /\ \E told \in ListedTokens(t) :
       Write(<<LexerTokensAre(told), ParserResult(Ast(Statement(t))),
               ExecutorCall(Ast(Statement(t))[1])>>)
  /\ UNCHANGED <<input, traced, cut, done, rc, lexer_vars>>

\* Mutant: a statement that does not parse has no end.
ParseErrorUntold ==
  /\ Lexed /\ ~Parses(PieceTokens)
  /\ \E told \in ListedTokens(PieceTokens) :
       Exit(2, <<LexerTokensAre(told), ParserResult(<<"none">>)>>)
  /\ UNCHANGED <<input, traced, cut, done, lexer_vars>>

ParseError ==
  /\ Lexed /\ ~Parses(PieceTokens)
  /\ \E told \in ListedTokens(PieceTokens) :
       Exit(2, <<LexerTokensAre(told), ParserResult(<<"none">>), End(2)>>)
  /\ UNCHANGED <<input, traced, cut, done, lexer_vars>>

Execute ==
  /\ pc = "execute"
  /\ pc' = "scan" /\ done' = Append(done, Statement(PieceTokens)) /\ Write(<<End(0)>>)
  /\ UNCHANGED <<input, traced, cut, rc, lexer_vars>>

ExecFails ==
  /\ pc = "execute"
  /\ Exit(3, <<End(3)>>)
  /\ UNCHANGED <<input, traced, cut, done, lexer_vars>>

Next == \/ Open \/ OpenFails \/ NoTraceFile
        \/ EscapedQuote \/ CloseString \/ OpenString \/ OtherChar \/ Semicolon
        \/ LastPiece \/ Finish
        \/ Blank \/ NoMemoryForTrace \/ BeginStatement \/ Lexing
        \/ Parse \/ ParseError \/ Execute \/ ExecFails

\* Nothing in a run waits for anything: the program goes on until it ends.
Spec == Init /\ [][Next]_vars /\ WF_vars(Next)

-----------------------------------------------------------------------------
(* Properties.                                                             *)

\* As long as no comment contains a quote or a semicolon, and there is no form
\* feed or vertical tab outside the strings (the cutter trims them, the lexer
\* does not skip them), the pieces the cutter makes are the statements of the
\* script as the lexer reads it, in order: a `;' or a pair of quotes inside a
\* string, a comment and a BOM change nothing (run_sql_text against lexer_next).
CutAsLexed ==
  plain =>
    /\ IsPrefix(done, written)
    /\ Lexed /\ PieceTokens # <<"eof">> =>
         /\ Len(done) < Len(written)
         /\ IsPrefix(written[Len(done) + 1], PieceTokens)

\* Exit code 0 says that every statement of the script was executed, and exit
\* code 2 that the next one is not of the language -- or that the piece at work
\* has nothing but comments in it, and then it is the last and every statement
\* was executed: there 2 is no syntax error and the comment is not ignored,
\* against docs/03-api-reference.md:22 and :105 (README, section 7).  For the
\* scripts of CutAsLexed (run_sql_text).
ExitCodeTrue ==
  pc = "exit" /\ plain =>
    /\ rc = 0 => done = written
    /\ rc = 2 => IF PieceTokens = <<"eof">> THEN Len(done) = Len(written)
                 ELSE /\ Len(done) < Len(written)
                      /\ SentenceEnds(written[Len(done) + 1]) = {}

\* The statement number of an error message is that of the first statement
\* that was not executed, whatever the script (stmt_no).
ErrorNamesStatement ==
  pc = "exit" /\ rc # 0 /\ stmt_no > 0 => stmt_no = Len(done) + 1

\* How many of the first j tokens of t are in K; a list of such tokens, in order.
Count(t, K, j)    == Cardinality({x \in 1 .. j : t[x] \in K})
Lists(list, t, K) == \A j \in 1 .. Len(t) : t[j] \in K /\ Count(t, K, j) <= Len(list) =>
                                              list[Count(t, K, j)] = t[j]

\* What the events e tell of statement k, which was executed.
Steps(e) == [k \in DOMAIN e |-> e[k].step]
Told     == <<"statement_start", "lexer_tokens", "parser_result", "executor_call", "statement_end">>
NotTaken == <<"statement_start", "lexer_tokens", "parser_result", "statement_end">>

TellsStatement(e, k) ==
  LET kinds == e[2].data
      tree  == e[3].data
      all(K) == Count(done[k], K, Len(done[k])) IN
  /\ Steps(e) = Told
  /\ \A j \in DOMAIN e : e[j].no = k
  /\ e[4].data = <<tree[1]>> /\ e[5].data = <<0>>
  /\ IsPrefix(done[k], kinds) \/ IsPrefix(kinds, done[k])
  /\ tree[1] = "insert" => Lists(tree[2], done[k], Literals) /\ Len(tree[2]) = all(Literals)
  /\ tree[1] = "select" => /\ Lists(tree[2], done[k], Identifiers)
                           /\ Len(tree[2]) + all({"FROM", "WHERE"}) = all(Identifiers)

\* Every statement that starts is told of in five events, numbered in order:
\* its start, its tokens, the parser that took it, the executor that was
\* called, its end with the exit code; what is told of the statements that
\* ended with code 0 are the statements that were executed, with as many
\* values or columns in the tree as among the tokens; the trace ends with the
\* exit code of the run.  Only when the copy of a statement finds no memory is
\* the rest one unreadable line, and only without a trace file is there nothing
\* (sql_trace.c and what the demo reads of it).
TraceTellsTheRun ==
  traced /\ pc = "exit" =>
    LET n    == Len(done)
        rest == SubSeq(trace, 5 * n + 1, Len(trace)) IN
    /\ \A k \in 1 .. n : TellsStatement(SubSeq(trace, 5 * k - 4, 5 * k), k)
    /\ \/ rc = 3 /\ rest \in {<<BrokenLine>>, <<>>} /\ (rest = <<>> => stmt_no = 0)
       \/ /\ Last(rest) = ProcessEnd(rc)
          /\ Steps(Front(rest)) \in CASE rc = 0 \/ stmt_no = 0 -> {<<>>}
                                      [] rc = 2 -> {NotTaken}
                                      [] OTHER  -> {Told}
          /\ \A j \in 1 .. Len(rest) - 1 : rest[j].no = n + 1
          /\ rc # 0 /\ Len(rest) > 1 => rest[Len(rest) - 1] = End(rc)

\* JSON.parse of a string, by the grammar of JSON: no control character stands
\* in it, a backslash says what the character after it means, and the first
\* quote without a backslash ends it (external; the demo reads the trace so).
Unread == "unreadable"
Meaning(c) == CASE c \in {"dq", "bs"} -> c
                [] c = "n" -> "nl"
                [] c = "r" -> "cr"
                [] c = "t" -> "tab"
                [] c = "u000c" -> "ff"
                [] c = "u0001" -> "ctl"
                [] OTHER -> Unread

ParsedJson(t) ==
  LET plainly(p) == p <= Len(t) /\ t[p] \notin {"nl", "cr", "tab", "ff", "ctl", "dq", "bs"}
      from[p \in 1 .. Len(t) + 1] ==
        IF p = Len(t) /\ t[p] = "dq" THEN <<>>
        ELSE IF p < Len(t) /\ t[p] = "bs" THEN <<Meaning(t[p + 1])>> \o from[p + 2]
        ELSE IF plainly(p) THEN <<t[p]>> \o from[p + 1]
        ELSE <<Unread>>
  IN  IF t # <<>> /\ t[1] = "dq" THEN from[2] ELSE <<Unread>>

\* An event is one line, whatever line feeds its statement has, and JSON reads
\* the statement back from it, whatever quotes, backslashes and control
\* characters it has (json_write_string, and parseJsonLines of the demo).
EventsAreLines ==
  \A j \in DOMAIN trace : trace[j].step = "statement_start" =>
    /\ "nl" \notin ToSet(trace[j].data)
    /\ trace[j].no = stmt_no => ParsedJson(trace[j].data) = piece

\* Every run ends, whatever the script: no comment, string or piece keeps the
\* cutter or the lexer from its end (the loops of run_sql_text and lexer_next).
RunEnds == <>(pc = "exit")

\* docs/03-api-reference.md:105: a line that starts with -- is a comment and is
\* ignored; so exit code 0 says that every statement outside of comments was
\* executed (run_sql_text).
CommentsAreIgnored == pc = "exit" /\ rc = 0 => done = written
=============================================================================
