------------------------------ MODULE SqlLexer ------------------------------
(***************************************************************************)
(* lexer.c, one character per step: white space and comments are skipped,  *)
(* then one token is read and kept with the line and the column at which   *)
(* it started; a string literal is copied into a buffer of StrCap          *)
(* characters, a pair of quotes becoming one.  lexer_next is called again  *)
(* until it gives eof or returns -1.                                       *)
(*                                                                         *)
(* This module has no specification of its own: SqlScript starts the lexer *)
(* on each piece of a script.                                              *)
(***************************************************************************)
EXTENDS SqlTokens

VARIABLES
  text,          \* src: the text the lexer was started on
  pos,           \* the next character of it
  line, column,  \* those of pos
  out,           \* characters in str_buf
  begun,         \* the token begun: where, and its line and column
  toks,          \* the tokens given so far
  lex_pc,        \* "skip", "comment", "word", "digits", "string" or "end"
  lexed          \* history: the tokens of text, by SqlTokens

lexer_vars == <<text, pos, line, column, out, begun, toks, lex_pc, lexed>>
kept == <<text, lexed>>

NotBegun == [at |-> 0, line |-> 0, column |-> 0]
LexerTokens == [kind : TokenKinds, at : Nat, len : Nat, line : Nat, column : Nat]

LexerTypeOK ==
  /\ text \in Seq(Characters)
  /\ pos \in 1 .. Len(text) + 1
  /\ line \in Nat \ {0} /\ column \in Nat \ {0}
  /\ out \in 0 .. StrCap
  /\ toks \in Seq(LexerTokens)
  /\ lex_pc \in {"skip", "comment", "word", "digits", "string", "end"}

lexer_off ==
  /\ text = <<>> /\ pos = 1 /\ line = 1 /\ column = 1 /\ out = 0
  /\ begun = NotBegun /\ toks = <<>> /\ lex_pc = "end" /\ lexed = <<>>

lexer_init(s) ==
  /\ text' = s /\ pos' = 1 /\ line' = 1 /\ column' = 1 /\ out' = 0
  /\ begun' = NotBegun /\ toks' = <<>> /\ lex_pc' = "skip" /\ lexed' = Lex(s)

-----------------------------------------------------------------------------
More == pos <= Len(text)
Here == text[pos]
Next1(C) == pos < Len(text) /\ text[pos + 1] \in C
In(C) == More /\ Here \in C

\* The position moves past n characters, none of them a line feed; or past
\* one line feed.
Past(n)  == pos' = pos + n /\ column' = column + n /\ UNCHANGED line
PastLine == pos' = pos + 1 /\ line' = line + 1 /\ column' = 1

\* A token starts here; the one that started gets its kind and its text_len.
Begin == begun' = [at |-> pos, line |-> line, column |-> column]

Emit(kind, start, len) ==
  /\ toks' = Append(toks, [kind |-> kind, at |-> start.at, len |-> len,
                           line |-> start.line, column |-> start.column])
  /\ begun' = NotBegun
  /\ lex_pc' = IF kind \in {"eof", "error"} THEN "end" ELSE "skip"

HereBegun == [at |-> pos, line |-> line, column |-> column]

-----------------------------------------------------------------------------
\* Mutant: a comment ends at a line feed only.
skip_comment_to_nl ==
  /\ lex_pc = "comment"
  /\ \/ In(Characters \ {"nl"}) /\ Past(1) /\ UNCHANGED lex_pc
     \/ In({"nl"}) /\ lex_pc' = "skip" /\ UNCHANGED <<pos, line, column>>
  /\ UNCHANGED <<kept, out, begun, toks>>

skip_comment ==
  /\ lex_pc = "comment"
  /\ \/ In(Characters \ {"nl"}) /\ Past(1) /\ UNCHANGED lex_pc
     \/ ~In(Characters \ {"nl"}) /\ lex_pc' = "skip" /\ UNCHANGED <<pos, line, column>>
  /\ UNCHANGED <<kept, out, begun, toks>>

OnComment == In({"-"}) /\ Next1({"-"})

skip_ws_and_comments ==
  /\ lex_pc = "skip"
  /\ \/ In(Space \ {"nl"}) /\ Past(1) /\ UNCHANGED lex_pc
     \/ In({"nl"}) /\ PastLine /\ UNCHANGED lex_pc
     \/ OnComment /\ Past(2) /\ lex_pc' = "comment"
  /\ UNCHANGED <<kept, out, begun, toks>>

\* Mutant: the sign and the digits that follow it are two tokens.
Signed_never(C) == FALSE
Signed(C) == In({"+", "-"}) /\ Next1(C)

\* What is told by its first character: the end, one character that is a
\* token or that cannot be one, and the beginning of a longer token.
first_character ==
  /\ lex_pc = "skip" /\ ~In(Space) /\ ~OnComment
  /\ \/ /\ ~More \/ In(Foreign)
        /\ Emit(IF More THEN "error" ELSE "eof", HereBegun, 0)
        /\ UNCHANGED <<pos, line, column, out>>
     \/ /\ In(Punctuation) \/ (In({"+", "-"}) /\ ~Signed({"int"}))
        /\ Emit(Here, HereBegun, 1) /\ Past(1)
        /\ UNCHANGED out
     \/ /\ Begin
        /\ \/ In(Words) /\ lex_pc' = "word"
           \/ (In({"int"}) \/ Signed({"int"})) /\ lex_pc' = "digits"
           \/ In({"'"}) /\ lex_pc' = "string"
        /\ Past(1)
        /\ out' = 0 /\ UNCHANGED toks
  /\ UNCHANGED kept

\* keyword_kind: only a whole word is a keyword.
keyword_kind == IF pos - begun.at = 1 THEN text[begun.at] ELSE "name"

\* An identifier goes on with letters and digits, an integer with digits.
longest(at, C, kind) ==
  /\ lex_pc = at
  /\ \/ In(C) /\ Past(1) /\ UNCHANGED <<begun, toks, lex_pc>>
     \/ ~In(C) /\ Emit(kind, begun, pos - begun.at) /\ UNCHANGED <<pos, line, column>>
  /\ UNCHANGED <<kept, out>>

word   == longest("word", Words \cup {"int"}, keyword_kind)
digits == longest("digits", {"int"}, "int")

-----------------------------------------------------------------------------
(* decode_string, after the opening quote.                                 *)

InString == lex_pc = "string" /\ More
Pair     == InString /\ Here = "'" /\ Next1({"'"})

\* Mutant: a pair of quotes is stored whatever its place.
RoomBeforePairs == out + 1 < StrCap \/ Pair
Room == out + 1 < StrCap

string_pair == /\ Pair /\ Room
               /\ out' = out + 1 /\ Past(2)
               /\ UNCHANGED <<kept, begun, toks, lex_pc>>

string_end == /\ InString /\ Here = "'" /\ ~Pair
              /\ Emit("string", begun, out) /\ Past(1)
              /\ UNCHANGED <<kept, out>>

\* Mutant: a line feed inside a string is a column like any other.
string_character_flat ==
  /\ InString /\ Here # "'" /\ Room
  /\ Past(1)
  /\ out' = out + 1
  /\ UNCHANGED <<kept, begun, toks, lex_pc>>

string_character ==
  /\ InString /\ Here # "'" /\ Room
  /\ IF Here = "nl" THEN PastLine ELSE Past(1)
  /\ out' = out + 1
  /\ UNCHANGED <<kept, begun, toks, lex_pc>>

\* The buffer is full, or the text ends.  Nobody reads on after an error, so
\* where it leaves line and column does not matter.
string_fails == /\ lex_pc = "string"
                /\ ~More \/ (More /\ ~Room /\ (Here # "'" \/ Pair))
                /\ Emit("error", begun, 0)
                /\ UNCHANGED <<kept, pos, line, column, out>>

decode_string == string_pair \/ string_end \/ string_character \/ string_fails

lexer_next == \/ skip_ws_and_comments \/ skip_comment
              \/ first_character \/ word \/ digits \/ decode_string

-----------------------------------------------------------------------------
(* Properties.                                                             *)

\* The lexer gives, character by character, the tokens the text has: each
\* with its kind, its place and the length of its text, to the end of the
\* text or to what is no token (lexer_next against the definition of Lex).
LexedAsDefined ==
  LET given == [j \in DOMAIN toks |-> <<toks[j].kind, toks[j].at, toks[j].len>>]
      all   == [j \in DOMAIN lexed |-> <<lexed[j].kind, lexed[j].at, lexed[j].len>>]
  IN  IsPrefix(given, all) /\ (lex_pc = "end" => given = all)

\* The line and the column of a token are those of its first character,
\* counted from the beginning of the text, whatever comments, pairs of quotes
\* and line feeds inside strings come before it (lexer.h: where the token
\* started).
PositionsTrue ==
  \A j \in DOMAIN toks : /\ toks[j].line = Line(text, toks[j].at)
                         /\ toks[j].column = Column(text, toks[j].at)

\* No character is stored past the end of str_buf, and one place of it stays
\* free (decode_string).
StringFits == out < StrCap
=============================================================================
