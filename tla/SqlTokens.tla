----------------------------- MODULE SqlTokens ------------------------------
(***************************************************************************)
(* What the tokens of a text are, said with positions and sets: the        *)
(* definition that the lexer of SqlLexer, which goes through the text      *)
(* character by character, is compared with.                               *)
(*                                                                         *)
(* A text is a sequence of characters, where a word (a keyword or an       *)
(* identifier), a digit or the three bytes of a BOM count as one; "ff" is  *)
(* a form feed or a vertical tab, "ctl" another control character, "dq" a  *)
(* double quote, "bs" a backslash.  There is no NUL in it: the text of a   *)
(* trace and the strings of a statement end at one.                        *)
(***************************************************************************)
EXTENDS SqlGrammar, FiniteSetsExt

Words == Keywords \cup Identifiers
Space == {" ", "tab", "cr", "nl"}
\* What begins no token and is not skipped.
Foreign == {"bom", "ff", "ctl", "dq", "bs", "other"}
Characters == Words \cup Punctuation \cup Space \cup Foreign
                    \cup {"int", "+", "-", "'"}

CONSTANT StrCap  \* LEXER_STR_CAP: a string literal has fewer characters

ASSUME StrCapAssumption == StrCap \in Nat \ {0}

-----------------------------------------------------------------------------
\* The first position from p on whose character is not in C, or is c.
PastAll(s, p, C) == Min({q \in p .. Len(s) : s[q] \notin C} \cup {Len(s) + 1})
Find(s, p, c)    == Min({q \in p .. Len(s) : s[q] = c} \cup {Len(s) + 1})

CommentAt(s, p) == p < Len(s) /\ s[p] = "-" /\ s[p + 1] = "-"

\* Where the next token starts, from p on.
TokenStart(s, p) ==
  LET skip[q \in 1 .. Len(s) + 1] ==
        IF q <= Len(s) /\ s[q] \in Space THEN skip[q + 1]
        ELSE IF CommentAt(s, q) THEN skip[Find(s, q, "nl")]
        ELSE q
  IN  skip[p]

Quotes(s, p, q) == {r \in p .. q : s[r] = "'"}

\* The quote that closes the string opened at p: the first that is not one
\* of a pair.
ClosingQuotes(s, p) ==
  {q \in Quotes(s, p + 1, Len(s)) :
     /\ Cardinality(Quotes(s, p + 1, q)) % 2 = 1
     /\ q < Len(s) => s[q + 1] # "'"}

\* Characters of the string between p and q, a pair of quotes being one.
StringLength(s, p, q) == (q - p - 1) - (Cardinality(Quotes(s, p + 1, q - 1)) \div 2)

Token(kind, from, to, length) == [kind |-> kind, at |-> from, to |-> to, len |-> length]
Unreadable(s, p) == Token("error", p, Len(s), 0)

StringToken(s, p) ==
  LET q == Min(ClosingQuotes(s, p)) IN
  IF ClosingQuotes(s, p) = {} \/ StringLength(s, p, q) >= StrCap
  THEN Unreadable(s, p)
  ELSE Token("string", p, q, StringLength(s, p, q))

\* The token that starts at p, and its last character.  Words and digits that
\* touch make one identifier; a sign belongs to the digits that follow it.
TokenAt(s, p) ==
  LET word   == PastAll(s, p, Words \cup {"int"}) - 1
      number == PastAll(s, p + 1, {"int"}) - 1 IN
  CASE s[p] \in Words -> Token(IF word = p THEN s[p] ELSE "name", p, word, word - p + 1)
    [] s[p] = "int" -> Token("int", p, number, number - p + 1)
    [] s[p] \in {"+", "-"} ->
         Token(IF number > p THEN "int" ELSE s[p], p, number, number - p + 1)
    [] s[p] = "'" -> StringToken(s, p)
    [] s[p] \in Punctuation -> Token(s[p], p, p, 1)
    [] OTHER -> Unreadable(s, p)

\* The tokens of s up to eof or the first error.
Lex(s) ==
  LET from[p \in 1 .. Len(s) + 1] ==
        LET b == TokenStart(s, p)
            t == TokenAt(s, b) IN
        IF b > Len(s) THEN <<Token("eof", b, b, 0)>>
        ELSE IF t.kind = "error" THEN <<t>>
        ELSE <<t>> \o from[t.to + 1]
  IN  from[1]

Kinds(tokens) == [j \in DOMAIN tokens |-> tokens[j].kind]

\* The line and the column of position p, both from 1.
Line(s, p)   == 1 + Cardinality({q \in 1 .. p - 1 : s[q] = "nl"})
Column(s, p) == p - Max({q \in 1 .. p - 1 : s[q] = "nl"} \cup {0})
=============================================================================
