----------------------------- MODULE SqlGrammar -----------------------------
(***************************************************************************)
(* The two statements of the language, as sets of token sequences: what    *)
(* parser_parse_insert and parser_parse_select (parser.c) take.  A token   *)
(* is its TokenKind; of the identifiers only `id', which WHERE asks for,   *)
(* is told from the others.                                                *)
(***************************************************************************)
EXTENDS Integers, Sequences, SequencesExt

Keywords    == {"INSERT", "INTO", "VALUES", "SELECT", "FROM", "WHERE", "NULL"}
Identifiers == {"id", "name"}
Literals    == {"int", "string", "NULL"}
Punctuation == {"(", ")", ",", ";", "*", "="}
Terminators == {";", "eof"}

\* error: lexer_next returned -1.
TokenKinds == Keywords \cup Identifiers \cup {"int", "string", "+", "-"}
                       \cup Punctuation \cup {"eof", "error"}

\* Elements of K separated by commas, at least one.
CommaList(s, K) ==
  /\ Len(s) % 2 = 1
  /\ \A i \in 1 .. Len(s) : IF i % 2 = 1 THEN s[i] \in K ELSE s[i] = ","

ListLength(s) == (Len(s) + 1) \div 2

\* The values between the parentheses of an INSERT.
ValueList(s) == SubSeq(s, 6, Len(s) - 2)

IsInsert(s) ==
  /\ Len(s) >= 7
  /\ s[1] = "INSERT" /\ s[2] = "INTO" /\ s[3] \in Identifiers
  /\ s[4] = "VALUES" /\ s[5] = "("
  /\ ValueList(s) = <<>> \/ CommaList(ValueList(s), Literals)
  /\ s[Len(s) - 1] = ")" /\ s[Len(s)] \in Terminators

\* The columns of a SELECT that has FROM as its token number n.
ColumnList(s, n) == SubSeq(s, 2, n - 1)

IsSelectAt(s, n) ==
  /\ s[1] = "SELECT" /\ s[n] = "FROM"
  /\ ColumnList(s, n) = <<"*">> \/ CommaList(ColumnList(s, n), Identifiers)
  /\ s[n + 1] \in Identifiers
  /\ s[Len(s)] \in Terminators
  /\ SubSeq(s, n + 2, Len(s) - 1) \in {<<>>, <<"WHERE", "id", "=", "int">>}

IsSelect(s) == \E n \in 3 .. Len(s) - 2 : IsSelectAt(s, n)

\* The end of the statement that s starts with: the rest is not looked at.
SentenceEnds(s) == {n \in 1 .. Len(s) : \/ IsInsert(SubSeq(s, 1, n))
                                        \/ IsSelect(SubSeq(s, 1, n))}

\* Enough endings to finish anything that can be finished.
Completions ==
  UNION {Suffixes(c) : c \in {
    <<"INSERT", "INTO", "name", "VALUES", "(", "int", ")", ";">>,
    <<"SELECT", "name", "FROM", "name", ";">>,
    <<"SELECT", "*", "FROM", "name", "WHERE", "id", "=", "int", ";">>}}

\* t is the beginning of a statement.
Viable(t) == \E c \in Completions : IsInsert(t \o c) \/ IsSelect(t \o c)
=============================================================================
