-------------------------- MODULE SqlLexer_proofs ---------------------------
(***************************************************************************)
(* Proofs about the lexer, for texts of every length and every capacity of *)
(* the string buffer: a step of lexer_next keeps the positions, the buffer *)
(* and the tokens what they should be.  SqlScript_proofs draws the         *)
(* conclusions for a run, which starts the lexer on each piece.  The last  *)
(* part is about the recursive function Lex: the tokens of a text, and     *)
(* those of a piece that is cut out of it.                                 *)
(***************************************************************************)
EXTENDS SqlLexer, SequenceTheorems, FiniteSetTheorems, TLAPS

-----------------------------------------------------------------------------
(* Sequences.                                                              *)

\* s is a sequence, whatever its elements are.
IsSequence(s) == s \in Seq({s[j] : j \in 1 .. Len(s)})

LEMMA SequenceOf == ASSUME NEW S, NEW s \in Seq(S) PROVE IsSequence(s)
<1>1. Len(s) \in Nat /\ s = [j \in 1 .. Len(s) |-> s[j]]
  OBVIOUS
<1>2. \A j \in 1 .. Len(s) : s[j] \in {s[k] : k \in 1 .. Len(s)}
  OBVIOUS
<1> QED
  BY <1>1, <1>2 DEF IsSequence

LEMMA CutOf ==
  ASSUME NEW S, NEW s \in Seq(S), NEW a \in Nat \ {0}, NEW b \in Nat, b <= Len(s)
  PROVE  /\ SubSeq(s, a, b) \in Seq(S)
         /\ Len(SubSeq(s, a, b)) = IF a <= b THEN (b - a) + 1 ELSE 0
         /\ \A j \in 1 .. (b - a) + 1 : SubSeq(s, a, b)[j] = s[(a + j) - 1]
<1>1. (\A j \in a .. b : s[j] \in S) /\ a \in Int /\ b \in Int
  OBVIOUS
<1>2. /\ SubSeq(s, a, b) \in Seq(S)
      /\ Len(SubSeq(s, a, b)) = IF a <= b THEN b - a + 1 ELSE 0
      /\ \A j \in 1 .. b - a + 1 : SubSeq(s, a, b)[j] = s[a + j - 1]
  BY <1>1, SubSeqProperties
<1> QED
  BY <1>2

LEMMA WiderSeq ==
  ASSUME NEW A, NEW B, A \subseteq B, NEW s \in Seq(A)
  PROVE  s \in Seq(B)
OBVIOUS

LEMMA PrefixOf ==
  ASSUME NEW s, NEW t, IsSequence(s), IsSequence(t), Len(s) <= Len(t), \A j \in 1 .. Len(s) : s[j] = t[j]
  PROVE  IsPrefix(s, t) /\ (Len(s) = Len(t) => s = t)
<1> DEFINE S == {s[j] : j \in 1 .. Len(s)}
           T == {t[j] : j \in 1 .. Len(t)}
<1>1. s \in Seq(S) /\ t \in Seq(T) /\ Len(s) \in Nat /\ Len(t) \in Nat
  BY DEF IsSequence
<1> HIDE DEF S, T
<1>2. PICK m \in Nat : m = Len(s) /\ m <= Len(t)
  BY <1>1
<1> DEFINE g == SubSeq(s, 1, m)
           h == SubSeq(t, 1, m)
<1>3. /\ g \in Seq(S) /\ Len(g) = (IF 1 <= m THEN (m - 1) + 1 ELSE 0)
      /\ \A j \in 1 .. (m - 1) + 1 : g[j] = s[(1 + j) - 1]
  BY <1>1, <1>2, CutOf
<1>4. /\ h \in Seq(T) /\ Len(h) = (IF 1 <= m THEN (m - 1) + 1 ELSE 0)
      /\ \A j \in 1 .. (m - 1) + 1 : h[j] = t[(1 + j) - 1]
  BY <1>1, <1>2, CutOf
<1> HIDE DEF g, h
<1>5. ASSUME NEW j \in 1 .. m
      PROVE  g[j] = h[j]
  <2>1. j \in 1 .. (m - 1) + 1 /\ (1 + j) - 1 = j
    OBVIOUS
  <2>2. g[j] = s[j] /\ h[j] = t[j]
    BY <1>3, <1>4, <2>1
  <2> QED
    BY <1>2, <2>2
<1>6. Len(g) = m /\ Len(h) = m
  BY <1>3, <1>4
<1>7. g = h
  BY <1>3, <1>4, <1>5, <1>6
<1> QED
  BY <1>1, <1>2, <1>7 DEF IsPrefix, g, h

\* What is compared of a list of tokens.
Told3(ts) == [j \in DOMAIN ts |-> <<ts[j].kind, ts[j].at, ts[j].len>>]

LEMMA Told3Is ==
  ASSUME NEW ts, IsSequence(ts)
  PROVE  /\ IsSequence(Told3(ts)) /\ Len(Told3(ts)) = Len(ts)
         /\ \A j \in 1 .. Len(ts) : Told3(ts)[j] = <<ts[j].kind, ts[j].at, ts[j].len>>
<1> DEFINE f(j) == <<ts[j].kind, ts[j].at, ts[j].len>>
           V    == {f(j) : j \in 1 .. Len(ts)}
<1>1. DOMAIN ts = 1 .. Len(ts) /\ Len(ts) \in Nat
  BY DEF IsSequence
<1>2. Told3(ts) = [j \in 1 .. Len(ts) |-> f(j)]
  BY <1>1 DEF Told3
<1> HIDE DEF f
<1>3. Told3(ts) \in Seq(V) /\ Len(Told3(ts)) = Len(ts) /\ \A j \in 1 .. Len(ts) : Told3(ts)[j] = f(j)
  BY <1>1, <1>2
<1> HIDE DEF V
<1>4. IsSequence(Told3(ts))
  BY <1>3, SequenceOf
<1> QED
  BY <1>3, <1>4 DEF f

-----------------------------------------------------------------------------
(* Least and greatest numbers.                                             *)

LEMMA LeastNat ==
  ASSUME NEW T \in SUBSET Nat, T # {}
  PROVE  \E x \in T : \A y \in T : x <= y
<1>1. PICK x \in T : \A y \in T : ~(<<y, x>> \in OpToRel(<, Nat))
  BY NatLessThanWellFounded, WFMin
<1>2. ASSUME NEW y \in T
      PROVE  x <= y
  <2>1. ~(<<y, x>> \in OpToRel(<, Nat))
    BY <1>1
  <2>2. <<y, x>> \in Nat \X Nat /\ <<y, x>>[1] = y /\ <<y, x>>[2] = x
    OBVIOUS
  <2>3. ~(y < x)
    BY <2>1, <2>2 DEF OpToRel
  <2> QED
    BY <2>3
<1> QED
  BY <1>2

\* Min is the least number of a set that is not empty.
LEMMA MinIsLeast ==
  ASSUME NEW T \in SUBSET Nat, T # {}
  PROVE  Min(T) \in T /\ \A y \in T : Min(T) <= y
BY LeastNat DEF Min

\* Max is the greatest number of a set that has a bound and is not empty.
LEMMA MaxIsGreatest ==
  ASSUME NEW b \in Nat, NEW T \in SUBSET (0 .. b), T # {}
  PROVE  Max(T) \in T /\ \A y \in T : Max(T) >= y
<1> DEFINE D == {b - y : y \in T}
<1>1. D \in SUBSET Nat /\ D # {}
  <2>1. \A y \in T : y \in 0 .. b /\ b - y \in Nat
    OBVIOUS
  <2> QED
    BY <2>1
<1>2. PICK d \in D : \A e \in D : d <= e
  BY <1>1, LeastNat
<1>3. PICK x \in T : d = b - x
  OBVIOUS
<1>4. ASSUME NEW y \in T
      PROVE  x >= y
  <2>1. b - y \in D
    OBVIOUS
  <2>2. b - x <= b - y
    BY <1>2, <1>3, <2>1
  <2>3. x \in 0 .. b /\ y \in 0 .. b
    OBVIOUS
  <2> QED
    BY <2>2, <2>3
<1>5. \E z \in T : \A y \in T : z >= y
  BY <1>4
<1> QED
  BY <1>5 DEF Max

-----------------------------------------------------------------------------
(* Lines and columns.                                                      *)

LineFeeds(s, p) == {q \in 1 .. p - 1 : s[q] = "nl"}

LEMMA LineFeedsUpTo ==
  ASSUME NEW s, NEW p \in Nat \ {0}
  PROVE  /\ IsFiniteSet(LineFeeds(s, p)) /\ Cardinality(LineFeeds(s, p)) \in Nat
         /\ LineFeeds(s, p) \cup {0} \in SUBSET (0 .. p - 1) /\ p - 1 \in Nat
<1>1. IsFiniteSet(1 .. p - 1)
  BY FS_Interval
<1>2. LineFeeds(s, p) \in SUBSET (1 .. p - 1)
  BY DEF LineFeeds
<1>3. IsFiniteSet(LineFeeds(s, p))
  BY <1>1, <1>2, FS_Subset
<1> QED
  BY <1>2, <1>3, FS_CardinalityType

\* The first character of a text is in line 1, column 1.
LEMMA FirstPosition == \A s : Line(s, 1) = 1 /\ Column(s, 1) = 1
<1> TAKE s
<1>1. LineFeeds(s, 1) = {}
  BY DEF LineFeeds
<1>2. Cardinality(LineFeeds(s, 1)) = 0
  BY <1>1, FS_EmptySet
<1>3. Max(LineFeeds(s, 1) \cup {0}) = 0
  <2>1. 0 \in Nat /\ {0} \in SUBSET (0 .. 0) /\ {0} # {} /\ LineFeeds(s, 1) \cup {0} = {0}
    BY <1>1
  <2> QED
    BY <2>1, MaxIsGreatest
<1> QED
  BY <1>2, <1>3 DEF Line, Column, LineFeeds

LEMMA PositionTypes ==
  ASSUME NEW s, NEW p \in Nat \ {0}
  PROVE  Line(s, p) \in Nat \ {0} /\ Column(s, p) \in Nat \ {0}
<1>1. Max(LineFeeds(s, p) \cup {0}) \in 0 .. p - 1
  BY LineFeedsUpTo, MaxIsGreatest
<1>2. Cardinality(LineFeeds(s, p)) \in Nat
  BY LineFeedsUpTo
<1> QED
  BY <1>1, <1>2 DEF Line, Column, LineFeeds

\* Past a character that is no line feed the line stays, and the column is the
\* next; past a line feed the next line begins.
LEMMA PositionNext ==
  ASSUME NEW s, NEW p \in Nat \ {0}
  PROVE  /\ s[p] # "nl" => /\ Line(s, p + 1) = Line(s, p)
                           /\ Column(s, p + 1) = Column(s, p) + 1
         /\ s[p] = "nl" => Line(s, p + 1) = Line(s, p) + 1 /\ Column(s, p + 1) = 1
<1>1. /\ IsFiniteSet(LineFeeds(s, p)) /\ Cardinality(LineFeeds(s, p)) \in Nat
      /\ LineFeeds(s, p) \cup {0} \in SUBSET (0 .. p - 1) /\ p - 1 \in Nat
  BY LineFeedsUpTo
<1>2. /\ Line(s, p) = 1 + Cardinality(LineFeeds(s, p))
      /\ Line(s, p + 1) = 1 + Cardinality(LineFeeds(s, p + 1))
      /\ Column(s, p) = p - Max(LineFeeds(s, p) \cup {0})
      /\ Column(s, p + 1) = (p + 1) - Max(LineFeeds(s, p + 1) \cup {0})
  BY DEF Line, Column, LineFeeds
<1>3. CASE s[p] # "nl"
  <2>1. LineFeeds(s, p + 1) = LineFeeds(s, p)
    BY <1>3 DEF LineFeeds
  <2>2. Max(LineFeeds(s, p) \cup {0}) \in 0 .. p - 1
    BY <1>1, MaxIsGreatest
  <2> QED
    BY <1>2, <1>3, <2>1, <2>2
<1>4. CASE s[p] = "nl"
  <2>1. LineFeeds(s, p + 1) = LineFeeds(s, p) \cup {p} /\ p \notin LineFeeds(s, p)
    BY <1>4 DEF LineFeeds
  <2>2. Cardinality(LineFeeds(s, p + 1)) = Cardinality(LineFeeds(s, p)) + 1
    BY <1>1, <2>1, FS_AddElement
  <2>3. Max(LineFeeds(s, p + 1) \cup {0}) = p
    <3>1. p + 1 \in Nat \ {0} /\ (p + 1) - 1 = p
      OBVIOUS
    <3>2. LineFeeds(s, p + 1) \cup {0} \in SUBSET (0 .. p) /\ p \in LineFeeds(s, p + 1) \cup {0}
      BY <2>1, <3>1, LineFeedsUpTo
    <3>3. PICK m : m = Max(LineFeeds(s, p + 1) \cup {0})
      OBVIOUS
    <3>4. m \in LineFeeds(s, p + 1) \cup {0} /\ m >= p
      BY <3>2, <3>3, MaxIsGreatest
    <3>5. m \in 0 .. p
      BY <3>2, <3>4
    <3> QED
      BY <3>3, <3>4, <3>5
  <2> QED
    BY <1>1, <1>2, <1>4, <2>2, <2>3
<1> QED
  BY <1>3, <1>4

-----------------------------------------------------------------------------
(* The lexer.                                                              *)

\* b tells of position p of s, with its line and its column.
At(s, b, p) == b.at = p /\ b.line = Line(s, p) /\ b.column = Column(s, p)

TokensTrue ==
  \A j \in 1 .. Len(toks) : toks[j].at \in Nat \ {0} /\ At(text, toks[j], toks[j].at)

\* What the token begun is known to be.
BegunTrue ==
  /\ lex_pc \in {"word", "digits", "string"} =>
       begun.at \in 1 .. pos - 1 /\ At(text, begun, begun.at)
  /\ lex_pc = "word" => text[begun.at] \in Words

LexInv ==
  /\ text \in Seq(Characters)
  /\ pos \in 1 .. Len(text) + 1
  /\ line = Line(text, pos) /\ column = Column(text, pos)
  /\ out \in 0 .. StrCap - 1
  /\ toks \in Seq(LexerTokens) /\ TokensTrue
  /\ lex_pc \in {"skip", "comment", "word", "digits", "string", "end"}
  /\ BegunTrue

\* Moving on keeps line and column those of the position.
LEMMA PastKeeps ==
  ASSUME LexInv, pos <= Len(text), text[pos] # "nl", Past(1), text' = text
  PROVE  /\ pos' \in 1 .. Len(text) + 1 /\ pos' = pos + 1
         /\ line' = Line(text, pos') /\ column' = Column(text, pos')
<1>1. pos \in Nat \ {0} /\ Len(text) \in Nat
  BY DEF LexInv
<1>2. Line(text, pos + 1) = Line(text, pos) /\ Column(text, pos + 1) = Column(text, pos) + 1
  BY <1>1, PositionNext
<1> QED
  BY <1>1, <1>2 DEF LexInv, Past

LEMMA PastTwoKeeps ==
  ASSUME LexInv, pos < Len(text), text[pos] # "nl", text[pos + 1] # "nl", Past(2), text' = text
  PROVE  /\ pos' \in 1 .. Len(text) + 1 /\ pos' = pos + 2
         /\ line' = Line(text, pos') /\ column' = Column(text, pos')
<1>1. pos \in Nat \ {0} /\ Len(text) \in Nat /\ pos + 1 \in Nat \ {0} /\ (pos + 1) + 1 = pos + 2
  BY DEF LexInv
<1>2. Line(text, pos + 1) = Line(text, pos) /\ Column(text, pos + 1) = Column(text, pos) + 1
  BY <1>1, PositionNext
<1>3. /\ Line(text, (pos + 1) + 1) = Line(text, pos + 1)
      /\ Column(text, (pos + 1) + 1) = Column(text, pos + 1) + 1
  BY <1>1, PositionNext
<1>4. Column(text, pos) \in Nat
  BY <1>1, PositionTypes
<1> QED
  BY <1>1, <1>2, <1>3, <1>4 DEF LexInv, Past

LEMMA PastLineKeeps ==
  ASSUME LexInv, pos <= Len(text), text[pos] = "nl", PastLine, text' = text
  PROVE  /\ pos' \in 1 .. Len(text) + 1 /\ pos' = pos + 1
         /\ line' = Line(text, pos') /\ column' = Column(text, pos')
<1>1. pos \in Nat \ {0} /\ Len(text) \in Nat
  BY DEF LexInv
<1>2. Line(text, pos + 1) = Line(text, pos) + 1 /\ Column(text, pos + 1) = 1
  BY <1>1, PositionNext
<1> QED
  BY <1>1, <1>2 DEF LexInv, PastLine

\* A position that is kept is kept.
LEMMA StayKeeps ==
  ASSUME LexInv, UNCHANGED <<pos, line, column>>, text' = text
  PROVE  /\ pos' \in 1 .. Len(text) + 1
         /\ line' = Line(text, pos') /\ column' = Column(text, pos')
BY DEF LexInv

\* A token is given.
LEMMA EmitKeeps ==
  ASSUME LexInv, text' = text, NEW kind \in TokenKinds, NEW b, NEW p \in Nat \ {0}, At(text, b, p),
         NEW len \in Nat, Emit(kind, b, len)
  PROVE  /\ toks' \in Seq(LexerTokens) /\ TokensTrue'
         /\ lex_pc' \in {"skip", "end"} /\ BegunTrue'
<1> DEFINE t == [kind |-> kind, at |-> b.at, len |-> len, line |-> b.line, column |-> b.column]
<1>1. t \in LexerTokens /\ t.at \in Nat \ {0} /\ At(text, t, t.at)
  <2>1. Line(text, p) \in Nat /\ Column(text, p) \in Nat
    BY PositionTypes
  <2> QED
    BY <2>1 DEF At, LexerTokens
<1>2. toks' = Append(toks, t)
  BY DEF Emit
<1> HIDE DEF t
<1>3. /\ toks' \in Seq(LexerTokens) /\ Len(toks') = Len(toks) + 1 /\ Len(toks) \in Nat
      /\ \A j \in 1 .. Len(toks) : toks'[j] = toks[j]
      /\ toks'[Len(toks) + 1] = t
  BY <1>1, <1>2 DEF LexInv
<1>4. ASSUME NEW j \in 1 .. Len(toks')
      PROVE  toks'[j].at \in Nat \ {0} /\ At(text, toks'[j], toks'[j].at)
  <2>1. CASE j \in 1 .. Len(toks)
    BY <1>3, <2>1 DEF LexInv, TokensTrue
  <2>2. CASE j = Len(toks) + 1
    BY <1>1, <1>3, <2>2
  <2> QED
    BY <1>3, <2>1, <2>2
<1>5. TokensTrue'
  BY <1>4 DEF TokensTrue
<1>6. lex_pc' \in {"skip", "end"}
  BY DEF Emit
<1> QED
  BY <1>3, <1>5, <1>6 DEF BegunTrue

LEMMA LexInitKeeps ==
  ASSUME NEW s \in Seq(Characters), lexer_init(s)
  PROVE  LexInv'
<1>1. /\ text' = s /\ pos' = 1 /\ line' = 1 /\ column' = 1 /\ out' = 0 /\ toks' = <<>>
      /\ lex_pc' = "skip"
  BY DEF lexer_init
<1>2. Line(s, 1) = 1 /\ Column(s, 1) = 1
  BY FirstPosition
<1>3. TokensTrue'
  BY <1>1 DEF TokensTrue
<1>4. BegunTrue'
  BY <1>1 DEF BegunTrue
<1>5. 0 \in 0 .. StrCap - 1
  BY StrCapAssumption
<1> QED
  BY <1>1, <1>2, <1>3, <1>4, <1>5 DEF LexInv

LEMMA LexOff == lexer_off => LexInv
<1> HAVE lexer_off
<1>1. /\ text = <<>> /\ pos = 1 /\ line = 1 /\ column = 1 /\ out = 0 /\ toks = <<>>
      /\ lex_pc = "end"
  BY DEF lexer_off
<1>2. Line(<<>>, 1) = 1 /\ Column(<<>>, 1) = 1
  BY FirstPosition
<1>3. TokensTrue
  BY <1>1 DEF TokensTrue
<1>4. BegunTrue
  BY <1>1 DEF BegunTrue
<1>5. 0 \in 0 .. StrCap - 1
  BY StrCapAssumption
<1> QED
  BY <1>1, <1>2, <1>3, <1>4, <1>5 DEF LexInv

\* What the characters of a class are not.
LEMMA Classes ==
  /\ "nl" \notin Words /\ "nl" \notin Punctuation /\ Punctuation \subseteq TokenKinds
  /\ Words \subseteq TokenKinds /\ {"name", "int", "string", "eof", "error", "+", "-"} \subseteq TokenKinds
BY DEF Words, Keywords, Identifiers, Punctuation, TokenKinds

\* A step that gives no token.
LEMMA NoTokenKeeps ==
  ASSUME LexInv, text' = text, toks' = toks,
         pos' \in 1 .. Len(text) + 1, line' = Line(text, pos'), column' = Column(text, pos'),
         out' \in 0 .. StrCap - 1,
         lex_pc' \in {"skip", "comment", "word", "digits", "string", "end"}, BegunTrue'
  PROVE  LexInv'
<1>1. TokensTrue'
  BY DEF LexInv, TokensTrue
<1> QED
  BY <1>1 DEF LexInv

LEMMA BegunKept ==
  ASSUME LexInv, text' = text, begun' = begun, lex_pc' = lex_pc, pos' \in Int, pos' >= pos
  PROVE  BegunTrue'
<1>1. pos \in Int
  BY DEF LexInv
<1> QED
  BY <1>1 DEF LexInv, BegunTrue

\* A step that gives one.
LEMMA TokenKeeps ==
  ASSUME LexInv, text' = text, NEW kind \in TokenKinds, NEW b, NEW p \in Nat \ {0}, At(text, b, p),
         NEW len \in Nat, Emit(kind, b, len),
         pos' \in 1 .. Len(text) + 1, line' = Line(text, pos'), column' = Column(text, pos'),
         out' = out
  PROVE  LexInv'
<1>1. toks' \in Seq(LexerTokens) /\ TokensTrue' /\ lex_pc' \in {"skip", "end"} /\ BegunTrue'
  BY EmitKeeps
<1> QED
  BY <1>1 DEF LexInv

LEMMA HereAt ==
  ASSUME LexInv
  PROVE  At(text, HereBegun, pos) /\ pos \in Nat \ {0}
BY DEF LexInv, At, HereBegun

LEMMA SkipKeeps == LexInv /\ skip_ws_and_comments => LexInv'
<1> HAVE LexInv /\ skip_ws_and_comments
<1>1. lex_pc = "skip" /\ text' = text /\ out' = out /\ toks' = toks
  BY DEF skip_ws_and_comments, kept
<1>2. CASE In(Space \ {"nl"}) /\ Past(1) /\ UNCHANGED lex_pc
  <2>1. pos <= Len(text) /\ text[pos] # "nl"
    BY <1>2 DEF In, More, Here
  <2>2. pos' \in 1 .. Len(text) + 1 /\ line' = Line(text, pos') /\ column' = Column(text, pos')
    BY <1>1, <1>2, <2>1, PastKeeps
  <2>3. BegunTrue'
    BY <1>1, <1>2 DEF BegunTrue
  <2> QED
    BY <1>1, <1>2, <2>2, <2>3, NoTokenKeeps DEF LexInv
<1>3. CASE In({"nl"}) /\ PastLine /\ UNCHANGED lex_pc
  <2>1. pos <= Len(text) /\ text[pos] = "nl"
    BY <1>3 DEF In, More, Here
  <2>2. pos' \in 1 .. Len(text) + 1 /\ line' = Line(text, pos') /\ column' = Column(text, pos')
    BY <1>1, <1>3, <2>1, PastLineKeeps
  <2>3. BegunTrue'
    BY <1>1, <1>3 DEF BegunTrue
  <2> QED
    BY <1>1, <1>3, <2>2, <2>3, NoTokenKeeps DEF LexInv
<1>4. CASE OnComment /\ Past(2) /\ lex_pc' = "comment"
  <2>1. pos < Len(text) /\ text[pos] # "nl" /\ text[pos + 1] # "nl"
    BY <1>4 DEF OnComment, Next1, In, More, Here
  <2>2. pos' \in 1 .. Len(text) + 1 /\ line' = Line(text, pos') /\ column' = Column(text, pos')
    BY <1>1, <1>4, <2>1, PastTwoKeeps
  <2>3. BegunTrue'
    BY <1>1, <1>4 DEF BegunTrue
  <2> QED
    BY <1>1, <1>4, <2>2, <2>3, NoTokenKeeps DEF LexInv
<1> QED
  BY <1>2, <1>3, <1>4 DEF skip_ws_and_comments

LEMMA CommentKeeps == LexInv /\ skip_comment => LexInv'
<1> HAVE LexInv /\ skip_comment
<1>1. lex_pc = "comment" /\ text' = text /\ out' = out /\ toks' = toks /\ lex_pc' \in {"skip", "comment"}
  BY DEF skip_comment, kept
<1>2. BegunTrue'
  BY <1>1 DEF BegunTrue
<1>3. CASE In(Characters \ {"nl"}) /\ Past(1)
  <2>1. pos <= Len(text) /\ text[pos] # "nl"
    BY <1>3 DEF In, More, Here
  <2>2. pos' \in 1 .. Len(text) + 1 /\ line' = Line(text, pos') /\ column' = Column(text, pos')
    BY <1>1, <1>3, <2>1, PastKeeps
  <2> QED
    BY <1>1, <1>2, <2>2, NoTokenKeeps DEF LexInv
<1>4. CASE UNCHANGED <<pos, line, column>>
  BY <1>1, <1>2, <1>4, StayKeeps, NoTokenKeeps DEF LexInv
<1> QED
  BY <1>3, <1>4 DEF skip_comment

LEMMA FirstCharacterKeeps == LexInv /\ first_character => LexInv'
<1> HAVE LexInv /\ first_character
<1>1. text' = text /\ pos \in Nat \ {0} /\ Len(text) \in Nat /\ At(text, HereBegun, pos)
  BY HereAt DEF first_character, kept, LexInv
<1>2. CASE /\ Emit(IF More THEN "error" ELSE "eof", HereBegun, 0)
           /\ UNCHANGED <<pos, line, column, out>>
  <2>1. (IF More THEN "error" ELSE "eof") \in TokenKinds /\ 0 \in Nat
    BY Classes
  <2> QED
    BY <1>1, <1>2, <2>1, StayKeeps, TokenKeeps
<1>3. CASE /\ In(Punctuation) \/ (In({"+", "-"}) /\ ~Signed({"int"}))
           /\ Emit(Here, HereBegun, 1) /\ Past(1) /\ UNCHANGED out
  <2>1. pos <= Len(text) /\ text[pos] # "nl" /\ Here \in TokenKinds /\ 1 \in Nat
    BY <1>3, Classes DEF In, More, Here
  <2>2. pos' \in 1 .. Len(text) + 1 /\ line' = Line(text, pos') /\ column' = Column(text, pos')
    BY <1>1, <1>3, <2>1, PastKeeps
  <2> QED
    BY <1>1, <1>3, <2>1, <2>2, TokenKeeps
<1>4. CASE /\ Begin
           /\ \/ In(Words) /\ lex_pc' = "word"
              \/ (In({"int"}) \/ Signed({"int"})) /\ lex_pc' = "digits"
              \/ In({"'"}) /\ lex_pc' = "string"
           /\ Past(1) /\ out' = 0 /\ UNCHANGED toks
  <2>1. /\ pos <= Len(text) /\ text[pos] # "nl"
        /\ lex_pc' \in {"word", "digits", "string"} /\ (lex_pc' = "word" => text[pos] \in Words)
    BY <1>4, Classes DEF In, Signed, More, Here
  <2>2. pos' \in 1 .. Len(text) + 1 /\ pos' = pos + 1
        /\ line' = Line(text, pos') /\ column' = Column(text, pos')
    BY <1>1, <1>4, <2>1, PastKeeps
  <2>3. begun' = HereBegun
    BY <1>4 DEF Begin, HereBegun
  <2>4. BegunTrue'
    <3>1. begun'.at = pos /\ At(text, begun', begun'.at)
      BY <1>1, <2>3 DEF At
    <3> QED
      BY <1>1, <2>1, <2>2, <3>1 DEF BegunTrue
  <2>5. out' \in 0 .. StrCap - 1
    BY <1>4, StrCapAssumption
  <2> QED
    BY <1>1, <1>4, <2>1, <2>2, <2>4, <2>5, NoTokenKeeps
<1> QED
  BY <1>2, <1>3, <1>4 DEF first_character

LEMMA LongestKeeps ==
  \A at, C, kind :
    /\ LexInv /\ at \in {"word", "digits"} /\ "nl" \notin C /\ kind \in TokenKinds
    /\ longest(at, C, kind)
    => LexInv'
<1>1. SUFFICES ASSUME NEW at, NEW C, NEW kind, LexInv, at \in {"word", "digits"}, "nl" \notin C,
                      kind \in TokenKinds, longest(at, C, kind)
               PROVE  LexInv'
  OBVIOUS
<1>2. /\ lex_pc = at /\ text' = text /\ out' = out /\ pos \in Nat \ {0}
      /\ begun.at \in 1 .. pos - 1 /\ At(text, begun, begun.at)
  BY <1>1 DEF longest, kept, LexInv, BegunTrue
<1>3. CASE In(C) /\ Past(1) /\ UNCHANGED <<begun, toks, lex_pc>>
  <2>1. pos <= Len(text) /\ text[pos] # "nl"
    BY <1>1, <1>3 DEF In, More, Here
  <2>2. pos' \in 1 .. Len(text) + 1 /\ pos' = pos + 1
        /\ line' = Line(text, pos') /\ column' = Column(text, pos')
    BY <1>1, <1>2, <1>3, <2>1, PastKeeps
  <2>3. BegunTrue'
    BY <1>1, <1>2, <1>3, <2>2, BegunKept
  <2> QED
    BY <1>1, <1>2, <1>3, <2>2, <2>3, NoTokenKeeps DEF LexInv
<1>4. CASE Emit(kind, begun, pos - begun.at) /\ UNCHANGED <<pos, line, column>>
  <2>1. begun.at \in Nat \ {0} /\ pos - begun.at \in Nat
    BY <1>2
  <2> QED
    BY <1>1, <1>2, <1>4, <2>1, StayKeeps, TokenKeeps
<1> QED
  BY <1>1, <1>3, <1>4 DEF longest

LEMMA WordKeeps == LexInv /\ word => LexInv'
<1> HAVE LexInv /\ word
<1>1. lex_pc = "word" /\ text[begun.at] \in Words
  BY DEF word, longest, LexInv, BegunTrue
<1>2. keyword_kind \in TokenKinds /\ "nl" \notin Words \cup {"int"}
  BY <1>1, Classes DEF keyword_kind
<1> QED
  BY <1>2, LongestKeeps DEF word

LEMMA DigitsKeep == LexInv /\ digits => LexInv'
<1>1. "int" \in TokenKinds /\ "nl" \notin {"int"}
  BY Classes
<1> QED
  BY <1>1, LongestKeeps DEF digits

LEMMA StringKeeps == LexInv /\ decode_string => LexInv'
<1> HAVE LexInv /\ decode_string
<1>1. /\ text' = text /\ lex_pc = "string" /\ pos \in Nat \ {0} /\ Len(text) \in Nat
      /\ begun.at \in 1 .. pos - 1 /\ At(text, begun, begun.at) /\ begun.at \in Nat \ {0}
      /\ out \in 0 .. StrCap - 1 /\ out \in Nat /\ StrCap \in Nat
  <2>1. lex_pc = "string" /\ text' = text
    BY DEF decode_string, string_pair, string_end, string_character, string_fails, Pair, InString, kept
  <2> QED
    BY <2>1, StrCapAssumption DEF LexInv, BegunTrue
<1>2. CASE string_pair
  <2>1. /\ Past(2) /\ out' = out + 1 /\ out + 1 < StrCap /\ UNCHANGED <<begun, toks, lex_pc>>
        /\ pos < Len(text) /\ text[pos] # "nl" /\ text[pos + 1] # "nl"
    BY <1>2 DEF string_pair, Pair, Next1, Here, Room
  <2>2. pos' \in 1 .. Len(text) + 1 /\ pos' = pos + 2
        /\ line' = Line(text, pos') /\ column' = Column(text, pos')
    BY <1>1, <2>1, PastTwoKeeps
  <2>3. BegunTrue'
    BY <1>1, <2>1, <2>2, BegunKept
  <2>4. out' \in 0 .. StrCap - 1
    BY <1>1, <2>1
  <2> QED
    BY <1>1, <2>1, <2>2, <2>3, <2>4, NoTokenKeeps
<1>3. CASE string_end
  <2>1. /\ Emit("string", begun, out) /\ Past(1) /\ out' = out
        /\ pos <= Len(text) /\ text[pos] # "nl"
    BY <1>3 DEF string_end, InString, More, Here
  <2>2. pos' \in 1 .. Len(text) + 1 /\ line' = Line(text, pos') /\ column' = Column(text, pos')
    BY <1>1, <2>1, PastKeeps
  <2>3. "string" \in TokenKinds
    BY Classes
  <2> QED
    BY <1>1, <2>1, <2>2, <2>3, TokenKeeps
<1>4. CASE string_character
  <2>1. /\ out' = out + 1 /\ out + 1 < StrCap /\ UNCHANGED <<begun, toks, lex_pc>>
        /\ pos <= Len(text)
        /\ IF text[pos] = "nl" THEN PastLine ELSE Past(1)
    BY <1>4 DEF string_character, InString, More, Here, Room
  <2>2. pos' \in 1 .. Len(text) + 1 /\ pos' = pos + 1
        /\ line' = Line(text, pos') /\ column' = Column(text, pos')
    BY <1>1, <2>1, PastKeeps, PastLineKeeps
  <2>3. BegunTrue'
    BY <1>1, <2>1, <2>2, BegunKept
  <2>4. out' \in 0 .. StrCap - 1
    BY <1>1, <2>1
  <2> QED
    BY <1>1, <2>1, <2>2, <2>3, <2>4, NoTokenKeeps
<1>5. CASE string_fails
  <2>1. Emit("error", begun, 0) /\ UNCHANGED <<pos, line, column, out>>
    BY <1>5 DEF string_fails
  <2>2. "error" \in TokenKinds /\ 0 \in Nat
    BY Classes
  <2> QED
    BY <1>1, <2>1, <2>2, StayKeeps, TokenKeeps
<1> QED
  BY <1>2, <1>3, <1>4, <1>5 DEF decode_string

LEMMA LexStep == LexInv /\ lexer_next => LexInv'
BY SkipKeeps, CommentKeeps, FirstCharacterKeeps, WordKeeps, DigitsKeep, StringKeeps DEF lexer_next

LEMMA LexStays == LexInv /\ UNCHANGED lexer_vars => LexInv'
BY DEF lexer_vars, LexInv, TokensTrue, BegunTrue

-----------------------------------------------------------------------------
(* The recursive definitions of SqlTokens.                                 *)

\* What a recursion from position to later position computes: where it goes on
\* from q, if it does, what it starts or ends with there, and whether it joins.
Walk(nx, a, joins, f, q) ==
  IF nx[q] = 0 THEN a[q] ELSE IF joins THEN a[q] \o f[nx[q]] ELSE f[nx[q]]

IsWalk(l, nx, a, joins, f) == f = [q \in 1 .. l + 1 |-> Walk(nx, a, joins, f, q)]

\* Such a recursion ends: there is a function that satisfies it.
LEMMA WalkEnds ==
  ASSUME NEW l \in Nat, NEW nx, NEW a, NEW joins \in BOOLEAN,
         \A q \in 1 .. l + 1 : nx[q] \in Nat /\ (nx[q] # 0 => q < nx[q] /\ nx[q] <= l + 1)
  PROVE  \E f : IsWalk(l, nx, a, joins, f)
<1> DEFINE UpTo(f, k) == \A q \in 1 .. l + 1 : (l + 1) - q <= k => f[q] = Walk(nx, a, joins, f, q)
           Bad        == {k \in Nat : ~ \E f : UpTo(f, k)}
<1>1. ASSUME NEW f, NEW g, NEW q \in 1 .. l + 1, nx[q] # 0 => f[nx[q]] = g[nx[q]]
      PROVE  Walk(nx, a, joins, f, q) = Walk(nx, a, joins, g, q)
  BY <1>1 DEF Walk
<1>2. ASSUME NEW k \in Nat, \A i \in Nat : i < k => \E f : UpTo(f, i)
      PROVE  \E f : UpTo(f, k)
  <2>1. PICK f : \A q \in 1 .. l + 1 : (l + 1) - q < k => f[q] = Walk(nx, a, joins, f, q)
    <3>1. CASE k = 0
      BY <3>1
    <3>2. CASE k # 0
      <4>1. PICK i \in Nat : i + 1 = k
        BY <3>2
      <4>2. PICK f : UpTo(f, i)
        <5>1. i < k
          BY <4>1
        <5> HIDE DEF UpTo
        <5> QED
          BY <1>2, <5>1
      <4>3. \A q \in 1 .. l + 1 : (l + 1) - q < k => (l + 1) - q <= i
        BY <4>1
      <4> QED
        BY <4>2, <4>3
    <3> QED
      BY <3>1, <3>2
  <2> DEFINE g == [q \in 1 .. l + 1 |-> Walk(nx, a, joins, f, q)]
  <2>2. \A q \in 1 .. l + 1 : g[q] = Walk(nx, a, joins, f, q)
    OBVIOUS
  <2> HIDE DEF g
  <2>3. ASSUME NEW q \in 1 .. l + 1, (l + 1) - q <= k
        PROVE  g[q] = Walk(nx, a, joins, g, q)
    <3>1. nx[q] # 0 => nx[q] \in 1 .. l + 1 /\ (l + 1) - nx[q] < k
      BY <2>3
    <3>2. nx[q] # 0 => f[nx[q]] = g[nx[q]]
      BY <2>1, <2>2, <3>1
    <3> QED
      BY <1>1, <2>2, <3>2
  <2>4. UpTo(g, k)
    BY <2>3
  <2> QED
    BY <2>4
<1>3. \E f : UpTo(f, l + 1)
  <2> SUFFICES ASSUME ~ \E f : UpTo(f, l + 1)
               PROVE  FALSE
    OBVIOUS
  <2> HIDE DEF UpTo
  <2>1. Bad \in SUBSET Nat /\ Bad # {}
    OBVIOUS
  <2>2. PICK k \in Bad : \A i \in Bad : k <= i
    BY <2>1, LeastNat
  <2>3. \A i \in Nat : i < k => \E f : UpTo(f, i)
    BY <2>2
  <2> QED
    BY <1>2, <2>2, <2>3
<1>4. PICK f : \A q \in 1 .. l + 1 : f[q] = Walk(nx, a, joins, f, q)
  <2>1. \A q \in 1 .. l + 1 : (l + 1) - q <= l + 1
    OBVIOUS
  <2> QED
    BY <1>3, <2>1
<1> DEFINE g == [q \in 1 .. l + 1 |-> Walk(nx, a, joins, f, q)]
<1>5. \A q \in 1 .. l + 1 : g[q] = Walk(nx, a, joins, f, q) /\ g[q] = f[q]
  BY <1>4
<1>6. g = [q \in 1 .. l + 1 |-> g[q]]
  OBVIOUS
<1> HIDE DEF g
<1>7. \A q \in 1 .. l + 1 : g[q] = Walk(nx, a, joins, g, q)
  <2> TAKE q \in 1 .. l + 1
  <2>1. nx[q] # 0 => nx[q] \in 1 .. l + 1
    OBVIOUS
  <2>2. nx[q] # 0 => f[nx[q]] = g[nx[q]]
    BY <1>5, <2>1
  <2> QED
    BY <1>1, <1>5, <2>2
<1>8. IsWalk(l, nx, a, joins, g)
  BY <1>6, <1>7 DEF IsWalk
<1> QED
  BY <1>8

\* The first of the positions of T, which are from p to l; l + 1 if there is none.
LEMMA FirstOf ==
  ASSUME NEW l \in Nat, NEW p \in 1 .. l + 1, NEW T \in SUBSET (p .. l)
  PROVE  /\ Min(T \cup {l + 1}) \in p .. l + 1
         /\ Min(T \cup {l + 1}) <= l => Min(T \cup {l + 1}) \in T
         /\ \A q \in T : Min(T \cup {l + 1}) <= q
<1> DEFINE S == T \cup {l + 1}
<1>1. S \in SUBSET Nat /\ S # {}
  OBVIOUS
<1> DEFINE m == Min(S)
<1>2. m \in S /\ \A y \in S : m <= y
  BY <1>1, MinIsLeast
<1> HIDE DEF m
<1>3. /\ m \in p .. l + 1
      /\ m <= l => m \in T
      /\ \A q \in T : m <= q
  BY <1>2
<1> QED
  BY <1>3 DEF m

LEMMA FindIs ==
  ASSUME NEW s, Len(s) \in Nat, NEW p \in 1 .. Len(s) + 1, NEW c
  PROVE  /\ Find(s, p, c) \in p .. Len(s) + 1
         /\ Find(s, p, c) <= Len(s) => s[Find(s, p, c)] = c
         /\ \A q \in p .. Len(s) : s[q] = c => Find(s, p, c) <= q
<1> DEFINE T == {q \in p .. Len(s) : s[q] = c}
<1>1. T \in SUBSET (p .. Len(s)) /\ \A q : q \in T <=> q \in p .. Len(s) /\ s[q] = c
  OBVIOUS
<1>2. Find(s, p, c) = Min(T \cup {Len(s) + 1})
  BY DEF Find
<1> HIDE DEF T
<1>3. /\ Min(T \cup {Len(s) + 1}) \in p .. Len(s) + 1
      /\ Min(T \cup {Len(s) + 1}) <= Len(s) => Min(T \cup {Len(s) + 1}) \in T
      /\ \A q \in T : Min(T \cup {Len(s) + 1}) <= q
  BY <1>1, FirstOf
<1> QED
  BY <1>1, <1>2, <1>3

LEMMA PastAllIs ==
  ASSUME NEW s, Len(s) \in Nat, NEW p \in 1 .. Len(s) + 1, NEW C
  PROVE  /\ PastAll(s, p, C) \in p .. Len(s) + 1
         /\ PastAll(s, p, C) <= Len(s) => s[PastAll(s, p, C)] \notin C
         /\ \A q \in p .. Len(s) : s[q] \notin C => PastAll(s, p, C) <= q
<1> DEFINE T == {q \in p .. Len(s) : s[q] \notin C}
<1>1. T \in SUBSET (p .. Len(s)) /\ \A q : q \in T <=> q \in p .. Len(s) /\ s[q] \notin C
  OBVIOUS
<1>2. PastAll(s, p, C) = Min(T \cup {Len(s) + 1})
  BY DEF PastAll
<1> HIDE DEF T
<1>3. /\ Min(T \cup {Len(s) + 1}) \in p .. Len(s) + 1
      /\ Min(T \cup {Len(s) + 1}) <= Len(s) => Min(T \cup {Len(s) + 1}) \in T
      /\ \A q \in T : Min(T \cup {Len(s) + 1}) <= q
  BY <1>1, FirstOf
<1> QED
  BY <1>1, <1>2, <1>3

-----------------------------------------------------------------------------
(* White space and comments.                                               *)

IsSkip(s, f) ==
  f = [q \in 1 .. Len(s) + 1 |->
         IF q <= Len(s) /\ s[q] \in Space THEN f[q + 1]
         ELSE IF CommentAt(s, q) THEN f[Find(s, q, "nl")]
         ELSE q]

LEMMA SkipExists ==
  ASSUME NEW s, Len(s) \in Nat
  PROVE  \E f : IsSkip(s, f)
<1> DEFINE l  == Len(s)
           nx == [q \in 1 .. l + 1 |-> IF q <= l /\ s[q] \in Space THEN q + 1
                                       ELSE IF CommentAt(s, q) THEN Find(s, q, "nl") ELSE 0]
           a  == [q \in 1 .. l + 1 |-> q]
<1>1. ASSUME NEW q \in 1 .. l + 1, CommentAt(s, q)
      PROVE  Find(s, q, "nl") \in q + 1 .. l + 1
  <2>1. s[q] # "nl" /\ q <= l
    BY <1>1 DEF CommentAt
  <2> QED
    BY <2>1, FindIs
<1>2. \A q \in 1 .. l + 1 :
        nx[q] = IF q <= l /\ s[q] \in Space THEN q + 1
                ELSE IF CommentAt(s, q) THEN Find(s, q, "nl") ELSE 0
  OBVIOUS
<1>3. \A q \in 1 .. l + 1 : a[q] = q
  OBVIOUS
<1> HIDE DEF nx, a
<1>4. l \in Nat /\ \A q \in 1 .. l + 1 : nx[q] \in Nat /\ (nx[q] # 0 => q < nx[q] /\ nx[q] <= l + 1)
  BY <1>1, <1>2
<1>5. PICK f : IsWalk(l, nx, a, FALSE, f)
  <2> HIDE DEF l
  <2> QED
    BY <1>4, WalkEnds
<1>6. \A q \in 1 .. l + 1 :
        Walk(nx, a, FALSE, f, q) = IF q <= l /\ s[q] \in Space THEN f[q + 1]
                                   ELSE IF CommentAt(s, q) THEN f[Find(s, q, "nl")]
                                   ELSE q
  <2> TAKE q \in 1 .. l + 1
  <2>1. CASE q <= l /\ s[q] \in Space
    <3>1. nx[q] = q + 1 /\ nx[q] # 0
      BY <1>2, <2>1
    <3> QED
      BY <2>1, <3>1 DEF Walk
  <2>2. CASE ~(q <= l /\ s[q] \in Space) /\ CommentAt(s, q)
    <3>1. nx[q] = Find(s, q, "nl") /\ nx[q] # 0
      BY <1>1, <1>2, <2>2
    <3> QED
      BY <2>2, <3>1 DEF Walk
  <2>3. CASE ~(q <= l /\ s[q] \in Space) /\ ~CommentAt(s, q)
    <3>1. nx[q] = 0
      BY <1>2, <2>3
    <3> QED
      BY <1>3, <2>3, <3>1 DEF Walk
  <2> QED
    BY <2>1, <2>2, <2>3
<1>7. IsSkip(s, f)
  BY <1>5, <1>6 DEF IsSkip, IsWalk
<1> QED
  BY <1>7

LEMMA TokenStartIs ==
  ASSUME NEW s, Len(s) \in Nat, NEW q \in 1 .. Len(s) + 1
  PROVE  TokenStart(s, q) = IF q <= Len(s) /\ s[q] \in Space THEN TokenStart(s, q + 1)
                            ELSE IF CommentAt(s, q) THEN TokenStart(s, Find(s, q, "nl"))
                            ELSE q
<1> DEFINE c == CHOOSE f : IsSkip(s, f)
<1>1. IsSkip(s, c)
  BY SkipExists
<1>2. \A p : TokenStart(s, p) = c[p]
  BY DEF TokenStart, IsSkip
<1> HIDE DEF c
<1>3. c[q] = IF q <= Len(s) /\ s[q] \in Space THEN c[q + 1]
             ELSE IF CommentAt(s, q) THEN c[Find(s, q, "nl")]
             ELSE q
  BY <1>1 DEF IsSkip
<1> QED
  BY <1>2, <1>3

\* A comment goes on after the character it starts with.
LEMMA CommentGoesOn ==
  ASSUME NEW s, Len(s) \in Nat, NEW q \in 1 .. Len(s) + 1, CommentAt(s, q)
  PROVE  /\ q < Len(s) /\ s[q] = "-" /\ s[q + 1] = "-"
         /\ Find(s, q, "nl") \in q + 2 .. Len(s) + 1
         /\ Find(s, q, "nl") = Find(s, q + 2, "nl")
<1>1. q < Len(s) /\ s[q] = "-" /\ s[q + 1] = "-"
  BY DEF CommentAt
<1>2. s[q] # "nl" /\ s[q + 1] # "nl"
  BY <1>1
<1>3. q + 2 \in 1 .. Len(s) + 1 /\ q + 1 \in 1 .. Len(s)
  BY <1>1
<1> DEFINE a == Find(s, q, "nl")
           b == Find(s, q + 2, "nl")
<1>4. /\ a \in q .. Len(s) + 1 /\ (a <= Len(s) => s[a] = "nl")
      /\ \A x \in q .. Len(s) : s[x] = "nl" => a <= x
  BY FindIs
<1>5. /\ b \in q + 2 .. Len(s) + 1 /\ (b <= Len(s) => s[b] = "nl")
      /\ \A x \in q + 2 .. Len(s) : s[x] = "nl" => b <= x
  BY <1>3, FindIs
<1> HIDE DEF a, b
<1>6. a # q /\ a # q + 1
  BY <1>1, <1>2, <1>3, <1>4
<1>7. a \in q + 2 .. Len(s) + 1
  BY <1>3, <1>4, <1>6
<1>8. a = b
  BY <1>3, <1>4, <1>5, <1>7
<1> QED
  BY <1>1, <1>7, <1>8 DEF a, b

\* A token starts at b, or the text ends.
Starts(s, b) == ~(b <= Len(s) /\ s[b] \in Space) /\ ~CommentAt(s, b)

LEMMA TokenStarts ==
  ASSUME NEW s, Len(s) \in Nat
  PROVE  \A q \in 1 .. Len(s) + 1 : TokenStart(s, q) \in q .. Len(s) + 1 /\ Starts(s, TokenStart(s, q))
<1> DEFINE Good(q) == TokenStart(s, q) \in q .. Len(s) + 1 /\ Starts(s, TokenStart(s, q))
           Bad     == {k \in Nat : \E q \in 1 .. Len(s) + 1 : k = (Len(s) + 1) - q /\ ~Good(q)}
<1> SUFFICES ASSUME NEW r \in 1 .. Len(s) + 1, ~Good(r)
             PROVE  FALSE
  OBVIOUS
<1> HIDE DEF Good
<1>1. (Len(s) + 1) - r \in Bad
  OBVIOUS
<1>2. Bad \in SUBSET Nat
  OBVIOUS
<1>3. PICK k \in Bad : \A i \in Bad : k <= i
  BY <1>1, <1>2, LeastNat
<1>4. PICK q \in 1 .. Len(s) + 1 : k = (Len(s) + 1) - q /\ ~Good(q)
  BY <1>3
<1>5. \A p \in q + 1 .. Len(s) + 1 : Good(p)
  <2> SUFFICES ASSUME NEW p \in q + 1 .. Len(s) + 1, ~Good(p)
               PROVE  FALSE
    OBVIOUS
  <2>1. (Len(s) + 1) - p \in Bad
    OBVIOUS
  <2>2. k <= (Len(s) + 1) - p
    BY <1>3, <2>1
  <2> QED
    BY <1>4, <2>2
<1> HIDE DEF Bad
<1>6. CASE q <= Len(s) /\ s[q] \in Space
  <2>1. TokenStart(s, q) = TokenStart(s, q + 1)
    BY <1>6, TokenStartIs
  <2>2. Good(q + 1)
    BY <1>5, <1>6
  <2> QED
    BY <1>4, <2>1, <2>2 DEF Good
<1>7. CASE ~(q <= Len(s) /\ s[q] \in Space) /\ CommentAt(s, q)
  <2> DEFINE p == Find(s, q, "nl")
  <2>1. TokenStart(s, q) = TokenStart(s, p)
    BY <1>7, TokenStartIs
  <2>2. p \in q + 2 .. Len(s) + 1
    BY <1>7, CommentGoesOn
  <2> HIDE DEF p
  <2>3. Good(p)
    BY <1>5, <2>2
  <2> QED
    BY <1>4, <2>1, <2>2, <2>3 DEF Good
<1>8. CASE Starts(s, q)
  <2>1. TokenStart(s, q) = q
    BY <1>8, TokenStartIs DEF Starts
  <2> QED
    BY <1>4, <1>8, <2>1 DEF Good
<1> QED
  BY <1>6, <1>7, <1>8 DEF Starts

-----------------------------------------------------------------------------
(* A token.                                                                *)

LEMMA QuotesFinite ==
  ASSUME NEW s, NEW p \in Nat, NEW q \in Int
  PROVE  /\ IsFiniteSet(Quotes(s, p, q)) /\ Cardinality(Quotes(s, p, q)) \in Nat
         /\ Quotes(s, p, q) \subseteq p .. q
<1>1. IsFiniteSet(p .. q) /\ Quotes(s, p, q) \in SUBSET (p .. q)
  BY FS_Interval DEF Quotes
<1> QED
  BY <1>1, FS_Subset, FS_CardinalityType

\* The quote that closes a string is in the text after the one that opens it.
LEMMA ClosingQuoteIs ==
  ASSUME NEW s, Len(s) \in Nat, NEW p \in 1 .. Len(s), ClosingQuotes(s, p) # {}
  PROVE  /\ Min(ClosingQuotes(s, p)) \in ClosingQuotes(s, p)
         /\ Min(ClosingQuotes(s, p)) \in p + 1 .. Len(s)
         /\ \A q \in ClosingQuotes(s, p) : Min(ClosingQuotes(s, p)) <= q
<1> DEFINE T == ClosingQuotes(s, p)
<1>1. T \in SUBSET Nat /\ T # {} /\ T \subseteq p + 1 .. Len(s)
  <2>1. T \subseteq Quotes(s, p + 1, Len(s))
    BY DEF ClosingQuotes
  <2>2. Quotes(s, p + 1, Len(s)) \subseteq p + 1 .. Len(s)
    BY DEF Quotes
  <2>3. p + 1 .. Len(s) \subseteq Nat
    OBVIOUS
  <2> QED
    BY <2>1, <2>2, <2>3
<1> HIDE DEF T
<1>2. Min(T) \in T /\ \A q \in T : Min(T) <= q
  BY <1>1, MinIsLeast
<1> QED
  BY <1>1, <1>2 DEF T

IsToken(t, s, p) ==
  /\ t.kind \in TokenKinds /\ t.kind # "eof" /\ t.at = p /\ t.to \in p .. Len(s)

LEMMA TokenFields ==
  \A k, p, q, n : LET t == Token(k, p, q, n) IN t.kind = k /\ t.at = p /\ t.to = q /\ t.len = n
BY DEF Token

LEMMA NoEof == "eof" \notin Words \cup Punctuation
BY DEF Words, Keywords, Identifiers, Punctuation

LEMMA StringTokenIs ==
  ASSUME NEW s, Len(s) \in Nat, NEW p \in 1 .. Len(s)
  PROVE  IsToken(StringToken(s, p), s, p)
<1>1. IsToken(Unreadable(s, p), s, p)
  BY Classes DEF Unreadable, Token, IsToken
<1>2. ASSUME ClosingQuotes(s, p) # {}
      PROVE  \A n : IsToken(Token("string", p, Min(ClosingQuotes(s, p)), n), s, p)
  BY <1>2, ClosingQuoteIs, Classes DEF Token, IsToken
<1> QED
  BY <1>1, <1>2 DEF StringToken

\* What the first character of a token decides.
Chosen(k, w, int, sign, string, mark, none) ==
  CASE k \in Words -> w
    [] k = "int" -> int
    [] k \in {"+", "-"} -> sign
    [] k = "'" -> string
    [] k \in Punctuation -> mark
    [] OTHER -> none

LEMMA ChosenIs ==
  ASSUME NEW k, NEW w, NEW int, NEW sign, NEW string, NEW mark, NEW none
  PROVE  LET c == Chosen(k, w, int, sign, string, mark, none) IN
         /\ k \in Words => c = w
         /\ k = "int" => c = int
         /\ k \in {"+", "-"} => c = sign
         /\ k = "'" => c = string
         /\ k \in Punctuation => c = mark
         /\ k \notin Words \cup {"int", "+", "-", "'"} \cup Punctuation => c = none
<1>1. k \in Words => k \notin {"int", "+", "-", "'"} \cup Punctuation
  BY DEF Words, Keywords, Identifiers, Punctuation
<1>2. k \in Punctuation => k \notin {"int", "+", "-", "'"}
  BY DEF Punctuation
<1>3. k = "int" => k \notin {"+", "-", "'"}
  OBVIOUS
<1>4. k \in {"+", "-"} => k # "'"
  OBVIOUS
<1> QED
  BY <1>1, <1>2, <1>3, <1>4 DEF Chosen

LEMMA TokenChosen ==
  ASSUME NEW s, NEW p
  PROVE  TokenAt(s, p) =
           LET wordEnd   == PastAll(s, p, Words \cup {"int"}) - 1
               number == PastAll(s, p + 1, {"int"}) - 1 IN
           Chosen(s[p], Token(IF wordEnd = p THEN s[p] ELSE "name", p, wordEnd, wordEnd - p + 1),
                        Token("int", p, number, number - p + 1),
                        Token(IF number > p THEN "int" ELSE s[p], p, number, number - p + 1),
                        StringToken(s, p), Token(s[p], p, p, 1), Unreadable(s, p))
BY DEF TokenAt, Chosen

LEMMA TokenAtIs ==
  ASSUME NEW s \in Seq(Characters), NEW p \in 1 .. Len(s)
  PROVE  IsToken(TokenAt(s, p), s, p)
<1> DEFINE wordEnd == PastAll(s, p, Words \cup {"int"}) - 1
           number  == PastAll(s, p + 1, {"int"}) - 1
<1>0. Len(s) \in Nat /\ s[p] \in Characters
  OBVIOUS
<1>1. number \in p .. Len(s)
  <2>1. PastAll(s, p + 1, {"int"}) \in p + 1 .. Len(s) + 1
    BY <1>0, PastAllIs
  <2> QED
    BY <1>0, <2>1
<1>2. s[p] \in Words => wordEnd \in p .. Len(s)
  <2>1. /\ PastAll(s, p, Words \cup {"int"}) \in p .. Len(s) + 1
        /\ PastAll(s, p, Words \cup {"int"}) <= Len(s) =>
             s[PastAll(s, p, Words \cup {"int"})] \notin Words \cup {"int"}
    BY <1>0, PastAllIs
  <2> QED
    BY <1>0, <2>1
<1> HIDE DEF wordEnd, number
<1>3. CASE s[p] \in Words
  <2> DEFINE kind == IF wordEnd = p THEN s[p] ELSE "name"
             len  == wordEnd - p + 1
  <2>1. TokenAt(s, p) = Token(kind, p, wordEnd, len)
    <3> DEFINE t == Token(kind, p, wordEnd, len)
    <3>1. \E b, c, d, e, f : TokenAt(s, p) = Chosen(s[p], t, b, c, d, e, f)
      BY TokenChosen DEF wordEnd
    <3> HIDE DEF t
    <3> QED
      BY <1>3, <3>1, ChosenIs DEF t
  <2>2. kind \in TokenKinds /\ kind # "eof"
    BY <1>3, Classes, NoEof
  <2> HIDE DEF kind, len
  <2> QED
    BY <1>2, <1>3, <2>1, <2>2, TokenFields DEF IsToken
<1>4. CASE s[p] = "int"
  <2>1. TokenAt(s, p) = Token("int", p, number, number - p + 1)
    BY <1>4, TokenChosen, ChosenIs DEF number
  <2> QED
    BY <1>1, <2>1, Classes, TokenFields DEF IsToken
<1>5. CASE s[p] \in {"+", "-"}
  <2>1. TokenAt(s, p) = Token(IF number > p THEN "int" ELSE s[p], p, number, number - p + 1)
    BY <1>5, TokenChosen, ChosenIs DEF number
  <2>2. {"int", s[p]} \subseteq TokenKinds \ {"eof"}
    BY <1>5, Classes
  <2> QED
    BY <1>1, <2>1, <2>2, TokenFields DEF IsToken
<1>6. CASE s[p] = "'"
  <2>1. TokenAt(s, p) = StringToken(s, p)
    BY <1>6, TokenChosen, ChosenIs
  <2> QED
    BY <1>0, <2>1, StringTokenIs
<1>7. CASE s[p] \in Punctuation
  <2>1. TokenAt(s, p) = Token(s[p], p, p, 1)
    BY <1>7, TokenChosen, ChosenIs
  <2> QED
    BY <1>7, <2>1, <1>0, Classes, NoEof, TokenFields DEF IsToken
<1>8. CASE s[p] \notin Words \cup {"int", "+", "-", "'"} \cup Punctuation
  <2>1. TokenAt(s, p) = Unreadable(s, p)
    BY <1>8, TokenChosen, ChosenIs
  <2> QED
    BY <1>0, <2>1, Classes, TokenFields DEF IsToken, Unreadable
<1> QED
  BY <1>3, <1>4, <1>5, <1>6, <1>7, <1>8

-----------------------------------------------------------------------------
(* The tokens of a text.                                                   *)

IsFrom(s, f) ==
  f = [p \in 1 .. Len(s) + 1 |->
        LET b == TokenStart(s, p)
            t == TokenAt(s, b) IN
        IF b > Len(s) THEN <<Token("eof", b, b, 0)>>
        ELSE IF t.kind = "error" THEN <<t>>
        ELSE <<t>> \o f[t.to + 1]]

LEMMA FromExists ==
  ASSUME NEW s \in Seq(Characters)
  PROVE  \E f : IsFrom(s, f)
<1> DEFINE l  == Len(s)
           b(p) == TokenStart(s, p)
           t(p) == TokenAt(s, b(p))
           Stops(p) == b(p) > l \/ t(p).kind = "error"
           nx == [p \in 1 .. l + 1 |-> IF Stops(p) THEN 0 ELSE t(p).to + 1]
           a  == [p \in 1 .. l + 1 |-> IF b(p) > l THEN <<Token("eof", b(p), b(p), 0)>> ELSE <<t(p)>>]
<1>1. l \in Nat /\ \A p \in 1 .. l + 1 : b(p) \in p .. l + 1
  BY TokenStarts
<1>2. \A p \in 1 .. l + 1 : b(p) <= l => t(p).to \in b(p) .. l
  BY <1>1, TokenAtIs DEF IsToken
<1>3. \A p \in 1 .. l + 1 : nx[p] = IF Stops(p) THEN 0 ELSE t(p).to + 1
  OBVIOUS
<1>4. \A p \in 1 .. l + 1 : a[p] = IF b(p) > l THEN <<Token("eof", b(p), b(p), 0)>> ELSE <<t(p)>>
  OBVIOUS
<1>9. \A p \in 1 .. l + 1 : ~Stops(p) => b(p) <= l /\ t(p).to \in b(p) .. l
  <2> HIDE DEF b, t, nx, a, l
  <2>1. \A p \in 1 .. l + 1 : ~Stops(p) => ~(b(p) > l)
    OBVIOUS
  <2> HIDE DEF Stops
  <2> QED
    BY <1>1, <1>2, <2>1
<1> HIDE DEF nx, a, l
<1>5. \A p \in 1 .. l + 1 : nx[p] \in Nat /\ (nx[p] # 0 => p < nx[p] /\ nx[p] <= l + 1)
  <2> HIDE DEF b, t, Stops
  <2> QED
    BY <1>1, <1>3, <1>9, SMTT(40)
<1>6. PICK f : IsWalk(l, nx, a, TRUE, f)
  BY <1>1, <1>5, WalkEnds
<1>7. \A p \in 1 .. l + 1 :
        Walk(nx, a, TRUE, f, p) = IF b(p) > l THEN <<Token("eof", b(p), b(p), 0)>>
                                  ELSE IF t(p).kind = "error" THEN <<t(p)>>
                                  ELSE <<t(p)>> \o f[t(p).to + 1]
  <2> TAKE p \in 1 .. l + 1
  <2> HIDE DEF b, t
  <2>1. CASE b(p) > l
    BY <1>3, <1>4, <2>1 DEF Walk
  <2>2. CASE ~(b(p) > l) /\ t(p).kind = "error"
    BY <1>3, <1>4, <2>2 DEF Walk
  <2>3. CASE ~(b(p) > l) /\ t(p).kind # "error"
    <3>1. nx[p] = t(p).to + 1 /\ nx[p] # 0 /\ a[p] = <<t(p)>>
      <4>1. ~Stops(p) /\ ~(b(p) > l)
        BY <2>3
      <4>2. a[p] = <<t(p)>>
        BY <1>4, <4>1
      <4> HIDE DEF Stops
      <4> QED
        BY <1>1, <1>3, <1>9, <4>1, <4>2
    <3> QED
      BY <2>3, <3>1 DEF Walk
  <2> QED
    BY <2>1, <2>2, <2>3
<1>8. IsFrom(s, f)
  BY <1>6, <1>7 DEF IsFrom, IsWalk, l
<1> QED
  BY <1>8

\* The tokens from position p on.
LexFrom(s, p) == (CHOOSE f : IsFrom(s, f))[p]

LEMMA LexIsLexFrom ==
  ASSUME NEW s
  PROVE  Lex(s) = LexFrom(s, 1)
BY DEF Lex, LexFrom, IsFrom

LEMMA LexFromIs ==
  ASSUME NEW s \in Seq(Characters), NEW p \in 1 .. Len(s) + 1
  PROVE  LexFrom(s, p) = LET b == TokenStart(s, p)
                             t == TokenAt(s, b) IN
                         IF b > Len(s) THEN <<Token("eof", b, b, 0)>>
                         ELSE IF t.kind = "error" THEN <<t>>
                         ELSE <<t>> \o LexFrom(s, t.to + 1)
<1> DEFINE c == CHOOSE f : IsFrom(s, f)
<1>1. IsFrom(s, c)
  BY FromExists
<1>2. \A q : LexFrom(s, q) = c[q]
  BY DEF LexFrom
<1> HIDE DEF c
<1> QED
  BY <1>1, <1>2 DEF IsFrom

\* A token starts where one starts.
LEMMA StartsHere ==
  ASSUME NEW s, Len(s) \in Nat, NEW b \in 1 .. Len(s) + 1, Starts(s, b)
  PROVE  TokenStart(s, b) = b
BY TokenStartIs DEF Starts

\* The tokens that follow depend on where the next one starts only.
LEMMA SameStart ==
  ASSUME NEW s \in Seq(Characters), NEW p \in 1 .. Len(s) + 1, NEW q \in 1 .. Len(s) + 1,
         TokenStart(s, p) = TokenStart(s, q)
  PROVE  LexFrom(s, p) = LexFrom(s, q)
<1>1. LexFrom(s, p) = LET b == TokenStart(s, p)
                          t == TokenAt(s, b) IN
                      IF b > Len(s) THEN <<Token("eof", b, b, 0)>>
                      ELSE IF t.kind = "error" THEN <<t>>
                      ELSE <<t>> \o LexFrom(s, t.to + 1)
  BY LexFromIs
<1>2. LexFrom(s, q) = LET b == TokenStart(s, q)
                          t == TokenAt(s, b) IN
                      IF b > Len(s) THEN <<Token("eof", b, b, 0)>>
                      ELSE IF t.kind = "error" THEN <<t>>
                      ELSE <<t>> \o LexFrom(s, t.to + 1)
  BY LexFromIs
<1> QED
  BY <1>1, <1>2

\* The tokens from b on, where a token starts.
LEMMA LexFromHere ==
  ASSUME NEW s \in Seq(Characters), NEW b \in 1 .. Len(s) + 1, Starts(s, b)
  PROVE  /\ b > Len(s) => LexFrom(s, b) = <<Token("eof", b, b, 0)>>
         /\ b <= Len(s) /\ TokenAt(s, b).kind = "error" => LexFrom(s, b) = <<TokenAt(s, b)>>
         /\ b <= Len(s) /\ TokenAt(s, b).kind # "error" =>
              /\ LexFrom(s, b) = <<TokenAt(s, b)>> \o LexFrom(s, TokenAt(s, b).to + 1)
              /\ TokenAt(s, b).to + 1 \in b + 1 .. Len(s) + 1
<1>1. Len(s) \in Nat /\ TokenStart(s, b) = b
  BY StartsHere
<1>2. LexFrom(s, b) = LET t == TokenAt(s, b) IN
                      IF b > Len(s) THEN <<Token("eof", b, b, 0)>>
                      ELSE IF t.kind = "error" THEN <<t>>
                      ELSE <<t>> \o LexFrom(s, t.to + 1)
  BY <1>1, LexFromIs
<1>3. b <= Len(s) => TokenAt(s, b).to + 1 \in b + 1 .. Len(s) + 1
  BY <1>1, TokenAtIs DEF IsToken
<1>4. b <= Len(s) => ~(b > Len(s))
  BY <1>1
<1> QED
  BY <1>2, <1>3, <1>4

Endings == {"eof", "error"}

\* A list of tokens with one that ends it, the last.
IsLexed(s, r) ==
  /\ r \in Seq({TokenAt(s, b) : b \in 1 .. Len(s)} \cup {Token("eof", Len(s) + 1, Len(s) + 1, 0)})
  /\ Len(r) >= 1
  /\ \A j \in 1 .. Len(r) : r[j].kind \in TokenKinds /\ (r[j].kind \in Endings <=> j = Len(r))

\* Lists that are joined.
LEMMA OneAndRest ==
  ASSUME NEW S, NEW t \in S, NEW r \in Seq(S)
  PROVE  /\ <<t>> \o r \in Seq(S) /\ Len(<<t>> \o r) = Len(r) + 1 /\ Len(r) \in Nat
         /\ (<<t>> \o r)[1] = t
         /\ \A j \in 1 .. Len(r) : (<<t>> \o r)[j + 1] = r[j]
<1>1. <<t>> \in Seq(S) /\ Len(<<t>>) = 1 /\ <<t>>[1] = t
  OBVIOUS
<1> DEFINE o == <<t>>
<1> HIDE DEF o
<1>2. o \in Seq(S) /\ Len(o) = 1 /\ o[1] = t
  BY <1>1 DEF o
<1>3. /\ o \o r \in Seq(S) /\ Len(o \o r) = Len(o) + Len(r) /\ Len(r) \in Nat
      /\ \A i \in 1 .. Len(o) + Len(r) : (o \o r)[i] = IF i <= Len(o) THEN o[i] ELSE r[i - Len(o)]
  BY <1>2, ConcatProperties, LenProperties
<1>4. (o \o r)[1] = t /\ \A j \in 1 .. Len(r) : (o \o r)[j + 1] = r[j]
  BY <1>2, <1>3
<1> QED
  BY <1>2, <1>3, <1>4 DEF o

LEMMA LexFromIsLexed ==
  ASSUME NEW s \in Seq(Characters)
  PROVE  \A p \in 1 .. Len(s) + 1 : IsLexed(s, LexFrom(s, p))
<1> DEFINE Good(p) == IsLexed(s, LexFrom(s, p))
           Bad     == {k \in Nat : \E q \in 1 .. Len(s) + 1 : k = (Len(s) + 1) - q /\ ~Good(q)}
           S       == {TokenAt(s, b) : b \in 1 .. Len(s)} \cup {Token("eof", Len(s) + 1, Len(s) + 1, 0)}
<1> SUFFICES ASSUME NEW r \in 1 .. Len(s) + 1, ~Good(r)
             PROVE  FALSE
  OBVIOUS
<1> HIDE DEF Good
<1>0. Len(s) \in Nat
  OBVIOUS
<1>1. (Len(s) + 1) - r \in Bad
  BY <1>0
<1>2. Bad \in SUBSET Nat
  OBVIOUS
<1>3. PICK k \in Bad : \A i \in Bad : k <= i
  BY <1>1, <1>2, LeastNat
<1>4. PICK q \in 1 .. Len(s) + 1 : k = (Len(s) + 1) - q /\ ~Good(q)
  BY <1>3
<1>5. \A p \in q + 1 .. Len(s) + 1 : Good(p)
  <2> SUFFICES ASSUME NEW p \in q + 1 .. Len(s) + 1, ~Good(p)
               PROVE  FALSE
    OBVIOUS
  <2>1. (Len(s) + 1) - p \in Bad
    BY <1>0
  <2>2. k <= (Len(s) + 1) - p
    BY <1>3, <2>1
  <2> QED
    BY <1>0, <1>4, <2>2
<1> HIDE DEF Bad
<1> DEFINE b == TokenStart(s, q)
<1>6. b \in q .. Len(s) + 1 /\ b \in 1 .. Len(s) + 1 /\ Starts(s, b)
  <2>1. b \in q .. Len(s) + 1 /\ Starts(s, b)
    BY <1>0, TokenStarts
  <2> QED
    BY <1>0, <2>1
<1>7. LexFrom(s, q) = LexFrom(s, b)
  <2>1. TokenStart(s, b) = TokenStart(s, q)
    BY <1>0, <1>6, StartsHere
  <2> HIDE DEF b
  <2> QED
    BY <1>6, <2>1, SameStart
<1> HIDE DEF b
<1>8. CASE b > Len(s)
  <2> DEFINE e == Token("eof", Len(s) + 1, Len(s) + 1, 0)
  <2>1. b = Len(s) + 1
    BY <1>0, <1>6, <1>8
  <2>2. LexFrom(s, q) = <<e>>
    BY <1>6, <1>7, <1>8, <2>1, LexFromHere
  <2>3. e.kind = "eof" /\ e \in S
    BY TokenFields
  <2> HIDE DEF S, e
  <2>4. <<e>> \in Seq(S) /\ Len(<<e>>) = 1 /\ <<e>>[1] = e
    BY <2>3
  <2>5. Good(q)
    BY <2>2, <2>3, <2>4, Classes DEF Good, IsLexed, Endings, S, e
  <2> QED
    BY <1>4, <2>5
<1>9. CASE b <= Len(s)
  <2> DEFINE t == TokenAt(s, b)
  <2>1. b \in 1 .. Len(s) /\ t \in S
    BY <1>0, <1>6, <1>9
  <2>2. t.kind \in TokenKinds /\ t.kind # "eof"
    BY <2>1, TokenAtIs DEF IsToken
  <2> HIDE DEF S
  <2>3. CASE t.kind = "error"
    <3>1. LexFrom(s, q) = <<t>>
      BY <1>6, <1>7, <1>9, <2>3, LexFromHere
    <3> HIDE DEF t
    <3>2. <<t>> \in Seq(S) /\ Len(<<t>>) = 1 /\ <<t>>[1] = t
      BY <2>1
    <3>3. Good(q)
      BY <2>2, <2>3, <3>1, <3>2 DEF Good, IsLexed, Endings, S
    <3> QED
      BY <1>4, <3>3
  <2>4. CASE t.kind # "error"
    <3> DEFINE rest == LexFrom(s, t.to + 1)
    <3>1. LexFrom(s, q) = <<t>> \o rest /\ t.to + 1 \in b + 1 .. Len(s) + 1
      BY <1>6, <1>7, <1>9, <2>4, LexFromHere
    <3>2. Good(t.to + 1)
      <4>1. t.to + 1 \in q + 1 .. Len(s) + 1
        BY <1>0, <1>6, <3>1
      <4> QED
        BY <1>5, <4>1
    <3>3. /\ rest \in Seq(S) /\ Len(rest) >= 1
          /\ \A j \in 1 .. Len(rest) : rest[j].kind \in TokenKinds /\ (rest[j].kind \in Endings <=> j = Len(rest))
      BY <3>2 DEF Good, IsLexed, S
    <3> HIDE DEF t, rest
    <3> DEFINE all == <<t>> \o rest
    <3>4. /\ all \in Seq(S) /\ Len(all) = Len(rest) + 1 /\ Len(rest) \in Nat /\ all[1] = t
          /\ \A j \in 1 .. Len(rest) : all[j + 1] = rest[j]
      BY <2>1, <3>3, OneAndRest
    <3> HIDE DEF all
    <3>5. ASSUME NEW j \in 1 .. Len(all)
          PROVE  all[j].kind \in TokenKinds /\ (all[j].kind \in Endings <=> j = Len(all))
      <4>1. CASE j = 1
        <5>1. j # Len(all) /\ all[j] = t
          BY <3>3, <3>4, <4>1
        <5>2. t.kind \notin Endings
          BY <2>2, <2>4 DEF Endings
        <5> QED
          BY <2>2, <5>1, <5>2
      <4>2. CASE j # 1
        <5>1. j - 1 \in 1 .. Len(rest) /\ (j - 1) + 1 = j
          BY <3>4, <4>2
        <5>2. all[j] = rest[j - 1] /\ (j - 1 = Len(rest) <=> j = Len(all))
          BY <3>4, <5>1
        <5> QED
          BY <3>3, <5>1, <5>2
      <4> QED
        BY <4>1, <4>2
    <3>6. LexFrom(s, q) = all /\ Len(all) >= 1
      BY <3>1, <3>4 DEF all
    <3>7. Good(q)
      BY <3>4, <3>5, <3>6 DEF Good, IsLexed, S
    <3> QED
      BY <1>4, <3>7
  <2> QED
    BY <2>3, <2>4
<1> QED
  BY <1>0, <1>6, <1>8, <1>9

-----------------------------------------------------------------------------
(* What the lexer has given, and what the rest of the text still gives.    *)

Same(t, u) == t.kind = u.kind /\ t.at = u.at /\ t.len = u.len

\* The tokens all are those given and then r.
Ahead(all, given, r) ==
  /\ IsSequence(all)
  /\ Len(all) = Len(given) + Len(r)
  /\ \A j \in 1 .. Len(given) : Same(given[j], all[j])
  /\ \A j \in 1 .. Len(r) : all[Len(given) + j] = r[j]

\* A token that was expected is given.
LEMMA EmitAhead ==
  ASSUME NEW r, NEW rest, NEW t, Ahead(lexed, toks, r), IsSequence(toks), Len(rest) \in Nat,
         Len(r) = Len(rest) + 1, r[1] = t, \A j \in 1 .. Len(rest) : r[j + 1] = rest[j],
         NEW b, b.at = t.at, Emit(t.kind, b, t.len)
  PROVE  Ahead(lexed, toks', rest)
<1> DEFINE u == [kind |-> t.kind, at |-> b.at, len |-> t.len, line |-> b.line, column |-> b.column]
<1>1. toks' = Append(toks, u)
  BY DEF Emit
<1>2. Same(u, t)
  BY DEF Same
<1> HIDE DEF u
<1>3. /\ Len(toks') = Len(toks) + 1 /\ Len(toks) \in Nat
      /\ \A j \in 1 .. Len(toks) : toks'[j] = toks[j]
      /\ toks'[Len(toks) + 1] = u
  <2> DEFINE S == {toks[j] : j \in 1 .. Len(toks)} \cup {u}
  <2>1. toks \in Seq(S) /\ u \in S
    <3>1. toks \in Seq({toks[j] : j \in 1 .. Len(toks)}) /\ {toks[j] : j \in 1 .. Len(toks)} \subseteq S
      BY DEF IsSequence
    <3>2. u \in S
      OBVIOUS
    <3> HIDE DEF S
    <3> QED
      BY <3>1, <3>2, WiderSeq
  <2> HIDE DEF S
  <2> QED
    BY <1>1, <2>1
<1>4. lexed[Len(toks) + 1] = t
  BY <1>3 DEF Ahead
<1>5. ASSUME NEW j \in 1 .. Len(toks')
      PROVE  Same(toks'[j], lexed[j])
  <2>1. CASE j \in 1 .. Len(toks)
    BY <1>3, <2>1 DEF Ahead
  <2>2. CASE j = Len(toks) + 1
    BY <1>2, <1>3, <1>4, <2>2
  <2> QED
    BY <1>3, <2>1, <2>2
<1>6. ASSUME NEW j \in 1 .. Len(rest)
      PROVE  lexed[Len(toks') + j] = rest[j]
  <2>1. PICK n \in Nat : n = Len(toks)
    BY <1>3
  <2>2. PICK m \in Nat : m = Len(rest)
    OBVIOUS
  <2>3. (n + 1) + j = n + (j + 1) /\ j + 1 \in 1 .. m + 1
    BY <2>1, <2>2
  <2>4. lexed[n + (j + 1)] = r[j + 1]
    BY <2>1, <2>2, <2>3 DEF Ahead
  <2> QED
    BY <1>3, <2>1, <2>3, <2>4
<1>7. Len(lexed) = Len(toks') + Len(rest)
  BY <1>3 DEF Ahead
<1> QED
  BY <1>5, <1>6, <1>7 DEF Ahead

\* A position that ends the characters of a class, or is the first character,
\* is the one PastAll, or Find, gives.
LEMMA PastAllReached ==
  ASSUME NEW s, Len(s) \in Nat, NEW p \in 1 .. Len(s) + 1, NEW C, NEW q \in p .. Len(s) + 1,
         \A x \in p .. q - 1 : s[x] \in C, q <= Len(s) => s[q] \notin C
  PROVE  PastAll(s, p, C) = q
<1> DEFINE m == PastAll(s, p, C)
<1>1. /\ m \in p .. Len(s) + 1
      /\ m <= Len(s) => s[m] \notin C
      /\ \A x \in p .. Len(s) : s[x] \notin C => m <= x
  BY PastAllIs
<1> HIDE DEF m
<1>2. ~(m < q)
  <2>1. m < q => m \in p .. q - 1 /\ m <= Len(s)
    BY <1>1
  <2> QED
    BY <1>1, <2>1
<1>3. ~(q < m)
  <2>1. q < m => q \in p .. Len(s)
    BY <1>1
  <2> QED
    BY <1>1, <2>1
<1> QED
  BY <1>1, <1>2, <1>3 DEF m

LEMMA FindNext ==
  ASSUME NEW s, Len(s) \in Nat, NEW p \in 1 .. Len(s), NEW c
  PROVE  /\ s[p] = c => Find(s, p, c) = p
         /\ s[p] # c => Find(s, p, c) = Find(s, p + 1, c)
<1> DEFINE a == Find(s, p, c)
           b == Find(s, p + 1, c)
<1>1. /\ a \in p .. Len(s) + 1
      /\ a <= Len(s) => s[a] = c
      /\ \A q \in p .. Len(s) : s[q] = c => a <= q
  BY FindIs
<1>2. /\ b \in p + 1 .. Len(s) + 1
      /\ b <= Len(s) => s[b] = c
      /\ \A q \in p + 1 .. Len(s) : s[q] = c => b <= q
  <2>1. p + 1 \in 1 .. Len(s) + 1
    OBVIOUS
  <2> QED
    BY <2>1, FindIs
<1> HIDE DEF a, b
<1>3. s[p] = c => a = p
  BY <1>1
<1>4. ASSUME s[p] # c
      PROVE  a = b
  <2>1. a # p
    BY <1>1, <1>4
  <2>2. a \in p + 1 .. Len(s) + 1
    BY <1>1, <2>1
  <2>3. ~(a < b)
    <3>1. a < b => a \in p + 1 .. Len(s) /\ s[a] = c
      BY <1>1, <1>2, <2>2
    <3> QED
      BY <1>2, <2>2, <3>1
  <2>4. ~(b < a)
    <3>1. b < a => b \in p .. Len(s) /\ s[b] = c
      BY <1>1, <1>2
    <3> QED
      BY <1>1, <1>2, <3>1
  <2> QED
    BY <1>1, <1>2, <2>3, <2>4
<1> QED
  BY <1>3, <1>4 DEF a, b

LEMMA FindEnd ==
  ASSUME NEW s, Len(s) \in Nat, NEW c
  PROVE  Find(s, Len(s) + 1, c) = Len(s) + 1
<1>1. Len(s) + 1 \in 1 .. Len(s) + 1
  OBVIOUS
<1>2. Find(s, Len(s) + 1, c) \in Len(s) + 1 .. Len(s) + 1
  BY <1>1, FindIs
<1> QED
  BY <1>2

\* Quotes of a text that is cut in two.
LEMMA QuotesJoin ==
  ASSUME NEW s, NEW p \in Nat, NEW q \in Nat, NEW r \in Nat, p <= q, q <= r + 1
  PROVE  Cardinality(Quotes(s, p, r)) = Cardinality(Quotes(s, p, q - 1)) + Cardinality(Quotes(s, q, r))
<1> DEFINE A == Quotes(s, p, q - 1)
           B == Quotes(s, q, r)
<1>1. /\ IsFiniteSet(A) /\ IsFiniteSet(B)
      /\ Cardinality(A) \in Nat /\ Cardinality(B) \in Nat
  <2>1. q - 1 \in Int /\ r \in Int
    OBVIOUS
  <2> QED
    BY <2>1, QuotesFinite
<1>2. Quotes(s, p, r) = A \cup B /\ A \cap B = {}
  BY DEF Quotes
<1>3. Cardinality(A \cup B) = Cardinality(A) + Cardinality(B) - Cardinality(A \cap B)
  BY <1>1, FS_Union
<1>4. Cardinality(A \cap B) = 0
  BY <1>2, FS_EmptySet
<1> QED
  BY <1>1, <1>2, <1>3, <1>4

LEMMA QuotesAtMost ==
  ASSUME NEW s, NEW p \in Nat, NEW q \in Nat, p <= q + 1
  PROVE  Cardinality(Quotes(s, p, q)) \in 0 .. (q + 1) - p
<1>1. IsFiniteSet(p .. q) /\ Cardinality(p .. q) = (q + 1) - p
  BY FS_Interval
<1>2. Quotes(s, p, q) \subseteq p .. q
  BY DEF Quotes
<1>3. Cardinality(Quotes(s, p, q)) \in Nat /\ Cardinality(Quotes(s, p, q)) <= Cardinality(p .. q)
  BY <1>1, <1>2, FS_Subset, FS_CardinalityType
<1> QED
  BY <1>1, <1>3

LEMMA OneQuote ==
  ASSUME NEW s, NEW p \in Nat
  PROVE  Cardinality(Quotes(s, p, p)) = IF s[p] = "'" THEN 1 ELSE 0
<1>1. Quotes(s, p, p) = IF s[p] = "'" THEN {p} ELSE {}
  BY DEF Quotes
<1>2. Cardinality({p}) = 1 /\ Cardinality({}) = 0
  BY FS_Singleton, FS_EmptySet
<1> QED
  BY <1>1, <1>2

-----------------------------------------------------------------------------
(* What TokenAt says of the beginning of a text that was read.             *)

LEMMA WordToken ==
  ASSUME NEW s, Len(s) \in Nat, NEW p \in 1 .. Len(s), NEW q \in p + 1 .. Len(s) + 1, s[p] \in Words,
         \A x \in p .. q - 1 : s[x] \in Words \cup {"int"}, q <= Len(s) => s[q] \notin Words \cup {"int"}
  PROVE  TokenAt(s, p) = Token(IF q - p = 1 THEN s[p] ELSE "name", p, q - 1, q - p)
<1> DEFINE last   == PastAll(s, p, Words \cup {"int"}) - 1
           number == PastAll(s, p + 1, {"int"}) - 1
           w      == Token(IF last = p THEN s[p] ELSE "name", p, last, last - p + 1)
<1>1. PastAll(s, p, Words \cup {"int"}) = q
  <2>1. p \in 1 .. Len(s) + 1 /\ q \in p .. Len(s) + 1
    OBVIOUS
  <2> DEFINE C == Words \cup {"int"}
  <2>2. \A x \in p .. q - 1 : s[x] \in C
    OBVIOUS
  <2>3. q <= Len(s) => s[q] \notin C
    OBVIOUS
  <2> HIDE DEF C
  <2>4. PastAll(s, p, C) = q
    BY <2>1, <2>2, <2>3, PastAllReached
  <2> QED
    BY <2>4 DEF C
<1>2. TokenAt(s, p) = w
  <2> DEFINE d == Token("int", p, number, number - p + 1)
             g == Token(IF number > p THEN "int" ELSE s[p], p, number, number - p + 1)
  <2>1. TokenAt(s, p) = Chosen(s[p], w, d, g, StringToken(s, p), Token(s[p], p, p, 1), Unreadable(s, p))
    BY TokenChosen
  <2> HIDE DEF w, d, g
  <2> QED
    BY <2>1, ChosenIs
<1>3. last = q - 1 /\ (last = p <=> q - p = 1) /\ (q - 1) - p + 1 = q - p
  BY <1>1
<1> QED
  BY <1>2, <1>3

LEMMA SignsAre ==
  /\ ({"int", "+", "-", "'"} \cup Foreign) \cap (Words \cup Punctuation) = {}
  /\ Foreign \cap {"int", "+", "-", "'"} = {}
BY DEF Words, Keywords, Identifiers, Punctuation, Foreign

LEMMA NumberToken ==
  ASSUME NEW s, Len(s) \in Nat, NEW p \in 1 .. Len(s), NEW q \in p + 1 .. Len(s) + 1,
         \/ s[p] = "int"
         \/ s[p] \in {"+", "-"} /\ q > p + 1,
         \A x \in p + 1 .. q - 1 : s[x] = "int", q <= Len(s) => s[q] # "int"
  PROVE  TokenAt(s, p) = Token("int", p, q - 1, q - p)
<1> DEFINE last   == PastAll(s, p, Words \cup {"int"}) - 1
           number == PastAll(s, p + 1, {"int"}) - 1
           d      == Token("int", p, number, number - p + 1)
           g      == Token(IF number > p THEN "int" ELSE s[p], p, number, number - p + 1)
<1>1. PastAll(s, p + 1, {"int"}) = q
  <2>1. p + 1 \in 1 .. Len(s) + 1 /\ q \in p + 1 .. Len(s) + 1
    OBVIOUS
  <2> DEFINE C == {"int"}
  <2>2. \A x \in p + 1 .. q - 1 : s[x] \in C
    OBVIOUS
  <2>3. q <= Len(s) => s[q] \notin C
    OBVIOUS
  <2> HIDE DEF C
  <2>4. PastAll(s, p + 1, C) = q
    BY <2>1, <2>2, <2>3, PastAllReached
  <2> QED
    BY <2>4 DEF C
<1>2. number = q - 1 /\ (q - 1) - p + 1 = q - p
  BY <1>1
<1>3. CASE s[p] = "int"
  <2>1. TokenAt(s, p) = d
    BY <1>3, TokenChosen, ChosenIs
  <2> QED
    BY <1>2, <2>1
<1>4. CASE s[p] \in {"+", "-"} /\ q > p + 1
  <2>1. TokenAt(s, p) = g
    BY <1>4, TokenChosen, ChosenIs
  <2>2. number > p
    BY <1>2, <1>4
  <2> QED
    BY <1>2, <2>1, <2>2
<1> QED
  BY <1>3, <1>4

LEMMA MarkToken ==
  ASSUME NEW s, Len(s) \in Nat, NEW p \in 1 .. Len(s),
         \/ s[p] \in Punctuation
         \/ s[p] \in {"+", "-"} /\ ~(p < Len(s) /\ s[p + 1] = "int")
  PROVE  TokenAt(s, p) = Token(s[p], p, p, 1)
<1> DEFINE last   == PastAll(s, p, Words \cup {"int"}) - 1
           number == PastAll(s, p + 1, {"int"}) - 1
           g      == Token(IF number > p THEN "int" ELSE s[p], p, number, number - p + 1)
<1>1. CASE s[p] \in Punctuation
  BY <1>1, TokenChosen, ChosenIs
<1>2. CASE s[p] \in {"+", "-"} /\ ~(p < Len(s) /\ s[p + 1] = "int")
  <2>1. TokenAt(s, p) = g
    BY <1>2, TokenChosen, ChosenIs
  <2> DEFINE C == {"int"}
             q == p + 1
  <2>2. /\ q \in 1 .. Len(s) + 1 /\ q \in q .. Len(s) + 1
        /\ (\A x \in q .. q - 1 : s[x] \in C)
    OBVIOUS
  <2>3. q <= Len(s) => s[q] \notin C
    BY <1>2
  <2> HIDE DEF C, q
  <2>4. PastAll(s, q, C) = q
    BY <2>2, <2>3, PastAllReached
  <2>5. number = p /\ p - p + 1 = 1 /\ ~(p > p)
    BY <2>4 DEF C, q
  <2> QED
    BY <2>1, <2>5
<1> QED
  BY <1>1, <1>2

LEMMA NoToken ==
  ASSUME NEW s, NEW p, s[p] \in Foreign
  PROVE  TokenAt(s, p) = Unreadable(s, p)
<1>1. s[p] \notin Words \cup {"int", "+", "-", "'"} \cup Punctuation
  BY SignsAre
<1> QED
  BY <1>1, TokenChosen, ChosenIs

LEMMA NoString ==
  ASSUME NEW s, NEW p, s[p] # "'"
  PROVE  TokenAt(s, p).kind # "string"
<1> DEFINE last   == PastAll(s, p, Words \cup {"int"}) - 1
           number == PastAll(s, p + 1, {"int"}) - 1
           a      == Token(IF last = p THEN s[p] ELSE "name", p, last, last - p + 1)
           c      == Token("int", p, number, number - p + 1)
           e      == Token(IF number > p THEN "int" ELSE s[p], p, number, number - p + 1)
           f      == Token(s[p], p, p, 1)
<1>1. "string" \notin Words \cup Punctuation \cup {"int", "+", "-", "name", "error"}
  BY DEF Words, Keywords, Identifiers, Punctuation
<1>2. TokenAt(s, p) = Chosen(s[p], a, c, e, StringToken(s, p), f, Unreadable(s, p))
  BY TokenChosen
<1>3. /\ s[p] \in Words => a.kind # "string"
      /\ c.kind # "string" /\ Unreadable(s, p).kind # "string"
      /\ s[p] \in {"+", "-"} => e.kind # "string"
      /\ s[p] \in Punctuation => f.kind # "string"
  BY <1>1 DEF Token, Unreadable
<1> HIDE DEF a, c, e, f
<1> QED
  BY <1>2, <1>3 DEF Chosen

LEMMA QuoteToken ==
  ASSUME NEW s, NEW p, s[p] = "'"
  PROVE  TokenAt(s, p) = StringToken(s, p)
BY TokenChosen, ChosenIs

-----------------------------------------------------------------------------
(* Strings.                                                                *)

\* The string opened at p was read up to q, and has n characters so far.
BeganString(s, p, q, n) ==
  /\ s[p] = "'"
  /\ Cardinality(Quotes(s, p + 1, q - 1)) % 2 = 0
  /\ n = StringLength(s, p, q)
  /\ \A x \in ClosingQuotes(s, p) : x >= q

\* How many quotes there are up to q, and how long the string is.
LEMMA BeganCount ==
  ASSUME NEW s, NEW p \in Nat, NEW q \in Nat, p < q, NEW n, BeganString(s, p, q, n)
  PROVE  \E k \in Nat : Cardinality(Quotes(s, p + 1, q - 1)) = 2 * k /\ n = ((q - p) - 1) - k
<1>1. PICK c \in Nat : c = Cardinality(Quotes(s, p + 1, q - 1))
  <2>1. p + 1 \in Nat /\ q - 1 \in Int
    OBVIOUS
  <2> QED
    BY <2>1, QuotesFinite
<1>2. c % 2 = 0
  BY <1>1 DEF BeganString
<1>3. PICK k \in Nat : c = 2 * k
  BY <1>2
<1>4. c \div 2 = k
  BY <1>3
<1>5. n = ((q - p) - 1) - k
  BY <1>1, <1>4 DEF BeganString, StringLength
<1> QED
  BY <1>1, <1>3, <1>5

LEMMA CountBegan ==
  ASSUME NEW s, NEW p \in Nat, NEW q \in Nat, p < q, s[p] = "'", NEW k \in Nat,
         Cardinality(Quotes(s, p + 1, q - 1)) = 2 * k, \A x \in ClosingQuotes(s, p) : x >= q
  PROVE  BeganString(s, p, q, ((q - p) - 1) - k)
<1>1. (2 * k) % 2 = 0 /\ (2 * k) \div 2 = k
  OBVIOUS
<1> QED
  BY <1>1 DEF BeganString, StringLength

LEMMA StringBegins ==
  ASSUME NEW s, Len(s) \in Nat, NEW p \in 1 .. Len(s), s[p] = "'"
  PROVE  BeganString(s, p, p + 1, 0)
<1>1. PICK q \in Nat : q = p + 1
  OBVIOUS
<1>2. Quotes(s, p + 1, q - 1) = {}
  BY <1>1 DEF Quotes
<1>3. Cardinality(Quotes(s, p + 1, q - 1)) = 2 * 0
  BY <1>2, FS_EmptySet
<1>4. \A x \in ClosingQuotes(s, p) : x >= q
  BY <1>1 DEF ClosingQuotes, Quotes
<1>5. p \in Nat /\ 0 \in Nat /\ p < q /\ ((q - p) - 1) - 0 = 0
  BY <1>1
<1>6. BeganString(s, p, q, ((q - p) - 1) - 0)
  BY <1>3, <1>4, <1>5, CountBegan
<1> QED
  BY <1>1, <1>5, <1>6

\* Quotes up to a later character.
LEMMA CountUpTo ==
  ASSUME NEW s, NEW p \in Nat, NEW q \in Nat, NEW r \in Nat, p < q, q <= r + 1
  PROVE  /\ Cardinality(Quotes(s, p + 1, r)) =
              Cardinality(Quotes(s, p + 1, q - 1)) + Cardinality(Quotes(s, q, r))
         /\ Cardinality(Quotes(s, q, r)) \in 0 .. (r + 1) - q
BY QuotesJoin, QuotesAtMost

LEMMA StringCharacter ==
  ASSUME NEW s, Len(s) \in Nat, NEW p \in 1 .. Len(s), NEW q \in p + 1 .. Len(s), NEW n,
         BeganString(s, p, q, n), s[q] # "'"
  PROVE  BeganString(s, p, q + 1, n + 1)
<1>1. PICK k \in Nat : Cardinality(Quotes(s, p + 1, q - 1)) = 2 * k /\ n = ((q - p) - 1) - k
  BY BeganCount
<1>2. Cardinality(Quotes(s, q, q)) = 0
  BY OneQuote
<1>3. Cardinality(Quotes(s, p + 1, q)) = 2 * k
  BY <1>1, <1>2, CountUpTo
<1>4. (q + 1) - 1 = q /\ (((q + 1) - p) - 1) - k = n + 1
  BY <1>1
<1>5. \A x \in ClosingQuotes(s, p) : x >= q + 1
  <2>1. \A x \in ClosingQuotes(s, p) : x >= q /\ x \in Int /\ s[x] = "'"
    BY DEF BeganString, ClosingQuotes, Quotes
  <2> QED
    BY <2>1
<1>6. s[p] = "'"
  BY DEF BeganString
<1> QED
  BY <1>3, <1>4, <1>5, <1>6, CountBegan

\* A pair of quotes closes nothing.
LEMMA PairCloses ==
  ASSUME NEW s, Len(s) \in Nat, NEW p \in 1 .. Len(s), NEW q \in p + 1 .. Len(s), NEW n,
         BeganString(s, p, q, n), q < Len(s), s[q] = "'", s[q + 1] = "'"
  PROVE  /\ \A x \in ClosingQuotes(s, p) : x >= q + 2
         /\ Cardinality(Quotes(s, p + 1, q + 1)) = Cardinality(Quotes(s, p + 1, q - 1)) + 2
<1>1. PICK k \in Nat : Cardinality(Quotes(s, p + 1, q - 1)) = 2 * k
  BY BeganCount
<1>2. Cardinality(Quotes(s, q, q)) = 1 /\ Cardinality(Quotes(s, q + 1, q + 1)) = 1
  BY OneQuote
<1>3. Cardinality(Quotes(s, p + 1, q)) = 2 * k + 1
  BY <1>1, <1>2, CountUpTo
<1>4. Cardinality(Quotes(s, p + 1, q + 1)) = 2 * k + 2
  <2>1. PICK r \in Nat : r = q + 1
    OBVIOUS
  <2>2. p \in Nat /\ p < r /\ r <= r + 1 /\ r - 1 = q
    BY <2>1
  <2>3. Cardinality(Quotes(s, p + 1, r)) =
          Cardinality(Quotes(s, p + 1, r - 1)) + Cardinality(Quotes(s, r, r))
    BY <2>2, CountUpTo
  <2> QED
    BY <1>2, <1>3, <2>1, <2>2, <2>3
<1>5. (2 * k + 2) % 2 = 0
  OBVIOUS
<1>6. ASSUME NEW x \in ClosingQuotes(s, p)
      PROVE  x >= q + 2
  <2>1. x >= q /\ x \in Int
    BY DEF BeganString, ClosingQuotes, Quotes
  <2>2. x # q
    BY DEF ClosingQuotes
  <2>3. x # q + 1
    BY <1>4, <1>5 DEF ClosingQuotes
  <2> QED
    BY <2>1, <2>2, <2>3
<1> QED
  BY <1>1, <1>4, <1>6

LEMMA StringPair ==
  ASSUME NEW s, Len(s) \in Nat, NEW p \in 1 .. Len(s), NEW q \in p + 1 .. Len(s), NEW n,
         BeganString(s, p, q, n), q < Len(s), s[q] = "'", s[q + 1] = "'"
  PROVE  BeganString(s, p, q + 2, n + 1)
<1>1. PICK k \in Nat : Cardinality(Quotes(s, p + 1, q - 1)) = 2 * k /\ n = ((q - p) - 1) - k
  BY BeganCount
<1>2. /\ \A x \in ClosingQuotes(s, p) : x >= q + 2
      /\ Cardinality(Quotes(s, p + 1, q + 1)) = 2 * (k + 1)
  BY <1>1, PairCloses
<1>3. PICK r \in Nat : r = q + 2
  OBVIOUS
<1>4. PICK j \in Nat : j = k + 1
  OBVIOUS
<1>5. p \in Nat /\ p < r /\ r - 1 = q + 1 /\ ((r - p) - 1) - j = n + 1
  BY <1>1, <1>3, <1>4
<1>6. s[p] = "'"
  BY DEF BeganString
<1>7. /\ Cardinality(Quotes(s, p + 1, r - 1)) = 2 * j
      /\ \A x \in ClosingQuotes(s, p) : x >= r
  BY <1>2, <1>3, <1>4, <1>5
<1>8. BeganString(s, p, r, ((r - p) - 1) - j)
  BY <1>5, <1>6, <1>7, CountBegan
<1> QED
  BY <1>3, <1>5, <1>8

LEMMA StringEnds ==
  ASSUME NEW s, Len(s) \in Nat, NEW p \in 1 .. Len(s), NEW q \in p + 1 .. Len(s), NEW n \in Nat,
         BeganString(s, p, q, n), s[q] = "'", q < Len(s) => s[q + 1] # "'", n < StrCap
  PROVE  StringToken(s, p) = Token("string", p, q, n)
<1>1. PICK k \in Nat : Cardinality(Quotes(s, p + 1, q - 1)) = 2 * k
  BY BeganCount
<1>2. Cardinality(Quotes(s, q, q)) = 1
  BY OneQuote
<1>3. Cardinality(Quotes(s, p + 1, q)) = 2 * k + 1 /\ (2 * k + 1) % 2 = 1
  BY <1>1, <1>2, CountUpTo
<1>4. q \in ClosingQuotes(s, p)
  <2>1. q \in Quotes(s, p + 1, Len(s))
    BY DEF Quotes
  <2> QED
    BY <1>3, <2>1 DEF ClosingQuotes
<1> DEFINE m == Min(ClosingQuotes(s, p))
<1>5. m \in ClosingQuotes(s, p) /\ m \in p + 1 .. Len(s) /\ m <= q
  BY <1>4, ClosingQuoteIs
<1>6. m >= q
  BY <1>5 DEF BeganString
<1> HIDE DEF m
<1>7. m = q
  BY <1>5, <1>6
<1>8. StringLength(s, p, q) = n /\ ~(n >= StrCap)
  BY StrCapAssumption DEF BeganString
<1>9. StringToken(s, p) =
        IF ClosingQuotes(s, p) = {} \/ StringLength(s, p, m) >= StrCap
        THEN Unreadable(s, p) ELSE Token("string", p, m, StringLength(s, p, m))
  BY DEF StringToken, m
<1> QED
  BY <1>4, <1>7, <1>8, <1>9

\* The text ends in the string, or the string is too long whatever follows.
LEMMA StringBreaks ==
  ASSUME NEW s, Len(s) \in Nat, NEW p \in 1 .. Len(s), NEW q \in p + 1 .. Len(s) + 1, NEW n \in Nat,
         BeganString(s, p, q, n),
         q <= Len(s) => n + 1 >= StrCap /\ (s[q] # "'" \/ (q < Len(s) /\ s[q + 1] = "'"))
  PROVE  StringToken(s, p) = Unreadable(s, p)
<1>1. SUFFICES ASSUME ClosingQuotes(s, p) # {}
               PROVE  StringLength(s, p, Min(ClosingQuotes(s, p))) >= StrCap
  BY DEF StringToken
<1>2. PICK x \in p + 1 .. Len(s) : x = Min(ClosingQuotes(s, p)) /\ x \in ClosingQuotes(s, p)
  BY <1>1, ClosingQuoteIs
<1>3. x >= q /\ s[x] = "'" /\ Cardinality(Quotes(s, p + 1, x)) % 2 = 1
  BY <1>2 DEF BeganString, ClosingQuotes, Quotes
<1>4. q \in p + 1 .. Len(s) /\ n + 1 >= StrCap
  BY <1>2, <1>3
<1>5. PICK k \in Nat : Cardinality(Quotes(s, p + 1, q - 1)) = 2 * k /\ n = ((q - p) - 1) - k
  <2>1. p \in Nat /\ q \in Nat /\ p < q
    OBVIOUS
  <2> QED
    BY <2>1, BeganCount
<1>6. PICK m \in Nat : /\ m = Cardinality(Quotes(s, q, x - 1)) /\ m <= x - q
                       /\ Cardinality(Quotes(s, p + 1, x - 1)) = 2 * k + m
  <2>1. PICK y \in Nat : y = x - 1
    BY <1>3
  <2>2. q <= y + 1 /\ (y + 1) - q = x - q /\ p < q /\ p \in Nat /\ q \in Nat
    BY <1>3, <2>1
  <2>3. /\ Cardinality(Quotes(s, p + 1, y)) =
             Cardinality(Quotes(s, p + 1, q - 1)) + Cardinality(Quotes(s, q, y))
        /\ Cardinality(Quotes(s, q, y)) \in 0 .. (y + 1) - q
    BY <2>2, CountUpTo
  <2> QED
    BY <1>5, <2>1, <2>2, <2>3
<1>7. PICK j \in Nat : m = 2 * j
  <2>1. Cardinality(Quotes(s, x, x)) = 1
    BY <1>3, OneQuote
  <2>2. Cardinality(Quotes(s, p + 1, x)) = (2 * k + m) + 1
    BY <1>6, <2>1, CountUpTo
  <2>3. ((2 * k + m) + 1) % 2 = 1
    BY <1>3, <2>2
  <2> QED
    BY <2>3
<1>8. StringLength(s, p, x) = ((x - p) - 1) - (k + j)
  <2>1. 2 * k + m = 2 * (k + j) /\ (2 * (k + j)) \div 2 = k + j
    BY <1>7
  <2> QED
    BY <1>6, <2>1 DEF StringLength
<1>9. (x - q) - j >= 1
  <2>1. CASE s[q] # "'"
    <3>1. x >= q + 1
      BY <1>3, <2>1
    <3>2. Cardinality(Quotes(s, q, q)) = 0
      BY <1>4, <2>1, OneQuote
    <3>3. PICK y \in Nat, r \in Nat : y = x - 1 /\ r = q + 1
      BY <3>1
    <3>4. q \in Nat /\ q <= r /\ r <= y + 1 /\ r - 1 = q /\ (y + 1) - r = (x - q) - 1
      BY <3>1, <3>3
    <3>5. /\ Cardinality(Quotes(s, q, y)) =
               Cardinality(Quotes(s, q, r - 1)) + Cardinality(Quotes(s, r, y))
          /\ Cardinality(Quotes(s, r, y)) \in 0 .. (y + 1) - r
      <4>1. Cardinality(Quotes(s, q, y)) =
              Cardinality(Quotes(s, q, r - 1)) + Cardinality(Quotes(s, r, y))
        <5>1. q \in Nat /\ q <= r /\ r <= y + 1
          BY <3>4
        <5> QED
          BY ONLY <5>1, QuotesJoin, r \in Nat, y \in Nat
      <4>2. Cardinality(Quotes(s, r, y)) \in 0 .. (y + 1) - r
        BY <3>4, QuotesAtMost
      <4> QED
        BY <4>1, <4>2
    <3>6. m <= (x - q) - 1
      BY <1>6, <3>2, <3>3, <3>4, <3>5
    <3> QED
      BY <1>7, <3>1, <3>6
  <2>2. CASE s[q] = "'"
    <3>1. q < Len(s) /\ s[q + 1] = "'"
      BY <1>4, <2>2
    <3>2. x >= q + 2
      BY <1>2, <1>4, <2>2, <3>1, PairCloses
    <3> QED
      BY <1>6, <1>7, <3>2
  <2> QED
    BY <2>1, <2>2
<1>10. StringLength(s, p, x) >= n + 1
  BY <1>5, <1>8, <1>9
<1> QED
  BY <1>2, <1>4, <1>8, <1>10, StrCapAssumption

-----------------------------------------------------------------------------
(* The tokens given are those the text has.                                *)

LexedInv ==
  /\ lex_pc = "end" => Ahead(lexed, toks, <<>>)
  /\ lex_pc = "skip" => Ahead(lexed, toks, LexFrom(text, pos))
  /\ lex_pc = "comment" => Ahead(lexed, toks, LexFrom(text, Find(text, pos, "nl")))
  /\ lex_pc \in {"word", "digits", "string"} =>
       Starts(text, begun.at) /\ Ahead(lexed, toks, LexFrom(text, begun.at))
  /\ lex_pc = "word" => \A x \in begun.at .. pos - 1 : text[x] \in Words \cup {"int"}
  /\ lex_pc = "digits" =>
       /\ \/ text[begun.at] = "int"
          \/ text[begun.at] \in {"+", "-"} /\ begun.at < Len(text) /\ text[begun.at + 1] = "int"
       /\ \A x \in begun.at + 1 .. pos - 1 : text[x] = "int"
  /\ lex_pc = "string" => BeganString(text, begun.at, pos, out)

\* What Emit gives is the token that starts at b.
LEMMA GivesToken ==
  ASSUME text \in Seq(Characters), IsSequence(toks), NEW b \in 1 .. Len(text), Starts(text, b),
         Ahead(lexed, toks, LexFrom(text, b)),
         NEW kind, NEW to, NEW len, TokenAt(text, b) = Token(kind, b, to, len),
         NEW st, st.at = b, Emit(kind, st, len)
  PROVE  /\ kind # "error" => lex_pc' = "skip" /\ Ahead(lexed, toks', LexFrom(text, to + 1))
         /\ kind = "error" => lex_pc' = "end" /\ Ahead(lexed, toks', <<>>)
<1>1. /\ TokenAt(text, b).kind = kind /\ TokenAt(text, b).at = b /\ TokenAt(text, b).to = to
      /\ TokenAt(text, b).len = len
  BY TokenFields
<1>2. b \in 1 .. Len(text) + 1 /\ Len(text) \in Nat
  OBVIOUS
<1>3. IsToken(TokenAt(text, b), text, b)
  BY TokenAtIs
<1> DEFINE t == TokenAt(text, b)
<1> HIDE DEF t
<1>4. CASE kind # "error"
  <2>1. /\ LexFrom(text, b) = <<t>> \o LexFrom(text, to + 1)
        /\ to + 1 \in b + 1 .. Len(text) + 1
    BY <1>1, <1>2, <1>4, LexFromHere DEF t
  <2>2. to + 1 \in 1 .. Len(text) + 1
    BY <1>2, <2>1
  <2>3. IsLexed(text, LexFrom(text, to + 1))
    BY <2>2, LexFromIsLexed
  <2> DEFINE rest == LexFrom(text, to + 1)
             S    == {TokenAt(text, x) : x \in 1 .. Len(text)} \cup {Token("eof", Len(text) + 1, Len(text) + 1, 0)}
  <2>4. t \in S /\ rest \in Seq(S)
    BY <2>3 DEF IsLexed, t
  <2> HIDE DEF S, rest
  <2>5. /\ Len(<<t>> \o rest) = Len(rest) + 1 /\ Len(rest) \in Nat
        /\ (<<t>> \o rest)[1] = t
        /\ \A j \in 1 .. Len(rest) : (<<t>> \o rest)[j + 1] = rest[j]
    BY <2>4, OneAndRest
  <2>6. LexFrom(text, b) = <<t>> \o rest
    BY <2>1 DEF rest
  <2>7. st.at = t.at /\ Emit(t.kind, st, t.len)
    BY <1>1 DEF t
  <2>8. Ahead(lexed, toks', rest)
    BY <2>5, <2>6, <2>7, EmitAhead
  <2>9. kind # "eof"
    BY <1>1, <1>3 DEF IsToken
  <2> QED
    BY <1>4, <2>8, <2>9 DEF Emit, rest
<1>5. CASE kind = "error"
  <2>1. LexFrom(text, b) = <<t>>
    <3>1. TokenAt(text, b).kind = "error"
      BY <1>1, <1>5
    <3>2. b <= Len(text)
      BY <1>2
    <3>3. LexFrom(text, b) = <<TokenAt(text, b)>>
      BY <1>2, <3>1, <3>2, LexFromHere
    <3> QED
      BY <3>3 DEF t
  <2> DEFINE rest == <<>>
  <2>2. /\ Len(<<t>>) = Len(rest) + 1 /\ Len(rest) \in Nat /\ <<t>>[1] = t
        /\ \A j \in 1 .. Len(rest) : <<t>>[j + 1] = rest[j]
    OBVIOUS
  <2> HIDE DEF rest
  <2>3. st.at = t.at /\ Emit(t.kind, st, t.len)
    BY <1>1 DEF t
  <2>4. Ahead(lexed, toks', rest)
    BY <2>1, <2>2, <2>3, EmitAhead
  <2> QED
    BY <1>5, <2>4 DEF Emit, rest
<1> QED
  BY <1>4, <1>5

LEMMA GivesEof ==
  ASSUME text \in Seq(Characters), IsSequence(toks), Starts(text, Len(text) + 1),
         Ahead(lexed, toks, LexFrom(text, Len(text) + 1)),
         NEW st, st.at = Len(text) + 1, Emit("eof", st, 0)
  PROVE  lex_pc' = "end" /\ Ahead(lexed, toks', <<>>)
<1> DEFINE b    == Len(text) + 1
           t    == Token("eof", b, b, 0)
           rest == <<>>
<1>1. b \in 1 .. Len(text) + 1 /\ b > Len(text)
  OBVIOUS
<1>2. LexFrom(text, b) = <<t>>
  BY <1>1, LexFromHere
<1>3. t.kind = "eof" /\ t.at = b /\ t.len = 0
  BY TokenFields
<1> HIDE DEF t
<1>4. /\ Len(<<t>>) = Len(rest) + 1 /\ Len(rest) \in Nat /\ <<t>>[1] = t
      /\ \A j \in 1 .. Len(rest) : <<t>>[j + 1] = rest[j]
  OBVIOUS
<1> HIDE DEF rest
<1>5. st.at = t.at /\ Emit(t.kind, st, t.len)
  BY <1>3
<1>6. Ahead(lexed, toks', rest)
  BY <1>2, <1>4, <1>5, EmitAhead
<1> QED
  BY <1>6 DEF Emit, rest

LEMMA LexedSkip == LexInv /\ LexedInv /\ skip_ws_and_comments => LexedInv'
<1> HAVE LexInv /\ LexedInv /\ skip_ws_and_comments
<1>1. /\ lex_pc = "skip" /\ text' = text /\ toks' = toks /\ lexed' = lexed
      /\ text \in Seq(Characters) /\ Len(text) \in Nat /\ pos \in 1 .. Len(text) + 1
      /\ Ahead(lexed, toks, LexFrom(text, pos))
  <2>1. lex_pc = "skip" /\ text' = text /\ toks' = toks /\ lexed' = lexed
    BY DEF skip_ws_and_comments, kept
  <2>2. text \in Seq(Characters) /\ pos \in 1 .. Len(text) + 1
    BY DEF LexInv
  <2>3. Ahead(lexed, toks, LexFrom(text, pos))
    BY <2>1 DEF LexedInv
  <2> QED
    BY <2>1, <2>2, <2>3
<1>2. CASE /\ UNCHANGED lex_pc
           /\ \/ In(Space \ {"nl"}) /\ Past(1)
              \/ In({"nl"}) /\ PastLine
  <2>1. pos' = pos + 1 /\ pos <= Len(text) /\ text[pos] \in Space /\ lex_pc' = "skip"
    BY <1>1, <1>2 DEF Past, PastLine, In, More, Here, Space
  <2>2. pos + 1 \in 1 .. Len(text) + 1
    BY <1>1, <2>1
  <2>3. TokenStart(text, pos) = TokenStart(text, pos + 1)
    BY <1>1, <2>1, TokenStartIs
  <2>4. LexFrom(text, pos) = LexFrom(text, pos + 1)
    BY <1>1, <2>2, <2>3, SameStart
  <2> QED
    BY <1>1, <2>1, <2>4 DEF LexedInv
<1>3. CASE OnComment /\ Past(2) /\ lex_pc' = "comment"
  <2>1. pos' = pos + 2 /\ CommentAt(text, pos) /\ pos < Len(text)
    BY <1>3 DEF Past, OnComment, Next1, In, More, Here, CommentAt
  <2>2. text[pos] \notin Space
    BY <2>1 DEF CommentAt, Space
  <2>3. TokenStart(text, pos) = TokenStart(text, Find(text, pos, "nl"))
    BY <1>1, <2>1, <2>2, TokenStartIs
  <2>4. /\ Find(text, pos, "nl") \in pos + 2 .. Len(text) + 1
        /\ Find(text, pos, "nl") = Find(text, pos + 2, "nl")
    BY <1>1, <2>1, CommentGoesOn
  <2>5. Find(text, pos, "nl") \in 1 .. Len(text) + 1
    BY <1>1, <2>4
  <2>6. LexFrom(text, pos) = LexFrom(text, Find(text, pos, "nl"))
    BY <1>1, <2>3, <2>5, SameStart
  <2> QED
    BY <1>1, <1>3, <2>1, <2>4, <2>6 DEF LexedInv
<1> QED
  BY <1>2, <1>3 DEF skip_ws_and_comments

LEMMA LexedComment == LexInv /\ LexedInv /\ skip_comment => LexedInv'
<1> HAVE LexInv /\ LexedInv /\ skip_comment
<1>1. /\ lex_pc = "comment" /\ text' = text /\ toks' = toks /\ lexed' = lexed
      /\ text \in Seq(Characters) /\ Len(text) \in Nat /\ pos \in 1 .. Len(text) + 1
      /\ Ahead(lexed, toks, LexFrom(text, Find(text, pos, "nl")))
  BY DEF skip_comment, kept, LexInv, LexedInv
<1>2. CASE In(Characters \ {"nl"}) /\ Past(1) /\ UNCHANGED lex_pc
  <2>1. pos' = pos + 1 /\ pos \in 1 .. Len(text) /\ text[pos] # "nl"
    BY <1>1, <1>2 DEF Past, In, More, Here
  <2>2. Find(text, pos, "nl") = Find(text, pos + 1, "nl")
    BY <1>1, <2>1, FindNext
  <2> QED
    BY <1>1, <1>2, <2>1, <2>2 DEF LexedInv
<1>3. CASE /\ ~In(Characters \ {"nl"}) /\ lex_pc' = "skip"
           /\ UNCHANGED <<pos, line, column>>
  <2>1. Find(text, pos, "nl") = pos
    <3>1. CASE pos \in 1 .. Len(text)
      <4>1. text[pos] = "nl"
        BY <1>1, <1>3, <3>1 DEF In, More, Here
      <4> QED
        BY <1>1, <3>1, <4>1, FindNext
    <3>2. CASE pos = Len(text) + 1
      BY <1>1, <3>2, FindEnd
    <3> QED
      BY <1>1, <3>1, <3>2
  <2> QED
    BY <1>1, <1>3, <2>1 DEF LexedInv
<1> QED
  BY <1>2, <1>3 DEF skip_comment

LEMMA LexTypes ==
  ASSUME LexInv
  PROVE  /\ text \in Seq(Characters) /\ Len(text) \in Nat /\ pos \in 1 .. Len(text) + 1
         /\ IsSequence(toks)
         /\ out \in Nat /\ out < StrCap
         /\ lex_pc \in {"word", "digits", "string"} =>
              begun.at \in 1 .. Len(text) /\ pos \in begun.at + 1 .. Len(text) + 1
<1>1. text \in Seq(Characters) /\ pos \in 1 .. Len(text) + 1 /\ Len(text) \in Nat
  BY DEF LexInv
<1>2. IsSequence(toks)
  BY SequenceOf DEF LexInv
<1>3. out \in Nat /\ out < StrCap
  BY StrCapAssumption DEF LexInv
<1>4. lex_pc \in {"word", "digits", "string"} => begun.at \in 1 .. pos - 1
  BY DEF LexInv, BegunTrue
<1> QED
  BY <1>1, <1>2, <1>3, <1>4

\* A state in which no token is begun.
LEMMA LexedEnd ==
  ASSUME lex_pc' = "end", Ahead(lexed', toks', <<>>)
  PROVE  LexedInv'
BY DEF LexedInv

LEMMA LexedSkipping ==
  ASSUME lex_pc' = "skip", Ahead(lexed', toks', LexFrom(text', pos'))
  PROVE  LexedInv'
BY DEF LexedInv

LEMMA LexedFirst == LexInv /\ LexedInv /\ first_character => LexedInv'
<1> HAVE LexInv /\ LexedInv /\ first_character
<1>1. lex_pc = "skip" /\ text' = text /\ lexed' = lexed /\ ~In(Space) /\ ~OnComment
  BY DEF first_character, kept
<1>2. /\ text \in Seq(Characters) /\ Len(text) \in Nat /\ pos \in 1 .. Len(text) + 1
      /\ IsSequence(toks)
  BY LexTypes
<1>3. Ahead(lexed, toks, LexFrom(text, pos))
  BY <1>1 DEF LexedInv
<1>4. Starts(text, pos)
  <2>1. ~(pos <= Len(text) /\ text[pos] \in Space)
    BY <1>1 DEF In, More, Here
  <2>2. ~CommentAt(text, pos)
    <3>1. CommentAt(text, pos) => OnComment
      BY <1>2 DEF CommentAt, OnComment, Next1, In, More, Here
    <3> QED
      BY <1>1, <3>1
  <2> QED
    BY <2>1, <2>2 DEF Starts
<1>5. HereBegun.at = pos
  BY DEF HereBegun
<1>6. CASE /\ ~More
           /\ Emit(IF More THEN "error" ELSE "eof", HereBegun, 0)
  <2>1. pos = Len(text) + 1
    BY <1>2, <1>6 DEF More
  <2>2. Emit("eof", HereBegun, 0)
    BY <1>6
  <2>3. lex_pc' = "end" /\ Ahead(lexed, toks', <<>>)
    BY <1>2, <1>3, <1>4, <1>5, <2>1, <2>2, GivesEof
  <2> QED
    BY <1>1, <2>3, LexedEnd
<1>7. CASE /\ In(Foreign)
           /\ Emit(IF More THEN "error" ELSE "eof", HereBegun, 0)
  <2>1. pos \in 1 .. Len(text) /\ text[pos] \in Foreign /\ More
    BY <1>2, <1>7 DEF In, More, Here
  <2>2. TokenAt(text, pos) = Token("error", pos, Len(text), 0)
    BY <2>1, NoToken DEF Unreadable
  <2>3. Emit("error", HereBegun, 0)
    BY <1>7, <2>1
  <2>4. lex_pc' = "end" /\ Ahead(lexed, toks', <<>>)
    BY <1>2, <1>3, <1>4, <1>5, <2>1, <2>2, <2>3, GivesToken
  <2> QED
    BY <1>1, <2>4, LexedEnd
<1>8. CASE /\ In(Punctuation) \/ (In({"+", "-"}) /\ ~Signed({"int"}))
           /\ Emit(Here, HereBegun, 1) /\ Past(1)
  <2>1. pos \in 1 .. Len(text) /\ pos' = pos + 1
    BY <1>2, <1>8 DEF In, More, Past
  <2>2. \/ text[pos] \in Punctuation
        \/ text[pos] \in {"+", "-"} /\ ~(pos < Len(text) /\ text[pos + 1] = "int")
    <3>1. CASE In(Punctuation)
      BY <3>1 DEF In, Here
    <3>2. CASE In({"+", "-"}) /\ ~Signed({"int"})
      BY <3>2 DEF In, Here, Signed, Next1
    <3> QED
      BY <1>8, <3>1, <3>2
  <2>3. TokenAt(text, pos) = Token(text[pos], pos, pos, 1)
    BY <1>2, <2>1, <2>2, MarkToken
  <2>4. text[pos] # "error"
    BY <2>2 DEF Punctuation
  <2>5. Emit(text[pos], HereBegun, 1)
    BY <1>8 DEF Here
  <2>6. lex_pc' = "skip" /\ Ahead(lexed, toks', LexFrom(text, pos + 1))
    BY <1>2, <1>3, <1>4, <1>5, <2>1, <2>3, <2>4, <2>5, GivesToken
  <2> QED
    BY <1>1, <2>1, <2>6, LexedSkipping
<1>9. CASE /\ Begin
           /\ \/ In(Words) /\ lex_pc' = "word"
              \/ (In({"int"}) \/ Signed({"int"})) /\ lex_pc' = "digits"
              \/ In({"'"}) /\ lex_pc' = "string"
           /\ Past(1) /\ out' = 0 /\ UNCHANGED toks
  <2>1. pos \in 1 .. Len(text) /\ pos' = pos + 1 /\ out' = 0 /\ toks' = toks /\ begun'.at = pos
    <3>1. More
      BY <1>9 DEF In, Signed
    <3> QED
      BY <1>2, <1>9, <3>1 DEF More, Past, Begin
  <2>2. Starts(text', begun'.at) /\ Ahead(lexed', toks', LexFrom(text', begun'.at))
    BY <1>1, <1>3, <1>4, <2>1
  <2>3. CASE In(Words) /\ lex_pc' = "word"
    <3>1. text[pos] \in Words
      BY <2>3 DEF In, Here
    <3>2. \A x \in pos .. (pos + 1) - 1 : x = pos
      BY <1>2
    <3>3. \A x \in begun'.at .. pos' - 1 : text'[x] \in Words \cup {"int"}
      BY <1>1, <2>1, <3>1, <3>2
    <3> QED
      BY <2>2, <2>3, <3>3 DEF LexedInv
  <2>4. CASE (In({"int"}) \/ Signed({"int"})) /\ lex_pc' = "digits"
    <3>1. \/ text[pos] = "int"
          \/ text[pos] \in {"+", "-"} /\ pos < Len(text) /\ text[pos + 1] = "int"
      BY <2>4 DEF In, Here, Signed, Next1
    <3>2. \A x \in pos + 1 .. (pos + 1) - 1 : FALSE
      BY <1>2
    <3>3. \A x \in begun'.at + 1 .. pos' - 1 : text'[x] = "int"
      BY <2>1, <3>2
    <3> QED
      BY <1>1, <2>1, <2>2, <2>4, <3>1, <3>3 DEF LexedInv
  <2>5. CASE In({"'"}) /\ lex_pc' = "string"
    <3>1. BeganString(text, pos, pos + 1, 0)
      BY <1>2, <2>1, <2>5, StringBegins DEF In, Here
    <3> QED
      BY <1>1, <2>1, <2>2, <2>5, <3>1 DEF LexedInv
  <2> QED
    BY <1>9, <2>3, <2>4, <2>5
<1> QED
  BY <1>6, <1>7, <1>8, <1>9 DEF first_character

LEMMA LexedWord == LexInv /\ LexedInv /\ word => LexedInv'
<1> HAVE LexInv /\ LexedInv /\ word
<1> DEFINE b == begun.at
           C == Words \cup {"int"}
<1>1. lex_pc = "word" /\ text' = text /\ lexed' = lexed
  BY DEF word, longest, kept
<1>2. /\ text \in Seq(Characters) /\ Len(text) \in Nat /\ IsSequence(toks)
      /\ b \in 1 .. Len(text) /\ pos \in b + 1 .. Len(text) + 1
  BY <1>1, LexTypes
<1>3. /\ Starts(text, b) /\ Ahead(lexed, toks, LexFrom(text, b))
      /\ \A x \in b .. pos - 1 : text[x] \in C
  BY <1>1 DEF LexedInv
<1>4. CASE In(C) /\ Past(1) /\ UNCHANGED <<begun, toks, lex_pc>>
  <2>1. pos' = pos + 1 /\ text[pos] \in C /\ begun' = begun /\ toks' = toks /\ lex_pc' = "word"
    BY <1>1, <1>4 DEF In, Here, Past
  <2>2. \A x \in b .. (pos + 1) - 1 : x \in b .. pos - 1 \/ x = pos
    BY <1>2
  <2>3. \A x \in b .. (pos + 1) - 1 : text[x] \in C
    BY <1>3, <2>1, <2>2
  <2> QED
    BY <1>1, <1>3, <2>1, <2>3 DEF LexedInv
<1>5. CASE ~In(C) /\ Emit(keyword_kind, begun, pos - b) /\ UNCHANGED <<pos, line, column>>
  <2>1. pos <= Len(text) => text[pos] \notin C
    BY <1>5 DEF In, More, Here
  <2>2. text[b] \in Words
    BY <1>1 DEF LexInv, BegunTrue
  <2>3. TokenAt(text, b) = Token(IF pos - b = 1 THEN text[b] ELSE "name", b, pos - 1, pos - b)
    BY <1>2, <1>3, <2>1, <2>2, WordToken
  <2>4. keyword_kind = (IF pos - b = 1 THEN text[b] ELSE "name")
    BY DEF keyword_kind
  <2>5. keyword_kind # "error"
    BY <2>2 DEF keyword_kind, Words, Keywords, Identifiers
  <2>6. (pos - 1) + 1 = pos
    BY <1>2
  <2>7. lex_pc' = "skip" /\ Ahead(lexed, toks', LexFrom(text, (pos - 1) + 1))
    BY <1>2, <1>3, <1>5, <2>3, <2>4, <2>5, GivesToken
  <2> QED
    BY <1>1, <1>5, <2>6, <2>7, LexedSkipping
<1> QED
  BY <1>4, <1>5 DEF word, longest

LEMMA LexedDigits == LexInv /\ LexedInv /\ digits => LexedInv'
<1> HAVE LexInv /\ LexedInv /\ digits
<1> DEFINE b == begun.at
<1>1. lex_pc = "digits" /\ text' = text /\ lexed' = lexed
  BY DEF digits, longest, kept
<1>2. /\ text \in Seq(Characters) /\ Len(text) \in Nat /\ IsSequence(toks)
      /\ b \in 1 .. Len(text) /\ pos \in b + 1 .. Len(text) + 1
  BY <1>1, LexTypes
<1>3. /\ Starts(text, b) /\ Ahead(lexed, toks, LexFrom(text, b))
      /\ \A x \in b + 1 .. pos - 1 : text[x] = "int"
      /\ \/ text[b] = "int"
         \/ text[b] \in {"+", "-"} /\ b < Len(text) /\ text[b + 1] = "int"
  BY <1>1 DEF LexedInv
<1>4. CASE In({"int"}) /\ Past(1) /\ UNCHANGED <<begun, toks, lex_pc>>
  <2>1. pos' = pos + 1 /\ text[pos] = "int" /\ begun' = begun /\ toks' = toks /\ lex_pc' = "digits"
    BY <1>1, <1>4 DEF In, Here, Past
  <2>2. \A x \in b + 1 .. (pos + 1) - 1 : x \in b + 1 .. pos - 1 \/ x = pos
    BY <1>2
  <2>3. \A x \in b + 1 .. (pos + 1) - 1 : text[x] = "int"
    BY <1>3, <2>1, <2>2
  <2> QED
    BY <1>1, <1>3, <2>1, <2>3 DEF LexedInv
<1>5. CASE ~In({"int"}) /\ Emit("int", begun, pos - b) /\ UNCHANGED <<pos, line, column>>
  <2>1. pos <= Len(text) => text[pos] # "int"
    BY <1>5 DEF In, More, Here
  <2>2. text[b] = "int" \/ (text[b] \in {"+", "-"} /\ pos > b + 1)
    <3>1. text[b] \in {"+", "-"} /\ b < Len(text) /\ text[b + 1] = "int" => pos # b + 1
      BY <2>1, <1>2
    <3> QED
      BY <1>2, <1>3, <3>1
  <2>3. TokenAt(text, b) = Token("int", b, pos - 1, pos - b)
    BY <1>2, <1>3, <2>1, <2>2, NumberToken
  <2>4. (pos - 1) + 1 = pos
    BY <1>2
  <2>5. lex_pc' = "skip" /\ Ahead(lexed, toks', LexFrom(text, (pos - 1) + 1))
    BY <1>2, <1>3, <1>5, <2>3, GivesToken
  <2> QED
    BY <1>1, <1>5, <2>4, <2>5, LexedSkipping
<1> QED
  BY <1>4, <1>5 DEF digits, longest

LEMMA LexedString == LexInv /\ LexedInv /\ decode_string => LexedInv'
<1> HAVE LexInv /\ LexedInv /\ decode_string
<1> DEFINE b == begun.at
<1>1. lex_pc = "string" /\ text' = text /\ lexed' = lexed
  BY DEF decode_string, string_pair, string_end, string_character, string_fails, Pair, InString, kept
<1>2. /\ text \in Seq(Characters) /\ Len(text) \in Nat /\ IsSequence(toks)
      /\ b \in 1 .. Len(text) /\ pos \in b + 1 .. Len(text) + 1
      /\ out \in Nat /\ out < StrCap
  BY <1>1, LexTypes
<1>3. Starts(text, b) /\ Ahead(lexed, toks, LexFrom(text, b)) /\ BeganString(text, b, pos, out)
  BY <1>1 DEF LexedInv
<1>4. TokenAt(text, b) = StringToken(text, b)
  BY <1>3, QuoteToken DEF BeganString
<1>5. CASE string_pair
  <2>1. /\ pos' = pos + 2 /\ out' = out + 1 /\ UNCHANGED <<begun, toks, lex_pc>>
        /\ pos < Len(text) /\ text[pos] = "'" /\ text[pos + 1] = "'"
    BY <1>5 DEF string_pair, Pair, Next1, Here, Past
  <2>2. pos \in b + 1 .. Len(text)
    BY <1>2, <2>1
  <2>3. BeganString(text, b, pos + 2, out + 1)
    BY <1>2, <1>3, <2>1, <2>2, StringPair
  <2> QED
    BY <1>1, <1>3, <2>1, <2>3 DEF LexedInv
<1>6. CASE string_end
  <2>1. /\ Emit("string", begun, out) /\ pos' = pos + 1
        /\ pos <= Len(text) /\ text[pos] = "'" /\ (pos < Len(text) => text[pos + 1] # "'")
    BY <1>6 DEF string_end, InString, More, Here, Pair, Next1, Past
  <2>2. pos \in b + 1 .. Len(text)
    BY <1>2, <2>1
  <2>3. TokenAt(text, b) = Token("string", b, pos, out)
    BY <1>2, <1>3, <1>4, <2>1, <2>2, StringEnds
  <2>4. lex_pc' = "skip" /\ Ahead(lexed, toks', LexFrom(text, pos + 1))
    BY <1>2, <1>3, <2>1, <2>3, GivesToken
  <2> QED
    BY <1>1, <2>1, <2>4, LexedSkipping
<1>7. CASE string_character
  <2>1. /\ pos' = pos + 1 /\ out' = out + 1 /\ UNCHANGED <<begun, toks, lex_pc>>
        /\ pos <= Len(text) /\ text[pos] # "'"
    BY <1>7 DEF string_character, InString, More, Here, Past, PastLine
  <2>2. pos \in b + 1 .. Len(text)
    BY <1>2, <2>1
  <2>3. BeganString(text, b, pos + 1, out + 1)
    BY <1>2, <1>3, <2>1, <2>2, StringCharacter
  <2> QED
    BY <1>1, <1>3, <2>1, <2>3 DEF LexedInv
<1>8. CASE string_fails
  <2>1. Emit("error", begun, 0)
    BY <1>8 DEF string_fails
  <2>2. pos <= Len(text) =>
          /\ out + 1 >= StrCap
          /\ \/ text[pos] # "'"
             \/ pos < Len(text) /\ text[pos + 1] = "'"
    BY <1>2, <1>8, StrCapAssumption DEF string_fails, More, Room, Here, Pair, Next1
  <2>3. TokenAt(text, b) = Token("error", b, Len(text), 0)
    BY <1>2, <1>3, <1>4, <2>2, StringBreaks DEF Unreadable
  <2>4. lex_pc' = "end" /\ Ahead(lexed, toks', <<>>)
    BY <1>2, <1>3, <2>1, <2>3, GivesToken
  <2> QED
    BY <1>1, <2>4, LexedEnd
<1> QED
  BY <1>5, <1>6, <1>7, <1>8 DEF decode_string

LEMMA LexedStep == LexInv /\ LexedInv /\ lexer_next => LexedInv'
BY LexedSkip, LexedComment, LexedFirst, LexedWord, LexedDigits, LexedString DEF lexer_next

LEMMA LexedStays == LexedInv /\ UNCHANGED lexer_vars => LexedInv'
BY DEF lexer_vars, LexedInv

LEMMA LexedOff == lexer_off => LexedInv
<1> HAVE lexer_off
<1>1. lex_pc = "end" /\ toks = <<>> /\ lexed = <<>>
  BY DEF lexer_off
<1>2. Ahead(<<>>, <<>>, <<>>)
  BY DEF Ahead, IsSequence
<1> QED
  BY <1>1, <1>2 DEF LexedInv

LEMMA LexedInit == \A s \in Seq(Characters) : lexer_init(s) => LexedInv'
<1> TAKE s \in Seq(Characters)
<1> HAVE lexer_init(s)
<1>1. text' = s /\ pos' = 1 /\ lex_pc' = "skip" /\ toks' = <<>> /\ lexed' = Lex(s)
  BY DEF lexer_init
<1>2. Lex(s) = LexFrom(s, 1)
  BY LexIsLexFrom
<1> DEFINE r == LexFrom(s, 1)
<1>3. IsSequence(r) /\ Len(r) \in Nat
  <2>1. 1 \in 1 .. Len(s) + 1
    OBVIOUS
  <2>2. IsLexed(s, r)
    BY <2>1, LexFromIsLexed
  <2> HIDE DEF r
  <2> QED
    BY <2>2, SequenceOf DEF IsLexed
<1> HIDE DEF r
<1>4. Ahead(r, <<>>, r)
  BY <1>3 DEF Ahead
<1> QED
  BY <1>1, <1>2, <1>4, LexedSkipping DEF r

-----------------------------------------------------------------------------
(* A piece of a text.                                                      *)

\* What is shown of the later positions first is shown of all.
LEMMA Backwards ==
  ASSUME NEW n \in Nat, NEW S,
         \A q \in 1 .. n : (\A p \in q + 1 .. n : p \in S) => q \in S
  PROVE  \A q \in 1 .. n : q \in S
<1> SUFFICES ASSUME NEW r \in 1 .. n, r \notin S
             PROVE  FALSE
  OBVIOUS
<1> DEFINE Bad == {k \in Nat : \E q \in 1 .. n : k = n - q /\ q \notin S}
<1>1. n - r \in Bad
  OBVIOUS
<1>2. Bad \in SUBSET Nat
  OBVIOUS
<1>3. PICK k \in Bad : \A x \in Bad : k <= x
  BY <1>1, <1>2, LeastNat
<1>4. PICK q \in 1 .. n : k = n - q /\ q \notin S
  BY <1>3
<1>5. ASSUME NEW p \in q + 1 .. n
      PROVE  p \in S
  <2>1. p \notin S => n - p \in Bad
    OBVIOUS
  <2> QED
    BY <1>3, <1>4, <2>1
<1> QED
  BY <1>4, <1>5

\* u is the piece of s that starts after d characters.
Within(u, s, d) ==
  /\ u \in Seq(Characters) /\ s \in Seq(Characters)
  /\ Len(u) \in Nat /\ Len(s) \in Nat /\ d + Len(u) <= Len(s)
  /\ \A j \in 1 .. Len(u) : u[j] = s[j + d]

LEMMA QuotesWithin ==
  ASSUME NEW u, NEW s, NEW d \in Nat, Within(u, s, d),
         NEW x \in Nat \ {0}, NEW y \in Int, y <= Len(u)
  PROVE  Cardinality(Quotes(u, x, y)) = Cardinality(Quotes(s, x + d, y + d))
<1> DEFINE A == Quotes(u, x, y)
           B == Quotes(s, x + d, y + d)
           f == [j \in A |-> j + d]
<1>1. IsFiniteSet(A) /\ IsFiniteSet(B)
  <2>1. x \in Nat /\ x + d \in Nat /\ y + d \in Int
    OBVIOUS
  <2> QED
    BY <2>1, QuotesFinite
<1>2. \A j \in x .. y : u[j] = s[j + d]
  BY DEF Within
<1>3. \A j \in A : j + d \in B
  BY <1>2 DEF Quotes
<1>4. \A k \in B : k - d \in A /\ (k - d) + d = k
  <2> SUFFICES ASSUME NEW k \in B
               PROVE  k - d \in A /\ (k - d) + d = k
    OBVIOUS
  <2>1. k \in Int /\ k - d \in x .. y /\ (k - d) + d = k /\ s[k] = "'"
    BY DEF Quotes
  <2>2. u[k - d] = "'"
    BY <1>2, <2>1
  <2> QED
    BY <2>1, <2>2 DEF Quotes
<1>5. \A j \in A, k \in A : j + d = k + d => j = k
  BY DEF Quotes
<1> HIDE DEF A, B
<1>6. f \in Bijection(A, B)
  <2>1. f \in [A -> B]
    BY <1>3
  <2>2. \A j \in A, k \in A : f[j] = f[k] => j = k
    BY <1>5
  <2>3. \A k \in B : \E j \in A : f[j] = k
    BY <1>4
  <2> QED
    BY <2>1, <2>2, <2>3 DEF Bijection, Injection, Surjection, IsInjective
<1>7. ExistsBijection(A, B)
  BY <1>6 DEF ExistsBijection
<1>8. Cardinality(A) = Cardinality(B)
  BY <1>1, <1>7, FS_Bijection, FS_SameCardinalityBij
<1> QED
  BY <1>8 DEF A, B

\* No quotes, no number of them.
LEMMA NoQuotes ==
  ASSUME NEW s, NEW p \in Nat, NEW q \in Int, \A x \in p .. q : s[x] # "'"
  PROVE  Cardinality(Quotes(s, p, q)) = 0
<1>1. Quotes(s, p, q) = {}
  BY DEF Quotes
<1> QED
  BY <1>1, FS_EmptySet

\* After a string was opened at p, and with an even number of quotes from there
\* to z, the string is closed before z.
LEMMA ClosesBefore ==
  ASSUME NEW s, Len(s) \in Nat, NEW p \in 1 .. Len(s), NEW z \in p + 1 .. Len(s),
         s[p] = "'", s[z] # "'", Cardinality(Quotes(s, p, z - 1)) % 2 = 0
  PROVE  \E x \in ClosingQuotes(s, p) : x < z
<1> DEFINE S == Quotes(s, p + 1, z - 1)
<1>1. IsFiniteSet(S) /\ Cardinality(S) \in Nat /\ S \subseteq p + 1 .. z - 1
  <2>1. p + 1 \in Nat /\ z - 1 \in Int
    OBVIOUS
  <2> QED
    BY <2>1, QuotesFinite
<1>2. Cardinality(Quotes(s, p, z - 1)) = 1 + Cardinality(S)
  <2>1. PICK y \in Nat, w \in Nat : y = p + 1 /\ w = z - 1 /\ p <= y /\ y <= w + 1 /\ p \in Nat
    <3>1. p + 1 \in Nat /\ z - 1 \in Nat /\ p <= p + 1 /\ p + 1 <= (z - 1) + 1 /\ p \in Nat
      OBVIOUS
    <3> QED
      BY <3>1
  <2>2. Cardinality(Quotes(s, p, w)) = Cardinality(Quotes(s, p, y - 1)) + Cardinality(Quotes(s, y, w))
    <3>1. p \in Nat /\ y \in Nat /\ w \in Nat /\ p <= y /\ y <= w + 1
      BY <2>1
    <3> QED
      BY <3>1, QuotesJoin
  <2>3. y - 1 = p
    BY <2>1
  <2>4. Cardinality(Quotes(s, p, p)) = 1
    BY <2>1, OneQuote
  <2> QED
    BY <2>1, <2>2, <2>3, <2>4
<1>3. Cardinality(S) % 2 = 1
  BY <1>1, <1>2
<1>4. S # {}
  <2>1. Cardinality({}) = 0
    BY FS_EmptySet
  <2>2. 0 % 2 = 0
    OBVIOUS
  <2> HIDE DEF S
  <2>3. S = {} => Cardinality(S) = 0
    BY <2>1
  <2> QED
    BY <1>3, <2>2, <2>3
<1>5. S \in SUBSET (0 .. Len(s))
  BY <1>1
<1> HIDE DEF S
<1>6. PICK r \in S : \A y \in S : r >= y
  BY <1>4, <1>5, MaxIsGreatest
<1>7. r \in p + 1 .. z - 1 /\ s[r] = "'"
  BY <1>1, <1>6 DEF S, Quotes
<1>8. Quotes(s, p + 1, r) = S
  <2>1. \A x \in S : x \in Quotes(s, p + 1, r)
    BY <1>1, <1>6, <1>7 DEF S, Quotes
  <2>2. \A x \in Quotes(s, p + 1, r) : x \in S
    BY <1>7 DEF S, Quotes
  <2> QED
    BY <2>1, <2>2
<1>9. s[r + 1] # "'"
  <2>1. CASE r + 1 = z
    BY <2>1
  <2>2. CASE r + 1 # z
    <3>1. r + 1 \in p + 1 .. z - 1 /\ r + 1 \notin S
      BY <1>6, <1>7, <2>2
    <3> QED
      BY <3>1 DEF S, Quotes
  <2> QED
    BY <2>1, <2>2
<1>10. r \in ClosingQuotes(s, p)
  <2>1. r \in Quotes(s, p + 1, Len(s))
    BY <1>7 DEF Quotes
  <2>2. Cardinality(Quotes(s, p + 1, r)) % 2 = 1
    BY <1>3, <1>8
  <2> QED
    BY <1>9, <2>1, <2>2 DEF ClosingQuotes
<1> QED
  BY <1>7, <1>10
\* No token goes on past the end of the piece: it ends with a `;', or what
\* follows is white space.
EndsWell(u, s, d) ==
  LET z == d + Len(u) IN u # <<>> /\ z < Len(s) => s[z] = ";" \/ s[z + 1] \in Space

LEMMA FindWithin ==
  ASSUME NEW u, NEW s, NEW d \in Nat, Within(u, s, d), NEW v \in 1 .. Len(u) + 1, NEW c
  PROVE  /\ Find(s, v + d, c) <= Len(u) + d => Find(u, v, c) = Find(s, v + d, c) - d
         /\ Find(s, v + d, c) > Len(u) + d => Find(u, v, c) = Len(u) + 1
<1>1. /\ Len(u) \in Nat /\ Len(s) \in Nat /\ d + Len(u) <= Len(s)
      /\ \A j \in 1 .. Len(u) : u[j] = s[j + d]
  BY DEF Within
<1>2. v + d \in 1 .. Len(s) + 1
  BY <1>1
<1> DEFINE a == Find(u, v, c)
           b == Find(s, v + d, c)
<1>3. /\ a \in v .. Len(u) + 1 /\ (a <= Len(u) => u[a] = c)
      /\ \A x \in v .. Len(u) : u[x] = c => a <= x
  BY <1>1, FindIs
<1>4. /\ b \in v + d .. Len(s) + 1 /\ (b <= Len(s) => s[b] = c)
      /\ \A x \in v + d .. Len(s) : s[x] = c => b <= x
  BY <1>1, <1>2, FindIs
<1> HIDE DEF a, b
<1>5. ASSUME b <= Len(u) + d
      PROVE  a = b - d
  <2>1. b - d \in v .. Len(u) /\ (b - d) + d = b /\ s[b] = c
    BY <1>1, <1>4, <1>5
  <2>2. u[b - d] = c
    BY <1>1, <2>1
  <2>3. a <= b - d /\ a \in 1 .. Len(u)
    BY <1>1, <1>3, <2>1, <2>2
  <2>4. u[a] = s[a + d] /\ u[a] = c /\ a + d \in v + d .. Len(s)
    BY <1>1, <1>3, <2>3
  <2>5. b <= a + d
    BY <1>4, <2>4
  <2> QED
    BY <1>1, <1>3, <1>4, <2>3, <2>5
<1>6. ASSUME b > Len(u) + d
      PROVE  a = Len(u) + 1
  <2>1. ASSUME a <= Len(u)
        PROVE  FALSE
    <3>1. u[a] = s[a + d] /\ u[a] = c /\ a + d \in v + d .. Len(s)
      BY <1>1, <1>3, <2>1
    <3>2. b <= a + d
      BY <1>4, <3>1
    <3> QED
      BY <1>1, <1>3, <1>4, <1>6, <2>1, <3>2
  <2> QED
    BY <1>1, <1>3, <2>1
<1> QED
  BY <1>5, <1>6 DEF a, b

\* White space and comments before a token of the piece are those before it in
\* the text.
LEMMA StartWithin ==
  ASSUME NEW u, NEW s, NEW d \in Nat, Within(u, s, d), EndsWell(u, s, d)
  PROVE  \A v \in 1 .. Len(u) + 1 :
           /\ TokenStart(s, v + d) <= Len(u) + d => TokenStart(u, v) = TokenStart(s, v + d) - d
           /\ TokenStart(s, v + d) > Len(u) + d => TokenStart(u, v) = Len(u) + 1
<1> DEFINE Good(v) == /\ TokenStart(s, v + d) <= Len(u) + d => TokenStart(u, v) = TokenStart(s, v + d) - d
                      /\ TokenStart(s, v + d) > Len(u) + d => TokenStart(u, v) = Len(u) + 1
           S == {v \in 1 .. Len(u) + 1 : Good(v)}
<1>1. /\ Len(u) \in Nat /\ Len(s) \in Nat /\ d + Len(u) <= Len(s)
      /\ \A j \in 1 .. Len(u) : u[j] = s[j + d]
  BY DEF Within
<1> HIDE DEF Good
<1>2. ASSUME NEW v \in 1 .. Len(u) + 1, \A w \in v + 1 .. Len(u) + 1 : Good(w)
      PROVE  Good(v)
  <2>1. v + d \in 1 .. Len(s) + 1
    BY <1>1
  <2>2. CASE v = Len(u) + 1
    <3>1. TokenStart(s, v + d) >= v + d /\ TokenStart(s, v + d) \in Nat
      BY <1>1, <2>1, TokenStarts
    <3>2. TokenStart(u, v) = Len(u) + 1
      BY <1>1, <2>2, TokenStarts
    <3>3. TokenStart(s, v + d) > Len(u) + d
      BY <1>1, <2>2, <3>1
    <3> QED
      BY <1>1, <3>1, <3>2, <3>3 DEF Good
  <2>3. ASSUME v <= Len(u)
        PROVE  Good(v)
    <3>1. v \in 1 .. Len(u) /\ u[v] = s[v + d] /\ v + d <= Len(s) /\ v + 1 \in v + 1 .. Len(u) + 1
      BY <1>1, <2>3
    <3>2. CommentAt(s, v + d) <=> CommentAt(u, v)
      <4>1. CASE v < Len(u)
        <5>1. u[v + 1] = s[(v + d) + 1] /\ v + d < Len(s)
          <6>1. u[v + 1] = s[(v + 1) + d] /\ (v + 1) + d = (v + d) + 1
            BY <1>1, <4>1
          <6> QED
            BY <1>1, <4>1, <6>1
        <5> QED
          BY <3>1, <4>1, <5>1 DEF CommentAt
      <4>2. CASE v = Len(u)
        <5>1. ~CommentAt(u, v)
          BY <1>1, <4>2 DEF CommentAt
        <5>2. ~CommentAt(s, v + d)
          <6> SUFFICES ASSUME v + d < Len(s)
                       PROVE  s[v + d] # "-" \/ s[(v + d) + 1] # "-"
            BY DEF CommentAt
          <6>1. u # <<>> /\ d + Len(u) = v + d
            BY <1>1, <3>1, <4>2
          <6>2. s[v + d] = ";" \/ s[(v + d) + 1] \in Space
            BY <6>1 DEF EndsWell
          <6> QED
            BY <6>2 DEF Space
        <5> QED
          BY <5>1, <5>2
      <4> QED
        BY <3>1, <4>1, <4>2
    <3>3. CASE s[v + d] \in Space
      <4>1. TokenStart(s, v + d) = TokenStart(s, (v + d) + 1)
        BY <1>1, <2>1, <3>1, <3>3, TokenStartIs
      <4>2. TokenStart(u, v) = TokenStart(u, v + 1)
        BY <1>1, <3>1, <3>3, TokenStartIs
      <4>3. Good(v + 1) /\ (v + 1) + d = (v + d) + 1
        BY <1>1, <1>2, <3>1
      <4> QED
        BY <4>1, <4>2, <4>3 DEF Good
    <3>4. CASE s[v + d] \notin Space /\ CommentAt(s, v + d)
      <4> DEFINE a == Find(u, v, "nl")
                 b == Find(s, v + d, "nl")
      <4>1. TokenStart(s, v + d) = TokenStart(s, b) /\ b \in (v + d) + 2 .. Len(s) + 1
        BY <1>1, <2>1, <3>1, <3>4, TokenStartIs, CommentGoesOn
      <4>2. TokenStart(u, v) = TokenStart(u, a) /\ a \in v + 2 .. Len(u) + 1
        BY <1>1, <3>1, <3>2, <3>4, TokenStartIs, CommentGoesOn
      <4>3. (b <= Len(u) + d => a = b - d) /\ (b > Len(u) + d => a = Len(u) + 1)
        BY FindWithin
      <4> HIDE DEF a, b
      <4>4. CASE b <= Len(u) + d
        <5>1. a \in v + 1 .. Len(u) + 1 /\ a + d = b
          BY <1>1, <4>1, <4>2, <4>3, <4>4
        <5>2. Good(a)
          BY <1>2, <5>1
        <5> QED
          BY <4>1, <4>2, <5>1, <5>2 DEF Good
      <4>5. CASE b > Len(u) + d
        <5>1. b \in 1 .. Len(s) + 1 /\ a = Len(u) + 1 /\ a \in 1 .. Len(u) + 1
          BY <1>1, <4>1, <4>3, <4>5
        <5>2. TokenStart(s, b) >= b /\ TokenStart(s, b) \in Nat
          BY <1>1, <5>1, TokenStarts
        <5>3. TokenStart(u, a) = Len(u) + 1
          BY <1>1, <5>1, TokenStarts, SMTT(30)
        <5>4. TokenStart(s, v + d) > Len(u) + d
          BY <1>1, <4>1, <4>5, <5>1, <5>2
        <5> QED
          BY <1>1, <4>1, <4>2, <5>2, <5>3, <5>4 DEF Good
      <4> QED
        BY <1>1, <4>1, <4>4, <4>5
    <3>5. CASE s[v + d] \notin Space /\ ~CommentAt(s, v + d)
      <4>1. TokenStart(s, v + d) = v + d
        BY <1>1, <2>1, <3>1, <3>5, TokenStartIs
      <4>2. TokenStart(u, v) = v
        BY <1>1, <3>1, <3>2, <3>5, TokenStartIs
      <4> QED
        BY <1>1, <3>1, <4>1, <4>2 DEF Good
    <3> QED
      BY <3>3, <3>4, <3>5
  <2> QED
    BY <1>1, <2>2, <2>3
<1>3. \A v \in 1 .. Len(u) + 1 : v \in S
  <2>1. PICK n \in Nat : n = Len(u) + 1
    BY <1>1
  <2>2. \A v \in 1 .. n : (\A w \in v + 1 .. n : w \in S) => v \in S
    BY <1>2, <2>1
  <2> HIDE DEF S
  <2>3. \A v \in 1 .. n : v \in S
    BY <2>2, Backwards
  <2> QED
    BY <2>1, <2>3
<1> QED
  BY <1>3 DEF Good

\* A `;', a character or a token; hidden from the provers, which do arithmetic
\* badly among strings.
Semi(c) == c = ";"

\* The token at v of the piece is that of the text, there; it has pairs of
\* quotes only, and is a `;' if its first or its last character is one.
SameToken(u, s, d, v) ==
  LET x == TokenAt(u, v)
      y == TokenAt(s, v + d) IN
  /\ x.kind = y.kind
  /\ y.kind # "error" => /\ y.to = x.to + d
                         /\ Cardinality(Quotes(s, v + d, y.to)) % 2 = 0
                         /\ Semi(s[y.to]) => Semi(s[v + d])
  /\ Semi(y.kind) <=> Semi(s[v + d])

\* Classes of characters that end at a `;' and at white space.
Inner(C) == ";" \notin C /\ C \cap Space = {}

\* From w on, the characters of C end at the same place in the piece and the text.
EndTogether(u, s, d, C, w) ==
  \E q \in w .. Len(u) + 1 :
    /\ \A x \in w .. q - 1 : u[x] \in C
    /\ \A x \in w + d .. (q + d) - 1 : s[x] \in C
    /\ q <= Len(u) => u[q] \notin C
    /\ q + d <= Len(s) => s[q + d] \notin C

\* Characters of a class that has neither white space nor `;' do not go on past
\* the end of the piece.
LEMMA PastAllWithin ==
  ASSUME NEW u, NEW s, NEW d \in Nat, Within(u, s, d), EndsWell(u, s, d),
         NEW C, Inner(C), NEW v \in 1 .. Len(u), ~Semi(s[v + d]), NEW w \in v .. v + 1
  PROVE  EndTogether(u, s, d, C, w)
<1>1. /\ Len(u) \in Nat /\ Len(s) \in Nat /\ d + Len(u) <= Len(s)
      /\ \A j \in 1 .. Len(u) : u[j] = s[j + d]
  BY DEF Within
<1> DEFINE q == PastAll(u, w, C)
<1>2. w \in 1 .. Len(u) + 1
  BY <1>1
<1>3. /\ q \in w .. Len(u) + 1 /\ (q <= Len(u) => u[q] \notin C)
      /\ \A x \in w .. Len(u) : u[x] \notin C => q <= x
  BY <1>1, <1>2, PastAllIs
<1> HIDE DEF q
<1>4. \A x \in w .. q - 1 : u[x] \in C
  BY <1>1, <1>3
<1>5. ASSUME NEW x \in w + d .. (q + d) - 1
      PROVE  s[x] \in C
  <2>1. x - d \in w .. q - 1 /\ (x - d) + d = x /\ x - d \in 1 .. Len(u)
    BY <1>1, <1>2, <1>3
  <2>2. PICK y \in 1 .. Len(u) : y \in w .. q - 1 /\ y + d = x
    BY <2>1
  <2> QED
    BY <1>1, <1>4, <2>2
<1>6. ASSUME q + d <= Len(s)
      PROVE  s[q + d] \notin C
  <2>1. CASE q <= Len(u)
    BY <1>1, <1>2, <1>3, <2>1
  <2>2. CASE q = Len(u) + 1
    <3>1. PICK z \in Nat : z = d + Len(u)
      BY <1>1
    <3>2. u # <<>> /\ z < Len(s) /\ q + d = z + 1
      BY <1>1, <1>6, <2>2, <3>1
    <3>3. Semi(s[z]) \/ s[z + 1] \in Space
      BY <3>1, <3>2 DEF EndsWell, Semi
    <3>4. CASE s[z + 1] \in Space
      BY <3>2, <3>4 DEF Inner
    <3>5. CASE Semi(s[z])
      <4>1. CASE w <= Len(u)
        <5>1. z \in w + d .. (q + d) - 1
          BY <1>1, <2>2, <3>1, <4>1
        <5> QED
          BY <1>5, <3>5, <5>1 DEF Semi, Inner
      <4>2. CASE w > Len(u)
        <5>1. v + d = z
          BY <1>1, <3>1, <4>2
        <5> QED
          BY <3>5, <5>1
      <4> QED
        BY <1>1, <4>1, <4>2
    <3> QED
      BY <3>3, <3>4, <3>5
  <2>3. q \in w .. Len(u) + 1 /\ w \in 1 .. Len(u) + 1 /\ Len(u) \in Nat
    BY <1>1, <1>2, <1>3
  <2>4. q <= Len(u) \/ q = Len(u) + 1
    BY <2>3
  <2> QED
    BY <2>1, <2>2, <2>4
<1> QED
  BY <1>3, <1>4, <1>5, <1>6 DEF EndTogether

LEMMA ClassesApart ==
  /\ Inner(Words \cup {"int"}) /\ Inner({"int"})
  /\ "'" \notin Words \cup {"int", "+", "-"} \cup Punctuation
  /\ ";" \in Punctuation /\ ";" \notin {"int", "+", "-", "name", "string", "error"}
BY DEF Words, Keywords, Identifiers, Punctuation, Space, Inner

\* Two tokens with the same kind, one d characters after the other.
LEMMA SameTokens ==
  ASSUME NEW u, NEW s, NEW d \in Nat, NEW v \in Nat, NEW q \in Nat,
         NEW k, NEW m, NEW n,
         TokenAt(u, v) = Token(k, v, q, m), TokenAt(s, v + d) = Token(k, v + d, q + d, n),
         Cardinality(Quotes(s, v + d, q + d)) % 2 = 0, Semi(k) <=> Semi(s[v + d]),
         Semi(s[q + d]) => Semi(s[v + d])
  PROVE  SameToken(u, s, d, v)
<1>1. /\ TokenAt(u, v).kind = k /\ TokenAt(u, v).to = q
      /\ TokenAt(s, v + d).kind = k /\ TokenAt(s, v + d).to = q + d
  BY TokenFields
<1> QED
  BY <1>1 DEF SameToken

LEMMA ZeroIsEven == 0 % 2 = 0
OBVIOUS

LEMMA WordWithin ==
  ASSUME NEW u, NEW s, NEW d \in Nat, Within(u, s, d), EndsWell(u, s, d),
         NEW v \in 1 .. Len(u), s[v + d] \in Words
  PROVE  SameToken(u, s, d, v)
<1>1. /\ Len(u) \in Nat /\ Len(s) \in Nat /\ d + Len(u) <= Len(s)
      /\ \A j \in 1 .. Len(u) : u[j] = s[j + d]
  BY DEF Within
<1> DEFINE C == Words \cup {"int"}
<1>2. Inner(C)
  BY ClassesApart
<1>3. s[v + d] \in C /\ ~Semi(s[v + d])
  BY <1>2 DEF Semi, Inner
<1>12. v \in v .. v + 1
  OBVIOUS
<1> HIDE DEF C
<1>4. PICK q \in v .. Len(u) + 1 :
           /\ \A x \in v .. q - 1 : u[x] \in C
           /\ \A x \in v + d .. (q + d) - 1 : s[x] \in C
           /\ q <= Len(u) => u[q] \notin C
           /\ q + d <= Len(s) => s[q + d] \notin C
  <2>1. EndTogether(u, s, d, C, v)
    BY <1>2, <1>3, <1>12, PastAllWithin
  <2> QED
    BY <2>1 DEF EndTogether
<1>5. u[v] = s[v + d] /\ q # v
  BY <1>1, <1>3, <1>4
<1>6. q \in v + 1 .. Len(u) + 1 /\ q + d \in (v + d) + 1 .. Len(s) + 1 /\ v + d \in 1 .. Len(s)
  BY <1>1, <1>4, <1>5
<1> DEFINE k == IF q - v = 1 THEN u[v] ELSE "name"
<1>7. TokenAt(u, v) = Token(k, v, q - 1, q - v)
  <2>1. u[v] \in Words
    BY <1>5
  <2> QED
    BY <1>1, <1>4, <1>6, <2>1, WordToken DEF C
<1>8. TokenAt(s, v + d) = Token(k, v + d, (q - 1) + d, q - v)
  <2>0. PICK a \in 1 .. Len(s) : a = v + d
    BY <1>6
  <2>1. PICK b \in a + 1 .. Len(s) + 1 : a = v + d /\ b = q + d
    BY <1>6, <2>0
  <2>2. TokenAt(s, a) = Token(IF b - a = 1 THEN s[a] ELSE "name", a, b - 1, b - a)
    BY <1>1, <1>4, <2>1, WordToken DEF C
  <2>3. b - a = q - v /\ b - 1 = (q - 1) + d
    BY <1>1, <1>6, <2>1
  <2> QED
    BY <1>5, <2>1, <2>2, <2>3
<1>9. Cardinality(Quotes(s, v + d, (q - 1) + d)) % 2 = 0
  <2>1. PICK a \in Nat, b \in Int : a = v + d /\ b = (q + d) - 1 /\ b = (q - 1) + d
    BY <1>1, <1>6
  <2>2. \A x \in a .. b : s[x] \in C
    BY <1>4, <2>1
  <2>3. "'" \notin C
    BY ClassesApart DEF C
  <2> QED
    BY <2>1, <2>2, <2>3, NoQuotes, ZeroIsEven
<1>10. ~Semi(k)
  BY <1>3, <1>5, ClassesApart DEF Semi
<1>11. q - 1 \in Nat /\ v \in Nat
  BY <1>6
<1>13. ~Semi(s[(q - 1) + d])
  <2>1. (q - 1) + d \in v + d .. (q + d) - 1
    BY <1>1, <1>6
  <2>2. s[(q - 1) + d] \in C
    BY <1>4, <2>1
  <2> QED
    BY <1>2, <2>2 DEF Semi, Inner
<1> HIDE DEF k
<1> QED
  BY <1>13, <1>3, <1>7, <1>8, <1>9, <1>10, <1>11, SameTokens

Digit == {"int"}
Signs == {"+", "-"}

\* NumberToken and MarkToken without their strings.
LEMMA DigitsToken ==
  ASSUME NEW s, Len(s) \in Nat, NEW p \in 1 .. Len(s), NEW q \in p + 1 .. Len(s) + 1,
         s[p] \in Digit \/ (s[p] \in Signs /\ q > p + 1),
         \A x \in p + 1 .. q - 1 : s[x] \in Digit, q <= Len(s) => s[q] \notin Digit
  PROVE  TokenAt(s, p) = Token("int", p, q - 1, q - p)
<1>1. s[p] = "int" \/ (s[p] \in {"+", "-"} /\ q > p + 1)
  BY DEF Digit, Signs
<1>2. \A x \in p + 1 .. q - 1 : s[x] = "int"
  BY DEF Digit
<1>3. q <= Len(s) => s[q] # "int"
  BY DEF Digit
<1> QED
  BY <1>1, <1>2, <1>3, NumberToken

LEMMA SignToken ==
  ASSUME NEW s, Len(s) \in Nat, NEW p \in 1 .. Len(s), s[p] \in Signs,
         ~(p < Len(s) /\ s[p + 1] \in Digit)
  PROVE  TokenAt(s, p) = Token(s[p], p, p, 1)
BY MarkToken DEF Signs, Digit

LEMMA DigitsAre ==
  /\ Inner(Digit) /\ "'" \notin Digit \cup Signs
  /\ \A c \in Digit \cup Signs : ~Semi(c)
  /\ ~Semi("int")
BY DEF Inner, Digit, Signs, Semi, Space

LEMMA NumberWithin ==
  ASSUME NEW u, NEW s, NEW d \in Nat, Within(u, s, d), EndsWell(u, s, d),
         NEW v \in 1 .. Len(u), s[v + d] \in Digit \cup Signs
  PROVE  SameToken(u, s, d, v)
<1>1. /\ Len(u) \in Nat /\ Len(s) \in Nat /\ d + Len(u) <= Len(s)
      /\ \A j \in 1 .. Len(u) : u[j] = s[j + d]
  BY DEF Within
<1>2. Inner(Digit) /\ ~Semi(s[v + d]) /\ s[v + d] # "'"
  BY DigitsAre
<1>3. v + 1 \in v .. v + 1 /\ v \in Nat
  OBVIOUS
<1>4. PICK q \in v + 1 .. Len(u) + 1 :
           /\ \A x \in v + 1 .. q - 1 : u[x] \in Digit
           /\ \A x \in (v + 1) + d .. (q + d) - 1 : s[x] \in Digit
           /\ q <= Len(u) => u[q] \notin Digit
           /\ q + d <= Len(s) => s[q + d] \notin Digit
  <2>1. PICK w \in v .. v + 1 : w = v + 1
    BY <1>3
  <2>2. EndTogether(u, s, d, Digit, w)
    <3>1. Inner(Digit) /\ ~Semi(s[v + d])
      BY <1>2
    <3> QED
      BY <3>1, PastAllWithin
  <2> QED
    BY <2>1, <2>2 DEF EndTogether
<1>5. PICK a \in 1 .. Len(s) : a = v + d
  BY <1>1
<1>6. PICK b \in a + 1 .. Len(s) + 1 : b = q + d
  BY <1>1, <1>4, <1>5
<1>7. /\ \A x \in a + 1 .. b - 1 : s[x] \in Digit
      /\ b <= Len(s) => s[b] \notin Digit
      /\ u[v] = s[a]
  BY <1>1, <1>4, <1>5, <1>6
<1>8. Cardinality(Quotes(s, a, b - 1)) % 2 = 0
  <2>1. \A x \in a .. b - 1 : x = a \/ x \in a + 1 .. b - 1
    BY <1>5, <1>6
  <2>2. \A x \in a .. b - 1 : s[x] \in Digit \cup Signs
    BY <1>5, <1>7, <2>1
  <2>3. \A x \in a .. b - 1 : s[x] # "'"
    BY <2>2, DigitsAre
  <2>4. a \in Nat /\ b - 1 \in Int
    BY <1>5, <1>6
  <2> QED
    BY <2>3, <2>4, NoQuotes, ZeroIsEven
<1>9. q - 1 \in Nat /\ b - 1 = (q - 1) + d /\ b - a = q - v
  BY <1>1, <1>3, <1>4, <1>5, <1>6
<1>10. CASE s[a] \in Digit \/ q > v + 1
  <2>1. /\ s[a] \in Digit \/ (s[a] \in Signs /\ b > a + 1)
        /\ s[a] \in Digit \/ (s[a] \in Signs /\ q > v + 1)
    <3>1. q > v + 1 => b > a + 1
      BY <1>1, <1>3, <1>4, <1>5, <1>6
    <3> QED
      BY <1>5, <1>10, <3>1
  <2>2. TokenAt(s, a) = Token("int", a, b - 1, b - a)
    BY <1>1, <1>7, <2>1, DigitsToken
  <2>3. TokenAt(u, v) = Token("int", v, q - 1, q - v)
    BY <1>1, <1>4, <1>7, <2>1, DigitsToken
  <2>4. PICK k : k = "int"
    OBVIOUS
  <2>5. ~Semi(k)
    BY <2>4, DigitsAre
  <2>6. /\ TokenAt(u, v) = Token(k, v, q - 1, q - v)
        /\ TokenAt(s, v + d) = Token(k, v + d, (q - 1) + d, q - v)
    BY <1>5, <1>9, <2>2, <2>3, <2>4
  <2>7. Cardinality(Quotes(s, v + d, (q - 1) + d)) % 2 = 0
    BY <1>5, <1>8, <1>9
  <2>8. ~Semi(s[(q - 1) + d])
    <3>1. b - 1 = a \/ b - 1 \in a + 1 .. b - 1
      BY <1>5, <1>6
    <3>2. s[b - 1] \in Digit \cup Signs
      BY <1>5, <1>7, <3>1
    <3> QED
      BY <1>9, <3>2, DigitsAre
  <2> QED
    BY <1>2, <1>3, <1>9, <2>5, <2>6, <2>7, <2>8, SameTokens
<1>11. CASE s[a] \notin Digit /\ q = v + 1
  <2>1. ~(v < Len(u) /\ u[v + 1] \in Digit) /\ ~(a < Len(s) /\ s[a + 1] \in Digit)
    <3>1. b = a + 1
      BY <1>1, <1>3, <1>5, <1>6, <1>11
    <3>2. (q <= Len(u) <=> v < Len(u)) /\ (b <= Len(s) <=> a < Len(s))
      BY <1>1, <1>3, <1>5, <1>11, <3>1
    <3> QED
      BY <1>4, <1>7, <1>11, <3>1, <3>2
  <2>2. s[a] \in Signs /\ u[v] \in Signs
    BY <1>5, <1>7, <1>11
  <2>3. TokenAt(s, a) = Token(s[a], a, a, 1)
    BY <1>1, <2>1, <2>2, SignToken
  <2>4. TokenAt(u, v) = Token(u[v], v, v, 1)
    BY <1>1, <2>1, <2>2, SignToken
  <2>5. PICK k : k = u[v]
    OBVIOUS
  <2>6. TokenAt(u, v) = Token(k, v, v, 1) /\ TokenAt(s, v + d) = Token(k, v + d, v + d, 1)
    BY <1>5, <1>7, <2>3, <2>4, <2>5
  <2>7. Cardinality(Quotes(s, v + d, v + d)) % 2 = 0
    <3>1. b - 1 = a
      BY <1>1, <1>3, <1>5, <1>6, <1>11
    <3> QED
      BY <1>5, <1>8, <3>1
  <2>8. ~Semi(k)
    BY <1>2, <1>5, <1>7, <2>5
  <2> QED
    BY <1>2, <1>3, <2>6, <2>7, <2>8, SameTokens
<1>12. q > v + 1 \/ q = v + 1
  BY <1>1, <1>3, <1>4
<1> QED
  BY <1>10, <1>11, <1>12

LEMMA MarkWithin ==
  ASSUME NEW u, NEW s, NEW d \in Nat, Within(u, s, d),
         NEW v \in 1 .. Len(u), s[v + d] \in Punctuation
  PROVE  SameToken(u, s, d, v) /\ TokenAt(s, v + d).to = v + d
<1>1. /\ Len(u) \in Nat /\ Len(s) \in Nat /\ d + Len(u) <= Len(s)
      /\ \A j \in 1 .. Len(u) : u[j] = s[j + d]
  BY DEF Within
<1>2. PICK a \in 1 .. Len(s) : a = v + d
  BY <1>1
<1>3. u[v] = s[a] /\ v \in Nat
  BY <1>1, <1>2
<1>4. TokenAt(s, a) = Token(s[a], a, a, 1)
  BY <1>1, <1>2, MarkToken
<1>5. TokenAt(u, v) = Token(u[v], v, v, 1)
  BY <1>1, <1>2, <1>3, MarkToken
<1>6. Cardinality(Quotes(s, a, a)) % 2 = 0
  <2>1. s[a] # "'"
    BY <1>2, ClassesApart
  <2>2. \A x \in a .. a : s[x] # "'"
    BY <2>1
  <2>3. a \in Nat /\ a \in Int
    BY <1>2
  <2> QED
    BY <2>2, <2>3, NoQuotes, ZeroIsEven
<1>7. PICK k : k = u[v]
  OBVIOUS
<1>8. SameToken(u, s, d, v)
  BY <1>2, <1>3, <1>4, <1>5, <1>6, <1>7, SameTokens
<1> QED
  BY <1>2, <1>4, <1>8, TokenFields

\* What is no token is none in the piece either.
LEMMA NoneWithin ==
  ASSUME NEW u, NEW s, NEW d \in Nat, Within(u, s, d),
         NEW v \in 1 .. Len(u), s[v + d] \in Foreign
  PROVE  SameToken(u, s, d, v)
<1>1. u[v] = s[v + d]
  BY DEF Within
<1>2. TokenAt(u, v) = Unreadable(u, v) /\ TokenAt(s, v + d) = Unreadable(s, v + d)
  BY <1>1, NoToken
<1>3. TokenAt(u, v).kind = "error" /\ TokenAt(s, v + d).kind = "error"
  BY <1>2, TokenFields DEF Unreadable
<1>4. ~Semi("error") /\ ~Semi(s[v + d])
  BY DEF Semi, Foreign
<1> QED
  BY <1>3, <1>4 DEF SameToken
\* A string opened at q ends in the piece if it ends: only white space follows
\* the piece, or its last character is a `;' with pairs of quotes before it.
Shut(u, s, d, q) ==
  LET z == d + Len(u) IN
  \/ \A x \in z + 1 .. Len(s) : s[x] \in Space
  \/ Semi(s[z]) /\ Cardinality(Quotes(s, q, z - 1)) % 2 = 0

Quote(c) == c = "'"

LEMMA ClosingIs ==
  ASSUME NEW s, NEW p, NEW q
  PROVE  q \in ClosingQuotes(s, p) <=>
           /\ q \in p + 1 .. Len(s) /\ Quote(s[q])
           /\ Cardinality(Quotes(s, p + 1, q)) % 2 = 1
           /\ q < Len(s) => ~Quote(s[q + 1])
BY DEF ClosingQuotes, Quotes, Quote

LEMMA ClosingWithin ==
  ASSUME NEW u, NEW s, NEW d \in Nat, Within(u, s, d), EndsWell(u, s, d),
         NEW v \in 1 .. Len(u), NEW w \in v + 1 .. Len(u)
  PROVE  w \in ClosingQuotes(u, v) <=> w + d \in ClosingQuotes(s, v + d)
<1>1. /\ Len(u) \in Nat /\ Len(s) \in Nat /\ d + Len(u) <= Len(s)
      /\ \A j \in 1 .. Len(u) : u[j] = s[j + d]
  BY DEF Within
<1>2. PICK a \in 1 .. Len(s) : a = v + d
  BY <1>1
<1>3. PICK b \in a + 1 .. Len(s) : b = w + d
  BY <1>1, <1>2
<1>4. u[w] = s[b]
  BY <1>1, <1>3
<1>5. Cardinality(Quotes(u, v + 1, w)) = Cardinality(Quotes(s, a + 1, b))
  <2>1. PICK x \in Nat \ {0} : x = v + 1 /\ x + d = a + 1
    BY <1>2
  <2>2. w \in Int /\ w <= Len(u)
    OBVIOUS
  <2>3. Cardinality(Quotes(u, x, w)) = Cardinality(Quotes(s, x + d, w + d))
    BY <2>1, <2>2, QuotesWithin
  <2> QED
    BY <1>3, <2>1, <2>3
<1>6. ASSUME Quote(s[b])
      PROVE  (w < Len(u) => ~Quote(u[w + 1])) <=> (b < Len(s) => ~Quote(s[b + 1]))
  <2>1. CASE w < Len(u)
    <3>1. u[w + 1] = s[b + 1] /\ b < Len(s)
      <4>1. w + 1 \in 1 .. Len(u) /\ (w + 1) + d = b + 1
        BY <1>1, <1>3, <2>1
      <4> QED
        BY <1>1, <1>3, <2>1, <4>1
    <3> QED
      BY <2>1, <3>1
  <2>2. CASE w = Len(u)
    <3>1. ASSUME b < Len(s)
          PROVE  ~Quote(s[b + 1])
      <4>1. u # <<>> /\ d + Len(u) = b
        BY <1>1, <1>3, <2>2
      <4>2. s[b] = ";" \/ s[b + 1] \in Space
        BY <3>1, <4>1 DEF EndsWell
      <4> QED
        BY <1>6, <4>2 DEF Quote, Space
    <3>2. ~(w < Len(u))
      BY <1>1, <2>2
    <3> QED
      BY <3>1, <3>2
  <2> QED
    BY <1>1, <2>1, <2>2
<1>7. w \in ClosingQuotes(u, v) <=> /\ Quote(u[w]) /\ Cardinality(Quotes(u, v + 1, w)) % 2 = 1
                                    /\ w < Len(u) => ~Quote(u[w + 1])
  BY ClosingIs
<1>8. b \in ClosingQuotes(s, a) <=> /\ Quote(s[b]) /\ Cardinality(Quotes(s, a + 1, b)) % 2 = 1
                                    /\ b < Len(s) => ~Quote(s[b + 1])
  BY ClosingIs
<1>9. w \in ClosingQuotes(u, v) <=> b \in ClosingQuotes(s, a)
  BY <1>4, <1>5, <1>6, <1>7, <1>8
<1> QED
  BY <1>2, <1>3, <1>9

\* The quote that closes a string of the piece is that of the text.
LEMMA ClosesWithin ==
  ASSUME NEW u, NEW s, NEW d \in Nat, Within(u, s, d), EndsWell(u, s, d),
         NEW v \in 1 .. Len(u), Quote(s[v + d]), Shut(u, s, d, v + d)
  PROVE  \/ ClosingQuotes(u, v) = {} /\ ClosingQuotes(s, v + d) = {}
         \/ /\ ClosingQuotes(u, v) # {} /\ ClosingQuotes(s, v + d) # {}
            /\ Min(ClosingQuotes(u, v)) \in v + 1 .. Len(u)
            /\ Min(ClosingQuotes(s, v + d)) = Min(ClosingQuotes(u, v)) + d
<1>1. Len(u) \in Nat /\ Len(s) \in Nat /\ d + Len(u) <= Len(s)
  BY DEF Within
<1>2. PICK a \in 1 .. Len(s) : a = v + d
  BY <1>1
<1>3. PICK z \in a .. Len(s) : z = d + Len(u)
  BY <1>1, <1>2
<1> DEFINE A == ClosingQuotes(u, v)
           B == ClosingQuotes(s, a)
<1>4. B # {} => \E y \in B : y <= z
  <2> SUFFICES ASSUME B # {}
               PROVE  \E y \in B : y <= z
    OBVIOUS
  <2>1. CASE \A x \in z + 1 .. Len(s) : s[x] \in Space
    <3>1. PICK y \in B : TRUE
      OBVIOUS
    <3>2. y \in a + 1 .. Len(s) /\ Quote(s[y])
      BY <3>1, ClosingIs
    <3>3. s[y] \notin Space
      BY <3>2 DEF Quote, Space
    <3>4. y \notin z + 1 .. Len(s)
      BY <2>1, <3>3
    <3>5. y <= z
      BY <1>3, <3>2, <3>4
    <3> QED
      BY <3>1, <3>5
  <2>2. CASE Semi(s[z]) /\ Cardinality(Quotes(s, a, z - 1)) % 2 = 0
    <3>1. Quote(s[a]) /\ s[z] # s[a] /\ ~Quote(s[z])
      BY <1>2, <2>2 DEF Quote, Semi
    <3>2. z # a
      BY <3>1
    <3>3. z \in a + 1 .. Len(s)
      BY <1>3, <3>2
    <3>4. PICK y \in B : y < z
      BY <1>1, <2>2, <3>1, <3>3, ClosesBefore DEF Quote
    <3>5. y \in Int
      BY <3>4, ClosingIs
    <3>6. y <= z
      BY <3>3, <3>4, <3>5
    <3> QED
      BY <3>4, <3>6
  <2> QED
    BY <1>2, <1>3, <2>1, <2>2 DEF Shut
<1>5. \A w \in v + 1 .. Len(u) : w \in A <=> w + d \in B
  BY <1>2, ClosingWithin
<1>6. A \subseteq v + 1 .. Len(u) /\ B \subseteq a + 1 .. Len(s)
  BY ClosingIs
<1>7. A # {} => Min(A) \in A /\ \A y \in A : Min(A) <= y
  BY <1>1, ClosingQuoteIs
<1>8. B # {} => Min(B) \in B /\ \A y \in B : Min(B) <= y
  BY <1>1, ClosingQuoteIs
<1> HIDE DEF A, B
<1>9. \A y \in B : y <= z => y - d \in A /\ (y - d) + d = y
  <2> SUFFICES ASSUME NEW y \in B, y <= z
               PROVE  y - d \in A /\ (y - d) + d = y
    OBVIOUS
  <2>1. y \in a + 1 .. Len(s)
    BY <1>6
  <2>2. y - d \in v + 1 .. Len(u) /\ (y - d) + d = y
    BY <1>1, <1>2, <1>3, <2>1
  <2> QED
    BY <1>5, <2>2
<1>10. CASE B = {}
  <2>1. A = {}
    BY <1>5, <1>6, <1>10
  <2> QED
    BY <1>2, <1>10, <2>1 DEF A, B
<1>11. CASE B # {}
  <2>1. PICK y \in B : y <= z
    BY <1>4, <1>11
  <2>2. A # {}
    BY <1>9, <2>1
  <2>3. PICK m \in A : m = Min(A) /\ (\A x \in A : m <= x) /\ m \in v + 1 .. Len(u)
    BY <1>6, <1>7, <2>2
  <2>4. PICK n \in B : n = Min(B) /\ (\A x \in B : n <= x) /\ n \in a + 1 .. Len(s)
    BY <1>6, <1>8, <1>11
  <2>5. m + d \in B
    BY <1>5, <2>3
  <2>6. n <= m + d /\ n <= z
    <3>1. n <= m + d
      BY <2>4, <2>5
    <3>2. m + d <= z
      BY <1>1, <1>3, <2>3
    <3> QED
      BY <1>1, <1>3, <2>3, <2>4, <3>1, <3>2
  <2>7. n - d \in A
    BY <1>9, <2>4, <2>6
  <2>8. m <= n - d
    BY <2>3, <2>7
  <2>9. n = m + d
    <3>1. n \in Nat /\ m \in Nat
      BY <1>1, <1>2, <2>3, <2>4
    <3> QED
      BY <2>6, <2>8, <3>1
  <2> QED
    BY <1>2, <1>11, <2>2, <2>3, <2>4, <2>9 DEF A, B
<1> QED
  BY <1>10, <1>11

LEMMA StringWithin ==
  ASSUME NEW u, NEW s, NEW d \in Nat, Within(u, s, d), EndsWell(u, s, d),
         NEW v \in 1 .. Len(u), Quote(s[v + d]), Shut(u, s, d, v + d)
  PROVE  SameToken(u, s, d, v)
<1>1. /\ Len(u) \in Nat /\ Len(s) \in Nat /\ d + Len(u) <= Len(s)
      /\ \A j \in 1 .. Len(u) : u[j] = s[j + d]
  BY DEF Within
<1>2. PICK a \in 1 .. Len(s) : a = v + d
  BY <1>1
<1>3. Quote(s[a]) /\ Quote(u[v])
  BY <1>1, <1>2
<1>4. TokenAt(s, a) = StringToken(s, a) /\ TokenAt(u, v) = StringToken(u, v)
  BY <1>3, QuoteToken DEF Quote
<1>5. ~Semi(s[a]) /\ ~Semi("error") /\ ~Semi("string")
  BY <1>3 DEF Quote, Semi
<1>6. ASSUME StringToken(s, a) = Unreadable(s, a), StringToken(u, v) = Unreadable(u, v)
      PROVE  SameToken(u, s, d, v)
  <2>1. TokenAt(u, v).kind = "error" /\ TokenAt(s, v + d).kind = "error"
    BY <1>2, <1>4, <1>6, TokenFields DEF Unreadable
  <2> QED
    BY <1>2, <1>5, <2>1 DEF SameToken
<1>7. CASE ClosingQuotes(u, v) = {} /\ ClosingQuotes(s, a) = {}
  BY <1>6, <1>7 DEF StringToken
<1>8. ASSUME ClosingQuotes(u, v) # {}, ClosingQuotes(s, a) # {},
             NEW m \in v + 1 .. Len(u), m = Min(ClosingQuotes(u, v)), NEW n, n = m + d,
             n = Min(ClosingQuotes(s, a))
      PROVE  SameToken(u, s, d, v)
  <2>0. v \in Int /\ m \in Int /\ v + 1 <= m /\ m <= Len(u)
    BY <1>1, <1>8
  <2>1. n \in a + 1 .. Len(s) /\ n - 1 = (m - 1) + d /\ n - a = m - v
    <3>1. n = m + d /\ a = v + d
      BY <1>2, <1>8
    <3> QED
      BY <1>1, <2>0, <3>1
  <2>2. StringLength(s, a, n) = StringLength(u, v, m)
    <3>1. PICK x \in Nat \ {0} : x = v + 1 /\ x + d = a + 1
      BY <1>2
    <3>2. m - 1 \in Int /\ m - 1 <= Len(u)
      BY <1>1, <1>8
    <3>3. PICK y \in Int : y = m - 1 /\ y <= Len(u) /\ y + d = n - 1
      BY <2>1, <3>2
    <3>4. Cardinality(Quotes(u, x, y)) = Cardinality(Quotes(s, x + d, y + d))
      BY <3>1, <3>3, QuotesWithin
    <3>5. n - a - 1 = m - v - 1
      BY <1>2, <1>8, <2>1
    <3> QED
      BY <3>1, <3>3, <3>4, <3>5 DEF StringLength
  <2>3. StringToken(s, a) = IF StringLength(s, a, n) >= StrCap THEN Unreadable(s, a)
                            ELSE Token("string", a, n, StringLength(s, a, n))
    BY <1>8 DEF StringToken
  <2>4. StringToken(u, v) = IF StringLength(u, v, m) >= StrCap THEN Unreadable(u, v)
                            ELSE Token("string", v, m, StringLength(u, v, m))
    BY <1>8 DEF StringToken
  <2>5. CASE StringLength(u, v, m) >= StrCap
    BY <1>6, <2>2, <2>3, <2>4, <2>5
  <2>6. CASE ~(StringLength(u, v, m) >= StrCap)
    <3>1. PICK k, l : k = "string" /\ l = StringLength(u, v, m)
      OBVIOUS
    <3>2. TokenAt(s, v + d) = Token(k, v + d, m + d, l) /\ TokenAt(u, v) = Token(k, v, m, l)
      BY <1>2, <1>4, <1>8, <2>2, <2>3, <2>4, <2>6, <3>1
    <3>3. Cardinality(Quotes(s, a, n)) % 2 = 0
      <4>1. n \in ClosingQuotes(s, a)
        BY <1>1, <1>8, ClosingQuoteIs
      <4>2. Cardinality(Quotes(s, a + 1, n)) % 2 = 1
        BY <4>1, ClosingIs
      <4>3. PICK y \in Nat : y = a + 1 /\ a <= y /\ y <= n + 1 /\ n \in Nat /\ a \in Nat /\ y - 1 = a
        BY <1>2, <2>1
      <4>4. Cardinality(Quotes(s, a, n)) = Cardinality(Quotes(s, a, y - 1)) + Cardinality(Quotes(s, y, n))
        <5>1. a \in Nat /\ y \in Nat /\ n \in Nat /\ a <= y /\ y <= n + 1
          BY <4>3
        <5> QED
          BY <5>1, QuotesJoin
      <4>5. Cardinality(Quotes(s, a, a)) = 1
        BY <1>3, <4>3, OneQuote DEF Quote
      <4>6. PICK h \in Nat : h = Cardinality(Quotes(s, y, n))
        <5>1. y \in Nat /\ n \in Int
          BY <4>3
        <5> QED
          BY <5>1, QuotesFinite
      <4> HIDE DEF Quotes
      <4>7. Cardinality(Quotes(s, a, n)) = 1 + h /\ h % 2 = 1
        BY <4>2, <4>3, <4>4, <4>5, <4>6
      <4> QED
        BY <4>7
    <3>4. ~Semi(k)
      BY <1>5, <3>1
    <3>5. v \in Nat /\ m \in Nat
      BY <1>8
    <3>6. Cardinality(Quotes(s, v + d, m + d)) % 2 = 0 /\ ~Semi(s[v + d])
      BY <1>2, <1>5, <1>8, <3>3
    <3>7. ~Semi(s[m + d])
      <4>1. n \in ClosingQuotes(s, a)
        BY <1>1, <1>8, ClosingQuoteIs
      <4>2. Quote(s[n])
        BY <4>1, ClosingIs
      <4> QED
        BY <1>8, <4>2 DEF Quote, Semi
    <3> QED
      BY <3>2, <3>4, <3>5, <3>6, <3>7, SameTokens
  <2> QED
    BY <2>5, <2>6
<1>9. \/ ClosingQuotes(u, v) = {} /\ ClosingQuotes(s, a) = {}
      \/ /\ ClosingQuotes(u, v) # {} /\ ClosingQuotes(s, a) # {}
         /\ Min(ClosingQuotes(u, v)) \in v + 1 .. Len(u)
         /\ Min(ClosingQuotes(s, a)) = Min(ClosingQuotes(u, v)) + d
  BY <1>2, ClosesWithin
<1> QED
  BY <1>7, <1>8, <1>9

LEMMA TokenWithin ==
  ASSUME NEW u, NEW s, NEW d \in Nat, Within(u, s, d), EndsWell(u, s, d),
         NEW v \in 1 .. Len(u), s[v + d] \notin Space, Shut(u, s, d, v + d)
  PROVE  SameToken(u, s, d, v)
<1>1. s[v + d] \in Characters
  <2>1. s \in Seq(Characters) /\ v + d \in 1 .. Len(s)
    BY DEF Within
  <2> QED
    BY <2>1
<1>2. \/ s[v + d] \in Words \/ s[v + d] \in Punctuation \/ s[v + d] \in Digit \cup Signs
      \/ s[v + d] \in Foreign \/ Quote(s[v + d])
  BY <1>1 DEF Characters, Digit, Signs, Quote
<1> QED
  BY <1>2, WordWithin, MarkWithin, NumberWithin, NoneWithin, StringWithin

Fails(t) == t.kind = "error"

\* After the token at b there is c, and the tokens rest from there on.
GoesOn(s, b, r, c, rest) ==
  /\ c = TokenAt(s, b).to + 1 /\ rest = LexFrom(s, c) /\ Len(rest) \in Nat
  /\ Len(r) = Len(rest) + 1 /\ \A j \in 1 .. Len(rest) : r[j + 1] = rest[j]

\* The first of the tokens r from p on starts at b.
FirstIs(s, p, b, r) ==
  /\ b \in p .. Len(s) + 1 /\ Starts(s, b)
  /\ b > Len(s) => Len(r) = 1 /\ r[1] = Token("eof", b, b, 0)
  /\ b <= Len(s) => r[1] = TokenAt(s, b)
  /\ b <= Len(s) /\ Fails(TokenAt(s, b)) => Len(r) = 1
  /\ b <= Len(s) /\ ~Fails(TokenAt(s, b)) =>
       \E c \in b + 1 .. Len(s) + 1 : \E rest : GoesOn(s, b, r, c, rest)

LEMMA NextToken ==
  ASSUME NEW s \in Seq(Characters), NEW p \in 1 .. Len(s) + 1, NEW b, b = TokenStart(s, p),
         NEW r, r = LexFrom(s, p)
  PROVE  FirstIs(s, p, b, r)
<1>0. Len(s) \in Nat
  OBVIOUS
<1>1. b \in p .. Len(s) + 1 /\ Starts(s, b)
  BY <1>0, TokenStarts
<1>2. b \in 1 .. Len(s) + 1
  BY <1>0, <1>1
<1>3. r = LexFrom(s, b)
  <2>1. TokenStart(s, b) = TokenStart(s, p)
    BY <1>0, <1>1, <1>2, StartsHere
  <2> QED
    BY <1>2, <2>1, SameStart
<1>4. ASSUME b > Len(s)
      PROVE  Len(r) = 1 /\ r[1] = Token("eof", b, b, 0)
  <2>1. r = <<Token("eof", b, b, 0)>>
    BY <1>1, <1>2, <1>3, <1>4, LexFromHere
  <2> QED
    BY <2>1
<1>5. ASSUME b <= Len(s), Fails(TokenAt(s, b))
      PROVE  Len(r) = 1 /\ r[1] = TokenAt(s, b)
  <2>1. r = <<TokenAt(s, b)>>
    BY <1>1, <1>2, <1>3, <1>5, LexFromHere DEF Fails
  <2> QED
    BY <2>1
<1>6. ASSUME b <= Len(s), ~Fails(TokenAt(s, b))
      PROVE  /\ r[1] = TokenAt(s, b)
             /\ \E c \in b + 1 .. Len(s) + 1 : \E rest : GoesOn(s, b, r, c, rest)
  <2>1. /\ r = <<TokenAt(s, b)>> \o LexFrom(s, TokenAt(s, b).to + 1)
        /\ TokenAt(s, b).to + 1 \in b + 1 .. Len(s) + 1
    BY <1>1, <1>2, <1>3, <1>6, LexFromHere DEF Fails
  <2>2. PICK c \in b + 1 .. Len(s) + 1 : c = TokenAt(s, b).to + 1
    BY <2>1
  <2>3. c \in 1 .. Len(s) + 1 /\ b \in 1 .. Len(s)
    BY <1>0, <1>2, <1>6, <2>2
  <2> DEFINE rest == LexFrom(s, c)
             S == {TokenAt(s, x) : x \in 1 .. Len(s)} \cup {Token("eof", Len(s) + 1, Len(s) + 1, 0)}
             t == TokenAt(s, b)
  <2>4. rest \in Seq(S)
    BY <2>3, LexFromIsLexed DEF IsLexed
  <2>5. t \in S
    BY <2>3
  <2>6. r = <<t>> \o rest
    BY <2>1, <2>2
  <2>7. c = TokenAt(s, b).to + 1 /\ rest = LexFrom(s, c)
    BY <2>2
  <2>8. t = TokenAt(s, b)
    OBVIOUS
  <2> HIDE DEF rest, t, S
  <2>9. /\ Len(rest) \in Nat /\ Len(r) = Len(rest) + 1 /\ r[1] = t
        /\ \A j \in 1 .. Len(rest) : r[j + 1] = rest[j]
    BY <2>4, <2>5, <2>6, OneAndRest
  <2> QED
    BY <2>2, <2>7, <2>8, <2>9 DEF GoesOn
<1> QED
  BY <1>1, <1>4, <1>5, <1>6 DEF FirstIs

\* No token is before the first.
LEMMA LaterTokens ==
  ASSUME NEW s \in Seq(Characters)
  PROVE  \A p \in 1 .. Len(s) + 1 : \A j \in 1 .. Len(LexFrom(s, p)) :
           LexFrom(s, p)[j].at \in Nat /\ LexFrom(s, p)[j].at >= TokenStart(s, p)
<1> DEFINE Good(p) == \A j \in 1 .. Len(LexFrom(s, p)) :
                        LexFrom(s, p)[j].at \in Nat /\ LexFrom(s, p)[j].at >= TokenStart(s, p)
           S == {p \in 1 .. Len(s) + 1 : Good(p)}
<1>0. Len(s) \in Nat
  OBVIOUS
<1>1. ASSUME NEW p \in 1 .. Len(s) + 1, \A q \in p + 1 .. Len(s) + 1 : q \in S
      PROVE  p \in S
  <2>1. PICK b, r : b = TokenStart(s, p) /\ r = LexFrom(s, p)
    OBVIOUS
  <2> HIDE DEF S
  <2>2. FirstIs(s, p, b, r)
    BY <2>1, NextToken
  <2>3. b \in Nat /\ b >= p /\ b <= Len(s) + 1
    BY <1>0, <2>2 DEF FirstIs
  <2>4. r[1].at = b
    <3>1. CASE b > Len(s)
      BY <2>2, <3>1, TokenFields DEF FirstIs
    <3>2. CASE b <= Len(s)
      <4>1. b \in 1 .. Len(s)
        BY <1>0, <2>3, <3>2
      <4> QED
        BY <2>2, <3>2, <4>1, TokenAtIs DEF IsToken, FirstIs
    <3> QED
      BY <1>0, <2>3, <3>1, <3>2
  <2>5. ASSUME NEW j \in 1 .. Len(r), j # 1
        PROVE  r[j].at \in Nat /\ r[j].at >= b
    <3>1. Len(r) # 1
      <4> SUFFICES ASSUME Len(r) = 1
                   PROVE  FALSE
        OBVIOUS
      <4>1. j \in 1 .. 1
        BY <2>5
      <4> QED
        BY <2>5, <4>1
    <3>2. b <= Len(s) /\ ~Fails(TokenAt(s, b))
      BY <1>0, <2>2, <2>3, <3>1 DEF FirstIs
    <3>9. PICK c \in b + 1 .. Len(s) + 1 : \E rest : GoesOn(s, b, r, c, rest)
      BY <2>2, <3>2 DEF FirstIs
    <3>10. PICK rest : GoesOn(s, b, r, c, rest)
      BY <3>9
    <3>3. /\ c = TokenAt(s, b).to + 1 /\ rest = LexFrom(s, c) /\ Len(rest) \in Nat
          /\ Len(r) = Len(rest) + 1 /\ \A k \in 1 .. Len(rest) : r[k + 1] = rest[k]
      BY <3>10 DEF GoesOn
    <3>4. c \in p + 1 .. Len(s) + 1 /\ c \in 1 .. Len(s) + 1
      BY <1>0, <2>3, <3>3
    <3>5. Good(c)
      BY <1>1, <3>4 DEF S
    <3> HIDE DEF Good
    <3>6. PICK k \in 1 .. Len(rest) : j = k + 1
      <4>1. j - 1 \in 1 .. Len(rest) /\ (j - 1) + 1 = j
        BY <2>5, <3>3
      <4> QED
        BY <4>1
    <3>7. rest[k].at \in Nat /\ rest[k].at >= TokenStart(s, c) /\ r[j] = rest[k]
      BY <3>3, <3>5, <3>6 DEF Good
    <3>8. TokenStart(s, c) >= c /\ TokenStart(s, c) \in Nat
      BY <1>0, <3>4, TokenStarts
    <3> QED
      BY <2>3, <3>3, <3>4, <3>7, <3>8
  <2>6. \A j \in 1 .. Len(r) : r[j].at \in Nat /\ r[j].at >= b
    BY <2>3, <2>4, <2>5
  <2> QED
    BY <2>1, <2>6 DEF S
<1>2. PICK n \in Nat : n = Len(s) + 1
  BY <1>0
<1>3. \A p \in 1 .. n : (\A q \in p + 1 .. n : q \in S) => p \in S
  BY <1>1, <1>2
<1> HIDE DEF S
<1>4. \A p \in 1 .. n : p \in S
  BY <1>3, Backwards
<1> QED
  BY <1>2, <1>4 DEF S

\* A string ends with a quote.
EndsInQuote(s, t) == t.kind = "string" => t.to \in 1 .. Len(s) /\ Quote(s[t.to])

LEMMA StringEndsInQuote ==
  ASSUME NEW s \in Seq(Characters), NEW p \in 1 .. Len(s)
  PROVE  EndsInQuote(s, TokenAt(s, p))
<1>0. Len(s) \in Nat
  OBVIOUS
<1>1. CASE s[p] = "'"
  <2>1. TokenAt(s, p) = StringToken(s, p)
    BY <1>1, QuoteToken
  <2>2. CASE ClosingQuotes(s, p) = {} \/ StringLength(s, p, Min(ClosingQuotes(s, p))) >= StrCap
    <3>1. TokenAt(s, p).kind = "error"
      BY <2>1, <2>2 DEF StringToken, Unreadable, Token
    <3> QED
      BY <3>1 DEF EndsInQuote
  <2>3. CASE ~(ClosingQuotes(s, p) = {} \/ StringLength(s, p, Min(ClosingQuotes(s, p))) >= StrCap)
    <3>1. PICK q : q = Min(ClosingQuotes(s, p))
      OBVIOUS
    <3>2. q \in ClosingQuotes(s, p) /\ q \in p + 1 .. Len(s)
      BY <1>0, <2>3, <3>1, ClosingQuoteIs
    <3>3. s[q] = "'" /\ q \in 1 .. Len(s)
      BY <1>0, <3>2 DEF ClosingQuotes, Quotes
    <3>4. TokenAt(s, p).to = q
      BY <2>1, <2>3, <3>1 DEF StringToken, Token
    <3> QED
      BY <3>3, <3>4 DEF EndsInQuote, Quote
  <2> QED
    BY <2>2, <2>3
<1>2. CASE s[p] # "'"
  <2>1. TokenAt(s, p).kind # "string"
    BY <1>2, NoString
  <2> QED
    BY <2>1 DEF EndsInQuote
<1> QED
  BY <1>1, <1>2

\* Each token is one that starts somewhere, or the end.
LEMMA TokensAreFound ==
  ASSUME NEW s \in Seq(Characters)
  PROVE  \A p \in 1 .. Len(s) + 1 : \A j \in 1 .. Len(LexFrom(s, p)) :
           EndsInQuote(s, LexFrom(s, p)[j])
<1> DEFINE Good(p) == \A j \in 1 .. Len(LexFrom(s, p)) : EndsInQuote(s, LexFrom(s, p)[j])
           S == {p \in 1 .. Len(s) + 1 : Good(p)}
<1>0. Len(s) \in Nat
  OBVIOUS
<1>1. ASSUME NEW p \in 1 .. Len(s) + 1, \A q \in p + 1 .. Len(s) + 1 : q \in S
      PROVE  p \in S
  <2>1. PICK b, r : b = TokenStart(s, p) /\ r = LexFrom(s, p)
    OBVIOUS
  <2> HIDE DEF S
  <2>2. FirstIs(s, p, b, r)
    BY <2>1, NextToken
  <2>3. b \in Nat /\ b >= p /\ b <= Len(s) + 1
    BY <1>0, <2>2 DEF FirstIs
  <2>4. EndsInQuote(s, r[1])
    <3>1. CASE b > Len(s)
      BY <2>2, <3>1, TokenFields DEF FirstIs, EndsInQuote
    <3>2. CASE b <= Len(s)
      <4>1. b \in 1 .. Len(s)
        BY <1>0, <2>3, <3>2
      <4> QED
        BY <2>2, <3>2, <4>1, StringEndsInQuote DEF FirstIs
    <3> QED
      BY <1>0, <2>3, <3>1, <3>2
  <2>5. ASSUME NEW j \in 1 .. Len(r), j # 1
        PROVE  EndsInQuote(s, r[j])
    <3>1. Len(r) # 1
      <4> SUFFICES ASSUME Len(r) = 1
                   PROVE  FALSE
        OBVIOUS
      <4>1. j \in 1 .. 1
        BY <2>5
      <4> QED
        BY <2>5, <4>1
    <3>2. b <= Len(s) /\ ~Fails(TokenAt(s, b))
      BY <1>0, <2>2, <2>3, <3>1 DEF FirstIs
    <3>9. PICK c \in b + 1 .. Len(s) + 1 : \E rest : GoesOn(s, b, r, c, rest)
      BY <2>2, <3>2 DEF FirstIs
    <3>10. PICK rest : GoesOn(s, b, r, c, rest)
      BY <3>9
    <3>3. /\ c = TokenAt(s, b).to + 1 /\ rest = LexFrom(s, c) /\ Len(rest) \in Nat
          /\ Len(r) = Len(rest) + 1 /\ \A k \in 1 .. Len(rest) : r[k + 1] = rest[k]
      BY <3>10 DEF GoesOn
    <3>4. c \in p + 1 .. Len(s) + 1
      BY <1>0, <2>3, <3>3
    <3>5. Good(c)
      BY <1>1, <3>4 DEF S
    <3> HIDE DEF Good
    <3>6. PICK k \in 1 .. Len(rest) : j = k + 1
      <4>1. j - 1 \in 1 .. Len(rest) /\ (j - 1) + 1 = j
        BY <2>5, <3>3
      <4> QED
        BY <4>1
    <3> QED
      BY <3>3, <3>5, <3>6 DEF Good
  <2>6. \A j \in 1 .. Len(r) : EndsInQuote(s, r[j])
    BY <2>4, <2>5
  <2> QED
    BY <2>1, <2>6 DEF S
<1>2. PICK n \in Nat : n = Len(s) + 1
  BY <1>0
<1>3. \A p \in 1 .. n : (\A q \in p + 1 .. n : q \in S) => p \in S
  BY <1>1, <1>2
<1> HIDE DEF S
<1>4. \A p \in 1 .. n : p \in S
  BY <1>3, Backwards
<1> QED
  BY <1>2, <1>4 DEF S

\* From p on every quote and every `;' is part of a token, and every form feed
\* of a string.
Mark(c) == Quote(c) \/ Semi(c)
Feed(c) == c = "ff"

MarksInTokens(s, p, r) ==
  \A x \in p .. Len(s) : Mark(s[x]) => \E j \in 1 .. Len(r) : x \in r[j].at .. r[j].to
FeedsInStrings(s, p, r) ==
  \A x \in p .. Len(s) : Feed(s[x]) =>
    \E j \in 1 .. Len(r) : r[j].kind = "string" /\ x \in r[j].at .. r[j].to

PlainFrom(s, p) ==
  LET r == LexFrom(s, p) IN MarksInTokens(s, p, r) /\ FeedsInStrings(s, p, r)

\* So there is none before the first of them.
LEMMA PlainGap ==
  ASSUME NEW s \in Seq(Characters), NEW p \in 1 .. Len(s) + 1, PlainFrom(s, p)
  PROVE  \A x \in p .. TokenStart(s, p) - 1 : ~Mark(s[x])
<1>0. Len(s) \in Nat
  OBVIOUS
<1>1. PICK b : b = TokenStart(s, p)
  OBVIOUS
<1>2. b \in p .. Len(s) + 1
  BY <1>0, <1>1, TokenStarts
<1> SUFFICES ASSUME NEW x \in p .. b - 1, Mark(s[x])
             PROVE  FALSE
  BY <1>1
<1>3. x \in p .. Len(s)
  BY <1>0, <1>2
<1>4. PICK r : r = LexFrom(s, p)
  OBVIOUS
<1>5. PICK j \in 1 .. Len(r) : x \in r[j].at .. r[j].to
  BY <1>3, <1>4 DEF PlainFrom, MarksInTokens
<1>6. r[j].at \in Nat /\ r[j].at >= b
  BY <1>1, <1>4, <1>5, LaterTokens
<1>7. x >= b
  BY <1>2, <1>3, <1>5, <1>6
<1> QED
  BY <1>2, <1>7

\* The tokens after the first have the marks after it.
LEMMA PlainNext ==
  ASSUME NEW s \in Seq(Characters), NEW p \in 1 .. Len(s) + 1, PlainFrom(s, p),
         NEW b, b = TokenStart(s, p), b <= Len(s), NEW r, r = LexFrom(s, p),
         NEW c \in b + 1 .. Len(s) + 1, NEW rest, GoesOn(s, b, r, c, rest)
  PROVE  PlainFrom(s, c)
<1>0. Len(s) \in Nat
  OBVIOUS
<1>1. FirstIs(s, p, b, r)
  BY NextToken
<1>2. b \in p .. Len(s) + 1 /\ r[1] = TokenAt(s, b) /\ p \in Nat
  BY <1>0, <1>1 DEF FirstIs
<1>3. /\ c = TokenAt(s, b).to + 1 /\ rest = LexFrom(s, c) /\ Len(rest) \in Nat
      /\ Len(r) = Len(rest) + 1 /\ \A j \in 1 .. Len(rest) : r[j + 1] = rest[j]
  BY DEF GoesOn
<1>4. b \in 1 .. Len(s) /\ TokenAt(s, b).to \in b .. Len(s)
  <2>1. b \in 1 .. Len(s)
    BY <1>0, <1>2
  <2> QED
    BY <2>1, TokenAtIs DEF IsToken
<1>5. ASSUME NEW x \in c .. Len(s), NEW j \in 1 .. Len(r), x \in r[j].at .. r[j].to
      PROVE  \E k \in 1 .. Len(rest) : r[j] = rest[k]
  <2>0. x \in p .. Len(s) /\ c \in Nat
    BY <1>0, <1>2
  <2>1. j # 1
    <3> SUFFICES ASSUME j = 1
                 PROVE  FALSE
      OBVIOUS
    <3>1. x \in TokenAt(s, b).at .. TokenAt(s, b).to
      BY <1>2, <1>5
    <3>2. x <= TokenAt(s, b).to
      BY <3>1
    <3> QED
      BY <1>3, <1>4, <2>0, <3>2
  <2>2. PICK k \in 1 .. Len(rest) : j = k + 1
    <3>1. j - 1 \in 1 .. Len(rest) /\ (j - 1) + 1 = j
      BY <1>3, <2>1
    <3> QED
      BY <3>1
  <2> QED
    BY <1>3, <2>2
<1>6. \A x \in c .. Len(s) : x \in p .. Len(s)
  BY <1>0, <1>2
<1>7. MarksInTokens(s, c, rest)
  <2> SUFFICES ASSUME NEW x \in c .. Len(s), Mark(s[x])
               PROVE  \E k \in 1 .. Len(rest) : x \in rest[k].at .. rest[k].to
    BY DEF MarksInTokens
  <2>1. PICK j \in 1 .. Len(r) : x \in r[j].at .. r[j].to
    BY <1>6 DEF PlainFrom, MarksInTokens
  <2> QED
    BY <1>5, <2>1
<1>8. FeedsInStrings(s, c, rest)
  <2> SUFFICES ASSUME NEW x \in c .. Len(s), Feed(s[x])
               PROVE  \E k \in 1 .. Len(rest) : rest[k].kind = "string" /\ x \in rest[k].at .. rest[k].to
    BY DEF FeedsInStrings
  <2>1. PICK j \in 1 .. Len(r) : r[j].kind = "string" /\ x \in r[j].at .. r[j].to
    BY <1>6 DEF PlainFrom, FeedsInStrings
  <2> QED
    BY <1>5, <2>1
<1> QED
  BY <1>3, <1>7, <1>8 DEF PlainFrom

\* How many quotes there are, as far as strings are concerned.
Parity(s, p, q) == Cardinality(Quotes(s, p, q)) % 2

LEMMA ParityOn ==
  ASSUME NEW s, NEW q \in Nat, NEW c \in Nat, q <= c, Parity(s, q, c - 1) = 0
  PROVE  \A x \in Nat : x + 1 >= c => Parity(s, q, x) = Parity(s, c, x)
<1> SUFFICES ASSUME NEW x \in Nat, x + 1 >= c
             PROVE  Parity(s, q, x) = Parity(s, c, x)
  OBVIOUS
<1>1. PICK m \in Nat, n \in Nat : m = Cardinality(Quotes(s, q, c - 1)) /\ n = Cardinality(Quotes(s, c, x))
  <2>1. c - 1 \in Int /\ x \in Int
    OBVIOUS
  <2> QED
    BY <2>1, QuotesFinite
<1>2. Cardinality(Quotes(s, q, x)) = m + n
  BY <1>1, QuotesJoin
<1>3. m % 2 = 0
  BY <1>1 DEF Parity
<1>4. (m + n) % 2 = n % 2
  BY <1>3
<1> QED
  BY <1>1, <1>2, <1>4 DEF Parity

\* Where the cutter cuts after q: the piece u of s ends with the first `;' that has
\* pairs of quotes before it; or there is none, and only white space follows u.
NoneBefore(s, q, z) == \A x \in q .. z - 1 : Semi(s[x]) => Parity(s, q, x - 1) = 1
CutAt(s, q, z)  == q <= z /\ Semi(s[z]) /\ Parity(s, q, z - 1) = 0
TailAt(s, q, z) == /\ \A x \in z + 1 .. Len(s) : s[x] \in Space
                   /\ q <= z /\ Semi(s[z]) => Parity(s, q, z - 1) = 1
IsPiece(s, q, z) == NoneBefore(s, q, z) /\ (CutAt(s, q, z) \/ TailAt(s, q, z))

\* It does so after c too, when there are pairs of quotes between.
LEMMA PieceGoesOn ==
  ASSUME NEW s, NEW z \in Nat, NEW q \in Nat \ {0}, NEW c \in Nat \ {0}, q <= c,
         Parity(s, q, c - 1) = 0, NoneBefore(s, q, z)
  PROVE  /\ NoneBefore(s, c, z)
         /\ CutAt(s, q, z) /\ c <= z => CutAt(s, c, z)
         /\ TailAt(s, q, z) => TailAt(s, c, z)
<1>1. \A x \in Nat : x + 1 >= c => Parity(s, q, x) = Parity(s, c, x)
  BY ParityOn
<1>2. ASSUME NEW x \in c .. z - 1, Semi(s[x])
      PROVE  Parity(s, c, x - 1) = 1
  <2>1. x \in q .. z - 1 /\ x - 1 \in Nat /\ (x - 1) + 1 >= c
    OBVIOUS
  <2>2. Parity(s, q, x - 1) = 1
    BY <1>2, <2>1 DEF NoneBefore
  <2> QED
    BY <1>1, <2>1, <2>2
<1>3. c <= z => z - 1 \in Nat /\ (z - 1) + 1 >= c /\ q <= z
  OBVIOUS
<1>4. c <= z => Parity(s, q, z - 1) = Parity(s, c, z - 1)
  BY <1>1, <1>3
<1> QED
  BY <1>2, <1>3, <1>4 DEF NoneBefore, CutAt, TailAt

IsEof(k) == k = "eof"
Ender(k) == k \in {";", "eof", "error"}

LEMMA Enders ==
  /\ \A t : Ender(t.kind) <=> (Semi(t.kind) \/ IsEof(t.kind) \/ Fails(t))
  /\ \A t : Fails(t) => ~Semi(t.kind) /\ ~IsEof(t.kind)
  /\ \A k : IsEof(k) => ~Semi(k)
BY DEF Ender, Semi, IsEof, Fails

\* The tokens w of the piece that ends at z are the first m of r, where the first
\* that ends a statement is the last; after a `;' only the end of the piece follows.
AfterFirst(r, m, rest) ==
  Len(rest) \in Nat /\ Len(r) = m + Len(rest) /\ \A j \in 1 .. Len(rest) : r[m + j] = rest[j]

Matched(s, r, w, m, z) ==
  /\ m \in Nat \ {0} /\ m <= Len(r) /\ m <= Len(w)
  /\ \A j \in 1 .. m : w[j].kind = r[j].kind
  /\ \A j \in 1 .. m - 1 : ~Ender(r[j].kind)
  /\ Ender(r[m].kind)
  /\ ~Semi(r[m].kind) => Len(r) = m /\ Len(w) = m
  /\ Semi(r[m].kind) => Len(w) = m + 1 /\ AfterFirst(r, m, LexFrom(s, z + 1)) /\ PlainFrom(s, z + 1)

\* One token more at the beginning.
LEMMA MatchedOn ==
  ASSUME NEW s, NEW rest, NEW restu, NEW m, NEW z, Matched(s, rest, restu, m, z),
         NEW r, Len(rest) \in Nat, Len(r) = Len(rest) + 1, \A j \in 1 .. Len(rest) : r[j + 1] = rest[j],
         NEW w, Len(restu) \in Nat, Len(w) = Len(restu) + 1, \A j \in 1 .. Len(restu) : w[j + 1] = restu[j],
         w[1].kind = r[1].kind, ~Ender(r[1].kind)
  PROVE  Matched(s, r, w, m + 1, z) /\ r[m + 1] = rest[m]
<1>1. /\ m \in Nat \ {0} /\ m <= Len(rest) /\ m <= Len(restu)
      /\ \A j \in 1 .. m : restu[j].kind = rest[j].kind
      /\ \A j \in 1 .. m - 1 : ~Ender(rest[j].kind)
      /\ Ender(rest[m].kind)
      /\ ~Semi(rest[m].kind) => Len(rest) = m /\ Len(restu) = m
      /\ Semi(rest[m].kind) => /\ Len(restu) = m + 1 /\ AfterFirst(rest, m, LexFrom(s, z + 1))
                               /\ PlainFrom(s, z + 1)
  BY DEF Matched
<1>2. r[m + 1] = rest[m] /\ m + 1 \in Nat \ {0} /\ m + 1 <= Len(r) /\ m + 1 <= Len(w)
  BY <1>1
<1>3. ASSUME NEW j \in 1 .. m + 1
      PROVE  w[j].kind = r[j].kind
  <2>1. CASE j = 1
    BY <2>1
  <2>2. CASE j # 1
    <3>1. j - 1 \in 1 .. m /\ (j - 1) + 1 = j /\ j - 1 \in 1 .. Len(rest) /\ j - 1 \in 1 .. Len(restu)
      BY <1>1, <2>2
    <3>2. w[j] = restu[j - 1] /\ r[j] = rest[j - 1]
      BY <3>1
    <3> QED
      BY <1>1, <3>1, <3>2
  <2> QED
    BY <2>1, <2>2
<1>4. ASSUME NEW j \in 1 .. (m + 1) - 1
      PROVE  ~Ender(r[j].kind)
  <2>1. CASE j = 1
    BY <2>1
  <2>2. CASE j # 1
    <3>1. j - 1 \in 1 .. m - 1 /\ (j - 1) + 1 = j /\ j - 1 \in 1 .. Len(rest)
      BY <1>1, <2>2
    <3>2. r[j] = rest[j - 1]
      BY <3>1
    <3> QED
      BY <1>1, <3>1, <3>2
  <2> QED
    BY <2>1, <2>2
<1>5. ASSUME NEW l, AfterFirst(rest, m, l)
      PROVE  AfterFirst(r, m + 1, l)
  <2>1. Len(l) \in Nat /\ Len(rest) = m + Len(l) /\ \A j \in 1 .. Len(l) : rest[m + j] = l[j]
    BY <1>5 DEF AfterFirst
  <2>2. Len(r) = (m + 1) + Len(l)
    BY <1>1, <2>1
  <2>3. ASSUME NEW j \in 1 .. Len(l)
        PROVE  r[(m + 1) + j] = l[j]
    <3>1. m + j \in 1 .. Len(rest) /\ (m + j) + 1 = (m + 1) + j
      BY <1>1, <2>1
    <3> QED
      BY <2>1, <3>1
  <2> QED
    BY <2>1, <2>2, <2>3 DEF AfterFirst
<1>6. ~Semi(r[m + 1].kind) => Len(r) = m + 1 /\ Len(w) = m + 1
  BY <1>1, <1>2
<1>7. Semi(r[m + 1].kind) => /\ Len(w) = (m + 1) + 1 /\ AfterFirst(r, m + 1, LexFrom(s, z + 1))
                            /\ PlainFrom(s, z + 1)
  BY <1>1, <1>2, <1>5
<1> QED
  BY <1>1, <1>2, <1>3, <1>4, <1>6, <1>7 DEF Matched

\* One token, and it is an end.
LEMMA MatchedOne ==
  ASSUME NEW s, NEW z, NEW r, NEW w, Len(r) = 1, Len(w) = 1, w[1].kind = r[1].kind,
         Ender(r[1].kind), ~Semi(r[1].kind)
  PROVE  Matched(s, r, w, 1, z)
BY DEF Matched

\* One token, the semicolon that ends the statement.
LEMMA MatchedSemi ==
  ASSUME NEW s, NEW z, NEW r, NEW w, Len(r) \in Nat \ {0}, Len(w) = 2, w[1].kind = r[1].kind,
         Ender(r[1].kind), Semi(r[1].kind), AfterFirst(r, 1, LexFrom(s, z + 1)),
         PlainFrom(s, z + 1)
  PROVE  Matched(s, r, w, 1, z)
BY DEF Matched

Agree(u, s, d, v) ==
  LET z == d + Len(u)
      r == LexFrom(s, v + d)
      w == LexFrom(u, v) IN
  IsPiece(s, v + d, z) /\ PlainFrom(s, v + d) =>
    \E m : /\ Matched(s, r, w, m, z)
           /\ CutAt(s, v + d, z) => ~IsEof(r[m].kind)
           /\ TailAt(s, v + d, z) => ~Semi(r[m].kind)

LEMMA AgreeStep ==
  ASSUME NEW u, NEW s, NEW d \in Nat, Within(u, s, d),
         NEW v \in 1 .. Len(u) + 1, \A w \in v + 1 .. Len(u) + 1 : Agree(u, s, d, w)
  PROVE  Agree(u, s, d, v)
<1>1. /\ Len(u) \in Nat /\ Len(s) \in Nat /\ d + Len(u) <= Len(s)
      /\ u \in Seq(Characters) /\ s \in Seq(Characters)
  BY DEF Within
<1>2. PICK z \in Nat : z = d + Len(u) /\ z <= Len(s)
  BY <1>1
<1>3. PICK q \in 1 .. Len(s) + 1 : q = v + d
  BY <1>1
<1>4. PICK b, r : b = TokenStart(s, q) /\ r = LexFrom(s, q)
  OBVIOUS
<1>5. PICK bu, w : bu = TokenStart(u, v) /\ w = LexFrom(u, v)
  OBVIOUS
<1> SUFFICES ASSUME IsPiece(s, q, z), PlainFrom(s, q)
             PROVE  \E m : /\ Matched(s, r, w, m, z)
                           /\ CutAt(s, q, z) => ~IsEof(r[m].kind)
                           /\ TailAt(s, q, z) => ~Semi(r[m].kind)
  BY <1>2, <1>3, <1>4, <1>5 DEF Agree
<1>6. FirstIs(s, q, b, r) /\ FirstIs(u, v, bu, w)
  BY <1>1, <1>4, <1>5, NextToken
<1>7. b \in Nat /\ b >= q /\ b <= Len(s) + 1 /\ q \in Nat \ {0} /\ b \in Nat \ {0}
  BY <1>1, <1>6 DEF FirstIs
<1>8. NoneBefore(s, q, z) /\ (CutAt(s, q, z) \/ TailAt(s, q, z))
  BY DEF IsPiece
<1>9. EndsWell(u, s, d)
  <2>1. CutAt(s, q, z) => s[z] = ";"
    BY DEF CutAt, Semi
  <2>2. TailAt(s, q, z) /\ z < Len(s) => s[z + 1] \in Space
    <3>1. z < Len(s) => z + 1 \in z + 1 .. Len(s)
      BY <1>1
    <3> QED
      BY <3>1 DEF TailAt
  <2> QED
    BY <1>2, <1>8, <2>1, <2>2 DEF EndsWell
<1>10. \A x \in q .. b - 1 : ~Mark(s[x])
  BY <1>1, <1>4, PlainGap
<1>11. Parity(s, q, b - 1) = 0
  <2>1. \A x \in q .. b - 1 : s[x] # "'"
    BY <1>10 DEF Mark, Quote
  <2>2. q \in Nat /\ b - 1 \in Int
    BY <1>7
  <2> QED
    BY <2>1, <2>2, NoQuotes, ZeroIsEven DEF Parity
<1>12. /\ b <= z => bu = b - d
       /\ b > z => bu = Len(u) + 1
  BY <1>2, <1>3, <1>4, <1>5, <1>9, StartWithin
<1>13. CASE b > z
  <2>1. ~CutAt(s, q, z)
    <3>1. q <= z => z \in q .. b - 1
      BY <1>7, <1>13
    <3>2. q <= z => ~Semi(s[z])
      BY <1>10, <3>1 DEF Mark
    <3> QED
      BY <3>2 DEF CutAt
  <2>2. b > Len(s)
    <3>1. ~(b <= Len(s) /\ s[b] \in Space)
      BY <1>6 DEF FirstIs, Starts
    <3>2. b <= Len(s) => b \in z + 1 .. Len(s)
      BY <1>1, <1>7, <1>13
    <3>3. b <= Len(s) => s[b] \in Space
      BY <1>8, <2>1, <3>2 DEF TailAt
    <3> QED
      BY <1>1, <1>7, <3>1, <3>3
  <2>3. Len(r) = 1 /\ IsEof(r[1].kind)
    BY <1>6, <2>2, TokenFields DEF FirstIs, IsEof
  <2>4. Len(w) = 1 /\ IsEof(w[1].kind)
    <3>1. bu > Len(u)
      BY <1>1, <1>12, <1>13
    <3> QED
      BY <1>6, <3>1, TokenFields DEF FirstIs, IsEof
  <2>5. w[1].kind = r[1].kind
    BY <2>3, <2>4 DEF IsEof
  <2>6. Ender(r[1].kind) /\ ~Semi(r[1].kind)
    BY <2>3, Enders
  <2>7. Matched(s, r, w, 1, z)
    BY <2>3, <2>4, <2>5, <2>6, MatchedOne
  <2> QED
    BY <2>1, <2>6, <2>7
<1>14. CASE b <= z
  <2> DEFINE y == TokenAt(s, b)
             x == TokenAt(u, bu)
  <2>1. b \in 1 .. Len(s) /\ bu \in 1 .. Len(u) /\ bu >= v /\ bu + d = b
    BY <1>1, <1>2, <1>3, <1>7, <1>12, <1>14
  <2>2. y.kind # "eof" /\ y.to \in b .. Len(s) /\ x.to \in bu .. Len(u)
    BY <1>1, <2>1, TokenAtIs DEF IsToken
  <2>3. SameToken(u, s, d, bu)
    <3>1. s[b] \notin Space
      BY <1>6, <2>1 DEF FirstIs, Starts
    <3>2. CutAt(s, q, z) /\ b <= z => CutAt(s, b, z)
      BY <1>7, <1>8, <1>11, PieceGoesOn
    <3>3. TailAt(s, q, z) => TailAt(s, b, z)
      BY <1>7, <1>8, <1>11, PieceGoesOn
    <3>4. Shut(u, s, d, b)
      BY <1>2, <1>8, <1>14, <3>2, <3>3 DEF Shut, CutAt, TailAt, Parity
    <3> QED
      BY <1>9, <2>1, <3>1, <3>4, TokenWithin
  <2>4. /\ x.kind = y.kind
        /\ ~Fails(y) => y.to = x.to + d /\ Parity(s, b, y.to) = 0 /\ (Semi(s[y.to]) => Semi(s[b]))
        /\ Semi(y.kind) <=> Semi(s[b])
    BY <2>1, <2>3 DEF SameToken, Fails, Parity
  <2>5. r[1] = y /\ w[1] = x
    BY <1>6, <2>1 DEF FirstIs
  <2>6. Fails(x) <=> Fails(y)
    BY <2>4 DEF Fails
  <2>7. CASE Fails(y)
    <3>1. Len(r) = 1 /\ Len(w) = 1
      BY <1>6, <2>1, <2>6, <2>7 DEF FirstIs
    <3> HIDE DEF x, y
    <3>2. Ender(r[1].kind) /\ ~Semi(r[1].kind) /\ ~IsEof(r[1].kind)
      BY <2>5, <2>7, Enders
    <3>3. Matched(s, r, w, 1, z)
      BY <2>4, <2>5, <3>1, <3>2, MatchedOne
    <3> QED
      BY <3>2, <3>3
  <2>8. ASSUME ~Fails(y)
        PROVE  \E m : /\ Matched(s, r, w, m, z)
                      /\ CutAt(s, q, z) => ~IsEof(r[m].kind)
                      /\ TailAt(s, q, z) => ~Semi(r[m].kind)
    <3>1. PICK c \in b + 1 .. Len(s) + 1 : \E rest : GoesOn(s, b, r, c, rest)
      BY <1>6, <2>1, <2>8 DEF FirstIs
    <3>2. PICK cu \in bu + 1 .. Len(u) + 1 : \E restu : GoesOn(u, bu, w, cu, restu)
      BY <1>6, <2>1, <2>6, <2>8 DEF FirstIs
    <3>10. PICK rest : GoesOn(s, b, r, c, rest)
      BY <3>1
    <3>11. PICK restu : GoesOn(u, bu, w, cu, restu)
      BY <3>2
    <3>3. /\ c = y.to + 1 /\ rest = LexFrom(s, c) /\ Len(rest) \in Nat
          /\ Len(r) = Len(rest) + 1 /\ \A j \in 1 .. Len(rest) : r[j + 1] = rest[j]
      BY <3>10 DEF GoesOn
    <3>4. /\ cu = x.to + 1 /\ restu = LexFrom(u, cu) /\ Len(restu) \in Nat
          /\ Len(w) = Len(restu) + 1 /\ \A j \in 1 .. Len(restu) : w[j + 1] = restu[j]
      BY <3>11 DEF GoesOn
    <3>5. PlainFrom(s, c)
      BY <1>1, <1>4, <2>1, <3>1, <3>10, PlainNext
    <3> HIDE DEF x, y
    <3>6. c = cu + d /\ c \in Nat \ {0} /\ q <= c /\ c - 1 = y.to /\ b <= c /\ c - 1 \in Nat
      <4>1. y.to \in b .. Len(s) /\ x.to \in bu .. Len(u)
        BY <2>2
      <4>2. y.to = x.to + d
        BY <2>4, <2>8
      <4>3. PICK g \in b .. Len(s) : g = y.to
        BY <4>1
      <4>4. PICK h \in bu .. Len(u) : h = x.to
        BY <4>1
      <4>5. g = h + d
        BY <4>2, <4>3, <4>4
      <4>6. c = g + 1 /\ cu = h + 1
        BY <3>3, <3>4, <4>3, <4>4
      <4>7. c = cu + d /\ c \in Nat \ {0} /\ q <= c /\ c - 1 = g /\ b <= c /\ c - 1 \in Nat
        BY <1>1, <1>7, <2>1, <4>5, <4>6
      <4> QED
        BY <4>3, <4>7
    <3>7. cu \in v + 1 .. Len(u) + 1
      BY <1>1, <2>1, <3>2
    <3>8. CASE Semi(y.kind)
      <4>1. Semi(s[b])
        BY <2>4, <3>8
      <4>2. b = z
        <5>1. b # z => b \in q .. z - 1
          BY <1>7, <1>14
        <5>2. b # z => Parity(s, q, b - 1) = 1
          BY <1>8, <4>1, <5>1 DEF NoneBefore
        <5> QED
          BY <1>11, <5>2
      <4>3. ~TailAt(s, q, z)
        <5>1. q <= z /\ Semi(s[z]) /\ Parity(s, q, z - 1) # 1
          BY <1>7, <1>11, <4>1, <4>2
        <5> QED
          BY <5>1 DEF TailAt
      <4>4. y.to = b
        <5>1. s[bu + d] \in Punctuation
          BY <2>1, <4>1 DEF Semi, Punctuation
        <5> QED
          BY <2>1, <5>1, MarkWithin DEF y
      <4>5. c = z + 1 /\ cu = Len(u) + 1
        BY <1>1, <1>2, <2>1, <3>3, <3>6, <4>2, <4>4
      <4>6. Len(restu) = 1
        <5>1. PICK e : e = TokenStart(u, cu)
          OBVIOUS
        <5>2. cu \in 1 .. Len(u) + 1
          BY <1>1, <4>5
        <5>3. FirstIs(u, cu, e, restu)
          BY <1>1, <3>4, <5>1, <5>2, NextToken
        <5>4. e > Len(u)
          BY <1>1, <4>5, <5>3 DEF FirstIs
        <5> QED
          BY <5>3, <5>4 DEF FirstIs
      <4>7. AfterFirst(r, 1, LexFrom(s, z + 1))
        <5>1. \A j \in 1 .. Len(rest) : r[1 + j] = rest[j]
          BY <3>3
        <5> QED
          BY <3>3, <4>5, <5>1 DEF AfterFirst
      <4>8. Ender(r[1].kind) /\ Semi(r[1].kind) /\ w[1].kind = r[1].kind
        BY <2>4, <2>5, <3>8, Enders
      <4>9. Matched(s, r, w, 1, z)
        <5>1. Len(rest) \in Nat /\ Len(r) = Len(rest) + 1 /\ Len(w) = Len(restu) + 1
          BY <3>3, <3>4
        <5>2. Len(r) \in Nat \ {0} /\ Len(w) = 2
          BY <4>6, <5>1
        <5>3. PlainFrom(s, z + 1)
          BY <3>5, <4>5
        <5> QED
          BY <4>7, <4>8, <5>2, <5>3, MatchedSemi
      <4>10. ~IsEof(r[1].kind)
        BY <4>8, Enders
      <4> QED
        BY <4>3, <4>9, <4>10
    <3>9. CASE ~Semi(y.kind)
      <4>1. Parity(s, q, c - 1) = 0
        <5>1. (c - 1) + 1 >= b /\ q \in Nat /\ q <= b
          BY <1>7, <3>6
        <5>2. Parity(s, q, c - 1) = Parity(s, b, c - 1)
          BY <1>7, <1>11, <3>6, <5>1, ParityOn
        <5> QED
          BY <2>4, <2>8, <3>6, <5>2
      <4>2. /\ NoneBefore(s, c, z)
            /\ CutAt(s, q, z) /\ c <= z => CutAt(s, c, z)
            /\ TailAt(s, q, z) => TailAt(s, c, z)
        BY <1>7, <1>8, <3>6, <4>1, PieceGoesOn
      <4>3. CutAt(s, q, z) => CutAt(s, c, z)
        <5>1. c <= z \/ y.to = z
          BY <1>1, <1>2, <2>1, <3>6, <3>7
        <5>2. CutAt(s, q, z) => Semi(s[z])
          BY DEF CutAt
        <5>3. ~Semi(s[y.to])
          BY <2>4, <2>8, <3>9
        <5> QED
          BY <4>2, <5>1, <5>2, <5>3
      <4>4. IsPiece(s, c, z)
        BY <1>8, <4>2, <4>3 DEF IsPiece
      <4>5. Agree(u, s, d, cu)
        BY <3>7
      <4>6. PICK m : /\ Matched(s, rest, restu, m, z)
                     /\ CutAt(s, c, z) => ~IsEof(rest[m].kind)
                     /\ TailAt(s, c, z) => ~Semi(rest[m].kind)
        BY <1>2, <3>3, <3>4, <3>5, <3>6, <4>4, <4>5 DEF Agree
      <4>7. w[1].kind = r[1].kind /\ ~Ender(r[1].kind)
        BY <2>2, <2>4, <2>5, <2>8, <3>9, Enders DEF IsEof
      <4>8. Matched(s, r, w, m + 1, z) /\ r[m + 1] = rest[m]
        <5>1. /\ Len(rest) \in Nat /\ Len(r) = Len(rest) + 1
              /\ \A j \in 1 .. Len(rest) : r[j + 1] = rest[j]
          BY <3>3
        <5>2. /\ Len(restu) \in Nat /\ Len(w) = Len(restu) + 1
              /\ \A j \in 1 .. Len(restu) : w[j + 1] = restu[j]
          BY <3>4
        <5>3. Matched(s, rest, restu, m, z)
          BY <4>6
        <5>4. Matched(s, r, w, m + 1, z)
          BY <4>7, <5>1, <5>2, <5>3, MatchedOn
        <5>5. m \in 1 .. Len(rest)
          BY <5>1, <5>3 DEF Matched
        <5> QED
          BY <5>1, <5>4, <5>5
      <4> QED
        BY <4>2, <4>3, <4>6, <4>8
    <3> QED
      BY <3>8, <3>9
  <2> QED
    BY <2>7, <2>8
<1> QED
  BY <1>2, <1>7, <1>13, <1>14

\* The piece has the tokens that the text has there.
LEMMA PieceTokensAgree ==
  ASSUME NEW u, NEW s, NEW d \in Nat, Within(u, s, d)
  PROVE  \A v \in 1 .. Len(u) + 1 : Agree(u, s, d, v)
<1> DEFINE S == {v \in 1 .. Len(u) + 1 : Agree(u, s, d, v)}
<1>1. PICK n \in Nat : n = Len(u) + 1
  BY DEF Within
<1>2. \A v \in 1 .. n : (\A w \in v + 1 .. n : w \in S) => v \in S
  BY <1>1, AgreeStep
<1> HIDE DEF S
<1>3. \A v \in 1 .. n : v \in S
  BY <1>2, Backwards
<1> QED
  BY <1>1, <1>3 DEF S
=============================================================================
