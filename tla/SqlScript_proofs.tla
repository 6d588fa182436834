-------------------------- MODULE SqlScript_proofs --------------------------
(***************************************************************************)
(* Proofs about SqlScript, for scripts of every length and every capacity  *)
(* of the string buffer: the invariants of a run, and that the statements  *)
(* it executes are those the script means.                                 *)
(***************************************************************************)
EXTENDS SqlScript, SqlLexer_proofs

-----------------------------------------------------------------------------
(* Pieces of sequences.                                                    *)

Solid(s) == {p \in 1 .. Len(s) : s[p] \notin Blanks}

LEMMA SolidEnds ==
  ASSUME NEW s, Len(s) \in Nat, Solid(s) # {}
  PROVE  /\ Min(Solid(s)) \in Solid(s) /\ Max(Solid(s)) \in Solid(s)
         /\ Min(Solid(s)) <= Max(Solid(s))
<1>1. Solid(s) \in SUBSET Nat /\ Solid(s) \in SUBSET (0 .. Len(s))
  BY DEF Solid
<1>2. PICK a : a = Min(Solid(s))
  OBVIOUS
<1>3. PICK b : b = Max(Solid(s))
  OBVIOUS
<1>4. a \in Solid(s) /\ \A y \in Solid(s) : a <= y
  BY <1>1, <1>2, MinIsLeast
<1>5. b \in Solid(s)
  BY <1>1, <1>3, MaxIsGreatest
<1> QED
  BY <1>2, <1>3, <1>4, <1>5

\* A piece that ends with a `;' is not blank.
LEMMA TrimOf ==
  ASSUME NEW s \in Seq(Characters)
  PROVE  /\ Trim(s) \in Seq(Characters)
         /\ \A p \in 1 .. Len(s) : s[p] \notin Blanks => Trim(s) # <<>>
<1>1. Trim(s) = IF Solid(s) = {} THEN <<>> ELSE SubSeq(s, Min(Solid(s)), Max(Solid(s)))
  BY DEF Trim, Solid
<1>2. CASE Solid(s) = {}
  <2>1. \A p \in 1 .. Len(s) : s[p] \in Blanks
    BY <1>2 DEF Solid
  <2> QED
    BY <1>1, <1>2, <2>1
<1>3. CASE Solid(s) # {}
  <2>1. PICK a : a = Min(Solid(s))
    OBVIOUS
  <2>2. PICK b : b = Max(Solid(s))
    OBVIOUS
  <2>3. a \in Solid(s) /\ b \in Solid(s) /\ a <= b
    BY <1>3, <2>1, <2>2, SolidEnds
  <2>4. a \in Nat \ {0} /\ b \in Nat /\ b <= Len(s)
    BY <2>3 DEF Solid
  <2>5. SubSeq(s, a, b) \in Seq(Characters) /\ Len(SubSeq(s, a, b)) = (b - a) + 1
    BY <2>3, <2>4, CutOf
  <2>6. PICK q : q = SubSeq(s, a, b)
    OBVIOUS
  <2>7. q # <<>>
    BY <2>3, <2>4, <2>5, <2>6
  <2> QED
    BY <1>1, <1>3, <2>1, <2>2, <2>5, <2>6, <2>7
<1> QED
  BY <1>2, <1>3

LEMMA KindsOf ==
  ASSUME NEW ts \in Seq(LexerTokens)
  PROVE  Kinds(ts) \in Seq(TokenKinds)
<1>1. \A j \in 1 .. Len(ts) : ts[j].kind \in TokenKinds
  <2>1. \A t \in LexerTokens : t.kind \in TokenKinds
    BY DEF LexerTokens
  <2> QED
    BY <2>1
<1>2. Kinds(ts) = [j \in 1 .. Len(ts) |-> ts[j].kind]
  BY DEF Kinds
<1> QED
  BY <1>1, <1>2

LEMMA StatementOf ==
  ASSUME NEW t \in Seq(TokenKinds), Parses(t)
  PROVE  Statement(t) \in Seq(TokenKinds)
<1>1. SentenceEnds(t) \in SUBSET (1 .. Len(t)) /\ SentenceEnds(t) # {}
  BY DEF SentenceEnds, Parses
<1>2. PICK m : m = Min(SentenceEnds(t))
  OBVIOUS
<1>3. m \in SentenceEnds(t)
  BY <1>1, <1>2, MinIsLeast
<1>4. m \in Nat /\ m <= Len(t) /\ 1 \in Nat \ {0}
  BY <1>1, <1>3
<1>5. SubSeq(t, 1, m) \in Seq(TokenKinds)
  BY <1>4, CutOf
<1> QED
  BY <1>2, <1>5 DEF Statement

-----------------------------------------------------------------------------
(* The trace.                                                              *)

Started == {j \in 1 .. Len(trace) : trace[j].step = "statement_start"}

\* Events of other steps than the start of a statement.
Quiet(e) == IsSequence(e) /\ \A j \in 1 .. Len(e) : e[j].step # "statement_start"

LEMMA JoinOf ==
  ASSUME NEW s, NEW t, IsSequence(s), IsSequence(t)
  PROVE  /\ IsSequence(s \o t) /\ Len(s) \in Nat /\ Len(t) \in Nat
         /\ Len(s \o t) = Len(s) + Len(t)
         /\ \A j \in 1 .. Len(s) : (s \o t)[j] = s[j]
         /\ \A j \in 1 .. Len(t) : (s \o t)[Len(s) + j] = t[j]
<1> DEFINE S == {s[j] : j \in 1 .. Len(s)} \cup {t[j] : j \in 1 .. Len(t)}
<1>1. s \in Seq(S) /\ t \in Seq(S)
  <2>1. s \in Seq({s[j] : j \in 1 .. Len(s)}) /\ t \in Seq({t[j] : j \in 1 .. Len(t)})
    BY DEF IsSequence
  <2>2. /\ {s[j] : j \in 1 .. Len(s)} \subseteq S
        /\ {t[j] : j \in 1 .. Len(t)} \subseteq S
    OBVIOUS
  <2> HIDE DEF S
  <2> QED
    BY <2>1, <2>2, WiderSeq
<1> HIDE DEF S
<1>2. /\ s \o t \in Seq(S)
      /\ Len(s \o t) = Len(s) + Len(t)
      /\ \A j \in 1 .. Len(s) + Len(t) :
           (s \o t)[j] = IF j <= Len(s) THEN s[j] ELSE t[j - Len(s)]
  BY <1>1, ConcatProperties
<1>3. Len(s) \in Nat /\ Len(t) \in Nat
  BY <1>1
<1>4. IsSequence(s \o t)
  BY <1>2, SequenceOf
<1> QED
  BY <1>2, <1>3, <1>4

LEMMA QuietJoin ==
  ASSUME NEW d, NEW e, Quiet(d), Quiet(e)
  PROVE  Quiet(d \o e)
<1>1. /\ IsSequence(d \o e) /\ Len(d) \in Nat /\ Len(e) \in Nat
      /\ Len(d \o e) = Len(d) + Len(e)
      /\ \A j \in 1 .. Len(d) : (d \o e)[j] = d[j]
      /\ \A j \in 1 .. Len(e) : (d \o e)[Len(d) + j] = e[j]
  BY JoinOf DEF Quiet
<1>2. ASSUME NEW j \in 1 .. Len(d \o e)
      PROVE  (d \o e)[j].step # "statement_start"
  <2>1. CASE j \in 1 .. Len(d)
    BY <1>1, <2>1 DEF Quiet
  <2>2. CASE j \notin 1 .. Len(d)
    <3>1. PICK k \in 1 .. Len(e) : j = Len(d) + k
      <4>1. j - Len(d) \in 1 .. Len(e) /\ j = Len(d) + (j - Len(d))
        BY <1>1, <2>2
      <4> QED
        BY <4>1
    <3> QED
      BY <1>1, <3>1 DEF Quiet
  <2> QED
    BY <2>1, <2>2
<1> QED
  BY <1>1, <1>2 DEF Quiet

LEMMA QuietEvents ==
  /\ Quiet(<<>>)
  /\ \A a : a.step # "statement_start" => Quiet(<<a>>)
  /\ \A a, b : a.step # "statement_start" /\ b.step # "statement_start" => Quiet(<<a, b>>)
  /\ \A a, b, c : /\ a.step # "statement_start" /\ b.step # "statement_start"
                  /\ c.step # "statement_start"
                  => Quiet(<<a, b, c>>)
<1>1. Quiet(<<>>)
  BY DEF Quiet, IsSequence
<1>2. ASSUME NEW a, a.step # "statement_start"
      PROVE  Quiet(<<a>>)
  <2>1. <<a>> \in Seq({a})
    OBVIOUS
  <2>2. IsSequence(<<a>>)
    BY <2>1, SequenceOf
  <2> QED
    BY <1>2, <2>2 DEF Quiet
<1>3. ASSUME NEW a, NEW b, a.step # "statement_start", b.step # "statement_start"
      PROVE  Quiet(<<a, b>>)
  <2>1. <<a, b>> \in Seq({a, b})
    OBVIOUS
  <2>2. IsSequence(<<a, b>>)
    BY <2>1, SequenceOf
  <2> QED
    BY <1>3, <2>2 DEF Quiet
<1>4. ASSUME NEW a, NEW b, NEW c, a.step # "statement_start", b.step # "statement_start",
             c.step # "statement_start"
      PROVE  Quiet(<<a, b, c>>)
  <2>1. <<a, b, c>> \in Seq({a, b, c})
    OBVIOUS
  <2>2. IsSequence(<<a, b, c>>)
    BY <2>1, SequenceOf
  <2> QED
    BY <1>4, <2>2 DEF Quiet
<1> QED
  BY <1>1, <1>2, <1>3, <1>4

\* The events that are written in the course of a statement.
LEMMA EventSteps ==
  /\ \A t : LexerTokensAre(t).step # "statement_start"
  /\ \A d : ParserResult(d).step # "statement_start"
  /\ \A k : ExecutorCall(k).step # "statement_start"
  /\ \A c : End(c).step # "statement_start" /\ ProcessEnd(c).step # "statement_start"
  /\ BrokenLine.step # "statement_start"
BY DEF LexerTokensAre, ParserResult, ExecutorCall, End, ProcessEnd, BrokenLine, Event

\* Sequences of the same length with the same elements.
LEMMA EqualSeqs ==
  ASSUME NEW s, NEW t, IsSequence(s), IsSequence(t), Len(s) = Len(t),
         \A j \in 1 .. Len(s) : s[j] = t[j]
  PROVE  s = t
<1>1. Len(s) \in Nat /\ Len(t) \in Nat
  BY DEF IsSequence
<1>2. Len(s) <= Len(t)
  BY <1>1
<1> QED
  BY <1>2, PrefixOf

-----------------------------------------------------------------------------
(* A text in the trace.                                                    *)

Controls == {"nl", "cr", "tab", "ff", "ctl"}
Letters  == {"n", "r", "t", "u000c", "u0001"}
Plainly(t, p) == p <= Len(t) /\ t[p] \notin {"nl", "cr", "tab", "ff", "ctl", "dq", "bs"}

\* e stands for the character c: the character itself, or a backslash and what
\* means c after one.
Stands(e, c) ==
  \/ Len(e) = 1 /\ e[1] = c /\ c \notin Controls \cup {"dq", "bs"}
  \/ Len(e) = 2 /\ e[1] = "bs" /\ Meaning(e[2]) = c

LEMMA EscapeStands ==
  ASSUME NEW c \in Characters
  PROVE  /\ Escape(c) \in Seq((Characters \cup Letters) \ Controls)
         /\ Stands(Escape(c), c)
<1> DEFINE J == (Characters \cup Letters) \ Controls
<1>1. {"bs", "dq"} \cup Letters \subseteq J /\ (c \notin Controls => c \in J)
  BY DEF Letters, Controls, Characters, Foreign
<1>2. /\ Meaning("dq") = "dq" /\ Meaning("bs") = "bs" /\ Meaning("n") = "nl"
      /\ Meaning("r") = "cr" /\ Meaning("t") = "tab"
      /\ Meaning("u000c") = "ff" /\ Meaning("u0001") = "ctl"
  BY DEF Meaning
<1> HIDE DEF J
<1>3. ASSUME NEW y \in J
      PROVE  <<"bs", y>> \in Seq(J) /\ Len(<<"bs", y>>) = 2
             /\ <<"bs", y>>[1] = "bs" /\ <<"bs", y>>[2] = y
  <2>1. "bs" \in J
    BY <1>1
  <2> QED
    BY <2>1
<1>4. CASE c \in Controls \cup {"dq", "bs"}
  <2>1. \E y \in J : Escape(c) = <<"bs", y>> /\ Meaning(y) = c
    BY <1>1, <1>2, <1>4 DEF Escape, Controls, Letters
  <2>2. PICK y \in J : Escape(c) = <<"bs", y>> /\ Meaning(y) = c
    BY <2>1
  <2> QED
    BY <1>3, <2>2 DEF Stands, J
<1>5. CASE c \notin Controls \cup {"dq", "bs"}
  <2>1. Escape(c) = <<c>>
    BY <1>5 DEF Escape, Controls
  <2>2. c \in J
    BY <1>1, <1>5
  <2>3. <<c>> \in Seq(J) /\ Len(<<c>>) = 1 /\ <<c>>[1] = c
    BY <2>2
  <2> QED
    BY <1>5, <2>1, <2>3 DEF Stands, J
<1> QED
  BY <1>4, <1>5

IsWritten(s, f) ==
  f = [k \in 1 .. Len(s) + 1 |-> IF k > Len(s) THEN <<"dq">> ELSE Escape(s[k]) \o f[k + 1]]

IsRead(t, f) ==
  f = [p \in 1 .. Len(t) + 1 |->
         IF p = Len(t) /\ t[p] = "dq" THEN <<>>
         ELSE IF p < Len(t) /\ t[p] = "bs" THEN <<Meaning(t[p + 1])>> \o f[p + 2]
         ELSE IF Plainly(t, p) THEN <<t[p]>> \o f[p + 1]
         ELSE <<Unread>>]

\* What is written from the k-th character on, and what is read from p on.
WrittenFrom(s, k) == (CHOOSE f : IsWritten(s, f))[k]
ReadFrom(t, p)    == (CHOOSE f : IsRead(t, f))[p]

LEMMA WrittenIs ==
  ASSUME NEW s, Len(s) \in Nat
  PROVE  /\ json_write_string(s) = <<"dq">> \o WrittenFrom(s, 1)
         /\ \A k \in 1 .. Len(s) + 1 :
              WrittenFrom(s, k) = IF k > Len(s) THEN <<"dq">>
                                  ELSE Escape(s[k]) \o WrittenFrom(s, k + 1)
<1> DEFINE l  == Len(s)
           nx == [k \in 1 .. l + 1 |-> IF k > l THEN 0 ELSE k + 1]
           a  == [k \in 1 .. l + 1 |-> IF k > l THEN <<"dq">> ELSE Escape(s[k])]
           c  == CHOOSE f : IsWritten(s, f)
<1>1. \A k \in 1 .. l + 1 : nx[k] = IF k > l THEN 0 ELSE k + 1
  OBVIOUS
<1>2. \A k \in 1 .. l + 1 : a[k] = IF k > l THEN <<"dq">> ELSE Escape(s[k])
  OBVIOUS
<1> HIDE DEF nx, a
<1>3. l \in Nat /\ \A k \in 1 .. l + 1 : nx[k] \in Nat /\ (nx[k] # 0 => k < nx[k] /\ nx[k] <= l + 1)
  BY <1>1
<1>4. PICK f : IsWalk(l, nx, a, TRUE, f)
  <2> HIDE DEF l
  <2> QED
    BY <1>3, WalkEnds
<1>5. \A k \in 1 .. l + 1 :
        Walk(nx, a, TRUE, f, k) = IF k > l THEN <<"dq">> ELSE Escape(s[k]) \o f[k + 1]
  <2> TAKE k \in 1 .. l + 1
  <2>1. CASE k > l
    BY <1>1, <1>2, <2>1 DEF Walk
  <2>2. CASE ~(k > l)
    <3>1. nx[k] = k + 1 /\ nx[k] # 0 /\ a[k] = Escape(s[k])
      BY <1>1, <1>2, <2>2
    <3> QED
      BY <2>2, <3>1 DEF Walk
  <2> QED
    BY <2>1, <2>2
<1>6. IsWritten(s, f)
  BY <1>4, <1>5 DEF IsWritten, IsWalk
<1>7. IsWritten(s, c)
  BY <1>6
<1>8. json_write_string(s) = <<"dq">> \o c[1]
  BY DEF json_write_string, IsWritten
<1>9. \A k : WrittenFrom(s, k) = c[k]
  BY DEF WrittenFrom
<1> HIDE DEF c
<1> QED
  BY <1>7, <1>8, <1>9 DEF IsWritten

LEMMA ReadIs ==
  ASSUME NEW t, Len(t) \in Nat
  PROVE  /\ ParsedJson(t) = IF t # <<>> /\ t[1] = "dq" THEN ReadFrom(t, 2) ELSE <<Unread>>
         /\ \A p \in 1 .. Len(t) + 1 :
              ReadFrom(t, p) = IF p = Len(t) /\ t[p] = "dq" THEN <<>>
                               ELSE IF p < Len(t) /\ t[p] = "bs"
                                    THEN <<Meaning(t[p + 1])>> \o ReadFrom(t, p + 2)
                               ELSE IF Plainly(t, p) THEN <<t[p]>> \o ReadFrom(t, p + 1)
                               ELSE <<Unread>>
<1> DEFINE l  == Len(t)
           Ends(p) == p = l /\ t[p] = "dq"
           Two(p)  == p < l /\ t[p] = "bs"
           nx == [p \in 1 .. l + 1 |-> IF Ends(p) THEN 0 ELSE IF Two(p) THEN p + 2
                                       ELSE IF Plainly(t, p) THEN p + 1 ELSE 0]
           a  == [p \in 1 .. l + 1 |-> IF Ends(p) THEN <<>> ELSE IF Two(p) THEN <<Meaning(t[p + 1])>>
                                       ELSE IF Plainly(t, p) THEN <<t[p]>> ELSE <<Unread>>]
           c  == CHOOSE f : IsRead(t, f)
<1>1. \A p \in 1 .. l + 1 : nx[p] = IF Ends(p) THEN 0 ELSE IF Two(p) THEN p + 2
                                    ELSE IF Plainly(t, p) THEN p + 1 ELSE 0
  OBVIOUS
<1>2. \A p \in 1 .. l + 1 : a[p] = IF Ends(p) THEN <<>> ELSE IF Two(p) THEN <<Meaning(t[p + 1])>>
                                   ELSE IF Plainly(t, p) THEN <<t[p]>> ELSE <<Unread>>
  OBVIOUS
<1> HIDE DEF nx, a
<1>3. l \in Nat /\ \A p \in 1 .. l + 1 : nx[p] \in Nat /\ (nx[p] # 0 => p < nx[p] /\ nx[p] <= l + 1)
  BY <1>1 DEF Plainly
<1>4. PICK f : IsWalk(l, nx, a, TRUE, f)
  <2> HIDE DEF l
  <2> QED
    BY <1>3, WalkEnds
<1>5. \A p \in 1 .. l + 1 :
        Walk(nx, a, TRUE, f, p) = IF Ends(p) THEN <<>>
                                  ELSE IF Two(p) THEN <<Meaning(t[p + 1])>> \o f[p + 2]
                                  ELSE IF Plainly(t, p) THEN <<t[p]>> \o f[p + 1]
                                  ELSE <<Unread>>
  <2> TAKE p \in 1 .. l + 1
  <2>0. p + 1 # 0 /\ p + 2 # 0
    OBVIOUS
  <2> HIDE DEF Ends, Two
  <2> QED
    BY <1>1, <1>2, <2>0 DEF Walk
<1>6. IsRead(t, f)
  BY <1>4, <1>5 DEF IsRead, IsWalk
<1>7. IsRead(t, c)
  BY <1>6
<1>8. ParsedJson(t) = IF t # <<>> /\ t[1] = "dq" THEN c[2] ELSE <<Unread>>
  BY DEF ParsedJson, IsRead, Plainly
<1>9. \A p : ReadFrom(t, p) = c[p]
  BY DEF ReadFrom
<1> HIDE DEF c
<1>10. ASSUME NEW p \in 1 .. Len(t) + 1
       PROVE  ReadFrom(t, p) = IF p = Len(t) /\ t[p] = "dq" THEN <<>>
                               ELSE IF p < Len(t) /\ t[p] = "bs"
                                    THEN <<Meaning(t[p + 1])>> \o ReadFrom(t, p + 2)
                               ELSE IF Plainly(t, p) THEN <<t[p]>> \o ReadFrom(t, p + 1)
                               ELSE <<Unread>>
  <2>1. c[p] = IF p = Len(t) /\ t[p] = "dq" THEN <<>>
               ELSE IF p < Len(t) /\ t[p] = "bs" THEN <<Meaning(t[p + 1])>> \o c[p + 2]
               ELSE IF Plainly(t, p) THEN <<t[p]>> \o c[p + 1]
               ELSE <<Unread>>
    BY <1>7, <1>10 DEF IsRead
  <2>2. ReadFrom(t, p) = c[p] /\ ReadFrom(t, p + 1) = c[p + 1] /\ ReadFrom(t, p + 2) = c[p + 2]
    BY <1>9
  <2> QED
    BY <2>1, <2>2
<1> QED
  BY <1>8, <1>9, <1>10

\* From p on t goes on as w, to its end.
EndsWith(t, p, w) ==
  /\ Len(w) \in Nat /\ p + Len(w) = Len(t) + 1
  /\ \A j \in 1 .. Len(w) : t[(p + j) - 1] = w[j]

\* It does so with the parts of w.
LEMMA EndsWithParts ==
  ASSUME NEW S, NEW t \in Seq(S), NEW p \in Nat \ {0}, NEW u \in Seq(S), NEW w \in Seq(S),
         EndsWith(t, p, u \o w)
  PROVE  /\ \A j \in 1 .. Len(u) : t[(p + j) - 1] = u[j]
         /\ Len(u) \in Nat /\ p + Len(u) <= Len(t) + 1
         /\ EndsWith(t, p + Len(u), w)
<1>1. PICK v : v = u \o w
  OBVIOUS
<1>2. /\ Len(v) = Len(u) + Len(w) /\ Len(u) \in Nat /\ Len(w) \in Nat
      /\ \A j \in 1 .. Len(u) + Len(w) : v[j] = IF j <= Len(u) THEN u[j] ELSE w[j - Len(u)]
  BY <1>1, ConcatProperties, LenProperties
<1>3. p + Len(v) = Len(t) + 1 /\ \A j \in 1 .. Len(v) : t[(p + j) - 1] = v[j]
  BY <1>1 DEF EndsWith
<1>4. ASSUME NEW j \in 1 .. Len(u)
      PROVE  t[(p + j) - 1] = u[j]
  <2>1. j \in 1 .. Len(v) /\ j \in 1 .. Len(u) + Len(w) /\ j <= Len(u)
    BY <1>2
  <2> QED
    BY <1>2, <1>3, <2>1
<1>5. ASSUME NEW j \in 1 .. Len(w)
      PROVE  t[((p + Len(u)) + j) - 1] = w[j]
  <2>0. Len(u) + j \in 1 .. Len(v) /\ ~(Len(u) + j <= Len(u)) /\ (Len(u) + j) - Len(u) = j
    BY <1>2
  <2>1. PICK k \in 1 .. Len(v) : k = Len(u) + j /\ ~(k <= Len(u)) /\ k - Len(u) = j
    BY <2>0
  <2>2. t[(p + k) - 1] = w[j]
    BY <1>2, <1>3, <2>1
  <2>3. (p + k) - 1 = ((p + Len(u)) + j) - 1
    BY <1>2, <2>1
  <2> QED
    BY <2>2, <2>3
<1>6. (p + Len(u)) + Len(w) = Len(t) + 1 /\ p + Len(u) <= Len(t) + 1
  BY <1>2, <1>3
<1> QED
  BY <1>2, <1>4, <1>5, <1>6 DEF EndsWith

\* r is what s has from k on.
Remains(s, k, r) ==
  /\ IsSequence(r) /\ k + Len(r) = Len(s) + 1
  /\ \A j \in 1 .. Len(r) : r[j] = s[(k + j) - 1]

LEMMA OneMore ==
  ASSUME NEW s \in Seq(Characters), NEW k \in 1 .. Len(s), NEW r, Remains(s, k + 1, r)
  PROVE  Remains(s, k, <<s[k]>> \o r)
<1>1. PICK o : o = <<s[k]>>
  OBVIOUS
<1>2. IsSequence(o) /\ Len(o) = 1 /\ o[1] = s[k]
  <2>1. <<s[k]>> \in Seq({s[k]})
    OBVIOUS
  <2> QED
    BY <1>1, <2>1, SequenceOf
<1>3. IsSequence(r) /\ (k + 1) + Len(r) = Len(s) + 1
      /\ \A j \in 1 .. Len(r) : r[j] = s[((k + 1) + j) - 1]
  BY DEF Remains
<1>4. PICK v : v = o \o r
  OBVIOUS
<1>5. /\ IsSequence(v) /\ Len(r) \in Nat /\ Len(v) = 1 + Len(r) /\ v[1] = s[k]
      /\ \A j \in 1 .. Len(r) : v[1 + j] = r[j]
  <2>0. IsSequence(o) /\ IsSequence(r)
    BY <1>2, <1>3
  <2>1. /\ IsSequence(o \o r) /\ Len(o) \in Nat /\ Len(r) \in Nat
        /\ Len(o \o r) = Len(o) + Len(r)
        /\ \A j \in 1 .. Len(o) : (o \o r)[j] = o[j]
        /\ \A j \in 1 .. Len(r) : (o \o r)[Len(o) + j] = r[j]
    BY <2>0, JoinOf
  <2>2. 1 \in 1 .. Len(o)
    BY <1>2
  <2>3. v[1] = o[1]
    BY <1>4, <2>1, <2>2
  <2> QED
    BY <1>2, <1>4, <2>1, <2>3
<1>6. k + Len(v) = Len(s) + 1
  BY <1>3, <1>5
<1>7. ASSUME NEW j \in 1 .. Len(v)
      PROVE  v[j] = s[(k + j) - 1]
  <2>1. CASE j = 1
    <3>1. (k + j) - 1 = k
      BY <2>1
    <3> QED
      BY <1>5, <2>1, <3>1
  <2>2. CASE j # 1
    <3>1. PICK h \in 1 .. Len(r) : j = 1 + h /\ ((k + 1) + h) - 1 = (k + j) - 1
      <4>1. j - 1 \in 1 .. Len(r) /\ j = 1 + (j - 1) /\ ((k + 1) + (j - 1)) - 1 = (k + j) - 1
        BY <1>5, <2>2
      <4> QED
        BY <4>1
    <3> QED
      BY <1>3, <1>5, <3>1
  <2> QED
    BY <2>1, <2>2
<1> QED
  BY <1>1, <1>4, <1>5, <1>6, <1>7 DEF Remains

\* What json_write_string wrote is read back.
LEMMA WrittenRead ==
  ASSUME NEW s \in Seq(Characters), NEW S, S = (Characters \cup Letters) \ Controls
  PROVE  \A k \in 1 .. Len(s) + 1 :
           /\ WrittenFrom(s, k) \in Seq(S)
           /\ \A t \in Seq(S) : \A p \in Nat \ {0} :
                EndsWith(t, p, WrittenFrom(s, k)) => Remains(s, k, ReadFrom(t, p))
<1> DEFINE W(k) == WrittenFrom(s, k)
           Good(k) == /\ W(k) \in Seq(S)
                      /\ \A t \in Seq(S) : \A p \in Nat \ {0} :
                           EndsWith(t, p, W(k)) => Remains(s, k, ReadFrom(t, p))
           G == {k \in 1 .. Len(s) + 1 : Good(k)}
<1>0. Len(s) \in Nat
  OBVIOUS
<1>1. \A k \in 1 .. Len(s) + 1 : W(k) = IF k > Len(s) THEN <<"dq">> ELSE Escape(s[k]) \o W(k + 1)
  BY <1>0, WrittenIs
<1> HIDE DEF W
<1>2. ASSUME NEW k \in 1 .. Len(s) + 1, k > Len(s)
      PROVE  Good(k)
  <2>0. "dq" \in S
    BY DEF Characters, Foreign, Controls
  <2>1. W(k) = <<"dq">>
    BY <1>1, <1>2
  <2>2. PICK q : q = <<"dq">>
    OBVIOUS
  <2>3. q \in Seq(S) /\ Len(q) = 1 /\ q[1] = "dq"
    BY <2>0, <2>2
  <2>4. ASSUME NEW t \in Seq(S), NEW p \in Nat \ {0}, EndsWith(t, p, q)
        PROVE  Remains(s, k, ReadFrom(t, p))
    <3>1. p + 1 = Len(t) + 1 /\ t[(p + 1) - 1] = "dq" /\ Len(t) \in Nat
      BY <2>3, <2>4 DEF EndsWith
    <3>2. p = Len(t) /\ t[p] = "dq" /\ p \in 1 .. Len(t) + 1
      BY <3>1
    <3>3. ReadFrom(t, p) = <<>>
      BY <3>1, <3>2, ReadIs
    <3>4. IsSequence(<<>>) /\ Len(<<>>) = 0
      BY DEF IsSequence
    <3>5. k + 0 = Len(s) + 1
      BY <1>0, <1>2
    <3> QED
      BY <3>3, <3>4, <3>5 DEF Remains
  <2> QED
    BY <2>1, <2>2, <2>3, <2>4
<1>3. ASSUME NEW k \in 1 .. Len(s), Good(k + 1)
      PROVE  Good(k)
  <2>1. PICK e, w : e = Escape(s[k]) /\ w = W(k + 1)
    OBVIOUS
  <2>2. e \in Seq(S) /\ Stands(e, s[k])
    <3>1. s[k] \in Characters
      BY <1>0
    <3> QED
      BY <2>1, <3>1, EscapeStands
  <2>3. W(k) = e \o w /\ w \in Seq(S)
    <3>1. k \in 1 .. Len(s) + 1 /\ ~(k > Len(s))
      BY <1>0
    <3>2. W(k) = Escape(s[k]) \o W(k + 1)
      BY <1>1, <3>1
    <3>3. W(k + 1) \in Seq(S)
      BY <1>3
    <3> QED
      BY <2>1, <3>2, <3>3
  <2>4. W(k) \in Seq(S)
    BY <2>2, <2>3, ConcatProperties
  <2>5. ASSUME NEW t \in Seq(S), NEW p \in Nat \ {0}, EndsWith(t, p, e \o w)
        PROVE  Remains(s, k, ReadFrom(t, p))
    <3>1. /\ \A j \in 1 .. Len(e) : t[(p + j) - 1] = e[j]
          /\ Len(e) \in Nat /\ p + Len(e) <= Len(t) + 1
          /\ EndsWith(t, p + Len(e), w)
      BY <2>2, <2>3, <2>5, EndsWithParts
    <3>2. PICK g \in Nat \ {0} : g = p + Len(e)
      BY <3>1
    <3>3. Remains(s, k + 1, ReadFrom(t, g))
      BY <1>3, <2>1, <3>1, <3>2
    <3>4. Remains(s, k, <<s[k]>> \o ReadFrom(t, g))
      BY <3>3, OneMore
    <3>5. Len(t) \in Nat
      OBVIOUS
    <3>6. CASE Len(e) = 1 /\ e[1] = s[k] /\ s[k] \notin Controls \cup {"dq", "bs"}
      <4>1. g = p + 1 /\ p <= Len(t) /\ p \in 1 .. Len(t) + 1
        BY <3>1, <3>2, <3>5, <3>6
      <4>2. t[p] = s[k]
        <5>1. (p + 1) - 1 = p /\ 1 \in 1 .. Len(e)
          BY <3>6
        <5> QED
          BY <3>1, <3>6, <5>1
      <4>3. Plainly(t, p) /\ t[p] # "dq" /\ t[p] # "bs"
        BY <3>6, <4>1, <4>2 DEF Plainly, Controls
      <4>4. ReadFrom(t, p) = <<s[k]>> \o ReadFrom(t, g)
        BY <3>5, <4>1, <4>2, <4>3, ReadIs
      <4> QED
        BY <3>4, <4>4
    <3>7. CASE Len(e) = 2 /\ e[1] = "bs" /\ Meaning(e[2]) = s[k]
      <4>1. g = p + 2 /\ p < Len(t) /\ p \in 1 .. Len(t) + 1
        BY <3>1, <3>2, <3>5, <3>7
      <4>2. t[p] = "bs" /\ t[p + 1] = e[2]
        <5>1. (p + 1) - 1 = p /\ (p + 2) - 1 = p + 1 /\ 1 \in 1 .. Len(e) /\ 2 \in 1 .. Len(e)
          BY <3>7
        <5> QED
          BY <3>1, <3>7, <5>1
      <4>3. t[p] # "dq"
        BY <4>2
      <4>4. ReadFrom(t, p) = <<s[k]>> \o ReadFrom(t, g)
        BY <3>5, <3>7, <4>1, <4>2, <4>3, ReadIs
      <4> QED
        BY <3>4, <4>4
    <3> QED
      BY <2>2, <3>6, <3>7 DEF Stands
  <2> QED
    BY <2>3, <2>4, <2>5
<1>4. ASSUME NEW k \in 1 .. Len(s) + 1, \A q \in k + 1 .. Len(s) + 1 : q \in G
      PROVE  k \in G
  <2> HIDE DEF Good
  <2>1. CASE k > Len(s)
    BY <1>2, <2>1
  <2>2. CASE k <= Len(s)
    <3>1. k \in 1 .. Len(s) /\ k + 1 \in k + 1 .. Len(s) + 1
      BY <1>0, <2>2
    <3>2. Good(k + 1)
      BY <1>4, <3>1
    <3> QED
      BY <1>3, <3>1, <3>2
  <2> QED
    BY <1>0, <2>1, <2>2
<1>5. PICK n \in Nat : n = Len(s) + 1
  BY <1>0
<1>6. \A k \in 1 .. n : (\A q \in k + 1 .. n : q \in G) => k \in G
  BY <1>4, <1>5
<1> HIDE DEF G
<1>7. \A k \in 1 .. n : k \in G
  BY <1>6, Backwards
<1> QED
  BY <1>5, <1>7 DEF G, W

\* A text in the trace has no line feed, and is the statement when it is read
\* back.
LineOf(t, s) == "nl" \notin ToSet(t) /\ ParsedJson(t) = s

LEMMA LineOfPiece ==
  ASSUME NEW s \in Seq(Characters)
  PROVE  LineOf(json_write_string(s), s)
<1>0. Len(s) \in Nat
  OBVIOUS
<1>1. PICK S : S = (Characters \cup Letters) \ Controls
  OBVIOUS
<1>2. "dq" \in S /\ "nl" \notin S
  BY <1>1 DEF Characters, Foreign, Controls
<1>3. PICK w, t : w = WrittenFrom(s, 1) /\ t = json_write_string(s)
  OBVIOUS
<1>4. /\ w \in Seq(S)
      /\ \A p \in Nat \ {0} : \A y \in Seq(S) : EndsWith(y, p, w) => Remains(s, 1, ReadFrom(y, p))
  <2>1. 1 \in 1 .. Len(s) + 1
    BY <1>0
  <2> QED
    BY <1>1, <1>3, <2>1, WrittenRead
<1>5. t = <<"dq">> \o w
  BY <1>0, <1>3, WrittenIs
<1>6. /\ t \in Seq(S) /\ Len(t) = Len(w) + 1 /\ Len(w) \in Nat /\ t[1] = "dq"
      /\ \A j \in 1 .. Len(w) : t[j + 1] = w[j]
  BY <1>2, <1>4, <1>5, OneAndRest
<1>7. EndsWith(t, 2, w)
  <2>1. \A j \in 1 .. Len(w) : (2 + j) - 1 = j + 1
    OBVIOUS
  <2> QED
    BY <1>6, <2>1 DEF EndsWith
<1>8. Remains(s, 1, ReadFrom(t, 2))
  BY <1>4, <1>6, <1>7
<1>9. ParsedJson(t) = ReadFrom(t, 2)
  <2>1. Len(t) \in Nat /\ t # <<>>
    BY <1>6
  <2> QED
    BY <1>6, <2>1, ReadIs
<1>10. ReadFrom(t, 2) = s
  <2>1. PICK r : r = ReadFrom(t, 2)
    OBVIOUS
  <2>2. IsSequence(r) /\ 1 + Len(r) = Len(s) + 1 /\ \A j \in 1 .. Len(r) : r[j] = s[(1 + j) - 1]
    BY <1>8, <2>1 DEF Remains
  <2>3. Len(r) \in Nat
    BY <2>2 DEF IsSequence
  <2>4. Len(r) = Len(s)
    BY <1>0, <2>2, <2>3
  <2>5. \A j \in 1 .. Len(r) : (1 + j) - 1 = j
    BY <2>3
  <2>6. \A j \in 1 .. Len(r) : r[j] = s[j]
    BY <2>2, <2>5
  <2>7. IsSequence(s)
    BY SequenceOf
  <2> QED
    BY <2>1, <2>2, <2>4, <2>6, <2>7, EqualSeqs
<1>11. "nl" \notin ToSet(t)
  BY <1>2, <1>6 DEF ToSet
<1> QED
  BY <1>3, <1>9, <1>10, <1>11 DEF LineOf

-----------------------------------------------------------------------------
(* The invariant of a run.                                                 *)

ScriptTypes ==
  /\ script \in Seq(Characters) /\ traced \in BOOLEAN
  /\ pc \in {"open", "scan", "statement", "lex", "execute", "exit"}
  /\ in_string \in BOOLEAN
  /\ piece \in Seq(Characters)
  /\ done \in Seq(Seq(TokenKinds))
  /\ rc \in {0, 2, 3}

\* The parsers took what is executed.
TakenInv == pc = "execute" => Parses(PieceTokens)

\* Only a BOM is read before the first piece starts.
OnBom == start = 2 /\ i = 1 /\ script[1] = "bom"

\* Nothing of a piece is before its start, and each piece has a character.
CutInv ==
  /\ start \in 1 .. Len(script) + 1 /\ i \in 1 .. Len(script) + 1
  /\ start <= i \/ OnBom
  /\ stmt_no \in Nat /\ stmt_no <= start - 1

AllRead == start > Len(script) /\ i > Len(script)

\* The piece at work is the first that was not executed; only the last can be
\* blank.
NumberInv ==
  /\ pc = "open" => stmt_no = 0 /\ done = <<>>
  /\ pc \in {"statement", "lex", "execute"} => stmt_no = Len(done) + 1
  /\ pc = "scan" => stmt_no = Len(done) \/ AllRead
  /\ pc = "statement" /\ piece = <<>> => AllRead
  /\ pc = "exit" /\ rc # 0 /\ stmt_no > 0 => stmt_no = Len(done) + 1

\* What the start of a statement tells; that of the piece at work can be read
\* back.
StartTrue(e) ==
  /\ e.no \in Nat /\ e.no <= stmt_no
  /\ pc = "statement" => e.no < stmt_no
  /\ "nl" \notin ToSet(e.data)
  /\ e.no = stmt_no => LineOf(e.data, piece)

TraceInv == IsSequence(trace) /\ \A j \in Started : StartTrue(trace[j])

SInv == ScriptTypes /\ TakenInv /\ CutInv /\ NumberInv /\ TraceInv /\ LexInv

LEMMA SInvInit == Init => SInv
<1> HAVE Init
<1>1. /\ script \in Seq(Characters) /\ traced \in BOOLEAN
      /\ pc = "open" /\ i = 1 /\ start = 1 /\ in_string = FALSE
      /\ stmt_no = 0 /\ piece = <<>> /\ done = <<>> /\ rc = 0 /\ trace = <<>>
  BY ScriptAssumption DEF Init
<1>2. LexInv
  BY LexOff DEF Init
<1>3. ScriptTypes
  <2>1. piece \in Seq(Characters) /\ done \in Seq(Seq(TokenKinds))
    BY <1>1
  <2>2. in_string \in BOOLEAN /\ rc \in {0, 2, 3}
    BY <1>1
  <2> QED
    BY <1>1, <2>1, <2>2 DEF ScriptTypes
<1>7. TakenInv
  BY <1>1 DEF TakenInv
<1>5. CutInv
  <2>1. Len(script) \in Nat
    BY <1>1
  <2> QED
    BY <1>1, <2>1 DEF CutInv
<1>6. NumberInv
  BY <1>1 DEF NumberInv
<1>4. TraceInv
  BY <1>1 DEF TraceInv, IsSequence, Started
<1> QED
  BY <1>2, <1>3, <1>4, <1>5, <1>6, <1>7 DEF SInv

-----------------------------------------------------------------------------
(* Writing the trace.                                                      *)

\* What is written in the course of a statement leaves the invariant.
LEMMA WriteQuiet ==
  ASSUME TraceInv, NEW e, Quiet(e), Write(e), stmt_no' = stmt_no, piece' = piece,
         pc' # "statement"
  PROVE  TraceInv'
<1>1. CASE traced /\ trace' = trace \o e
  <2>1. /\ IsSequence(trace') /\ Len(trace) \in Nat /\ Len(e) \in Nat
        /\ Len(trace') = Len(trace) + Len(e)
        /\ \A j \in 1 .. Len(trace) : trace'[j] = trace[j]
        /\ \A j \in 1 .. Len(e) : trace'[Len(trace) + j] = e[j]
    BY <1>1, JoinOf DEF TraceInv, Quiet
  <2>2. ASSUME NEW j \in 1 .. Len(trace'), trace'[j].step = "statement_start"
        PROVE  StartTrue(trace[j]) /\ trace'[j] = trace[j]
    <3>1. CASE j \in 1 .. Len(trace)
      BY <2>1, <2>2, <3>1 DEF TraceInv, Started
    <3>2. CASE j \notin 1 .. Len(trace)
      <4>1. PICK k \in 1 .. Len(e) : j = Len(trace) + k
        <5>1. j - Len(trace) \in 1 .. Len(e) /\ j = Len(trace) + (j - Len(trace))
          BY <2>1, <3>2
        <5> QED
          BY <5>1
      <4> QED
        BY <2>1, <2>2, <4>1 DEF Quiet
    <3> QED
      BY <3>1, <3>2
  <2>3. \A j \in Started' : StartTrue(trace[j])'
    BY <2>2 DEF Started, StartTrue
  <2> QED
    BY <2>1, <2>3 DEF TraceInv
<1>2. CASE trace' = trace
  BY <1>2 DEF TraceInv, Started, StartTrue
<1> QED
  BY <1>1, <1>2 DEF Write

LEMMA TraceStays ==
  ASSUME TraceInv, trace' = trace, stmt_no' = stmt_no, piece' = piece, pc' # "statement"
  PROVE  TraceInv'
BY DEF TraceInv, Started, StartTrue

\* A new piece has a number that nothing in the trace has.
LEMMA TraceOfOthers ==
  ASSUME TraceInv, trace' = trace, stmt_no \in Nat, stmt_no' = stmt_no + 1
  PROVE  TraceInv'
<1>1. ASSUME NEW j \in Started
      PROVE  StartTrue(trace[j])'
  <2>1. trace[j].no \in Nat /\ trace[j].no <= stmt_no /\ "nl" \notin ToSet(trace[j].data)
    BY DEF TraceInv, StartTrue
  <2>2. trace[j].no < stmt_no + 1
    BY <2>1
  <2> QED
    BY <2>1, <2>2 DEF StartTrue
<1> QED
  BY <1>1 DEF TraceInv, Started

LEMMA WriteStart ==
  ASSUME TraceInv, pc = "statement", piece \in Seq(Characters), stmt_no \in Nat,
         Write(<<Start>>), stmt_no' = stmt_no, piece' = piece, pc' = "lex"
  PROVE  TraceInv'
<1>1. CASE traced /\ trace' = trace \o <<Start>>
  <2>1. IsSequence(<<Start>>) /\ Len(<<Start>>) = 1 /\ <<Start>>[1] = Start
    <3>1. <<Start>> \in Seq({Start})
      OBVIOUS
    <3> QED
      BY <3>1, SequenceOf
  <2>2. /\ IsSequence(trace') /\ Len(trace) \in Nat
        /\ Len(trace') = Len(trace) + 1
        /\ \A j \in 1 .. Len(trace) : trace'[j] = trace[j]
        /\ trace'[Len(trace) + 1] = Start
    BY <1>1, <2>1, JoinOf DEF TraceInv
  <2>3. Start.no = stmt_no /\ Start.data = json_write_string(piece)
    BY DEF Start, Event
  <2>4. LineOf(json_write_string(piece), piece)
    BY LineOfPiece
  <2>5. ASSUME NEW j \in Started'
        PROVE  StartTrue(trace[j])'
    <3>1. CASE j \in 1 .. Len(trace)
      <4>1. trace'[j] = trace[j] /\ j \in Started
        BY <2>2, <2>5, <3>1 DEF Started
      <4> QED
        BY <4>1 DEF TraceInv, StartTrue
    <3>2. CASE j = Len(trace) + 1
      <4>1. trace'[j] = Start
        BY <2>2, <3>2
      <4> QED
        BY <2>3, <2>4, <4>1 DEF StartTrue, LineOf
    <3> QED
      BY <2>2, <3>1, <3>2 DEF Started
  <2> QED
    BY <2>2, <2>5 DEF TraceInv
<1>2. CASE trace' = trace
  BY <1>2 DEF TraceInv, Started, StartTrue
<1> QED
  BY <1>1, <1>2 DEF Write

-----------------------------------------------------------------------------
(* The steps.                                                              *)

\* The cutter goes on by one or two characters.
LEMMA ScanStep ==
  ASSUME SInv, NEW k \in {1, 2}, Step(k), Scanning, i + k <= Len(script) + 1,
         in_string' \in BOOLEAN
  PROVE  SInv'
<1>1. /\ i' = i + k /\ pc = "scan" /\ i <= Len(script)
      /\ UNCHANGED <<script, traced, pc, start, stmt_no, piece, done, rc, trace, lexer_vars>>
  BY DEF Step, Scanning, input
<1>2. /\ Len(script) \in Nat /\ i \in 1 .. Len(script) + 1 /\ start \in 1 .. Len(script) + 1
      /\ start <= i \/ (start = 2 /\ i = 1)
      /\ stmt_no \in Nat /\ stmt_no <= start - 1
  BY DEF SInv, ScriptTypes, CutInv, OnBom
<1>3. ScriptTypes'
  BY <1>1 DEF SInv, ScriptTypes
<1>4. TakenInv'
  BY <1>1 DEF TakenInv
<1>5. CutInv'
  <2>1. start <= i + k /\ i + k \in 1 .. Len(script) + 1
    BY <1>2
  <2> QED
    BY <1>1, <1>2, <2>1 DEF CutInv
<1>6. NumberInv'
  <2>1. stmt_no = Len(done)
    BY <1>1, <1>2 DEF SInv, NumberInv, AllRead
  <2> QED
    BY <1>1, <2>1 DEF NumberInv
<1>7. TraceInv'
  BY <1>1, TraceStays DEF SInv
<1>8. LexInv'
  BY <1>1, LexStays DEF SInv
<1> QED
  BY <1>3, <1>4, <1>5, <1>6, <1>7, <1>8 DEF SInv

LEMMA ScanningSteps ==
  ASSUME SInv, EscapedQuote \/ CloseString \/ OpenString \/ OtherChar
  PROVE  SInv'
<1>1. Len(script) \in Nat /\ i \in 1 .. Len(script) + 1 /\ in_string \in BOOLEAN
  BY DEF SInv, ScriptTypes, CutInv
<1>2. CASE EscapedQuote
  <2>1. Scanning /\ Step(2) /\ in_string' = in_string /\ i < Len(script)
    BY <1>2 DEF EscapedQuote, PairedQuote
  <2>2. i + 2 <= Len(script) + 1 /\ 2 \in {1, 2}
    BY <1>1, <2>1
  <2> QED
    BY <1>1, <2>1, <2>2, ScanStep
<1>3. CASE CloseString \/ OpenString \/ OtherChar
  <2>1. Scanning /\ Step(1) /\ in_string' \in BOOLEAN
    BY <1>1, <1>3 DEF CloseString, OpenString, OtherChar
  <2>2. i + 1 <= Len(script) + 1 /\ 1 \in {1, 2}
    BY <1>1, <2>1 DEF Scanning
  <2> QED
    BY <2>1, <2>2, ScanStep
<1> QED
  BY <1>2, <1>3

EndsPiece(to) == script[to] = ";" \/ to = Len(script)

\* A piece is cut, up to its `;' or to the end of the script.
LEMMA CutStep ==
  ASSUME SInv, pc = "scan", stmt_no = Len(done), NEW to \in Nat, start <= to, to <= Len(script),
         EndsPiece(to), Cut(to), in_string' = in_string
  PROVE  SInv'
<1>1. /\ stmt_no' = stmt_no + 1 /\ piece' = Trim(SubSeq(script, start, to))
      /\ pc' = "statement" /\ start' = to + 1 /\ i' = to + 1
      /\ UNCHANGED <<script, traced, done, rc, trace, lexer_vars>>
  BY DEF Cut, input
<1>2. /\ Len(script) \in Nat /\ start \in Nat \ {0} /\ stmt_no \in Nat /\ stmt_no <= start - 1
  BY DEF SInv, ScriptTypes, CutInv
<1>13. script \in Seq(Characters) /\ TraceInv
  BY DEF SInv, ScriptTypes
<1>3. /\ SubSeq(script, start, to) \in Seq(Characters)
      /\ Len(SubSeq(script, start, to)) = (to - start) + 1
      /\ \A j \in 1 .. (to - start) + 1 : SubSeq(script, start, to)[j] = script[(start + j) - 1]
  BY <1>2, <1>13, CutOf
<1>4. PICK s \in Seq(Characters) : s = SubSeq(script, start, to)
  BY <1>3
<1>5. piece' \in Seq(Characters)
  BY <1>1, <1>4, TrimOf
<1>6. script[to] = ";" => piece' # <<>>
  <2>1. PICK j \in Nat : j = (to - start) + 1 /\ j >= 1
    <3>1. (to - start) + 1 \in Nat /\ (to - start) + 1 >= 1
      BY <1>2
    <3> QED
      BY <3>1
  <2>5. j \in 1 .. Len(s)
    BY <1>3, <1>4, <2>1
  <2>2. s[j] = script[to]
    <3>1. (start + j) - 1 = to /\ j \in 1 .. (to - start) + 1
      BY <1>2, <2>1
    <3> QED
      BY <1>3, <1>4, <3>1
  <2>3. ";" \notin Blanks
    BY DEF Blanks, Space
  <2>4. script[to] = ";" => s[j] \notin Blanks
    BY <2>2, <2>3
  <2> QED
    BY <1>1, <1>4, <2>4, <2>5, TrimOf
<1>7. ScriptTypes'
  BY <1>1, <1>5 DEF SInv, ScriptTypes
<1>8. TakenInv'
  BY <1>1 DEF TakenInv
<1>9. CutInv'
  <2>1. to + 1 \in 1 .. Len(script) + 1 /\ stmt_no + 1 \in Nat /\ stmt_no + 1 <= (to + 1) - 1
    BY <1>2
  <2> QED
    BY <1>1, <2>1 DEF CutInv
<1>10. NumberInv'
  <2>1. piece' = <<>> => AllRead'
    <3>1. CASE to = Len(script)
      BY <1>1, <1>2, <3>1 DEF AllRead
    <3>2. CASE script[to] = ";"
      BY <1>6, <3>2
    <3> QED
      BY <3>1, <3>2 DEF EndsPiece
  <2> QED
    BY <1>1, <2>1 DEF NumberInv
<1>11. TraceInv'
  BY <1>1, <1>2, <1>13, TraceOfOthers
<1>12. LexInv'
  BY <1>1, LexStays DEF SInv
<1> QED
  BY <1>7, <1>8, <1>9, <1>10, <1>11, <1>12 DEF SInv

LEMMA CuttingSteps ==
  ASSUME SInv, Semicolon \/ LastPiece
  PROVE  SInv'
<1>1. /\ Len(script) \in Nat /\ i \in 1 .. Len(script) + 1 /\ start \in 1 .. Len(script) + 1
      /\ start <= i \/ OnBom
      /\ pc = "scan" => stmt_no = Len(done) \/ AllRead
  BY DEF SInv, ScriptTypes, CutInv, NumberInv
<1>2. CASE Semicolon
  <2>1. /\ pc = "scan" /\ i <= Len(script) /\ Cut(i) /\ in_string' = in_string
    BY <1>2 DEF Semicolon, Scanning
  <2>5. script[i] = ";"
    BY <1>2 DEF Semicolon
  <2>3. ~OnBom /\ EndsPiece(i)
    BY <2>5 DEF OnBom, EndsPiece
  <2>4. ~AllRead
    BY <1>1, <2>1 DEF AllRead
  <2>2. start <= i /\ i \in Nat /\ stmt_no = Len(done)
    BY <1>1, <2>1, <2>3, <2>4
  <2> QED
    BY <2>1, <2>2, <2>3, CutStep
<1>3. CASE LastPiece
  <2>1. pc = "scan" /\ start <= Len(script) /\ Cut(Len(script)) /\ in_string' = in_string
    BY <1>3 DEF LastPiece, AtEnd
  <2>2. stmt_no = Len(done) /\ Len(script) <= Len(script) /\ EndsPiece(Len(script))
    BY <1>1, <2>1 DEF AllRead, EndsPiece
  <2> QED
    BY <1>1, <2>1, <2>2, CutStep
<1> QED
  BY <1>2, <1>3

\* A run ends: with 0 after the last piece, with an error at a piece that was
\* not executed, or before the first.
LEMMA ExitStep ==
  ASSUME SInv, NEW e, Quiet(e), NEW c \in {0, 2, 3}, pc' = "exit", rc' = c,
         Write(e), UNCHANGED <<input, traced, cut, done, lexer_vars>>,
         c # 0 => pc \in {"open", "statement", "lex", "execute"}
  PROVE  SInv'
<1>1. UNCHANGED <<script, i, start, in_string, stmt_no, piece, done>>
  BY DEF input, cut
<1>2. ScriptTypes'
  BY <1>1 DEF SInv, ScriptTypes
<1>3. TakenInv'
  BY DEF TakenInv
<1>4. CutInv'
  BY <1>1 DEF SInv, CutInv, OnBom
<1>5. NumberInv'
  <2>1. c # 0 /\ stmt_no > 0 => stmt_no = Len(done) + 1
    BY DEF SInv, NumberInv
  <2> QED
    BY <1>1, <2>1 DEF NumberInv
<1>6. TraceInv'
  BY <1>1, WriteQuiet DEF SInv
<1>7. LexInv'
  BY LexStays DEF SInv
<1> QED
  BY <1>2, <1>3, <1>4, <1>5, <1>6, <1>7 DEF SInv

LEMMA ExitingSteps ==
  ASSUME SInv, OpenFails \/ NoTraceFile \/ Finish \/ NoMemoryForTrace \/ ParseError \/ ExecFails
  PROVE  SInv'
<1>1. Quiet(<<>>) /\ \A c : Quiet(<<ProcessEnd(c)>>) /\ Quiet(<<End(c)>>) /\ Quiet(<<BrokenLine>>)
  BY QuietEvents, EventSteps
<1>2. \A c, e : Quiet(e) => Quiet(e \o <<ProcessEnd(c)>>)
  BY <1>1, QuietJoin
<1>3. 0 \in {0, 2, 3} /\ 2 \in {0, 2, 3} /\ 3 \in {0, 2, 3}
  OBVIOUS
<1>4. CASE OpenFails
  <2>1. /\ pc = "open" /\ pc' = "exit" /\ rc' = 3 /\ Write(<<>> \o <<ProcessEnd(3)>>)
        /\ UNCHANGED <<input, traced, cut, done, lexer_vars>>
    BY <1>4 DEF OpenFails, Exit
  <2>2. Quiet(<<>> \o <<ProcessEnd(3)>>)
    BY <1>1, <1>2
  <2> QED
    BY <1>3, <2>1, <2>2, ExitStep
<1>5. CASE NoTraceFile
  <2>1. /\ pc = "open" /\ pc' = "exit" /\ rc' = 3 /\ trace' = trace
        /\ UNCHANGED <<input, traced, cut, done, lexer_vars>>
    BY <1>5 DEF NoTraceFile
  <2>2. Write(<<>>)
    <3>1. trace \in Seq({trace[j] : j \in 1 .. Len(trace)})
      BY DEF SInv, TraceInv, IsSequence
    <3>2. trace \o <<>> = trace
      BY <3>1, ConcatEmptySeq
    <3> QED
      BY <2>1, <3>2 DEF Write
  <2> QED
    BY <1>1, <1>3, <2>1, <2>2, ExitStep
<1>6. CASE Finish
  <2>1. /\ pc' = "exit" /\ rc' = 0 /\ Write(<<>> \o <<ProcessEnd(0)>>)
        /\ UNCHANGED <<input, traced, cut, done, lexer_vars>>
    BY <1>6 DEF Finish, Exit
  <2>2. Quiet(<<>> \o <<ProcessEnd(0)>>)
    BY <1>1, <1>2
  <2> QED
    BY <1>3, <2>1, <2>2, ExitStep
<1>7. CASE NoMemoryForTrace
  <2>1. /\ pc = "statement" /\ pc' = "exit" /\ rc' = 3 /\ Write(<<BrokenLine>>)
        /\ UNCHANGED <<input, traced, cut, done, lexer_vars>>
    BY <1>7 DEF NoMemoryForTrace
  <2> QED
    BY <1>1, <1>3, <2>1, ExitStep
<1>8. CASE ParseError
  <2>1. PICK t : /\ pc = "lex" /\ pc' = "exit" /\ rc' = 2
                 /\ Write(<<LexerTokensAre(t), ParserResult(<<"none">>), End(2)>>
                            \o <<ProcessEnd(2)>>)
                 /\ UNCHANGED <<input, traced, cut, done, lexer_vars>>
    BY <1>8 DEF ParseError, Exit, Lexed
  <2>2. Quiet(<<LexerTokensAre(t), ParserResult(<<"none">>), End(2)>>)
    BY QuietEvents, EventSteps
  <2>3. Quiet(<<LexerTokensAre(t), ParserResult(<<"none">>), End(2)>> \o <<ProcessEnd(2)>>)
    BY <1>2, <2>2
  <2> QED
    BY <1>3, <2>1, <2>3, ExitStep
<1>9. CASE ExecFails
  <2>1. /\ pc = "execute" /\ pc' = "exit" /\ rc' = 3 /\ Write(<<End(3)>> \o <<ProcessEnd(3)>>)
        /\ UNCHANGED <<input, traced, cut, done, lexer_vars>>
    BY <1>9 DEF ExecFails, Exit
  <2>2. Quiet(<<End(3)>> \o <<ProcessEnd(3)>>)
    BY <1>1, <1>2
  <2> QED
    BY <1>3, <2>1, <2>2, ExitStep
<1> QED
  BY <1>4, <1>5, <1>6, <1>7, <1>8, <1>9

LEMMA OpenStep ==
  ASSUME SInv, Open
  PROVE  SInv'
<1>1. /\ pc = "open" /\ pc' = "scan" /\ start' = FirstPiece(script)
      /\ UNCHANGED <<script, traced, i, in_string, stmt_no, piece, done, rc, trace, lexer_vars>>
  BY DEF Open, input
<1>2. /\ script \in Seq(Characters) /\ i \in 1 .. Len(script) + 1 /\ stmt_no = 0 /\ done = <<>>
      /\ Len(script) \in Nat
  BY <1>1 DEF SInv, ScriptTypes, CutInv, NumberInv
<1>3. ScriptTypes'
  BY <1>1 DEF SInv, ScriptTypes
<1>4. TakenInv'
  BY <1>1 DEF TakenInv
<1>5. CutInv'
  <2>1. CASE script # <<>> /\ script[1] = "bom"
    <3>1. start' = 2 /\ Len(script) >= 1
      BY <1>1, <1>2, <2>1 DEF FirstPiece
    <3>2. 2 <= i \/ (i = 1 /\ script[1] = "bom")
      BY <1>2, <2>1
    <3>3. 2 <= i \/ OnBom'
      BY <1>1, <3>1, <3>2 DEF OnBom
    <3> QED
      BY <1>1, <1>2, <3>1, <3>3 DEF CutInv
  <2>2. CASE ~(script # <<>> /\ script[1] = "bom")
    <3>1. start' = 1
      BY <1>1, <2>2 DEF FirstPiece
    <3> QED
      BY <1>1, <1>2, <3>1 DEF CutInv
  <2> QED
    BY <2>1, <2>2
<1>6. NumberInv'
  BY <1>1, <1>2 DEF NumberInv
<1>7. TraceInv'
  BY <1>1, TraceStays DEF SInv
<1>8. LexInv'
  BY <1>1, LexStays DEF SInv
<1> QED
  BY <1>3, <1>4, <1>5, <1>6, <1>7, <1>8 DEF SInv

\* A step that moves neither the cutter nor the list of what was executed.
LEMMA PlaceStep ==
  ASSUME SInv, UNCHANGED <<input, traced, cut, done, rc>>, TakenInv', TraceInv', LexInv',
         \/ pc \in {"statement", "lex"} /\ pc' \in {"lex", "execute"}
         \/ pc = "statement" /\ piece = <<>> /\ pc' = "scan"
  PROVE  SInv'
<1>1. UNCHANGED <<script, traced, i, start, in_string, stmt_no, piece, done, rc>>
  BY DEF input, cut
<1>2. ScriptTypes'
  BY <1>1 DEF SInv, ScriptTypes
<1>3. CutInv'
  BY <1>1 DEF SInv, CutInv, OnBom
<1>4. NumberInv'
  BY <1>1 DEF SInv, NumberInv, AllRead
<1> QED
  BY <1>2, <1>3, <1>4 DEF SInv

LEMMA StatementSteps ==
  ASSUME SInv, Blank \/ BeginStatement \/ Lexing \/ Parse
  PROVE  SInv'
<1>1. /\ TraceInv /\ LexInv /\ piece \in Seq(Characters) /\ stmt_no \in Nat
  BY DEF SInv, ScriptTypes, CutInv
<1>2. CASE Blank
  <2>1. /\ pc = "statement" /\ piece = <<>> /\ pc' = "scan" /\ trace' = trace
        /\ UNCHANGED <<input, traced, cut, done, rc>> /\ UNCHANGED lexer_vars
        /\ stmt_no' = stmt_no /\ piece' = piece
    BY <1>2 DEF Blank, cut
  <2>2. TakenInv' /\ TraceInv' /\ LexInv'
    BY <1>1, <2>1, TraceStays, LexStays DEF TakenInv
  <2> QED
    BY <2>1, <2>2, PlaceStep
<1>3. CASE BeginStatement
  <2>1. /\ pc = "statement" /\ pc' = "lex" /\ Write(<<Start>>) /\ lexer_init(piece)
        /\ UNCHANGED <<input, traced, cut, done, rc>>
        /\ stmt_no' = stmt_no /\ piece' = piece
    BY <1>3 DEF BeginStatement, cut
  <2>2. TakenInv' /\ TraceInv' /\ LexInv'
    BY <1>1, <2>1, WriteStart, LexInitKeeps DEF TakenInv
  <2> QED
    BY <2>1, <2>2, PlaceStep
<1>4. CASE Lexing
  <2>1. /\ pc = "lex" /\ pc' = "lex" /\ trace' = trace /\ lexer_next
        /\ UNCHANGED <<input, traced, cut, done, rc>>
        /\ stmt_no' = stmt_no /\ piece' = piece
    BY <1>4 DEF Lexing, cut
  <2>2. TakenInv' /\ TraceInv' /\ LexInv'
    BY <1>1, <2>1, TraceStays, LexStep DEF TakenInv
  <2> QED
    BY <2>1, <2>2, PlaceStep
<1>5. CASE Parse
  <2>1. /\ pc = "lex" /\ pc' = "execute" /\ Parses(PieceTokens) /\ UNCHANGED lexer_vars
        /\ UNCHANGED <<input, traced, cut, done, rc>>
        /\ stmt_no' = stmt_no /\ piece' = piece
    BY <1>5 DEF Parse, Lexed, cut
  <2>2. PICK told : Write(<<LexerTokensAre(told), ParserResult(Ast(Statement(PieceTokens))),
                            ExecutorCall(Ast(Statement(PieceTokens))[1])>>)
    BY <1>5 DEF Parse
  <2>3. Quiet(<<LexerTokensAre(told), ParserResult(Ast(Statement(PieceTokens))),
                ExecutorCall(Ast(Statement(PieceTokens))[1])>>)
    BY QuietEvents, EventSteps
  <2>4. TraceInv'
    BY <1>1, <2>1, <2>2, <2>3, WriteQuiet
  <2>5. LexInv'
    BY <1>1, <2>1, LexStays
  <2>6. TakenInv'
    <3>1. PieceTokens' = PieceTokens
      BY <2>1 DEF PieceTokens, lexer_vars
    <3> QED
      BY <2>1, <3>1 DEF TakenInv
  <2> QED
    BY <2>1, <2>4, <2>5, <2>6, PlaceStep
<1> QED
  BY <1>2, <1>3, <1>4, <1>5

\* A statement was executed: the list of them is one longer.
LEMMA ExecuteStep ==
  ASSUME SInv, Execute
  PROVE  SInv'
<1>1. /\ pc = "execute" /\ pc' = "scan" /\ done' = Append(done, Statement(PieceTokens))
      /\ Write(<<End(0)>>)
      /\ UNCHANGED <<script, traced, i, start, in_string, stmt_no, piece, rc>>
      /\ UNCHANGED lexer_vars
  BY DEF Execute, input, cut
<1>2. /\ toks \in Seq(LexerTokens) /\ done \in Seq(Seq(TokenKinds)) /\ TraceInv
      /\ Parses(PieceTokens) /\ stmt_no = Len(done) + 1
  BY <1>1 DEF SInv, ScriptTypes, LexInv, TakenInv, NumberInv
<1>3. Statement(PieceTokens) \in Seq(TokenKinds)
  BY <1>2, KindsOf, StatementOf DEF PieceTokens
<1>4. done' \in Seq(Seq(TokenKinds)) /\ Len(done') = Len(done) + 1
  BY <1>1, <1>2, <1>3
<1>5. ScriptTypes'
  BY <1>1, <1>4 DEF SInv, ScriptTypes
<1>6. TakenInv'
  BY <1>1 DEF TakenInv
<1>7. CutInv'
  BY <1>1 DEF SInv, CutInv, OnBom
<1>8. NumberInv'
  BY <1>1, <1>2, <1>4 DEF NumberInv
<1>9. TraceInv'
  <2>1. Quiet(<<End(0)>>)
    BY QuietEvents, EventSteps
  <2> QED
    BY <1>1, <1>2, <2>1, WriteQuiet
<1>10. LexInv'
  BY <1>1, LexStays DEF SInv
<1> QED
  BY <1>5, <1>6, <1>7, <1>8, <1>9, <1>10 DEF SInv

LEMMA SInvStep == SInv /\ [Next]_vars => SInv'
<1> SUFFICES ASSUME SInv, [Next]_vars
             PROVE  SInv'
  OBVIOUS
<1>1. CASE UNCHANGED vars
  <2>1. /\ UNCHANGED <<script, traced, pc, i, start, in_string, stmt_no, piece, done, rc, trace>>
        /\ UNCHANGED lexer_vars
    BY <1>1 DEF vars, input, cut
  <2>2. ScriptTypes' /\ CutInv'
    BY <2>1 DEF SInv, ScriptTypes, CutInv, OnBom
  <2>3. NumberInv'
    BY <2>1 DEF SInv, NumberInv, AllRead
  <2>4. TakenInv'
    BY <2>1 DEF SInv, TakenInv, PieceTokens, lexer_vars
  <2>5. TraceInv'
    BY <2>1 DEF SInv, TraceInv, Started, StartTrue
  <2>6. LexInv'
    BY <2>1, LexStays DEF SInv
  <2> QED
    BY <2>2, <2>3, <2>4, <2>5, <2>6 DEF SInv
<1>2. CASE Next
  BY <1>2, OpenStep, ScanningSteps, CuttingSteps, ExitingSteps, StatementSteps, ExecuteStep DEF Next
<1> QED
  BY <1>1, <1>2

-----------------------------------------------------------------------------
(* The theorems.                                                           *)

\* The invariant holds throughout a run, whatever the script.
THEOREM ScriptInv == Spec => []SInv
<1>1. Init => SInv
  BY SInvInit
<1>2. SInv /\ [Next]_vars => SInv'
  BY SInvStep
<1> QED
  BY <1>1, <1>2, PTL DEF Spec

\* No character of a string literal is written past the end of str_buf
\* (decode_string of lexer.c).
THEOREM StringFitsCorrect == Spec => []StringFits
<1>1. SInv => StringFits
  BY StrCapAssumption DEF SInv, LexInv, StringFits
<1> QED
  BY <1>1, ScriptInv, PTL

\* The line and the column of every token are those of its first character
\* (lexer_next of lexer.c).
THEOREM PositionsTrueCorrect == Spec => []PositionsTrue
<1>1. ASSUME SInv
      PROVE  PositionsTrue
  <2>1. toks \in Seq(LexerTokens) /\ TokensTrue
    BY <1>1 DEF SInv, LexInv
  <2>2. \A j \in DOMAIN toks : /\ toks[j].line = Line(text, toks[j].at)
                               /\ toks[j].column = Column(text, toks[j].at)
    BY <2>1 DEF TokensTrue, At
  <2> QED
    BY <2>2 DEF PositionsTrue
<1> QED
  BY <1>1, ScriptInv, PTL

\* The number an error message tells is that of the first statement that was
\* not executed (stmt_no of run_sql_text).
THEOREM ErrorNamesStatementCorrect == Spec => []ErrorNamesStatement
<1>1. SInv => ErrorNamesStatement
  BY DEF SInv, NumberInv, ErrorNamesStatement
<1> QED
  BY <1>1, ScriptInv, PTL

\* A statement is one line of the trace, and can be read back from it
\* (json_write_string of sql_trace.c).
THEOREM EventsAreLinesCorrect == Spec => []EventsAreLines
<1>1. ASSUME SInv
      PROVE  EventsAreLines
  <2>1. trace \in Seq({trace[j] : j \in 1 .. Len(trace)})
    BY <1>1 DEF SInv, TraceInv, IsSequence
  <2>2. DOMAIN trace = 1 .. Len(trace)
    BY <2>1
  <2>3. ASSUME NEW j \in DOMAIN trace, trace[j].step = "statement_start"
        PROVE  /\ "nl" \notin ToSet(trace[j].data)
               /\ trace[j].no = stmt_no => LineOf(trace[j].data, piece)
    BY <1>1, <2>2, <2>3 DEF SInv, TraceInv, Started, StartTrue
  <2> QED
    BY <2>3 DEF EventsAreLines, LineOf
<1> QED
  BY <1>1, ScriptInv, PTL

-----------------------------------------------------------------------------
(* The tokens of a piece.                                                  *)

LEMMA LexedInvStep == SInv /\ LexedInv /\ [Next]_vars => LexedInv'
<1> HAVE SInv /\ LexedInv /\ [Next]_vars
<1>1. LexInv /\ piece \in Seq(Characters)
  BY DEF SInv, ScriptTypes
<1>2. CASE UNCHANGED lexer_vars
  BY <1>2, LexedStays
<1>3. CASE Lexing
  BY <1>1, <1>3, LexedStep DEF Lexing
<1>4. CASE BeginStatement
  BY <1>1, <1>4, LexedInit DEF BeginStatement
<1>5. CASE /\ Next /\ ~Lexing /\ ~BeginStatement
  <2>1. CASE Open \/ OpenFails \/ NoTraceFile \/ Finish
    BY <1>2, <2>1 DEF Open, OpenFails, NoTraceFile, Finish
  <2>2. CASE EscapedQuote \/ CloseString \/ OpenString \/ OtherChar
    BY <1>2, <2>2 DEF EscapedQuote, CloseString, OpenString, OtherChar, Step
  <2>3. CASE Semicolon \/ LastPiece
    BY <1>2, <2>3 DEF Semicolon, LastPiece, Cut
  <2>4. CASE Blank \/ NoMemoryForTrace
    BY <1>2, <2>4 DEF Blank, NoMemoryForTrace
  <2>5. CASE Parse \/ ParseError \/ Execute \/ ExecFails
    BY <1>2, <2>5 DEF Parse, ParseError, Execute, ExecFails
  <2> QED
    BY <1>5, <2>1, <2>2, <2>3, <2>4, <2>5 DEF Next
<1>6. CASE UNCHANGED vars
  BY <1>2, <1>6 DEF vars
<1> QED
  BY <1>3, <1>4, <1>5, <1>6

THEOREM LexedInvCorrect == Spec => []LexedInv
<1>1. Init => LexedInv
  BY LexedOff DEF Init
<1>2. SInv /\ LexedInv /\ [Next]_vars => LexedInv'
  BY LexedInvStep
<1> QED
  BY <1>1, <1>2, ScriptInv, PTL DEF Spec

\* The tokens the lexer gives, character by character, are those the text has:
\* the same kinds, at the same places, of the same lengths, and none is missing
\* at the end (lexer_next of lexer.c against the definition of Lex).
THEOREM LexedAsDefinedCorrect == Spec => []LexedAsDefined
<1>1. ASSUME SInv, LexedInv
      PROVE  LexedAsDefined
  <2>1. /\ text \in Seq(Characters) /\ Len(text) \in Nat /\ pos \in 1 .. Len(text) + 1
        /\ IsSequence(toks)
        /\ lex_pc \in {"skip", "comment", "word", "digits", "string", "end"}
        /\ lex_pc \in {"word", "digits", "string"} => begun.at \in 1 .. Len(text)
    BY <1>1, LexTypes DEF SInv, LexInv
  <2>2. PICK r : /\ Ahead(lexed, toks, r) /\ Len(r) \in Nat
                 /\ lex_pc = "end" => Len(r) = 0
    <3>1. CASE lex_pc = "end"
      BY <1>1, <3>1 DEF LexedInv
    <3>2. ASSUME lex_pc # "end"
          PROVE  \E p \in 1 .. Len(text) + 1 : Ahead(lexed, toks, LexFrom(text, p))
      <4>1. CASE lex_pc = "skip"
        BY <1>1, <2>1, <4>1 DEF LexedInv
      <4>2. CASE lex_pc = "comment"
        <5>1. Find(text, pos, "nl") \in pos .. Len(text) + 1
          BY <2>1, FindIs
        <5>2. Find(text, pos, "nl") \in 1 .. Len(text) + 1
          BY <2>1, <5>1
        <5> QED
          BY <1>1, <4>2, <5>2 DEF LexedInv
      <4>3. CASE lex_pc \in {"word", "digits", "string"}
        <5>1. begun.at \in 1 .. Len(text) + 1
          BY <2>1, <4>3
        <5> QED
          BY <1>1, <4>3, <5>1 DEF LexedInv
      <4> QED
        BY <2>1, <3>2, <4>1, <4>2, <4>3
    <3>3. ASSUME NEW p \in 1 .. Len(text) + 1
          PROVE  Len(LexFrom(text, p)) \in Nat
      BY <2>1, <3>3, LexFromIsLexed DEF IsLexed
    <3> QED
      BY <3>1, <3>2, <3>3
  <2>3. IsSequence(lexed) /\ Len(toks) \in Nat /\ Len(lexed) \in Nat
    BY <2>1, <2>2 DEF Ahead, IsSequence
  <2>4. Len(toks) <= Len(lexed) /\ (Len(r) = 0 => Len(toks) = Len(lexed))
    BY <2>2, <2>3 DEF Ahead
  <2>5. \A j \in 1 .. Len(toks) : Same(toks[j], lexed[j])
    BY <2>2 DEF Ahead
  <2>6. /\ IsSequence(Told3(toks)) /\ Len(Told3(toks)) = Len(toks)
        /\ \A j \in 1 .. Len(toks) : Told3(toks)[j] = <<toks[j].kind, toks[j].at, toks[j].len>>
    BY <2>1, Told3Is
  <2>7. /\ IsSequence(Told3(lexed)) /\ Len(Told3(lexed)) = Len(lexed)
        /\ \A j \in 1 .. Len(lexed) : Told3(lexed)[j] = <<lexed[j].kind, lexed[j].at, lexed[j].len>>
    BY <2>3, Told3Is
  <2>8. \A j \in 1 .. Len(Told3(toks)) : Told3(toks)[j] = Told3(lexed)[j]
    <3>1. \A j \in 1 .. Len(toks) : j \in 1 .. Len(lexed)
      BY <2>3, <2>4
    <3> QED
      BY <2>5, <2>6, <2>7, <3>1 DEF Same
  <2>9. /\ IsPrefix(Told3(toks), Told3(lexed))
        /\ Len(toks) = Len(lexed) => Told3(toks) = Told3(lexed)
    <3>1. Len(Told3(toks)) <= Len(Told3(lexed))
      BY <2>4, <2>6, <2>7
    <3> QED
      BY <2>6, <2>7, <2>8, <3>1, PrefixOf
  <2> QED
    BY <2>2, <2>4, <2>9 DEF LexedAsDefined, Told3
<1> QED
  BY <1>1, ScriptInv, LexedInvCorrect, PTL

-----------------------------------------------------------------------------
(* The statements of a script.                                             *)

UpTo(ends, e) == {x \in ends : x <= e}

\* The k-th of the ends, and 0 before the first.
LEMMA EndExists ==
  ASSUME NEW l \in Nat, NEW ends \in SUBSET (1 .. l)
  PROVE  /\ IsFiniteSet(ends) /\ Cardinality(ends) \in Nat
         /\ \A k \in 0 .. Cardinality(ends) : \E e \in ends \cup {0} : Cardinality(UpTo(ends, e)) = k
<1>1. IsFiniteSet(ends) /\ Cardinality(ends) \in Nat
  <2>1. IsFiniteSet(1 .. l)
    BY FS_Interval
  <2> QED
    BY <2>1, FS_Subset, FS_CardinalityType
<1>0. \A x \in ends : x \in Nat \ {0}
  OBVIOUS
<1> DEFINE c       == Cardinality(ends)
           Good(k) == \E e \in ends \cup {0} : Cardinality(UpTo(ends, e)) = k
           Bad     == {k \in 0 .. c : ~Good(k)}
<1> HIDE DEF Good, c
<1>2. SUFFICES ASSUME NEW b \in 0 .. c, ~Good(b)
               PROVE  FALSE
  BY <1>1 DEF Good, c
<1>3. Bad \in SUBSET Nat /\ b \in Bad
  BY <1>2
<1>4. PICK k \in Bad : \A j \in Bad : k <= j
  BY <1>3, LeastNat
<1>5. k \in 0 .. c /\ ~Good(k) /\ c \in Nat
  BY <1>1, <1>4 DEF c
<1>6. Good(0)
  <2>1. UpTo(ends, 0) = {}
    <3>1. ASSUME NEW x \in ends, x <= 0
          PROVE  FALSE
      BY <1>0, <3>1
    <3> QED
      BY <3>1 DEF UpTo
  <2> QED
    BY <2>1, FS_EmptySet DEF Good
<1>7. k # 0
  BY <1>5, <1>6
<1>8. k - 1 \in 0 .. c /\ k - 1 \notin Bad
  BY <1>4, <1>5, <1>7
<1>9. PICK e \in ends \cup {0} : Cardinality(UpTo(ends, e)) = k - 1
  BY <1>8 DEF Good
<1> DEFINE Later == {x \in ends : x > e}
<1>10. Later # {}
  <2>1. e \in Nat /\ \A x \in ends : x \in Nat
    BY <1>0
  <2>3. Later = {} => \A x \in ends : x <= e
    BY <2>1
  <2>4. Later = {} => UpTo(ends, e) = ends
    BY <2>3 DEF UpTo
  <2>2. Later = {} => k - 1 = c
    BY <1>9, <2>4 DEF c
  <2> QED
    BY <1>5, <2>2
<1>11. PICK m \in Later : \A x \in Later : m <= x
  <2>1. Later \in SUBSET Nat
    BY <1>0
  <2> QED
    BY <1>10, <2>1, LeastNat
<1>12. UpTo(ends, m) = UpTo(ends, e) \cup {m} /\ m \notin UpTo(ends, e) /\ m \in ends
  <2>1. m \in ends /\ m > e /\ m \in Nat /\ e \in Nat /\ \A x \in ends : x \in Nat
    BY <1>11, <1>0
  <2>2. \A x \in ends : x <= m <=> x <= e \/ x = m
    BY <1>11, <2>1
  <2>3. \A x : x \in UpTo(ends, m) <=> x \in UpTo(ends, e) \/ x = m
    BY <2>1, <2>2 DEF UpTo
  <2>4. m \notin UpTo(ends, e)
    BY <2>1 DEF UpTo
  <2> QED
    BY <2>1, <2>3, <2>4
<1>13. IsFiniteSet(UpTo(ends, e))
  BY <1>1, FS_Subset DEF UpTo
<1>14. Cardinality(UpTo(ends, m)) = k
  BY <1>5, <1>9, <1>12, <1>13, FS_AddElement
<1> QED
  BY <1>5, <1>12, <1>14 DEF Good

LEMMA AfterBomOf ==
  ASSUME NEW s \in Seq(Characters)
  PROVE  AfterBom(s) \in Seq(Characters)
BY DEF AfterBom

\* The tokens of a text: of the kinds there are, exactly the last one ending
\* them.
LEMMA KindsOfLex ==
  ASSUME NEW s \in Seq(Characters)
  PROVE  /\ Kinds(Lex(s)) \in Seq(TokenKinds) /\ Len(Kinds(Lex(s))) >= 1
         /\ Len(Kinds(Lex(s))) = Len(Lex(s))
         /\ \A j \in 1 .. Len(Lex(s)) : /\ Kinds(Lex(s))[j] = Lex(s)[j].kind
                                        /\ Kinds(Lex(s))[j] \in Endings <=> j = Len(Lex(s))
<1> DEFINE r == Lex(s)
<1>1. IsLexed(s, r)
  <2>1. 1 \in 1 .. Len(s) + 1
    OBVIOUS
  <2> QED
    BY <2>1, LexFromIsLexed, LexIsLexFrom
<1> HIDE DEF r
<1>2. IsSequence(r)
  BY <1>1, SequenceOf DEF IsLexed
<1>3. /\ DOMAIN r = 1 .. Len(r) /\ Len(r) \in Nat /\ Len(r) >= 1
      /\ \A j \in 1 .. Len(r) : r[j].kind \in TokenKinds /\ (r[j].kind \in Endings <=> j = Len(r))
  BY <1>1, <1>2 DEF IsLexed, IsSequence
<1>4. Kinds(r) = [j \in 1 .. Len(r) |-> r[j].kind]
  BY <1>3 DEF Kinds
<1>5. Kinds(r) \in Seq(TokenKinds) /\ Len(Kinds(r)) = Len(r)
  <2> DEFINE f(j) == r[j].kind
  <2>1. \A j \in 1 .. Len(r) : f(j) \in TokenKinds
    BY <1>3
  <2>2. Kinds(r) = [j \in 1 .. Len(r) |-> f(j)]
    BY <1>4
  <2>3. PICK n \in Nat : n = Len(r)
    BY <1>3
  <2> HIDE DEF f
  <2>4. \A g : g = [j \in 1 .. n |-> f(j)] => g \in Seq(TokenKinds) /\ Len(g) = n
    BY <2>1, <2>3
  <2> QED
    BY <2>2, <2>3, <2>4
<1>6. \A j \in 1 .. Len(r) : Kinds(r)[j] = r[j].kind
  BY <1>4
<1> QED
  BY <1>3, <1>5, <1>6 DEF r

\* The ends of the statements among the tokens t.
Ends(t) == {j \in DOMAIN t : t[j] \in {";", "eof", "error"}}
EndOf(t, k) == CHOOSE e \in Ends(t) \cup {0} : Cardinality({x \in Ends(t) : x <= e}) = k
Stretches(t) == [k \in 1 .. Cardinality(Ends(t)) |-> SubSeq(t, EndOf(t, k - 1) + 1, EndOf(t, k))]

LEMMA StretchesOf ==
  ASSUME NEW t \in Seq(TokenKinds), Ends(t) # {}
  PROVE  Stretches(t) \in Seq(Seq(TokenKinds)) /\ Len(Stretches(t)) \in Nat \ {0}
<1> DEFINE c == Cardinality(Ends(t))
<1>1. Ends(t) \in SUBSET (1 .. Len(t)) /\ Len(t) \in Nat
  <2>1. DOMAIN t = 1 .. Len(t) /\ Len(t) \in Nat
    OBVIOUS
  <2>2. Ends(t) \subseteq DOMAIN t
    BY DEF Ends
  <2> QED
    BY <2>1, <2>2
<1>2. /\ c \in Nat /\ IsFiniteSet(Ends(t))
      /\ \A k \in 0 .. c : \E e \in Ends(t) \cup {0} : Cardinality(UpTo(Ends(t), e)) = k
  BY <1>1, EndExists
<1>3. c # 0
  BY <1>2, FS_EmptySet
<1>4. \A k \in 0 .. c : EndOf(t, k) \in 0 .. Len(t)
  <2>1. ASSUME NEW k \in 0 .. c
        PROVE  EndOf(t, k) \in 0 .. Len(t)
    <3>1. \E e \in Ends(t) \cup {0} : Cardinality({x \in Ends(t) : x <= e}) = k
      BY <1>2, <2>1 DEF UpTo
    <3>2. EndOf(t, k) \in Ends(t) \cup {0}
      BY <3>1 DEF EndOf
    <3> QED
      BY <1>1, <3>2
  <2> QED
    BY <2>1
<1>5. ASSUME NEW k \in 1 .. c
      PROVE  SubSeq(t, EndOf(t, k - 1) + 1, EndOf(t, k)) \in Seq(TokenKinds)
  <2>1. k \in 0 .. c /\ k - 1 \in 0 .. c
    BY <1>2
  <2>2. EndOf(t, k) \in 0 .. Len(t) /\ EndOf(t, k - 1) \in 0 .. Len(t)
    BY <1>4, <2>1
  <2>3. PICK a \in Nat \ {0}, b \in Nat : a = EndOf(t, k - 1) + 1 /\ b = EndOf(t, k) /\ b <= Len(t)
    BY <1>1, <2>2
  <2>4. SubSeq(t, a, b) \in Seq(TokenKinds)
    BY <2>3, CutOf
  <2> QED
    BY <2>3, <2>4
<1>6. Stretches(t) = [k \in 1 .. c |-> SubSeq(t, EndOf(t, k - 1) + 1, EndOf(t, k))]
  BY DEF Stretches
<1> HIDE DEF c
<1>7. Stretches(t) \in Seq(Seq(TokenKinds)) /\ Len(Stretches(t)) = c
  BY <1>2, <1>5, <1>6
<1> QED
  BY <1>2, <1>3, <1>7

LEMMA StatementsAre ==
  \A s : LET all == Stretches(Kinds(Lex(AfterBom(s)))) IN
         StatementsOf(s) = IF Last(all) = <<"eof">> THEN Front(all) ELSE all
BY DEF StatementsOf, Stretches, EndOf, Ends

LEMMA StatementsOfType ==
  ASSUME NEW s \in Seq(Characters)
  PROVE  StatementsOf(s) \in Seq(Seq(TokenKinds))
<1> DEFINE x == AfterBom(s)
           t == Kinds(Lex(x))
<1>1. x \in Seq(Characters)
  BY AfterBomOf
<1> HIDE DEF x
<1>2. /\ t \in Seq(TokenKinds) /\ Len(t) >= 1 /\ Len(t) = Len(Lex(x))
      /\ \A j \in 1 .. Len(Lex(x)) : t[j] \in Endings <=> j = Len(Lex(x))
  BY <1>1, KindsOfLex
<1> HIDE DEF t
<1>3. Ends(t) # {}
  <2>1. Len(t) \in 1 .. Len(t) /\ DOMAIN t = 1 .. Len(t)
    BY <1>2
  <2>2. t[Len(t)] \in Endings
    BY <1>2, <2>1
  <2> QED
    BY <2>1, <2>2 DEF Ends, Endings
<1> DEFINE all == Stretches(t)
<1>4. all \in Seq(Seq(TokenKinds)) /\ Len(all) \in Nat \ {0}
  BY <1>2, <1>3, StretchesOf
<1>5. StatementsOf(s) = IF Last(all) = <<"eof">> THEN Front(all) ELSE all
  BY StatementsAre DEF t, x
<1> HIDE DEF all
<1>6. Front(all) \in Seq(Seq(TokenKinds))
  <2>1. PICK n \in Nat : n = Len(all) - 1 /\ n <= Len(all)
    <3>1. Len(all) - 1 \in Nat /\ Len(all) - 1 <= Len(all)
      BY <1>4
    <3> QED
      BY <3>1
  <2>2. 1 \in Nat \ {0}
    OBVIOUS
  <2>3. SubSeq(all, 1, n) \in Seq(Seq(TokenKinds))
    BY <1>4, <2>1, <2>2, CutOf
  <2> QED
    BY <2>1, <2>3 DEF Front
<1> QED
  BY <1>4, <1>5, <1>6

\* What a run compares with does not change.
Meant == written \in Seq(Seq(TokenKinds)) /\ plain \in BOOLEAN

\* Every variable of a run has its type (run_sql_text and lexer_next).
THEOREM TypeCorrect == Spec => []TypeOK
<1>1. Init => Meant
  BY StatementsOfType, ScriptAssumption DEF Init, Meant, IsPlain
<1>2. Meant /\ [Next]_vars => Meant'
  <2> HAVE Meant /\ [Next]_vars
  <2>1. CASE Open \/ OpenFails \/ NoTraceFile \/ Finish
    BY <2>1 DEF Open, OpenFails, NoTraceFile, Finish, Meant, input
  <2>2. CASE EscapedQuote \/ CloseString \/ OpenString \/ OtherChar
    BY <2>2 DEF EscapedQuote, CloseString, OpenString, OtherChar, Step, Meant, input
  <2>3. CASE Semicolon \/ LastPiece
    BY <2>3 DEF Semicolon, LastPiece, Cut, Meant, input
  <2>4. CASE Blank \/ NoMemoryForTrace \/ BeginStatement \/ Lexing
    BY <2>4 DEF Blank, NoMemoryForTrace, BeginStatement, Lexing, Meant, input
  <2>5. CASE Parse \/ ParseError \/ Execute \/ ExecFails
    BY <2>5 DEF Parse, ParseError, Execute, ExecFails, Meant, input
  <2>6. CASE UNCHANGED vars
    BY <2>6 DEF vars, input, Meant
  <2> QED
    BY <2>1, <2>2, <2>3, <2>4, <2>5, <2>6 DEF Next
<1>3. Spec => []Meant
  BY <1>1, <1>2, PTL DEF Spec
<1>4. SInv /\ Meant => TypeOK
  <2> HAVE SInv /\ Meant
  <2>1. LexerTypeOK
    <3>1. LexInv
      BY DEF SInv
    <3>2. pos \in Nat \ {0} /\ line = Line(text, pos) /\ column = Column(text, pos)
      BY <3>1 DEF LexInv
    <3>3. line \in Nat \ {0} /\ column \in Nat \ {0}
      BY <3>2, PositionTypes
    <3>4. out \in 0 .. StrCap
      BY <3>1, StrCapAssumption DEF LexInv
    <3> QED
      BY <3>1, <3>3, <3>4 DEF LexInv, LexerTypeOK
  <2>2. stmt_no \in 0 .. Len(script) /\ start \in 1 .. Len(script) + 1 /\ i \in 1 .. Len(script) + 1
    <3>1. /\ start \in 1 .. Len(script) + 1 /\ i \in 1 .. Len(script) + 1
          /\ stmt_no \in Nat /\ stmt_no <= start - 1
      BY DEF SInv, CutInv
    <3>2. Len(script) \in Nat
      BY DEF SInv, ScriptTypes
    <3> QED
      BY <3>1, <3>2
  <2> QED
    BY <2>1, <2>2 DEF SInv, ScriptTypes, Meant, TypeOK
<1> QED
  BY <1>3, <1>4, ScriptInv, PTL

-----------------------------------------------------------------------------
(* The tokens of a statement, counted.                                     *)

InK(t, K, j) == {x \in 1 .. j : t[x] \in K}

LEMMA CountNext ==
  ASSUME NEW t, NEW K, NEW j \in Nat
  PROVE  /\ Count(t, K, 0) = 0 /\ Count(t, K, j) \in Nat
         /\ t[j + 1] \in K => Count(t, K, j + 1) = Count(t, K, j) + 1
         /\ t[j + 1] \notin K => Count(t, K, j + 1) = Count(t, K, j)
<1>1. \A m : Count(t, K, m) = Cardinality(InK(t, K, m))
  BY DEF Count, InK
<1>2. InK(t, K, 0) = {}
  BY DEF InK
<1>3. IsFiniteSet(InK(t, K, j))
  <2>1. IsFiniteSet(1 .. j) /\ InK(t, K, j) \subseteq 1 .. j
    BY FS_Interval DEF InK
  <2> QED
    BY <2>1, FS_Subset
<1>4. ASSUME t[j + 1] \in K
      PROVE  Cardinality(InK(t, K, j + 1)) = Cardinality(InK(t, K, j)) + 1
  <2>1. InK(t, K, j + 1) = InK(t, K, j) \cup {j + 1} /\ j + 1 \notin InK(t, K, j)
    BY <1>4 DEF InK
  <2> QED
    BY <1>3, <2>1, FS_AddElement
<1>5. ASSUME t[j + 1] \notin K
      PROVE  InK(t, K, j + 1) = InK(t, K, j)
  BY <1>5 DEF InK
<1>6. Cardinality(InK(t, K, j)) \in Nat
  BY <1>3, FS_CardinalityType
<1> QED
  BY <1>1, <1>2, <1>4, <1>5, <1>6, FS_EmptySet

\* Among tokens that are not in K nothing is counted, and elsewhere not less.
LEMMA CountOn ==
  ASSUME NEW t, NEW K, NEW a \in Nat, NEW b \in Nat, a <= b
  PROVE  /\ Count(t, K, a) <= Count(t, K, b)
         /\ (\A j \in a + 1 .. b : t[j] \notin K) => Count(t, K, b) = Count(t, K, a)
<1>1. /\ Count(t, K, a) = Cardinality(InK(t, K, a))
      /\ Count(t, K, b) = Cardinality(InK(t, K, b))
  BY DEF Count, InK
<1>2. InK(t, K, a) \subseteq InK(t, K, b)
  BY DEF InK
<1>3. IsFiniteSet(InK(t, K, b))
  <2>1. IsFiniteSet(1 .. b) /\ InK(t, K, b) \subseteq 1 .. b
    BY FS_Interval DEF InK
  <2> QED
    BY <2>1, FS_Subset
<1>4. (\A j \in a + 1 .. b : t[j] \notin K) => InK(t, K, b) = InK(t, K, a)
  BY DEF InK
<1> QED
  BY <1>1, <1>2, <1>3, <1>4, FS_Subset

Odd(m) == m % 2 = 1

LEMMA OddHalf ==
  \A m \in Nat, c \in Nat :
    Odd(m) /\ m <= c => (m + 1) \div 2 \in 1 .. (c + 1) \div 2 /\ 2 * ((m + 1) \div 2) - 1 = m
BY DEF Odd

\* Of the tokens b + 1 to b + c every other one is in K, beginning with the first.
EveryOther(t, K, b, c) == \A m \in 1 .. c : t[b + m] \in K <=> Odd(m)

LEMMA CountAlternating ==
  ASSUME NEW t, NEW K, NEW b \in Nat, NEW c \in Nat, EveryOther(t, K, b, c)
  PROVE  \A m \in 0 .. c : Count(t, K, b + m) = Count(t, K, b) + ((m + 1) \div 2)
<1> DEFINE Good(m) == Count(t, K, b + m) = Count(t, K, b) + ((m + 1) \div 2)
           Bad     == {m \in 0 .. c : ~Good(m)}
<1>1. SUFFICES ASSUME Bad # {}
               PROVE  FALSE
  OBVIOUS
<1>2. PICK m \in Bad : \A j \in Bad : m <= j
  <2>1. Bad \in SUBSET Nat
    OBVIOUS
  <2> HIDE DEF Bad
  <2> QED
    BY <1>1, <2>1, LeastNat
<1>3. m \in 0 .. c /\ ~Good(m)
  BY <1>2
<1>4. Good(0)
  <2>1. Count(t, K, b) \in Nat /\ b + 0 = b
    BY CountNext
  <2> QED
    BY <2>1
<1>5. m # 0
  BY <1>3, <1>4
<1>6. PICK d \in Nat : m = d + 1 /\ d \in 0 .. c
  <2>1. m - 1 \in Nat /\ m = (m - 1) + 1 /\ m - 1 \in 0 .. c
    BY <1>3, <1>5
  <2> QED
    BY <2>1
<1>7. Good(d)
  <2>1. d \notin Bad
    BY <1>2, <1>6
  <2> QED
    BY <1>6, <2>1
<1>8. PICK x \in Nat : x = b + d /\ x + 1 = b + m
  <2>1. b + d \in Nat /\ (b + d) + 1 = b + m
    BY <1>6
  <2> QED
    BY <2>1
<1>9. /\ Count(t, K, x) \in Nat
      /\ t[x + 1] \in K => Count(t, K, x + 1) = Count(t, K, x) + 1
      /\ t[x + 1] \notin K => Count(t, K, x + 1) = Count(t, K, x)
  BY CountNext
<1>10. t[x + 1] \in K <=> Odd(m)
  <2>1. m \in 1 .. c
    BY <1>3, <1>5
  <2> QED
    BY <1>8, <2>1 DEF EveryOther
<1>11. Count(t, K, b) \in Nat
  BY CountNext
<1> HIDE DEF Good
<1>12. Count(t, K, x) = Count(t, K, b) + ((d + 1) \div 2)
  BY <1>7, <1>8 DEF Good
<1>13. PICK u, v : u \in Nat /\ u = Count(t, K, b) /\ v = Count(t, K, x + 1)
  BY <1>11
<1>14. (Odd(m) => v = (u + ((d + 1) \div 2)) + 1) /\ (~Odd(m) => v = u + ((d + 1) \div 2))
  BY <1>9, <1>10, <1>12, <1>13
<1>15. v = u + ((m + 1) \div 2)
  BY <1>6, <1>13, <1>14 DEF Odd
<1>16. Good(m)
  BY <1>8, <1>13, <1>15 DEF Good
<1> QED
  BY <1>3, <1>16

\* The tokens b + 1 to b + c.
LEMMA StretchOf ==
  ASSUME NEW S, NEW s \in Seq(S), NEW b \in Nat, NEW c \in Nat, b + c <= Len(s),
         NEW v, v = SubSeq(s, b + 1, b + c)
  PROVE  v \in Seq(S) /\ Len(v) = c /\ \A m \in 1 .. c : v[m] = s[b + m]
<1>1. PICK x \in Nat \ {0}, y \in Nat : x = b + 1 /\ y = b + c
  <2>1. b + 1 \in Nat \ {0} /\ b + c \in Nat
    OBVIOUS
  <2> QED
    BY <2>1
<1>2. /\ SubSeq(s, x, y) \in Seq(S)
      /\ Len(SubSeq(s, x, y)) = IF x <= y THEN (y - x) + 1 ELSE 0
      /\ \A j \in 1 .. (y - x) + 1 : SubSeq(s, x, y)[j] = s[(x + j) - 1]
  BY <1>1, CutOf
<1>3. v = SubSeq(s, x, y)
  BY <1>1
<1>4. (y - x) + 1 = c /\ (x <= y <=> c # 0)
  BY <1>1
<1>5. Len(v) = c
  BY <1>2, <1>3, <1>4
<1>6. ASSUME NEW m \in 1 .. c
      PROVE  v[m] = s[b + m]
  <2>1. m \in 1 .. (y - x) + 1 /\ (x + m) - 1 = b + m
    BY <1>1, <1>4
  <2> QED
    BY <1>2, <1>3, <2>1
<1> QED
  BY <1>2, <1>3, <1>5, <1>6

\* The tokens b + 1 to b + c are the list v, and the first that have one in K.
IsList(v, s, K, b, c) ==
  /\ Len(s) \in Nat /\ b + c <= Len(s) /\ Len(v) = c
  /\ \A m \in 1 .. c : v[m] = s[b + m]
  /\ \A j \in 1 .. b : s[j] \notin K
  /\ EveryOther(s, K, b, c)

\* The elements of such a list are the first tokens in K.
LEMMA ElementsListed ==
  ASSUME NEW s, NEW K, NEW b \in Nat, NEW c \in Nat, NEW v, IsList(v, s, K, b, c)
  PROVE  Lists(Elements(v), s, K) /\ Len(Elements(v)) = Count(s, K, b + c)
<1> DEFINE e == Elements(v)
<1>1. /\ Len(s) \in Nat /\ b + c <= Len(s) /\ Len(v) = c
      /\ \A m \in 1 .. c : v[m] = s[b + m]
  BY DEF IsList
<1>2. (\A j \in 1 .. b : s[j] \notin K) /\ EveryOther(s, K, b, c)
  BY DEF IsList
<1>3. Count(s, K, b) = 0
  <2>1. Count(s, K, 0) = 0
    BY CountNext
  <2>2. 0 \in Nat /\ 0 <= b /\ \A j \in 0 + 1 .. b : s[j] \notin K
    BY <1>2
  <2> QED
    BY <1>2, <2>1, <2>2, CountOn
<1>4. \A m \in 0 .. c : Count(s, K, b + m) = (m + 1) \div 2
  <2>1. \A m \in 0 .. c : Count(s, K, b + m) = Count(s, K, b) + ((m + 1) \div 2)
    BY <1>2, CountAlternating
  <2> QED
    BY <1>3, <2>1
<1>5. e = [k \in 1 .. (c + 1) \div 2 |-> v[2 * k - 1]]
  BY <1>1 DEF Elements
<1>6. Len(e) = (c + 1) \div 2 /\ \A k \in 1 .. (c + 1) \div 2 : e[k] = v[2 * k - 1]
  <2>1. PICK d \in Nat : d = (c + 1) \div 2
    OBVIOUS
  <2>2. \A g : g = [k \in 1 .. d |-> v[2 * k - 1]] => Len(g) = d /\ \A k \in 1 .. d : g[k] = v[2 * k - 1]
    OBVIOUS
  <2> HIDE DEF e
  <2> QED
    BY <1>5, <2>1, <2>2
<1> HIDE DEF e
<1>7. Len(e) = Count(s, K, b + c)
  <2>1. c \in 0 .. c
    OBVIOUS
  <2> QED
    BY <1>4, <1>6, <2>1
<1>8. ASSUME NEW j \in 1 .. Len(s), s[j] \in K, Count(s, K, j) <= Len(e)
      PROVE  e[Count(s, K, j)] = s[j]
  <2>1. j > b
    BY <1>2, <1>8
  <2>2. CASE j <= b + c
    <3>1. PICK m \in 1 .. c : j = b + m
      <4>1. j - b \in 1 .. c /\ j = b + (j - b)
        BY <2>1, <2>2
      <4> QED
        BY <4>1
    <3>2. Odd(m) /\ m \in 0 .. c
      BY <1>2, <1>8, <3>1 DEF EveryOther
    <3>3. Count(s, K, j) = (m + 1) \div 2
      BY <1>4, <3>1, <3>2
    <3>4. PICK k : k = (m + 1) \div 2
      OBVIOUS
    <3>5. k \in 1 .. (c + 1) \div 2 /\ 2 * k - 1 = m
      <4>1. m \in Nat /\ m <= c
        BY <3>2
      <4> QED
        BY <3>2, <3>4, <4>1, OddHalf
    <3>6. e[k] = v[m]
      BY <1>6, <3>5
    <3> QED
      BY <1>1, <3>1, <3>3, <3>4, <3>6
  <2>3. CASE j > b + c
    <3>1. PICK d \in Nat : j = d + 1 /\ b + c <= d
      <4>1. j - 1 \in Nat /\ j = (j - 1) + 1 /\ b + c <= j - 1
        BY <2>3
      <4> QED
        BY <4>1
    <3>2. PICK w \in Nat : w = b + c
      OBVIOUS
    <3>3. Count(s, K, w) <= Count(s, K, d)
      BY <3>1, <3>2, CountOn
    <3>4. Count(s, K, d) \in Nat /\ Count(s, K, w) \in Nat
      BY CountNext
    <3>5. Count(s, K, d + 1) = Count(s, K, d) + 1
      BY <1>8, <3>1, CountNext
    <3>6. Count(s, K, j) = Count(s, K, d) + 1 /\ Len(e) = Count(s, K, w)
      BY <1>7, <3>1, <3>2, <3>5
    <3> QED
      BY <1>8, <3>3, <3>4, <3>6
  <2> QED
    BY <2>2, <2>3
<1> QED
  BY <1>7, <1>8 DEF Lists, e

LEMMA ListEveryOther ==
  ASSUME NEW K, K = Literals \/ K = Identifiers, NEW s, NEW b \in Nat, NEW c \in Nat,
         NEW v, Len(v) = c, \A m \in 1 .. c : v[m] = s[b + m], v = <<>> \/ CommaList(v, K)
  PROVE  EveryOther(s, K, b, c)
<1>1. "," \notin K
  <2>1. "," \notin Literals /\ "," \notin Identifiers
    BY DEF Literals, Identifiers
  <2> QED
    BY <2>1, Zenon
<1>2. CASE v = <<>>
  <2>1. c = 0
    BY <1>2
  <2> QED
    BY <2>1 DEF EveryOther
<1>3. CASE CommaList(v, K)
  <2>1. \A m \in 1 .. c : IF Odd(m) THEN v[m] \in K ELSE v[m] = ","
    BY <1>3 DEF CommaList, Odd
  <2> QED
    BY <1>1, <2>1, Zenon DEF EveryOther
<1> QED
  BY <1>2, <1>3

\* What the tree of an INSERT says: its values, in order.
LEMMA InsertTold ==
  ASSUME NEW s \in Seq(TokenKinds), IsInsert(s)
  PROVE  /\ Ast(s)[1] = "insert"
         /\ Lists(Ast(s)[2], s, Literals)
         /\ Len(Ast(s)[2]) = Count(s, Literals, Len(s))
<1> DEFINE v == ValueList(s)
<1>1. PICK c \in Nat, l \in Nat, w \in Nat : l = Len(s) /\ l = c + 7 /\ w = c + 5
  <2>1. Len(s) \in Nat /\ Len(s) >= 7
    BY DEF IsInsert
  <2>2. Len(s) - 7 \in Nat /\ Len(s) = (Len(s) - 7) + 7 /\ (Len(s) - 7) + 5 \in Nat
    BY <2>1
  <2> QED
    BY <2>1, <2>2
<1>2. /\ s[1] = "INSERT" /\ s[2] = "INTO" /\ s[3] \in Identifiers /\ s[4] = "VALUES" /\ s[5] = "("
      /\ v = <<>> \/ CommaList(v, Literals)
      /\ s[Len(s) - 1] = ")" /\ s[Len(s)] \in Terminators
  BY DEF IsInsert
<1>3. Len(s) - 1 = w + 1 /\ Len(s) = w + 2 /\ 5 \in Nat /\ 5 + c = w /\ 5 + c <= Len(s) /\ Len(s) - 2 = 5 + c
      /\ 5 + 1 = 6
  BY <1>1
<1>4. v = SubSeq(s, 5 + 1, 5 + c)
  BY <1>3 DEF ValueList
<1> HIDE DEF v
<1>5. Len(v) = c /\ \A m \in 1 .. c : v[m] = s[5 + m]
  BY <1>3, <1>4, StretchOf
<1>6. EveryOther(s, Literals, 5, c)
  BY <1>2, <1>3, <1>5, ListEveryOther
<1>7. \A j \in 1 .. 5 : s[j] \notin Literals
  <2>1. s[1] \notin Literals /\ s[2] \notin Literals /\ s[3] \notin Literals /\ s[4] \notin Literals
        /\ s[5] \notin Literals
    BY <1>2 DEF Literals, Identifiers
  <2>2. \A j \in 1 .. 5 : j = 1 \/ j = 2 \/ j = 3 \/ j = 4 \/ j = 5
    OBVIOUS
  <2> QED
    BY <2>1, <2>2
<1>8. Lists(Elements(v), s, Literals) /\ Len(Elements(v)) = Count(s, Literals, 5 + c)
  <2>1. Len(s) \in Nat
    OBVIOUS
  <2> QED
    <3>1. PICK b \in Nat : b = 5
      OBVIOUS
    <3>2. b + c <= Len(s) /\ EveryOther(s, Literals, b, c) /\ Len(v) = c
      BY <1>3, <1>5, <1>6, <3>1
    <3>4. (\A j \in 1 .. b : s[j] \notin Literals) /\ (\A m \in 1 .. c : v[m] = s[b + m])
      BY <1>5, <1>7, <3>1
    <3>5. IsList(v, s, Literals, b, c)
      BY <2>1, <3>2, <3>4 DEF IsList
    <3>3. Lists(Elements(v), s, Literals) /\ Len(Elements(v)) = Count(s, Literals, b + c)
      BY <3>5, ElementsListed
    <3> QED
      BY <3>1, <3>3
<1>9. s[w + 1] \notin Literals /\ s[w + 2] \notin Literals
  <2>1. s[w + 1] = ")" /\ s[w + 2] \in Terminators
    BY <1>2, <1>3
  <2> QED
    BY <2>1 DEF Literals, Terminators
<1>10. Count(s, Literals, Len(s)) = Count(s, Literals, 5 + c)
  <2>1. \A j \in w + 1 .. w + 2 : j = w + 1 \/ j = w + 2
    BY <1>1
  <2>2. \A j \in w + 1 .. w + 2 : s[j] \notin Literals
    BY <1>9, <2>1
  <2>3. PICK u \in Nat : u = w + 2 /\ w <= u
    BY <1>1
  <2>4. Count(s, Literals, u) = Count(s, Literals, w)
    BY <2>2, <2>3, CountOn
  <2> QED
    BY <1>3, <2>3, <2>4
<1>11. Ast(s) = <<"insert", Elements(v)>>
  BY <1>2 DEF Ast, InsertAst, v
<1> QED
  BY <1>8, <1>10, <1>11

LEMMA NothingListed == \A t, K : Lists(<<>>, t, K)
<1> TAKE t, K
<1>1. SUFFICES ASSUME NEW j \in 1 .. Len(t), t[j] \in K
               PROVE  Count(t, K, j) > 0
  <2>1. Len(<<>>) = 0
    OBVIOUS
  <2>2. \A j \in 1 .. Len(t) : Count(t, K, j) \in Nat
    <3>1. \A j \in 1 .. Len(t) : j \in Nat
      OBVIOUS
    <3> QED
      BY <3>1, CountNext
  <2>3. \A j \in 1 .. Len(t) : t[j] \in K => ~(Count(t, K, j) <= 0)
    BY <1>1, <2>2
  <2> QED
    BY <2>1, <2>3 DEF Lists
<1>2. PICK m \in Nat : j = m + 1
  <2>1. j - 1 \in Nat /\ j = (j - 1) + 1
    OBVIOUS
  <2> QED
    BY <2>1
<1>3. Count(t, K, m) \in Nat /\ Count(t, K, m + 1) = Count(t, K, m) + 1
  BY <1>1, <1>2, CountNext
<1> QED
  BY <1>2, <1>3

\* FROM, a table, and the end of the statement.
LEMMA CountTable ==
  ASSUME NEW t, NEW I, NEW F, NEW a \in Nat,
         t[a + 1] \notin I, t[a + 1] \in F, t[a + 2] \in I, t[a + 2] \notin F
  PROVE  Count(t, I, a + 2) = Count(t, I, a) + 1 /\ Count(t, F, a + 2) = Count(t, F, a) + 1
<1>1. a + 1 \in Nat /\ (a + 1) + 1 = a + 2
  OBVIOUS
<1>2. Count(t, I, a + 1) = Count(t, I, a) /\ Count(t, F, a + 1) = Count(t, F, a) + 1
  BY CountNext
<1>3. PICK b \in Nat : b = a + 1 /\ b + 1 = a + 2
  BY <1>1
<1>4. Count(t, I, b + 1) = Count(t, I, b) + 1 /\ Count(t, F, b + 1) = Count(t, F, b)
  BY <1>3, CountNext
<1> QED
  BY <1>2, <1>3, <1>4

\* A condition has a keyword and a column, in this order, and two tokens more.
LEMMA CountCondition ==
  ASSUME NEW t, NEW I, NEW F, NEW a \in Nat,
         t[a + 1] \notin I, t[a + 1] \in F, t[a + 2] \in I, t[a + 2] \notin F,
         t[a + 3] \notin I, t[a + 3] \notin F, t[a + 4] \notin I, t[a + 4] \notin F
  PROVE  Count(t, I, a + 4) = Count(t, I, a) + 1 /\ Count(t, F, a + 4) = Count(t, F, a) + 1
<1>1. Count(t, I, a + 2) = Count(t, I, a) + 1 /\ Count(t, F, a + 2) = Count(t, F, a) + 1
  BY CountTable
<1>2. PICK b \in Nat, d \in Nat : b = a + 2 /\ d = a + 4 /\ b <= d
  <2>1. a + 2 \in Nat /\ a + 4 \in Nat /\ a + 2 <= a + 4
    OBVIOUS
  <2> QED
    BY <2>1
<1>3. \A j \in b + 1 .. d : t[j] \notin I /\ t[j] \notin F
  <2>1. \A j \in b + 1 .. d : j = a + 3 \/ j = a + 4
    BY <1>2
  <2> QED
    BY <2>1
<1>4. Count(t, I, d) = Count(t, I, b) /\ Count(t, F, d) = Count(t, F, b)
  BY <1>2, <1>3, CountOn
<1> QED
  BY <1>1, <1>2, <1>4

\* The keywords that a column list ends with, or a condition begins with.
Clauses == {"FROM", "WHERE"}

\* The tokens of a SELECT that has FROM as its token c + 2.
SelectForm(s, c) ==
  /\ c + 4 <= Len(s)
  /\ s[1] \notin Identifiers \cup Clauses /\ s[c + 2] = "FROM"
  /\ \A j \in 2 .. c + 1 : s[j] \notin Clauses
  /\ s[c + 3] \in Identifiers
  /\ s[Len(s)] \notin Identifiers \cup Clauses
  /\ \/ Len(s) = c + 4
     \/ /\ Len(s) = c + 8
        /\ s[c + 4] = "WHERE" /\ s[c + 5] = "id" /\ s[c + 6] = "=" /\ s[c + 7] = "int"

LEMMA CountSelect ==
  ASSUME NEW s \in Seq(TokenKinds), NEW c \in Nat, SelectForm(s, c)
  PROVE  Count(s, Identifiers, c + 1) + Count(s, Clauses, Len(s)) = Count(s, Identifiers, Len(s))
<1> DEFINE I == Identifiers
           F == Clauses
<1>1. /\ "FROM" \notin I /\ "FROM" \in F /\ "WHERE" \notin I /\ "WHERE" \in F
      /\ "id" \in I /\ "=" \notin I /\ "=" \notin F /\ "int" \notin I /\ "int" \notin F
      /\ \A x \in I : x \notin F
  BY DEF Identifiers, Clauses
<1>2. PICK a \in Nat : a = c + 1
  OBVIOUS
<1>3. s[a + 1] \notin I /\ s[a + 1] \in F /\ s[a + 2] \in I /\ s[a + 2] \notin F
  <2>1. a + 1 = c + 2 /\ a + 2 = c + 3
    BY <1>2
  <2>2. s[c + 2] = "FROM" /\ s[c + 3] \in I
    BY DEF SelectForm
  <2> QED
    BY <1>1, <2>1, <2>2
<1>4. Len(s) = a + 3 \/ (/\ Len(s) = a + 7
                         /\ s[a + 3] \notin I /\ s[a + 3] \in F /\ s[a + 4] \in I /\ s[a + 4] \notin F
                         /\ s[a + 5] \notin I /\ s[a + 5] \notin F /\ s[a + 6] \notin I /\ s[a + 6] \notin F)
  <2>1. a + 3 = c + 4 /\ a + 7 = c + 8 /\ a + 4 = c + 5 /\ a + 5 = c + 6 /\ a + 6 = c + 7
    BY <1>2
  <2>2. CASE Len(s) = c + 4
    BY <2>1, <2>2
  <2>3. CASE Len(s) # c + 4
    <3>1. /\ Len(s) = c + 8
          /\ s[c + 4] = "WHERE" /\ s[c + 5] = "id" /\ s[c + 6] = "=" /\ s[c + 7] = "int"
      BY <2>3 DEF SelectForm
    <3>2. /\ s[a + 3] = "WHERE" /\ s[a + 4] = "id" /\ s[a + 5] = "=" /\ s[a + 6] = "int"
          /\ Len(s) = a + 7
      BY <2>1, <3>1
    <3> QED
      BY <1>1, <3>2
  <2> QED
    BY <2>2, <2>3
<1>5. s[Len(s)] \notin I /\ s[Len(s)] \notin F
  BY DEF SelectForm
<1>6. Count(s, F, a) = 0
  <2>1. \A j \in 0 + 1 .. a : s[j] \notin F
    <3>1. \A j \in 0 + 1 .. a : j = 1 \/ j \in 2 .. c + 1
      BY <1>2
    <3>2. s[1] \notin F /\ \A j \in 2 .. c + 1 : s[j] \notin F
      BY DEF SelectForm
    <3> QED
      BY <3>1, <3>2
  <2>2. Count(s, F, 0) = 0 /\ 0 \in Nat /\ 0 <= a
    BY CountNext
  <2> QED
    BY <2>1, <2>2, CountOn
<1> HIDE DEF I, F
<1>7. /\ Count(s, I, a + 2) = Count(s, I, a) + 1
      /\ Count(s, F, a + 2) = Count(s, F, a) + 1
  BY <1>3, CountTable
<1>8. PICK l \in Nat : l + 1 = Len(s) /\ (l = a + 2 \/ l = a + 6)
  <2>1. a + 2 \in Nat /\ a + 6 \in Nat /\ (a + 2) + 1 = a + 3 /\ (a + 6) + 1 = a + 7
    OBVIOUS
  <2> QED
    BY <1>4, <2>1
<1>9. Count(s, I, l + 1) = Count(s, I, l) /\ Count(s, F, l + 1) = Count(s, F, l)
  BY <1>5, <1>8, CountNext
<1>10. Count(s, I, a) + Count(s, F, l) = Count(s, I, l)
  <2>0. Count(s, I, a) \in Nat
    BY CountNext
  <2>1. CASE l = a + 2
    BY <1>6, <1>7, <2>0, <2>1
  <2>2. CASE l = a + 6
    <3>1. PICK b \in Nat : b = a + 2
      OBVIOUS
    <3>2. /\ b + 1 = a + 3 /\ b + 2 = a + 4 /\ b + 3 = a + 5 /\ b + 4 = a + 6
      BY <3>1
    <3>3. Len(s) = a + 7 /\ Len(s) # a + 3
      BY <1>8, <2>2
    <3>4. /\ s[b + 1] \notin I /\ s[b + 1] \in F /\ s[b + 2] \in I /\ s[b + 2] \notin F
          /\ s[b + 3] \notin I /\ s[b + 3] \notin F /\ s[b + 4] \notin I /\ s[b + 4] \notin F
      BY <1>4, <3>2, <3>3
    <3>5. /\ Count(s, I, b + 4) = Count(s, I, b) + 1
          /\ Count(s, F, b + 4) = Count(s, F, b) + 1
      BY <3>4, CountCondition
    <3> QED
      BY <1>6, <1>7, <2>0, <2>2, <3>1, <3>2, <3>5
  <2> QED
    BY <1>8, <2>1, <2>2
<1> QED
  BY <1>2, <1>8, <1>9, <1>10 DEF I, F

\* What the tree of a SELECT says: its columns, in order, without the table and
\* what the condition is about.
LEMMA SelectTold ==
  ASSUME NEW s \in Seq(TokenKinds), IsSelect(s)
  PROVE  /\ Ast(s)[1] = "select"
         /\ Lists(Ast(s)[2], s, Identifiers)
         /\ Len(Ast(s)[2]) + Count(s, Clauses, Len(s)) = Count(s, Identifiers, Len(s))
<1>1. PICK n \in 3 .. Len(s) - 2 : IsSelectAt(s, n)
  BY DEF IsSelect
<1>2. Len(s) \in Nat
  OBVIOUS
<1>3. PICK c \in Nat \ {0}, h \in Nat : n = c + 2 /\ n - 1 = 1 + c /\ Len(s) = (c + h) + 4
                                        /\ Len(s) - 1 = (c + 3) + h /\ n + 2 = (c + 3) + 1
  <2>1. n \in Nat /\ 3 <= n /\ n + 2 <= Len(s)
    BY <1>2
  <2>2. /\ n - 2 \in Nat \ {0} /\ (Len(s) - n) - 2 \in Nat /\ n = (n - 2) + 2 /\ n - 1 = 1 + (n - 2)
        /\ Len(s) = ((n - 2) + ((Len(s) - n) - 2)) + 4
        /\ Len(s) - 1 = ((n - 2) + 3) + ((Len(s) - n) - 2) /\ n + 2 = ((n - 2) + 3) + 1
    BY <1>2, <2>1
  <2> QED
    BY <2>2
<1> DEFINE v == SubSeq(s, 1 + 1, 1 + c)
           w == SubSeq(s, (c + 3) + 1, (c + 3) + h)
<1>4. /\ s[1] = "SELECT" /\ s[n] = "FROM" /\ s[n + 1] \in Identifiers /\ s[Len(s)] \in Terminators
      /\ v = <<"*">> \/ CommaList(v, Identifiers)
      /\ w = <<>> \/ w = <<"WHERE", "id", "=", "int">>
  <2>1. 1 + 1 = 2
    OBVIOUS
  <2>2. ColumnList(s, n) = v
    BY <1>3, <2>1 DEF ColumnList
  <2>3. SubSeq(s, n + 2, Len(s) - 1) = w
    BY <1>3
  <2> HIDE DEF v, w
  <2> QED
    BY <1>1, <2>2, <2>3 DEF IsSelectAt
<1>5. Len(v) = c /\ \A m \in 1 .. c : v[m] = s[1 + m]
  <2>1. 1 \in Nat /\ 1 + c <= Len(s)
    BY <1>2, <1>3
  <2>2. PICK b \in Nat : b = 1 /\ b + c <= Len(s)
    BY <2>1
  <2>3. \A x : x = SubSeq(s, b + 1, b + c) => Len(x) = c /\ \A m \in 1 .. c : x[m] = s[b + m]
    BY <2>2, StretchOf
  <2> QED
    BY <2>2, <2>3
<1>6. Len(w) = h /\ \A m \in 1 .. h : w[m] = s[(c + 3) + m]
  <2>1. PICK b \in Nat : b = c + 3 /\ b + h <= Len(s)
    <3>1. c + 3 \in Nat /\ (c + 3) + h <= Len(s)
      BY <1>2, <1>3
    <3> QED
      BY <3>1
  <2>2. \A x : x = SubSeq(s, b + 1, b + h) => Len(x) = h /\ \A m \in 1 .. h : x[m] = s[b + m]
    BY <2>1, StretchOf
  <2> QED
    BY <2>1, <2>2
<1> HIDE DEF v, w
<1>7. ASSUME NEW m \in 1 .. c
      PROVE  s[1 + m] \notin Clauses
  <2>1. CASE v = <<"*">>
    <3>1. m = 1 /\ v[1] = "*"
      BY <1>5, <2>1
    <3>2. s[1 + m] = "*"
      BY <1>5, <3>1
    <3> QED
      BY <3>2 DEF Clauses
  <2>2. CASE CommaList(v, Identifiers)
    <3>1. v[m] \in Identifiers \/ v[m] = ","
      BY <1>5, <2>2 DEF CommaList
    <3>2. v[m] \notin Clauses
      BY <3>1 DEF Identifiers, Clauses
    <3> QED
      BY <1>5, <3>2
  <2> QED
    BY <1>4, <2>1, <2>2
<1>8. \A j \in 2 .. c + 1 : s[j] \notin Clauses
  <2>1. ASSUME NEW j \in 2 .. c + 1
        PROVE  s[j] \notin Clauses
    <3>1. j - 1 \in 1 .. c /\ j = 1 + (j - 1)
      BY <1>3
    <3> QED
      BY <1>7, <3>1
  <2> QED
    BY <2>1
<1>9. s[1] \notin Identifiers \cup Clauses /\ s[Len(s)] \notin Identifiers \cup Clauses
  BY <1>4 DEF Identifiers, Clauses, Terminators
<1>10. SelectForm(s, c)
  <2>1. c + 4 <= Len(s)
    BY <1>2, <1>3
  <2>2. s[c + 2] = "FROM" /\ s[c + 3] \in Identifiers
    <3>1. n + 1 = c + 3
      BY <1>3
    <3> QED
      BY <1>3, <1>4, <3>1
  <2>3. CASE w = <<>>
    <3>1. h = 0
      BY <1>6, <2>3
    <3>2. Len(s) = c + 4
      BY <1>3, <3>1
    <3> QED
      BY <1>8, <1>9, <2>1, <2>2, <3>2 DEF SelectForm
  <2>4. CASE w = <<"WHERE", "id", "=", "int">>
    <3>1. h = 4 /\ w[1] = "WHERE" /\ w[2] = "id" /\ w[3] = "=" /\ w[4] = "int"
      BY <1>6, <2>4
    <3>2. /\ Len(s) = c + 8 /\ (c + 3) + 1 = c + 4 /\ (c + 3) + 2 = c + 5 /\ (c + 3) + 3 = c + 6
          /\ (c + 3) + 4 = c + 7 /\ 1 \in 1 .. h /\ 2 \in 1 .. h /\ 3 \in 1 .. h /\ 4 \in 1 .. h
      <4>1. h = 4
        BY <3>1
      <4> QED
        BY <1>3, <4>1
    <3>3. w[1] = s[c + 4] /\ w[2] = s[c + 5] /\ w[3] = s[c + 6] /\ w[4] = s[c + 7]
      BY <1>6, <3>2
    <3>4. s[c + 4] = "WHERE" /\ s[c + 5] = "id" /\ s[c + 6] = "=" /\ s[c + 7] = "int"
      BY <3>1, <3>3
    <3> QED
      BY <1>8, <1>9, <2>1, <2>2, <3>2, <3>4 DEF SelectForm
  <2> QED
    BY <1>4, <2>3, <2>4
<1>11. Find(s, 1, "FROM") = n
  <2>1. PICK f : f = Find(s, 1, "FROM")
    OBVIOUS
  <2>2. 1 \in 1 .. Len(s) + 1 /\ n \in 1 .. Len(s)
    BY <1>2
  <2>3. /\ f \in 1 .. Len(s) + 1
        /\ f <= Len(s) => s[f] = "FROM"
        /\ \A q \in 1 .. Len(s) : s[q] = "FROM" => f <= q
    BY <1>2, <2>1, <2>2, FindIs
  <2>4. f <= n
    BY <1>4, <2>2, <2>3
  <2>5. s[f] = "FROM"
    <3>1. f <= Len(s)
      BY <2>2, <2>3, <2>4
    <3> QED
      BY <2>3, <3>1
  <2>6. f # 1
    BY <1>4, <2>5
  <2>7. f \notin 2 .. c + 1
    BY <1>8, <2>5 DEF Clauses
  <2>8. f = n
    BY <1>3, <2>3, <2>4, <2>6, <2>7
  <2> QED
    BY <2>1, <2>8
<1> DEFINE cols == IF s[2] = "*" THEN <<>> ELSE Elements(v)
<1>12. Ast(s) = <<"select", cols>>
  <2>1. s[1] # "INSERT"
    BY <1>4
  <2>2. 1 + 1 = 2
    OBVIOUS
  <2>3. ColumnList(s, n) = v
    BY <1>3, <2>2 DEF ColumnList, v
  <2> QED
    BY <1>11, <2>1, <2>3 DEF Ast, SelectAst
<1>13. Lists(cols, s, Identifiers) /\ Len(cols) = Count(s, Identifiers, c + 1)
  <2>0. 1 \in 1 .. c /\ 1 + 1 = 2 /\ 1 + c = c + 1
    BY <1>3
  <2>1. CASE v = <<"*">>
    <3>1. v[1] = "*"
      BY <2>1
    <3>2. s[2] = "*"
      BY <1>5, <2>0, <3>1
    <3>3. c = 1
      BY <1>5, <2>1
    <3>4. s[1] \notin Identifiers /\ s[2] \notin Identifiers
      BY <1>4, <3>2 DEF Identifiers
    <3>5. Count(s, Identifiers, 2) = 0
      <4>1. \A j \in 0 + 1 .. 2 : s[j] \notin Identifiers
        <5>1. \A j \in 0 + 1 .. 2 : j = 1 \/ j = 2
          OBVIOUS
        <5> QED
          BY <3>4, <5>1
      <4>2. Count(s, Identifiers, 0) = 0 /\ 0 \in Nat /\ 2 \in Nat /\ 0 <= 2
        BY CountNext
      <4> QED
        BY <4>1, <4>2, CountOn
    <3>6. cols = <<>> /\ Len(cols) = 0 /\ c + 1 = 2
      BY <3>2, <3>3
    <3> HIDE DEF cols
    <3> QED
      BY <3>5, <3>6, NothingListed
  <2>2. CASE CommaList(v, Identifiers)
    <3>1. v[1] \in Identifiers
      <4>1. IF 1 % 2 = 1 THEN v[1] \in Identifiers ELSE v[1] = ","
        BY <1>5, <2>0, <2>2 DEF CommaList
      <4> QED
        BY <4>1
    <3>2. s[2] \in Identifiers
      BY <1>5, <2>0, <3>1
    <3>3. s[2] # "*"
      BY <3>2 DEF Identifiers
    <3>4. PICK b \in Nat : b = 1 /\ b + c <= Len(s)
      <4>1. 1 \in Nat /\ 1 + c <= Len(s)
        BY <1>2, <1>3
      <4> QED
        BY <4>1
    <3>5. Len(v) = c /\ \A m \in 1 .. c : v[m] = s[b + m]
      BY <1>5, <3>4
    <3>6. EveryOther(s, Identifiers, b, c)
      BY <2>2, <3>5, ListEveryOther
    <3>7. \A j \in 1 .. b : s[j] \notin Identifiers
      <4>1. \A j \in 1 .. b : j = 1
        BY <3>4
      <4>2. s[1] \notin Identifiers
        BY <1>9
      <4> QED
        BY <4>1, <4>2
    <3>8. IsList(v, s, Identifiers, b, c)
      BY <1>2, <3>4, <3>5, <3>6, <3>7 DEF IsList
    <3>9. Lists(Elements(v), s, Identifiers) /\ Len(Elements(v)) = Count(s, Identifiers, b + c)
      BY <3>8, ElementsListed
    <3> QED
      BY <2>0, <3>3, <3>4, <3>9
  <2> QED
    BY <1>4, <2>1, <2>2
<1> HIDE DEF cols
<1>14. Count(s, Identifiers, c + 1) + Count(s, Clauses, Len(s)) = Count(s, Identifiers, Len(s))
  BY <1>10, CountSelect
<1> QED
  BY <1>12, <1>13, <1>14

-----------------------------------------------------------------------------
(* What the trace tells.                                                   *)

IsEvent(e, step, no) == e.step = step /\ e.no = no

\* The events e from number b + 1 on tell of the start of statement k, of its
\* tokens t, of what the parser made of the statement s, and of its end.
StartTold(e, b, k)     == IsEvent(e[b + 1], "statement_start", k)
TokensTold(e, b, k, t) == IsEvent(e[b + 2], "lexer_tokens", k) /\ e[b + 2].data \in ListedTokens(t)
TreeTold(e, b, k, s)   == /\ IsEvent(e[b + 3], "parser_result", k) /\ e[b + 3].data = Ast(s)
                          /\ IsEvent(e[b + 4], "executor_call", k) /\ e[b + 4].data = <<Ast(s)[1]>>
EndTold(e, b, k, code) == IsEvent(e[b + 5], "statement_end", k) /\ e[b + 5].data = <<code>>

WholeTold(e, k, s) ==
  LET b == 5 * (k - 1) IN
  /\ StartTold(e, b, k) /\ EndTold(e, b, k, 0) /\ TreeTold(e, b, k, s)
  /\ \E t \in Seq(TokenKinds) : Parses(t) /\ s = Statement(t) /\ TokensTold(e, b, k, t)

\* The events of the statements that were executed, of the one at work, and of
\* the end of the run.
ErrorTold(e, b, k) ==
  /\ Len(e) = b + 5 /\ StartTold(e, b, k)
  /\ IsEvent(e[b + 2], "lexer_tokens", k) /\ IsEvent(e[b + 3], "parser_result", k)
  /\ e[b + 4] = End(2) /\ e[b + 5] = ProcessEnd(2)

FailureTold(e, b, k) ==
  /\ Len(e) = b + 6 /\ StartTold(e, b, k)
  /\ IsEvent(e[b + 2], "lexer_tokens", k) /\ IsEvent(e[b + 3], "parser_result", k)
  /\ IsEvent(e[b + 4], "executor_call", k)
  /\ e[b + 5] = End(3) /\ e[b + 6] = ProcessEnd(3)

EndOfRun(e, b, k) ==
  \/ rc = 3 /\ Len(e) = b /\ stmt_no = 0
  \/ rc = 3 /\ Len(e) = b + 1 /\ e[b + 1] = BrokenLine
  \/ (rc = 0 \/ (rc = 3 /\ stmt_no = 0)) /\ Len(e) = b + 1 /\ e[b + 1] = ProcessEnd(rc)
  \/ rc = 2 /\ stmt_no = k /\ ErrorTold(e, b, k)
  \/ rc = 3 /\ stmt_no = k /\ FailureTold(e, b, k)

AtWork(e, b, k) ==
  /\ pc \in {"open", "scan", "statement"} => Len(e) = b
  /\ pc = "lex" => Len(e) = b + 1 /\ StartTold(e, b, k)
  /\ pc = "execute" => /\ Len(e) = b + 4 /\ StartTold(e, b, k)
                       /\ TokensTold(e, b, k, PieceTokens) /\ TreeTold(e, b, k, Statement(PieceTokens))
  /\ pc = "exit" => EndOfRun(e, b, k)

ToldInv == traced => /\ \A k \in 1 .. Len(done) : WholeTold(trace, k, done[k])
                     /\ AtWork(trace, 5 * Len(done), Len(done) + 1)

\* What the events are made of.
LEMMA Events ==
  /\ IsEvent(Start, "statement_start", stmt_no)
  /\ \A t : IsEvent(LexerTokensAre(t), "lexer_tokens", stmt_no) /\ LexerTokensAre(t).data = t
  /\ \A d : IsEvent(ParserResult(d), "parser_result", stmt_no) /\ ParserResult(d).data = d
  /\ \A d : IsEvent(ExecutorCall(d), "executor_call", stmt_no) /\ ExecutorCall(d).data = <<d>>
  /\ \A c : IsEvent(End(c), "statement_end", stmt_no) /\ End(c).data = <<c>>
BY DEF IsEvent, Start, LexerTokensAre, ParserResult, ExecutorCall, End, Event

\* A trace with one to four events more.
LEMMA Written ==
  ASSUME NEW tr, IsSequence(tr), NEW n, n = Len(tr)
  PROVE  /\ n \in Nat
         /\ \A a : /\ Len(tr \o <<a>>) = n + 1 /\ (tr \o <<a>>)[n + 1] = a
                   /\ \A j \in 1 .. n : (tr \o <<a>>)[j] = tr[j]
         /\ \A a, b : /\ Len(tr \o <<a, b>>) = n + 2
                      /\ (tr \o <<a, b>>)[n + 1] = a /\ (tr \o <<a, b>>)[n + 2] = b
                      /\ \A j \in 1 .. n : (tr \o <<a, b>>)[j] = tr[j]
         /\ \A a, b, c : /\ Len(tr \o <<a, b, c>>) = n + 3
                         /\ (tr \o <<a, b, c>>)[n + 1] = a /\ (tr \o <<a, b, c>>)[n + 2] = b
                         /\ (tr \o <<a, b, c>>)[n + 3] = c
                         /\ \A j \in 1 .. n : (tr \o <<a, b, c>>)[j] = tr[j]
         /\ \A a, b, c, d : /\ Len(tr \o <<a, b, c, d>>) = n + 4
                            /\ (tr \o <<a, b, c, d>>)[n + 1] = a /\ (tr \o <<a, b, c, d>>)[n + 2] = b
                            /\ (tr \o <<a, b, c, d>>)[n + 3] = c /\ (tr \o <<a, b, c, d>>)[n + 4] = d
                            /\ \A j \in 1 .. n : (tr \o <<a, b, c, d>>)[j] = tr[j]
<1>1. n \in Nat
  BY DEF IsSequence
<1>2. ASSUME NEW e, IsSequence(e), NEW m, m = Len(e)
      PROVE  /\ Len(tr \o e) = n + m
             /\ \A j \in 1 .. n : (tr \o e)[j] = tr[j]
             /\ \A j \in 1 .. m : (tr \o e)[n + j] = e[j]
  BY <1>2, JoinOf
<1>3. ASSUME NEW a
      PROVE  IsSequence(<<a>>) /\ Len(<<a>>) = 1 /\ <<a>>[1] = a
  <2>1. <<a>> \in Seq({a})
    OBVIOUS
  <2> QED
    BY <2>1, SequenceOf
<1>4. ASSUME NEW a, NEW b
      PROVE  IsSequence(<<a, b>>) /\ Len(<<a, b>>) = 2 /\ <<a, b>>[1] = a /\ <<a, b>>[2] = b
  <2>1. <<a, b>> \in Seq({a, b})
    OBVIOUS
  <2> QED
    BY <2>1, SequenceOf
<1>5. ASSUME NEW a, NEW b, NEW c
      PROVE  /\ IsSequence(<<a, b, c>>) /\ Len(<<a, b, c>>) = 3
             /\ <<a, b, c>>[1] = a /\ <<a, b, c>>[2] = b /\ <<a, b, c>>[3] = c
  <2>1. <<a, b, c>> \in Seq({a, b, c})
    OBVIOUS
  <2> QED
    BY <2>1, SequenceOf
<1>6. ASSUME NEW a, NEW b, NEW c, NEW d
      PROVE  /\ IsSequence(<<a, b, c, d>>) /\ Len(<<a, b, c, d>>) = 4
             /\ <<a, b, c, d>>[1] = a /\ <<a, b, c, d>>[2] = b
             /\ <<a, b, c, d>>[3] = c /\ <<a, b, c, d>>[4] = d
  <2>1. <<a, b, c, d>> \in Seq({a, b, c, d})
    OBVIOUS
  <2> QED
    BY <2>1, SequenceOf
<1>7. ASSUME NEW a
      PROVE  /\ Len(tr \o <<a>>) = n + 1 /\ (tr \o <<a>>)[n + 1] = a
             /\ \A j \in 1 .. n : (tr \o <<a>>)[j] = tr[j]
  <2>1. PICK e : e = <<a>>
    OBVIOUS
  <2>2. IsSequence(e) /\ Len(e) = 1 /\ e[1] = a /\ 1 \in 1 .. 1
    BY <1>3, <2>1
  <2>3. /\ Len(tr \o e) = n + 1 /\ (tr \o e)[n + 1] = a
        /\ \A j \in 1 .. n : (tr \o e)[j] = tr[j]
    BY <1>2, <2>2
  <2> QED
    BY <2>1, <2>3
<1>8. ASSUME NEW a, NEW b
      PROVE  /\ Len(tr \o <<a, b>>) = n + 2
             /\ (tr \o <<a, b>>)[n + 1] = a /\ (tr \o <<a, b>>)[n + 2] = b
             /\ \A j \in 1 .. n : (tr \o <<a, b>>)[j] = tr[j]
  <2>1. PICK e : e = <<a, b>>
    OBVIOUS
  <2>2. IsSequence(e) /\ Len(e) = 2 /\ e[1] = a /\ e[2] = b /\ 1 \in 1 .. 2 /\ 2 \in 1 .. 2
    BY <1>4, <2>1
  <2>3. /\ Len(tr \o e) = n + 2 /\ (tr \o e)[n + 1] = a /\ (tr \o e)[n + 2] = b
        /\ \A j \in 1 .. n : (tr \o e)[j] = tr[j]
    BY <1>2, <2>2
  <2> QED
    BY <2>1, <2>3
<1>9. ASSUME NEW a, NEW b, NEW c
      PROVE  /\ Len(tr \o <<a, b, c>>) = n + 3
             /\ (tr \o <<a, b, c>>)[n + 1] = a /\ (tr \o <<a, b, c>>)[n + 2] = b
             /\ (tr \o <<a, b, c>>)[n + 3] = c
             /\ \A j \in 1 .. n : (tr \o <<a, b, c>>)[j] = tr[j]
  <2>1. PICK e : e = <<a, b, c>>
    OBVIOUS
  <2>2. /\ IsSequence(e) /\ Len(e) = 3 /\ e[1] = a /\ e[2] = b /\ e[3] = c
        /\ 1 \in 1 .. 3 /\ 2 \in 1 .. 3 /\ 3 \in 1 .. 3
    BY <1>5, <2>1
  <2>3. /\ Len(tr \o e) = n + 3 /\ (tr \o e)[n + 1] = a /\ (tr \o e)[n + 2] = b
        /\ (tr \o e)[n + 3] = c
        /\ \A j \in 1 .. n : (tr \o e)[j] = tr[j]
    BY <1>2, <2>2
  <2> QED
    BY <2>1, <2>3
<1>10. ASSUME NEW a, NEW b, NEW c, NEW d
       PROVE  /\ Len(tr \o <<a, b, c, d>>) = n + 4
              /\ (tr \o <<a, b, c, d>>)[n + 1] = a /\ (tr \o <<a, b, c, d>>)[n + 2] = b
              /\ (tr \o <<a, b, c, d>>)[n + 3] = c /\ (tr \o <<a, b, c, d>>)[n + 4] = d
              /\ \A j \in 1 .. n : (tr \o <<a, b, c, d>>)[j] = tr[j]
  <2>1. PICK e : e = <<a, b, c, d>>
    OBVIOUS
  <2>2. /\ IsSequence(e) /\ Len(e) = 4 /\ e[1] = a /\ e[2] = b /\ e[3] = c /\ e[4] = d
        /\ 1 \in 1 .. 4 /\ 2 \in 1 .. 4 /\ 3 \in 1 .. 4 /\ 4 \in 1 .. 4
    BY <1>6, <2>1
  <2>4. PICK z : z = tr \o e
    OBVIOUS
  <2>5. /\ Len(z) = n + 4 /\ \A j \in 1 .. n : z[j] = tr[j]
        /\ \A j \in 1 .. 4 : z[n + j] = e[j]
    BY <1>2, <2>2, <2>4
  <2>6. z[n + 1] = a /\ z[n + 2] = b /\ z[n + 3] = c /\ z[n + 4] = d
    BY <2>2, <2>5
  <2>3. /\ Len(tr \o e) = n + 4 /\ (tr \o e)[n + 1] = a /\ (tr \o e)[n + 2] = b
        /\ (tr \o e)[n + 3] = c /\ (tr \o e)[n + 4] = d
        /\ \A j \in 1 .. n : (tr \o e)[j] = tr[j]
    BY <2>4, <2>5, <2>6
  <2> QED
    BY <2>1, <2>3
<1> QED
  BY <1>1, <1>7, <1>8, <1>9, <1>10

LEMMA WithEnd ==
  /\ \A d : <<>> \o <<d>> = <<d>>
  /\ \A a, d : <<a>> \o <<d>> = <<a, d>>
  /\ \A a, b, c, d : <<a, b, c>> \o <<d>> = <<a, b, c, d>>
<1>1. ASSUME NEW x, IsSequence(x), NEW d
      PROVE  /\ IsSequence(x \o <<d>>) /\ Len(x \o <<d>>) = Len(x) + 1 /\ (x \o <<d>>)[Len(x) + 1] = d
             /\ \A j \in 1 .. Len(x) : (x \o <<d>>)[j] = x[j]
  <2>1. <<d>> \in Seq({d}) /\ Len(<<d>>) = 1 /\ <<d>>[1] = d
    OBVIOUS
  <2>2. IsSequence(<<d>>)
    BY <2>1, SequenceOf
  <2> QED
    BY <1>1, <2>1, <2>2, JoinOf
<1>2. ASSUME NEW d
      PROVE  <<>> \o <<d>> = <<d>>
  <2>1. <<d>> \in Seq({d})
    OBVIOUS
  <2> QED
    BY <2>1, ConcatEmptySeq
<1>3. ASSUME NEW a, NEW d
      PROVE  <<a>> \o <<d>> = <<a, d>>
  <2>1. <<a>> \in Seq({a}) /\ Len(<<a>>) = 1 /\ <<a>>[1] = a
    OBVIOUS
  <2>2. PICK y : y = <<a, d>>
    OBVIOUS
  <2>3. y \in Seq({a, d}) /\ Len(y) = 2 /\ y[1] = a /\ y[2] = d
    BY <2>2
  <2>4. IsSequence(<<a>>) /\ IsSequence(y)
    BY <2>1, <2>3, SequenceOf
  <2>5. PICK z : z = <<a>> \o <<d>>
    OBVIOUS
  <2>6. IsSequence(z) /\ Len(z) = 1 + 1 /\ z[1 + 1] = d /\ \A j \in 1 .. 1 : z[j] = a
    BY <1>1, <2>1, <2>4, <2>5
  <2>7. \A j \in 1 .. Len(z) : z[j] = y[j]
    <3>1. Len(z) = 2 /\ z[2] = d /\ z[1] = a
      BY <2>6
    <3>2. \A j \in 1 .. 2 : j = 1 \/ j = 2
      OBVIOUS
    <3> QED
      BY <2>3, <3>1, <3>2
  <2>8. Len(z) = Len(y) /\ Len(z) <= Len(y)
    BY <2>3, <2>6
  <2> QED
    BY <2>2, <2>4, <2>5, <2>6, <2>7, <2>8, PrefixOf
<1>4. ASSUME NEW a, NEW b, NEW c, NEW d
      PROVE  <<a, b, c>> \o <<d>> = <<a, b, c, d>>
  <2>1. PICK x : x = <<a, b, c>>
    OBVIOUS
  <2>2. PICK y : y = <<a, b, c, d>>
    OBVIOUS
  <2>3. y \in Seq({a, b, c, d}) /\ Len(y) = 4 /\ y[1] = a /\ y[2] = b /\ y[3] = c /\ y[4] = d
    BY <2>2
  <2>9. x \in Seq({a, b, c}) /\ Len(x) = 3 /\ x[1] = a /\ x[2] = b /\ x[3] = c
    BY <2>1
  <2>4. IsSequence(x) /\ IsSequence(y)
    BY <2>3, <2>9, SequenceOf
  <2>5. PICK z : z = x \o <<d>>
    OBVIOUS
  <2>6. IsSequence(z) /\ Len(z) = 3 + 1 /\ z[3 + 1] = d /\ \A j \in 1 .. 3 : z[j] = x[j]
    <3>1. /\ IsSequence(z) /\ Len(z) = Len(x) + 1 /\ z[Len(x) + 1] = d
          /\ \A j \in 1 .. Len(x) : z[j] = x[j]
      BY <1>1, <2>4, <2>5
    <3> QED
      BY <2>9, <3>1
  <2>7. \A j \in 1 .. Len(z) : z[j] = y[j]
    <3>1. Len(z) = 4 /\ z[4] = d /\ z[1] = a /\ z[2] = b /\ z[3] = c
      BY <2>6, <2>9
    <3>2. \A j \in 1 .. 4 : j = 1 \/ j = 2 \/ j = 3 \/ j = 4
      OBVIOUS
    <3> QED
      BY <2>3, <3>1, <3>2
  <2>8. Len(z) = Len(y) /\ Len(z) <= Len(y)
    BY <2>3, <2>6
  <2>10. z = y
    BY <2>4, <2>6, <2>7, <2>8, PrefixOf
  <2> QED
    BY <2>1, <2>2, <2>5, <2>10
<1> QED
  BY <1>2, <1>3, <1>4

\* What was told stays told when the trace grows.
LEMMA WholeStays ==
  ASSUME NEW e, NEW f, NEW n \in Nat, 5 * n <= Len(e), Len(e) \in Nat,
         \A j \in 1 .. Len(e) : f[j] = e[j], NEW k \in 1 .. n, NEW s, WholeTold(e, k, s)
  PROVE  WholeTold(f, k, s)
<1>1. PICK b \in Nat : b = 5 * (k - 1) /\ b + 5 <= Len(e)
  <2>1. k - 1 \in Nat /\ 5 * (k - 1) \in Nat /\ 5 * (k - 1) + 5 <= Len(e)
    OBVIOUS
  <2> QED
    BY <2>1
<1>2. /\ b + 1 \in 1 .. Len(e) /\ b + 2 \in 1 .. Len(e) /\ b + 3 \in 1 .. Len(e)
      /\ b + 4 \in 1 .. Len(e) /\ b + 5 \in 1 .. Len(e)
  BY <1>1
<1>3. /\ f[b + 1] = e[b + 1] /\ f[b + 2] = e[b + 2] /\ f[b + 3] = e[b + 3]
      /\ f[b + 4] = e[b + 4] /\ f[b + 5] = e[b + 5]
  BY <1>2
<1>4. /\ StartTold(e, b, k) /\ EndTold(e, b, k, 0) /\ TreeTold(e, b, k, s)
      /\ \E t \in Seq(TokenKinds) : Parses(t) /\ s = Statement(t) /\ TokensTold(e, b, k, t)
  BY <1>1 DEF WholeTold
<1>5. StartTold(f, b, k) /\ EndTold(f, b, k, 0) /\ TreeTold(f, b, k, s)
  BY <1>3, <1>4 DEF StartTold, EndTold, TreeTold
<1>6. \E t \in Seq(TokenKinds) : Parses(t) /\ s = Statement(t) /\ TokensTold(f, b, k, t)
  BY <1>3, <1>4 DEF TokensTold
<1> QED
  BY <1>1, <1>5, <1>6 DEF WholeTold

-----------------------------------------------------------------------------
(* Each step keeps what the trace tells.                                   *)

\* Before a run ends the trace is no shorter than what is told of the
\* statements that were executed.
LEMMA AtWorkLength ==
  ASSUME NEW b \in Nat, NEW k, AtWork(trace, b, k), pc # "exit",
         pc \in {"open", "scan", "statement", "lex", "execute", "exit"}
  PROVE  b <= Len(trace) /\ Len(trace) \in Nat
BY DEF AtWork

\* No event is written while a piece is cut.
LEMMA ToldSame ==
  ASSUME ToldInv, trace' = trace, done' = done, traced' = traced,
         \/ pc \in {"open", "scan", "statement"} /\ pc' \in {"open", "scan", "statement"}
         \/ pc = "lex" /\ pc' = "lex"
  PROVE  ToldInv'
BY DEF ToldInv, AtWork, StartTold, IsEvent

\* Events are added, and the list of what was executed stays.
LEMMA ToldMore ==
  ASSUME SInv, ToldInv, traced, pc # "exit", done' = done,
         \A j \in 1 .. Len(trace) : trace'[j] = trace[j],
         AtWork(trace, 5 * Len(done), Len(done) + 1)'
  PROVE  ToldInv'
<1>1. PICK n \in Nat : n = Len(done)
  BY DEF SInv, ScriptTypes
<1>2. (\A k \in 1 .. n : WholeTold(trace, k, done[k])) /\ AtWork(trace, 5 * n, n + 1)
  BY <1>1 DEF ToldInv
<1>3. 5 * n <= Len(trace) /\ Len(trace) \in Nat
  <2>1. 5 * n \in Nat
    OBVIOUS
  <2> QED
    BY <1>2, <2>1, AtWorkLength DEF SInv, ScriptTypes
<1>4. \A k \in 1 .. n : WholeTold(trace', k, done[k])
  BY <1>2, <1>3, WholeStays
<1> QED
  BY <1>1, <1>4 DEF ToldInv

LEMMA ToldBegin == SInv /\ ToldInv /\ BeginStatement => ToldInv'
<1> SUFFICES ASSUME SInv, ToldInv, BeginStatement, traced
             PROVE  ToldInv'
  BY DEF BeginStatement, ToldInv
<1>1. /\ pc = "statement" /\ pc' = "lex" /\ done' = done /\ trace' = trace \o <<Start>>
  BY DEF BeginStatement, Write
<1>2. IsSequence(trace) /\ done \in Seq(Seq(TokenKinds)) /\ stmt_no = Len(done) + 1
  BY <1>1 DEF SInv, ScriptTypes, TraceInv, NumberInv
<1>3. PICK b \in Nat, k \in Nat : b = 5 * Len(done) /\ k = Len(done) + 1
  <2>1. 5 * Len(done) \in Nat /\ Len(done) + 1 \in Nat
    BY <1>2
  <2> QED
    BY <2>1
<1>4. Len(trace) = b
  BY <1>1, <1>3 DEF ToldInv, AtWork
<1>5. /\ Len(trace') = b + 1 /\ trace'[b + 1] = Start
      /\ \A j \in 1 .. Len(trace) : trace'[j] = trace[j]
  BY <1>1, <1>2, <1>4, Written
<1>6. IsEvent(Start, "statement_start", k)
  BY <1>2, <1>3, Events
<1>7. AtWork(trace, b, k)'
  BY <1>1, <1>5, <1>6 DEF AtWork, StartTold
<1> QED
  BY <1>1, <1>3, <1>5, <1>7, ToldMore

LEMMA ToldParse == SInv /\ ToldInv /\ Parse => ToldInv'
<1> SUFFICES ASSUME SInv, ToldInv, Parse, traced
             PROVE  ToldInv'
  BY DEF Parse, ToldInv
<1> DEFINE t == PieceTokens
           a == Ast(Statement(t))
<1>1. /\ pc = "lex" /\ pc' = "execute" /\ done' = done /\ PieceTokens' = PieceTokens
  BY DEF Parse, Lexed, PieceTokens, lexer_vars
<1>2. PICK told \in ListedTokens(t) :
        trace' = trace \o <<LexerTokensAre(told), ParserResult(a), ExecutorCall(a[1])>>
  BY DEF Parse, Write
<1>3. IsSequence(trace) /\ done \in Seq(Seq(TokenKinds)) /\ stmt_no = Len(done) + 1
  BY <1>1 DEF SInv, ScriptTypes, TraceInv, NumberInv
<1>4. PICK b \in Nat, k \in Nat : b = 5 * Len(done) /\ k = Len(done) + 1
  <2>1. 5 * Len(done) \in Nat /\ Len(done) + 1 \in Nat
    BY <1>3
  <2> QED
    BY <2>1
<1>5. Len(trace) = b + 1 /\ StartTold(trace, b, k)
  BY <1>1, <1>4 DEF ToldInv, AtWork
<1> DEFINE e2 == LexerTokensAre(told)
           e3 == ParserResult(a)
           e4 == ExecutorCall(a[1])
<1>6. /\ IsEvent(e2, "lexer_tokens", k) /\ e2.data = told
      /\ IsEvent(e3, "parser_result", k) /\ e3.data = a
      /\ IsEvent(e4, "executor_call", k) /\ e4.data = <<a[1]>>
  BY <1>3, <1>4, Events
<1>7. trace' = trace \o <<e2, e3, e4>>
  BY <1>2
<1> HIDE DEF e2, e3, e4
<1>8. PICK n \in Nat : n = Len(trace) /\ n = b + 1 /\ n + 1 = b + 2 /\ n + 2 = b + 3 /\ n + 3 = b + 4
  <2>1. b + 1 \in Nat /\ (b + 1) + 1 = b + 2 /\ (b + 1) + 2 = b + 3 /\ (b + 1) + 3 = b + 4
    OBVIOUS
  <2> QED
    BY <1>5, <2>1
<1>9. /\ Len(trace') = n + 3 /\ trace'[n + 1] = e2 /\ trace'[n + 2] = e3 /\ trace'[n + 3] = e4
      /\ \A j \in 1 .. n : trace'[j] = trace[j]
  <2>1. /\ Len(trace \o <<e2, e3, e4>>) = n + 3 /\ (trace \o <<e2, e3, e4>>)[n + 1] = e2
        /\ (trace \o <<e2, e3, e4>>)[n + 2] = e3 /\ (trace \o <<e2, e3, e4>>)[n + 3] = e4
        /\ \A j \in 1 .. n : (trace \o <<e2, e3, e4>>)[j] = trace[j]
    <3>1. IsSequence(trace) /\ n = Len(trace)
      BY <1>3, <1>8
    <3> QED
      BY <3>1, Written
  <2> QED
    BY <1>7, <2>1
<1>10. /\ Len(trace') = b + 4 /\ trace'[b + 2] = e2 /\ trace'[b + 3] = e3 /\ trace'[b + 4] = e4
       /\ trace'[b + 1] = trace[b + 1]
  <2>1. b + 1 \in 1 .. n
    BY <1>8
  <2> QED
    BY <1>8, <1>9, <2>1
<1>11. AtWork(trace, b, k)'
  <2>1. StartTold(trace', b, k)
    BY <1>5, <1>10 DEF StartTold
  <2>2. TokensTold(trace', b, k, t)
    BY <1>6, <1>10 DEF TokensTold
  <2>3. TreeTold(trace', b, k, Statement(t))
    BY <1>6, <1>10 DEF TreeTold
  <2> QED
    BY <1>1, <1>10, <2>1, <2>2, <2>3 DEF AtWork
<1> QED
  BY <1>1, <1>4, <1>8, <1>9, <1>11, ToldMore

LEMMA ToldExecute == SInv /\ ToldInv /\ Execute => ToldInv'
<1> SUFFICES ASSUME SInv, ToldInv, Execute, traced
             PROVE  ToldInv'
  BY DEF Execute, ToldInv
<1> DEFINE s == Statement(PieceTokens)
<1>1. /\ pc = "execute" /\ pc' = "scan" /\ done' = Append(done, s)
      /\ trace' = trace \o <<End(0)>>
  BY DEF Execute, Write
<1>2. /\ IsSequence(trace) /\ done \in Seq(Seq(TokenKinds)) /\ stmt_no = Len(done) + 1
      /\ PieceTokens \in Seq(TokenKinds) /\ Parses(PieceTokens)
  <2>1. toks \in Seq(LexerTokens)
    BY DEF SInv, LexInv
  <2> QED
    BY <1>1, <2>1, KindsOf DEF SInv, ScriptTypes, TraceInv, NumberInv, TakenInv, PieceTokens
<1>3. PICK n \in Nat, b \in Nat, k \in Nat :
        /\ n = Len(done) /\ b = 5 * n /\ k = n + 1 /\ b = 5 * (k - 1) /\ 5 * k = b + 5
  <2>1. PICK n \in Nat : n = Len(done)
    BY <1>2
  <2>2. 5 * n \in Nat /\ n + 1 \in Nat /\ 5 * n = 5 * ((n + 1) - 1) /\ 5 * (n + 1) = 5 * n + 5
    OBVIOUS
  <2> QED
    BY <2>1, <2>2
<1>4. (\A x \in 1 .. n : WholeTold(trace, x, done[x])) /\ AtWork(trace, b, k)
  BY <1>3 DEF ToldInv
<1>5. /\ Len(trace) = b + 4 /\ StartTold(trace, b, k) /\ TokensTold(trace, b, k, PieceTokens)
      /\ TreeTold(trace, b, k, s)
  BY <1>1, <1>4 DEF AtWork
<1>6. Statement(PieceTokens) \in Seq(TokenKinds)
  BY <1>2, StatementOf
<1> HIDE DEF s
<1>7. Len(done') = k /\ done'[k] = s /\ \A x \in 1 .. n : done'[x] = done[x]
  <2>1. s \in Seq(TokenKinds)
    BY <1>6 DEF s
  <2> QED
    BY <1>1, <1>2, <1>3, <2>1
<1>8. PICK l \in Nat : l = Len(trace) /\ l = b + 4 /\ l + 1 = b + 5
  <2>1. b + 4 \in Nat /\ (b + 4) + 1 = b + 5
    OBVIOUS
  <2> QED
    BY <1>5, <2>1
<1>9. /\ Len(trace') = l + 1 /\ trace'[l + 1] = End(0) /\ \A j \in 1 .. l : trace'[j] = trace[j]
  <2>1. PICK e : e = End(0)
    OBVIOUS
  <2>2. IsSequence(trace) /\ l = Len(trace)
    BY <1>2, <1>8
  <2>3. /\ Len(trace \o <<e>>) = l + 1 /\ (trace \o <<e>>)[l + 1] = e
        /\ \A j \in 1 .. l : (trace \o <<e>>)[j] = trace[j]
    BY <2>2, Written
  <2> QED
    BY <1>1, <2>1, <2>3
<1>10. /\ trace'[b + 1] = trace[b + 1] /\ trace'[b + 2] = trace[b + 2] /\ trace'[b + 3] = trace[b + 3]
       /\ trace'[b + 4] = trace[b + 4] /\ trace'[b + 5] = End(0)
  <2>1. b + 1 \in 1 .. l /\ b + 2 \in 1 .. l /\ b + 3 \in 1 .. l /\ b + 4 \in 1 .. l
    BY <1>8
  <2> QED
    BY <1>8, <1>9, <2>1
<1>11. WholeTold(trace', k, s)
  <2>1. StartTold(trace', b, k) /\ TreeTold(trace', b, k, s) /\ TokensTold(trace', b, k, PieceTokens)
    BY <1>5, <1>10 DEF StartTold, TreeTold, TokensTold
  <2>2. IsEvent(End(0), "statement_end", k) /\ End(0).data = <<0>>
    BY <1>2, <1>3, Events
  <2>3. EndTold(trace', b, k, 0)
    BY <1>10, <2>2 DEF EndTold
  <2>4. \E t \in Seq(TokenKinds) : Parses(t) /\ s = Statement(t) /\ TokensTold(trace', b, k, t)
    BY <1>2, <2>1 DEF s
  <2> QED
    BY <1>3, <2>1, <2>3, <2>4 DEF WholeTold
<1>12. \A x \in 1 .. n : WholeTold(trace', x, done[x])
  <2>1. 5 * n <= Len(trace) /\ Len(trace) \in Nat /\ \A j \in 1 .. Len(trace) : trace'[j] = trace[j]
    BY <1>3, <1>8, <1>9
  <2> QED
    BY <1>4, <2>1, WholeStays
<1>13. \A x \in 1 .. Len(done') : WholeTold(trace', x, done'[x])
  <2>1. \A x \in 1 .. k : x \in 1 .. n \/ x = k
    BY <1>3
  <2> QED
    BY <1>7, <1>11, <1>12, <2>1
<1>14. AtWork(trace, 5 * Len(done), Len(done) + 1)'
  <2>1. Len(trace') = 5 * Len(done')
    BY <1>3, <1>7, <1>8, <1>9
  <2> QED
    BY <1>1, <2>1 DEF AtWork
<1> QED
  BY <1>13, <1>14 DEF ToldInv

\* A run that ends: what is told of its statements stays, and its end is told.
LEMMA ToldEnd ==
  ASSUME SInv, ToldInv, traced, pc # "exit", pc' = "exit", done' = done,
         \A j \in 1 .. Len(trace) : trace'[j] = trace[j],
         EndOfRun(trace, 5 * Len(done), Len(done) + 1)'
  PROVE  ToldInv'
<1>1. AtWork(trace, 5 * Len(done), Len(done) + 1)'
  BY DEF AtWork
<1> QED
  BY <1>1, ToldMore

\* Where the trace is when a run is about to end.
LEMMA Place ==
  ASSUME SInv, ToldInv, traced
  PROVE  /\ IsSequence(trace) /\ Len(trace) \in Nat
         /\ \E b \in Nat, k \in Nat : b = 5 * Len(done) /\ k = Len(done) + 1 /\ AtWork(trace, b, k)
<1>1. IsSequence(trace) /\ done \in Seq(Seq(TokenKinds))
  BY DEF SInv, TraceInv, ScriptTypes
<1>2. Len(trace) \in Nat
  BY <1>1 DEF IsSequence
<1>3. 5 * Len(done) \in Nat /\ Len(done) + 1 \in Nat
  BY <1>1
<1> QED
  BY <1>1, <1>2, <1>3 DEF ToldInv

LEMMA ToldOneMore ==
  ASSUME SInv, ToldInv, traced, pc \in {"open", "scan", "statement"}, pc' = "exit", done' = done,
         stmt_no' = stmt_no, NEW e, trace' = trace \o <<e>>,
         \/ rc' = 3 /\ e = BrokenLine
         \/ (rc' = 0 \/ (rc' = 3 /\ stmt_no = 0)) /\ e = ProcessEnd(rc')
  PROVE  ToldInv'
<1>1. IsSequence(trace) /\ Len(trace) \in Nat
  BY Place
<1>2. PICK b \in Nat, k \in Nat : b = 5 * Len(done) /\ k = Len(done) + 1 /\ AtWork(trace, b, k)
  BY Place
<1>3. Len(trace) = b
  BY <1>2 DEF AtWork
<1>4. /\ Len(trace') = b + 1 /\ trace'[b + 1] = e
      /\ \A j \in 1 .. Len(trace) : trace'[j] = trace[j]
  BY <1>1, <1>3, Written
<1>5. BrokenLine' = BrokenLine /\ \A c : ProcessEnd(c)' = ProcessEnd(c)
  BY DEF BrokenLine, ProcessEnd
<1>6. EndOfRun(trace, b, k)'
  BY <1>4, <1>5 DEF EndOfRun
<1> QED
  BY <1>2, <1>4, <1>6, ToldEnd

LEMMA ToldNothing ==
  ASSUME SInv, ToldInv, NoTraceFile
  PROVE  ToldInv'
<1>1. /\ pc = "open" /\ traced /\ pc' = "exit" /\ rc' = 3 /\ trace' = trace /\ done' = done
      /\ stmt_no' = stmt_no
  BY DEF NoTraceFile, cut
<1>2. stmt_no = 0
  BY <1>1 DEF SInv, NumberInv
<1>3. PICK b \in Nat, k \in Nat : b = 5 * Len(done) /\ k = Len(done) + 1 /\ AtWork(trace, b, k)
  BY <1>1, Place
<1>4. Len(trace) = b
  BY <1>1, <1>3 DEF AtWork
<1>5. EndOfRun(trace, b, k)'
  BY <1>1, <1>2, <1>4 DEF EndOfRun
<1> QED
  BY <1>1, <1>3, <1>5, ToldEnd

LEMMA ToldError ==
  ASSUME SInv, ToldInv, ParseError, traced
  PROVE  ToldInv'
<1> DEFINE p == ParserResult(<<"none">>)
<1>1. /\ pc = "lex" /\ pc' = "exit" /\ rc' = 2 /\ done' = done /\ stmt_no' = stmt_no
  BY DEF ParseError, Lexed, Exit, cut
<1>2. PICK told : trace' = trace \o (<<LexerTokensAre(told), p, End(2)>> \o <<ProcessEnd(2)>>)
  BY DEF ParseError, Exit, Write
<1>3. IsSequence(trace) /\ Len(trace) \in Nat
  BY Place
<1>4. PICK b \in Nat, k \in Nat : b = 5 * Len(done) /\ k = Len(done) + 1 /\ AtWork(trace, b, k)
  BY Place
<1>5. Len(trace) = b + 1 /\ StartTold(trace, b, k) /\ stmt_no = k
  BY <1>1, <1>4 DEF AtWork, SInv, NumberInv
<1> DEFINE e2 == LexerTokensAre(told)
<1>6. /\ IsEvent(e2, "lexer_tokens", k) /\ IsEvent(p, "parser_result", k)
  BY <1>5, Events
<1>7. PICK e4, e5 : e4 = End(2) /\ e5 = ProcessEnd(2)
  OBVIOUS
<1>8. trace' = trace \o <<e2, p, e4, e5>>
  BY <1>2, <1>7, WithEnd
<1> HIDE DEF e2, p
<1>9. PICK n \in Nat : /\ n = Len(trace) /\ n = b + 1 /\ n + 1 = b + 2 /\ n + 2 = b + 3
                       /\ n + 3 = b + 4 /\ n + 4 = b + 5 /\ b + 1 \in 1 .. n
  <2>1. PICK n \in Nat : n = b + 1
    OBVIOUS
  <2>2. n + 1 = b + 2 /\ n + 2 = b + 3 /\ n + 3 = b + 4 /\ n + 4 = b + 5 /\ b + 1 \in 1 .. n
    BY <2>1
  <2> QED
    BY <1>5, <2>1, <2>2
<1>10. /\ Len(trace \o <<e2, p, e4, e5>>) = n + 4
       /\ (trace \o <<e2, p, e4, e5>>)[n + 1] = e2 /\ (trace \o <<e2, p, e4, e5>>)[n + 2] = p
       /\ (trace \o <<e2, p, e4, e5>>)[n + 3] = e4 /\ (trace \o <<e2, p, e4, e5>>)[n + 4] = e5
       /\ \A j \in 1 .. n : (trace \o <<e2, p, e4, e5>>)[j] = trace[j]
  <2>1. IsSequence(trace) /\ n = Len(trace)
    BY <1>3, <1>9
  <2> QED
    BY <2>1, Written
<1>11. /\ Len(trace') = b + 5 /\ trace'[b + 1] = trace[b + 1] /\ trace'[b + 2] = e2
       /\ trace'[b + 3] = p /\ trace'[b + 4] = e4 /\ trace'[b + 5] = e5
       /\ \A j \in 1 .. Len(trace) : trace'[j] = trace[j]
  BY <1>8, <1>9, <1>10
<1>12. End(2)' = End(2) /\ ProcessEnd(2)' = ProcessEnd(2)
  BY <1>1 DEF End, Event, ProcessEnd
<1>13. ErrorTold(trace, b, k)'
  BY <1>5, <1>6, <1>7, <1>11, <1>12 DEF ErrorTold, StartTold
<1>14. EndOfRun(trace, b, k)'
  BY <1>1, <1>5, <1>13 DEF EndOfRun
<1> QED
  BY <1>1, <1>4, <1>11, <1>14, ToldEnd

LEMMA ToldFailure ==
  ASSUME SInv, ToldInv, ExecFails, traced
  PROVE  ToldInv'
<1>1. /\ pc = "execute" /\ pc' = "exit" /\ rc' = 3 /\ done' = done /\ stmt_no' = stmt_no
      /\ trace' = trace \o (<<End(3)>> \o <<ProcessEnd(3)>>)
  BY DEF ExecFails, Exit, Write, cut
<1>2. IsSequence(trace) /\ Len(trace) \in Nat
  BY Place
<1>3. PICK b \in Nat, k \in Nat : b = 5 * Len(done) /\ k = Len(done) + 1 /\ AtWork(trace, b, k)
  BY Place
<1>4. /\ Len(trace) = b + 4 /\ StartTold(trace, b, k) /\ stmt_no = k
      /\ IsEvent(trace[b + 2], "lexer_tokens", k) /\ IsEvent(trace[b + 3], "parser_result", k)
      /\ IsEvent(trace[b + 4], "executor_call", k)
  BY <1>1, <1>3 DEF AtWork, SInv, NumberInv, TokensTold, TreeTold
<1>5. PICK e5, e6 : e5 = End(3) /\ e6 = ProcessEnd(3)
  OBVIOUS
<1>6. trace' = trace \o <<e5, e6>>
  BY <1>1, <1>5, WithEnd
<1>7. PICK n \in Nat : /\ n = Len(trace) /\ n = b + 4 /\ n + 1 = b + 5 /\ n + 2 = b + 6
                       /\ b + 1 \in 1 .. n /\ b + 2 \in 1 .. n /\ b + 3 \in 1 .. n /\ b + 4 \in 1 .. n
  <2>1. PICK n \in Nat : n = b + 4
    OBVIOUS
  <2>2. /\ n + 1 = b + 5 /\ n + 2 = b + 6
        /\ b + 1 \in 1 .. n /\ b + 2 \in 1 .. n /\ b + 3 \in 1 .. n /\ b + 4 \in 1 .. n
    BY <2>1
  <2> QED
    BY <1>4, <2>1, <2>2
<1>8. /\ Len(trace \o <<e5, e6>>) = n + 2
      /\ (trace \o <<e5, e6>>)[n + 1] = e5 /\ (trace \o <<e5, e6>>)[n + 2] = e6
      /\ \A j \in 1 .. n : (trace \o <<e5, e6>>)[j] = trace[j]
  <2>1. IsSequence(trace) /\ n = Len(trace)
    BY <1>2, <1>7
  <2> QED
    BY <2>1, Written
<1>9. /\ Len(trace') = b + 6 /\ trace'[b + 1] = trace[b + 1] /\ trace'[b + 2] = trace[b + 2]
      /\ trace'[b + 3] = trace[b + 3] /\ trace'[b + 4] = trace[b + 4]
      /\ trace'[b + 5] = e5 /\ trace'[b + 6] = e6
      /\ \A j \in 1 .. Len(trace) : trace'[j] = trace[j]
  BY <1>6, <1>7, <1>8
<1>10. End(3)' = End(3) /\ ProcessEnd(3)' = ProcessEnd(3)
  BY <1>1 DEF End, Event, ProcessEnd
<1>11. FailureTold(trace, b, k)'
  BY <1>4, <1>5, <1>9, <1>10 DEF FailureTold, StartTold
<1>12. EndOfRun(trace, b, k)'
  BY <1>1, <1>4, <1>11 DEF EndOfRun
<1> QED
  BY <1>1, <1>3, <1>9, <1>12, ToldEnd

LEMMA ToldStep == SInv /\ ToldInv /\ [Next]_vars => ToldInv'
<1> SUFFICES ASSUME SInv, ToldInv, [Next]_vars
             PROVE  ToldInv'
  OBVIOUS
<1>0. CASE ~traced
  <2>1. traced' = traced
    <3>1. CASE Open \/ OpenFails \/ NoTraceFile \/ Finish
      BY <3>1 DEF Open, OpenFails, NoTraceFile, Finish
    <3>2. CASE EscapedQuote \/ CloseString \/ OpenString \/ OtherChar
      BY <3>2 DEF EscapedQuote, CloseString, OpenString, OtherChar, Step
    <3>3. CASE Semicolon \/ LastPiece
      BY <3>3 DEF Semicolon, LastPiece, Cut
    <3>4. CASE Blank \/ NoMemoryForTrace \/ BeginStatement \/ Lexing
      BY <3>4 DEF Blank, NoMemoryForTrace, BeginStatement, Lexing
    <3>5. CASE Parse \/ ParseError \/ Execute \/ ExecFails
      BY <3>5 DEF Parse, ParseError, Execute, ExecFails
    <3>6. CASE UNCHANGED vars
      BY <3>6 DEF vars
    <3> QED
      BY <3>1, <3>2, <3>3, <3>4, <3>5, <3>6 DEF Next
  <2> QED
    BY <1>0, <2>1 DEF ToldInv
<1> SUFFICES ASSUME traced
             PROVE  ToldInv'
  BY <1>0
<1>1. CASE UNCHANGED vars
  BY <1>1 DEF vars, cut, lexer_vars, ToldInv, AtWork, EndOfRun, StartTold, TokensTold, TreeTold, PieceTokens,
              ErrorTold, FailureTold, End, Event, ProcessEnd, BrokenLine, IsEvent
<1>2. CASE Open
  BY <1>2, ToldSame DEF Open
<1>3. CASE EscapedQuote \/ CloseString \/ OpenString \/ OtherChar
  BY <1>3, ToldSame DEF EscapedQuote, CloseString, OpenString, OtherChar, Scanning, Step
<1>4. CASE Semicolon \/ LastPiece
  BY <1>4, ToldSame DEF Semicolon, LastPiece, Scanning, AtEnd, Cut
<1>5. CASE Blank
  BY <1>5, ToldSame DEF Blank
<1>6. CASE Lexing
  BY <1>6, ToldSame DEF Lexing
<1>7. CASE OpenFails
  <2>1. /\ pc = "open" /\ pc' = "exit" /\ rc' = 3 /\ done' = done /\ stmt_no' = stmt_no
        /\ trace' = trace \o (<<>> \o <<ProcessEnd(3)>>)
    BY <1>7 DEF OpenFails, Exit, Write, cut
  <2>2. trace' = trace \o <<ProcessEnd(3)>>
    BY <2>1, WithEnd
  <2>3. stmt_no = 0
    BY <2>1 DEF SInv, NumberInv
  <2> QED
    BY <2>1, <2>2, <2>3, ToldOneMore
<1>8. CASE Finish
  <2>1. /\ pc = "scan" /\ pc' = "exit" /\ rc' = 0 /\ done' = done /\ stmt_no' = stmt_no
        /\ trace' = trace \o (<<>> \o <<ProcessEnd(0)>>)
    BY <1>8 DEF Finish, AtEnd, Exit, Write, cut
  <2>2. trace' = trace \o <<ProcessEnd(0)>>
    BY <2>1, WithEnd
  <2> QED
    BY <2>1, <2>2, ToldOneMore
<1>9. CASE NoMemoryForTrace
  <2>1. /\ pc = "statement" /\ pc' = "exit" /\ rc' = 3 /\ done' = done /\ stmt_no' = stmt_no
        /\ trace' = trace \o <<BrokenLine>>
    BY <1>9 DEF NoMemoryForTrace, Write, cut
  <2> QED
    BY <2>1, ToldOneMore
<1>10. CASE NoTraceFile
  BY <1>10, ToldNothing
<1> QED
  BY <1>1, <1>2, <1>3, <1>4, <1>5, <1>6, <1>7, <1>8, <1>9, <1>10,
     ToldBegin, ToldParse, ToldExecute, ToldError, ToldFailure DEF Next

-----------------------------------------------------------------------------
(* The events of a run, read back.                                         *)

LEMMA StepsAre ==
  ASSUME NEW e, IsSequence(e)
  PROVE  /\ IsSequence(Steps(e)) /\ Len(Steps(e)) = Len(e)
         /\ \A j \in 1 .. Len(e) : Steps(e)[j] = e[j].step
<1>1. Len(e) \in Nat /\ DOMAIN e = 1 .. Len(e)
  BY DEF IsSequence
<1>2. Steps(e) = [j \in 1 .. Len(e) |-> e[j].step]
  BY <1>1 DEF Steps
<1> DEFINE S == {e[j].step : j \in 1 .. Len(e)}
<1>3. Steps(e) \in Seq(S) /\ Len(Steps(e)) = Len(e)
  <2> DEFINE f(j) == e[j].step
  <2>1. \A j \in 1 .. Len(e) : f(j) \in S
    OBVIOUS
  <2>2. Steps(e) = [j \in 1 .. Len(e) |-> f(j)]
    BY <1>2
  <2>3. PICK n \in Nat : n = Len(e)
    BY <1>1
  <2> HIDE DEF f, S
  <2>4. \A g : g = [j \in 1 .. n |-> f(j)] => g \in Seq(S) /\ Len(g) = n
    BY <2>1, <2>3
  <2> QED
    BY <2>2, <2>3, <2>4
<1> HIDE DEF S
<1>4. IsSequence(Steps(e))
  BY <1>3, SequenceOf
<1>5. \A j \in 1 .. Len(e) : Steps(e)[j] = e[j].step
  BY <1>2
<1> QED
  BY <1>3, <1>4, <1>5

LEMMA ToldSteps ==
  /\ \A e : /\ IsSequence(e) /\ Len(e) = 5
            /\ e[1].step = "statement_start" /\ e[2].step = "lexer_tokens"
            /\ e[3].step = "parser_result" /\ e[4].step = "executor_call" /\ e[5].step = "statement_end"
            => Steps(e) = Told
  /\ \A e : /\ IsSequence(e) /\ Len(e) = 4
            /\ e[1].step = "statement_start" /\ e[2].step = "lexer_tokens"
            /\ e[3].step = "parser_result" /\ e[4].step = "statement_end"
            => Steps(e) = NotTaken
  /\ \A e : IsSequence(e) /\ Len(e) = 0 => Steps(e) = <<>>
<1>1. /\ IsSequence(Told) /\ Len(Told) = 5
      /\ Told[1] = "statement_start" /\ Told[2] = "lexer_tokens" /\ Told[3] = "parser_result"
      /\ Told[4] = "executor_call" /\ Told[5] = "statement_end"
  <2>1. Told \in Seq({"statement_start", "lexer_tokens", "parser_result", "executor_call", "statement_end"})
    BY DEF Told
  <2>2. IsSequence(Told)
    BY <2>1, SequenceOf
  <2> QED
    BY <2>2 DEF Told
<1>2. /\ IsSequence(NotTaken) /\ Len(NotTaken) = 4
      /\ NotTaken[1] = "statement_start" /\ NotTaken[2] = "lexer_tokens"
      /\ NotTaken[3] = "parser_result" /\ NotTaken[4] = "statement_end"
  <2>1. NotTaken \in Seq({"statement_start", "lexer_tokens", "parser_result", "statement_end"})
    BY DEF NotTaken
  <2>2. IsSequence(NotTaken)
    BY <2>1, SequenceOf
  <2> QED
    BY <2>2 DEF NotTaken
<1>3. ASSUME NEW e, IsSequence(e), Len(e) = 5,
             e[1].step = "statement_start", e[2].step = "lexer_tokens",
             e[3].step = "parser_result", e[4].step = "executor_call", e[5].step = "statement_end"
      PROVE  Steps(e) = Told
  <2>1. /\ IsSequence(Steps(e)) /\ Len(Steps(e)) = 5
        /\ \A j \in 1 .. 5 : Steps(e)[j] = e[j].step
    BY <1>3, StepsAre
  <2>2. \A j \in 1 .. 5 : Steps(e)[j] = Told[j]
    <3>1. \A j \in 1 .. 5 : j = 1 \/ j = 2 \/ j = 3 \/ j = 4 \/ j = 5
      OBVIOUS
    <3> QED
      BY <1>1, <1>3, <2>1, <3>1
  <2> QED
    BY <1>1, <2>1, <2>2, EqualSeqs
<1>4. ASSUME NEW e, IsSequence(e), Len(e) = 4,
             e[1].step = "statement_start", e[2].step = "lexer_tokens",
             e[3].step = "parser_result", e[4].step = "statement_end"
      PROVE  Steps(e) = NotTaken
  <2>1. /\ IsSequence(Steps(e)) /\ Len(Steps(e)) = 4
        /\ \A j \in 1 .. 4 : Steps(e)[j] = e[j].step
    BY <1>4, StepsAre
  <2>2. \A j \in 1 .. 4 : Steps(e)[j] = NotTaken[j]
    <3>1. \A j \in 1 .. 4 : j = 1 \/ j = 2 \/ j = 3 \/ j = 4
      OBVIOUS
    <3> QED
      BY <1>2, <1>4, <2>1, <3>1
  <2> QED
    BY <1>2, <2>1, <2>2, EqualSeqs
<1>5. ASSUME NEW e, IsSequence(e), Len(e) = 0
      PROVE  Steps(e) = <<>>
  <2>1. IsSequence(Steps(e)) /\ Len(Steps(e)) = 0
    BY <1>5, StepsAre
  <2>2. Steps(e) \in Seq({Steps(e)[j] : j \in 1 .. Len(Steps(e))})
    BY <2>1 DEF IsSequence
  <2> QED
    BY <2>1, <2>2
<1> QED
  BY <1>3, <1>4, <1>5

\* The tokens that are listed begin like those of the statement, or the other
\* way round.
LEMMA ListedIs ==
  ASSUME NEW t \in Seq(TokenKinds), Parses(t), NEW kinds \in ListedTokens(t)
  PROVE  IsPrefix(Statement(t), kinds) \/ IsPrefix(kinds, Statement(t))
<1>1. SentenceEnds(t) \in SUBSET (1 .. Len(t)) /\ SentenceEnds(t) # {} /\ Len(t) \in Nat
  BY DEF SentenceEnds, Parses
<1>2. PICK m : m = Min(SentenceEnds(t))
  OBVIOUS
<1>3. m \in 1 .. Len(t)
  <2>1. SentenceEnds(t) \in SUBSET Nat
    BY <1>1
  <2>2. Min(SentenceEnds(t)) \in SentenceEnds(t)
    BY <1>1, <2>1, MinIsLeast
  <2> QED
    BY <1>1, <1>2, <2>2
<1>4. /\ Statement(t) \in Seq(TokenKinds) /\ Len(Statement(t)) = m
      /\ \A j \in 1 .. m : Statement(t)[j] = t[j]
  <2>1. m \in Nat /\ m <= Len(t) /\ 1 \in Nat \ {0} /\ 1 <= m
    BY <1>1, <1>3
  <2>2. /\ SubSeq(t, 1, m) \in Seq(TokenKinds)
        /\ Len(SubSeq(t, 1, m)) = IF 1 <= m THEN (m - 1) + 1 ELSE 0
        /\ \A j \in 1 .. (m - 1) + 1 : SubSeq(t, 1, m)[j] = t[(1 + j) - 1]
    BY <2>1, CutOf
  <2>3. (m - 1) + 1 = m /\ \A j \in 1 .. m : (1 + j) - 1 = j
    BY <2>1
  <2> QED
    BY <1>2, <2>1, <2>2, <2>3 DEF Statement
<1> DEFINE u == IF Last(t) = "error" THEN Front(t) ELSE t
<1>5. /\ u \in Seq(TokenKinds) /\ Len(u) \in Nat /\ Len(u) <= Len(t)
      /\ \A j \in 1 .. Len(u) : u[j] = t[j]
  <2>1. PICK l \in Nat : l + 1 = Len(t) /\ l = Len(t) - 1 /\ l <= Len(t)
    <3>1. Len(t) - 1 \in Nat /\ (Len(t) - 1) + 1 = Len(t) /\ Len(t) - 1 <= Len(t)
      BY <1>1, <1>3
    <3> QED
      BY <3>1
  <2>2. /\ SubSeq(t, 1, l) \in Seq(TokenKinds)
        /\ Len(SubSeq(t, 1, l)) = IF 1 <= l THEN (l - 1) + 1 ELSE 0
        /\ \A j \in 1 .. (l - 1) + 1 : SubSeq(t, 1, l)[j] = t[(1 + j) - 1]
    <3>1. 1 \in Nat \ {0}
      OBVIOUS
    <3> QED
      BY <2>1, <3>1, CutOf
  <2>3. (l - 1) + 1 = l /\ (\A j \in 1 .. l : (1 + j) - 1 = j) /\ (~(1 <= l) => l = 0)
    BY <2>1
  <2>4. Front(t) = SubSeq(t, 1, l)
    BY <2>1 DEF Front
  <2>5. Len(SubSeq(t, 1, l)) = l /\ \A j \in 1 .. l : SubSeq(t, 1, l)[j] = t[j]
    BY <2>2, <2>3
  <2>6. CASE u = Front(t)
    BY <2>1, <2>2, <2>4, <2>5, <2>6
  <2>7. CASE u = t
    BY <1>1, <2>7
  <2> QED
    BY <2>6, <2>7
<1>6. PICK l \in 0 .. Len(u) : kinds = SubSeq(u, 1, l)
  BY DEF ListedTokens, Prefixes
<1> HIDE DEF u
<1>7. /\ kinds \in Seq(TokenKinds) /\ Len(kinds) = l
      /\ \A j \in 1 .. l : kinds[j] = t[j]
  <2>1. l \in Nat /\ l <= Len(u) /\ 1 \in Nat \ {0}
    BY <1>5
  <2>2. /\ SubSeq(u, 1, l) \in Seq(TokenKinds)
        /\ Len(SubSeq(u, 1, l)) = IF 1 <= l THEN (l - 1) + 1 ELSE 0
        /\ \A j \in 1 .. (l - 1) + 1 : SubSeq(u, 1, l)[j] = u[(1 + j) - 1]
    BY <1>5, <2>1, CutOf
  <2>3. (l - 1) + 1 = l /\ (\A j \in 1 .. l : (1 + j) - 1 = j) /\ (~(1 <= l) => l = 0)
    BY <2>1
  <2>4. \A j \in 1 .. l : j \in 1 .. Len(u)
    BY <1>5, <2>1
  <2> QED
    BY <1>5, <1>6, <2>2, <2>3, <2>4
<1>8. IsSequence(Statement(t)) /\ IsSequence(kinds)
  BY <1>4, <1>7, SequenceOf
<1>9. CASE m <= l
  <2>1. \A j \in 1 .. m : Statement(t)[j] = kinds[j]
    <3>1. \A j \in 1 .. m : j \in 1 .. l
      BY <1>1, <1>3, <1>5, <1>9
    <3> QED
      BY <1>4, <1>7, <3>1
  <2> QED
    BY <1>4, <1>7, <1>8, <1>9, <2>1, PrefixOf
<1>10. CASE l <= m
  <2>1. \A j \in 1 .. l : kinds[j] = Statement(t)[j]
    <3>1. \A j \in 1 .. l : j \in 1 .. m
      BY <1>1, <1>3, <1>5, <1>10
    <3> QED
      BY <1>4, <1>7, <3>1
  <2> QED
    BY <1>4, <1>7, <1>8, <1>10, <2>1, PrefixOf
<1> QED
  BY <1>1, <1>3, <1>5, <1>9, <1>10

\* What the parsers take is one of the two statements.
LEMMA StatementIs ==
  ASSUME NEW t \in Seq(TokenKinds), Parses(t)
  PROVE  /\ Statement(t) \in Seq(TokenKinds)
         /\ IsInsert(Statement(t)) \/ IsSelect(Statement(t))
<1>1. SentenceEnds(t) \in SUBSET (1 .. Len(t)) /\ SentenceEnds(t) # {} /\ Len(t) \in Nat
  BY DEF SentenceEnds, Parses
<1>2. SentenceEnds(t) \in SUBSET Nat
  BY <1>1
<1>3. Min(SentenceEnds(t)) \in SentenceEnds(t)
  BY <1>1, <1>2, MinIsLeast
<1>4. IsInsert(Statement(t)) \/ IsSelect(Statement(t))
  BY <1>3 DEF SentenceEnds, Statement
<1> QED
  BY <1>4, StatementOf

\* The five events of a statement, wherever they are in the trace.
LEMMA TellsIs ==
  ASSUME NEW e, NEW k, IsSequence(e), Len(e) = 5,
         IsEvent(e[1], "statement_start", k), IsEvent(e[2], "lexer_tokens", k),
         IsEvent(e[3], "parser_result", k), IsEvent(e[4], "executor_call", k),
         IsEvent(e[5], "statement_end", k),
         NEW t \in Seq(TokenKinds), Parses(t), e[2].data \in ListedTokens(t),
         done[k] = Statement(t), e[3].data = Ast(done[k]),
         e[4].data = <<Ast(done[k])[1]>>, e[5].data = << 0 >>
  PROVE  TellsStatement(e, k)
<1>1. Steps(e) = Told
  BY ToldSteps DEF IsEvent
<1>2. \A j \in DOMAIN e : e[j].no = k
  <2>1. DOMAIN e = 1 .. 5
    BY DEF IsSequence
  <2>2. \A j \in 1 .. 5 : j = 1 \/ j = 2 \/ j = 3 \/ j = 4 \/ j = 5
    OBVIOUS
  <2> QED
    BY <2>1, <2>2 DEF IsEvent
<1>3. PICK s : s = done[k]
  OBVIOUS
<1>4. IsPrefix(s, e[2].data) \/ IsPrefix(e[2].data, s)
  BY <1>3, ListedIs
<1>5. s \in Seq(TokenKinds) /\ (IsInsert(s) \/ IsSelect(s))
  BY <1>3, StatementIs
<1>6. CASE IsInsert(s)
  <2>1. /\ Ast(s)[1] = "insert" /\ Lists(Ast(s)[2], s, Literals)
        /\ Len(Ast(s)[2]) = Count(s, Literals, Len(s))
    BY <1>5, <1>6, InsertTold
  <2>2. Ast(s)[1] # "select"
    BY <2>1
  <2> QED
    BY <1>1, <1>2, <1>3, <1>4, <2>1, <2>2 DEF TellsStatement
<1>7. CASE IsSelect(s)
  <2>1. /\ Ast(s)[1] = "select" /\ Lists(Ast(s)[2], s, Identifiers)
        /\ Len(Ast(s)[2]) + Count(s, {"FROM", "WHERE"}, Len(s)) = Count(s, Identifiers, Len(s))
    BY <1>5, <1>7, SelectTold DEF Clauses
  <2>2. Ast(s)[1] # "insert"
    BY <2>1
  <2> QED
    BY <1>1, <1>2, <1>3, <1>4, <2>1, <2>2 DEF TellsStatement
<1> QED
  BY <1>5, <1>6, <1>7

LEMMA StatementTold ==
  ASSUME IsSequence(trace), NEW n \in Nat, n = Len(done), 5 * n <= Len(trace),
         NEW k \in 1 .. n, WholeTold(trace, k, done[k])
  PROVE  TellsStatement(SubSeq(trace, 5 * k - 4, 5 * k), k)
<1>1. PICK b \in Nat : b = 5 * (k - 1) /\ b + 1 = 5 * k - 4 /\ b + 5 = 5 * k /\ b + 5 <= Len(trace)
  <2>1. 5 * (k - 1) \in Nat /\ 5 * (k - 1) + 1 = 5 * k - 4 /\ 5 * (k - 1) + 5 = 5 * k
    OBVIOUS
  <2>2. 5 * k <= 5 * n /\ Len(trace) \in Nat
    BY DEF IsSequence
  <2> QED
    BY <2>1, <2>2
<1>2. PICK e : e = SubSeq(trace, b + 1, b + 5)
  OBVIOUS
<1>3. /\ e \in Seq({trace[j] : j \in 1 .. Len(trace)}) /\ Len(e) = 5
      /\ \A m \in 1 .. 5 : e[m] = trace[b + m]
  <2> DEFINE S == {trace[j] : j \in 1 .. Len(trace)}
  <2>1. trace \in Seq(S)
    BY DEF IsSequence
  <2>2. PICK c \in Nat : c = 5
    OBVIOUS
  <2> HIDE DEF S
  <2>3. b + c <= Len(trace) /\ e = SubSeq(trace, b + 1, b + c)
    BY <1>1, <1>2, <2>2
  <2>4. e \in Seq(S) /\ Len(e) = c /\ \A m \in 1 .. c : e[m] = trace[b + m]
    BY <2>1, <2>3, StretchOf
  <2> QED
    BY <2>2, <2>4 DEF S
<1>4. IsSequence(e)
  BY <1>3, SequenceOf
<1>5. /\ e[1] = trace[b + 1] /\ e[2] = trace[b + 2] /\ e[3] = trace[b + 3]
      /\ e[4] = trace[b + 4] /\ e[5] = trace[b + 5]
  BY <1>3
<1>6. /\ StartTold(trace, b, k) /\ EndTold(trace, b, k, 0) /\ TreeTold(trace, b, k, done[k])
      /\ \E t \in Seq(TokenKinds) : Parses(t) /\ done[k] = Statement(t) /\ TokensTold(trace, b, k, t)
  BY <1>1 DEF WholeTold
<1>7. PICK t \in Seq(TokenKinds) : Parses(t) /\ done[k] = Statement(t) /\ TokensTold(trace, b, k, t)
  BY <1>6
<1>8. /\ IsEvent(e[1], "statement_start", k) /\ IsEvent(e[2], "lexer_tokens", k)
      /\ IsEvent(e[3], "parser_result", k) /\ IsEvent(e[4], "executor_call", k)
      /\ IsEvent(e[5], "statement_end", k)
      /\ e[2].data \in ListedTokens(t) /\ e[3].data = Ast(done[k])
      /\ e[4].data = <<Ast(done[k])[1]>> /\ e[5].data = <<0>>
  BY <1>5, <1>6, <1>7 DEF StartTold, EndTold, TreeTold, TokensTold
<1>9. TellsStatement(e, k)
  BY <1>3, <1>4, <1>7, <1>8, TellsIs
<1> QED
  BY <1>1, <1>2, <1>9

\* Before a run nothing is told.
LEMMA ToldInit == Init => ToldInv
<1> SUFFICES ASSUME Init
             PROVE  ToldInv
  OBVIOUS
<1>1. pc = "open" /\ trace = <<>> /\ done = <<>> /\ stmt_no = 0
  BY DEF Init
<1>2. Len(trace) = 0 /\ Len(done) = 0 /\ 5 * 0 = 0
  BY <1>1
<1>3. \A k \in 1 .. Len(done) : WholeTold(trace, k, done[k])
  BY <1>2
<1>4. AtWork(trace, 5 * Len(done), Len(done) + 1)
  <2>1. 5 * Len(done) = Len(trace)
    BY <1>2
  <2> QED
    BY <1>1, <2>1 DEF AtWork
<1> QED
  BY <1>3, <1>4 DEF ToldInv

-----------------------------------------------------------------------------
(* What the trace says of the end of a run.                                *)

\* The events from number b + 1 on are h.
IsRest(rest, b, h) == Len(trace) = b + h /\ rest = SubSeq(trace, b + 1, Len(trace))

LEMMA RestOf ==
  ASSUME IsSequence(trace), NEW b \in Nat, NEW h \in Nat, NEW rest, IsRest(rest, b, h)
  PROVE  /\ IsSequence(rest) /\ Len(rest) = h /\ \A m \in 1 .. h : rest[m] = trace[b + m]
         /\ h > 0 => /\ IsSequence(Front(rest)) /\ Len(Front(rest)) = h - 1
                     /\ \A m \in 1 .. h - 1 : Front(rest)[m] = trace[b + m]
<1> DEFINE S == {trace[j] : j \in 1 .. Len(trace)}
<1>1. trace \in Seq(S)
  BY DEF IsSequence
<1> HIDE DEF S
<1>2. b + h <= Len(trace) /\ rest = SubSeq(trace, b + 1, b + h)
  <2>1. Len(trace) = b + h /\ rest = SubSeq(trace, b + 1, Len(trace))
    BY DEF IsRest
  <2> QED
    BY <2>1
<1>3. rest \in Seq(S) /\ Len(rest) = h /\ \A m \in 1 .. h : rest[m] = trace[b + m]
  BY <1>1, <1>2, StretchOf
<1>4. IsSequence(rest)
  BY <1>3, SequenceOf
<1>5. ASSUME h > 0
      PROVE  /\ IsSequence(Front(rest)) /\ Len(Front(rest)) = h - 1
             /\ \A m \in 1 .. h - 1 : Front(rest)[m] = trace[b + m]
  <2>1. PICK l \in Nat : l = h - 1 /\ 0 + l = l /\ 0 + 1 = 1 /\ 0 + l <= h
    <3>1. h - 1 \in Nat /\ 0 + (h - 1) = h - 1 /\ 0 + (h - 1) <= h
      BY <1>5
    <3> QED
      BY <3>1
  <2>2. PICK a \in Nat : a = 0
    OBVIOUS
  <2>3. PICK f : f = SubSeq(rest, a + 1, a + l)
    OBVIOUS
  <2>4. f = Front(rest) /\ a + l <= Len(rest)
    BY <1>3, <2>1, <2>2, <2>3 DEF Front
  <2>7. rest \in Seq(S)
    BY <1>3
  <2>6. f \in Seq(S) /\ Len(f) = l /\ \A m \in 1 .. l : f[m] = rest[a + m]
    <3>1. a + l <= Len(rest)
      BY <2>4
    <3> QED
      BY <2>3, <2>7, <3>1, StretchOf
  <2>5. \A m \in 1 .. l : m \in 1 .. h /\ a + m = m
    BY <2>1, <2>2
  <2> QED
    BY <1>3, <2>1, <2>4, <2>5, <2>6, SequenceOf
<1> QED
  BY <1>3, <1>4, <1>5

\* What follows the statements that were executed.
RestTold(rest, n) ==
  \/ rc = 3 /\ rest \in {<<BrokenLine>>, <<>>} /\ (rest = <<>> => stmt_no = 0)
  \/ /\ Last(rest) = ProcessEnd(rc)
     /\ Steps(Front(rest)) \in CASE rc = 0 \/ stmt_no = 0 -> {<<>>}
                                 [] rc = 2 -> {NotTaken}
                                 [] OTHER  -> {Told}
     /\ \A j \in 1 .. Len(rest) - 1 : rest[j].no = n + 1
     /\ rc # 0 /\ Len(rest) > 1 => rest[Len(rest) - 1] = End(rc)

\* A run that ends between two statements.
LEMMA ShortRest ==
  ASSUME NEW rest, IsSequence(rest), NEW n \in Nat,
         \/ rc = 3 /\ stmt_no = 0 /\ Len(rest) = 0
         \/ rc = 3 /\ Len(rest) = 1 /\ rest[1] = BrokenLine
         \/ /\ (rc = 0 \/ (rc = 3 /\ stmt_no = 0)) /\ Len(rest) = 1 /\ rest[1] = ProcessEnd(rc)
            /\ IsSequence(Front(rest)) /\ Len(Front(rest)) = 0
  PROVE  RestTold(rest, n)
<1>1. CASE rc = 3 /\ stmt_no = 0 /\ Len(rest) = 0
  <2>1. rest = <<>>
    <3>1. rest \in Seq({rest[j] : j \in 1 .. Len(rest)})
      BY DEF IsSequence
    <3> QED
      BY <1>1, <3>1
  <2> QED
    BY <1>1, <2>1 DEF RestTold
<1>2. CASE rc = 3 /\ Len(rest) = 1 /\ rest[1] = BrokenLine
  <2>1. PICK f : f = <<BrokenLine>>
    OBVIOUS
  <2>2. f \in Seq({BrokenLine}) /\ Len(f) = 1 /\ f[1] = BrokenLine
    BY <2>1
  <2>3. IsSequence(f)
    BY <2>2, SequenceOf
  <2>4. \A j \in 1 .. Len(rest) : rest[j] = f[j]
    <3>1. \A j \in 1 .. 1 : j = 1
      OBVIOUS
    <3> QED
      BY <1>2, <2>2, <3>1
  <2>5. rest = f
    BY <1>2, <2>2, <2>3, <2>4, EqualSeqs
  <2>6. rest # <<>>
    <3>1. Len(<<>>) = 0
      OBVIOUS
    <3> QED
      BY <1>2, <3>1
  <2> QED
    BY <1>2, <2>1, <2>5, <2>6 DEF RestTold
<1>3. CASE /\ (rc = 0 \/ (rc = 3 /\ stmt_no = 0)) /\ Len(rest) = 1 /\ rest[1] = ProcessEnd(rc)
           /\ IsSequence(Front(rest)) /\ Len(Front(rest)) = 0
  <2>1. Last(rest) = ProcessEnd(rc)
    BY <1>3 DEF Last
  <2>2. Steps(Front(rest)) = <<>>
    BY <1>3, ToldSteps
  <2>3. (CASE rc = 0 \/ stmt_no = 0 -> {<<>>} [] rc = 2 -> {NotTaken} [] OTHER  -> {Told}) = {<<>>}
    BY <1>3
  <2>4. \A j \in 1 .. Len(rest) - 1 : rest[j].no = n + 1
    BY <1>3
  <2>5. ~(Len(rest) > 1)
    BY <1>3
  <2> QED
    BY <2>1, <2>2, <2>3, <2>4, <2>5 DEF RestTold
<1> QED
  BY <1>1, <1>2, <1>3

\* The h events of a statement that fails and of the end of the run.
IsLongRest(rest, n, h) ==
  /\ IsSequence(rest) /\ Len(rest) = h /\ rest[h] = ProcessEnd(rc) /\ rest[h - 1] = End(rc)
  /\ stmt_no = n + 1 /\ rc = IF h = 5 THEN 2 ELSE 3
  /\ IsEvent(rest[1], "statement_start", n + 1) /\ IsEvent(rest[2], "lexer_tokens", n + 1)
  /\ IsEvent(rest[3], "parser_result", n + 1) /\ (h = 6 => IsEvent(rest[4], "executor_call", n + 1))
  /\ IsSequence(Front(rest)) /\ Len(Front(rest)) = h - 1
  /\ \A m \in 1 .. h - 1 : Front(rest)[m] = rest[m]

\* A run that ends because a statement fails.
LEMMA LongRest ==
  ASSUME NEW rest, NEW n \in Nat, NEW h \in {5, 6}, IsLongRest(rest, n, h)
  PROVE  RestTold(rest, n)
<1>0. /\ IsSequence(rest) /\ Len(rest) = h /\ rest[h] = ProcessEnd(rc) /\ rest[h - 1] = End(rc)
      /\ stmt_no = n + 1 /\ rc = IF h = 5 THEN 2 ELSE 3
      /\ IsEvent(rest[1], "statement_start", n + 1) /\ IsEvent(rest[2], "lexer_tokens", n + 1)
      /\ IsEvent(rest[3], "parser_result", n + 1) /\ (h = 6 => IsEvent(rest[4], "executor_call", n + 1))
      /\ IsSequence(Front(rest)) /\ Len(Front(rest)) = h - 1
      /\ \A m \in 1 .. h - 1 : Front(rest)[m] = rest[m]
  BY DEF IsLongRest
<1>1. Last(rest) = ProcessEnd(rc)
  BY <1>0 DEF Last
<1>2. IsEvent(rest[h - 1], "statement_end", n + 1)
  BY <1>0, Events
<1>3. PICK f : f = Front(rest)
  OBVIOUS
<1>4. stmt_no # 0 /\ rc # 0
  BY <1>0
<1>5. CASE h = 5
  <2>1. /\ IsSequence(f) /\ Len(f) = 4 /\ f[1] = rest[1] /\ f[2] = rest[2] /\ f[3] = rest[3]
        /\ f[4] = rest[4]
    BY <1>0, <1>3, <1>5
  <2>2. Steps(f) = NotTaken
    BY <1>0, <1>2, <1>5, <2>1, ToldSteps DEF IsEvent
  <2>3. \A j \in 1 .. Len(rest) - 1 : rest[j].no = n + 1
    <3>1. \A j \in 1 .. Len(rest) - 1 : j = 1 \/ j = 2 \/ j = 3 \/ j = 4
      BY <1>0, <1>5
    <3> QED
      BY <1>0, <1>2, <1>5, <3>1 DEF IsEvent
  <2>4. (CASE rc = 0 \/ stmt_no = 0 -> {<<>>} [] rc = 2 -> {NotTaken} [] OTHER  -> {Told}) = {NotTaken}
    BY <1>0, <1>4, <1>5
  <2> QED
    BY <1>0, <1>1, <1>3, <2>2, <2>3, <2>4 DEF RestTold
<1>6. CASE h = 6
  <2>1. /\ IsSequence(f) /\ Len(f) = 5 /\ f[1] = rest[1] /\ f[2] = rest[2] /\ f[3] = rest[3]
        /\ f[4] = rest[4] /\ f[5] = rest[5]
    BY <1>0, <1>3, <1>6
  <2>2. Steps(f) = Told
    BY <1>0, <1>2, <1>6, <2>1, ToldSteps DEF IsEvent
  <2>3. \A j \in 1 .. Len(rest) - 1 : rest[j].no = n + 1
    <3>1. \A j \in 1 .. Len(rest) - 1 : j = 1 \/ j = 2 \/ j = 3 \/ j = 4 \/ j = 5
      BY <1>0, <1>6
    <3> QED
      BY <1>0, <1>2, <1>6, <3>1 DEF IsEvent
  <2>4. (CASE rc = 0 \/ stmt_no = 0 -> {<<>>} [] rc = 2 -> {NotTaken} [] OTHER  -> {Told}) = {Told}
    BY <1>0, <1>4, <1>6
  <2> QED
    BY <1>0, <1>1, <1>3, <2>2, <2>3, <2>4 DEF RestTold
<1> QED
  BY <1>5, <1>6

LEMMA RestCorrect ==
  ASSUME IsSequence(trace), NEW n \in Nat, NEW b \in Nat, b = 5 * n, rc \in {0, 2, 3},
         EndOfRun(trace, b, n + 1)
  PROVE  RestTold(SubSeq(trace, b + 1, Len(trace)), n)
<1>1. PICK rest : rest = SubSeq(trace, b + 1, Len(trace))
  OBVIOUS
<1>2. \A h \in Nat : Len(trace) = b + h =>
        /\ IsSequence(rest) /\ Len(rest) = h /\ \A m \in 1 .. h : rest[m] = trace[b + m]
        /\ h > 0 => /\ IsSequence(Front(rest)) /\ Len(Front(rest)) = h - 1
                    /\ \A m \in 1 .. h - 1 : Front(rest)[m] = trace[b + m]
  <2> SUFFICES ASSUME NEW h \in Nat, Len(trace) = b + h
               PROVE  /\ IsSequence(rest) /\ Len(rest) = h /\ \A m \in 1 .. h : rest[m] = trace[b + m]
                      /\ h > 0 => /\ IsSequence(Front(rest)) /\ Len(Front(rest)) = h - 1
                                  /\ \A m \in 1 .. h - 1 : Front(rest)[m] = trace[b + m]
    OBVIOUS
  <2>1. IsRest(rest, b, h)
    BY <1>1 DEF IsRest
  <2> QED
    BY <2>1, RestOf
<1>3. CASE rc = 3 /\ Len(trace) = b /\ stmt_no = 0
  <2>1. 0 \in Nat /\ Len(trace) = b + 0
    BY <1>3
  <2>2. IsSequence(rest) /\ Len(rest) = 0
    BY <1>2, <2>1
  <2> QED
    BY <1>1, <1>3, <2>2, ShortRest
<1>4. CASE rc = 3 /\ Len(trace) = b + 1 /\ trace[b + 1] = BrokenLine
  <2>1. 1 \in Nat /\ 1 \in 1 .. 1
    OBVIOUS
  <2>2. IsSequence(rest) /\ Len(rest) = 1 /\ rest[1] = trace[b + 1]
    BY <1>2, <1>4, <2>1
  <2> QED
    BY <1>1, <1>4, <2>2, ShortRest
<1>5. CASE (rc = 0 \/ (rc = 3 /\ stmt_no = 0)) /\ Len(trace) = b + 1 /\ trace[b + 1] = ProcessEnd(rc)
  <2>1. 1 \in Nat /\ 1 \in 1 .. 1 /\ 1 > 0 /\ 1 - 1 = 0
    OBVIOUS
  <2>2. /\ IsSequence(rest) /\ Len(rest) = 1 /\ rest[1] = trace[b + 1]
        /\ IsSequence(Front(rest)) /\ Len(Front(rest)) = 0
    BY <1>2, <1>5, <2>1
  <2> QED
    BY <1>1, <1>5, <2>2, ShortRest
<1>6. CASE rc = 2 /\ stmt_no = n + 1 /\ ErrorTold(trace, b, n + 1)
  <2>1. PICK h \in Nat : h = 5
    OBVIOUS
  <2>2. /\ Len(trace) = b + h /\ StartTold(trace, b, n + 1)
        /\ IsEvent(trace[b + 2], "lexer_tokens", n + 1) /\ IsEvent(trace[b + 3], "parser_result", n + 1)
        /\ trace[b + 4] = End(rc) /\ trace[b + 5] = ProcessEnd(rc)
    BY <1>6, <2>1 DEF ErrorTold
  <2>3. /\ IsSequence(rest) /\ Len(rest) = h /\ \A m \in 1 .. h : rest[m] = trace[b + m]
        /\ IsSequence(Front(rest)) /\ Len(Front(rest)) = h - 1
        /\ \A m \in 1 .. h - 1 : Front(rest)[m] = trace[b + m]
    <3>1. h > 0
      BY <2>1
    <3> QED
      BY <1>2, <2>2, <3>1
  <2>4. /\ rest[1] = trace[b + 1] /\ rest[2] = trace[b + 2] /\ rest[3] = trace[b + 3]
        /\ rest[h - 1] = trace[b + 4] /\ rest[h] = trace[b + 5]
        /\ \A m \in 1 .. h - 1 : Front(rest)[m] = rest[m]
    BY <2>1, <2>3
  <2>5. IsEvent(rest[1], "statement_start", n + 1)
    BY <2>2, <2>4 DEF StartTold
  <2>6. h \in {5, 6} /\ h # 6 /\ rc = IF h = 5 THEN 2 ELSE 3
    BY <1>6, <2>1
  <2>7. IsLongRest(rest, n, h)
    BY <1>6, <2>2, <2>3, <2>4, <2>5, <2>6 DEF IsLongRest
  <2> QED
    BY <1>1, <2>6, <2>7, LongRest
<1>7. CASE rc = 3 /\ stmt_no = n + 1 /\ FailureTold(trace, b, n + 1)
  <2>1. PICK h \in Nat : h = 6
    OBVIOUS
  <2>2. /\ Len(trace) = b + h /\ StartTold(trace, b, n + 1)
        /\ IsEvent(trace[b + 2], "lexer_tokens", n + 1) /\ IsEvent(trace[b + 3], "parser_result", n + 1)
        /\ IsEvent(trace[b + 4], "executor_call", n + 1)
        /\ trace[b + 5] = End(rc) /\ trace[b + 6] = ProcessEnd(rc)
    BY <1>7, <2>1 DEF FailureTold
  <2>3. /\ IsSequence(rest) /\ Len(rest) = h /\ \A m \in 1 .. h : rest[m] = trace[b + m]
        /\ IsSequence(Front(rest)) /\ Len(Front(rest)) = h - 1
        /\ \A m \in 1 .. h - 1 : Front(rest)[m] = trace[b + m]
    <3>1. h > 0
      BY <2>1
    <3> QED
      BY <1>2, <2>2, <3>1
  <2>4. /\ rest[1] = trace[b + 1] /\ rest[2] = trace[b + 2] /\ rest[3] = trace[b + 3]
        /\ rest[4] = trace[b + 4] /\ rest[h - 1] = trace[b + 5] /\ rest[h] = trace[b + 6]
        /\ \A m \in 1 .. h - 1 : Front(rest)[m] = rest[m]
    BY <2>1, <2>3
  <2>5. IsEvent(rest[1], "statement_start", n + 1)
    BY <2>2, <2>4 DEF StartTold
  <2>6. h \in {5, 6} /\ rc = IF h = 5 THEN 2 ELSE 3
    BY <1>7, <2>1
  <2>7. IsLongRest(rest, n, h)
    BY <1>7, <2>2, <2>3, <2>4, <2>5, <2>6 DEF IsLongRest
  <2> QED
    BY <1>1, <2>6, <2>7, LongRest
<1> QED
  BY <1>3, <1>4, <1>5, <1>6, <1>7 DEF EndOfRun

\* What the trace holds at any moment: all of the statements that were executed,
\* as much of the one at work as the run has got to, and at the end how it ended.
THEOREM ToldInvCorrect == Spec => []ToldInv
<1>1. SInv /\ ToldInv /\ [Next]_vars => ToldInv'
  BY ToldStep
<1> QED
  BY <1>1, ToldInit, ScriptInv, PTL DEF Spec

\* The trace of a run that has ended tells of every statement that was executed
\* what was done with it, and how the run ended, for every script (sql_trace.c).
THEOREM TraceTellsTheRunCorrect == Spec => []TraceTellsTheRun
<1>1. ASSUME SInv, ToldInv
      PROVE  TraceTellsTheRun
  <2> SUFFICES ASSUME traced, pc = "exit"
               PROVE  /\ \A k \in 1 .. Len(done) : TellsStatement(SubSeq(trace, 5 * k - 4, 5 * k), k)
                      /\ RestTold(SubSeq(trace, 5 * Len(done) + 1, Len(trace)), Len(done))
    BY DEF TraceTellsTheRun, RestTold
  <2>1. IsSequence(trace) /\ Len(trace) \in Nat /\ rc \in {0, 2, 3}
    BY <1>1 DEF SInv, TraceInv, ScriptTypes, IsSequence
  <2>2. PICK n \in Nat, b \in Nat : n = Len(done) /\ b = 5 * n
    <3>1. Len(done) \in Nat /\ 5 * Len(done) \in Nat
      BY <1>1 DEF SInv, ScriptTypes
    <3> QED
      BY <3>1
  <2>3. (\A k \in 1 .. n : WholeTold(trace, k, done[k])) /\ EndOfRun(trace, b, n + 1)
    BY <1>1, <2>2 DEF ToldInv, AtWork
  <2>4. b <= Len(trace)
    BY <2>1, <2>2, <2>3 DEF EndOfRun, ErrorTold, FailureTold
  <2>5. \A k \in 1 .. n : TellsStatement(SubSeq(trace, 5 * k - 4, 5 * k), k)
    BY <2>1, <2>2, <2>3, <2>4, StatementTold
  <2>6. RestTold(SubSeq(trace, b + 1, Len(trace)), n)
    BY <2>1, <2>2, <2>3, RestCorrect
  <2> QED
    BY <2>2, <2>5, <2>6
<1> QED
  BY <1>1, ScriptInv, ToldInvCorrect, PTL

-----------------------------------------------------------------------------
(* The pieces of a script and its statements.                              *)

\* White space before a piece changes nothing of what the lexer reads.
LEMMA SpacesSkipped ==
  ASSUME NEW s \in Seq(Characters), NEW p \in Nat \ {0}, NEW a \in Nat, p <= a, a <= Len(s) + 1,
         \A x \in p .. a - 1 : s[x] \in Space
  PROVE  LexFrom(s, p) = LexFrom(s, a)
<1>0. Len(s) \in Nat
  OBVIOUS
<1> DEFINE S == {q \in Nat : q \in p .. a => TokenStart(s, q) = TokenStart(s, a)}
<1>1. \A q \in 1 .. a : (\A r \in q + 1 .. a : r \in S) => q \in S
  <2> SUFFICES ASSUME NEW q \in 1 .. a, \A r \in q + 1 .. a : r \in S, q \in p .. a
               PROVE  TokenStart(s, q) = TokenStart(s, a)
    OBVIOUS
  <2>1. CASE q = a
    BY <2>1
  <2>2. CASE q # a
    <3>1. q + 1 \in q + 1 .. a /\ q + 1 \in p .. a /\ q \in p .. a - 1 /\ q \in 1 .. Len(s) + 1 /\ q <= Len(s)
      BY <1>0, <2>2
    <3>2. s[q] \in Space
      BY <3>1
    <3>3. TokenStart(s, q) = TokenStart(s, q + 1)
      BY <1>0, <3>1, <3>2, TokenStartIs
    <3>4. TokenStart(s, q + 1) = TokenStart(s, a)
      BY <3>1
    <3> QED
      BY <3>3, <3>4
  <2> QED
    BY <2>1, <2>2
<1> HIDE DEF S
<1>2. \A q \in 1 .. a : q \in S
  BY <1>1, Backwards
<1>3. p \in 1 .. a /\ p \in p .. a
  OBVIOUS
<1>4. TokenStart(s, p) = TokenStart(s, a)
  BY <1>2, <1>3 DEF S
<1>5. p \in 1 .. Len(s) + 1 /\ a \in 1 .. Len(s) + 1
  BY <1>0
<1> QED
  BY <1>4, <1>5, SameStart

\* What is cut is trimmed to a piece of the text with white space around it.
LEMMA TrimWithin ==
  ASSUME NEW s \in Seq(Characters), NEW p \in 1 .. Len(s), NEW e \in p .. Len(s),
         NEW u, u = Trim(SubSeq(s, p, e))
  PROVE  \E d \in Nat : /\ Within(u, s, d) /\ p <= d + 1 /\ d + Len(u) <= e
                        /\ \A x \in p .. d : s[x] \in Blanks
                        /\ \A x \in (d + Len(u)) + 1 .. e : s[x] \in Blanks
<1>0. Len(s) \in Nat /\ p \in Nat \ {0} /\ e \in Nat /\ p <= e /\ e <= Len(s)
  OBVIOUS
<1>1. PICK v : v = SubSeq(s, p, e)
  OBVIOUS
<1>2. /\ v \in Seq(Characters) /\ Len(v) = (e - p) + 1
      /\ \A j \in 1 .. (e - p) + 1 : v[j] = s[(p + j) - 1]
  BY <1>0, <1>1, CutOf
<1>3. u = IF Solid(v) = {} THEN <<>> ELSE SubSeq(v, Min(Solid(v)), Max(Solid(v)))
  BY <1>1 DEF Trim, Solid
<1>4. ASSUME NEW x \in p .. e
      PROVE  (x - p) + 1 \in 1 .. Len(v) /\ v[(x - p) + 1] = s[x]
  <2>1. PICK j \in Nat : j = (x - p) + 1
    BY <1>0
  <2>2. j \in 1 .. (e - p) + 1 /\ (p + j) - 1 = x
    BY <1>0, <2>1
  <2> QED
    BY <1>2, <2>1, <2>2
<1>5. CASE Solid(v) = {}
  <2>1. PICK d \in Nat : d = p - 1
    BY <1>0
  <2>2. u = <<>> /\ Len(u) = 0
    BY <1>3, <1>5
  <2>3. d + Len(u) = p - 1 /\ (d + Len(u)) + 1 = p
    BY <1>0, <2>1, <2>2
  <2>4. \A x \in p .. e : s[x] \in Blanks
    BY <1>4, <1>5 DEF Solid
  <2>5. Within(u, s, d)
    <3>1. u \in Seq(Characters)
      BY <2>2
    <3>2. d + Len(u) <= Len(s) /\ Len(u) \in Nat /\ 1 .. Len(u) = {}
      BY <1>0, <2>2, <2>3
    <3> QED
      BY <1>0, <3>1, <3>2 DEF Within
  <2>6. p .. d = {} /\ p <= d + 1 /\ d + Len(u) <= e
    BY <1>0, <2>1, <2>3
  <2> QED
    BY <2>3, <2>4, <2>5, <2>6
<1>6. CASE Solid(v) # {}
  <2>1. PICK a, b : a = Min(Solid(v)) /\ b = Max(Solid(v))
    OBVIOUS
  <2>2. a \in Solid(v) /\ b \in Solid(v) /\ a <= b
    BY <1>2, <1>6, <2>1, SolidEnds
  <2>3. a \in 1 .. Len(v) /\ b \in 1 .. Len(v)
    BY <2>2 DEF Solid
  <2>4. (\A y \in Solid(v) : a <= y) /\ \A y \in Solid(v) : y <= b
    <3>1. Solid(v) \in SUBSET Nat /\ Solid(v) \in SUBSET (0 .. Len(v)) /\ Len(v) \in Nat
      BY <1>2 DEF Solid
    <3>2. \A y \in Solid(v) : a <= y
      BY <1>6, <2>1, <3>1, MinIsLeast
    <3>3. \A y \in Solid(v) : b >= y
      BY <1>6, <2>1, <3>1, MaxIsGreatest
    <3>4. \A y \in Solid(v) : y \in Nat
      BY <3>1
    <3> QED
      BY <2>3, <3>1, <3>2, <3>3, <3>4
  <2>5. /\ u \in Seq(Characters) /\ Len(u) = (b - a) + 1
        /\ \A j \in 1 .. (b - a) + 1 : u[j] = v[(a + j) - 1]
    <3>1. u = SubSeq(v, a, b)
      BY <1>3, <1>6, <2>1
    <3>2. a \in Nat \ {0} /\ b \in Nat /\ b <= Len(v)
      BY <1>2, <2>3
    <3>3. /\ SubSeq(v, a, b) \in Seq(Characters)
          /\ Len(SubSeq(v, a, b)) = IF a <= b THEN (b - a) + 1 ELSE 0
          /\ \A j \in 1 .. (b - a) + 1 : SubSeq(v, a, b)[j] = v[(a + j) - 1]
      BY <1>2, <3>2, CutOf
    <3> QED
      BY <2>2, <3>1, <3>3
  <2>6. PICK d \in Nat : d = (p + a) - 2
    BY <1>0, <2>3
  <2>7. (d + Len(u)) + 1 = p + b /\ p <= d + 1 /\ d + Len(u) <= e
    BY <1>0, <1>2, <2>2, <2>3, <2>5, <2>6
  <2>8. Within(u, s, d)
    <3>1. ASSUME NEW j \in 1 .. Len(u)
          PROVE  u[j] = s[j + d]
      <4>1. PICK g \in Nat : g = (a + j) - 1
        BY <2>3
      <4>2. g \in 1 .. (e - p) + 1 /\ (p + g) - 1 = j + d
        BY <1>0, <1>2, <2>3, <2>5, <2>6, <4>1
      <4>3. u[j] = v[g]
        BY <2>5, <4>1
      <4> QED
        BY <1>2, <4>2, <4>3
    <3>2. Len(u) \in Nat /\ d + Len(u) <= Len(s)
      BY <1>0, <2>5, <2>7
    <3> QED
      BY <1>0, <2>5, <3>1, <3>2 DEF Within
  <2>9. ASSUME NEW x \in p .. d
        PROVE  s[x] \in Blanks
    <3>1. x \in p .. e /\ (x - p) + 1 < a
      BY <1>0, <1>2, <2>3, <2>6
    <3>2. (x - p) + 1 \notin Solid(v)
      BY <2>3, <2>4, <3>1
    <3> QED
      BY <1>4, <3>1, <3>2 DEF Solid
  <2>10. ASSUME NEW x \in (d + Len(u)) + 1 .. e
         PROVE  s[x] \in Blanks
    <3>1. x \in p .. e /\ (x - p) + 1 > b
      BY <1>0, <1>2, <2>3, <2>7
    <3>2. (x - p) + 1 \notin Solid(v)
      BY <1>0, <2>3, <2>4, <3>1
    <3> QED
      BY <1>4, <3>1, <3>2 DEF Solid
  <2> QED
    BY <2>7, <2>8, <2>9, <2>10
<1> QED
  BY <1>5, <1>6

\* The tokens w of what is cut from p to e are the first that the text has, r.
FirstTokens(s, p, e, r, w) ==
  \E m, z : /\ Matched(s, r, w, m, z)
            /\ CutAt(s, p, e) => z = e /\ ~IsEof(r[m].kind)
            /\ ~CutAt(s, p, e) => ~Semi(r[m].kind)

\* The lexer skips what the cutter trims, when a form feed can only be in a
\* string: before the first token there is no string,
LEMMA BlanksBefore ==
  ASSUME NEW s \in Seq(Characters), NEW p \in 1 .. Len(s), PlainFrom(s, p),
         NEW d \in Nat, d <= Len(s), \A x \in p .. d : s[x] \in Blanks
  PROVE  \A x \in p .. d : s[x] \in Space
<1>0. Len(s) \in Nat /\ p \in 1 .. Len(s) + 1
  OBVIOUS
<1> SUFFICES ASSUME NEW x \in p .. d, Feed(s[x])
             PROVE  FALSE
  BY DEF Blanks, Feed
<1>1. PICK b, r : b = TokenStart(s, p) /\ r = LexFrom(s, p)
  OBVIOUS
<1>2. x \in p .. Len(s)
  BY <1>0
<1>3. PICK j \in 1 .. Len(r) : r[j].kind = "string" /\ x \in r[j].at .. r[j].to
  BY <1>1, <1>2 DEF PlainFrom, FeedsInStrings
<1>4. r[j].at \in Nat /\ r[j].at >= b
  BY <1>1, <1>3, LaterTokens
<1>5. FirstIs(s, p, b, r)
  BY <1>0, <1>1, NextToken
<1>6. b \in p .. x /\ b <= Len(s) /\ Starts(s, b)
  <2>1. b \in p .. Len(s) + 1 /\ Starts(s, b)
    BY <1>5 DEF FirstIs
  <2>2. b <= x
    BY <1>2, <1>3, <1>4, <2>1
  <2> QED
    BY <1>0, <1>2, <2>1, <2>2
<1>7. Feed(s[b])
  <2>1. b \in p .. d
    BY <1>0, <1>6
  <2>2. s[b] \notin Space
    BY <1>6 DEF Starts
  <2> QED
    BY <2>1, <2>2 DEF Blanks, Feed
<1>8. TokenAt(s, b).kind = "error"
  <2>1. s[b] \in Foreign
    BY <1>7 DEF Feed, Foreign
  <2> QED
    BY <2>1, NoToken, TokenFields DEF Unreadable
<1>9. Len(r) = 1 /\ r[1].kind = "error"
  BY <1>5, <1>6, <1>8 DEF FirstIs, Fails
<1>10. j = 1
  BY <1>3, <1>9
<1> QED
  BY <1>3, <1>9, <1>10

\* and after the last one no string can end.
LEMMA BlanksAfter ==
  ASSUME NEW s \in Seq(Characters), NEW p \in 1 .. Len(s), PlainFrom(s, p),
         NEW y \in Nat, p <= y + 1, \A x \in y + 1 .. Len(s) : s[x] \in Blanks
  PROVE  \A x \in y + 1 .. Len(s) : s[x] \in Space
<1>0. Len(s) \in Nat /\ p \in 1 .. Len(s) + 1
  OBVIOUS
<1> SUFFICES ASSUME NEW x \in y + 1 .. Len(s), Feed(s[x])
             PROVE  FALSE
  BY DEF Blanks, Feed
<1>1. PICK r : r = LexFrom(s, p)
  OBVIOUS
<1>2. x \in p .. Len(s)
  BY <1>0
<1>3. PICK j \in 1 .. Len(r) : r[j].kind = "string" /\ x \in r[j].at .. r[j].to
  BY <1>1, <1>2 DEF PlainFrom, FeedsInStrings
<1>4. r[j].to \in 1 .. Len(s) /\ Quote(s[r[j].to])
  BY <1>0, <1>1, <1>3, TokensAreFound DEF EndsInQuote
<1>5. r[j].to \in y + 1 .. Len(s)
  BY <1>0, <1>2, <1>3, <1>4
<1> QED
  BY <1>4, <1>5 DEF Quote, Blanks, Space

\* The piece that is cut from p to e has the tokens that the text has from p on,
\* up to the end of a statement: a `;' if one was cut at, the end otherwise.
LEMMA PieceCut ==
  ASSUME NEW s \in Seq(Characters), NEW p \in 1 .. Len(s), NEW e \in p .. Len(s),
         NEW u, u = Trim(SubSeq(s, p, e)), PlainFrom(s, p), NoneBefore(s, p, e),
         CutAt(s, p, e) \/ (e = Len(s) /\ NoneBefore(s, p, e + 1)),
         NEW r, r = LexFrom(s, p), NEW w, w = Lex(u)
  PROVE  FirstTokens(s, p, e, r, w)
<1>0. Len(s) \in Nat /\ p \in Nat \ {0} /\ e \in Nat /\ p <= e /\ e <= Len(s)
  OBVIOUS
<1>19. PICK d \in Nat : /\ Within(u, s, d) /\ p <= d + 1 /\ d + Len(u) <= e
                        /\ \A x \in p .. d : s[x] \in Blanks
                        /\ \A x \in (d + Len(u)) + 1 .. e : s[x] \in Blanks
  BY TrimWithin
<1>2. Len(u) \in Nat
  BY <1>19 DEF Within
<1>1. /\ Within(u, s, d) /\ p <= d + 1 /\ d + Len(u) <= e
      /\ \A x \in p .. d : s[x] \in Space
      /\ ~CutAt(s, p, e) => \A x \in (d + Len(u)) + 1 .. e : s[x] \in Space
      /\ CutAt(s, p, e) => d + Len(u) = e /\ p <= d + Len(u)
  <2>1. \A x \in p .. d : s[x] \in Space
    <3>1. d <= Len(s) /\ d \in Nat
      BY <1>0, <1>2, <1>19
    <3> QED
      BY <1>19, <3>1, BlanksBefore
  <2>2. ASSUME ~CutAt(s, p, e)
        PROVE  \A x \in (d + Len(u)) + 1 .. e : s[x] \in Space
    <3>1. PICK y \in Nat : y = d + Len(u) /\ y <= e
      BY <1>2, <1>19
    <3>2. e = Len(s) /\ p <= y + 1
      BY <1>2, <1>19, <2>2, <3>1
    <3>3. \A x \in y + 1 .. Len(s) : s[x] \in Blanks
      BY <1>19, <3>1, <3>2
    <3> QED
      BY <3>1, <3>2, <3>3, BlanksAfter
  <2>3. ASSUME CutAt(s, p, e)
        PROVE  d + Len(u) = e /\ p <= d + Len(u)
    <3>1. s[e] \notin Blanks
      BY <2>3 DEF CutAt, Semi, Blanks, Space
    <3>2. d + Len(u) # e => e \in (d + Len(u)) + 1 .. e
      BY <1>0, <1>2, <1>19
    <3> QED
      BY <1>0, <1>19, <3>1, <3>2
  <2> QED
    BY <1>19, <2>1, <2>2, <2>3
<1>3. PICK z \in Nat : z = d + Len(u) /\ z <= e
  BY <1>1, <1>2
<1>4. PICK a \in Nat \ {0} : a = d + 1 /\ p <= a /\ a - 1 = d /\ a <= Len(s) + 1 /\ a <= z + 1
  BY <1>0, <1>1, <1>2, <1>3
<1>5. r = LexFrom(s, a)
  BY <1>0, <1>1, <1>4, SpacesSkipped
<1>6. PlainFrom(s, a)
  <2>1. \A x \in a .. Len(s) : x \in p .. Len(s)
    BY <1>0, <1>4
  <2>2. LexFrom(s, p) = LexFrom(s, a)
    BY <1>5
  <2> QED
    BY <2>1, <2>2 DEF PlainFrom, MarksInTokens, FeedsInStrings
<1>7. Parity(s, p, a - 1) = 0
  <2>1. \A c \in Space : c # "'"
    BY DEF Space
  <2>2. \A x \in p .. a - 1 : s[x] # "'"
    BY <1>1, <1>4, <2>1
  <2>3. p \in Nat /\ a - 1 \in Int
    OBVIOUS
  <2> QED
    BY <2>2, <2>3, NoQuotes, ZeroIsEven DEF Parity
<1>8. NoneBefore(s, p, z)
  <2>1. \A x \in p .. z - 1 : x \in p .. e - 1
    BY <1>0, <1>3
  <2> QED
    BY <2>1 DEF NoneBefore
<1>9. CutAt(s, p, e) => z = e
  BY <1>1, <1>3
<1>10. ~CutAt(s, p, e) => TailAt(s, p, z)
  <2> SUFFICES ASSUME e = Len(s), NoneBefore(s, p, e + 1), ~CutAt(s, p, e)
               PROVE  TailAt(s, p, z)
    OBVIOUS
  <2>1. \A x \in z + 1 .. Len(s) : s[x] \in Space
    BY <1>1, <1>3
  <2>2. p <= z => z \in p .. (e + 1) - 1
    BY <1>0, <1>3
  <2> QED
    BY <2>1, <2>2 DEF TailAt, NoneBefore
<1>11. /\ NoneBefore(s, a, z)
       /\ CutAt(s, p, z) /\ a <= z => CutAt(s, a, z)
       /\ TailAt(s, p, z) => TailAt(s, a, z)
  BY <1>0, <1>4, <1>7, <1>8, PieceGoesOn
<1>12. CutAt(s, p, e) => CutAt(s, a, z)
  <2>1. CutAt(s, p, e) => a <= z
    <3>1. CutAt(s, p, e) => e \notin p .. d
      <4>1. CutAt(s, p, e) => s[e] \notin Space
        BY DEF CutAt, Semi, Space
      <4> QED
        BY <1>1, <4>1
    <3>2. a > z /\ z = e => e \in p .. d
      BY <1>0, <1>3, <1>4
    <3> QED
      BY <1>3, <1>4, <1>9, <3>1, <3>2
  <2> QED
    BY <1>9, <1>11, <2>1
<1>13. ~CutAt(s, p, e) => TailAt(s, a, z)
  BY <1>10, <1>11
<1>14. IsPiece(s, a, z)
  BY <1>11, <1>12, <1>13 DEF IsPiece
<1>15. Agree(u, s, d, 1)
  <2>1. 1 \in 1 .. Len(u) + 1
    BY <1>2
  <2> QED
    BY <1>1, <2>1, PieceTokensAgree
<1>16. w = LexFrom(u, 1) /\ 1 + d = a
  BY <1>4, LexIsLexFrom
<1>17. PICK m : /\ Matched(s, r, w, m, z)
                /\ CutAt(s, a, z) => ~IsEof(r[m].kind)
                /\ TailAt(s, a, z) => ~Semi(r[m].kind)
  BY <1>3, <1>5, <1>6, <1>14, <1>15, <1>16 DEF Agree
<1> QED
  BY <1>9, <1>12, <1>13, <1>17 DEF FirstTokens

\* The statements of t up to token l are n.
Through(t, n, l) == l \in Ends(t) \cup {0} /\ Cardinality(UpTo(Ends(t), l)) = n

LEMMA EndsAre ==
  ASSUME NEW t \in Seq(TokenKinds)
  PROVE  /\ Len(t) \in Nat /\ Ends(t) \in SUBSET (1 .. Len(t)) /\ IsFiniteSet(Ends(t))
         /\ Cardinality(Ends(t)) \in Nat
         /\ \A j : j \in Ends(t) <=> j \in 1 .. Len(t) /\ Ender(t[j])
         /\ \A l : IsFiniteSet(UpTo(Ends(t), l)) /\ Cardinality(UpTo(Ends(t), l)) \in Nat
<1>1. DOMAIN t = 1 .. Len(t) /\ Len(t) \in Nat
  OBVIOUS
<1>2. \A j : j \in Ends(t) <=> j \in 1 .. Len(t) /\ Ender(t[j])
  BY <1>1 DEF Ends, Ender
<1>3. Ends(t) \in SUBSET (1 .. Len(t))
  BY <1>2
<1>4. IsFiniteSet(Ends(t)) /\ Cardinality(Ends(t)) \in Nat
  BY <1>1, <1>3, EndExists
<1>5. \A l : IsFiniteSet(UpTo(Ends(t), l)) /\ Cardinality(UpTo(Ends(t), l)) \in Nat
  <2>1. \A l : UpTo(Ends(t), l) \in SUBSET Ends(t)
    BY DEF UpTo
  <2> QED
    BY <1>4, <2>1, FS_Subset, FS_CardinalityType
<1> QED
  BY <1>1, <1>2, <1>3, <1>4, <1>5

\* The next end: one statement more.
LEMMA ThroughNext ==
  ASSUME NEW t \in Seq(TokenKinds), NEW n, NEW l \in Nat, Through(t, n, l),
         NEW m \in Nat \ {0}, l + m <= Len(t), Ender(t[l + m]),
         \A j \in 1 .. m - 1 : ~Ender(t[l + j])
  PROVE  n \in Nat /\ Through(t, n + 1, l + m)
<1>1. /\ Len(t) \in Nat /\ \A j : j \in Ends(t) <=> j \in 1 .. Len(t) /\ Ender(t[j])
      /\ \A x : IsFiniteSet(UpTo(Ends(t), x)) /\ Cardinality(UpTo(Ends(t), x)) \in Nat
  BY EndsAre
<1>2. PICK e \in Nat : e = l + m
  OBVIOUS
<1>3. e \in Ends(t)
  <2>1. e \in 1 .. Len(t)
    BY <1>1, <1>2
  <2> QED
    BY <1>1, <1>2, <2>1
<1>4. e \notin UpTo(Ends(t), l)
  <2>1. ~(e <= l)
    BY <1>2
  <2> QED
    BY <2>1 DEF UpTo
<1>5. UpTo(Ends(t), e) = UpTo(Ends(t), l) \cup {e}
  <2>1. ASSUME NEW x \in Ends(t), x <= e, x # e
        PROVE  x <= l
    <3>1. x \in Nat /\ Ender(t[x])
      BY <1>1, <2>1
    <3>2. x > l => x - l \in 1 .. m - 1 /\ l + (x - l) = x
      BY <1>2, <2>1, <3>1
    <3>3. ~(x > l)
      BY <3>1, <3>2
    <3> QED
      BY <3>1, <3>3
  <2>2. ASSUME NEW x \in Ends(t), x <= l
        PROVE  x <= e
    <3>1. x \in Nat
      BY <1>1
    <3> QED
      BY <1>2, <2>2, <3>1
  <2>3. e <= e
    OBVIOUS
  <2> QED
    BY <1>3, <2>1, <2>2, <2>3 DEF UpTo
<1>6. Cardinality(UpTo(Ends(t), e)) = Cardinality(UpTo(Ends(t), l)) + 1
  BY <1>1, <1>4, <1>5, FS_AddElement
<1> QED
  BY <1>1, <1>2, <1>3, <1>6 DEF Through

\* There is one place through which the statements are n.
LEMMA ThroughOne ==
  ASSUME NEW t \in Seq(TokenKinds), NEW n, NEW l, Through(t, n, l)
  PROVE  l \in 0 .. Len(t) /\ EndOf(t, n) = l /\ n <= Cardinality(Ends(t))
<1>1. /\ Len(t) \in Nat /\ Ends(t) \in SUBSET (1 .. Len(t))
      /\ IsFiniteSet(Ends(t)) /\ Cardinality(Ends(t)) \in Nat
      /\ \A x : IsFiniteSet(UpTo(Ends(t), x)) /\ Cardinality(UpTo(Ends(t), x)) \in Nat
  BY EndsAre
<1>2. \A x \in Ends(t) \cup {0} : x \in 0 .. Len(t)
  BY <1>1
<1>3. ASSUME NEW a \in Ends(t) \cup {0}, NEW b \in Ends(t) \cup {0}, a < b
      PROVE  Cardinality(UpTo(Ends(t), a)) # Cardinality(UpTo(Ends(t), b))
  <2>1. b \in Ends(t) /\ a \in Nat /\ b \in Nat
    BY <1>2, <1>3
  <2>2. b \in UpTo(Ends(t), b) /\ b \notin UpTo(Ends(t), a)
    BY <1>3, <2>1 DEF UpTo
  <2>3. UpTo(Ends(t), a) \subseteq UpTo(Ends(t), b)
    <3>1. ASSUME NEW x \in Ends(t), x <= a
          PROVE  x <= b
      BY <1>2, <1>3, <2>1, <3>1
    <3> QED
      BY <3>1 DEF UpTo
  <2> QED
    BY <1>1, <2>2, <2>3, FS_Subset
<1>4. ASSUME NEW b \in Ends(t) \cup {0}, Cardinality(UpTo(Ends(t), b)) = n
      PROVE  b = l
  <2>1. l \in Ends(t) \cup {0} /\ Cardinality(UpTo(Ends(t), l)) = n
    BY DEF Through
  <2>2. b \in Nat /\ l \in Nat
    BY <1>2, <2>1
  <2>3. ~(b < l) /\ ~(l < b)
    BY <1>3, <1>4, <2>1
  <2> QED
    BY <2>2, <2>3
<1>5. EndOf(t, n) = l
  <2>1. l \in Ends(t) \cup {0} /\ Cardinality({x \in Ends(t) : x <= l}) = n
    BY DEF Through, UpTo
  <2>2. \A b \in Ends(t) \cup {0} : Cardinality({x \in Ends(t) : x <= b}) = n => b = l
    BY <1>4 DEF UpTo
  <2> QED
    BY <2>1, <2>2 DEF EndOf
<1>6. n <= Cardinality(Ends(t))
  <2>1. UpTo(Ends(t), l) \subseteq Ends(t)
    BY DEF UpTo
  <2> QED
    BY <1>1, <2>1, FS_Subset DEF Through
<1> QED
  BY <1>2, <1>5, <1>6 DEF Through

\* The n statements up to token l are followed by tokens up to an end, m of them.
NextEnd(t, n, l, m) ==
  /\ Through(t, n, l) /\ l + m <= Len(t) /\ Ender(t[l + m])
  /\ \A j \in 1 .. m - 1 : ~Ender(t[l + j])

\* These, y, are the next statement of a script, or its end, and then there is no
\* other.
Continues(x, t, n, l, m, y) ==
  LET r == StatementsOf(x) IN
  /\ y = <<"eof">> => Len(r) = n
  /\ y # <<"eof">> => n < Len(r) /\ r[n + 1] = y
  /\ y # <<"eof">> /\ l + m = Len(t) => Len(r) = n + 1

\* The next statement of a script is what its tokens have up to the next end;
\* the end of the text alone is none, and then there is no other.
LEMMA NextMeant ==
  ASSUME NEW x \in Seq(Characters), NEW t, t = Kinds(Lex(AfterBom(x))),
         NEW n, NEW l \in Nat, NEW m \in Nat \ {0}, NextEnd(t, n, l, m),
         NEW y, y = SubSeq(t, l + 1, l + m)
  PROVE  Continues(x, t, n, l, m, y)
<1>1. PICK r : r = StatementsOf(x)
  OBVIOUS
<1>2. /\ Through(t, n, l) /\ l + m <= Len(t) /\ Ender(t[l + m])
      /\ \A j \in 1 .. m - 1 : ~Ender(t[l + j])
  BY DEF NextEnd
<1>3. /\ t \in Seq(TokenKinds) /\ Len(t) \in Nat
      /\ \A j \in 1 .. Len(t) : t[j] \in Endings <=> j = Len(t)
  BY AfterBomOf, KindsOfLex
<1>4. n \in Nat /\ Through(t, n + 1, l + m)
  BY <1>3, <1>2, ThroughNext
<1>5. EndOf(t, n) = l /\ EndOf(t, n + 1) = l + m /\ n + 1 <= Cardinality(Ends(t))
  BY <1>3, <1>4, <1>2, ThroughOne
<1>6. PICK c \in Nat : c = Cardinality(Ends(t)) /\ n + 1 <= c
  BY <1>3, <1>5, EndsAre
<1>7. PICK all : all = Stretches(t)
  OBVIOUS
<1>8. all = [k \in 1 .. c |-> SubSeq(t, EndOf(t, k - 1) + 1, EndOf(t, k))]
  BY <1>6, <1>7 DEF Stretches
<1>9. all[n + 1] = y
  <2>1. n + 1 \in 1 .. c /\ (n + 1) - 1 = n
    BY <1>4, <1>6
  <2> QED
    BY <1>5, <1>8, <2>1
<1>10. all \in Seq(Seq(TokenKinds)) /\ Len(all) = c
  <2>1. Ends(t) # {}
    <3>1. c # 0 /\ c = Cardinality(Ends(t))
      BY <1>4, <1>6
    <3> QED
      BY <3>1, FS_EmptySet
  <2>2. all \in Seq(Seq(TokenKinds))
    BY <1>3, <1>7, <2>1, StretchesOf
  <2>3. DOMAIN all = 1 .. c
    BY <1>8
  <2> QED
    BY <1>6, <2>2, <2>3
<1>11. r = IF Last(all) = <<"eof">> THEN Front(all) ELSE all
  BY <1>1, <1>7, StatementsAre
<1>12. Last(all) = all[c]
  BY <1>10 DEF Last
<1>13. /\ Len(Front(all)) = c - 1 /\ \A k \in 1 .. c - 1 : Front(all)[k] = all[k]
  <2>1. PICK b \in Nat : b = c - 1 /\ b <= Len(all)
    BY <1>4, <1>6, <1>10
  <2>2. 1 \in Nat \ {0}
    OBVIOUS
  <2>3. /\ Len(SubSeq(all, 1, b)) = (IF 1 <= b THEN (b - 1) + 1 ELSE 0)
        /\ \A k \in 1 .. (b - 1) + 1 : SubSeq(all, 1, b)[k] = all[(1 + k) - 1]
    BY <1>10, <2>1, <2>2, CutOf
  <2>4. \A k \in 1 .. b : k \in 1 .. (b - 1) + 1 /\ (1 + k) - 1 = k
    BY <2>1
  <2>5. (IF 1 <= b THEN (b - 1) + 1 ELSE 0) = b
    BY <2>1
  <2>6. Front(all) = SubSeq(all, 1, b)
    BY <1>10, <2>1 DEF Front
  <2> QED
    BY <2>1, <2>3, <2>4, <2>5, <2>6
<1>14. y \in Seq(TokenKinds) /\ Len(y) = m /\ y[m] = t[l + m]
  <2>1. m \in Nat /\ m \in 1 .. m
    OBVIOUS
  <2> QED
    <3>1. l + m <= Len(t) /\ t \in Seq(TokenKinds)
      BY <1>3, <1>2
    <3>2. Len(y) = m /\ y \in Seq(TokenKinds) /\ \A j \in 1 .. m : y[j] = t[l + j]
      BY <2>1, <3>1, StretchOf
    <3> QED
      BY <2>1, <3>2
\* The last statement is the one through the end of the text.
<1>15. n + 1 = c <=> l + m = Len(t)
  <2>1. l + m \in 1 .. Len(t)
    BY <1>3, <1>2
  <2>2. ASSUME l + m = Len(t)
        PROVE  n + 1 = c
    <3>1. \A z \in Ends(t) : z <= l + m
      BY <1>3, <2>2, EndsAre
    <3>2. UpTo(Ends(t), l + m) = Ends(t)
      BY <3>1 DEF UpTo
    <3> QED
      BY <1>4, <1>6, <3>2 DEF Through
  <2>3. ASSUME l + m # Len(t)
        PROVE  n + 1 # c
    <3>1. Len(t) \in 1 .. Len(t) /\ l + m < Len(t)
      BY <1>3, <2>1, <2>3
    <3>2. Ender(t[Len(t)])
      BY <1>3, <3>1 DEF Ender, Endings
    <3>3. Len(t) \in Ends(t)
      BY <1>3, <3>1, <3>2, EndsAre
    <3>4. Len(t) \notin UpTo(Ends(t), l + m)
      BY <3>1 DEF UpTo
    <3>5. UpTo(Ends(t), l + m) \subseteq Ends(t)
      BY DEF UpTo
    <3>6. IsFiniteSet(Ends(t))
      BY <1>3, EndsAre
    <3>7. Cardinality(UpTo(Ends(t), l + m)) # Cardinality(Ends(t))
      BY <3>3, <3>4, <3>5, <3>6, FS_Subset
    <3> QED
      BY <1>4, <1>6, <3>7 DEF Through
  <2> QED
    BY <2>2, <2>3
<1>16. ASSUME y = <<"eof">>
       PROVE  Len(r) = n
  <2>1. m = 1 /\ t[l + m] = "eof"
    <3>1. Len(<<"eof">>) = 1 /\ <<"eof">>[1] = "eof"
      OBVIOUS
    <3>2. m = 1
      BY <1>14, <1>16, <3>1
    <3> QED
      BY <1>14, <1>16, <3>1, <3>2
  <2>2. l + m \in 1 .. Len(t)
    BY <1>3, <1>2
  <2>3. l + m = Len(t)
    BY <1>3, <2>1, <2>2 DEF Endings
  <2>4. Last(all) = <<"eof">>
    BY <1>9, <1>12, <1>15, <1>16, <2>3
  <2> QED
    BY <1>4, <1>11, <1>13, <1>15, <2>3, <2>4
<1>17. ASSUME y # <<"eof">>
       PROVE  /\ n < Len(r) /\ r[n + 1] = y
              /\ l + m = Len(t) => Len(r) = n + 1
  <2>1. CASE n + 1 = c
    <3>1. Last(all) # <<"eof">>
      BY <1>9, <1>12, <1>17, <2>1
    <3>2. r = all
      BY <1>11, <3>1
    <3>3. Len(r) = n + 1
      BY <1>10, <2>1, <3>2
    <3>4. n < n + 1
      BY <1>4
    <3> QED
      BY <1>9, <3>2, <3>3, <3>4
  <2>2. CASE n + 1 # c
    <3>1. n + 1 \in 1 .. c - 1 /\ n < c - 1 /\ n < c
      BY <1>4, <1>6, <2>2
    <3> QED
      BY <1>9, <1>10, <1>11, <1>13, <1>15, <2>2, <3>1
  <2> QED
    BY <2>1, <2>2
<1> QED
  BY <1>1, <1>16, <1>17 DEF Continues

\* A statement ends with the first token that ends one.
NoEnd(s, a, b) == \A j \in a .. b : ~Ender(s[j])

LEMMA NoEndInside ==
  ASSUME NEW s \in Seq(TokenKinds), NEW b \in Nat, NEW c \in Nat, b + c <= Len(s),
         NEW v, v = SubSeq(s, b + 1, b + c), \A m \in 1 .. Len(v) : ~Ender(v[m])
  PROVE  NoEnd(s, b + 1, b + c)
<1>1. Len(v) = c /\ \A m \in 1 .. c : v[m] = s[b + m]
  BY StretchOf
<1>2. ASSUME NEW j \in b + 1 .. b + c
      PROVE  ~Ender(s[j])
  <2>1. PICK m \in 1 .. c : j = b + m
    <3>1. j - b \in 1 .. c /\ j = b + (j - b)
      OBVIOUS
    <3> QED
      BY <3>1
  <2> QED
    BY <1>1, <2>1
<1> QED
  BY <1>2 DEF NoEnd

LEMMA NoEndInList ==
  ASSUME NEW v, NEW K, CommaList(v, K), \A k \in K : ~Ender(k)
  PROVE  \A m \in 1 .. Len(v) : ~Ender(v[m])
BY DEF CommaList, Ender

LEMMA NoEndTokens ==
  /\ \A k \in Keywords \cup Identifiers \cup Literals \cup {"(", ")", ",", "*", "="} : ~Ender(k)
  /\ \A k \in Identifiers : ~Ender(k)
  /\ \A k \in Literals : ~Ender(k)
  /\ \A k \in Terminators : Ender(k)
BY DEF Keywords, Identifiers, Literals, Terminators, Ender

\* s has its statement to the end.
Whole(s) ==
  /\ Len(s) > 1 /\ NoEnd(s, 1, Len(s) - 1) /\ Ender(s[Len(s)]) /\ s[Len(s)] # "error"

LEMMA InsertWhole ==
  ASSUME NEW s \in Seq(TokenKinds), IsInsert(s)
  PROVE  Whole(s)
<1>1. /\ Len(s) >= 7
      /\ s[1] = "INSERT" /\ s[2] = "INTO" /\ s[3] \in Identifiers
      /\ s[4] = "VALUES" /\ s[5] = "("
      /\ ValueList(s) = <<>> \/ CommaList(ValueList(s), Literals)
      /\ s[Len(s) - 1] = ")" /\ s[Len(s)] \in Terminators
  BY DEF IsInsert
<1>2. PICK c \in Nat : c = Len(s) - 7 /\ 5 + c <= Len(s)
  <2>1. Len(s) \in Nat /\ Len(s) >= 7
    BY <1>1
  <2>2. Len(s) - 7 \in Nat /\ 5 + (Len(s) - 7) <= Len(s)
    BY <2>1
  <2> QED
    BY <2>2
<1>3. \A m \in 1 .. Len(ValueList(s)) : ~Ender(ValueList(s)[m])
  <2>1. ValueList(s) = <<>> => 1 .. Len(ValueList(s)) = {}
    OBVIOUS
  <2> QED
    BY <1>1, <2>1, NoEndInList, NoEndTokens
<1>4. NoEnd(s, 5 + 1, 5 + c)
  <2>1. ValueList(s) = SubSeq(s, 5 + 1, 5 + c)
    <3>1. 6 = 5 + 1 /\ Len(s) - 2 = 5 + c
      BY <1>1, <1>2
    <3> QED
      BY <3>1 DEF ValueList
  <2>2. 5 \in Nat
    OBVIOUS
  <2> QED
    BY <1>2, <1>3, <2>1, <2>2, NoEndInside
<1>5. ~Ender(s[1]) /\ ~Ender(s[2]) /\ ~Ender(s[3]) /\ ~Ender(s[4]) /\ ~Ender(s[5]) /\ ~Ender(s[Len(s) - 1])
  <2>1. "INSERT" \in Keywords /\ "INTO" \in Keywords /\ "VALUES" \in Keywords
    BY DEF Keywords
  <2> QED
    BY <1>1, <2>1, NoEndTokens
<1>6. NoEnd(s, 1, Len(s) - 1)
  <2>1. ASSUME NEW j \in 1 .. Len(s) - 1
        PROVE  j \in {1, 2, 3, 4, 5, Len(s) - 1} \/ j \in 5 + 1 .. 5 + c
    BY <1>1, <1>2
  <2> QED
    BY <1>4, <1>5, <2>1 DEF NoEnd
<1>7. Ender(s[Len(s)]) /\ s[Len(s)] # "error"
  <2>1. "error" \notin Terminators
    BY DEF Terminators
  <2> QED
    BY <1>1, <2>1, NoEndTokens
<1> QED
  BY <1>1, <1>6, <1>7 DEF Whole

LEMMA SelectWhole ==
  ASSUME NEW s \in Seq(TokenKinds), IsSelect(s)
  PROVE  Whole(s)
<1>1. PICK n \in 3 .. Len(s) - 2 : IsSelectAt(s, n)
  BY DEF IsSelect
<1>2. /\ s[1] = "SELECT" /\ s[n] = "FROM" /\ s[n + 1] \in Identifiers /\ s[Len(s)] \in Terminators
      /\ ColumnList(s, n) = <<"*">> \/ CommaList(ColumnList(s, n), Identifiers)
      /\ SubSeq(s, n + 2, Len(s) - 1) \in {<<>>, <<"WHERE", "id", "=", "int">>}
  BY <1>1 DEF IsSelectAt
<1>3. Len(s) \in Nat /\ n \in Nat /\ n >= 3 /\ n + 2 <= Len(s)
  BY <1>1
<1>4. NoEnd(s, 1 + 1, n - 1)
  <2>1. PICK c \in Nat : c = n - 2 /\ 1 + c <= Len(s) /\ 1 + c = n - 1
    BY <1>3
  <2>2. ColumnList(s, n) = SubSeq(s, 1 + 1, 1 + c)
    <3>1. 2 = 1 + 1 /\ n - 1 = 1 + c
      BY <2>1
    <3> QED
      BY <3>1 DEF ColumnList
  <2>3. \A m \in 1 .. Len(ColumnList(s, n)) : ~Ender(ColumnList(s, n)[m])
    <3>1. CASE ColumnList(s, n) = <<"*">>
      <4>1. \A m \in 1 .. Len(<<"*">>) : <<"*">>[m] = "*"
        OBVIOUS
      <4> QED
        BY <3>1, <4>1, NoEndTokens
    <3> QED
      BY <1>2, <3>1, NoEndInList, NoEndTokens
  <2>4. NoEnd(s, 1 + 1, 1 + c)
    <3>1. 1 \in Nat
      OBVIOUS
    <3> QED
      BY <2>1, <2>2, <2>3, <3>1, NoEndInside
  <2> QED
    BY <2>1, <2>4
<1>5. NoEnd(s, (n + 1) + 1, Len(s) - 1)
  <2>1. PICK b \in Nat, c \in Nat : b = n + 1 /\ c = Len(s) - (n + 2) /\ b + c = Len(s) - 1 /\ b + c <= Len(s)
    <3>1. PICK b \in Nat, c \in Nat : b = n + 1 /\ c = Len(s) - (n + 2)
      <4>1. n + 1 \in Nat /\ Len(s) - (n + 2) \in Nat
        BY <1>3
      <4> QED
        BY <4>1
    <3>2. b + c = Len(s) - 1 /\ b + c <= Len(s)
      BY <1>3, <3>1
    <3> QED
      BY <3>1, <3>2
  <2>2. PICK v : v = SubSeq(s, n + 2, Len(s) - 1)
    OBVIOUS
  <2>3. v = SubSeq(s, b + 1, b + c)
    <3>1. n + 2 = b + 1 /\ Len(s) - 1 = b + c
      BY <2>1
    <3> QED
      BY <2>2, <3>1
  <2>4. \A m \in 1 .. Len(v) : ~Ender(v[m])
    <3>1. v = <<>> => 1 .. Len(v) = {}
      OBVIOUS
    <3>2. CASE v = <<"WHERE", "id", "=", "int">>
      <4>1. \A m \in 1 .. Len(v) : v[m] \in {"WHERE", "id", "=", "int"}
        BY <3>2
      <4>2. {"WHERE", "id", "=", "int"} \subseteq Keywords \cup Identifiers \cup Literals \cup {"="}
        BY DEF Keywords, Identifiers, Literals
      <4> QED
        BY <4>1, <4>2, NoEndTokens
    <3> QED
      BY <1>2, <2>2, <3>1, <3>2
  <2>5. NoEnd(s, b + 1, b + c)
    BY <2>1, <2>3, <2>4, NoEndInside
  <2> QED
    BY <2>1, <2>5
<1>6. ~Ender(s[1]) /\ ~Ender(s[n]) /\ ~Ender(s[n + 1])
  <2>1. "SELECT" \in Keywords /\ "FROM" \in Keywords
    BY DEF Keywords
  <2> QED
    BY <1>2, <2>1, NoEndTokens
<1>7. NoEnd(s, 1, Len(s) - 1)
  <2>1. ASSUME NEW j \in 1 .. Len(s) - 1
        PROVE  j \in {1, n, n + 1} \/ j \in 1 + 1 .. n - 1 \/ j \in (n + 1) + 1 .. Len(s) - 1
    BY <1>3
  <2> QED
    BY <1>4, <1>5, <1>6, <2>1 DEF NoEnd
<1>8. Ender(s[Len(s)]) /\ s[Len(s)] # "error"
  <2>1. "error" \notin Terminators
    BY DEF Terminators
  <2> QED
    BY <1>2, <2>1, NoEndTokens
<1> QED
  BY <1>3, <1>7, <1>8 DEF Whole

\* What the parsers make of the tokens of a piece is the statement that the first
\* m are; when they make nothing of them, these are none.
LEMMA StatementIsFirst ==
  ASSUME NEW k \in Seq(TokenKinds), NEW m \in Nat \ {0}, m <= Len(k),
         Ender(k[m]), NoEnd(k, 1, m - 1), NEW y, y = SubSeq(k, 1, m)
  PROVE  /\ Parses(k) => Statement(k) = y /\ y # <<"eof">> /\ k[m] # "error"
         /\ ~Parses(k) => SentenceEnds(y) = {}
<1>0. Len(k) \in Nat
  OBVIOUS
<1>1. y \in Seq(TokenKinds) /\ Len(y) = m /\ \A j \in 1 .. m : y[j] = k[j]
  <2>1. /\ SubSeq(k, 1, m) \in Seq(TokenKinds)
        /\ Len(SubSeq(k, 1, m)) = IF 1 <= m THEN (m - 1) + 1 ELSE 0
        /\ \A j \in 1 .. (m - 1) + 1 : SubSeq(k, 1, m)[j] = k[(1 + j) - 1]
    <3>1. 1 \in Nat \ {0} /\ m \in Nat
      OBVIOUS
    <3> QED
      BY <3>1, CutOf
  <2>2. (m - 1) + 1 = m /\ 1 <= m /\ \A j \in 1 .. m : (1 + j) - 1 = j
    OBVIOUS
  <2> QED
    BY <2>1, <2>2
\* A statement that k starts with has m tokens.
<1>2. ASSUME NEW e \in SentenceEnds(k)
      PROVE  e = m /\ m > 1 /\ k[m] # "error"
  <2>1. e \in 1 .. Len(k) /\ (IsInsert(SubSeq(k, 1, e)) \/ IsSelect(SubSeq(k, 1, e)))
    BY DEF SentenceEnds
  <2>2. PICK g : g = SubSeq(k, 1, e)
    OBVIOUS
  <2>3. g \in Seq(TokenKinds) /\ Len(g) = e /\ \A j \in 1 .. e : g[j] = k[j]
    <3>1. /\ SubSeq(k, 1, e) \in Seq(TokenKinds)
          /\ Len(SubSeq(k, 1, e)) = IF 1 <= e THEN (e - 1) + 1 ELSE 0
          /\ \A j \in 1 .. (e - 1) + 1 : SubSeq(k, 1, e)[j] = k[(1 + j) - 1]
      <4>1. 1 \in Nat \ {0} /\ e \in Nat /\ e <= Len(k)
        BY <1>0, <2>1
      <4> QED
        BY <4>1, CutOf
    <3>2. (e - 1) + 1 = e /\ 1 <= e /\ \A j \in 1 .. e : (1 + j) - 1 = j
      BY <1>0, <2>1
    <3> QED
      BY <2>2, <3>1, <3>2
  <2>4. Whole(g)
    BY <2>1, <2>2, <2>3, InsertWhole, SelectWhole
  <2>5. e > 1 /\ Ender(k[e]) /\ k[e] # "error" /\ \A j \in 1 .. e - 1 : ~Ender(k[j])
    <3>1. e > 1 /\ Ender(g[e]) /\ g[e] # "error" /\ \A j \in 1 .. e - 1 : ~Ender(g[j])
      BY <2>3, <2>4 DEF Whole, NoEnd
    <3>2. e \in 1 .. e /\ \A j \in 1 .. e - 1 : j \in 1 .. e
      BY <2>1
    <3> QED
      BY <2>3, <3>1, <3>2
  <2>6. ~(e < m)
    <3>1. e < m => e \in 1 .. m - 1
      BY <2>1
    <3> QED
      BY <2>5, <3>1 DEF NoEnd
  <2>7. ~(m < e)
    <3>1. m < e => m \in 1 .. e - 1
      BY <2>1
    <3> QED
      BY <2>5, <3>1
  <2>8. e = m
    BY <2>1, <2>6, <2>7
  <2> QED
    BY <2>5, <2>8
<1>3. ASSUME Parses(k)
      PROVE  Statement(k) = y /\ y # <<"eof">> /\ k[m] # "error"
  <2>1. PICK e : e \in SentenceEnds(k)
    BY <1>3 DEF Parses
  <2>2. SentenceEnds(k) = {m} /\ m > 1 /\ k[m] # "error"
    BY <1>2, <2>1
  <2>3. Min(SentenceEnds(k)) = m
    <3>1. SentenceEnds(k) \in SUBSET Nat /\ SentenceEnds(k) # {}
      BY <2>2
    <3> QED
      BY <2>2, <3>1, MinIsLeast
  <2>4. y # <<"eof">>
    BY <1>1, <2>2
  <2> QED
    BY <2>2, <2>3, <2>4 DEF Statement
<1>4. ASSUME NEW e \in SentenceEnds(y)
      PROVE  e \in SentenceEnds(k)
  <2>1. e \in 1 .. m /\ (IsInsert(SubSeq(y, 1, e)) \/ IsSelect(SubSeq(y, 1, e)))
    BY <1>1 DEF SentenceEnds
  <2>2. SubSeq(y, 1, e) = SubSeq(k, 1, e)
    BY <1>0, <1>1, <2>1
  <2>3. e \in 1 .. Len(k)
    BY <1>0, <2>1
  <2> QED
    BY <2>1, <2>2, <2>3 DEF SentenceEnds
<1> QED
  BY <1>3, <1>4 DEF Parses

\* From p on, s has the tokens that t has after token l.
RestIs(s, t, l, p) ==
  LET r == LexFrom(s, p) IN
  /\ Len(t) = l + Len(r) /\ \A j \in 1 .. Len(r) : t[l + j] = r[j].kind
  /\ PlainFrom(s, p)

\* What the cutter knows at e of the piece that starts at p.
Cutting(s, p, e, open) == (open <=> Parity(s, p, e - 1) = 1) /\ NoneBefore(s, p, e)

BomLength(x) == FirstPiece(x) - 1

\* The cutter is at e of the script x, and the next piece starts at p: n of the
\* statements are before it, and it is not inside one; or all of them are.
ScanAt(x, n, p, e, open) ==
  LET s == AfterBom(x)
      b == BomLength(x)
      t == Kinds(Lex(s)) IN
  \/ \E l \in Nat : Through(t, n, l) /\ RestIs(s, t, l, p - b) /\ Cutting(s, p - b, e - b, open)
  \/ p > Len(x) /\ n = Len(StatementsOf(x))

\* The tokens w start with what t has after token l, up to the next end.
StartsWith(w, t, l, m) ==
  /\ m \in Nat \ {0} /\ l + m <= Len(t) /\ m <= Len(w)
  /\ \A j \in 1 .. m : w[j].kind = t[l + j]
  /\ \A j \in 1 .. m - 1 : ~Ender(t[l + j])
  /\ Ender(t[l + m])
  /\ ~Semi(t[l + m]) => Len(t) = l + m /\ Len(w) = m

\* The piece u is statement n + 1 of x; the next piece starts at p.
PieceAt(x, n, p, e, open, u) ==
  LET s == AfterBom(x)
      b == BomLength(x)
      t == Kinds(Lex(s)) IN
  \E l \in Nat, m \in Nat :
    /\ Through(t, n, l) /\ StartsWith(Lex(u), t, l, m)
    /\ Semi(t[l + m]) => RestIs(s, t, l + m, p - b) /\ Cutting(s, p - b, e - b, open)
    /\ IsEof(t[l + m]) => p > Len(x)

LEMMA BodyOf ==
  ASSUME NEW x \in Seq(Characters), NEW s, s = AfterBom(x), NEW b, b = BomLength(x)
  PROVE  /\ s \in Seq(Characters) /\ Len(s) \in Nat /\ Len(x) \in Nat /\ b \in {0, 1}
         /\ Len(s) + b = Len(x) /\ \A j \in 1 .. Len(s) : s[j] = x[j + b]
         /\ b = 1 => x[1] = "bom"
<1>0. Len(x) \in Nat
  OBVIOUS
<1>1. CASE x # <<>> /\ x[1] = "bom"
  <2>1. s = Tail(x)
    BY <1>1 DEF AfterBom
  <2>2. b = 1
    BY <1>1 DEF FirstPiece, BomLength
  <2>3. /\ s \in Seq(Characters) /\ Len(s) = Len(x) - 1 /\ Len(s) \in Nat
        /\ \A j \in 1 .. Len(s) : s[j] = x[j + 1]
    <3>1. x # <<>>
      BY <1>1
    <3>2. Tail(x) \in Seq(Characters) /\ Len(Tail(x)) = Len(x) - 1
      BY <3>1
    <3>3. \A j \in 1 .. Len(x) - 1 : Tail(x)[j] = x[j + 1]
      BY <3>1
    <3> QED
      BY <2>1, <3>2, <3>3
  <2>4. Len(s) + 1 = Len(x)
    BY <1>0, <2>3
  <2> QED
    BY <1>0, <1>1, <2>2, <2>3, <2>4
<1>2. CASE ~(x # <<>> /\ x[1] = "bom")
  <2>1. s = x
    BY <1>2 DEF AfterBom
  <2>2. b = 0
    BY <1>2 DEF FirstPiece, BomLength
  <2>3. Len(s) + b = Len(x) /\ \A j \in 1 .. Len(s) : j + b = j
    BY <1>0, <2>1, <2>2
  <2>4. \A j \in 1 .. Len(s) : s[j] = x[j + b]
    BY <2>1, <2>3
  <2>5. b \in {0, 1} /\ b # 1
    BY <2>2
  <2> QED
    BY <1>0, <2>1, <2>3, <2>4, <2>5
<1> QED
  BY <1>1, <1>2

\* At its start the cutter is not in a string.
LEMMA CuttingStarts ==
  ASSUME NEW s, NEW p \in Nat, NEW e \in Int, e <= p
  PROVE  \A open \in BOOLEAN : Cutting(s, p, e, open) <=> ~open
<1>1. p .. e - 1 = {} /\ e - 1 \in Int
  OBVIOUS
<1>2. Parity(s, p, e - 1) = 0
  BY <1>1, NoQuotes, ZeroIsEven DEF Parity
<1>3. NoneBefore(s, p, e)
  BY <1>1 DEF NoneBefore
<1> QED
  BY <1>2, <1>3 DEF Cutting

\* Before the first piece.
LEMMA ScanOpens ==
  ASSUME NEW x \in Seq(Characters), IsPlain(x)
  PROVE  ScanAt(x, 0, FirstPiece(x), 1, FALSE)
<1>1. PICK s, b : s = AfterBom(x) /\ b = BomLength(x)
  OBVIOUS
<1>2. s \in Seq(Characters) /\ Len(s) \in Nat /\ b \in {0, 1}
  BY <1>1, BodyOf
<1>3. PICK t : t = Kinds(Lex(s))
  OBVIOUS
<1>4. PICK r : r = Lex(s) /\ r = LexFrom(s, 1)
  BY LexIsLexFrom
<1>5. /\ t \in Seq(TokenKinds) /\ Len(t) = Len(r) /\ Len(t) \in Nat
      /\ \A j \in 1 .. Len(r) : t[j] = r[j].kind
  <2>1. /\ Kinds(Lex(s)) \in Seq(TokenKinds) /\ Len(Kinds(Lex(s))) = Len(Lex(s))
        /\ \A j \in 1 .. Len(Lex(s)) : Kinds(Lex(s))[j] = Lex(s)[j].kind
    BY <1>2, KindsOfLex
  <2>2. t \in Seq(TokenKinds)
    BY <1>3, <2>1
  <2>3. Len(t) \in Nat
    BY <2>2
  <2> QED
    BY <1>3, <1>4, <2>1, <2>2, <2>3
<1>6. Through(t, 0, 0)
  <2>1. UpTo(Ends(t), 0) = {}
    <3>1. \A y \in Ends(t) : y \in Nat \ {0}
      BY <1>5, EndsAre
    <3>2. \A y \in Ends(t) : ~(y <= 0)
      BY <3>1
    <3> QED
      BY <3>2 DEF UpTo
  <2> QED
    BY <2>1, FS_EmptySet DEF Through
<1>7. PlainFrom(s, 1)
  <2>1. DOMAIN s = 1 .. Len(s)
    BY <1>2
  <2>2. DOMAIN r = 1 .. Len(r)
    <3>1. 1 \in 1 .. Len(s) + 1
      BY <1>2
    <3>2. IsLexed(s, r)
      BY <1>2, <1>4, <3>1, LexFromIsLexed
    <3> QED
      BY <3>2 DEF IsLexed
  <2>3. ASSUME NEW q \in 1 .. Len(s), s[q] \in {"'", ";"}
        PROVE  \E j \in 1 .. Len(r) : q \in r[j].at .. r[j].to
    <3>0. \A z \in 1 .. Len(s) : s[z] \in {"'", ";"} => \E y \in ToSet(r) : z \in y.at .. y.to
      BY <1>1, <1>4, <2>1 DEF IsPlain
    <3>1. PICK y \in ToSet(r) : q \in y.at .. y.to
      BY <2>3, <3>0
    <3>2. PICK j \in 1 .. Len(r) : y = r[j]
      BY <2>2, <3>1 DEF ToSet
    <3> QED
      BY <3>1, <3>2
  <2>4. ASSUME NEW q \in 1 .. Len(s), s[q] = "ff"
        PROVE  \E j \in 1 .. Len(r) : r[j].kind = "string" /\ q \in r[j].at .. r[j].to
    <3>0. \A z \in 1 .. Len(s) : s[z] = "ff" =>
            \E y \in ToSet(r) : y.kind = "string" /\ z \in y.at .. y.to
      BY <1>1, <1>4, <2>1 DEF IsPlain
    <3>1. PICK y \in ToSet(r) : y.kind = "string" /\ q \in y.at .. y.to
      BY <2>4, <3>0
    <3>2. PICK j \in 1 .. Len(r) : y = r[j]
      BY <2>2, <3>1 DEF ToSet
    <3> QED
      BY <3>1, <3>2
  <2>5. MarksInTokens(s, 1, r)
    BY <2>3 DEF MarksInTokens, Mark, Quote, Semi
  <2>6. FeedsInStrings(s, 1, r)
    BY <2>4 DEF FeedsInStrings, Feed
  <2> QED
    BY <1>4, <2>5, <2>6 DEF PlainFrom
<1>8. RestIs(s, t, 0, 1)
  <2>1. Len(t) = 0 + Len(r)
    BY <1>5
  <2>2. ASSUME NEW j \in 1 .. Len(r)
        PROVE  t[0 + j] = r[j].kind
    <3>1. 0 + j = j
      OBVIOUS
    <3> QED
      BY <1>5, <3>1
  <2> QED
    BY <1>4, <1>7, <2>1, <2>2 DEF RestIs
<1>9. Cutting(s, 1, 1 - b, FALSE)
  <2>1. 1 \in Nat /\ 1 - b \in Int /\ 1 - b <= 1
    BY <1>2
  <2> QED
    BY <2>1, CuttingStarts
<1>10. FirstPiece(x) - b = 1
  BY <1>1, <1>2 DEF FirstPiece, BomLength
<1>11. 0 \in Nat
  OBVIOUS
<1> QED
  BY <1>1, <1>3, <1>6, <1>8, <1>9, <1>10, <1>11 DEF ScanAt

\* One character more.
LEMMA CuttingOn ==
  ASSUME NEW s, NEW p \in Nat, NEW e \in Nat, p <= e, NEW open \in BOOLEAN, Cutting(s, p, e, open)
  PROVE  /\ Quote(s[e]) => Cutting(s, p, e + 1, ~open)
         /\ ~Quote(s[e]) /\ (open \/ ~Semi(s[e])) => Cutting(s, p, e + 1, open)
<1>1. PICK g \in Nat, h \in Nat : g = Cardinality(Quotes(s, p, e - 1)) /\ h = Cardinality(Quotes(s, e, e))
  <2>1. e - 1 \in Int /\ e \in Int
    OBVIOUS
  <2> QED
    BY <2>1, QuotesFinite
<1>2. Cardinality(Quotes(s, p, e)) = g + h
  <2>1. e <= e + 1
    OBVIOUS
  <2> QED
    BY <1>1, <2>1, QuotesJoin
<1>3. h = IF Quote(s[e]) THEN 1 ELSE 0
  BY <1>1, OneQuote DEF Quote
<1>4. /\ Quote(s[e]) => (Parity(s, p, e) = 1 <=> Parity(s, p, e - 1) # 1)
      /\ ~Quote(s[e]) => (Parity(s, p, e) = 1 <=> Parity(s, p, e - 1) = 1)
  <2>1. (g + 1) % 2 = 1 <=> g % 2 # 1
    OBVIOUS
  <2>2. g + 0 = g
    OBVIOUS
  <2> QED
    BY <1>1, <1>2, <1>3, <2>1, <2>2 DEF Parity
<1>5. (e + 1) - 1 = e
  OBVIOUS
<1>6. open <=> Parity(s, p, e - 1) = 1
  BY DEF Cutting
<1>7. ASSUME Quote(s[e]) \/ open \/ ~Semi(s[e])
      PROVE  NoneBefore(s, p, e + 1)
  <2>1. Quote(s[e]) => ~Semi(s[e])
    BY DEF Quote, Semi
  <2>2. Semi(s[e]) => Parity(s, p, e - 1) = 1
    BY <1>6, <1>7, <2>1
  <2>3. ASSUME NEW y \in p .. (e + 1) - 1, Semi(s[y])
        PROVE  Parity(s, p, y - 1) = 1
    <3>1. y = e \/ y \in p .. e - 1
      OBVIOUS
    <3> QED
      BY <2>2, <2>3, <3>1 DEF Cutting, NoneBefore
  <2> QED
    BY <2>3 DEF NoneBefore
<1> QED
  BY <1>4, <1>5, <1>6, <1>7 DEF Cutting

LEMMA ScanOn ==
  ASSUME NEW x \in Seq(Characters), NEW n, NEW p \in Nat, p >= FirstPiece(x), p <= Len(x) + 1,
         NEW e \in 1 .. Len(x), p <= e \/ (p = 2 /\ e = 1 /\ x[1] = "bom"),
         NEW open \in BOOLEAN, ScanAt(x, n, p, e, open)
  PROVE  /\ Quote(x[e]) => ScanAt(x, n, p, e + 1, ~open)
         /\ ~Quote(x[e]) /\ (open \/ ~Semi(x[e])) => ScanAt(x, n, p, e + 1, open)
<1>1. PICK s, b : s = AfterBom(x) /\ b = BomLength(x)
  OBVIOUS
<1>2. /\ s \in Seq(Characters) /\ Len(s) \in Nat /\ Len(x) \in Nat /\ b \in {0, 1}
      /\ Len(s) + b = Len(x) /\ \A j \in 1 .. Len(s) : s[j] = x[j + b]
  BY <1>1, BodyOf
<1>3. FirstPiece(x) = b + 1
  BY <1>1, <1>2 DEF FirstPiece, BomLength
<1>4. PICK q \in Nat \ {0} : q = p - b
  BY <1>2, <1>3
<1>5. PICK y \in Int : y = e - b /\ (e + 1) - b = y + 1
  BY <1>2
<1>6. CASE p > Len(x) /\ n = Len(StatementsOf(x))
  BY <1>6 DEF ScanAt
<1>7. ASSUME NEW l \in Nat, Through(Kinds(Lex(s)), n, l), RestIs(s, Kinds(Lex(s)), l, q), Cutting(s, q, y, open)
      PROVE  /\ Quote(x[e]) => ScanAt(x, n, p, e + 1, ~open)
             /\ ~Quote(x[e]) /\ (open \/ ~Semi(x[e])) => ScanAt(x, n, p, e + 1, open)
  <2>1. \A o : Cutting(s, q, y + 1, o) => ScanAt(x, n, p, e + 1, o)
    BY <1>1, <1>4, <1>5, <1>7 DEF ScanAt
  <2>2. CASE p <= e
    <3>1. y \in 1 .. Len(s) /\ y + b = e /\ q <= y
      BY <1>2, <1>3, <1>4, <1>5, <2>2
    <3>2. s[y] = x[e]
      BY <1>2, <3>1
    <3>3. /\ Quote(s[y]) => Cutting(s, q, y + 1, ~open)
          /\ ~Quote(s[y]) /\ (open \/ ~Semi(s[y])) => Cutting(s, q, y + 1, open)
      <4>1. y \in Nat /\ q \in Nat
        BY <1>2, <3>1
      <4> QED
        BY <1>7, <3>1, <4>1, CuttingOn
    <3> QED
      BY <2>1, <3>2, <3>3
  <2>3. CASE p = 2 /\ e = 1 /\ x[1] = "bom"
    <3>1. ~Quote(x[e])
      BY <2>3 DEF Quote
    <3>2. b = 1
      <4>1. x # <<>>
        BY <1>2
      <4> QED
        BY <1>1, <2>3, <4>1 DEF FirstPiece, BomLength
    <3>3. y <= q /\ y + 1 <= q /\ q \in Nat /\ y + 1 \in Int
      BY <1>4, <1>5, <2>3, <3>2
    <3>4. Cutting(s, q, y + 1, open)
      BY <1>7, <3>3, CuttingStarts
    <3> QED
      BY <2>1, <3>1, <3>4
  <2> QED
    BY <2>2, <2>3
<1> QED
  BY <1>1, <1>4, <1>5, <1>6, <1>7 DEF ScanAt

\* p is b places behind q.
Behind(p, q, b) == p = q + b

\* The same characters, at other places.
LEMMA SameStretch ==
  ASSUME NEW S, NEW x \in Seq(S), NEW p \in Nat \ {0}, NEW to \in Nat, p <= to, to <= Len(x),
         NEW s \in Seq(S), NEW q \in Nat \ {0}, NEW z \in Nat, q <= z, z <= Len(s),
         NEW b \in Nat, Behind(p, q, b), Behind(to, z, b),
         \A j \in 1 .. Len(s) : s[j] = x[j + b]
  PROVE  SubSeq(x, p, to) = SubSeq(s, q, z)
<1>1. /\ SubSeq(x, p, to) \in Seq(S)
      /\ Len(SubSeq(x, p, to)) = IF p <= to THEN (to - p) + 1 ELSE 0
      /\ \A j \in 1 .. (to - p) + 1 : SubSeq(x, p, to)[j] = x[(p + j) - 1]
  BY CutOf
<1>2. /\ SubSeq(s, q, z) \in Seq(S)
      /\ Len(SubSeq(s, q, z)) = IF q <= z THEN (z - q) + 1 ELSE 0
      /\ \A j \in 1 .. (z - q) + 1 : SubSeq(s, q, z)[j] = s[(q + j) - 1]
  BY CutOf
<1>3. PICK c \in Nat : c = (z - q) + 1 /\ c = (to - p) + 1
  BY DEF Behind
<1>4. PICK v, w : v = SubSeq(x, p, to) /\ w = SubSeq(s, q, z)
  OBVIOUS
<1>5. v \in Seq(S) /\ Len(v) = c /\ \A j \in 1 .. c : v[j] = x[(p + j) - 1]
  BY <1>1, <1>3, <1>4
<1>6. w \in Seq(S) /\ Len(w) = c /\ \A j \in 1 .. c : w[j] = s[(q + j) - 1]
  BY <1>2, <1>3, <1>4
<1>7. ASSUME NEW j \in 1 .. c
      PROVE  v[j] = w[j]
  <2>1. PICK y \in Nat : y = (q + j) - 1
    OBVIOUS
  <2>2. y \in 1 .. Len(s) /\ y + b = (p + j) - 1
    BY <1>3, <2>1 DEF Behind
  <2>3. v[j] = x[y + b] /\ w[j] = s[y]
    BY <1>5, <1>6, <2>1, <2>2
  <2> QED
    BY <2>2, <2>3
<1>8. v = w
  <2>1. IsSequence(v) /\ IsSequence(w)
    BY <1>5, <1>6, SequenceOf
  <2>2. Len(v) = Len(w) /\ \A j \in 1 .. Len(v) : v[j] = w[j]
    BY <1>5, <1>6, <1>7
  <2> QED
    BY <2>1, <2>2, EqualSeqs
<1> QED
  BY <1>4, <1>8

\* The cutter, at e, cuts at `to': at a `;', or at the end.
CutHere(x, e, to, open) ==
  \/ e = to /\ Semi(x[to]) /\ ~open
  \/ e = Len(x) + 1 /\ to = Len(x)

\* The piece that is cut is the next statement.
LEMMA ScanCuts ==
  ASSUME NEW x \in Seq(Characters), NEW n, NEW p \in Nat, p >= FirstPiece(x),
         NEW e, NEW open \in BOOLEAN, ScanAt(x, n, p, e, open),
         NEW to \in p .. Len(x), CutHere(x, e, to, open),
         NEW u, u = Trim(SubSeq(x, p, to))
  PROVE  PieceAt(x, n, to + 1, to + 1, open, u)
<1>1. PICK s, b, t : s = AfterBom(x) /\ b = BomLength(x) /\ t = Kinds(Lex(s))
  OBVIOUS
<1>2. /\ s \in Seq(Characters) /\ Len(s) \in Nat /\ Len(x) \in Nat /\ b \in {0, 1}
      /\ Len(s) + b = Len(x) /\ \A j \in 1 .. Len(s) : s[j] = x[j + b]
  BY <1>1, BodyOf
<1>3. FirstPiece(x) = b + 1
  BY <1>1, <1>2 DEF FirstPiece, BomLength
<1>4. PICK q \in Nat \ {0} : q = p - b /\ p = q + b
  BY <1>2, <1>3
<1>5. PICK z \in q .. Len(s) : z = to - b /\ to = z + b
  BY <1>2, <1>4
<1>6. q \in 1 .. Len(s) /\ z \in 1 .. Len(s)
  BY <1>2, <1>5
<1>7. ~(p > Len(x))
  BY <1>2
<1>8. PICK l \in Nat : Through(t, n, l) /\ RestIs(s, t, l, q) /\ Cutting(s, q, e - b, open)
  BY <1>1, <1>4, <1>7 DEF ScanAt
<1>9. PICK r : r = LexFrom(s, q)
  OBVIOUS
<1>10. Len(t) = l + Len(r) /\ (\A j \in 1 .. Len(r) : t[l + j] = r[j].kind) /\ PlainFrom(s, q)
  BY <1>8, <1>9 DEF RestIs
<1>11. u = Trim(SubSeq(s, q, z))
  <2>1. /\ p \in Nat \ {0} /\ to \in Nat /\ p <= to /\ to <= Len(x)
        /\ z \in Nat /\ q <= z /\ z <= Len(s) /\ b \in Nat
    BY <1>2, <1>3, <1>6
  <2>2. Behind(p, q, b) /\ Behind(to, z, b)
    BY <1>4, <1>5 DEF Behind
  <2>3. s \in Seq(Characters) /\ \A j \in 1 .. Len(s) : s[j] = x[j + b]
    BY <1>2
  <2>4. SubSeq(x, p, to) = SubSeq(s, q, z)
    BY <2>1, <2>2, <2>3, SameStretch
  <2> QED
    BY <2>4
\* It is cut at a `;', or at the end.
<1>12. /\ NoneBefore(s, q, z)
       /\ \/ CutAt(s, q, z) /\ ~open
          \/ ~CutAt(s, q, z) /\ z = Len(s) /\ NoneBefore(s, q, z + 1)
  <2>1. CASE e = to /\ Semi(x[to]) /\ ~open
    <3>1. Cutting(s, q, z, open)
      BY <1>5, <1>8, <2>1
    <3>2. Semi(s[z])
      BY <1>2, <1>5, <1>6, <2>1
    <3>3. Parity(s, q, z - 1) = 0
      <4>1. Parity(s, q, z - 1) # 1
        BY <2>1, <3>1 DEF Cutting
      <4>2. q \in Nat /\ z - 1 \in Int
        BY <1>6
      <4>3. Cardinality(Quotes(s, q, z - 1)) \in Nat
        BY <4>2, QuotesFinite
      <4> QED
        BY <4>1, <4>3 DEF Parity
    <3>4. q <= z
      BY <1>6
    <3> QED
      BY <2>1, <3>1, <3>2, <3>3, <3>4 DEF Cutting, CutAt
  <2>2. CASE e = Len(x) + 1 /\ to = Len(x)
    <3>1. z = Len(s) /\ e - b = z + 1 /\ z \in q .. (z + 1) - 1
      <4>1. PICK g \in Nat : g = Len(s)
        BY <1>2
      <4>2. z + b = g + b
        BY <1>2, <1>5, <2>2, <4>1
      <4>3. e = (g + b) + 1
        BY <1>2, <2>2, <4>1
      <4>4. z \in Nat /\ q <= z /\ b \in Nat
        BY <1>2, <1>6
      <4>5. z = g
        BY <4>2, <4>4
      <4>6. e - b = z + 1 /\ z \in q .. (z + 1) - 1
        BY <4>3, <4>4, <4>5
      <4> QED
        BY <4>1, <4>5, <4>6
    <3>2. NoneBefore(s, q, z + 1)
      BY <1>8, <3>1 DEF Cutting
    <3>3. NoneBefore(s, q, z)
      <4>1. \A y \in q .. z - 1 : y \in q .. (z + 1) - 1
        BY <1>6
      <4> QED
        BY <3>2, <4>1 DEF NoneBefore
    <3>4. ~CutAt(s, q, z)
      <4>1. Semi(s[z]) => Parity(s, q, z - 1) = 1
        BY <3>1, <3>2 DEF NoneBefore
      <4> QED
        BY <4>1 DEF CutAt
    <3> QED
      BY <3>1, <3>2, <3>3, <3>4
  <2> QED
    BY <2>1, <2>2 DEF CutHere
<1>13. PICK w : w = Lex(u)
  OBVIOUS
<1>14. PICK m, y : /\ Matched(s, r, w, m, y)
                   /\ CutAt(s, q, z) => y = z /\ ~IsEof(r[m].kind)
                   /\ ~CutAt(s, q, z) => ~Semi(r[m].kind)
  <2>1. PlainFrom(s, q)
    BY <1>10
  <2>2. NoneBefore(s, q, z) /\ (CutAt(s, q, z) \/ (z = Len(s) /\ NoneBefore(s, q, z + 1)))
    BY <1>12
  <2>3. FirstTokens(s, q, z, r, w)
    BY <1>2, <1>6, <1>9, <1>11, <1>13, <2>1, <2>2, PieceCut
  <2> QED
    BY <2>3 DEF FirstTokens
<1>15. /\ m \in Nat \ {0} /\ m <= Len(r) /\ m <= Len(w)
       /\ \A j \in 1 .. m : w[j].kind = r[j].kind
       /\ \A j \in 1 .. m - 1 : ~Ender(r[j].kind)
       /\ Ender(r[m].kind)
       /\ ~Semi(r[m].kind) => Len(r) = m /\ Len(w) = m
       /\ Semi(r[m].kind) => AfterFirst(r, m, LexFrom(s, y + 1)) /\ PlainFrom(s, y + 1)
  BY <1>14 DEF Matched
<1>16. Len(r) \in Nat /\ \A j \in 1 .. m : j \in 1 .. Len(r)
  <2>1. q \in 1 .. Len(s) + 1
    BY <1>2, <1>6
  <2>2. IsLexed(s, r)
    BY <1>2, <1>9, <2>1, LexFromIsLexed
  <2>3. Len(r) \in Nat
    BY <2>2 DEF IsLexed
  <2> QED
    BY <1>15, <2>3
<1>17. t[l + m] = r[m].kind /\ m \in 1 .. m
  BY <1>10, <1>15, <1>16
<1>18. StartsWith(w, t, l, m)
  <2>1. l + m <= Len(t)
    BY <1>10, <1>15, <1>16
  <2>2. \A j \in 1 .. m : w[j].kind = t[l + j]
    BY <1>10, <1>15, <1>16
  <2>3. \A j \in 1 .. m - 1 : ~Ender(t[l + j])
    <3>1. \A j \in 1 .. m - 1 : j \in 1 .. m
      BY <1>15
    <3> QED
      BY <1>10, <1>15, <1>16, <3>1
  <2>4. ~Semi(t[l + m]) => Len(t) = l + m /\ Len(w) = m
    BY <1>10, <1>15, <1>17
  <2> QED
    BY <1>15, <1>17, <2>1, <2>2, <2>3, <2>4 DEF StartsWith
<1>19. ASSUME Semi(t[l + m])
       PROVE  RestIs(s, t, l + m, (to + 1) - b) /\ Cutting(s, (to + 1) - b, (to + 1) - b, open)
  <2>1. CutAt(s, q, z) /\ y = z /\ ~open
    BY <1>12, <1>14, <1>17, <1>19
  <2>2. PICK g \in Nat : g = z + 1 /\ (to + 1) - b = g
    BY <1>2, <1>5, <1>6
  <2>3. PICK rest : rest = LexFrom(s, g)
    OBVIOUS
  <2>4. /\ Len(rest) \in Nat /\ Len(r) = m + Len(rest) /\ \A j \in 1 .. Len(rest) : r[m + j] = rest[j]
        /\ PlainFrom(s, g)
    BY <1>15, <1>17, <1>19, <2>1, <2>2, <2>3 DEF AfterFirst
  <2>5. Len(t) = (l + m) + Len(rest)
    BY <1>10, <1>15, <2>4
  <2>6. ASSUME NEW j \in 1 .. Len(rest)
        PROVE  t[(l + m) + j] = rest[j].kind
    <3>1. PICK k \in 1 .. Len(r) : k = m + j /\ l + k = (l + m) + j
      <4>1. m + j \in 1 .. Len(r) /\ l + (m + j) = (l + m) + j
        BY <1>15, <1>16, <2>4
      <4> QED
        BY <4>1
    <3> QED
      BY <1>10, <2>4, <3>1
  <2>7. RestIs(s, t, l + m, g)
    BY <2>3, <2>4, <2>5, <2>6 DEF RestIs
  <2>8. Cutting(s, g, g, open)
    <3>1. g <= g /\ g \in Int
      BY <2>2
    <3> QED
      BY <2>1, <3>1, CuttingStarts
  <2> QED
    BY <2>2, <2>7, <2>8
<1>20. ASSUME IsEof(t[l + m])
       PROVE  to + 1 > Len(x)
  <2>1. ~CutAt(s, q, z)
    BY <1>14, <1>17, <1>20
  <2>2. z = Len(s)
    BY <1>12, <2>1
  <2> QED
    BY <1>2, <1>5, <2>2
<1>21. m \in Nat
  BY <1>15
<1> QED
  BY <1>1, <1>8, <1>13, <1>18, <1>19, <1>20, <1>21 DEF PieceAt

\* There is nothing but the end of the text at its end.
LEMMA NothingAtEnd ==
  ASSUME NEW s \in Seq(Characters), NEW r, r = LexFrom(s, Len(s) + 1)
  PROVE  Len(r) = 1 /\ r[1].kind = "eof"
<1>1. Len(s) \in Nat
  OBVIOUS
<1>2. PICK b \in Nat : b = Len(s) + 1 /\ b > Len(s) /\ b \in 1 .. Len(s) + 1
  BY <1>1
<1>3. Starts(s, b)
  BY <1>1, <1>2 DEF Starts, CommentAt
<1>4. r = <<Token("eof", b, b, 0)>>
  BY <1>2, <1>3, LexFromHere
<1>5. Token("eof", b, b, 0).kind = "eof"
  BY TokenFields
<1> QED
  BY <1>4, <1>5

\* When the next piece starts at the end, there is no other statement.
LEMMA ScanFinishes ==
  ASSUME NEW x \in Seq(Characters), NEW n, NEW p, p = Len(x) + 1,
         NEW e, NEW open, ScanAt(x, n, p, e, open)
  PROVE  n = Len(StatementsOf(x))
<1>1. PICK s, b, t : s = AfterBom(x) /\ b = BomLength(x) /\ t = Kinds(Lex(s))
  OBVIOUS
<1>2. s \in Seq(Characters) /\ Len(s) \in Nat /\ Len(x) \in Nat /\ b \in {0, 1} /\ Len(s) + b = Len(x)
  BY <1>1, BodyOf
<1>3. p - b = Len(s) + 1
  BY <1>2
<1>4. CASE n = Len(StatementsOf(x))
  BY <1>4
<1>5. ASSUME NEW l \in Nat, Through(t, n, l), RestIs(s, t, l, Len(s) + 1)
      PROVE  n = Len(StatementsOf(x))
  <2>1. PICK r : r = LexFrom(s, Len(s) + 1)
    OBVIOUS
  <2>2. Len(r) = 1 /\ r[1].kind = "eof"
    BY <1>2, <2>1, NothingAtEnd
  <2>3. Len(t) = l + Len(r) /\ \A j \in 1 .. Len(r) : t[l + j] = r[j].kind
    BY <1>5, <2>1 DEF RestIs
  <2>4. PICK m \in Nat \ {0} : m = 1
    OBVIOUS
  <2>5. Len(t) = l + m /\ t[l + m] = "eof"
    BY <2>2, <2>3, <2>4
  <2>6. t \in Seq(TokenKinds)
    BY <1>1, <1>2, KindsOfLex
  <2>7. PICK y : y = SubSeq(t, l + 1, l + m)
    OBVIOUS
  <2>8. y = <<"eof">>
    <3>1. m \in Nat /\ l + m <= Len(t)
      BY <2>5
    <3>2. y \in Seq(TokenKinds) /\ Len(y) = m /\ \A j \in 1 .. m : y[j] = t[l + j]
      BY <2>6, <2>7, <3>1, StretchOf
    <3>3. Len(y) = 1 /\ y[1] = "eof"
      BY <2>4, <2>5, <3>2
    <3> QED
      BY <3>2, <3>3
  <2>9. Ender(t[l + m]) /\ l + m <= Len(t)
    BY <2>5 DEF Ender
  <2>10. \A j \in 1 .. m - 1 : ~Ender(t[l + j])
    BY <2>4
  <2>11. PICK all : all = StatementsOf(x)
    OBVIOUS
  <2>12. Len(all) = n
    <3>1. t = Kinds(Lex(AfterBom(x)))
      BY <1>1
    <3>2. Through(t, n, l)
      BY <1>5
    <3>3. NextEnd(t, n, l, m)
      BY <2>9, <2>10, <3>2 DEF NextEnd
    <3>4. Continues(x, t, n, l, m, y)
      BY <2>7, <3>1, <3>3, NextMeant
    <3> QED
      BY <2>8, <2>11, <3>4 DEF Continues
  <2> QED
    BY <2>11, <2>12
<1> QED
  BY <1>1, <1>3, <1>4, <1>5 DEF ScanAt

\* The tokens k of the piece: the first m are the next statement, or they are
\* the end of the text alone, after the last.
PieceMeant(x, n, p, e, open, k, m) ==
  LET r == StatementsOf(x)
      y == SubSeq(k, 1, m) IN
  /\ m <= Len(k) /\ Ender(k[m]) /\ NoEnd(k, 1, m - 1)
  /\ y = <<"eof">> => Len(r) = n /\ p > Len(x) /\ k = y
  /\ y # <<"eof">> => n < Len(r) /\ r[n + 1] = y
  /\ y # <<"eof">> /\ k[m] # "error" => ScanAt(x, n + 1, p, e, open)

LEMMA PieceOpened ==
  ASSUME NEW x \in Seq(Characters), NEW u \in Seq(Characters), NEW n, NEW p, NEW e, NEW open,
         PieceAt(x, n, p, e, open, u), NEW k, k = Kinds(Lex(u))
  PROVE  \E m \in Nat \ {0} : PieceMeant(x, n, p, e, open, k, m)
<1>1. PICK s, b, t : s = AfterBom(x) /\ b = BomLength(x) /\ t = Kinds(Lex(s))
  OBVIOUS
<1>2. s \in Seq(Characters)
  BY <1>1, BodyOf
<1>3. PICK w : w = Lex(u)
  OBVIOUS
<1>4. PICK l \in Nat, m \in Nat :
        /\ Through(t, n, l) /\ StartsWith(w, t, l, m)
        /\ Semi(t[l + m]) => RestIs(s, t, l + m, p - b) /\ Cutting(s, p - b, e - b, open)
        /\ IsEof(t[l + m]) => p > Len(x)
  BY <1>1, <1>3 DEF PieceAt
<1>5. t \in Seq(TokenKinds) /\ Len(t) \in Nat
  <2>1. t \in Seq(TokenKinds)
    BY <1>1, <1>2, KindsOfLex
  <2> QED
    BY <2>1
<1>6. k \in Seq(TokenKinds) /\ Len(k) \in Nat /\ Len(k) = Len(w) /\ \A j \in 1 .. Len(k) : k[j] = w[j].kind
  <2>1. k \in Seq(TokenKinds) /\ Len(k) = Len(w) /\ \A j \in 1 .. Len(w) : k[j] = w[j].kind
    BY <1>3, KindsOfLex
  <2> QED
    BY <2>1
<1>7. /\ m \in Nat \ {0} /\ l + m <= Len(t) /\ m <= Len(k)
      /\ \A j \in 1 .. m : w[j].kind = t[l + j]
      /\ \A j \in 1 .. m - 1 : ~Ender(t[l + j])
      /\ Ender(t[l + m])
      /\ ~Semi(t[l + m]) => Len(t) = l + m /\ Len(k) = m
  BY <1>4, <1>6 DEF StartsWith
<1>8. \A j \in 1 .. m : k[j] = t[l + j]
  <2>1. \A j \in 1 .. m : j \in 1 .. Len(k)
    BY <1>6, <1>7
  <2> QED
    BY <1>6, <1>7, <2>1
<1>9. Ender(k[m]) /\ NoEnd(k, 1, m - 1) /\ k[m] = t[l + m]
  <2>1. m \in 1 .. m /\ \A j \in 1 .. m - 1 : j \in 1 .. m
    BY <1>7
  <2> QED
    BY <1>7, <1>8, <2>1 DEF NoEnd
<1>10. PICK y : y = SubSeq(k, 1, m)
  OBVIOUS
<1>11. y \in Seq(TokenKinds) /\ Len(y) = m /\ \A j \in 1 .. m : y[j] = k[j]
  <2>1. /\ SubSeq(k, 1, m) \in Seq(TokenKinds)
        /\ Len(SubSeq(k, 1, m)) = IF 1 <= m THEN (m - 1) + 1 ELSE 0
        /\ \A j \in 1 .. (m - 1) + 1 : SubSeq(k, 1, m)[j] = k[(1 + j) - 1]
    <3>1. 1 \in Nat \ {0} /\ m \in Nat
      OBVIOUS
    <3> QED
      BY <1>6, <1>7, <3>1, CutOf
  <2>2. (m - 1) + 1 = m /\ 1 <= m /\ \A j \in 1 .. m : (1 + j) - 1 = j
    BY <1>7
  <2> QED
    BY <1>10, <2>1, <2>2
<1>12. y = SubSeq(t, l + 1, l + m)
  <2>1. PICK v : v = SubSeq(t, l + 1, l + m)
    OBVIOUS
  <2>2. v \in Seq(TokenKinds) /\ Len(v) = m /\ \A j \in 1 .. m : v[j] = t[l + j]
    <3>1. l + m <= Len(t) /\ t \in Seq(TokenKinds)
      BY <1>5, <1>7
    <3> QED
      BY <2>1, <3>1, StretchOf
  <2>3. \A j \in 1 .. m : y[j] = v[j]
    BY <1>8, <1>11, <2>2
  <2> QED
    <3>1. IsSequence(y) /\ IsSequence(v)
      BY <1>11, <2>2, SequenceOf
    <3>2. Len(y) = Len(v) /\ \A j \in 1 .. Len(y) : y[j] = v[j]
      BY <1>11, <2>2, <2>3
    <3>3. y = v
      BY <3>1, <3>2, EqualSeqs
    <3> QED
      BY <2>1, <3>3
<1>13. /\ y = <<"eof">> => Len(StatementsOf(x)) = n
       /\ y # <<"eof">> => n < Len(StatementsOf(x)) /\ StatementsOf(x)[n + 1] = y
       /\ y # <<"eof">> /\ l + m = Len(t) => Len(StatementsOf(x)) = n + 1
  <2>1. PICK all : all = StatementsOf(x)
    OBVIOUS
  <2>2. t = Kinds(Lex(AfterBom(x))) /\ Through(t, n, l)
    BY <1>1, <1>4
  <2>3. /\ y = <<"eof">> => Len(all) = n
        /\ y # <<"eof">> => n < Len(all) /\ all[n + 1] = y
        /\ y # <<"eof">> /\ l + m = Len(t) => Len(all) = n + 1
    <3>1. NextEnd(t, n, l, m)
      BY <1>7, <2>2 DEF NextEnd
    <3>2. m \in Nat \ {0}
      BY <1>7
    <3>3. Continues(x, t, n, l, m, y)
      BY <1>12, <2>2, <3>1, <3>2, NextMeant
    <3> QED
      BY <2>1, <3>3 DEF Continues
  <2> QED
    BY <2>1, <2>3
<1>14. ASSUME y = <<"eof">>
       PROVE  p > Len(x) /\ k = y
  <2>1. k[m] = "eof"
    <3>1. Len(<<"eof">>) = 1 /\ <<"eof">>[1] = "eof"
      OBVIOUS
    <3>2. m = 1
      BY <1>11, <1>14, <3>1
    <3>3. y[1] = k[1]
      BY <1>11, <3>2
    <3> QED
      BY <1>14, <3>1, <3>2, <3>3
  <2>2. IsEof(t[l + m]) /\ ~Semi(t[l + m])
    BY <1>9, <2>1 DEF IsEof, Semi
  <2>3. Len(k) = m
    BY <1>7, <2>2
  <2>4. \A j \in 1 .. m : y[j] = k[j]
    BY <1>11
  <2> QED
    BY <1>4, <1>6, <1>11, <2>2, <2>3, <2>4
<1>15. ASSUME y # <<"eof">>, k[m] # "error"
       PROVE  ScanAt(x, n + 1, p, e, open)
  <2>1. CASE Semi(t[l + m])
    <3>1. Through(t, n + 1, l + m)
      BY <1>4, <1>5, <1>7, ThroughNext
    <3>2. l + m \in Nat
      BY <1>7
    <3> QED
      BY <1>1, <1>4, <2>1, <3>1, <3>2 DEF ScanAt
  <2>2. CASE ~Semi(t[l + m])
    <3>1. IsEof(t[l + m])
      BY <1>9, <1>15, <2>2 DEF Ender, Semi, IsEof
    <3>2. Len(StatementsOf(x)) = n + 1
      BY <1>7, <1>13, <1>15, <2>2
    <3> QED
      BY <1>4, <3>1, <3>2 DEF ScanAt
  <2> QED
    BY <2>1, <2>2
<1> QED
  BY <1>7, <1>9, <1>10, <1>13, <1>14, <1>15 DEF PieceMeant

\* A piece that the parsers take is the next statement.
LEMMA PieceDone ==
  ASSUME NEW x \in Seq(Characters), NEW u \in Seq(Characters), NEW n, NEW p, NEW e, NEW open,
         PieceAt(x, n, p, e, open, u), Parses(Kinds(Lex(u)))
  PROVE  /\ n < Len(StatementsOf(x)) /\ StatementsOf(x)[n + 1] = Statement(Kinds(Lex(u)))
         /\ ScanAt(x, n + 1, p, e, open)
<1>1. PICK k : k = Kinds(Lex(u))
  OBVIOUS
<1>2. PICK m \in Nat \ {0} : PieceMeant(x, n, p, e, open, k, m)
  BY <1>1, PieceOpened
<1>3. PICK y : y = SubSeq(k, 1, m)
  OBVIOUS
<1>4. /\ m <= Len(k) /\ Ender(k[m]) /\ NoEnd(k, 1, m - 1)
      /\ y # <<"eof">> => n < Len(StatementsOf(x)) /\ StatementsOf(x)[n + 1] = y
      /\ y # <<"eof">> /\ k[m] # "error" => ScanAt(x, n + 1, p, e, open)
  BY <1>2, <1>3 DEF PieceMeant
<1>5. k \in Seq(TokenKinds)
  BY <1>1, KindsOfLex
<1>6. Statement(k) = y /\ y # <<"eof">> /\ k[m] # "error"
  BY <1>1, <1>3, <1>4, <1>5, StatementIsFirst
<1> QED
  BY <1>1, <1>4, <1>6

\* n statements of w are executed and the tokens k make no statement: the next
\* one is none, or there is no other and k is only the end of a text.
WrongAfter(w, n, k) ==
  IF k = <<"eof">> THEN n = Len(w) ELSE n < Len(w) /\ SentenceEnds(w[n + 1]) = {}

\* So it is after a piece that the parsers do not take.
LEMMA PieceWrong ==
  ASSUME NEW x \in Seq(Characters), NEW u \in Seq(Characters), NEW n, NEW p, NEW e, NEW open,
         PieceAt(x, n, p, e, open, u), ~Parses(Kinds(Lex(u)))
  PROVE  WrongAfter(StatementsOf(x), n, Kinds(Lex(u)))
<1>1. PICK k : k = Kinds(Lex(u))
  OBVIOUS
<1>2. PICK m \in Nat \ {0} : PieceMeant(x, n, p, e, open, k, m)
  BY <1>1, PieceOpened
<1>3. PICK y : y = SubSeq(k, 1, m)
  OBVIOUS
<1>4. /\ m <= Len(k) /\ Ender(k[m]) /\ NoEnd(k, 1, m - 1)
      /\ y = <<"eof">> => k = y /\ Len(StatementsOf(x)) = n
      /\ y # <<"eof">> => n < Len(StatementsOf(x)) /\ StatementsOf(x)[n + 1] = y
  BY <1>2, <1>3 DEF PieceMeant
<1>5. k \in Seq(TokenKinds)
  BY <1>1, KindsOfLex
<1>6. SentenceEnds(y) = {}
  BY <1>1, <1>3, <1>4, <1>5, StatementIsFirst
<1>7. ASSUME k = <<"eof">>
      PROVE  y = <<"eof">>
  <2>1. Len(k) = 1
    BY <1>7
  <2>2. m = 1
    BY <1>4, <2>1
  <2>3. Len(SubSeq(k, 1, 1)) = 1 /\ SubSeq(k, 1, 1)[1] = k[1] /\ IsSequence(SubSeq(k, 1, 1))
    <3>1. SubSeq(k, 1, 1) \in Seq(TokenKinds)
      <4>1. 1 \in Nat \ {0} /\ 1 \in Nat /\ 1 <= Len(k)
        BY <2>1
      <4> QED
        BY <1>5, <4>1, CutOf
    <3>2. Len(SubSeq(k, 1, 1)) = 1 /\ SubSeq(k, 1, 1)[1] = k[1]
      BY <1>5, <2>1
    <3> QED
      BY <3>1, <3>2, SequenceOf
  <2>4. IsSequence(k)
    BY <1>5, SequenceOf
  <2>5. IsSequence(y) /\ Len(y) = Len(k) /\ \A j \in 1 .. Len(y) : y[j] = k[j]
    BY <1>3, <2>1, <2>2, <2>3
  <2> QED
    BY <1>7, <2>4, <2>5, EqualSeqs
<1> QED
  BY <1>1, <1>4, <1>6, <1>7 DEF WrongAfter

\* A piece that has tokens starts with the next statement.
LEMMA PieceShown ==
  ASSUME NEW x \in Seq(Characters), NEW u \in Seq(Characters), NEW n, NEW p, NEW e, NEW open,
         PieceAt(x, n, p, e, open, u), Kinds(Lex(u)) # <<"eof">>
  PROVE  n < Len(StatementsOf(x)) /\ IsPrefix(StatementsOf(x)[n + 1], Kinds(Lex(u)))
<1>1. PICK k : k = Kinds(Lex(u))
  OBVIOUS
<1>2. PICK m \in Nat \ {0} : PieceMeant(x, n, p, e, open, k, m)
  BY <1>1, PieceOpened
<1>3. PICK y : y = SubSeq(k, 1, m)
  OBVIOUS
<1>4. /\ m <= Len(k)
      /\ y = <<"eof">> => k = y
      /\ y # <<"eof">> => n < Len(StatementsOf(x)) /\ StatementsOf(x)[n + 1] = y
  BY <1>2, <1>3 DEF PieceMeant
<1>5. k \in Seq(TokenKinds) /\ Len(k) \in Nat
  <2>1. k \in Seq(TokenKinds)
    BY <1>1, KindsOfLex
  <2> QED
    BY <2>1
<1>6. y \in Seq(TokenKinds) /\ Len(y) = m /\ \A j \in 1 .. m : y[j] = k[j]
  <2>1. /\ SubSeq(k, 1, m) \in Seq(TokenKinds)
        /\ Len(SubSeq(k, 1, m)) = IF 1 <= m THEN (m - 1) + 1 ELSE 0
        /\ \A j \in 1 .. (m - 1) + 1 : SubSeq(k, 1, m)[j] = k[(1 + j) - 1]
    <3>1. 1 \in Nat \ {0} /\ m \in Nat
      OBVIOUS
    <3> QED
      BY <1>4, <1>5, <3>1, CutOf
  <2>2. (m - 1) + 1 = m /\ 1 <= m /\ \A j \in 1 .. m : (1 + j) - 1 = j
    OBVIOUS
  <2> QED
    BY <1>3, <2>1, <2>2
<1>7. IsPrefix(y, k)
  <2>1. IsSequence(y) /\ IsSequence(k)
    BY <1>5, <1>6, SequenceOf
  <2>2. Len(y) <= Len(k) /\ \A j \in 1 .. Len(y) : y[j] = k[j]
    BY <1>4, <1>6
  <2> QED
    BY <2>1, <2>2, PrefixOf
<1> QED
  BY <1>1, <1>4, <1>7

\* There is no piece but the last that is blank, and no statement in it.
LEMMA PieceBlank ==
  ASSUME NEW x \in Seq(Characters), NEW n, NEW p, NEW e, NEW open, PieceAt(x, n, p, e, open, <<>>)
  PROVE  ScanAt(x, n, p, e, open)
<1>1. PICK u : u = <<>>
  OBVIOUS
<1>2. u \in Seq(Characters) /\ Len(u) = 0
  BY <1>1
<1>3. PICK k : k = Kinds(Lex(u))
  OBVIOUS
<1>4. k \in Seq(TokenKinds) /\ Len(k) = 1 /\ k[1] = "eof"
  <2>1. PICK r : r = Lex(u)
    OBVIOUS
  <2>2. r = LexFrom(u, Len(u) + 1)
    BY <1>2, <2>1, LexIsLexFrom
  <2>3. Len(r) = 1 /\ r[1].kind = "eof"
    BY <1>2, <2>2, NothingAtEnd
  <2>4. k \in Seq(TokenKinds) /\ Len(k) = Len(r) /\ \A j \in 1 .. Len(r) : k[j] = r[j].kind
    BY <1>2, <1>3, <2>1, KindsOfLex
  <2> QED
    BY <2>3, <2>4
<1>5. PICK m \in Nat \ {0} : PieceMeant(x, n, p, e, open, k, m)
  BY <1>1, <1>2, <1>3, PieceOpened
<1>6. PICK y : y = SubSeq(k, 1, m)
  OBVIOUS
<1>7. m <= Len(k) /\ (y = <<"eof">> => Len(StatementsOf(x)) = n /\ p > Len(x))
  BY <1>5, <1>6 DEF PieceMeant
<1>8. m = 1
  BY <1>4, <1>7
<1>9. y = <<"eof">>
  <2>1. PICK a \in Nat \ {0}, b \in Nat : a = 1 /\ b = 1 /\ b <= Len(k)
    <3>1. 1 \in Nat \ {0} /\ 1 \in Nat /\ 1 <= Len(k)
      BY <1>4
    <3> QED
      BY <3>1
  <2>2. /\ SubSeq(k, a, b) \in Seq(TokenKinds)
        /\ Len(SubSeq(k, a, b)) = IF a <= b THEN (b - a) + 1 ELSE 0
        /\ \A j \in 1 .. (b - a) + 1 : SubSeq(k, a, b)[j] = k[(a + j) - 1]
    BY <1>4, <2>1, CutOf
  <2>3. y = SubSeq(k, a, b)
    BY <1>6, <1>8, <2>1
  <2>4. (b - a) + 1 = 1 /\ a <= b /\ 1 \in 1 .. (b - a) + 1 /\ (a + 1) - 1 = 1
    BY <2>1
  <2>5. y \in Seq(TokenKinds) /\ Len(y) = 1 /\ y[1] = "eof"
    BY <1>4, <2>2, <2>3, <2>4
  <2> QED
    BY <2>5
<1> QED
  BY <1>7, <1>9 DEF ScanAt

-----------------------------------------------------------------------------
(* The statements a run executes.                                          *)

\* What is set once, and where the first piece starts.
ReadInv ==
  /\ written = StatementsOf(script) /\ plain = IsPlain(script)
  /\ pc \in {"lex", "execute"} => text = piece /\ lexed = Lex(piece)
  /\ pc = "execute" => lex_pc = "end"
  /\ pc = "open" => done = <<>> /\ i = 1 /\ in_string = FALSE
  /\ pc \notin {"open", "exit"} => start >= FirstPiece(script)

\* The statements executed are the first of the script.
DoneInv == Len(done) <= Len(written) /\ \A k \in 1 .. Len(done) : done[k] = written[k]

\* The cutter is between these and the next, and the piece at work is the next;
\* the exit code says which were executed.
NextInv ==
  /\ pc = "scan" => ScanAt(script, Len(done), start, i, in_string)
  /\ pc \in {"statement", "lex", "execute"} =>
       PieceAt(script, Len(done), start, i, in_string, piece)
  /\ pc = "exit" /\ rc = 0 => Len(done) = Len(written)
  /\ pc = "exit" /\ rc = 2 => WrongAfter(written, Len(done), PieceTokens)

MeantInv == ReadInv /\ (plain => DoneInv /\ NextInv)

LEMMA MeantInit == Init => MeantInv
<1> HAVE Init
<1>1. /\ written = StatementsOf(script) /\ plain = IsPlain(script)
      /\ pc = "open" /\ i = 1 /\ in_string = FALSE /\ done = <<>>
  BY DEF Init
<1>2. ReadInv
  BY <1>1 DEF ReadInv
<1>3. written \in Seq(Seq(TokenKinds)) /\ Len(written) \in Nat
  <2>1. written \in Seq(Seq(TokenKinds))
    BY <1>1, StatementsOfType, ScriptAssumption DEF Init
  <2> QED
    BY <2>1
<1>4. DoneInv
  BY <1>1, <1>3 DEF DoneInv
<1>5. NextInv
  BY <1>1 DEF NextInv
<1> QED
  BY <1>2, <1>4, <1>5 DEF MeantInv

\* When the lexer has ended, its tokens are those of the piece.
LEMMA TokensRead ==
  ASSUME SInv, LexedInv, MeantInv, pc \in {"lex", "execute"}, lex_pc = "end"
  PROVE  PieceTokens = Kinds(Lex(piece))
<1>1. lexed = Lex(piece) /\ Ahead(lexed, toks, <<>>) /\ IsSequence(toks)
  BY LexTypes DEF MeantInv, ReadInv, LexedInv, SInv
<1>2. /\ Len(lexed) = Len(toks) /\ Len(toks) \in Nat
      /\ DOMAIN toks = 1 .. Len(toks) /\ DOMAIN lexed = 1 .. Len(toks)
      /\ \A j \in 1 .. Len(toks) : toks[j].kind = lexed[j].kind
  <2>1. /\ IsSequence(lexed) /\ Len(lexed) = Len(toks) + Len(<<>>)
        /\ \A j \in 1 .. Len(toks) : toks[j].kind = lexed[j].kind
    BY <1>1 DEF Ahead, Same
  <2>2. /\ DOMAIN toks = 1 .. Len(toks) /\ Len(toks) \in Nat
        /\ DOMAIN lexed = 1 .. Len(lexed) /\ Len(lexed) \in Nat
    BY <1>1, <2>1 DEF IsSequence
  <2>3. Len(<<>>) = 0
    OBVIOUS
  <2>4. Len(lexed) = Len(toks)
    BY <2>1, <2>2, <2>3
  <2> QED
    BY <2>1, <2>2, <2>4
<1>3. Kinds(toks) = [j \in 1 .. Len(toks) |-> toks[j].kind]
  BY <1>2 DEF Kinds
<1>4. Kinds(lexed) = [j \in 1 .. Len(toks) |-> lexed[j].kind]
  BY <1>2 DEF Kinds
<1>5. Kinds(toks) = Kinds(lexed)
  BY <1>2, <1>3, <1>4
<1> QED
  BY <1>1, <1>5 DEF PieceTokens

\* What the steps of the cutter and of the parsers leave alone.
LEMMA ReadStays ==
  ASSUME ReadInv, UNCHANGED input, UNCHANGED lexer_vars, piece' = piece \/ pc' \notin {"lex", "execute"},
         pc' = "lex" => pc \in {"lex", "execute"},
         pc' = "execute" => pc \in {"lex", "execute"} /\ lex_pc = "end",
         pc' # "open",
         pc' \notin {"open", "exit"} => start' >= FirstPiece(script)
  PROVE  ReadInv'
BY DEF ReadInv, input, lexer_vars

LEMMA DoneStays ==
  ASSUME DoneInv, UNCHANGED input, done' = done
  PROVE  DoneInv'
BY DEF DoneInv, input

\* A run that ends with 3 says nothing of the statements.
LEMMA MeantFails ==
  ASSUME MeantInv, UNCHANGED input, UNCHANGED lexer_vars, piece' = piece, done' = done, pc' = "exit", rc' = 3
  PROVE  MeantInv'
<1>1. ReadInv'
  BY ReadStays DEF MeantInv
<1>2. plain' = plain
  BY DEF input
<1>3. plain => DoneInv'
  BY DoneStays DEF MeantInv
<1>4. NextInv'
  BY DEF NextInv
<1> QED
  BY <1>1, <1>2, <1>3, <1>4 DEF MeantInv

LEMMA MeantOpen == SInv /\ MeantInv /\ Open => MeantInv'
<1> HAVE SInv /\ MeantInv /\ Open
<1>1. /\ pc = "open" /\ pc' = "scan" /\ start' = FirstPiece(script) /\ i' = i
      /\ in_string' = in_string /\ piece' = piece /\ done' = done /\ rc' = rc
      /\ UNCHANGED input /\ UNCHANGED lexer_vars
  BY DEF Open
<1>2. script' = script /\ plain' = plain
  BY <1>1 DEF input
<1>3. done = <<>> /\ i = 1 /\ in_string = FALSE /\ plain = IsPlain(script)
  BY <1>1 DEF MeantInv, ReadInv
<1>4. script \in Seq(Characters) /\ FirstPiece(script) \in Nat
  BY DEF SInv, ScriptTypes, FirstPiece
<1>5. ReadInv'
  <2>1. start' >= FirstPiece(script)
    BY <1>1, <1>4
  <2> QED
    BY <1>1, <2>1, ReadStays DEF MeantInv
<1>6. ASSUME plain
      PROVE  DoneInv' /\ NextInv'
  <2>1. DoneInv'
    BY <1>1, <1>6, DoneStays DEF MeantInv
  <2>2. ScanAt(script, 0, FirstPiece(script), 1, FALSE)
    BY <1>3, <1>4, <1>6, ScanOpens
  <2>3. Len(done) = 0
    BY <1>3
  <2>4. NextInv'
    BY <1>1, <1>2, <1>3, <2>2, <2>3 DEF NextInv
  <2> QED
    BY <2>1, <2>4
<1> QED
  BY <1>2, <1>5, <1>6 DEF MeantInv

LEMMA MeantFinish == SInv /\ MeantInv /\ Finish => MeantInv'
<1> HAVE SInv /\ MeantInv /\ Finish
<1>1. /\ pc = "scan" /\ start > Len(script) /\ pc' = "exit" /\ rc' = 0 /\ UNCHANGED input
      /\ UNCHANGED cut /\ done' = done /\ UNCHANGED lexer_vars
  BY DEF Finish, AtEnd, Exit
<1>2. plain' = plain /\ written' = written /\ piece' = piece
  BY <1>1 DEF input, cut
<1>3. script \in Seq(Characters) /\ start = Len(script) + 1
  <2>1. script \in Seq(Characters) /\ start \in 1 .. Len(script) + 1 /\ Len(script) \in Nat
    BY DEF SInv, ScriptTypes, CutInv
  <2> QED
    BY <1>1, <2>1
<1>4. ReadInv'
  BY <1>1, <1>2, ReadStays DEF MeantInv
<1>5. ASSUME plain
      PROVE  DoneInv' /\ NextInv'
  <2>1. DoneInv'
    BY <1>1, <1>5, DoneStays DEF MeantInv
  <2>2. ScanAt(script, Len(done), start, i, in_string)
    BY <1>1, <1>5 DEF MeantInv, NextInv
  <2>3. Len(done) = Len(StatementsOf(script))
    BY <1>3, <2>2, ScanFinishes
  <2>4. written = StatementsOf(script)
    BY DEF MeantInv, ReadInv
  <2>5. NextInv'
    BY <1>1, <1>2, <2>3, <2>4 DEF NextInv
  <2> QED
    BY <2>1, <2>5
<1> QED
  BY <1>2, <1>4, <1>5 DEF MeantInv

\* What a step of the cutter from one character to another has to show.
LEMMA MeantScan ==
  ASSUME SInv, MeantInv, pc = "scan", NEW n, Step(n), in_string' \in BOOLEAN,
         ScanAt(script, Len(done), start, i, in_string) => ScanAt(script, Len(done), start, i + n, in_string')
  PROVE  MeantInv'
<1>1. /\ pc' = pc /\ start' = start /\ i' = i + n /\ piece' = piece /\ done' = done /\ rc' = rc
      /\ UNCHANGED input /\ UNCHANGED lexer_vars
  BY DEF Step
<1>2. script' = script /\ plain' = plain
  BY <1>1 DEF input
<1>3. ReadInv'
  <2>1. start' >= FirstPiece(script)
    BY <1>1 DEF MeantInv, ReadInv
  <2> QED
    BY <1>1, <2>1, ReadStays DEF MeantInv
<1>4. ASSUME plain
      PROVE  DoneInv' /\ NextInv'
  <2>1. DoneInv'
    BY <1>1, <1>4, DoneStays DEF MeantInv
  <2>2. ScanAt(script, Len(done), start, i + n, in_string')
    BY <1>4 DEF MeantInv, NextInv
  <2>3. NextInv'
    BY <1>1, <1>2, <2>2 DEF NextInv
  <2> QED
    BY <2>1, <2>3
<1> QED
  BY <1>2, <1>3, <1>4 DEF MeantInv

LEMMA MeantScanning ==
  ASSUME SInv, MeantInv, EscapedQuote \/ CloseString \/ OpenString \/ OtherChar
  PROVE  MeantInv'
<1>1. /\ pc = "scan" /\ i <= Len(script) /\ script \in Seq(Characters) /\ Len(script) \in Nat
      /\ in_string \in BOOLEAN /\ i \in 1 .. Len(script) /\ start \in Nat /\ start <= Len(script) + 1
      /\ start >= FirstPiece(script)
  <2>1. pc = "scan" /\ i <= Len(script)
    BY DEF EscapedQuote, CloseString, OpenString, OtherChar, Scanning
  <2>2. /\ script \in Seq(Characters) /\ Len(script) \in Nat /\ in_string \in BOOLEAN
        /\ start \in 1 .. Len(script) + 1 /\ i \in 1 .. Len(script) + 1
    BY DEF SInv, ScriptTypes, CutInv
  <2>3. start >= FirstPiece(script)
    BY <2>1 DEF MeantInv, ReadInv
  <2> QED
    BY <2>1, <2>2, <2>3
<1>2. start <= i \/ (start = 2 /\ i = 1 /\ script[1] = "bom")
  BY DEF SInv, CutInv, OnBom
<1>3. PICK n : n = Len(done)
  OBVIOUS
<1>4. ASSUME ScanAt(script, n, start, i, in_string)
      PROVE  /\ Quote(script[i]) => ScanAt(script, n, start, i + 1, ~in_string)
             /\ ~Quote(script[i]) /\ (in_string \/ ~Semi(script[i])) =>
                  ScanAt(script, n, start, i + 1, in_string)
  BY <1>1, <1>2, <1>4, ScanOn
<1>5. CASE EscapedQuote
  <2>1. /\ in_string /\ Quote(script[i]) /\ i < Len(script) /\ Quote(script[i + 1])
        /\ Step(2) /\ in_string' = in_string
    BY <1>5 DEF EscapedQuote, PairedQuote, Quote
  <2>2. PICK y \in 1 .. Len(script) : y = i + 1 /\ y + 1 = i + 2 /\ start <= y
    <3>1. i + 1 \in 1 .. Len(script) /\ (i + 1) + 1 = i + 2 /\ start <= i + 1
      BY <1>1, <1>2, <2>1
    <3> QED
      BY <3>1
  <2>3. PICK closed \in BOOLEAN : closed = ~in_string /\ in_string = ~closed
    BY <1>1
  <2>4. ASSUME ScanAt(script, n, start, i, in_string)
        PROVE  ScanAt(script, n, start, i + 2, in_string)
    <3>1. ScanAt(script, n, start, y, closed)
      BY <1>4, <2>1, <2>2, <2>3, <2>4
    <3>2. Quote(script[y])
      BY <2>1, <2>2
    <3>3. ScanAt(script, n, start, y + 1, ~closed)
      BY <1>1, <2>2, <3>1, <3>2, ScanOn
    <3> QED
      BY <2>2, <2>3, <3>3
  <2> QED
    BY <1>1, <1>3, <2>1, <2>4, MeantScan
<1>6. CASE CloseString
  <2>1. in_string /\ Quote(script[i]) /\ Step(1) /\ in_string' = ~in_string
    BY <1>6 DEF CloseString, Quote
  <2> QED
    BY <1>1, <1>3, <1>4, <2>1, MeantScan
<1>7. CASE OpenString
  <2>1. ~in_string /\ Quote(script[i]) /\ Step(1) /\ in_string' = ~in_string
    BY <1>1, <1>7 DEF OpenString, Quote
  <2> QED
    BY <1>1, <1>3, <1>4, <2>1, MeantScan
<1>8. CASE OtherChar
  <2>1. ~Quote(script[i]) /\ (in_string \/ ~Semi(script[i])) /\ Step(1) /\ in_string' = in_string
    BY <1>8 DEF OtherChar, Quote, Semi
  <2> QED
    BY <1>1, <1>3, <1>4, <2>1, MeantScan
<1> QED
  BY <1>5, <1>6, <1>7, <1>8

LEMMA MeantCut ==
  ASSUME SInv, MeantInv, pc = "scan", NEW to \in start .. Len(script), Cut(to), in_string' = in_string,
         CutHere(script, i, to, in_string)
  PROVE  MeantInv'
<1>1. /\ pc' = "statement" /\ piece' = Trim(SubSeq(script, start, to)) /\ start' = to + 1 /\ i' = to + 1
      /\ done' = done /\ rc' = rc /\ UNCHANGED input /\ UNCHANGED lexer_vars
  BY DEF Cut
<1>2. script' = script /\ plain' = plain
  BY <1>1 DEF input
<1>3. /\ script \in Seq(Characters) /\ Len(script) \in Nat /\ start \in Nat /\ start >= FirstPiece(script)
      /\ in_string \in BOOLEAN /\ FirstPiece(script) \in Nat
  <2>1. start \in 1 .. Len(script) + 1 /\ script \in Seq(Characters) /\ in_string \in BOOLEAN
    BY DEF SInv, ScriptTypes, CutInv
  <2>2. start >= FirstPiece(script)
    BY DEF MeantInv, ReadInv
  <2>3. Len(script) \in Nat /\ FirstPiece(script) \in Nat
    BY <2>1 DEF FirstPiece
  <2> QED
    BY <2>1, <2>2, <2>3
<1>4. ReadInv'
  <2>1. start' >= FirstPiece(script)
    BY <1>1, <1>3
  <2> QED
    BY <1>1, <2>1, ReadStays DEF MeantInv
<1>5. ASSUME plain
      PROVE  DoneInv' /\ NextInv'
  <2>1. DoneInv'
    BY <1>1, <1>5, DoneStays DEF MeantInv
  <2>2. ScanAt(script, Len(done), start, i, in_string)
    BY <1>5 DEF MeantInv, NextInv
  <2>3. PieceAt(script, Len(done), to + 1, to + 1, in_string, piece')
    <3>1. PICK n : n = Len(done)
      OBVIOUS
    <3> QED
      BY <1>1, <1>3, <2>2, <3>1, ScanCuts
  <2>4. NextInv'
    BY <1>1, <1>2, <2>3 DEF NextInv
  <2> QED
    BY <2>1, <2>4
<1> QED
  BY <1>2, <1>4, <1>5 DEF MeantInv

LEMMA MeantCutting ==
  ASSUME SInv, MeantInv, Semicolon \/ LastPiece
  PROVE  MeantInv'
<1>1. /\ Len(script) \in Nat /\ i \in 1 .. Len(script) + 1 /\ start \in 1 .. Len(script) + 1
      /\ start <= i \/ OnBom
  BY DEF SInv, ScriptTypes, CutInv
<1>2. CASE Semicolon
  <2>1. pc = "scan" /\ i <= Len(script) /\ Cut(i) /\ in_string' = in_string /\ ~in_string
    BY <1>2 DEF Semicolon, Scanning
  <2>2. script[i] = ";"
    BY <1>2 DEF Semicolon
  <2>3. ~OnBom /\ Semi(script[i])
    BY <2>2 DEF OnBom, Semi
  <2>4. i \in start .. Len(script)
    BY <1>1, <2>1, <2>3
  <2> QED
    BY <2>1, <2>3, <2>4, MeantCut DEF CutHere
<1>3. CASE LastPiece
  <2>1. pc = "scan" /\ i > Len(script) /\ start <= Len(script) /\ Cut(Len(script)) /\ in_string' = in_string
    BY <1>3 DEF LastPiece, AtEnd
  <2>2. i = Len(script) + 1 /\ Len(script) \in start .. Len(script)
    BY <1>1, <2>1
  <2> QED
    BY <2>1, <2>2, MeantCut DEF CutHere
<1> QED
  BY <1>2, <1>3

\* The cutter goes on after a blank piece.
LEMMA MeantBlank == SInv /\ MeantInv /\ Blank => MeantInv'
<1> HAVE SInv /\ MeantInv /\ Blank
<1>1. /\ pc = "statement" /\ piece = <<>> /\ pc' = "scan" /\ UNCHANGED input /\ UNCHANGED cut
      /\ done' = done /\ rc' = rc /\ UNCHANGED lexer_vars
  BY DEF Blank
<1>2. /\ script' = script /\ plain' = plain
      /\ start' = start /\ i' = i /\ in_string' = in_string /\ piece' = piece
  BY <1>1 DEF input, cut
<1>3. ReadInv'
  <2>1. start' >= FirstPiece(script)
    BY <1>1, <1>2 DEF MeantInv, ReadInv
  <2> QED
    BY <1>1, <1>2, <2>1, ReadStays DEF MeantInv
<1>4. ASSUME plain
      PROVE  DoneInv' /\ NextInv'
  <2>1. DoneInv'
    BY <1>1, <1>4, DoneStays DEF MeantInv
  <2>2. PieceAt(script, Len(done), start, i, in_string, <<>>)
    BY <1>1, <1>4 DEF MeantInv, NextInv
  <2>3. ScanAt(script, Len(done), start, i, in_string)
    <3>1. script \in Seq(Characters)
      BY DEF SInv, ScriptTypes
    <3> QED
      BY <2>2, <3>1, PieceBlank
  <2>4. NextInv'
    BY <1>1, <1>2, <2>3 DEF NextInv
  <2> QED
    BY <2>1, <2>4
<1> QED
  BY <1>2, <1>3, <1>4 DEF MeantInv

\* The piece stays the next statement while it is read.
LEMMA MeantReading ==
  ASSUME MeantInv, ReadInv', UNCHANGED input, UNCHANGED cut, done' = done,
         pc \in {"statement", "lex", "execute"}, pc' \in {"statement", "lex", "execute"}
  PROVE  MeantInv'
<1>1. /\ script' = script /\ plain' = plain
      /\ start' = start /\ i' = i /\ in_string' = in_string /\ piece' = piece
  BY DEF input, cut
<1>2. ASSUME plain
      PROVE  DoneInv' /\ NextInv'
  <2>1. DoneInv'
    BY <1>2, DoneStays DEF MeantInv
  <2>2. PieceAt(script, Len(done), start, i, in_string, piece)
    BY <1>2 DEF MeantInv, NextInv
  <2>3. NextInv'
    BY <1>1, <2>2 DEF NextInv
  <2> QED
    BY <2>1, <2>3
<1> QED
  BY <1>1, <1>2 DEF MeantInv

LEMMA TextKept == lexer_next => text' = text /\ lexed' = lexed
<1> HAVE lexer_next
<1>1. UNCHANGED kept
  BY DEF lexer_next, skip_ws_and_comments, skip_comment, first_character, word, digits, longest,
         decode_string, string_pair, string_end, string_character, string_fails
<1> QED
  BY <1>1 DEF kept

LEMMA MeantBegins ==
  ASSUME SInv, MeantInv, BeginStatement \/ Lexing
  PROVE  MeantInv'
<1>1. CASE BeginStatement
  <2>1. /\ pc = "statement" /\ pc' = "lex" /\ UNCHANGED input /\ UNCHANGED cut /\ done' = done
        /\ text' = piece /\ lexed' = Lex(piece)
    BY <1>1 DEF BeginStatement, lexer_init
  <2>2. piece' = piece /\ start' = start /\ start >= FirstPiece(script)
    BY <2>1 DEF cut, MeantInv, ReadInv
  <2>3. ReadInv'
    BY <2>1, <2>2 DEF MeantInv, ReadInv, input
  <2> QED
    BY <2>1, <2>3, MeantReading
<1>2. CASE Lexing
  <2>1. /\ pc = "lex" /\ pc' = "lex" /\ UNCHANGED input /\ UNCHANGED cut /\ done' = done
        /\ text' = text /\ lexed' = lexed
    BY <1>2, TextKept DEF Lexing
  <2>2. piece' = piece /\ start' = start /\ start >= FirstPiece(script)
    BY <2>1 DEF cut, MeantInv, ReadInv
  <2>3. ReadInv'
    BY <2>1, <2>2 DEF MeantInv, ReadInv, input
  <2> QED
    BY <2>1, <2>3, MeantReading
<1> QED
  BY <1>1, <1>2

LEMMA MeantParse == SInv /\ MeantInv /\ Parse => MeantInv'
<1> HAVE SInv /\ MeantInv /\ Parse
<1>1. /\ pc = "lex" /\ lex_pc = "end" /\ pc' = "execute" /\ UNCHANGED input /\ UNCHANGED cut
      /\ done' = done /\ UNCHANGED lexer_vars
  BY DEF Parse, Lexed
<1>2. piece' = piece /\ start' = start /\ start >= FirstPiece(script) /\ script' = script
  BY <1>1 DEF cut, input, MeantInv, ReadInv
<1>3. ReadInv'
  BY <1>1, <1>2, ReadStays DEF MeantInv
<1> QED
  BY <1>1, <1>3, MeantReading

\* What does not parse is not the next statement, or only comments follow.
LEMMA MeantWrong == SInv /\ LexedInv /\ MeantInv /\ ParseError => MeantInv'
<1> HAVE SInv /\ LexedInv /\ MeantInv /\ ParseError
<1>1. /\ pc = "lex" /\ lex_pc = "end" /\ ~Parses(PieceTokens) /\ pc' = "exit" /\ rc' = 2
      /\ UNCHANGED input /\ UNCHANGED cut /\ done' = done /\ UNCHANGED lexer_vars
  BY DEF ParseError, Lexed, Exit
<1>2. plain' = plain /\ written' = written /\ piece' = piece
  BY <1>1 DEF input, cut
<1>3. ReadInv'
  BY <1>1, <1>2, ReadStays DEF MeantInv
<1>4. ASSUME plain
      PROVE  DoneInv' /\ NextInv'
  <2>1. DoneInv'
    BY <1>1, <1>4, DoneStays DEF MeantInv
  <2>2. PieceAt(script, Len(done), start, i, in_string, piece)
    BY <1>1, <1>4 DEF MeantInv, NextInv
  <2>0. PieceTokens = Kinds(Lex(piece)) /\ PieceTokens' = PieceTokens
    BY <1>1, TokensRead DEF lexer_vars, PieceTokens
  <2>3. ~Parses(Kinds(Lex(piece)))
    BY <1>1, <2>0
  <2>4. script \in Seq(Characters) /\ piece \in Seq(Characters)
    BY DEF SInv, ScriptTypes
  <2>5. WrongAfter(StatementsOf(script), Len(done), Kinds(Lex(piece)))
    BY <2>2, <2>3, <2>4, PieceWrong
  <2>6. written = StatementsOf(script)
    BY DEF MeantInv, ReadInv
  <2>7. NextInv'
    BY <1>1, <1>2, <2>0, <2>5, <2>6 DEF NextInv
  <2> QED
    BY <2>1, <2>7
<1> QED
  BY <1>2, <1>3, <1>4 DEF MeantInv

\* What is executed is the next statement.
LEMMA MeantExecute == SInv /\ LexedInv /\ MeantInv /\ Execute => MeantInv'
<1> HAVE SInv /\ LexedInv /\ MeantInv /\ Execute
<1>1. /\ pc = "execute" /\ pc' = "scan" /\ done' = Append(done, Statement(PieceTokens)) /\ rc' = rc
      /\ UNCHANGED input /\ UNCHANGED cut /\ UNCHANGED lexer_vars
  BY DEF Execute
<1>2. /\ script' = script /\ plain' = plain /\ written' = written
      /\ start' = start /\ i' = i /\ in_string' = in_string /\ piece' = piece
  BY <1>1 DEF input, cut
<1>3. ReadInv'
  <2>1. start' >= FirstPiece(script)
    BY <1>1, <1>2 DEF MeantInv, ReadInv
  <2> QED
    BY <1>1, <1>2, <2>1, ReadStays DEF MeantInv
<1>4. PICK k : k = Kinds(Lex(piece))
  OBVIOUS
<1>5. PieceTokens = k /\ Parses(k)
  <2>1. lex_pc = "end" /\ Parses(PieceTokens)
    BY <1>1 DEF MeantInv, ReadInv, SInv, TakenInv
  <2>2. PieceTokens = k
    BY <1>1, <1>4, <2>1, TokensRead
  <2> QED
    BY <2>1, <2>2
<1>6. /\ script \in Seq(Characters) /\ piece \in Seq(Characters) /\ done \in Seq(Seq(TokenKinds))
      /\ k \in Seq(TokenKinds)
  BY <1>4, KindsOfLex DEF SInv, ScriptTypes
<1>7. PICK y \in Seq(TokenKinds) : y = Statement(k)
  BY <1>5, <1>6, StatementOf
<1>8. PICK n \in Nat : n = Len(done)
  BY <1>6
<1>9. /\ Len(done') = n + 1 /\ done'[n + 1] = y /\ \A j \in 1 .. n : done'[j] = done[j]
  <2>1. done' = Append(done, y)
    BY <1>1, <1>5, <1>7
  <2>2. /\ Len(Append(done, y)) = Len(done) + 1 /\ Append(done, y)[Len(done) + 1] = y
        /\ \A j \in 1 .. Len(done) : Append(done, y)[j] = done[j]
    BY <1>6
  <2> QED
    BY <1>8, <2>1, <2>2
<1>10. ASSUME plain
       PROVE  DoneInv' /\ NextInv'
  <2>1. PieceAt(script, n, start, i, in_string, piece)
    BY <1>1, <1>8, <1>10 DEF MeantInv, NextInv
  <2>2. written = StatementsOf(script) /\ DoneInv
    BY <1>10 DEF MeantInv, ReadInv
  <2>3. n < Len(written) /\ written[n + 1] = y /\ ScanAt(script, n + 1, start, i, in_string)
    BY <1>4, <1>5, <1>6, <1>7, <2>1, <2>2, PieceDone
  <2>4. DoneInv'
    <3>1. Len(written) \in Nat
      <4>1. written \in Seq(Seq(TokenKinds))
        BY <1>6, <2>2, StatementsOfType
      <4> QED
        BY <4>1
    <3>2. n + 1 <= Len(written)
      BY <2>3, <3>1
    <3>3. ASSUME NEW j \in 1 .. n + 1
          PROVE  done'[j] = written[j]
      <4>1. j = n + 1 \/ j \in 1 .. n
        OBVIOUS
      <4>2. j \in 1 .. n => done[j] = written[j]
        BY <1>8, <2>2 DEF DoneInv
      <4> QED
        BY <1>9, <2>3, <4>1, <4>2
    <3> QED
      BY <1>2, <1>9, <3>2, <3>3 DEF DoneInv
  <2>5. NextInv'
    BY <1>1, <1>2, <1>9, <2>3 DEF NextInv
  <2> QED
    BY <2>4, <2>5
<1> QED
  BY <1>2, <1>3, <1>10 DEF MeantInv

LEMMA MeantStep == SInv /\ LexedInv /\ MeantInv /\ [Next]_vars => MeantInv'
<1> HAVE SInv /\ LexedInv /\ MeantInv /\ [Next]_vars
<1>1. CASE Open \/ Finish
  BY <1>1, MeantOpen, MeantFinish
<1>2. CASE OpenFails \/ NoTraceFile \/ NoMemoryForTrace \/ ExecFails
  <2>1. /\ UNCHANGED input /\ UNCHANGED cut /\ UNCHANGED lexer_vars /\ done' = done
        /\ pc' = "exit" /\ rc' = 3
    BY <1>2 DEF OpenFails, NoTraceFile, NoMemoryForTrace, ExecFails, Exit
  <2>2. piece' = piece
    BY <2>1 DEF cut
  <2> QED
    BY <2>1, <2>2, MeantFails
<1>3. CASE EscapedQuote \/ CloseString \/ OpenString \/ OtherChar
  BY <1>3, MeantScanning
<1>4. CASE Semicolon \/ LastPiece
  BY <1>4, MeantCutting
<1>5. CASE Blank \/ BeginStatement \/ Lexing
  BY <1>5, MeantBlank, MeantBegins
<1>6. CASE Parse \/ ParseError \/ Execute
  BY <1>6, MeantParse, MeantWrong, MeantExecute
<1>7. CASE UNCHANGED vars
  <2>1. /\ UNCHANGED input /\ UNCHANGED cut /\ UNCHANGED lexer_vars /\ done' = done
        /\ pc' = pc /\ rc' = rc
    BY <1>7 DEF vars
  <2> QED
    BY <2>1 DEF MeantInv, ReadInv, DoneInv, NextInv, PieceTokens, input, cut, lexer_vars
<1> QED
  BY <1>1, <1>2, <1>3, <1>4, <1>5, <1>6, <1>7 DEF Next

\* The statements that were executed are the first of the script as the lexer
\* reads it, and the piece at work is the next, for every script without a quote
\* or a semicolon in a comment and without a form feed outside the strings: the
\* invariant of CutAsLexed and ExitCodeTrue.
THEOREM MeantInvCorrect == Spec => []MeantInv
<1>1. SInv /\ LexedInv /\ MeantInv /\ [Next]_vars => MeantInv'
  BY MeantStep
<1> QED
  BY <1>1, MeantInit, ScriptInv, LexedInvCorrect, PTL DEF Spec

\* As long as no comment contains a quote or a semicolon and no form feed stands
\* outside the strings, the pieces that the cutter makes, which knows nothing of
\* comments, are the statements that the lexer reads in the whole text, whatever
\* the script (run_sql_text of sql_processor.c against lexer_next).
THEOREM CutAsLexedCorrect == Spec => []CutAsLexed
<1>1. ASSUME SInv, LexedInv, MeantInv
      PROVE  CutAsLexed
  <2> SUFFICES ASSUME plain
               PROVE  /\ IsPrefix(done, written)
                      /\ Lexed /\ PieceTokens # <<"eof">> =>
                           /\ Len(done) < Len(written)
                           /\ IsPrefix(written[Len(done) + 1], PieceTokens)
    BY DEF CutAsLexed
  <2>1. /\ script \in Seq(Characters) /\ piece \in Seq(Characters) /\ done \in Seq(Seq(TokenKinds))
        /\ written = StatementsOf(script) /\ DoneInv
    BY <1>1 DEF SInv, ScriptTypes, MeantInv, ReadInv
  <2>2. IsSequence(done) /\ IsSequence(written)
    BY <2>1, StatementsOfType, SequenceOf
  <2>3. IsPrefix(done, written)
    BY <2>1, <2>2, PrefixOf DEF DoneInv
  <2>4. ASSUME Lexed, PieceTokens # <<"eof">>
        PROVE  /\ Len(done) < Len(written)
               /\ IsPrefix(written[Len(done) + 1], PieceTokens)
    <3>1. pc = "lex" /\ lex_pc = "end"
      BY <2>4 DEF Lexed
    <3>2. PieceTokens = Kinds(Lex(piece))
      BY <1>1, <3>1, TokensRead
    <3>3. PieceAt(script, Len(done), start, i, in_string, piece)
      BY <1>1, <3>1 DEF MeantInv, NextInv
    <3>4. /\ Len(done) < Len(StatementsOf(script))
          /\ IsPrefix(StatementsOf(script)[Len(done) + 1], Kinds(Lex(piece)))
      BY <2>1, <2>4, <3>2, <3>3, PieceShown
    <3> QED
      BY <2>1, <3>2, <3>4
  <2> QED
    BY <2>3, <2>4
<1> QED
  BY <1>1, ScriptInv, LexedInvCorrect, MeantInvCorrect, PTL

\* Exit code 0 says that all statements of the script were executed, and exit
\* code 2 that the next one is none, or that all were executed and only comments
\* follow, whatever the script, if no comment contains a quote or a semicolon and
\* no form feed stands outside the strings (run_sql_text of sql_processor.c).
THEOREM ExitCodeTrueCorrect == Spec => []ExitCodeTrue
<1>1. ASSUME SInv, MeantInv
      PROVE  ExitCodeTrue
  <2> SUFFICES ASSUME pc = "exit", plain
               PROVE  /\ rc = 0 => done = written
                      /\ rc = 2 => WrongAfter(written, Len(done), PieceTokens)
    BY DEF ExitCodeTrue, WrongAfter
  <2>1. /\ script \in Seq(Characters) /\ done \in Seq(Seq(TokenKinds))
        /\ written = StatementsOf(script) /\ DoneInv /\ NextInv
    BY <1>1 DEF SInv, ScriptTypes, MeantInv, ReadInv
  <2>2. IsSequence(done) /\ IsSequence(written)
    BY <2>1, StatementsOfType, SequenceOf
  <2>3. ASSUME rc = 0
        PROVE  done = written
    <3>1. Len(done) = Len(written)
      BY <2>1, <2>3 DEF NextInv
    <3> QED
      BY <2>1, <2>2, <3>1, EqualSeqs DEF DoneInv
  <2>4. rc = 2 => WrongAfter(written, Len(done), PieceTokens)
    BY <2>1 DEF NextInv
  <2> QED
    BY <2>3, <2>4
<1> QED
  BY <1>1, ScriptInv, MeantInvCorrect, PTL
=============================================================================
