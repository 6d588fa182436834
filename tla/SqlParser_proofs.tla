-------------------------- MODULE SqlParser_proofs --------------------------
(***************************************************************************)
(* Proofs about SqlParser, for statements and arrays of every size: at     *)
(* each place of the two parsers, what they have read, what they hold and  *)
(* what they have room for.  What follows for the language, and for the    *)
(* blocks that are freed, comes second.                                    *)
(***************************************************************************)
EXTENDS SqlParser, SequenceTheorems, TLAPS

-----------------------------------------------------------------------------
(* The inductive invariant: what the parser has read and what it holds, at *)
(* each of its places.                                                     *)

\* From a to b in t there are elements of K and commas, in turn.
Even(x) == x % 2 = 0
InTurn(t, a, i, K) == IF Even(i - a) THEN t[i] \in K ELSE t[i] = ","
Alternates(t, a, b, K) == \A i \in a .. b : InTurn(t, a, i, K)

\* Nothing is read after eof, and the last token the bound allows is eof.
EofInv ==
  /\ Len(text) = MaxTokens => text[MaxTokens] = "eof"
  /\ pc \in Parsing => \A i \in 1 .. pos : text[i] # "eof"

\* The blocks the error returns of a place free.
Owned(at) ==
  CASE at \in {"VALUES", "("} -> {"table"}
    [] at \in {"col_sep", "column", "sel_table"} -> {"list"}
    [] at \in {"first", "sep", "value", "end", "after_table", "where_id", "=", "where_int",
               "sel_end"} -> {"table", "list"}
    [] OTHER -> {}

NoList == {"INSERT", "INTO", "table", "VALUES", "(", "SELECT", "what", "FROM"}

\* Between reads the parser holds just the blocks its error returns free, and
\* the list has a place for its elements: the blocks bs, k elements, room for c
\* and the flags s at the place `at'.
BlockAt(at, bs, k, c, s) ==
  /\ k <= c
  /\ at \in Parsing => bs = Owned(at) \ (IF s.all THEN {"list"} ELSE {})
  /\ at \in NoList => k = 0
  /\ at \in InsertReads \cup {"insert", "SELECT", "what", "col_sep", "column"} => s = NoSel
  /\ at = "FROM" => s.all = TRUE
  /\ at \in Parsing \ {"sel_end"} => s.where = FALSE
  /\ at = "sel_end" => s.where = TRUE
  /\ at \in {"first", "sep", "value", "col_sep", "column"} => c >= 1
  /\ at = "error" => bs = {}
  /\ at = "insert" => bs = {"table", "stmt"} \cup (IF k = 0 THEN {} ELSE {"list"})
  /\ at = "select" => bs = {"table", "stmt"} \cup (IF s.all THEN {} ELSE {"list"})

BlockInv == BlockAt(pc, blocks, n, cap, sel)

\* The strings of the first k values: each has one, if it is not NULL.
Strings(t, k) == {i \in 1 .. k : t[2 * i + 4] # "NULL"}

TextsAt(at, t, k, ts) ==
  /\ at \in InsertReads \cup {"insert"} => ts = Strings(t, k)
  /\ at \in SelectReads \cup {"select"} => ts = 1 .. k
  /\ at = "error" => ts = {}

\* The first p tokens are the beginning of an INSERT, up to its values.
Beginning(t, p) ==
  /\ p >= 1 => t[1] = "INSERT"
  /\ p >= 2 => t[2] = "INTO"
  /\ p >= 3 => t[3] \in Identifiers
  /\ p >= 4 => t[4] = "VALUES"
  /\ p >= 5 => t[5] = "("

\* Token p closes the k values of an INSERT.
ValuesClosed(t, p, k) ==
  /\ k = 0 => p = 6
  /\ k >= 1 => p = 2 * k + 5
  /\ Alternates(t, 6, p - 1, Literals)
  /\ t[p] = ")"

\* What the INSERT parser has read, at each of its places.
InsertSoFar(at, t, p, k) ==
  /\ at \in InsertReads \cup {"insert"} => Beginning(t, p)
  /\ at = "INSERT" => p = 0
  /\ at = "INTO" => p = 1
  /\ at = "table" => p = 2
  /\ at = "VALUES" => p = 3
  /\ at = "(" => p = 4
  /\ at = "first" => p = 5 /\ k = 0
  /\ at = "sep" => k >= 1 /\ p = 2 * k + 4 /\ Alternates(t, 6, p, Literals)
  /\ at = "value" => k >= 1 /\ p = 2 * k + 5 /\ Alternates(t, 6, p, Literals)
  /\ at = "end" => ValuesClosed(t, p, k)
  /\ at = "insert" => ValuesClosed(t, p - 1, k) /\ t[p] \in Terminators

\* Token f is FROM, after k columns or, if `all', after the star.
Columns(t, f, k, all) ==
  /\ t[1] = "SELECT" /\ t[f] = "FROM"
  /\ all => f = 3 /\ k = 0 /\ t[2] = "*"
  /\ ~all => k >= 1 /\ f = 2 * k + 1 /\ Alternates(t, 2, 2 * k, Identifiers)

\* The tokens of WHERE after token g, as far as there are any up to token p.
Condition(t, g, p) ==
  /\ p >= g + 1 => t[g + 1] = "WHERE"
  /\ p >= g + 2 => t[g + 2] = "id"
  /\ p >= g + 3 => t[g + 3] = "="
  /\ p >= g + 4 => t[g + 4] = "int"

\* A SELECT up to the table, which is token g, and on to token p.
Selected(t, g, p, k, all) ==
  /\ g \in Nat /\ g >= 4 /\ p >= g
  /\ Columns(t, g - 1, k, all) /\ t[g] \in Identifiers /\ Condition(t, g, p)

\* What the SELECT parser has read, at each of its places.
SelectSoFar(at, t, p, k, s) ==
  /\ at = "SELECT" => p = 0
  /\ at = "what" => p = 1 /\ t[1] = "SELECT"
  /\ at = "col_sep" => /\ k >= 1 /\ p = 2 * k /\ t[1] = "SELECT"
                       /\ Alternates(t, 2, p, Identifiers)
  /\ at = "column" => /\ k >= 1 /\ p = 2 * k + 1 /\ t[1] = "SELECT"
                      /\ Alternates(t, 2, p, Identifiers)
  /\ at = "FROM" => p = 2 /\ t[1] = "SELECT" /\ t[2] = "*"
  /\ at = "sel_table" => Columns(t, p, k, s.all)
  /\ at = "after_table" => Selected(t, p, p, k, s.all)
  /\ at = "where_id" => Selected(t, p - 1, p, k, s.all)
  /\ at = "=" => Selected(t, p - 2, p, k, s.all)
  /\ at = "where_int" => Selected(t, p - 3, p, k, s.all)
  /\ at = "sel_end" => Selected(t, p - 4, p, k, s.all)
  /\ at = "select" => /\ t[p] \in Terminators
                      /\ IF s.where THEN Selected(t, p - 5, p - 1, k, s.all)
                         ELSE Selected(t, p - 1, p - 1, k, s.all)

ReadInv ==
  /\ TextsAt(pc, text, n, texts)
  /\ InsertSoFar(pc, text, pos, n) /\ SelectSoFar(pc, text, pos, n, sel)

PInv == TypeOK /\ EofInv /\ BlockInv /\ ReadInv

-----------------------------------------------------------------------------
(* Reading a token.                                                        *)

LEMMA ReadToken ==
  ASSUME PInv, NEW at \in Parsing, NEW K \in SUBSET TokenKinds, Read(at, K)
  PROVE  /\ pc = at /\ pos \in Nat /\ Len(text) \in Nat /\ Len(text') \in Nat
         /\ text' \in Seq(TokenKinds) /\ Len(text') <= MaxTokens
         /\ Len(text) <= Len(text') /\ pos <= Len(text) /\ pos + 1 <= Len(text')
         /\ \A i \in 1 .. Len(text) : text'[i] = text[i]
         /\ \A i \in 1 .. pos : text'[i] = text[i]
         /\ text'[pos + 1] \in K
         /\ Len(text') = MaxTokens => text'[MaxTokens] = "eof"
<1>1. /\ pc = at /\ pos \in 0 .. Len(text) /\ text \in Seq(TokenKinds) /\ Len(text) <= MaxTokens
      /\ Len(text) = MaxTokens => text[MaxTokens] = "eof"
      /\ \A i \in 1 .. pos : text[i] # "eof"
  BY DEF PInv, TypeOK, EofInv, Read
<1>2. PICK k \in lexer_next \cap K : text' = IF pos < Len(text) THEN text ELSE Append(text, k)
  BY DEF Read
<1>3. CASE pos < Len(text)
  <2>1. text' = text /\ text[pos + 1] \in K
    BY <1>2, <1>3 DEF lexer_next
  <2> QED
    BY <1>1, <1>3, <2>1
<1>4. CASE pos = Len(text)
  <2>1. text' = Append(text, k) /\ Len(text) # MaxTokens
    BY <1>1, <1>2, <1>4, ParserAssumption
  <2>2. /\ Len(text') = Len(text) + 1 /\ text' \in Seq(TokenKinds)
        /\ text'[Len(text) + 1] = k
        /\ \A i \in 1 .. Len(text) : text'[i] = text[i]
    BY <1>1, <1>2, <2>1
  <2>3. Len(text) = MaxTokens - 1 => k = "eof"
    BY <1>2, <1>4 DEF lexer_next
  <2> QED
    BY <1>1, <1>2, <1>4, <2>1, <2>2, <2>3, ParserAssumption
<1> QED
  BY <1>1, <1>3, <1>4

-----------------------------------------------------------------------------
(* Lists.                                                                  *)

\* A list is the same in any text that has the same tokens there.
LEMMA AlternatesKept ==
  ASSUME NEW t, NEW u, NEW a \in Int, NEW b \in Int, NEW K, Alternates(t, a, b, K),
         \A i \in a .. b : u[i] = t[i]
  PROVE  Alternates(u, a, b, K)
BY DEF Alternates, InTurn

\* A list goes on with whatever is in turn.
LEMMA AlternatesGrows ==
  ASSUME NEW t, NEW a \in Int, NEW b \in Int, NEW K, Alternates(t, a, b, K), InTurn(t, a, b + 1, K)
  PROVE  Alternates(t, a, b + 1, K)
<1>1. \A i \in a .. b + 1 : i \in a .. b \/ i = b + 1
  OBVIOUS
<1> QED
  BY <1>1 DEF Alternates

LEMMA NoneAlternate ==
  ASSUME NEW t, NEW a \in Int, NEW b \in Int, NEW K, b < a
  PROVE  Alternates(t, a, b, K)
BY DEF Alternates

\* The parities of the places in a list that starts at place 2 or 6.
LEMMA Parity ==
  \A k \in Int : /\ Even(2 * k - 2) /\ Even(2 * k - 6)
                 /\ ~Even((2 * k + 1) - 2) /\ ~Even((2 * k + 1) - 6)
BY DEF Even

LEMMA CommaInTurn ==
  \A k \in Int : \A t, K : t[2 * k + 1] = "," => /\ InTurn(t, 2, 2 * k + 1, K)
                                                 /\ InTurn(t, 6, 2 * k + 1, K)
<1>1. \A t, a, i, K : ~Even(i - a) /\ t[i] = "," => InTurn(t, a, i, K)
  BY DEF InTurn
<1>2. TAKE k \in Int
<1>3. ~Even((2 * k + 1) - 2) /\ ~Even((2 * k + 1) - 6)
  BY Parity
<1> QED
  BY <1>1, <1>3, Zenon

LEMMA ElementInTurn ==
  \A k \in Int : \A t, K : t[2 * k] \in K => InTurn(t, 2, 2 * k, K) /\ InTurn(t, 6, 2 * k, K)
<1>1. TAKE k \in Int
<1>2. Even(2 * k - 2) /\ Even(2 * k - 6)
  BY Parity
<1> QED
  BY <1>2, Zenon DEF InTurn

-----------------------------------------------------------------------------
(* What was read stays true of a longer text.                              *)

LEMMA InsertKept ==
  ASSUME NEW at, NEW t, NEW u, NEW p \in Nat, NEW k \in Nat, InsertSoFar(at, t, p, k),
         \A i \in 1 .. p : u[i] = t[i]
  PROVE  InsertSoFar(at, u, p, k)
<1>1. Beginning(t, p) => Beginning(u, p)
  BY DEF Beginning
<1>2. p >= 5 /\ Alternates(t, 6, p, Literals) => Alternates(u, 6, p, Literals)
  BY AlternatesKept
<1>3. ValuesClosed(t, p, k) => ValuesClosed(u, p, k)
  <2> SUFFICES ASSUME ValuesClosed(t, p, k)
               PROVE  ValuesClosed(u, p, k)
    OBVIOUS
  <2>1. p >= 6 /\ p - 1 \in Int /\ Alternates(t, 6, p - 1, Literals)
    BY DEF ValuesClosed
  <2>2. Alternates(u, 6, p - 1, Literals)
    BY <2>1, AlternatesKept
  <2> QED
    BY <2>1, <2>2 DEF ValuesClosed
<1>4. p >= 1 /\ ValuesClosed(t, p - 1, k) => ValuesClosed(u, p - 1, k)
  <2> SUFFICES ASSUME p >= 1, ValuesClosed(t, p - 1, k)
               PROVE  ValuesClosed(u, p - 1, k)
    OBVIOUS
  <2>1. p >= 7 /\ p - 1 - 1 \in Int /\ Alternates(t, 6, p - 1 - 1, Literals)
    BY DEF ValuesClosed
  <2>2. Alternates(u, 6, p - 1 - 1, Literals)
    BY <2>1, AlternatesKept
  <2> QED
    BY <2>1, <2>2 DEF ValuesClosed
<1>5. at = "insert" => p >= 1 /\ u[p] = t[p]
  BY DEF InsertSoFar, ValuesClosed
<1> QED
  BY <1>1, <1>2, <1>3, <1>4, <1>5 DEF InsertSoFar

LEMMA SelectedKept ==
  ASSUME NEW t, NEW u, NEW g \in Int, NEW p \in Int, NEW k \in Nat, NEW all \in BOOLEAN,
         Selected(t, g, p, k, all), \A i \in 1 .. p : u[i] = t[i]
  PROVE  Selected(u, g, p, k, all)
<1>1. g \in Nat /\ g >= 4 /\ p >= g
  BY DEF Selected
<1>2. Condition(u, g, p)
  BY <1>1 DEF Selected, Condition
<1>3. Columns(t, g - 1, k, all)
  BY DEF Selected
<1>4. ~all => Alternates(u, 2, 2 * k, Identifiers)
  BY <1>1, <1>3, AlternatesKept DEF Columns
<1>5. Columns(u, g - 1, k, all)
  BY <1>1, <1>3, <1>4 DEF Columns
<1>6. u[g] \in Identifiers
  BY <1>1 DEF Selected
<1> QED
  BY <1>1, <1>2, <1>5, <1>6 DEF Selected

LEMMA SelectKept ==
  ASSUME NEW at, NEW t, NEW u, NEW p \in Nat, NEW k \in Nat,
         NEW s \in [all : BOOLEAN, where : BOOLEAN], SelectSoFar(at, t, p, k, s),
         \A i \in 1 .. p : u[i] = t[i]
  PROVE  SelectSoFar(at, u, p, k, s)
<1>1. s.all \in BOOLEAN /\ s.where \in BOOLEAN
  OBVIOUS
<1>2. \A q \in Int : q <= p =>
        \A g \in Int : Selected(t, g, q, k, s.all) => Selected(u, g, q, k, s.all)
  <2>1. TAKE q \in Int
  <2>2. HAVE q <= p
  <2>3. \A i \in 1 .. q : u[i] = t[i]
    BY <2>2
  <2>4. TAKE g \in Int
  <2>5. HAVE Selected(t, g, q, k, s.all)
  <2> QED
    BY <1>1, <2>3, <2>5, SelectedKept
<1>3. \A g \in Int : /\ Selected(t, g, p, k, s.all) => Selected(u, g, p, k, s.all)
                     /\ Selected(t, g, p - 1, k, s.all) => Selected(u, g, p - 1, k, s.all)
  <2>1. p \in Int /\ p <= p /\ p - 1 \in Int /\ p - 1 <= p
    OBVIOUS
  <2> QED
    BY <1>2, <2>1, Zenon
<1>4. Alternates(t, 2, p, Identifiers) => Alternates(u, 2, p, Identifiers)
  BY AlternatesKept
<1>5. Columns(t, p, k, s.all) => Columns(u, p, k, s.all)
  <2>1. Columns(t, p, k, s.all) => p >= 3
    BY DEF Columns
  <2>2. Columns(t, p, k, s.all) /\ ~s.all => Alternates(u, 2, 2 * k, Identifiers)
    BY <2>1, AlternatesKept DEF Columns
  <2> QED
    BY <2>1, <2>2 DEF Columns
<1>6. at = "select" => p >= 1 /\ u[p] = t[p]
  BY DEF SelectSoFar, Selected
<1> QED
  BY <1>3, <1>4, <1>5, <1>6 DEF SelectSoFar

LEMMA StringsKept ==
  ASSUME NEW t, NEW u, NEW k \in Nat, \A i \in 1 .. 2 * k + 4 : u[i] = t[i]
  PROVE  Strings(u, k) = Strings(t, k)
<1>1. \A i \in 1 .. k : 2 * i + 4 \in 1 .. 2 * k + 4
  OBVIOUS
<1> QED
  BY <1>1 DEF Strings

-----------------------------------------------------------------------------
(* What every step has in common.                                          *)

\* The invariant of the text read with the token that is read now.
LEMMA AtRead ==
  ASSUME PInv, NEW at \in Parsing, NEW K \in SUBSET TokenKinds, Read(at, K)
  PROVE  /\ pos \in Nat /\ n \in Nat /\ cap \in Nat /\ sel \in [all : BOOLEAN, where : BOOLEAN]
         /\ blocks \subseteq {"table", "list", "stmt"} /\ texts \subseteq 1 .. n
         /\ BlockAt(at, blocks, n, cap, sel) /\ TextsAt(at, text', n, texts)
         /\ InsertSoFar(at, text', pos, n) /\ SelectSoFar(at, text', pos, n, sel)
         /\ text'[pos + 1] \in K
<1>1. /\ pc = at /\ pos \in Nat /\ n \in Nat /\ cap \in Nat
      /\ sel \in [all : BOOLEAN, where : BOOLEAN]
      /\ blocks \subseteq {"table", "list", "stmt"} /\ texts \subseteq 1 .. n
  BY ReadToken DEF PInv, TypeOK
<1>2. \A i \in 1 .. pos : text'[i] = text[i]
  BY ReadToken
<1>3. /\ BlockAt(at, blocks, n, cap, sel) /\ TextsAt(at, text, n, texts)
      /\ InsertSoFar(at, text, pos, n) /\ SelectSoFar(at, text, pos, n, sel)
  BY <1>1 DEF PInv, BlockInv, ReadInv
<1>4. InsertSoFar(at, text', pos, n)
  BY <1>1, <1>2, <1>3, InsertKept
<1>5. SelectSoFar(at, text', pos, n, sel)
  BY <1>1, <1>2, <1>3, SelectKept
<1>6. at \in InsertReads => n = 0 \/ 2 * n + 4 <= pos
  <2>1. at \in NoList => n = 0
    BY <1>3 DEF BlockAt
  <2>2. at \in InsertReads => at \in NoList \cup {"first", "sep", "value", "end"}
    BY DEF InsertReads, NoList
  <2>3. at = "end" => n = 0 \/ 2 * n + 4 <= pos
    BY <1>1, <1>3 DEF InsertSoFar, ValuesClosed
  <2>4. at = "first" => n = 0
    BY <1>3 DEF InsertSoFar
  <2>5. at \in {"sep", "value"} => 2 * n + 4 <= pos
    BY <1>1, <1>3 DEF InsertSoFar
  <2> QED
    BY <2>1, <2>2, <2>3, <2>4, <2>5
<1>7. at \in InsertReads => Strings(text', n) = Strings(text, n)
  <2>1. CASE n = 0
    BY <2>1 DEF Strings
  <2>2. CASE 2 * n + 4 <= pos
    BY <1>1, <1>2, <2>2, StringsKept
  <2> QED
    BY <1>6, <2>1, <2>2
<1>8. TextsAt(at, text', n, texts)
  <2>1. at \notin {"insert", "select", "error"}
    BY DEF Parsing, InsertReads, SelectReads
  <2> QED
    BY <1>3, <1>7, <2>1 DEF TextsAt
<1>9. text'[pos + 1] \in K
  BY ReadToken
<1> QED
  BY <1>1, <1>3, <1>4, <1>5, <1>8, <1>9

\* What holds at the place the parser goes to holds after the step.
LEMMA Going ==
  ASSUME PInv, NEW at \in Parsing, NEW K \in SUBSET TokenKinds, Read(at, K), NEW place,
         Goto(place), place \in {"insert", "select"} \/ (place \in Parsing /\ "eof" \notin K),
         blocks' \subseteq {"table", "list", "stmt"}, n' \in Nat, cap' \in Nat,
         texts' \subseteq 1 .. n', sel' \in [all : BOOLEAN, where : BOOLEAN], oom' = oom,
         BlockAt(place, blocks', n', cap', sel'), TextsAt(place, text', n', texts'),
         InsertSoFar(place, text', pos + 1, n'), SelectSoFar(place, text', pos + 1, n', sel')
  PROVE  PInv'
<1>1. TypeOK' /\ EofInv'
  <2>1. pc' = place /\ pos' = pos + 1
    BY DEF Goto
  <2>2. TypeOK'
    BY <2>1, ReadToken DEF PInv, TypeOK
  <2>3. \A i \in 1 .. pos : text[i] # "eof"
    BY ReadToken DEF PInv, EofInv
  <2>4. pc' \in Parsing => \A i \in 1 .. pos' : text'[i] # "eof"
    BY <2>1, <2>3, ReadToken DEF Parsing, InsertReads, SelectReads
  <2>5. EofInv'
    BY <2>4, ReadToken DEF EofInv
  <2> QED
    BY <2>2, <2>5
<1>2. pc' = place /\ pos' = pos + 1
  BY DEF Goto
<1>3. BlockInv'
  BY <1>2 DEF BlockInv
<1>4. ReadInv'
  BY <1>2 DEF ReadInv
<1> QED
  BY <1>1, <1>3, <1>4 DEF PInv

\* The parser gives up: the other one starts, or none is left, and every block
\* is free.
LEMMA Rejected ==
  ASSUME PInv, NEW at \in Parsing, NEW K \in SUBSET TokenKinds, Read(at, K), NEW bs, bs = Owned(at),
         Reject(bs), oom' \in BOOLEAN
  PROVE  PInv'
<1>1. /\ pc = at /\ text' \in Seq(TokenKinds) /\ Len(text') <= MaxTokens /\ Len(text') \in Nat
      /\ Len(text') = MaxTokens => text'[MaxTokens] = "eof"
  BY ReadToken
<1>2. /\ blocks' = blocks \ bs /\ n' = 0 /\ cap' = 0 /\ pos' = 0 /\ sel' = NoSel
      /\ texts' = IF "list" \in bs THEN texts \ (1 .. n) ELSE texts
      /\ pc' \in {"SELECT", "error"}
  BY DEF Reject, Free
<1>3. blocks \subseteq bs
  BY AtRead DEF BlockAt
<1>4. texts \subseteq 1 .. n /\ ("list" \notin bs => texts = {})
  <2>1. "list" \notin bs => at \in NoList
    BY DEF Owned, NoList, Parsing, InsertReads, SelectReads
  <2>2. at \in NoList => n = 0
    BY AtRead DEF BlockAt
  <2>3. n \in Nat /\ texts \subseteq 1 .. n
    BY AtRead
  <2>4. n = 0 => texts = {}
    BY <2>3
  <2> QED
    BY <2>1, <2>2, <2>3, <2>4
<1>5. blocks' = {} /\ texts' = {}
  BY <1>2, <1>3, <1>4
<1>6. TypeOK'
  BY <1>1, <1>2, <1>5 DEF TypeOK, NoSel, Parsing, SelectReads
<1>7. EofInv'
  BY <1>1, <1>2 DEF EofInv
<1>8. ReadInv'
  BY <1>2, <1>5 DEF ReadInv, TextsAt, InsertSoFar, SelectSoFar, InsertReads
<1>9. BlockInv'
  <2>1. Owned(pc') = {}
    BY <1>2 DEF Owned
  <2>2. NoSel.all = FALSE /\ NoSel.where = FALSE
    BY DEF NoSel
  <2> QED
    BY <1>2, <1>5, <2>1, <2>2 DEF BlockInv, BlockAt, NoList, InsertReads
<1> QED
  BY <1>6, <1>7, <1>8, <1>9 DEF PInv

LEMMA RefusedStep ==
  ASSUME PInv, NEW at \in Parsing, NEW K \in SUBSET TokenKinds, NEW bs, bs = Owned(at),
         Refused(at, K, bs) \/ NoMemory(at, K, bs)
  PROVE  PInv'
<1>1. CASE Refused(at, K, bs)
  <2>1. TokenKinds \ K \in SUBSET TokenKinds /\ oom' \in BOOLEAN
    BY <1>1 DEF Refused, PInv, TypeOK
  <2> QED
    BY <1>1, <2>1, Rejected DEF Refused
<1>2. CASE NoMemory(at, K, bs)
  BY <1>2, Rejected DEF NoMemory
<1> QED
  BY <1>1, <1>2

-----------------------------------------------------------------------------
(* One parser's part of the invariant says nothing about the other.        *)

LEMMA NotSelect ==
  ASSUME NEW at \in InsertReads \cup {"insert"}, NEW t, NEW p, NEW k, NEW s
  PROVE  SelectSoFar(at, t, p, k, s)
BY DEF SelectSoFar, InsertReads

LEMMA NotInsert ==
  ASSUME NEW at \in SelectReads \cup {"select"}, NEW t, NEW p, NEW k
  PROVE  InsertSoFar(at, t, p, k)
BY DEF InsertSoFar, SelectReads, InsertReads

-----------------------------------------------------------------------------
(* Tokens that are taken and change nothing else.                          *)

Taken(at, kind, place) ==
  Read(at, {kind}) /\ Goto(place) /\ UNCHANGED <<blocks, texts, n, cap, sel, oom>>

\* The tokens that are taken like that, and where they lead.
Leads(at, kind, place) ==
  \/ at = "INSERT" /\ kind = "INSERT" /\ place = "INTO"
  \/ at = "INTO" /\ kind = "INTO" /\ place = "table"
  \/ at = "VALUES" /\ kind = "VALUES" /\ place = "("
  \/ at = "first" /\ kind = ")" /\ place = "end"
  \/ at = "sep" /\ kind = ")" /\ place = "end"
  \/ at = "sep" /\ kind = "," /\ place = "value"
  \/ at = "SELECT" /\ kind = "SELECT" /\ place = "what"
  \/ at = "col_sep" /\ kind = "," /\ place = "column"
  \/ at = "col_sep" /\ kind = "FROM" /\ place = "sel_table"
  \/ at = "FROM" /\ kind = "FROM" /\ place = "sel_table"
  \/ at = "after_table" /\ kind = "WHERE" /\ place = "where_id"
  \/ at = "where_id" /\ kind = "id" /\ place = "="
  \/ at = "=" /\ kind = "=" /\ place = "where_int"

LEMMA LeadsInside ==
  ASSUME NEW at, NEW kind, NEW place, Leads(at, kind, place)
  PROVE  /\ at \in Parsing /\ place \in Parsing /\ {kind} \in SUBSET TokenKinds /\ "eof" \notin {kind}
         /\ \/ at \in InsertReads /\ place \in InsertReads
            \/ at \in SelectReads /\ place \in SelectReads
BY DEF Leads, Parsing, InsertReads, SelectReads, TokenKinds, Keywords, Identifiers, Punctuation

LEMMA BlockLeads ==
  ASSUME NEW at, NEW kind, NEW place, Leads(at, kind, place),
         NEW bs, NEW k \in Nat, NEW c \in Nat, NEW s, BlockAt(at, bs, k, c, s)
  PROVE  BlockAt(place, bs, k, c, s)
<1>1. /\ k <= c /\ bs = Owned(at) \ (IF s.all THEN {"list"} ELSE {})
      /\ at \in NoList => k = 0
      /\ at \in InsertReads \cup {"insert", "SELECT", "what", "col_sep", "column"} => s = NoSel
      /\ at = "FROM" => s.all = TRUE
      /\ s.where = FALSE
      /\ at \in {"first", "sep", "value", "col_sep", "column"} => c >= 1
  BY LeadsInside DEF BlockAt, Leads
<1>2. Owned(place) \ (IF s.all THEN {"list"} ELSE {}) = bs
  BY <1>1 DEF Leads, Owned, NoSel, InsertReads
<1>3. /\ place \in NoList => k = 0
      /\ place \in InsertReads \cup {"insert", "SELECT", "what", "col_sep", "column"} => s = NoSel
      /\ place \notin {"FROM", "sel_end", "error", "insert", "select"}
      /\ place \in {"first", "sep", "value", "col_sep", "column"} => c >= 1
  BY <1>1 DEF Leads, NoList, InsertReads
<1> QED
  BY <1>1, <1>2, <1>3 DEF BlockAt

LEMMA InsertLeads ==
  ASSUME NEW at, NEW kind, NEW place, Leads(at, kind, place), NEW t, NEW p \in Nat, NEW k \in Nat,
         InsertSoFar(at, t, p, k), t[p + 1] = kind
  PROVE  InsertSoFar(place, t, p + 1, k)
<1>1. CASE at = "INSERT" /\ kind = "INSERT" /\ place = "INTO"
  BY <1>1 DEF InsertSoFar, Beginning, InsertReads
<1>2. CASE at = "INTO" /\ kind = "INTO" /\ place = "table"
  BY <1>2 DEF InsertSoFar, Beginning, InsertReads
<1>3. CASE at = "VALUES" /\ kind = "VALUES" /\ place = "("
  BY <1>3 DEF InsertSoFar, Beginning, InsertReads
<1>4. CASE at = "first" /\ kind = ")" /\ place = "end"
  <2>1. p = 5 /\ k = 0 /\ Beginning(t, p) /\ t[6] = ")"
    BY <1>4 DEF InsertSoFar, InsertReads
  <2>2. Alternates(t, 6, 5, Literals)
    BY NoneAlternate
  <2>3. ValuesClosed(t, 6, 0)
    BY <2>1, <2>2 DEF ValuesClosed
  <2>4. Beginning(t, 6)
    BY <2>1 DEF Beginning
  <2> QED
    BY <1>4, <2>1, <2>3, <2>4 DEF InsertSoFar, InsertReads
<1>5. CASE at = "sep" /\ kind = ")" /\ place = "end"
  <2>1. k >= 1 /\ p = 2 * k + 4 /\ Alternates(t, 6, p, Literals) /\ Beginning(t, p)
    BY <1>5 DEF InsertSoFar, InsertReads
  <2>2. ValuesClosed(t, p + 1, k)
    BY <1>5, <2>1 DEF ValuesClosed
  <2>3. Beginning(t, p + 1)
    BY <2>1 DEF Beginning
  <2> QED
    BY <1>5, <2>1, <2>2, <2>3 DEF InsertSoFar, InsertReads
<1>6. CASE at = "sep" /\ kind = "," /\ place = "value"
  <2>1. k >= 1 /\ p = 2 * k + 4 /\ Alternates(t, 6, p, Literals) /\ Beginning(t, p)
    BY <1>6 DEF InsertSoFar, InsertReads
  <2>2. InTurn(t, 6, p + 1, Literals)
    <3>1. k + 2 \in Int /\ p + 1 = 2 * (k + 2) + 1
      BY <2>1
    <3> QED
      BY <1>6, <3>1, CommaInTurn
  <2>3. Alternates(t, 6, p + 1, Literals)
    BY <2>1, <2>2, AlternatesGrows
  <2>4. Beginning(t, p + 1)
    BY <2>1 DEF Beginning
  <2>5. k >= 1 /\ p + 1 = 2 * k + 5
    BY <2>1
  <2> QED
    BY <1>6, <2>3, <2>4, <2>5 DEF InsertSoFar, InsertReads
<1>7. CASE at \in SelectReads
  BY <1>7, LeadsInside, NotInsert DEF InsertReads, SelectReads
<1> QED
  BY <1>1, <1>2, <1>3, <1>4, <1>5, <1>6, <1>7 DEF Leads, SelectReads

LEMMA SelectLeads ==
  ASSUME NEW at, NEW kind, NEW place, Leads(at, kind, place), NEW t, NEW p \in Nat, NEW k \in Nat,
         NEW s \in [all : BOOLEAN, where : BOOLEAN],
         at \in NoList => k = 0, at = "col_sep" => s = NoSel, at = "FROM" => s.all = TRUE,
         SelectSoFar(at, t, p, k, s), t[p + 1] = kind
  PROVE  SelectSoFar(place, t, p + 1, k, s)
<1>1. CASE at = "SELECT" /\ kind = "SELECT" /\ place = "what"
  BY <1>1 DEF SelectSoFar
<1>2. CASE at = "col_sep" /\ kind = "," /\ place = "column"
  <2>1. k >= 1 /\ p = 2 * k /\ t[1] = "SELECT" /\ Alternates(t, 2, p, Identifiers)
    BY <1>2 DEF SelectSoFar
  <2>2. InTurn(t, 2, p + 1, Identifiers)
    <3>1. k \in Int /\ p + 1 = 2 * k + 1
      BY <2>1
    <3> QED
      BY <1>2, <3>1, CommaInTurn
  <2>3. Alternates(t, 2, p + 1, Identifiers)
    BY <2>1, <2>2, AlternatesGrows
  <2>4. k >= 1 /\ p + 1 = 2 * k + 1
    BY <2>1
  <2> QED
    BY <1>2, <2>1, <2>3, <2>4 DEF SelectSoFar
<1>3. CASE at = "col_sep" /\ kind = "FROM" /\ place = "sel_table"
  <2>1. k >= 1 /\ p = 2 * k /\ t[1] = "SELECT" /\ Alternates(t, 2, p, Identifiers)
    BY <1>3 DEF SelectSoFar
  <2>2. s.all = FALSE
    BY <1>3 DEF NoSel
  <2>3. Columns(t, p + 1, k, s.all)
    BY <1>3, <2>1, <2>2 DEF Columns
  <2> QED
    BY <1>3, <2>3 DEF SelectSoFar
<1>4. CASE at = "FROM" /\ kind = "FROM" /\ place = "sel_table"
  <2>1. Columns(t, p + 1, k, s.all)
    BY <1>4 DEF SelectSoFar, Columns, NoList
  <2> QED
    BY <1>4, <2>1 DEF SelectSoFar
<1>5. CASE at = "after_table" /\ kind = "WHERE" /\ place = "where_id"
  <2>1. Selected(t, p, p, k, s.all)
    BY <1>5 DEF SelectSoFar
  <2>2. Selected(t, p, p + 1, k, s.all)
    BY <1>5, <2>1 DEF Selected, Condition
  <2> QED
    BY <1>5, <2>2 DEF SelectSoFar
<1>6. CASE at = "where_id" /\ kind = "id" /\ place = "="
  <2>1. Selected(t, p - 1, p, k, s.all)
    BY <1>6 DEF SelectSoFar
  <2>2. Selected(t, p - 1, p + 1, k, s.all)
    BY <1>6, <2>1 DEF Selected, Condition
  <2> QED
    BY <1>6, <2>2 DEF SelectSoFar
<1>7. CASE at = "=" /\ kind = "=" /\ place = "where_int"
  <2>1. Selected(t, p - 2, p, k, s.all)
    BY <1>7 DEF SelectSoFar
  <2>2. Selected(t, p - 2, p + 1, k, s.all)
    BY <1>7, <2>1 DEF Selected, Condition
  <2> QED
    BY <1>7, <2>2 DEF SelectSoFar
<1>8. CASE at \in InsertReads
  BY <1>8, LeadsInside, NotSelect DEF InsertReads, SelectReads
<1> QED
  BY <1>1, <1>2, <1>3, <1>4, <1>5, <1>6, <1>7, <1>8 DEF Leads, InsertReads

LEMMA TakenStep ==
  ASSUME PInv, NEW at, NEW kind, NEW place, Taken(at, kind, place), Leads(at, kind, place)
  PROVE  PInv'
<1>1. /\ at \in Parsing /\ place \in Parsing /\ {kind} \in SUBSET TokenKinds /\ "eof" \notin {kind}
      /\ \/ at \in InsertReads /\ place \in InsertReads
         \/ at \in SelectReads /\ place \in SelectReads
  BY LeadsInside
<1>2. Read(at, {kind}) /\ Goto(place)
      /\ blocks' = blocks /\ texts' = texts /\ n' = n /\ cap' = cap /\ sel' = sel /\ oom' = oom
  BY DEF Taken
<1>3. /\ pos \in Nat /\ n \in Nat /\ cap \in Nat /\ sel \in [all : BOOLEAN, where : BOOLEAN]
      /\ blocks \subseteq {"table", "list", "stmt"} /\ texts \subseteq 1 .. n
      /\ BlockAt(at, blocks, n, cap, sel) /\ TextsAt(at, text', n, texts)
      /\ InsertSoFar(at, text', pos, n) /\ SelectSoFar(at, text', pos, n, sel)
      /\ text'[pos + 1] = kind
  BY <1>1, <1>2, AtRead
<1>4. BlockAt(place, blocks, n, cap, sel)
  BY <1>3, BlockLeads
<1>5. TextsAt(place, text', n, texts)
  BY <1>1, <1>3 DEF TextsAt, InsertReads, SelectReads
<1>6. InsertSoFar(place, text', pos + 1, n)
  BY <1>3, InsertLeads
<1>7. SelectSoFar(place, text', pos + 1, n, sel)
  <2>1. (at \in NoList => n = 0) /\ (at = "col_sep" => sel = NoSel) /\ (at = "FROM" => sel.all = TRUE)
    BY <1>3 DEF BlockAt
  <2> QED
    BY <1>3, <2>1, SelectLeads
<1> QED
  BY <1>1, <1>2, <1>3, <1>4, <1>5, <1>6, <1>7, Going

-----------------------------------------------------------------------------
(* Tokens that are kept: the table, a value, a column, the id.             *)

TableLeads(at, place) == \/ at = "table" /\ place = "VALUES"
                         \/ at = "sel_table" /\ place = "after_table"

LEMMA TableStep ==
  ASSUME PInv, NEW at, NEW place, TableLeads(at, place),
         Read(at, Identifiers), Goto(place), blocks' = blocks \cup {"table"},
         UNCHANGED <<texts, n, cap, sel, oom>>
  PROVE  PInv'
<1>1. /\ at \in Parsing /\ Identifiers \in SUBSET TokenKinds /\ place \in Parsing
      /\ "eof" \notin Identifiers
  BY DEF TableLeads, Parsing, InsertReads, SelectReads, TokenKinds, Identifiers
<1>2. /\ pos \in Nat /\ n \in Nat /\ cap \in Nat /\ sel \in [all : BOOLEAN, where : BOOLEAN]
      /\ blocks \subseteq {"table", "list", "stmt"} /\ texts \subseteq 1 .. n
      /\ BlockAt(at, blocks, n, cap, sel) /\ TextsAt(at, text', n, texts)
      /\ InsertSoFar(at, text', pos, n) /\ SelectSoFar(at, text', pos, n, sel)
      /\ text'[pos + 1] \in Identifiers
  BY <1>1, AtRead
<1>3. BlockAt(place, blocks \cup {"table"}, n, cap, sel)
  <2>1. CASE at = "table" /\ place = "VALUES"
    BY <1>2, <2>1 DEF BlockAt, Owned, NoList, NoSel, Parsing, InsertReads
  <2>2. CASE at = "sel_table" /\ place = "after_table"
    <3>1. /\ n <= cap /\ blocks = Owned(at) \ (IF sel.all THEN {"list"} ELSE {})
          /\ sel.where = FALSE
      BY <1>1, <1>2, <2>2 DEF BlockAt
    <3>2. blocks \cup {"table"} = Owned(place) \ (IF sel.all THEN {"list"} ELSE {})
      BY <2>2, <3>1 DEF Owned
    <3> QED
      BY <2>2, <3>1, <3>2 DEF BlockAt, NoList, InsertReads
  <2> QED
    BY <2>1, <2>2 DEF TableLeads
<1>4. TextsAt(place, text', n, texts)
  BY <1>2 DEF TableLeads, TextsAt, InsertReads, SelectReads
<1>5. InsertSoFar(place, text', pos + 1, n)
  BY <1>2 DEF TableLeads, InsertSoFar, Beginning, InsertReads
<1>6. SelectSoFar(place, text', pos + 1, n, sel)
  <2>1. CASE at = "table" /\ place = "VALUES"
    BY <2>1, NotSelect DEF InsertReads
  <2>2. CASE at = "sel_table" /\ place = "after_table"
    <3>1. Columns(text', pos, n, sel.all)
      BY <1>2, <2>2 DEF SelectSoFar
    <3>2. pos + 1 \in Nat /\ pos + 1 >= 4 /\ (pos + 1) - 1 = pos
      BY <1>2, <3>1 DEF Columns
    <3>3. Selected(text', pos + 1, pos + 1, n, sel.all)
      BY <1>2, <3>1, <3>2 DEF Selected, Condition
    <3> QED
      BY <2>2, <3>3 DEF SelectSoFar
  <2> QED
    BY <2>1, <2>2 DEF TableLeads
<1> QED
  BY <1>1, <1>2, <1>3, <1>4, <1>5, <1>6, Going

LEMMA OpenStep ==
  ASSUME PInv, Read("(", {"("}), Goto("first"), blocks' = blocks \cup {"list"}, cap' = FirstCap,
         UNCHANGED <<texts, n, sel, oom>>
  PROVE  PInv'
<1>1. /\ "(" \in Parsing /\ {"("} \in SUBSET TokenKinds /\ "first" \in Parsing
      /\ "eof" \notin {"("} /\ "first" \in InsertReads
  BY DEF Parsing, InsertReads, SelectReads, TokenKinds, Punctuation
<1>2. /\ pos \in Nat /\ n \in Nat /\ FirstCap \in Nat /\ FirstCap >= 1
      /\ sel \in [all : BOOLEAN, where : BOOLEAN]
      /\ blocks \subseteq {"table", "list", "stmt"} /\ texts \subseteq 1 .. n
      /\ BlockAt("(", blocks, n, cap, sel) /\ TextsAt("(", text', n, texts)
      /\ InsertSoFar("(", text', pos, n)
      /\ text'[pos + 1] = "("
  BY <1>1, AtRead, ParserAssumption
<1>3. n = 0
  BY <1>2 DEF BlockAt, NoList
<1>4. BlockAt("first", blocks \cup {"list"}, n, FirstCap, sel)
  BY <1>2, <1>3 DEF BlockAt, Owned, NoList, NoSel, Parsing, InsertReads
<1>5. TextsAt("first", text', n, texts)
  BY <1>2 DEF TextsAt, InsertReads, SelectReads
<1>6. InsertSoFar("first", text', pos + 1, n)
  BY <1>2, <1>3 DEF InsertSoFar, Beginning, InsertReads
<1>7. SelectSoFar("first", text', pos + 1, n, sel)
  BY <1>1, NotSelect
<1> QED
  BY <1>1, <1>2, <1>4, <1>5, <1>6, <1>7, Going

\* Element k + 1 is stored: it has a string, if it is not NULL.
LEMMA StoredStrings ==
  ASSUME NEW t, NEW k \in Nat, NEW ts, ts = Strings(t, k)
  PROVE  (IF t[2 * k + 6] = "NULL" THEN ts ELSE ts \cup {k + 1}) = Strings(t, k + 1)
<1>1. 2 * (k + 1) + 4 = 2 * k + 6
  OBVIOUS
<1>2. 1 .. k + 1 = 1 .. k \cup {k + 1}
  OBVIOUS
<1>3. \A i \in 1 .. k : i # k + 1
  OBVIOUS
<1> QED
  BY <1>1, <1>2, <1>3 DEF Strings

LEMMA ValueStep ==
  ASSUME PInv, NEW at \in {"first", "value"}, Read(at, Literals), Goto("sep"),
         cap' = IF at = "first" THEN cap ELSE NewCap, Store(Token), UNCHANGED <<blocks, sel, oom>>
  PROVE  PInv'
<1>1. /\ at \in Parsing /\ Literals \in SUBSET TokenKinds /\ "sep" \in Parsing
      /\ "eof" \notin Literals /\ "sep" \in InsertReads /\ at \in InsertReads
  BY DEF Parsing, InsertReads, SelectReads, TokenKinds, Keywords, Literals
<1>2. /\ pos \in Nat /\ n \in Nat /\ cap \in Nat /\ sel \in [all : BOOLEAN, where : BOOLEAN]
      /\ blocks \subseteq {"table", "list", "stmt"} /\ texts \subseteq 1 .. n
      /\ BlockAt(at, blocks, n, cap, sel) /\ TextsAt(at, text', n, texts)
      /\ InsertSoFar(at, text', pos, n)
      /\ text'[pos + 1] \in Literals
  BY <1>1, AtRead
<1>3. n' = n + 1 /\ texts' = IF text'[pos + 1] = "NULL" THEN texts ELSE texts \cup {n + 1}
  BY DEF Store, Token
<1>4. n <= cap /\ cap >= 1
  BY <1>2 DEF BlockAt
<1>5. pos = 2 * n + 5 /\ Beginning(text', pos) /\ Alternates(text', 6, pos, Literals)
  <2>1. CASE at = "first"
    BY <1>1, <1>2, <2>1, NoneAlternate DEF InsertSoFar
  <2>2. CASE at = "value"
    BY <1>1, <1>2, <2>2 DEF InsertSoFar
  <2> QED
    BY <2>1, <2>2
<1>6. cap' \in Nat /\ n + 1 <= cap' /\ cap' >= 1
  <2>1. CASE at = "first"
    BY <1>2, <1>4, <2>1 DEF InsertSoFar
  <2>2. CASE at = "value"
    BY <1>2, <1>4, <2>2 DEF NewCap
  <2> QED
    BY <2>1, <2>2
<1>7. texts' = Strings(text', n + 1)
  <2>1. texts = Strings(text', n)
    BY <1>1, <1>2 DEF TextsAt
  <2>2. pos + 1 = 2 * n + 6
    BY <1>2, <1>5
  <2> QED
    BY <1>2, <1>3, <2>1, <2>2, StoredStrings
<1>8. BlockAt("sep", blocks, n + 1, cap', sel)
  <2>1. blocks = Owned(at) \ (IF sel.all THEN {"list"} ELSE {}) /\ sel = NoSel
    BY <1>1, <1>2 DEF BlockAt
  <2>2. Owned(at) = Owned("sep") /\ NoSel.where = FALSE
    BY DEF Owned, NoSel
  <2> QED
    BY <1>6, <2>1, <2>2 DEF BlockAt, NoList
<1>9. TextsAt("sep", text', n + 1, texts')
  BY <1>7 DEF TextsAt, SelectReads
<1>10. InsertSoFar("sep", text', pos + 1, n + 1)
  <2>1. n + 1 >= 1 /\ pos + 1 = 2 * (n + 1) + 4 /\ n + 3 \in Int /\ pos + 1 = 2 * (n + 3)
    BY <1>2, <1>5
  <2>2. InTurn(text', 6, pos + 1, Literals)
    <3>1. PICK k \in Int : k = n + 3
      BY <2>1
    <3>2. text'[2 * k] \in Literals /\ pos + 1 = 2 * k
      BY <1>2, <2>1, <3>1
    <3>3. InTurn(text', 6, 2 * k, Literals)
      BY <3>2, ElementInTurn
    <3> QED
      BY <3>2, <3>3
  <2>3. Alternates(text', 6, pos + 1, Literals)
    BY <1>2, <1>5, <2>2, AlternatesGrows
  <2>4. Beginning(text', pos + 1)
    BY <1>2, <1>5 DEF Beginning
  <2> QED
    BY <2>1, <2>3, <2>4 DEF InsertSoFar
<1>11. SelectSoFar("sep", text', pos + 1, n + 1, sel)
  BY <1>1, NotSelect
<1>12. n + 1 \in Nat /\ texts' \subseteq 1 .. n + 1
  BY <1>2, <1>7 DEF Strings
<1> QED
  BY <1>1, <1>2, <1>3, <1>6, <1>8, <1>9, <1>10, <1>11, <1>12, Going

LEMMA InsertDoneStep ==
  ASSUME PInv, Read("end", Terminators), Goto("insert"),
         blocks' = (IF n = 0 THEN blocks \ {"list"} ELSE blocks) \cup {"stmt"},
         UNCHANGED <<texts, n, cap, sel, oom>>
  PROVE  PInv'
<1>1. "end" \in Parsing /\ Terminators \in SUBSET TokenKinds /\ "end" \in InsertReads
  BY DEF Parsing, InsertReads, TokenKinds, Punctuation, Terminators
<1>2. /\ pos \in Nat /\ n \in Nat /\ cap \in Nat /\ sel \in [all : BOOLEAN, where : BOOLEAN]
      /\ blocks \subseteq {"table", "list", "stmt"} /\ texts \subseteq 1 .. n
      /\ BlockAt("end", blocks, n, cap, sel) /\ TextsAt("end", text', n, texts)
      /\ InsertSoFar("end", text', pos, n)
      /\ text'[pos + 1] \in Terminators
  BY <1>1, AtRead
<1>3. blocks' \subseteq {"table", "list", "stmt"}
  BY <1>2
<1>4. BlockAt("insert", blocks', n, cap, sel)
  <2>1. n <= cap /\ sel = NoSel /\ blocks = Owned("end") \ (IF sel.all THEN {"list"} ELSE {})
    BY <1>1, <1>2 DEF BlockAt
  <2>2. Owned("end") = {"table", "list"} /\ NoSel.all = FALSE /\ NoSel.where = FALSE
    BY DEF Owned, NoSel
  <2>3. blocks' = {"table", "stmt"} \cup (IF n = 0 THEN {} ELSE {"list"})
    BY <2>1, <2>2
  <2> QED
    BY <2>1, <2>2, <2>3 DEF BlockAt, NoList, Parsing, InsertReads, SelectReads
<1>5. TextsAt("insert", text', n, texts)
  BY <1>1, <1>2 DEF TextsAt, SelectReads
<1>6. InsertSoFar("insert", text', pos + 1, n)
  <2>1. ValuesClosed(text', pos, n) /\ Beginning(text', pos) /\ pos >= 5
    BY <1>1, <1>2 DEF InsertSoFar, ValuesClosed
  <2>2. Beginning(text', pos + 1)
    BY <1>2, <2>1 DEF Beginning
  <2>3. (pos + 1) - 1 = pos
    BY <1>2
  <2>4. PICK q \in Nat : q = pos + 1
    BY <1>2
  <2>5. ValuesClosed(text', q - 1, n) /\ text'[q] \in Terminators /\ Beginning(text', q)
    BY <1>2, <2>1, <2>2, <2>3, <2>4
  <2>6. InsertSoFar("insert", text', q, n)
    BY <2>5 DEF InsertSoFar
  <2> QED
    BY <2>4, <2>6
<1>7. SelectSoFar("insert", text', pos + 1, n, sel)
  BY NotSelect
<1> QED
  BY <1>1, <1>2, <1>3, <1>4, <1>5, <1>6, <1>7, Going

LEMMA StarStep ==
  ASSUME PInv, Read("what", {"*"}), Goto("FROM"), sel' = [sel EXCEPT !.all = TRUE],
         UNCHANGED <<blocks, texts, n, cap, oom>>
  PROVE  PInv'
<1>1. /\ "what" \in Parsing /\ {"*"} \in SUBSET TokenKinds /\ "FROM" \in Parsing
      /\ "eof" \notin {"*"} /\ "FROM" \in SelectReads /\ "what" \in SelectReads
  BY DEF Parsing, InsertReads, SelectReads, TokenKinds, Punctuation
<1>2. /\ pos \in Nat /\ n \in Nat /\ cap \in Nat
      /\ blocks \subseteq {"table", "list", "stmt"} /\ texts \subseteq 1 .. n
      /\ BlockAt("what", blocks, n, cap, sel) /\ TextsAt("what", text', n, texts)
      /\ SelectSoFar("what", text', pos, n, sel)
      /\ text'[pos + 1] = "*"
  BY <1>1, AtRead
<1>3. n = 0 /\ sel = NoSel /\ n <= cap /\ blocks = Owned("what") \ (IF sel.all THEN {"list"} ELSE {})
  BY <1>1, <1>2 DEF BlockAt, NoList
<1>4. sel' \in [all : BOOLEAN, where : BOOLEAN] /\ sel'.all = TRUE /\ sel'.where = FALSE
  BY <1>3 DEF NoSel
<1>5. BlockAt("FROM", blocks, n, cap, sel')
  <2>1. blocks = {} /\ Owned("FROM") = {}
    BY <1>3 DEF Owned
  <2> QED
    BY <1>3, <1>4, <2>1 DEF BlockAt, InsertReads
<1>6. TextsAt("FROM", text', n, texts)
  BY <1>1, <1>2 DEF TextsAt, InsertReads
<1>7. InsertSoFar("FROM", text', pos + 1, n)
  BY <1>1, NotInsert
<1>8. SelectSoFar("FROM", text', pos + 1, n, sel')
  <2>1. pos + 1 = 2 /\ text'[1] = "SELECT" /\ text'[2] = "*"
    BY <1>2 DEF SelectSoFar
  <2> QED
    BY <2>1 DEF SelectSoFar
<1> QED
  BY <1>1, <1>2, <1>4, <1>5, <1>6, <1>7, <1>8, Going

LEMMA ColumnStep ==
  ASSUME PInv, NEW at \in {"what", "column"}, Read(at, Identifiers), Goto("col_sep"), Store(Token),
         \/ at = "what" /\ blocks' = blocks \cup {"list"} /\ cap' = FirstCap
         \/ at = "column" /\ blocks' = blocks /\ cap' = NewCap,
         UNCHANGED <<sel, oom>>
  PROVE  PInv'
<1>1. /\ at \in Parsing /\ Identifiers \in SUBSET TokenKinds /\ "col_sep" \in Parsing
      /\ "eof" \notin Identifiers /\ "col_sep" \in SelectReads /\ at \in SelectReads
  BY DEF Parsing, SelectReads, TokenKinds, Identifiers
<1>2. /\ pos \in Nat /\ n \in Nat /\ cap \in Nat /\ sel \in [all : BOOLEAN, where : BOOLEAN]
      /\ blocks \subseteq {"table", "list", "stmt"} /\ texts \subseteq 1 .. n
      /\ BlockAt(at, blocks, n, cap, sel) /\ TextsAt(at, text', n, texts)
      /\ SelectSoFar(at, text', pos, n, sel)
      /\ text'[pos + 1] \in Identifiers
  BY <1>1, AtRead
<1>3. n' = n + 1 /\ texts' = texts \cup {n + 1}
  BY <1>2 DEF Store, Token, Identifiers
<1>4. n <= cap /\ sel = NoSel /\ sel.all = FALSE /\ sel.where = FALSE
  BY <1>2 DEF BlockAt, NoSel
<1>5. /\ pos = 2 * n + 1 /\ text'[1] = "SELECT" /\ Alternates(text', 2, pos, Identifiers)
      /\ at = "what" => n = 0
      /\ at = "column" => cap >= 1
  <2>1. CASE at = "what"
    <3>1. n = 0 /\ pos = 1 /\ text'[1] = "SELECT"
      BY <1>2, <2>1 DEF BlockAt, NoList, SelectSoFar
    <3> QED
      BY <2>1, <3>1, NoneAlternate
  <2>2. CASE at = "column"
    BY <1>2, <2>2 DEF SelectSoFar, BlockAt
  <2> QED
    BY <2>1, <2>2
<1>6. cap' \in Nat /\ n + 1 <= cap' /\ cap' >= 1
  <2>1. CASE at = "what" /\ cap' = FirstCap
    BY <1>5, <2>1, ParserAssumption
  <2>2. CASE at = "column" /\ cap' = NewCap
    BY <1>2, <1>4, <1>5, <2>2 DEF NewCap
  <2> QED
    BY <2>1, <2>2
<1>7. texts' = 1 .. n + 1
  <2>1. texts = 1 .. n
    BY <1>1, <1>2 DEF TextsAt
  <2> QED
    BY <1>2, <1>3, <2>1
<1>8. blocks' = {"list"}
  BY <1>1, <1>2, <1>4 DEF BlockAt, Owned
<1>9. BlockAt("col_sep", blocks', n + 1, cap', sel)
  <2>1. Owned("col_sep") = {"list"}
    BY DEF Owned
  <2> QED
    BY <1>4, <1>6, <1>8, <2>1 DEF BlockAt, NoList
<1>10. TextsAt("col_sep", text', n + 1, texts')
  BY <1>7 DEF TextsAt, InsertReads
<1>11. InsertSoFar("col_sep", text', pos + 1, n + 1)
  BY <1>1, NotInsert
<1>12. SelectSoFar("col_sep", text', pos + 1, n + 1, sel)
  <2>1. n + 1 >= 1 /\ n + 1 \in Int /\ pos + 1 = 2 * (n + 1)
    BY <1>2, <1>5
  <2>2. InTurn(text', 2, pos + 1, Identifiers)
    <3>1. PICK m \in Int : m = n + 1
      BY <2>1
    <3>2. pos + 1 = 2 * m
      BY <2>1, <3>1
    <3>3. text'[2 * m] \in Identifiers
      BY <1>2, <3>2
    <3>4. InTurn(text', 2, 2 * m, Identifiers)
      BY <3>3, ElementInTurn
    <3> QED
      BY <3>2, <3>4
  <2>3. Alternates(text', 2, pos + 1, Identifiers)
    BY <1>2, <1>5, <2>2, AlternatesGrows
  <2> QED
    BY <1>5, <2>1, <2>3 DEF SelectSoFar
<1>13. n + 1 \in Nat /\ texts' \subseteq 1 .. n + 1 /\ blocks' \subseteq {"table", "list", "stmt"}
  BY <1>2, <1>7, <1>8
<1> QED
  BY <1>1, <1>2, <1>3, <1>6, <1>9, <1>10, <1>11, <1>12, <1>13, Going

LEMMA WhereIntStep ==
  ASSUME PInv, Read("where_int", {"int"}), Goto("sel_end"), sel' = [sel EXCEPT !.where = TRUE],
         UNCHANGED <<blocks, texts, n, cap, oom>>
  PROVE  PInv'
<1>1. /\ "where_int" \in Parsing /\ {"int"} \in SUBSET TokenKinds /\ "sel_end" \in Parsing
      /\ "eof" \notin {"int"} /\ "sel_end" \in SelectReads /\ "where_int" \in SelectReads
  BY DEF Parsing, InsertReads, SelectReads, TokenKinds
<1>2. /\ pos \in Nat /\ n \in Nat /\ cap \in Nat /\ sel \in [all : BOOLEAN, where : BOOLEAN]
      /\ blocks \subseteq {"table", "list", "stmt"} /\ texts \subseteq 1 .. n
      /\ BlockAt("where_int", blocks, n, cap, sel) /\ TextsAt("where_int", text', n, texts)
      /\ SelectSoFar("where_int", text', pos, n, sel)
      /\ text'[pos + 1] = "int"
  BY <1>1, AtRead
<1>3. sel' \in [all : BOOLEAN, where : BOOLEAN] /\ sel'.all = sel.all /\ sel'.where = TRUE
  BY <1>2
<1>4. n <= cap /\ blocks = Owned("where_int") \ (IF sel.all THEN {"list"} ELSE {})
  BY <1>1, <1>2 DEF BlockAt
<1>5. BlockAt("sel_end", blocks, n, cap, sel')
  <2>1. Owned("where_int") = Owned("sel_end")
    BY DEF Owned
  <2> QED
    BY <1>3, <1>4, <2>1 DEF BlockAt, NoList, InsertReads
<1>6. TextsAt("sel_end", text', n, texts)
  BY <1>1, <1>2 DEF TextsAt, InsertReads
<1>7. InsertSoFar("sel_end", text', pos + 1, n)
  BY <1>1, NotInsert
<1>8. SelectSoFar("sel_end", text', pos + 1, n, sel')
  <2>1. Selected(text', pos - 3, pos, n, sel.all)
    BY <1>2 DEF SelectSoFar
  <2>2. Selected(text', pos - 3, pos + 1, n, sel.all)
    BY <1>2, <2>1 DEF Selected, Condition
  <2>3. (pos + 1) - 4 = pos - 3
    BY <1>2
  <2> QED
    BY <1>3, <2>2, <2>3 DEF SelectSoFar
<1> QED
  BY <1>1, <1>2, <1>3, <1>5, <1>6, <1>7, <1>8, Going

LEMMA SelectDoneStep ==
  ASSUME PInv, NEW at \in {"after_table", "sel_end"}, Read(at, Terminators), Goto("select"),
         blocks' = blocks \cup {"stmt"}, UNCHANGED <<texts, n, cap, sel, oom>>
  PROVE  PInv'
<1>1. /\ at \in Parsing /\ Terminators \in SUBSET TokenKinds /\ at \in SelectReads
  BY DEF Parsing, SelectReads, TokenKinds, Punctuation, Terminators
<1>2. /\ pos \in Nat /\ n \in Nat /\ cap \in Nat /\ sel \in [all : BOOLEAN, where : BOOLEAN]
      /\ blocks \subseteq {"table", "list", "stmt"} /\ texts \subseteq 1 .. n
      /\ BlockAt(at, blocks, n, cap, sel) /\ TextsAt(at, text', n, texts)
      /\ SelectSoFar(at, text', pos, n, sel)
      /\ text'[pos + 1] \in Terminators
  BY <1>1, AtRead
<1>3. blocks' \subseteq {"table", "list", "stmt"}
  BY <1>2
<1>4. /\ n <= cap /\ blocks = Owned(at) \ (IF sel.all THEN {"list"} ELSE {})
      /\ at = "after_table" => sel.where = FALSE
      /\ at = "sel_end" => sel.where = TRUE
  BY <1>1, <1>2 DEF BlockAt
<1>5. BlockAt("select", blocks', n, cap, sel)
  <2>1. Owned(at) = {"table", "list"}
    BY DEF Owned
  <2>2. blocks' = {"table", "stmt"} \cup (IF sel.all THEN {} ELSE {"list"})
    BY <1>4, <2>1
  <2> QED
    BY <1>4, <2>2 DEF BlockAt, NoList, Parsing, InsertReads, SelectReads
<1>6. TextsAt("select", text', n, texts)
  BY <1>1, <1>2 DEF TextsAt, InsertReads
<1>7. InsertSoFar("select", text', pos + 1, n)
  BY NotInsert
<1>8. SelectSoFar("select", text', pos + 1, n, sel)
  <2>1. CASE at = "after_table"
    <3>1. Selected(text', pos, pos, n, sel.all) /\ sel.where = FALSE /\ (pos + 1) - 1 = pos
      BY <1>2, <1>4, <2>1 DEF SelectSoFar
    <3> QED
      BY <1>2, <3>1 DEF SelectSoFar
  <2>2. CASE at = "sel_end"
    <3>1. /\ Selected(text', pos - 4, pos, n, sel.all) /\ sel.where = TRUE
          /\ (pos + 1) - 1 = pos /\ (pos + 1) - 5 = pos - 4
      BY <1>2, <1>4, <2>2 DEF SelectSoFar
    <3> QED
      BY <1>2, <3>1 DEF SelectSoFar
  <2> QED
    BY <2>1, <2>2
<1> QED
  BY <1>1, <1>2, <1>3, <1>5, <1>6, <1>7, <1>8, Going

-----------------------------------------------------------------------------
(* The invariant.                                                          *)

LEMMA PInvInit == Init => PInv
<1> SUFFICES ASSUME Init
             PROVE  PInv
  OBVIOUS
<1>1. TypeOK
  <2>1. text \in Seq(TokenKinds) /\ Len(text) = 0
    BY DEF Init
  <2>2. pc \in Parsing /\ sel \in [all : BOOLEAN, where : BOOLEAN]
    BY DEF Init, NoSel, Parsing, InsertReads
  <2>3. Len(text) <= MaxTokens /\ pos \in 0 .. Len(text)
    BY <2>1, ParserAssumption DEF Init
  <2>4. n \in Nat /\ cap \in Nat /\ texts \subseteq 1 .. n /\ oom \in BOOLEAN
    BY DEF Init
  <2>5. blocks \subseteq {"table", "list", "stmt"}
    BY DEF Init
  <2> QED
    BY <2>1, <2>2, <2>3, <2>4, <2>5 DEF TypeOK
<1>2. EofInv
  BY ParserAssumption DEF Init, EofInv
<1>3. BlockInv
  <2>1. Owned("INSERT") = {} /\ NoSel.where = FALSE
    BY DEF Owned, NoSel
  <2> QED
    BY <2>1 DEF Init, BlockInv, BlockAt, NoList, Parsing, InsertReads
<1>4. Strings(text, 0) = {}
  BY DEF Strings
<1>5. ReadInv
  BY <1>4 DEF Init, ReadInv, TextsAt, InsertSoFar, SelectSoFar, Beginning, SelectReads
<1> QED
  BY <1>1, <1>2, <1>3, <1>5 DEF PInv

\* What a place refuses, and an allocation that fails there, gives up its blocks.
LEMMA ExpectStep ==
  ASSUME PInv, NEW at, NEW kind, NEW place, NEW bs, Leads(at, kind, place), bs = Owned(at),
         lexer_expect(at, kind, place, bs)
  PROVE  PInv'
<1>1. CASE Taken(at, kind, place)
  BY <1>1, TakenStep
<1>2. CASE Refused(at, {kind}, bs)
  BY <1>2, LeadsInside, RefusedStep
<1> QED
  BY <1>1, <1>2 DEF lexer_expect, Taken

LEMMA ParseInsertStep ==
  ASSUME PInv, parse_insert
  PROVE  PInv'
<1>1. /\ Owned("INSERT") = {} /\ Owned("INTO") = {} /\ Owned("table") = {}
      /\ Owned("VALUES") = {"table"} /\ Owned("(") = {"table"}
      /\ \A at \in {"first", "sep", "value", "end"} : Owned(at) = {"table", "list"}
  BY DEF Owned
<1>2. {"INSERT", "INTO", "table", "VALUES", "(", "first", "sep", "value", "end"} \subseteq Parsing
  BY DEF Parsing, InsertReads
<1>3. /\ Identifiers \in SUBSET TokenKinds /\ {"("} \in SUBSET TokenKinds
      /\ Literals \in SUBSET TokenKinds /\ Literals \ {"NULL"} \in SUBSET TokenKinds
      /\ Literals \cup {")"} \in SUBSET TokenKinds /\ {",", ")"} \in SUBSET TokenKinds
      /\ TokenKinds \ {")", "error"} \in SUBSET TokenKinds /\ Terminators \in SUBSET TokenKinds
  BY DEF TokenKinds, Keywords, Identifiers, Literals, Punctuation, Terminators
<1>4. CASE \/ lexer_expect("INSERT", "INSERT", "INTO", {}) \/ lexer_expect("INTO", "INTO", "table", {})
           \/ lexer_expect("VALUES", "VALUES", "(", {"table"})
  <2>1. /\ Leads("INSERT", "INSERT", "INTO") /\ Leads("INTO", "INTO", "table")
        /\ Leads("VALUES", "VALUES", "(")
    BY DEF Leads
  <2> QED
    BY <1>1, <1>4, <2>1, ExpectStep
<1>5. CASE table_name("table", "VALUES", {})
  <2>1. CASE NoMemory("table", Identifiers, {}) \/ Refused("table", Identifiers, {})
    BY <1>1, <1>2, <1>3, <2>1, RefusedStep
  <2>2. CASE Read("table", Identifiers) /\ Goto("VALUES") /\ blocks' = blocks \cup {"table"}
             /\ UNCHANGED <<texts, n, cap, sel, oom>>
    BY <2>2, TableStep DEF TableLeads
  <2> QED
    BY <1>5, <2>1, <2>2 DEF table_name
<1>6. CASE open_values
  BY <1>1, <1>2, <1>3, <1>6, OpenStep, RefusedStep DEF open_values
<1>7. CASE first_value
  <2>1. CASE close_values("first")
    BY <2>1, TakenStep DEF close_values, Leads, Taken
  <2>2. CASE Read("first", Literals) /\ Goto("sep") /\ Store(Token) /\ UNCHANGED <<blocks, cap, sel, oom>>
    BY <2>2, ValueStep
  <2>3. CASE \/ NoMemory("first", Literals \ {"NULL"}, {"table", "list"})
             \/ Refused("first", Literals \cup {")"}, {"table", "list"})
    BY <1>1, <1>2, <1>3, <2>3, RefusedStep
  <2> QED
    BY <1>7, <2>1, <2>2, <2>3 DEF first_value
<1>8. CASE value_separator
  <2>1. CASE close_values("sep")
    BY <2>1, TakenStep DEF close_values, Leads, Taken
  <2>2. CASE Taken("sep", ",", "value")
    BY <2>2, TakenStep DEF Leads
  <2>3. CASE Refused("sep", {",", ")"}, {"table", "list"})
    BY <1>1, <1>2, <1>3, <2>3, RefusedStep
  <2> QED
    BY <1>8, <2>1, <2>2, <2>3 DEF value_separator, Taken
<1>9. CASE next_value
  <2>1. CASE Read("value", Literals) /\ Goto("sep") /\ cap' = NewCap /\ Store(Token)
             /\ UNCHANGED <<blocks, sel, oom>>
    BY <2>1, ValueStep
  <2>2. CASE Refused("value", Literals, {"table", "list"})
    BY <1>1, <1>2, <1>3, <2>2, RefusedStep
  <2>3. CASE NoMemory("value", IF n >= cap THEN TokenKinds \ {")", "error"}
                               ELSE Literals \ {"NULL"}, {"table", "list"})
    BY <1>1, <1>2, <1>3, <2>3, RefusedStep
  <2> QED
    BY <1>9, <2>1, <2>2, <2>3 DEF next_value
<1>10. CASE insert_done
  <2>1. CASE /\ Read("end", Terminators) /\ Goto("insert")
             /\ blocks' = (IF n = 0 THEN blocks \ {"list"} ELSE blocks) \cup {"stmt"}
             /\ UNCHANGED <<texts, n, cap, sel, oom>>
    BY <2>1, InsertDoneStep
  <2>2. CASE \/ NoMemory("end", Terminators, {"table", "list"})
             \/ Refused("end", Terminators, {"table", "list"})
    BY <1>1, <1>2, <1>3, <2>2, RefusedStep
  <2> QED
    BY <1>10, <2>1, <2>2 DEF insert_done
<1> QED
  BY <1>4, <1>5, <1>6, <1>7, <1>8, <1>9, <1>10 DEF parse_insert

LEMMA SelectDone ==
  ASSUME PInv, NEW at \in {"after_table", "sel_end"}, select_done(at)
  PROVE  PInv'
<1>1. at \in Parsing /\ Terminators \in SUBSET TokenKinds /\ Owned(at) = {"table", "list"}
  BY DEF Parsing, SelectReads, TokenKinds, Punctuation, Terminators, Owned
<1>2. CASE Read(at, Terminators) /\ Goto("select") /\ blocks' = blocks \cup {"stmt"}
           /\ UNCHANGED <<texts, n, cap, sel, oom>>
  BY <1>2, SelectDoneStep
<1>3. CASE NoMemory(at, Terminators, {"table", "list"})
  BY <1>1, <1>3, RefusedStep
<1> QED
  BY <1>2, <1>3 DEF select_done

LEMMA ParseSelectStep ==
  ASSUME PInv, parse_select
  PROVE  PInv'
<1>1. /\ Owned("SELECT") = {} /\ Owned("what") = {} /\ Owned("FROM") = {}
      /\ \A at \in {"col_sep", "column", "sel_table"} : Owned(at) = {"list"}
      /\ \A at \in {"after_table", "where_id", "=", "where_int", "sel_end"} :
           Owned(at) = {"table", "list"}
  BY DEF Owned
<1>2. {"SELECT", "what", "FROM", "col_sep", "column", "sel_table", "after_table", "where_id", "=",
       "where_int", "sel_end"} \subseteq Parsing
  BY DEF Parsing, SelectReads
<1>3. /\ Identifiers \in SUBSET TokenKinds /\ {"*"} \in SUBSET TokenKinds
      /\ Identifiers \cup {"*"} \in SUBSET TokenKinds /\ {",", "FROM"} \in SUBSET TokenKinds
      /\ {"int"} \in SUBSET TokenKinds /\ Terminators \cup {"WHERE"} \in SUBSET TokenKinds
      /\ Terminators \in SUBSET TokenKinds
  BY DEF TokenKinds, Keywords, Identifiers, Punctuation, Terminators
<1>4. CASE \/ lexer_expect("SELECT", "SELECT", "what", {})
           \/ lexer_expect("FROM", "FROM", "sel_table", {})
           \/ lexer_expect("where_id", "id", "=", {"table", "list"})
           \/ lexer_expect("=", "=", "where_int", {"table", "list"})
  <2>1. /\ Leads("SELECT", "SELECT", "what") /\ Leads("FROM", "FROM", "sel_table")
        /\ Leads("where_id", "id", "=") /\ Leads("=", "=", "where_int")
    BY DEF Leads
  <2> QED
    BY <1>1, <1>4, <2>1, ExpectStep
<1>5. CASE select_what
  <2>1. CASE Read("what", {"*"}) /\ Goto("FROM") /\ sel' = [sel EXCEPT !.all = TRUE]
             /\ UNCHANGED <<blocks, texts, n, cap, oom>>
    BY <2>1, StarStep
  <2>2. CASE Read("what", Identifiers) /\ Goto("col_sep") /\ blocks' = blocks \cup {"list"}
             /\ cap' = FirstCap /\ Store(Token) /\ UNCHANGED <<sel, oom>>
    BY <2>2, ColumnStep
  <2>3. CASE NoMemory("what", Identifiers, {}) \/ Refused("what", Identifiers \cup {"*"}, {})
    BY <1>1, <1>2, <1>3, <2>3, RefusedStep
  <2> QED
    BY <1>5, <2>1, <2>2, <2>3 DEF select_what
<1>6. CASE column_separator
  <2>1. CASE Taken("col_sep", ",", "column")
    BY <2>1, TakenStep DEF Leads
  <2>2. CASE Taken("col_sep", "FROM", "sel_table")
    BY <2>2, TakenStep DEF Leads
  <2>3. CASE Refused("col_sep", {",", "FROM"}, {"list"})
    BY <1>1, <1>2, <1>3, <2>3, RefusedStep
  <2>4. ASSUME NEW c \in {<<",", "column">>, <<"FROM", "sel_table">>},
               Read("col_sep", {c[1]}) /\ Goto(c[2]) /\ UNCHANGED <<blocks, texts, n, cap, sel, oom>>
        PROVE  PInv'
    <3>1. CASE c = <<",", "column">>
      BY <2>1, <2>4, <3>1 DEF Taken
    <3>2. CASE c = <<"FROM", "sel_table">>
      BY <2>2, <2>4, <3>2 DEF Taken
    <3> QED
      BY <3>1, <3>2
  <2> QED
    BY <1>6, <2>3, <2>4 DEF column_separator
<1>7. CASE next_column
  <2>1. CASE Read("column", Identifiers) /\ Goto("col_sep") /\ cap' = NewCap /\ Store(Token)
             /\ UNCHANGED <<blocks, sel, oom>>
    BY <2>1, ColumnStep
  <2>2. CASE NoMemory("column", Identifiers, {"list"}) \/ Refused("column", Identifiers, {"list"})
    BY <1>1, <1>2, <1>3, <2>2, RefusedStep
  <2> QED
    BY <1>7, <2>1, <2>2 DEF next_column
<1>8. CASE table_name("sel_table", "after_table", {"list"})
  BY <1>1, <1>2, <1>3, <1>8, TableStep, RefusedStep DEF table_name, TableLeads
<1>9. CASE after_table
  <2>1. CASE select_done("after_table")
    BY <2>1, SelectDone
  <2>2. CASE Taken("after_table", "WHERE", "where_id")
    BY <2>2, TakenStep DEF Leads
  <2>3. CASE Refused("after_table", Terminators \cup {"WHERE"}, {"table", "list"})
    BY <1>1, <1>2, <1>3, <2>3, RefusedStep
  <2> QED
    BY <1>9, <2>1, <2>2, <2>3 DEF after_table, Taken
<1>10. CASE where_int
  <2>1. CASE Read("where_int", {"int"}) /\ Goto("sel_end") /\ sel' = [sel EXCEPT !.where = TRUE]
             /\ UNCHANGED <<blocks, texts, n, cap, oom>>
    BY <2>1, WhereIntStep
  <2>2. CASE \/ NoMemory("where_int", {"int"}, {"table", "list"})
             \/ Refused("where_int", {"int"}, {"table", "list"})
    BY <1>1, <1>2, <1>3, <2>2, RefusedStep
  <2> QED
    BY <1>10, <2>1, <2>2 DEF where_int
<1>11. CASE where_end
  <2>1. CASE select_done("sel_end")
    BY <2>1, SelectDone
  <2>2. CASE Refused("sel_end", Terminators, {"table", "list"})
    BY <1>1, <1>2, <1>3, <2>2, RefusedStep
  <2> QED
    BY <1>11, <2>1, <2>2 DEF where_end
<1> QED
  BY <1>4, <1>5, <1>6, <1>7, <1>8, <1>9, <1>10, <1>11 DEF parse_select

LEMMA PInvStep ==
  ASSUME PInv, [Next]_vars
  PROVE  PInv'
<1>1. CASE parse_insert
  BY <1>1, ParseInsertStep
<1>2. CASE parse_select
  BY <1>2, ParseSelectStep
<1>3. CASE UNCHANGED vars
  BY <1>3 DEF vars, PInv, TypeOK, EofInv, BlockInv, ReadInv
<1> QED
  BY <1>1, <1>2, <1>3 DEF Next

\* The invariant holds throughout a parse, whatever the tokens are, at
\* whatever allocation memory runs out (parser.c).
THEOREM ParserInv == Spec => []PInv
<1>1. Init => PInv
  BY PInvInit
<1>2. PInv /\ [Next]_vars => PInv'
  BY PInvStep
<1> QED
  BY <1>1, <1>2, PTL DEF Spec

\* The parser's variables keep their types, and it reads no token it was not
\* given (pos and text of parser.c's LexerState).
THEOREM ParserTypeCorrect == Spec => []TypeOK
<1>1. PInv => TypeOK
  BY DEF PInv
<1> QED
  BY <1>1, ParserInv, PTL

\* However many values or columns a statement has, none is written past the end
\* of the array (vals[n] and cols[ncols], which grow by doubling).
THEOREM InBoundsCorrect == Spec => []InBounds
<1>1. PInv => InBounds
  BY DEF PInv, BlockInv, BlockAt, InBounds
<1> QED
  BY <1>1, ParserInv, PTL

-----------------------------------------------------------------------------
(* The two statements, token by token.                                     *)

\* The first L tokens of s are an INSERT.
InsertForm(s, L) ==
  /\ L >= 7 /\ Beginning(s, 5) /\ s[L - 1] = ")" /\ s[L] \in Terminators
  /\ L = 7 \/ (L >= 8 /\ Even(L - 8) /\ Alternates(s, 6, L - 2, Literals))

\* The first L tokens of s are a SELECT that has FROM as its token f.
SelectForm(s, f, L) ==
  /\ f >= 3 /\ f + 2 <= L
  /\ s[1] = "SELECT" /\ s[f] = "FROM" /\ s[f + 1] \in Identifiers /\ s[L] \in Terminators
  /\ (f = 3 /\ s[2] = "*") \/ (Even(f - 3) /\ Alternates(s, 2, f - 1, Identifiers))
  /\ L = f + 2 \/ (L = f + 6 /\ Condition(s, f + 1, f + 5))

\* Cutting a piece out of a sequence.
LEMMA Cut ==
  ASSUME NEW S, NEW s \in Seq(S), NEW a \in Nat, a >= 1, NEW b \in Nat, b <= Len(s)
  PROVE  /\ SubSeq(s, a, b) \in Seq(S)
         /\ Len(SubSeq(s, a, b)) = IF a <= b THEN (b - a) + 1 ELSE 0
         /\ \A i \in 1 .. (b - a) + 1 : SubSeq(s, a, b)[i] = s[(a + i) - 1]
<1>1. \A i \in a .. b : s[i] \in S
  OBVIOUS
<1>2. a \in Int /\ b \in Int
  OBVIOUS
<1>3. /\ SubSeq(s, a, b) \in Seq(S)
      /\ Len(SubSeq(s, a, b)) = IF a <= b THEN b - a + 1 ELSE 0
      /\ \A i \in 1 .. b - a + 1 : SubSeq(s, a, b)[i] = s[a + i - 1]
  BY <1>1, <1>2, SubSeqProperties
<1> QED
  BY <1>3

LEMMA OddNext == \A m \in Nat : (m + 1) % 2 = 1 <=> Even(m)
BY DEF Even

\* A list between commas, seen from the text it is cut out of.
LEMMA CommaListForm ==
  ASSUME NEW S, NEW s \in Seq(S), NEW a \in Nat, a >= 1, NEW b \in Nat, b <= Len(s), NEW K
  PROVE  CommaList(SubSeq(s, a, b), K) <=> a <= b /\ Even(b - a) /\ Alternates(s, a, b, K)
<1> DEFINE c == SubSeq(s, a, b)
<1>1. CASE a <= b
  <2>1. PICK m \in Nat : m = b - a
    BY <1>1
  <2>2. Len(c) = m + 1 /\ \A i \in 1 .. m + 1 : c[i] = s[(a + i) - 1]
    BY <1>1, <2>1, Cut
  <2>3. Len(c) % 2 = 1 <=> Even(b - a)
    <3>1. (m + 1) % 2 = 1 <=> Even(m)
      BY OddNext
    <3> HIDE DEF c
    <3> QED
      BY <2>1, <2>2, <3>1
  <2> HIDE DEF c
  <2>4. ASSUME \A i \in 1 .. m + 1 : IF i % 2 = 1 THEN c[i] \in K ELSE c[i] = ","
        PROVE  Alternates(s, a, b, K)
    <3>1. SUFFICES ASSUME NEW j \in a .. b
                   PROVE  InTurn(s, a, j, K)
      BY DEF Alternates
    <3>2. PICK i \in 1 .. m + 1 : i = (j - a) + 1
      BY <2>1
    <3>3. (i % 2 = 1 <=> Even(j - a)) /\ c[i] = s[j]
      <4>1. j - a \in Nat /\ i = (j - a) + 1
        BY <3>2
      <4>2. i % 2 = 1 <=> Even(j - a)
        BY <4>1, OddNext
      <4>3. (a + i) - 1 = j
        BY <3>2
      <4> QED
        BY <2>2, <4>2, <4>3
    <3>4. IF i % 2 = 1 THEN c[i] \in K ELSE c[i] = ","
      BY <2>4
    <3> QED
      BY <3>3, <3>4 DEF InTurn
  <2>5. ASSUME Alternates(s, a, b, K), NEW i \in 1 .. m + 1
        PROVE  IF i % 2 = 1 THEN c[i] \in K ELSE c[i] = ","
    <3>1. PICK j \in a .. b : j = (a + i) - 1
      BY <2>1
    <3>2. (i % 2 = 1 <=> Even(j - a)) /\ c[i] = s[j]
      <4>1. PICK k \in Nat : k = j - a /\ i = k + 1
        BY <3>1
      <4>2. i % 2 = 1 <=> Even(k)
        BY <4>1, OddNext
      <4>3. c[i] = s[j]
        BY <2>2, <3>1
      <4> QED
        BY <4>1, <4>2, <4>3
    <3>3. InTurn(s, a, j, K)
      BY <2>5 DEF Alternates
    <3> QED
      BY <3>2, <3>3 DEF InTurn
  <2> QED
    BY <1>1, <2>2, <2>3, <2>4, <2>5 DEF CommaList, c
<1>2. CASE b < a
  <2>1. Len(c) = 0
    BY <1>2, Cut
  <2> QED
    BY <1>2, <2>1 DEF CommaList
<1> QED
  BY <1>1, <1>2

LEMMA InsertIsForm ==
  ASSUME NEW s \in Seq(TokenKinds)
  PROVE  IsInsert(s) <=> InsertForm(s, Len(s))
<1>1. PICK L \in Nat : L = Len(s)
  OBVIOUS
<1>2. CASE L < 7
  BY <1>1, <1>2 DEF IsInsert, InsertForm
<1>3. CASE L >= 7
  <2>1. ValueList(s) = SubSeq(s, 6, L - 2) /\ L - 2 \in Nat /\ L - 2 <= Len(s)
    BY <1>1, <1>3 DEF ValueList
  <2>2. CommaList(ValueList(s), Literals)
          <=> 6 <= L - 2 /\ Even((L - 2) - 6) /\ Alternates(s, 6, L - 2, Literals)
    BY <2>1, CommaListForm
  <2>3. ValueList(s) = <<>> <=> L = 7
    <3>1. Len(SubSeq(s, 6, L - 2)) = IF 6 <= L - 2 THEN ((L - 2) - 6) + 1 ELSE 0
      BY <2>1, Cut
    <3>2. CASE L = 7
      BY <2>1, <3>2, SubSeqEmpty
    <3>3. CASE L # 7
      <4>1. Len(ValueList(s)) # 0
        BY <1>3, <2>1, <3>1, <3>3
      <4> QED
        BY <3>3, <4>1
    <3> QED
      BY <3>2, <3>3
  <2>4. (L - 2) - 6 = L - 8 /\ (6 <= L - 2 <=> L >= 8)
    BY <1>3
  <2>5. Beginning(s, 5) <=> /\ s[1] = "INSERT" /\ s[2] = "INTO" /\ s[3] \in Identifiers
                            /\ s[4] = "VALUES" /\ s[5] = "("
    BY DEF Beginning
  <2> QED
    BY <1>1, <1>3, <2>2, <2>3, <2>4, <2>5 DEF IsInsert, InsertForm
<1> QED
  BY <1>2, <1>3

LEMMA SelectIsForm ==
  ASSUME NEW s \in Seq(TokenKinds), NEW f \in 3 .. Len(s) - 2
  PROVE  IsSelectAt(s, f) <=> SelectForm(s, f, Len(s))
<1>1. PICK L \in Nat : L = Len(s)
  OBVIOUS
<1>2. f \in Nat /\ f >= 3 /\ f + 2 <= L
  BY <1>1
<1>3. CommaList(ColumnList(s, f), Identifiers) <=> Even(f - 3) /\ Alternates(s, 2, f - 1, Identifiers)
  <2>1. f - 1 \in Nat /\ f - 1 <= Len(s) /\ 2 <= f - 1 /\ (f - 1) - 2 = f - 3
    BY <1>1, <1>2
  <2>2. CommaList(SubSeq(s, 2, f - 1), Identifiers)
          <=> 2 <= f - 1 /\ Even((f - 1) - 2) /\ Alternates(s, 2, f - 1, Identifiers)
    BY <2>1, CommaListForm
  <2> QED
    BY <2>1, <2>2 DEF ColumnList
<1>4. ColumnList(s, f) = <<"*">> <=> f = 3 /\ s[2] = "*"
  <2>1. f - 1 \in Nat /\ f - 1 <= Len(s) /\ 2 <= f - 1
    BY <1>1, <1>2
  <2>2. /\ SubSeq(s, 2, f - 1) \in Seq(TokenKinds)
        /\ Len(SubSeq(s, 2, f - 1)) = ((f - 1) - 2) + 1
        /\ \A i \in 1 .. ((f - 1) - 2) + 1 : SubSeq(s, 2, f - 1)[i] = s[(2 + i) - 1]
    BY <2>1, Cut
  <2>3. PICK c \in Seq(TokenKinds) : c = SubSeq(s, 2, f - 1)
    BY <2>2
  <2>4. Len(c) = f - 2 /\ c[1] = s[2]
    BY <1>2, <2>2, <2>3
  <2>5. c = <<"*">> <=> f = 3 /\ s[2] = "*"
    <3>1. CASE f = 3
      <4>1. Len(c) = 1
        BY <2>4, <3>1
      <4>2. c = <<"*">> <=> c[1] = "*"
        BY <4>1
      <4> QED
        BY <2>4, <3>1, <4>2
    <3>2. CASE f # 3
      <4>1. Len(c) # 1 /\ Len(<<"*">>) = 1
        BY <1>2, <2>4, <3>2
      <4> QED
        BY <3>2, <4>1
    <3> QED
      BY <3>1, <3>2
  <2> QED
    BY <2>3, <2>5 DEF ColumnList
<1>5. SubSeq(s, f + 2, L - 1) = <<>> <=> L = f + 2
  <2>1. f + 2 \in Nat /\ f + 2 >= 1 /\ L - 1 \in Nat /\ L - 1 <= Len(s)
    BY <1>1, <1>2
  <2>2. Len(SubSeq(s, f + 2, L - 1)) = IF f + 2 <= L - 1 THEN ((L - 1) - (f + 2)) + 1 ELSE 0
    BY <2>1, Cut
  <2>3. CASE L = f + 2
    BY <2>1, <2>3, SubSeqEmpty
  <2>4. CASE L # f + 2
    <3>1. Len(SubSeq(s, f + 2, L - 1)) # 0
      BY <1>2, <2>2, <2>4
    <3> QED
      BY <2>4, <3>1
  <2> QED
    BY <2>3, <2>4
<1>6. SubSeq(s, f + 2, L - 1) = <<"WHERE", "id", "=", "int">>
        <=> L = f + 6 /\ Condition(s, f + 1, f + 5)
  <2>1. f + 2 \in Nat /\ f + 2 >= 1 /\ L - 1 \in Nat /\ L - 1 <= Len(s)
    BY <1>1, <1>2
  <2>2. /\ SubSeq(s, f + 2, L - 1) \in Seq(TokenKinds)
        /\ Len(SubSeq(s, f + 2, L - 1)) = IF f + 2 <= L - 1 THEN ((L - 1) - (f + 2)) + 1 ELSE 0
        /\ \A i \in 1 .. ((L - 1) - (f + 2)) + 1 :
             SubSeq(s, f + 2, L - 1)[i] = s[((f + 2) + i) - 1]
    BY <2>1, Cut
  <2>3. PICK c \in Seq(TokenKinds) : c = SubSeq(s, f + 2, L - 1)
    BY <2>2
  <2>4. Len(c) = 4 <=> L = f + 6
    BY <1>2, <2>2, <2>3
  <2>5. CASE L = f + 6
    <3>1. c[1] = s[f + 2] /\ c[2] = s[f + 3] /\ c[3] = s[f + 4] /\ c[4] = s[f + 5]
      BY <1>2, <2>2, <2>3, <2>5, SMTT(40)
    <3>2. Condition(s, f + 1, f + 5)
            <=> s[f + 2] = "WHERE" /\ s[f + 3] = "id" /\ s[f + 4] = "=" /\ s[f + 5] = "int"
      BY <1>2 DEF Condition
    <3>3. c = <<"WHERE", "id", "=", "int">>
            <=> c[1] = "WHERE" /\ c[2] = "id" /\ c[3] = "=" /\ c[4] = "int"
      BY <2>4, <2>5
    <3> QED
      BY <2>3, <2>5, <3>1, <3>2, <3>3
  <2>6. CASE L # f + 6
    <3>1. Len(<<"WHERE", "id", "=", "int">>) = 4
      OBVIOUS
    <3> QED
      BY <2>3, <2>4, <2>6, <3>1
  <2> QED
    BY <2>5, <2>6
<1> QED
  BY <1>1, <1>2, <1>3, <1>4, <1>5, <1>6 DEF IsSelectAt, SelectForm

-----------------------------------------------------------------------------
(* What is taken.                                                          *)

LEMMA ConsumedIsText ==
  ASSUME PInv
  PROVE  /\ pos \in Nat /\ pos <= Len(text) /\ n \in Nat
         /\ Consumed \in Seq(TokenKinds) /\ Len(Consumed) = pos
         /\ \A i \in 1 .. pos : Consumed[i] = text[i]
<1>1. text \in Seq(TokenKinds) /\ pos \in Nat /\ pos <= Len(text) /\ n \in Nat
  BY DEF PInv, TypeOK
<1>2. 1 \in Nat /\ 1 >= 1
  OBVIOUS
<1>3. /\ SubSeq(text, 1, pos) \in Seq(TokenKinds)
      /\ Len(SubSeq(text, 1, pos)) = IF 1 <= pos THEN (pos - 1) + 1 ELSE 0
      /\ \A i \in 1 .. (pos - 1) + 1 : SubSeq(text, 1, pos)[i] = text[(1 + i) - 1]
  BY <1>1, <1>2, Cut
<1> QED
  BY <1>1, <1>3 DEF Consumed

\* The number of elements of a list with k elements and the commas between them.
LEMMA ListLengths ==
  \A k \in Nat : k >= 1 => ((2 * k - 1) + 1) \div 2 = k
OBVIOUS

LEMMA InsertAccepted ==
  ASSUME PInv, pc = "insert"
  PROVE  /\ IsInsert(Consumed)
         /\ n = IF ValueList(Consumed) = <<>> THEN 0 ELSE ListLength(ValueList(Consumed))
         /\ \A i \in 1 .. n : ValueList(Consumed)[2 * i - 1] = text[2 * i + 4]
<1>1. PICK s \in Seq(TokenKinds) : s = Consumed
  BY ConsumedIsText
<1>2. /\ pos \in Nat /\ n \in Nat /\ Len(s) = pos /\ pos <= Len(text)
      /\ \A i \in 1 .. pos : s[i] = text[i]
  BY <1>1, ConsumedIsText
<1>3. InsertSoFar("insert", s, pos, n)
  <2>1. InsertSoFar("insert", text, pos, n)
    BY DEF PInv, ReadInv
  <2> QED
    BY <1>2, <2>1, InsertKept
<1>4. /\ Beginning(s, pos) /\ ValuesClosed(s, pos - 1, n) /\ s[pos] \in Terminators
  BY <1>3 DEF InsertSoFar
<1>5. /\ n = 0 => pos = 7
      /\ n >= 1 => pos = 2 * n + 6
      /\ pos >= 7 /\ s[pos - 1] = ")"
      /\ Alternates(s, 6, (pos - 1) - 1, Literals)
  BY <1>2, <1>4 DEF ValuesClosed
<1>6. IsInsert(s)
  <2>1. Beginning(s, 5)
    BY <1>2, <1>4, <1>5 DEF Beginning
  <2>2. n >= 1 => pos >= 8 /\ Even(pos - 8)
    <3>1. n \in Int => Even(2 * n - 2)
      BY Parity
    <3> QED
      BY <1>2, <1>5, <3>1
  <2>3. (pos - 1) - 1 = pos - 2
    BY <1>2
  <2>4. n = 0 \/ n >= 1
    BY <1>2
  <2> QED
    BY <1>2, <1>4, <1>5, <2>1, <2>2, <2>3, <2>4, InsertIsForm DEF InsertForm
<1>7. /\ Len(ValueList(s)) = pos - 7
      /\ \A i \in 1 .. pos - 7 : ValueList(s)[i] = s[i + 5]
  <2>1. pos - 2 \in Nat /\ pos - 2 <= Len(s) /\ 6 \in Nat /\ 6 >= 1
    BY <1>2, <1>5
  <2>2. /\ Len(SubSeq(s, 6, pos - 2)) = IF 6 <= pos - 2 THEN ((pos - 2) - 6) + 1 ELSE 0
        /\ \A i \in 1 .. ((pos - 2) - 6) + 1 : SubSeq(s, 6, pos - 2)[i] = s[(6 + i) - 1]
    BY <2>1, Cut
  <2> QED
    BY <1>2, <1>5, <2>2 DEF ValueList
<1>8. n = IF ValueList(s) = <<>> THEN 0 ELSE ListLength(ValueList(s))
  <2>1. CASE n = 0
    <3>1. ValueList(s) = SubSeq(s, 6, 5)
      BY <1>2, <1>5, <2>1 DEF ValueList
    <3>2. ValueList(s) = <<>>
      BY <3>1, SubSeqEmpty
    <3> QED
      BY <2>1, <3>2
  <2>2. CASE n >= 1
    <3>1. Len(ValueList(s)) = 2 * n - 1 /\ Len(ValueList(s)) # 0
      BY <1>2, <1>5, <1>7, <2>2
    <3>2. ValueList(s) # <<>>
      <4>1. Len(ValueList(s)) # 0
        BY <3>1
      <4> QED
        BY <4>1
    <3>3. ListLength(ValueList(s)) = n
      BY <1>2, <2>2, <3>1, ListLengths DEF ListLength
    <3> QED
      BY <3>2, <3>3
  <2> QED
    BY <1>2, <2>1, <2>2
<1>9. \A i \in 1 .. n : ValueList(s)[2 * i - 1] = text[2 * i + 4]
  <2>1. TAKE i \in 1 .. n
  <2>2. pos = 2 * n + 6 /\ 2 * i - 1 \in 1 .. pos - 7 /\ (2 * i - 1) + 5 = 2 * i + 4
        /\ 2 * i + 4 \in 1 .. pos
    BY <1>2, <1>5
  <2> QED
    BY <1>2, <1>7, <2>2
<1> QED
  BY <1>1, <1>6, <1>8, <1>9

\* A list holds no token but its elements and commas.
LEMMA NotInList ==
  \A t, a, b, K, i, x :
    Alternates(t, a, b, K) /\ i \in a .. b /\ x \notin K /\ x # "," => t[i] # x
<1>1. ASSUME NEW t, NEW a, NEW b, NEW K, Alternates(t, a, b, K), NEW i \in a .. b, NEW x,
             x \notin K, x # ","
      PROVE  t[i] # x
  BY <1>1 DEF Alternates, InTurn
<1> QED
  BY <1>1

LEMMA SelectAccepted ==
  ASSUME PInv, pc = "select"
  PROVE  \E i \in 1 .. pos :
           /\ Consumed[i] = "FROM" /\ IsSelectAt(Consumed, i)
           /\ sel.all = (ColumnList(Consumed, i) = <<"*">>)
           /\ n = IF sel.all THEN 0 ELSE ListLength(ColumnList(Consumed, i))
           /\ sel.where = (\E j \in 1 .. pos : Consumed[j] = "WHERE")
<1>1. PICK s \in Seq(TokenKinds) : s = Consumed
  BY ConsumedIsText
<1>2. /\ pos \in Nat /\ n \in Nat /\ Len(s) = pos /\ \A i \in 1 .. pos : s[i] = text[i]
      /\ sel \in [all : BOOLEAN, where : BOOLEAN]
  BY <1>1, ConsumedIsText DEF PInv, TypeOK
<1>3. SelectSoFar("select", s, pos, n, sel)
  <2>1. SelectSoFar("select", text, pos, n, sel)
    BY DEF PInv, ReadInv
  <2> QED
    BY <1>2, <2>1, SelectKept
<1>4. PICK all \in BOOLEAN, where \in BOOLEAN : all = sel.all /\ where = sel.where
  BY <1>2
<1>5. PICK g \in Nat : /\ g >= 4 /\ pos = IF where THEN g + 5 ELSE g + 1
                       /\ Selected(s, g, pos - 1, n, all)
  <2>1. CASE where
    <3>1. Selected(s, pos - 5, pos - 1, n, all)
      BY <1>3, <1>4, <2>1 DEF SelectSoFar
    <3>2. pos - 5 \in Nat /\ pos - 5 >= 4 /\ pos = (pos - 5) + 5
      BY <1>2, <3>1 DEF Selected
    <3> QED
      BY <2>1, <3>1, <3>2
  <2>2. CASE ~where
    <3>1. Selected(s, pos - 1, pos - 1, n, all)
      BY <1>3, <1>4, <2>2 DEF SelectSoFar
    <3>2. pos - 1 \in Nat /\ pos - 1 >= 4 /\ pos = (pos - 1) + 1
      BY <1>2, <3>1 DEF Selected
    <3> QED
      BY <2>2, <3>1, <3>2
  <2> QED
    BY <2>1, <2>2
<1>6. s[pos] \in Terminators
  BY <1>3 DEF SelectSoFar
<1>7. PICK f \in Nat : f = g - 1
  BY <1>5
<1>8. /\ f >= 3 /\ f + 2 <= pos /\ pos = IF where THEN f + 6 ELSE f + 2
      /\ s[1] = "SELECT" /\ s[f] = "FROM" /\ s[f + 1] \in Identifiers
      /\ Condition(s, f + 1, pos - 1)
      /\ all => f = 3 /\ n = 0 /\ s[2] = "*"
      /\ ~all => n >= 1 /\ f = 2 * n + 1 /\ Alternates(s, 2, 2 * n, Identifiers)
  <2>1. g - 1 = f /\ g = f + 1
    BY <1>5, <1>7
  <2> QED
    BY <1>5, <2>1 DEF Selected, Columns
<1>9. ~all => 2 * n = f - 1 /\ Even(f - 3) /\ 2 \in 2 .. 2 * n
  <2>1. n \in Int => Even(2 * n - 2)
    BY Parity
  <2> QED
    BY <1>2, <1>8, <2>1
<1>10. SelectForm(s, f, pos)
  <2>1. where => Condition(s, f + 1, f + 5)
    BY <1>8
  <2>2. ~all => Even(f - 3) /\ Alternates(s, 2, f - 1, Identifiers)
    BY <1>8, <1>9
  <2> QED
    BY <1>6, <1>8, <2>1, <2>2 DEF SelectForm
<1>11. f \in 3 .. Len(s) - 2 /\ f \in 1 .. pos
  BY <1>2, <1>8
<1>12. IsSelectAt(s, f)
  BY <1>2, <1>10, <1>11, SelectIsForm
<1>13. /\ Len(ColumnList(s, f)) = f - 2
       /\ \A i \in 1 .. f - 2 : ColumnList(s, f)[i] = s[i + 1]
       /\ ColumnList(s, f) \in Seq(TokenKinds)
  <2>1. f - 1 \in Nat /\ f - 1 <= Len(s) /\ 2 \in Nat /\ 2 >= 1
    BY <1>2, <1>8
  <2>2. /\ Len(SubSeq(s, 2, f - 1)) = IF 2 <= f - 1 THEN ((f - 1) - 2) + 1 ELSE 0
        /\ \A i \in 1 .. ((f - 1) - 2) + 1 : SubSeq(s, 2, f - 1)[i] = s[(2 + i) - 1]
        /\ SubSeq(s, 2, f - 1) \in Seq(TokenKinds)
    BY <2>1, Cut
  <2> QED
    BY <1>8, <2>2 DEF ColumnList
<1>14. ColumnList(s, f)[1] = s[2]
  BY <1>8, <1>13
<1>15. all => ColumnList(s, f) = <<"*">>
  <2>1. PICK c \in Seq(TokenKinds) : c = ColumnList(s, f)
    BY <1>13
  <2>2. all => Len(c) = 1 /\ c[1] = "*"
    <3>1. all => f = 3 /\ s[2] = "*"
      BY <1>8
    <3>2. Len(c) = f - 2 /\ c[1] = s[2]
      BY <1>13, <1>14, <2>1
    <3> QED
      BY <3>1, <3>2
  <2>3. all => c = <<"*">>
    BY <2>2
  <2> QED
    BY <2>1, <2>3
<1>16. ~all => ColumnList(s, f) # <<"*">>
  <2>1. ~all => s[2] # "*"
    <3>1. SUFFICES ASSUME ~all
                   PROVE  s[2] # "*"
      OBVIOUS
    <3>2. Alternates(s, 2, 2 * n, Identifiers) /\ 2 \in 2 .. 2 * n
      BY <1>8, <1>9, <3>1
    <3>3. "*" \notin Identifiers /\ "*" # ","
      BY DEF Identifiers
    <3> QED
      BY <3>2, <3>3, NotInList
  <2> QED
    BY <1>14, <2>1
<1>17. n = IF all THEN 0 ELSE ListLength(ColumnList(s, f))
  <2>1. CASE all
    BY <1>8, <2>1
  <2>2. CASE ~all
    <3>1. Len(ColumnList(s, f)) = 2 * n - 1 /\ n >= 1
      BY <1>2, <1>8, <1>13, <2>2
    <3>2. ListLength(ColumnList(s, f)) = n
      BY <1>2, <3>1, ListLengths DEF ListLength
    <3> QED
      BY <2>2, <3>2
  <2> QED
    BY <2>1, <2>2
<1>18. where => \E j \in 1 .. pos : s[j] = "WHERE"
  <2>1. where => f + 2 \in 1 .. pos /\ s[f + 2] = "WHERE"
    BY <1>2, <1>8 DEF Condition
  <2> QED
    BY <2>1
<1>19. ~where => ~\E j \in 1 .. pos : s[j] = "WHERE"
  <2> SUFFICES ASSUME ~where, NEW j \in 1 .. pos
               PROVE  s[j] # "WHERE"
    OBVIOUS
  <2>1. pos = f + 2
    BY <1>8
  <2>2. j = 1 \/ j \in 2 .. f - 1 \/ j = f \/ j = f + 1 \/ j = pos
    BY <1>2, <1>8, <2>1
  <2>3. CASE j \in 2 .. f - 1
    <3>1. CASE all
      BY <1>8, <2>3, <3>1
    <3>2. CASE ~all
      <4>1. Alternates(s, 2, 2 * n, Identifiers) /\ j \in 2 .. 2 * n
        BY <1>8, <1>9, <2>3, <3>2
      <4>2. "WHERE" \notin Identifiers /\ "WHERE" # ","
        BY DEF Identifiers
      <4> QED
        BY <4>1, <4>2, NotInList
    <3> QED
      BY <3>1, <3>2
  <2> QED
    BY <1>6, <1>8, <2>2, <2>3 DEF Identifiers, Terminators
<1>20. /\ s[f] = "FROM" /\ IsSelectAt(s, f)
       /\ all = (ColumnList(s, f) = <<"*">>)
       /\ n = IF all THEN 0 ELSE ListLength(ColumnList(s, f))
       /\ where = (\E j \in 1 .. pos : s[j] = "WHERE")
  BY <1>8, <1>12, <1>15, <1>16, <1>17, <1>18, <1>19, Zenon
<1> QED
  BY <1>1, <1>4, <1>11, <1>20, Zenon

-----------------------------------------------------------------------------
(* What is refused: no statement agrees with the tokens that were read, as *)
(* far as both go.  This is kept when more tokens are read.                *)

Agree(s, t) == \A i \in 1 .. Len(s) : i <= Len(t) => s[i] = t[i]

NoInsert(t) == \A s \in Seq(TokenKinds) : Agree(s, t) => ~IsInsert(s)
NoSelect(t) == \A s \in Seq(TokenKinds) : Agree(s, t) => ~IsSelect(s)

\* The tokens a place does not refuse.
Allowed(at) ==
  CASE at = "INSERT" -> {"INSERT"}
    [] at = "INTO" -> {"INTO"}
    [] at \in {"table", "column", "sel_table"} -> Identifiers
    [] at = "VALUES" -> {"VALUES"}
    [] at = "(" -> {"("}
    [] at = "first" -> Literals \cup {")"}
    [] at = "sep" -> {",", ")"}
    [] at = "value" -> Literals
    [] at \in {"end", "sel_end"} -> Terminators
    [] at = "SELECT" -> {"SELECT"}
    [] at = "what" -> Identifiers \cup {"*"}
    [] at = "col_sep" -> {",", "FROM"}
    [] at = "FROM" -> {"FROM"}
    [] at = "after_table" -> Terminators \cup {"WHERE"}
    [] at = "where_id" -> {"id"}
    [] at = "=" -> {"="}
    [] at = "where_int" -> {"int"}

LEMMA AgreeAt ==
  ASSUME NEW s, NEW t, Agree(s, t), NEW i \in 1 .. Len(s), i <= Len(t)
  PROVE  s[i] = t[i]
BY DEF Agree

\* A longer text agrees with fewer statements.
LEMMA AgreeShorter ==
  ASSUME NEW s, NEW t, NEW u, Len(t) \in Nat, Len(u) \in Nat, Len(t) <= Len(u),
         \A i \in 1 .. Len(t) : u[i] = t[i], Len(s) \in Nat, Agree(s, u)
  PROVE  Agree(s, t)
<1>1. SUFFICES ASSUME NEW i \in 1 .. Len(s), i <= Len(t)
               PROVE  s[i] = t[i]
  BY DEF Agree
<1>2. s[i] = u[i]
  BY <1>1 DEF Agree
<1> QED
  BY <1>1, <1>2

\* The parenthesis that closes the values is the first after token 5: it is not
\* in a list.
LEMMA CloseAfterList ==
  ASSUME NEW s, NEW t, Len(s) \in Nat, Len(t) \in Nat, Agree(s, t), InsertForm(s, Len(s)),
         NEW b \in Nat, b <= Len(t), Alternates(t, 6, b, Literals)
  PROVE  Len(s) - 1 > b
<1>1. SUFFICES ASSUME Len(s) - 1 <= b
               PROVE  FALSE
  OBVIOUS
<1>2. Len(s) >= 7 /\ s[Len(s) - 1] = ")"
  BY DEF InsertForm
<1>3. PICK q \in Nat : q = Len(s) - 1
  BY <1>2
<1>4. q \in 6 .. b /\ t[q] = ")" /\ Alternates(t, 6, b, Literals)
  <2>1. q \in 1 .. Len(s) /\ q <= Len(t) /\ s[q] = ")"
    BY <1>1, <1>2, <1>3
  <2>2. t[q] = ")"
    BY <2>1, AgreeAt
  <2> QED
    BY <1>1, <1>2, <1>3, <2>2
<1>5. ")" \notin Literals /\ ")" # ","
  BY DEF Literals
<1> QED
  BY <1>4, <1>5, NotInList

\* What a statement has where its list goes on.
LEMMA ElementThere ==
  \A s, a, b, K, i : Alternates(s, a, b, K) /\ i \in a .. b /\ Even(i - a) => s[i] \in K
BY DEF Alternates, InTurn

LEMMA CommaThere ==
  \A s, a, b, K, i : Alternates(s, a, b, K) /\ i \in a .. b /\ s[i] # "," => Even(i - a)
BY DEF Alternates, InTurn

LEMMA NoInsertThere ==
  ASSUME NEW at \in InsertReads, NEW t \in Seq(TokenKinds), NEW p \in Nat, NEW k \in Nat,
         p + 1 <= Len(t), InsertSoFar(at, t, p, k), t[p + 1] \notin Allowed(at)
  PROVE  NoInsert(t)
<1> SUFFICES ASSUME NEW s \in Seq(TokenKinds), Agree(s, t), IsInsert(s)
             PROVE  FALSE
  BY DEF NoInsert
<1>1. PICK L \in Nat : L = Len(s)
  OBVIOUS
<1>2. InsertForm(s, L) /\ L >= 7
  BY <1>1, InsertIsForm DEF InsertForm
<1>3. /\ s[1] = "INSERT" /\ s[2] = "INTO" /\ s[3] \in Identifiers /\ s[4] = "VALUES" /\ s[5] = "("
      /\ s[L - 1] = ")" /\ s[L] \in Terminators
      /\ L = 7 \/ (L >= 8 /\ Even(L - 8) /\ Alternates(s, 6, L - 2, Literals))
  BY <1>2 DEF InsertForm, Beginning
<1>4. \A i \in 1 .. L : i <= Len(t) => s[i] = t[i]
  BY <1>1 DEF Agree
<1>5. /\ p + 1 \in 1 .. L => s[p + 1] \notin Allowed(at)
      /\ L # 7 => Alternates(s, 6, L - 2, Literals)
  BY <1>3, <1>4
<1>6. CASE at \in {"INSERT", "INTO", "table", "VALUES", "("}
  <2>1. /\ at = "INSERT" => p + 1 = 1
        /\ at = "INTO" => p + 1 = 2
        /\ at = "table" => p + 1 = 3
        /\ at = "VALUES" => p + 1 = 4
        /\ at = "(" => p + 1 = 5
    BY DEF InsertSoFar
  <2>2. p + 1 \in 1 .. L
    BY <1>2, <1>6, <2>1
  <2> QED
    BY <1>3, <1>5, <1>6, <2>1, <2>2 DEF Allowed
<1>7. CASE at = "first"
  <2>1. p = 5 /\ 6 \in 1 .. L
    BY <1>2, <1>7 DEF InsertSoFar
  <2>2. s[6] \notin Literals /\ s[6] # ")"
    <3>1. Allowed(at) = Literals \cup {")"}
      BY <1>7 DEF Allowed
    <3> QED
      BY <1>5, <2>1, <3>1
  <2>3. L # 7
    BY <1>3, <2>2
  <2>4. 6 \in 6 .. L - 2 /\ Even(6 - 6)
    BY <1>3, <2>3 DEF Even
  <2>5. Alternates(s, 6, L - 2, Literals)
    BY <1>5, <2>3
  <2>6. s[6] \in Literals
    BY <2>4, <2>5, ElementThere
  <2> QED
    BY <2>2, <2>6
<1>8. CASE at = "sep"
  <2>1. k >= 1 /\ p = 2 * k + 4 /\ Alternates(t, 6, p, Literals)
    BY <1>8 DEF InsertSoFar
  <2>2. L - 1 > p
    BY <1>1, <1>2, <2>1, CloseAfterList
  <2>3. p + 1 \in 1 .. L /\ s[p + 1] # ")" /\ s[p + 1] # ","
    <3>1. Allowed(at) = {",", ")"}
      BY <1>8 DEF Allowed
    <3>2. p + 1 \in 1 .. L
      BY <2>2
    <3> QED
      BY <1>5, <3>1, <3>2
  <2>4. L - 1 # p + 1
    BY <1>3, <2>3
  <2>5. p + 1 \in 6 .. L - 2 /\ L # 7
    BY <1>1, <2>1, <2>2, <2>4
  <2>6. ~Even((p + 1) - 6)
    <3>1. ~Even((2 * (k + 2) + 1) - 6)
      BY Parity
    <3> QED
      BY <2>1, <3>1
  <2>7. Alternates(s, 6, L - 2, Literals)
    BY <1>5, <2>5
  <2> QED
    BY <2>3, <2>5, <2>6, <2>7, CommaThere
<1>9. CASE at = "value"
  <2>1. k >= 1 /\ p = 2 * k + 5 /\ Alternates(t, 6, p, Literals)
    BY <1>9 DEF InsertSoFar
  <2>2. L - 1 > p
    BY <1>1, <1>2, <2>1, CloseAfterList
  <2>3. p + 1 \in 1 .. L /\ s[p + 1] \notin Literals
    BY <1>1, <1>5, <1>9, <2>2 DEF Allowed
  <2>4. L # 7
    BY <1>1, <2>1, <2>2
  <2>5. L - 1 # p + 1
    <3>1. SUFFICES ASSUME L - 1 = p + 1
                   PROVE  ~Even(L - 8)
      BY <1>3, <2>4
    <3>2. L - 8 = (2 * k + 1) - 2
      BY <1>1, <2>1, <3>1
    <3>3. ~Even((2 * k + 1) - 2)
      BY Parity
    <3> QED
      BY <3>2, <3>3
  <2>6. p + 1 \in 6 .. L - 2
    BY <1>1, <2>1, <2>2, <2>5
  <2>7. Even((p + 1) - 6)
    <3>1. PICK m \in Int : m = k + 3
      OBVIOUS
    <3>2. Even(2 * m - 6)
      BY Parity
    <3> QED
      BY <2>1, <3>1, <3>2
  <2>8. Alternates(s, 6, L - 2, Literals)
    BY <1>5, <2>4
  <2>9. s[p + 1] \in Literals
    BY <2>6, <2>7, <2>8, ElementThere
  <2> QED
    BY <2>3, <2>9
<1>10. CASE at = "end"
  <2>1. p >= 6 /\ Alternates(t, 6, p - 1, Literals) /\ t[p] = ")"
    BY <1>10 DEF InsertSoFar, ValuesClosed
  <2>2. p - 1 \in Nat /\ p - 1 <= Len(t)
    BY <2>1
  <2>3. L - 1 > p - 1
    BY <1>1, <1>2, <2>1, <2>2, CloseAfterList
  <2>4. s[p] = ")" /\ p + 1 \in 1 .. L /\ s[p + 1] \notin Terminators
    <3>1. Allowed(at) = Terminators
      BY <1>10 DEF Allowed
    <3>2. p + 1 \in 1 .. L /\ p \in 1 .. L /\ p <= Len(t)
      BY <1>1, <2>1, <2>3
    <3> QED
      BY <1>4, <1>5, <2>1, <3>1, <3>2
  <2>5. L # p + 1
    BY <1>3, <2>4
  <2>6. L # 7 /\ p \in 6 .. L - 2
    BY <1>1, <2>1, <2>3, <2>5
  <2>7. ")" \notin Literals /\ ")" # ","
    BY DEF Literals
  <2>8. Alternates(s, 6, L - 2, Literals)
    BY <1>5, <2>6
  <2>9. s[p] # ")"
    BY <2>6, <2>7, <2>8, NotInList
  <2> QED
    BY <2>4, <2>9
<1> QED
  BY <1>6, <1>7, <1>8, <1>9, <1>10 DEF InsertReads

\* FROM is the first token after token 1 that is not in a list of columns.
LEMMA FromAfterList ==
  ASSUME NEW s, NEW t, Len(s) \in Nat, Len(t) \in Nat, Agree(s, t), NEW f \in Nat,
         f >= 3, f <= Len(s), s[f] = "FROM",
         NEW b \in Nat, b <= Len(t), Alternates(t, 2, b, Identifiers)
  PROVE  f > b
<1>1. SUFFICES ASSUME f <= b
               PROVE  FALSE
  OBVIOUS
<1>2. f \in 2 .. b /\ t[f] = "FROM"
  <2>1. f \in 1 .. Len(s) /\ f <= Len(t)
    BY <1>1
  <2> QED
    BY <1>1, <2>1, AgreeAt
<1>3. "FROM" \notin Identifiers /\ "FROM" # ","
  BY DEF Identifiers
<1> QED
  BY <1>2, <1>3, NotInList

\* There is one place for FROM when the columns were read.
LEMMA SameFrom ==
  ASSUME NEW s, NEW t, Len(s) \in Nat, Len(t) \in Nat, Agree(s, t), NEW f \in Nat,
         SelectForm(s, f, Len(s)), NEW g \in Nat, g <= Len(t), NEW k \in Nat, NEW all \in BOOLEAN,
         Columns(t, g, k, all)
  PROVE  f = g
<1>1. /\ f >= 3 /\ f + 2 <= Len(s) /\ s[f] = "FROM"
      /\ (f = 3 /\ s[2] = "*") \/ Alternates(s, 2, f - 1, Identifiers)
  BY DEF SelectForm
<1>2. t[g] = "FROM" /\ g >= 3
  BY DEF Columns
<1>3. CASE all
  <2>1. g = 3 /\ t[2] = "*"
    BY <1>3 DEF Columns
  <2>2. s[2] = "*"
    <3>1. 2 \in 1 .. Len(s) /\ 2 <= Len(t)
      BY <1>1, <2>1
    <3> QED
      BY <2>1, <3>1, AgreeAt
  <2>3. ~Alternates(s, 2, f - 1, Identifiers)
    <3>1. 2 \in 2 .. f - 1
      BY <1>1
    <3>2. "*" \notin Identifiers /\ "*" # ","
      BY DEF Identifiers
    <3> QED
      BY <2>2, <3>1, <3>2, NotInList
  <2> QED
    BY <1>1, <2>1, <2>3
<1>4. CASE ~all
  <2>1. g = 2 * k + 1 /\ k >= 1 /\ Alternates(t, 2, 2 * k, Identifiers)
    BY <1>4 DEF Columns
  <2>2. f > 2 * k
    <3>1. 2 * k \in Nat /\ 2 * k <= Len(t) /\ f <= Len(s)
      BY <1>1, <2>1
    <3> QED
      BY <1>1, <2>1, <3>1, FromAfterList
  <2>3. SUFFICES ASSUME f > g
                 PROVE  FALSE
    BY <2>1, <2>2
  <2>4. s[g] = "FROM"
    <3>1. g \in 1 .. Len(s)
      BY <1>1, <1>2, <2>3
    <3> QED
      BY <1>2, <3>1, AgreeAt
  <2>5. g \in 2 .. f - 1 /\ f # 3
    BY <1>1, <1>2, <2>3
  <2>6. "FROM" \notin Identifiers /\ "FROM" # ","
    BY DEF Identifiers
  <2>7. Alternates(s, 2, f - 1, Identifiers)
    BY <1>1, <2>5
  <2> QED
    BY <2>4, <2>5, <2>6, <2>7, NotInList
<1> QED
  BY <1>3, <1>4

LEMMA NoSelectThere ==
  ASSUME NEW at \in SelectReads, NEW t \in Seq(TokenKinds), NEW p \in Nat, NEW k \in Nat,
         NEW w \in [all : BOOLEAN, where : BOOLEAN],
         p + 1 <= Len(t), SelectSoFar(at, t, p, k, w), t[p + 1] \notin Allowed(at)
  PROVE  NoSelect(t)
<1> SUFFICES ASSUME NEW s \in Seq(TokenKinds), Agree(s, t), IsSelect(s)
             PROVE  FALSE
  BY DEF NoSelect
<1>1. PICK L \in Nat : L = Len(s)
  OBVIOUS
<1>2. PICK f \in Nat : f >= 3 /\ f + 2 <= L /\ SelectForm(s, f, L)
  <2>1. PICK f \in 3 .. Len(s) - 2 : IsSelectAt(s, f)
    BY DEF IsSelect
  <2>2. SelectForm(s, f, Len(s))
    BY <2>1, SelectIsForm
  <2> QED
    BY <1>1, <2>1, <2>2
<1>3. /\ s[1] = "SELECT" /\ s[f] = "FROM" /\ s[f + 1] \in Identifiers /\ s[L] \in Terminators
      /\ (f = 3 /\ s[2] = "*") \/ (Even(f - 3) /\ Alternates(s, 2, f - 1, Identifiers))
      /\ L = f + 2 \/ (L = f + 6 /\ Condition(s, f + 1, f + 5))
  BY <1>2 DEF SelectForm
<1>4. \A i \in 1 .. L : i <= Len(t) => s[i] = t[i]
  BY <1>1 DEF Agree
<1>5. p + 1 \in 1 .. L => s[p + 1] \notin Allowed(at)
  BY <1>4
<1>6. CASE at = "SELECT"
  <2>1. p + 1 = 1 /\ 1 \in 1 .. L /\ Allowed(at) = {"SELECT"}
    BY <1>2, <1>6 DEF SelectSoFar, Allowed
  <2> QED
    BY <1>3, <1>5, <2>1
<1>7. CASE at = "what"
  <2>1. p + 1 = 2 /\ 2 \in 1 .. L /\ Allowed(at) = Identifiers \cup {"*"}
    BY <1>2, <1>7 DEF SelectSoFar, Allowed
  <2>2. s[2] \notin Identifiers /\ s[2] # "*"
    BY <1>5, <2>1
  <2>3. Alternates(s, 2, f - 1, Identifiers) /\ 2 \in 2 .. f - 1 /\ Even(2 - 2)
    BY <1>2, <1>3, <2>2 DEF Even
  <2> QED
    BY <2>2, <2>3, ElementThere
<1>8. CASE at = "col_sep"
  <2>1. k >= 1 /\ p = 2 * k /\ Alternates(t, 2, p, Identifiers)
    BY <1>8 DEF SelectSoFar
  <2>2. f > p
    <3>1. f <= Len(s) /\ p <= Len(t)
      BY <1>1, <1>2
    <3> QED
      BY <1>2, <1>3, <2>1, <3>1, FromAfterList
  <2>3. p + 1 \in 1 .. L /\ s[p + 1] # "," /\ s[p + 1] # "FROM"
    <3>1. Allowed(at) = {",", "FROM"}
      BY <1>8 DEF Allowed
    <3>2. p + 1 \in 1 .. L
      BY <1>2, <2>2
    <3> QED
      BY <1>5, <3>1, <3>2
  <2>4. f # p + 1
    BY <1>3, <2>3
  <2>5. p + 1 \in 2 .. f - 1 /\ f # 3
    BY <2>1, <2>2, <2>4
  <2>6. Alternates(s, 2, f - 1, Identifiers)
    BY <1>3, <2>5
  <2>7. ~Even((p + 1) - 2)
    <3>1. ~Even((2 * k + 1) - 2)
      BY Parity
    <3> QED
      BY <2>1, <3>1
  <2> QED
    BY <2>3, <2>5, <2>6, <2>7, CommaThere
<1>9. CASE at = "column"
  <2>1. k >= 1 /\ p = 2 * k + 1 /\ Alternates(t, 2, p, Identifiers)
    BY <1>9 DEF SelectSoFar
  <2>2. f > p
    <3>1. f <= Len(s) /\ p <= Len(t)
      BY <1>1, <1>2
    <3> QED
      BY <1>2, <1>3, <2>1, <3>1, FromAfterList
  <2>3. p + 1 \in 1 .. L /\ s[p + 1] \notin Identifiers
    <3>1. Allowed(at) = Identifiers /\ p + 1 \in 1 .. L
      BY <1>2, <1>9, <2>2 DEF Allowed
    <3> QED
      BY <1>5, <3>1
  <2>4. f # 3 /\ Even(f - 3) /\ Alternates(s, 2, f - 1, Identifiers)
    BY <1>3, <2>1, <2>2
  <2>5. f # p + 1
    <3>1. SUFFICES ASSUME f = p + 1
                   PROVE  ~Even(f - 3)
      BY <2>4
    <3>2. f - 3 = (2 * k + 1) - 2
      BY <2>1, <3>1
    <3>3. ~Even((2 * k + 1) - 2)
      BY Parity
    <3> QED
      BY <3>2, <3>3
  <2>6. p + 1 \in 2 .. f - 1
    BY <2>1, <2>2, <2>5
  <2>7. Even((p + 1) - 2)
    <3>1. PICK m \in Int : m = k + 1
      OBVIOUS
    <3>2. Even(2 * m - 2)
      BY Parity
    <3> QED
      BY <2>1, <3>1, <3>2
  <2> QED
    BY <2>3, <2>4, <2>6, <2>7, ElementThere
<1>10. CASE at = "FROM"
  <2>1. p + 1 = 3 /\ t[2] = "*" /\ 2 \in 1 .. L /\ 2 <= Len(t) /\ 3 \in 1 .. L
    BY <1>2, <1>10 DEF SelectSoFar
  <2>2. s[2] = "*" /\ s[3] # "FROM"
    <3>1. Allowed(at) = {"FROM"}
      BY <1>10 DEF Allowed
    <3> QED
      BY <1>4, <1>5, <2>1, <3>1
  <2>3. 2 \in 2 .. f - 1 /\ "*" \notin Identifiers /\ "*" # ","
    BY <1>2 DEF Identifiers
  <2>4. ~Alternates(s, 2, f - 1, Identifiers)
    BY <2>2, <2>3, NotInList
  <2> QED
    BY <1>3, <2>2, <2>4
<1>11. CASE at = "sel_table"
  <2>1. f = p
    <3>1. Columns(t, p, k, w.all) /\ p <= Len(t) /\ w.all \in BOOLEAN /\ SelectForm(s, f, Len(s))
      BY <1>1, <1>2, <1>11 DEF SelectSoFar
    <3> QED
      BY <3>1, SameFrom
  <2>2. p + 1 \in 1 .. L /\ Allowed(at) = Identifiers
    BY <1>2, <1>11, <2>1 DEF Allowed
  <2> QED
    BY <1>3, <1>5, <2>1, <2>2
<1>12. CASE at \in {"after_table", "where_id", "=", "where_int", "sel_end"}
  <2>1. PICK g \in Nat : /\ Selected(t, g, p, k, w.all) /\ g >= 4
                         /\ at = "after_table" => p = g
                         /\ at = "where_id" => p = g + 1
                         /\ at = "=" => p = g + 2
                         /\ at = "where_int" => p = g + 3
                         /\ at = "sel_end" => p = g + 4
    <3>1. /\ at = "after_table" => Selected(t, p, p, k, w.all)
          /\ at = "where_id" => Selected(t, p - 1, p, k, w.all)
          /\ at = "=" => Selected(t, p - 2, p, k, w.all)
          /\ at = "where_int" => Selected(t, p - 3, p, k, w.all)
          /\ at = "sel_end" => Selected(t, p - 4, p, k, w.all)
      BY DEF SelectSoFar
    <3>2. \A g : Selected(t, g, p, k, w.all) => g \in Nat /\ g >= 4
      BY DEF Selected
    <3>3. /\ (p - 1) + 1 = p /\ (p - 2) + 2 = p /\ (p - 3) + 3 = p /\ (p - 4) + 4 = p
      OBVIOUS
    <3> QED
      BY <1>12, <3>1, <3>2, <3>3
  <2>2. f = g - 1
    <3>1. Columns(t, g - 1, k, w.all) /\ w.all \in BOOLEAN /\ SelectForm(s, f, Len(s))
      BY <1>1, <1>2, <2>1 DEF Selected
    <3>2. g - 1 \in Nat /\ g - 1 <= Len(t)
      BY <1>12, <2>1
    <3> QED
      BY <3>1, <3>2, SameFrom
  <2>3. /\ p >= g + 1 => t[g + 1] = "WHERE"
        /\ L = g + 1 \/ (L = g + 5 /\ s[g + 1] = "WHERE" /\ s[g + 2] = "id" /\ s[g + 3] = "="
                         /\ s[g + 4] = "int")
    <3>1. Condition(t, g, p) /\ f + 1 = g
      BY <2>1, <2>2 DEF Selected
    <3>2. L = f + 6 => Condition(s, g, g + 4)
      BY <1>3, <3>1
    <3> QED
      BY <1>3, <3>1, <3>2 DEF Condition
  <2>4. g + 1 \in 1 .. L /\ (p >= g + 1 => s[g + 1] = "WHERE")
    BY <1>2, <1>4, <2>1, <2>2, <2>3
  <2>5. p >= g + 1 => L = g + 5
    BY <1>3, <2>3, <2>4 DEF Terminators
  <2>6. p + 1 \in 1 .. L
    BY <1>12, <2>1, <2>3, <2>4, <2>5
  <2>7. s[p + 1] \notin Allowed(at)
    BY <1>5, <2>6
  <2>8. CASE at = "after_table"
    BY <1>3, <2>1, <2>3, <2>7, <2>8 DEF Allowed
  <2>9. CASE at = "where_id"
    BY <2>1, <2>3, <2>5, <2>7, <2>9 DEF Allowed
  <2>10. CASE at = "="
    BY <2>1, <2>3, <2>5, <2>7, <2>10 DEF Allowed
  <2>11. CASE at = "where_int"
    BY <2>1, <2>3, <2>5, <2>7, <2>11 DEF Allowed
  <2>12. CASE at = "sel_end"
    BY <1>3, <2>1, <2>3, <2>5, <2>7, <2>12 DEF Allowed
  <2> QED
    BY <1>12, <2>8, <2>9, <2>10, <2>11, <2>12
<1> QED
  BY <1>6, <1>7, <1>8, <1>9, <1>10, <1>11, <1>12 DEF SelectReads

-----------------------------------------------------------------------------
(* The invariant about what is refused.                                    *)

RefusedInv ==
  /\ pc \in SelectReads \cup {"error"} /\ ~oom => NoInsert(text)
  /\ pc = "error" /\ ~oom => NoSelect(text)

\* A step goes on, refuses a token, or finds no memory.
Goes(at, K, place) ==
  /\ Read(at, K) /\ Goto(place) /\ oom' = oom
  /\ \/ at \in InsertReads /\ place \in InsertReads \cup {"insert"}
     \/ at \in SelectReads /\ place \in SelectReads \cup {"select"}

Refuses(at) ==
  /\ Read(at, TokenKinds \ Allowed(at)) /\ oom' = oom
  /\ pc' = IF pc \in InsertReads THEN "SELECT" ELSE "error"

StepOfKind ==
  \/ \E at \in Parsing, K \in SUBSET TokenKinds, place \in Parsing \cup {"insert", "select"} :
       Goes(at, K, place)
  \/ \E at \in Parsing : Refuses(at)
  \/ oom' = TRUE

\* A place of one parser, and the place that follows.
SameParser(at, place) ==
  \/ at \in InsertReads /\ place \in InsertReads \cup {"insert"}
  \/ at \in SelectReads /\ place \in SelectReads \cup {"select"}

\* Each alternative of an action is one of the three kinds of step.
LEMMA RefusedIsKind ==
  \A at, K, bs : at \in Parsing /\ K = Allowed(at) /\ Refused(at, K, bs) => StepOfKind
BY DEF Refused, Reject, Refuses, StepOfKind

LEMMA NoMemoryIsKind == \A at, K, bs : NoMemory(at, K, bs) => StepOfKind
BY DEF NoMemory, StepOfKind

LEMMA GoesIsKind ==
  \A at, K, place : /\ K \in SUBSET TokenKinds /\ SameParser(at, place)
                    /\ Read(at, K) /\ Goto(place) /\ oom' = oom
                    => StepOfKind
BY DEF SameParser, Goes, StepOfKind, Parsing

LEMMA ExpectIsKind ==
  \A at, kind, place, bs :
    /\ at \in Parsing /\ {kind} \in SUBSET TokenKinds /\ {kind} = Allowed(at)
    /\ SameParser(at, place) /\ lexer_expect(at, kind, place, bs)
    => StepOfKind
<1>1. TAKE at, kind, place, bs
<1>2. HAVE /\ at \in Parsing /\ {kind} \in SUBSET TokenKinds /\ {kind} = Allowed(at)
           /\ SameParser(at, place) /\ lexer_expect(at, kind, place, bs)
<1>3. CASE Read(at, {kind}) /\ Goto(place) /\ oom' = oom
  BY <1>2, <1>3, GoesIsKind
<1>4. CASE Refused(at, {kind}, bs)
  BY <1>2, <1>4, RefusedIsKind
<1> QED
  BY <1>2, <1>3, <1>4 DEF lexer_expect

LEMMA TableIsKind ==
  \A at, place, bs :
    /\ at \in Parsing /\ Identifiers = Allowed(at) /\ Identifiers \in SUBSET TokenKinds
    /\ SameParser(at, place) /\ table_name(at, place, bs)
    => StepOfKind
<1>1. TAKE at, place, bs
<1>2. HAVE /\ at \in Parsing /\ Identifiers = Allowed(at) /\ Identifiers \in SUBSET TokenKinds
           /\ SameParser(at, place) /\ table_name(at, place, bs)
<1>3. CASE Read(at, Identifiers) /\ Goto(place) /\ oom' = oom
  BY <1>2, <1>3, GoesIsKind
<1>4. CASE Refused(at, Identifiers, bs)
  BY <1>2, <1>4, RefusedIsKind
<1>5. CASE NoMemory(at, Identifiers, bs)
  BY <1>5, NoMemoryIsKind
<1> QED
  BY <1>2, <1>3, <1>4, <1>5 DEF table_name

LEMMA KindsOfInsert ==
  ASSUME parse_insert
  PROVE  StepOfKind
<1>1. /\ "INSERT" \in Parsing /\ "INSERT" \in InsertReads
      /\ "INTO" \in Parsing /\ "INTO" \in InsertReads
      /\ "table" \in Parsing /\ "table" \in InsertReads
      /\ "VALUES" \in Parsing /\ "VALUES" \in InsertReads
      /\ "(" \in Parsing /\ "(" \in InsertReads
      /\ "first" \in Parsing /\ "first" \in InsertReads
      /\ "sep" \in Parsing /\ "sep" \in InsertReads
      /\ "value" \in Parsing /\ "value" \in InsertReads
      /\ "end" \in Parsing /\ "end" \in InsertReads
  BY DEF Parsing, InsertReads
<1>2. /\ {"INSERT"} \in SUBSET TokenKinds
      /\ {"INTO"} \in SUBSET TokenKinds
      /\ {"VALUES"} \in SUBSET TokenKinds
      /\ Identifiers \in SUBSET TokenKinds
      /\ {"("} \in SUBSET TokenKinds
      /\ {")"} \in SUBSET TokenKinds
      /\ {","} \in SUBSET TokenKinds
      /\ Literals \in SUBSET TokenKinds
      /\ Terminators \in SUBSET TokenKinds
  BY DEF TokenKinds, Keywords, Identifiers, Literals, Punctuation, Terminators
<1>3. /\ {"INSERT"} = Allowed("INSERT")
      /\ {"INTO"} = Allowed("INTO")
      /\ Identifiers = Allowed("table")
      /\ {"VALUES"} = Allowed("VALUES")
      /\ {"("} = Allowed("(")
      /\ Literals \cup {")"} = Allowed("first")
      /\ {",", ")"} = Allowed("sep")
      /\ Literals = Allowed("value")
      /\ Terminators = Allowed("end")
  BY DEF Allowed
<1>4. /\ SameParser("INSERT", "INTO")
      /\ SameParser("INTO", "table")
      /\ SameParser("table", "VALUES")
      /\ SameParser("VALUES", "(")
      /\ SameParser("(", "first")
      /\ SameParser("first", "end")
      /\ SameParser("first", "sep")
      /\ SameParser("sep", "end")
      /\ SameParser("sep", "value")
      /\ SameParser("value", "sep")
      /\ SameParser("end", "insert")
  BY <1>1 DEF SameParser
<1>5. CASE lexer_expect("INSERT", "INSERT", "INTO", {})
  BY <1>1, <1>2, <1>3, <1>4, <1>5, ExpectIsKind
<1>6. CASE lexer_expect("INTO", "INTO", "table", {})
  BY <1>1, <1>2, <1>3, <1>4, <1>6, ExpectIsKind
<1>7. CASE table_name("table", "VALUES", {})
  BY <1>1, <1>2, <1>3, <1>4, <1>7, TableIsKind
<1>8. CASE lexer_expect("VALUES", "VALUES", "(", {"table"})
  BY <1>1, <1>2, <1>3, <1>4, <1>8, ExpectIsKind
<1>9. CASE open_values
  <2>1. CASE Read("(", {"("}) /\ Goto("first") /\ oom' = oom
    BY <1>2, <1>4, <2>1, GoesIsKind
  <2>2. CASE NoMemory("(", {"("}, {"table"})
    BY <2>2, NoMemoryIsKind
  <2>3. CASE Refused("(", {"("}, {"table"})
    BY <1>1, <1>3, <2>3, RefusedIsKind
  <2> QED
    BY <1>9, <2>1, <2>2, <2>3 DEF open_values
<1>10. CASE first_value
  <2>1. CASE Read("first", {")"}) /\ Goto("end") /\ oom' = oom
    BY <1>2, <1>4, <2>1, GoesIsKind
  <2>2. CASE Read("first", Literals) /\ Goto("sep") /\ oom' = oom
    BY <1>2, <1>4, <2>2, GoesIsKind
  <2>3. CASE NoMemory("first", Literals \ {"NULL"}, {"table", "list"})
    BY <2>3, NoMemoryIsKind
  <2>4. CASE Refused("first", Literals \cup {")"}, {"table", "list"})
    BY <1>1, <1>3, <2>4, RefusedIsKind
  <2> QED
    BY <1>10, <2>1, <2>2, <2>3, <2>4 DEF first_value, close_values
<1>11. CASE value_separator
  <2>1. CASE Read("sep", {")"}) /\ Goto("end") /\ oom' = oom
    BY <1>2, <1>4, <2>1, GoesIsKind
  <2>2. CASE Read("sep", {","}) /\ Goto("value") /\ oom' = oom
    BY <1>2, <1>4, <2>2, GoesIsKind
  <2>3. CASE Refused("sep", {",", ")"}, {"table", "list"})
    BY <1>1, <1>3, <2>3, RefusedIsKind
  <2> QED
    BY <1>11, <2>1, <2>2, <2>3 DEF value_separator, close_values
<1>12. CASE next_value
  <2>1. CASE Read("value", Literals) /\ Goto("sep") /\ oom' = oom
    BY <1>2, <1>4, <2>1, GoesIsKind
  <2>2. CASE NoMemory("value", IF n >= cap THEN TokenKinds \ {")", "error"}
                                 ELSE Literals \ {"NULL"}, {"table", "list"})
    BY <2>2, NoMemoryIsKind
  <2>3. CASE Refused("value", Literals, {"table", "list"})
    BY <1>1, <1>3, <2>3, RefusedIsKind
  <2> QED
    BY <1>12, <2>1, <2>2, <2>3 DEF next_value
<1>13. CASE insert_done
  <2>1. CASE Read("end", Terminators) /\ Goto("insert") /\ oom' = oom
    BY <1>2, <1>4, <2>1, GoesIsKind
  <2>2. CASE NoMemory("end", Terminators, {"table", "list"})
    BY <2>2, NoMemoryIsKind
  <2>3. CASE Refused("end", Terminators, {"table", "list"})
    BY <1>1, <1>3, <2>3, RefusedIsKind
  <2> QED
    BY <1>13, <2>1, <2>2, <2>3 DEF insert_done
<1> QED
  BY <1>5, <1>6, <1>7, <1>8, <1>9, <1>10, <1>11, <1>12, <1>13 DEF parse_insert

LEMMA KindsOfSelect ==
  ASSUME parse_select
  PROVE  StepOfKind
<1>1. /\ "SELECT" \in Parsing /\ "SELECT" \in SelectReads
      /\ "what" \in Parsing /\ "what" \in SelectReads
      /\ "FROM" \in Parsing /\ "FROM" \in SelectReads
      /\ "col_sep" \in Parsing /\ "col_sep" \in SelectReads
      /\ "column" \in Parsing /\ "column" \in SelectReads
      /\ "sel_table" \in Parsing /\ "sel_table" \in SelectReads
      /\ "after_table" \in Parsing /\ "after_table" \in SelectReads
      /\ "where_id" \in Parsing /\ "where_id" \in SelectReads
      /\ "=" \in Parsing /\ "=" \in SelectReads
      /\ "where_int" \in Parsing /\ "where_int" \in SelectReads
      /\ "sel_end" \in Parsing /\ "sel_end" \in SelectReads
  BY DEF Parsing, SelectReads
<1>2. /\ {"SELECT"} \in SUBSET TokenKinds
      /\ {"*"} \in SUBSET TokenKinds
      /\ {"FROM"} \in SUBSET TokenKinds
      /\ Identifiers \in SUBSET TokenKinds
      /\ {","} \in SUBSET TokenKinds
      /\ {"WHERE"} \in SUBSET TokenKinds
      /\ {"id"} \in SUBSET TokenKinds
      /\ {"="} \in SUBSET TokenKinds
      /\ {"int"} \in SUBSET TokenKinds
      /\ Terminators \in SUBSET TokenKinds
  BY DEF TokenKinds, Keywords, Identifiers, Literals, Punctuation, Terminators
<1>3. /\ {"SELECT"} = Allowed("SELECT")
      /\ Identifiers \cup {"*"} = Allowed("what")
      /\ {",", "FROM"} = Allowed("col_sep")
      /\ Identifiers = Allowed("column")
      /\ {"FROM"} = Allowed("FROM")
      /\ Identifiers = Allowed("sel_table")
      /\ Terminators \cup {"WHERE"} = Allowed("after_table")
      /\ {"id"} = Allowed("where_id")
      /\ {"="} = Allowed("=")
      /\ {"int"} = Allowed("where_int")
      /\ Terminators = Allowed("sel_end")
  BY DEF Allowed
<1>4. /\ SameParser("SELECT", "what")
      /\ SameParser("what", "FROM")
      /\ SameParser("what", "col_sep")
      /\ SameParser("col_sep", "column")
      /\ SameParser("col_sep", "sel_table")
      /\ SameParser("column", "col_sep")
      /\ SameParser("FROM", "sel_table")
      /\ SameParser("sel_table", "after_table")
      /\ SameParser("after_table", "select")
      /\ SameParser("after_table", "where_id")
      /\ SameParser("where_id", "=")
      /\ SameParser("=", "where_int")
      /\ SameParser("where_int", "sel_end")
      /\ SameParser("sel_end", "select")
  BY <1>1 DEF SameParser
<1>5. CASE lexer_expect("SELECT", "SELECT", "what", {})
  BY <1>1, <1>2, <1>3, <1>4, <1>5, ExpectIsKind
<1>6. CASE select_what
  <2>1. CASE Read("what", {"*"}) /\ Goto("FROM") /\ oom' = oom
    BY <1>2, <1>4, <2>1, GoesIsKind
  <2>2. CASE Read("what", Identifiers) /\ Goto("col_sep") /\ oom' = oom
    BY <1>2, <1>4, <2>2, GoesIsKind
  <2>3. CASE NoMemory("what", Identifiers, {})
    BY <2>3, NoMemoryIsKind
  <2>4. CASE Refused("what", Identifiers \cup {"*"}, {})
    BY <1>1, <1>3, <2>4, RefusedIsKind
  <2> QED
    BY <1>6, <2>1, <2>2, <2>3, <2>4 DEF select_what
<1>7. CASE column_separator
  <2>1. ASSUME NEW c, c \in {<<",", "column">>, <<"FROM", "sel_table">>},
               Read("col_sep", {c[1]}), Goto(c[2]), oom' = oom
        PROVE  StepOfKind
    <3>1. CASE c = <<",", "column">>
      <4>1. c[1] = ","
        BY <3>1
      <4>2. c[2] = "column"
        BY <3>1
      <4> QED
        BY <1>2, <1>4, <2>1, <4>1, <4>2, GoesIsKind
    <3>2. CASE c = <<"FROM", "sel_table">>
      <4>1. c[1] = "FROM"
        BY <3>2
      <4>2. c[2] = "sel_table"
        BY <3>2
      <4> QED
        BY <1>2, <1>4, <2>1, <4>1, <4>2, GoesIsKind
    <3> QED
      BY <2>1, <3>1, <3>2
  <2>2. CASE Refused("col_sep", {",", "FROM"}, {"list"})
    BY <1>1, <1>3, <2>2, RefusedIsKind
  <2> QED
    BY <1>7, <2>1, <2>2 DEF column_separator
<1>8. CASE next_column
  <2>1. CASE Read("column", Identifiers) /\ Goto("col_sep") /\ oom' = oom
    BY <1>2, <1>4, <2>1, GoesIsKind
  <2>2. CASE NoMemory("column", Identifiers, {"list"})
    BY <2>2, NoMemoryIsKind
  <2>3. CASE Refused("column", Identifiers, {"list"})
    BY <1>1, <1>3, <2>3, RefusedIsKind
  <2> QED
    BY <1>8, <2>1, <2>2, <2>3 DEF next_column
<1>9. CASE lexer_expect("FROM", "FROM", "sel_table", {})
  BY <1>1, <1>2, <1>3, <1>4, <1>9, ExpectIsKind
<1>10. CASE table_name("sel_table", "after_table", {"list"})
  BY <1>1, <1>2, <1>3, <1>4, <1>10, TableIsKind
<1>11. CASE after_table
  <2>1. CASE Read("after_table", Terminators) /\ Goto("select") /\ oom' = oom
    BY <1>2, <1>4, <2>1, GoesIsKind
  <2>2. CASE Read("after_table", {"WHERE"}) /\ Goto("where_id") /\ oom' = oom
    BY <1>2, <1>4, <2>2, GoesIsKind
  <2>3. CASE NoMemory("after_table", Terminators, {"table", "list"})
    BY <2>3, NoMemoryIsKind
  <2>4. CASE Refused("after_table", Terminators \cup {"WHERE"}, {"table", "list"})
    BY <1>1, <1>3, <2>4, RefusedIsKind
  <2> QED
    BY <1>11, <2>1, <2>2, <2>3, <2>4 DEF after_table, select_done
<1>12. CASE lexer_expect("where_id", "id", "=", {"table", "list"})
  BY <1>1, <1>2, <1>3, <1>4, <1>12, ExpectIsKind
<1>13. CASE lexer_expect("=", "=", "where_int", {"table", "list"})
  BY <1>1, <1>2, <1>3, <1>4, <1>13, ExpectIsKind
<1>14. CASE where_int
  <2>1. CASE Read("where_int", {"int"}) /\ Goto("sel_end") /\ oom' = oom
    BY <1>2, <1>4, <2>1, GoesIsKind
  <2>2. CASE NoMemory("where_int", {"int"}, {"table", "list"})
    BY <2>2, NoMemoryIsKind
  <2>3. CASE Refused("where_int", {"int"}, {"table", "list"})
    BY <1>1, <1>3, <2>3, RefusedIsKind
  <2> QED
    BY <1>14, <2>1, <2>2, <2>3 DEF where_int
<1>15. CASE where_end
  <2>1. CASE Read("sel_end", Terminators) /\ Goto("select") /\ oom' = oom
    BY <1>2, <1>4, <2>1, GoesIsKind
  <2>2. CASE NoMemory("sel_end", Terminators, {"table", "list"})
    BY <2>2, NoMemoryIsKind
  <2>3. CASE Refused("sel_end", Terminators, {"table", "list"})
    BY <1>1, <1>3, <2>3, RefusedIsKind
  <2> QED
    BY <1>15, <2>1, <2>2, <2>3 DEF where_end, select_done
<1> QED
  BY <1>5, <1>6, <1>7, <1>8, <1>9, <1>10, <1>11, <1>12, <1>13, <1>14, <1>15 DEF parse_select

LEMMA GoesKeeps ==
  ASSUME PInv, RefusedInv, NEW at \in Parsing, NEW K \in SUBSET TokenKinds, Read(at, K)
  PROVE  /\ NoInsert(text) => NoInsert(text')
         /\ NoSelect(text) => NoSelect(text')
<1>1. /\ Len(text) \in Nat /\ Len(text') \in Nat /\ Len(text) <= Len(text')
      /\ \A i \in 1 .. Len(text) : text'[i] = text[i]
  BY ReadToken
<1>2. \A s \in Seq(TokenKinds) : Agree(s, text') => Agree(s, text)
  <2>1. TAKE s \in Seq(TokenKinds)
  <2>2. Len(s) \in Nat
    OBVIOUS
  <2> QED
    BY <1>1, <2>2, AgreeShorter
<1> QED
  BY <1>2 DEF NoInsert, NoSelect

LEMMA RefusedStepInv ==
  ASSUME PInv, RefusedInv, [Next]_vars
  PROVE  RefusedInv'
<1>1. CASE UNCHANGED vars
  BY <1>1 DEF vars, RefusedInv
<1>2. CASE oom' = TRUE
  BY <1>2 DEF RefusedInv
<1>3. ASSUME NEW at \in Parsing, NEW K \in SUBSET TokenKinds, NEW place, Goes(at, K, place)
      PROVE  RefusedInv'
  <2>1. Read(at, K) /\ pc = at /\ pc' = place /\ oom' = oom
    BY <1>3 DEF Goes, Read, Goto
  <2>2. pc' # "error" /\ (pc' \in SelectReads => pc \in SelectReads)
    BY <1>3, <2>1 DEF Goes, InsertReads, SelectReads
  <2>3. NoInsert(text) => NoInsert(text')
    BY <2>1, GoesKeeps
  <2> QED
    BY <2>1, <2>2, <2>3 DEF RefusedInv
<1>4. ASSUME NEW at \in Parsing, Refuses(at)
      PROVE  RefusedInv'
  <2>1. /\ Read(at, TokenKinds \ Allowed(at)) /\ pc = at /\ oom' = oom
        /\ pc' = IF at \in InsertReads THEN "SELECT" ELSE "error"
        /\ TokenKinds \ Allowed(at) \in SUBSET TokenKinds
    BY <1>4 DEF Refuses, Read
  <2>2. /\ pos \in Nat /\ n \in Nat /\ sel \in [all : BOOLEAN, where : BOOLEAN]
        /\ InsertSoFar(at, text', pos, n) /\ SelectSoFar(at, text', pos, n, sel)
        /\ text'[pos + 1] \notin Allowed(at)
    BY <2>1, AtRead
  <2>3. text' \in Seq(TokenKinds) /\ pos + 1 <= Len(text')
    BY <2>1, ReadToken
  <2>4. CASE at \in InsertReads
    <3>1. NoInsert(text')
      BY <2>2, <2>3, <2>4, NoInsertThere
    <3> QED
      BY <2>1, <2>4, <3>1 DEF RefusedInv
  <2>5. CASE at \in SelectReads
    <3>1. NoSelect(text')
      BY <2>2, <2>3, <2>5, NoSelectThere
    <3>2. NoInsert(text) => NoInsert(text')
      BY <2>1, GoesKeeps
    <3>3. pc' = "error"
      BY <2>1, <2>5 DEF InsertReads, SelectReads
    <3> QED
      BY <2>1, <2>5, <3>1, <3>2, <3>3 DEF RefusedInv
  <2> QED
    BY <2>4, <2>5 DEF Parsing
<1>5. CASE Next
  <2>1. StepOfKind
    BY <1>5, KindsOfInsert, KindsOfSelect DEF Next
  <2> QED
    BY <1>2, <1>3, <1>4, <2>1 DEF StepOfKind
<1> QED
  BY <1>1, <1>5

LEMMA RefusedInvInit == Init => RefusedInv
BY DEF Init, RefusedInv, SelectReads

-----------------------------------------------------------------------------
(* What the properties say of it.                                          *)

\* The beginnings of a text agree with it.
LEMMA BeginningAgrees ==
  ASSUME NEW t \in Seq(TokenKinds), NEW m \in 1 .. Len(t)
  PROVE  SubSeq(t, 1, m) \in Seq(TokenKinds) /\ Agree(SubSeq(t, 1, m), t)
<1>1. 1 \in Nat /\ 1 >= 1 /\ m \in Nat /\ m <= Len(t)
  OBVIOUS
<1>2. /\ SubSeq(t, 1, m) \in Seq(TokenKinds)
      /\ Len(SubSeq(t, 1, m)) = IF 1 <= m THEN (m - 1) + 1 ELSE 0
      /\ \A i \in 1 .. (m - 1) + 1 : SubSeq(t, 1, m)[i] = t[(1 + i) - 1]
  BY <1>1, Cut
<1>3. Len(SubSeq(t, 1, m)) = m /\ \A i \in 1 .. m : SubSeq(t, 1, m)[i] = t[i]
  BY <1>1, <1>2
<1> QED
  BY <1>2, <1>3 DEF Agree

\* So does every text that goes on from it.
LEMMA ContinuationAgrees ==
  ASSUME NEW t \in Seq(TokenKinds), NEW c \in Seq(TokenKinds)
  PROVE  t \o c \in Seq(TokenKinds) /\ Agree(t \o c, t)
<1>1. /\ t \o c \in Seq(TokenKinds)
      /\ Len(t \o c) = Len(t) + Len(c)
      /\ \A i \in 1 .. Len(t) + Len(c) :
           (t \o c)[i] = IF i <= Len(t) THEN t[i] ELSE c[i - Len(t)]
  BY ConcatProperties
<1> QED
  BY <1>1 DEF Agree

\* Tokens, one after the other, are a text.
LEMMA Texts ==
  ASSUME NEW S
  PROVE  /\ \A p, q, r, s, t \in S : <<p, q, r, s, t>> \in Seq(S)
         /\ \A p, q, r, s, t, u, v, w \in S : <<p, q, r, s, t, u, v, w>> \in Seq(S)
         /\ \A p, q, r, s, t, u, v, w, x \in S : <<p, q, r, s, t, u, v, w, x>> \in Seq(S)
OBVIOUS

LEMMA CompletionsAreTokens == Completions \subseteq Seq(TokenKinds)
<1> DEFINE a == <<"INSERT", "INTO", "name", "VALUES", "(", "int", ")", ";">>
           b == <<"SELECT", "name", "FROM", "name", ";">>
           d == <<"SELECT", "*", "FROM", "name", "WHERE", "id", "=", "int", ";">>
<1>1. /\ "INSERT" \in TokenKinds /\ "INTO" \in TokenKinds /\ "VALUES" \in TokenKinds
      /\ "SELECT" \in TokenKinds /\ "FROM" \in TokenKinds /\ "WHERE" \in TokenKinds
      /\ "name" \in TokenKinds /\ "id" \in TokenKinds /\ "int" \in TokenKinds
      /\ "(" \in TokenKinds /\ ")" \in TokenKinds /\ ";" \in TokenKinds
      /\ "*" \in TokenKinds /\ "=" \in TokenKinds
  BY DEF TokenKinds, Keywords, Identifiers, Punctuation
<1>2. a \in Seq(TokenKinds)
  BY <1>1, Texts
<1>3. b \in Seq(TokenKinds)
  BY <1>1, Texts
<1>4. d \in Seq(TokenKinds)
  BY <1>1, Texts
<1>5. ASSUME NEW x \in Seq(TokenKinds), NEW c \in Suffixes(x)
      PROVE  c \in Seq(TokenKinds)
  <2>1. CASE c = <<>>
    BY <2>1
  <2>2. ASSUME NEW l \in 1 .. Len(x), c = SubSeq(x, l, Len(x))
        PROVE  c \in Seq(TokenKinds)
    <3>1. l \in Nat /\ l >= 1 /\ Len(x) \in Nat /\ Len(x) <= Len(x)
      OBVIOUS
    <3>2. SubSeq(x, l, Len(x)) \in Seq(TokenKinds)
      BY <3>1, Cut
    <3> QED
      BY <2>2, <3>2
  <2> QED
    BY <1>5, <2>1, <2>2 DEF Suffixes
<1> HIDE DEF a, b, d
<1>6. ASSUME NEW c \in Completions
      PROVE  c \in Seq(TokenKinds)
  <2>1. PICK x \in {a, b, d} : c \in Suffixes(x)
    BY <1>6 DEF Completions, a, b, d
  <2>2. x \in Seq(TokenKinds)
    BY <1>2, <1>3, <1>4
  <2> QED
    BY <1>5, <2>1, <2>2
<1> QED
  BY <1>6

\* A text no statement agrees with holds no statement and begins none.
LEMMA NoStatement ==
  ASSUME NEW t \in Seq(TokenKinds), NoInsert(t), NoSelect(t)
  PROVE  SentenceEnds(t) = {} /\ ~Viable(t)
<1>1. ASSUME NEW m \in 1 .. Len(t)
      PROVE  ~IsInsert(SubSeq(t, 1, m)) /\ ~IsSelect(SubSeq(t, 1, m))
  <2>1. SubSeq(t, 1, m) \in Seq(TokenKinds) /\ Agree(SubSeq(t, 1, m), t)
    BY BeginningAgrees
  <2> QED
    BY <2>1 DEF NoInsert, NoSelect
<1>2. ASSUME NEW c \in Completions
      PROVE  ~IsInsert(t \o c) /\ ~IsSelect(t \o c)
  <2>1. c \in Seq(TokenKinds)
    BY CompletionsAreTokens
  <2>2. t \o c \in Seq(TokenKinds) /\ Agree(t \o c, t)
    BY <2>1, ContinuationAgrees
  <2> QED
    BY <2>2 DEF NoInsert, NoSelect
<1> QED
  BY <1>1, <1>2 DEF SentenceEnds, Viable

LEMMA LanguageFromInv ==
  ASSUME PInv, RefusedInv
  PROVE  AcceptsTheLanguage
<1>1. ASSUME pc = "error", ~oom
      PROVE  SentenceEnds(text) = {} /\ ~Viable(text)
  <2>1. text \in Seq(TokenKinds) /\ NoInsert(text) /\ NoSelect(text)
    BY <1>1 DEF PInv, TypeOK, RefusedInv
  <2> QED
    BY <2>1, NoStatement
<1>2. pc = "insert" =>
        /\ IsInsert(Consumed)
        /\ n = IF ValueList(Consumed) = <<>> THEN 0 ELSE ListLength(ValueList(Consumed))
  BY InsertAccepted
<1>3. pc = "select" => \E i \in 1 .. pos :
        /\ Consumed[i] = "FROM" /\ IsSelectAt(Consumed, i)
        /\ sel.all = (ColumnList(Consumed, i) = <<"*">>)
        /\ n = IF sel.all THEN 0 ELSE ListLength(ColumnList(Consumed, i))
        /\ sel.where = (\E j \in 1 .. pos : Consumed[j] = "WHERE")
  BY SelectAccepted
<1> QED
  BY <1>1, <1>2, <1>3 DEF AcceptsTheLanguage

LEMMA NothingLeakedFromInv ==
  ASSUME PInv
  PROVE  NothingLeaked
<1>1. /\ n \in Nat /\ texts \subseteq 1 .. n
      /\ TextsAt(pc, text, n, texts) /\ BlockAt(pc, blocks, n, cap, sel)
  BY DEF PInv, TypeOK, ReadInv, BlockInv
<1>2. CASE pc = "SELECT"
  <2>1. blocks \subseteq {}
    <3>1. blocks = Owned("SELECT") \ (IF sel.all THEN {"list"} ELSE {})
      BY <1>1, <1>2 DEF BlockAt, Parsing, SelectReads
    <3> QED
      BY <3>1 DEF Owned
  <2>2. n = 0
    BY <1>1, <1>2 DEF BlockAt, NoList
  <2>3. texts = 1 .. 0
    BY <1>1, <1>2, <2>2 DEF TextsAt, SelectReads
  <2> QED
    BY <1>2, <2>1, <2>3 DEF NothingLeaked
<1>3. CASE pc = "error"
  BY <1>1, <1>3 DEF NothingLeaked, TextsAt, BlockAt
<1>4. CASE pc = "insert"
  <2>1. \A i \in 1 .. n : ValueList(Consumed)[2 * i - 1] = text[2 * i + 4]
    BY <1>4, InsertAccepted
  <2>2. texts = {i \in 1 .. n : text[2 * i + 4] # "NULL"}
    BY <1>1, <1>4 DEF TextsAt, Strings
  <2>3. texts = {i \in 1 .. n : ValueList(Consumed)[2 * i - 1] # "NULL"}
    BY <2>1, <2>2
  <2>4. blocks = {"table", "stmt"} \cup (IF n = 0 THEN {} ELSE {"list"})
    BY <1>1, <1>4 DEF BlockAt
  <2> QED
    BY <1>4, <2>3, <2>4 DEF NothingLeaked
<1>5. CASE pc = "select"
  <2>1. texts = 1 .. n
    BY <1>1, <1>5 DEF TextsAt
  <2>2. blocks = {"table", "stmt"} \cup (IF sel.all THEN {} ELSE {"list"})
    BY <1>1, <1>5 DEF BlockAt
  <2> QED
    BY <1>5, <2>1, <2>2 DEF NothingLeaked
<1>6. pc \notin {"SELECT", "error", "insert", "select"} => NothingLeaked
  BY DEF NothingLeaked
<1> QED
  BY <1>2, <1>3, <1>4, <1>5, <1>6

\* While no allocation failed, a text that the INSERT parser gave up agrees with
\* no INSERT, and one that both gave up with no statement (parser_parse_insert
\* and parser_parse_select).
THEOREM ParserRefuses == Spec => [](PInv /\ RefusedInv)
<1>1. Init => RefusedInv
  BY RefusedInvInit
<1>2. PInv /\ RefusedInv /\ [Next]_vars => RefusedInv'
  BY RefusedStepInv
<1> QED
  BY <1>1, <1>2, ParserInv, PTL DEF Spec

\* The parser takes a statement exactly when it is one of the language, with
\* the elements it has, for statements of every length; what it refuses, unless
\* memory ran out, is not the beginning of one (parser_parse_insert and
\* parser_parse_select).
THEOREM AcceptsTheLanguageCorrect == Spec => []AcceptsTheLanguage
<1>1. PInv /\ RefusedInv => AcceptsTheLanguage
  BY LanguageFromInv
<1> QED
  BY <1>1, ParserRefuses, PTL

\* At whatever token or allocation a parser ends, no block and no string of it
\* is left behind, and what a statement keeps is exactly what it needs (the
\* error returns of parser.c).
THEOREM NothingLeakedCorrect == Spec => []NothingLeaked
<1>1. PInv => NothingLeaked
  BY NothingLeakedFromInv
<1> QED
  BY <1>1, ParserInv, PTL
=============================================================================
