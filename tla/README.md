# A TLA+ model of the SQL processor

The repository is a small SQL processor in C. It reads a file of `INSERT` and
`SELECT` statements, keeps every table in a CSV file `data/<table>.csv`, and,
for tables whose first column is `id`, keeps a B+ tree from id to row number in
memory and hands out the ids itself. This directory models that program: what
TLC checks on small instances, and what TLAPS proves for every instance.

Contents: 1 inventory, 2 modules, 3 runs, 4 bounds, 5 fairness and deadlock,
6 proofs, 7 disagreements found, 8 what is not modelled, 9 plan.

## 1. Inventory

| Part | Source | State it keeps | Operations |
|---|---|---|---|
| program, statement cutter | `main.c`, `sql_processor.c` | position, in_string, statement number | `run_file`, `run_sql_text`, `execute_one_statement` |
| lexer | `lexer.c` | position, line, column, string buffer | `lexer_next` |
| parser | `parser.c`, `ast.c` | the heap blocks of the statement it builds | `parser_parse_insert`, `parser_parse_select` |
| executor | `executor.c` | none | `executor_execute_insert`, `executor_execute_select` |
| id index | `week7/week7_index.c` | `g_ents`: per table `loaded`, `id_pk`, `next_id`, tree | `ensure_loaded`, `prepare_insert_values`, `on_append_success`, `lookup_row` |
| B+ tree | `week7/bplus_tree.c` | nodes with keys, children, parent, next leaf | create, destroy, search, insert, insert_or_replace |
| storage | `csv_storage.c` | the files | `read_table`, `read_table_row`, `data_row_count`, `append_insert_row` |
| trace program | `sql_trace.c`, `main_trace.c` | as the program, and a trace file | `sql_processor_run_file_trace` |
| demo server | `demo/server.js` | the handler on the stack, the requests that wait | `/api/run`, `/api/run-command` |
| demo pages | `demo/public` | none | show what the server returns |
| benchmark | `bench_bplus.c` | none | fills and times a B+ tree |

Everything runs in one thread and calls down the table: the cutter hands one
piece of text to the parsers, a parser pulls tokens from the lexer, the executor
gets the syntax tree and calls the index and the storage, the index calls the
storage and the tree. State that outlives a call is in two places: the files,
which outlive the process, and the index, which does not. The documents assume
one process at a time (`docs/02-architecture.md:105`); the demo server keeps to
it with `spawnSync`, which holds its event loop until the child has ended, but
nothing keeps a second program in a terminal from reading, or writing, the same
files.

What is hard in this code is therefore not threads but

- **partial failure**: an `INSERT` is prepare, append, count, index, and each
  step can fail when the ones before it have taken effect; nothing is undone,
  and what saves the program is that a failed statement ends the run;
- **crash and restart** between the same steps, and a write cut at any byte,
  after which the next process builds its index from what it finds;
- **two representations that must agree**: index and file, row numbers of three
  separate reading loops, quotes as written and as read, statements as the
  cutter and as the lexer see them, the tree and the map it stands for;
- **allocation failure in the middle** of a B+ tree split or of a parser;
- **state that outlives what it was computed from**: an index that is never
  compared with the file again, a last byte that was looked at before the file
  was opened for appending, two snapshots around a child that may be killed;
- **boundaries**: the largest integer, a full node, a full array, a full line
  buffer, a full string buffer, empty lines, ends of text.

What makes each part correct:

- engine: between statements the index lists the ids on file with their row
  numbers; new ids are fresh; a reported row is never lost or shadowed; a
  loadable table is spoilt in three ways only: by a write that is cut, by a row
  that the readers break up (a string with a line feed, a row longer than their
  buffer), and by an INSERT after the largest integer;
- tree: a search tree that answers like a map, and loses keys only after a
  failed allocation, which it reports;
- storage: what is appended is read back, as one row, at the number that is the
  row count; earlier rows stay; a cut write adds a prefix of a row or nothing;
- parsers: exactly the documented language, no write past an array, no leak on
  any error return;
- lexer: the tokens and positions the text has, and no write past its buffer;
- cutter: the pieces are the statements of the lexer; exit code, message number
  and trace say what was executed; a statement can be read back from the trace;
  every run ends;
- demo server: an answer tells what its run did to the files; every request is
  answered; a reader beside it keeps finding what it has found.

## 2. Modules

| Module | Models | Relation to the others |
|---|---|---|
| `PkTable` | abstract: what a user is promised of a table with an id | |
| `SqlEngine` | executor, index and storage at the level of lines | implements `PkTable` |
| `MCSqlEngine` | instances of it | |
| `SqlEngine_proofs` | theorems about it, and that it implements `PkTable` | |
| `KeyMap` | abstract: a map with calls and answers | |
| `BPlusTree` | the tree, node by node | implements `KeyMap` |
| `MCBPlusTree` | instances of it | |
| `BPlusTree_steps` | the invariant of the heap, and what every step does to it | |
| `BPlusTree_proofs` | theorems about it, and that it implements `KeyMap` | rests on `BPlusTree_steps` |
| `CsvStorage` | one file, byte by byte | states what `SqlEngine` assumes of a file |
| `MCCsvStorage` | instances of it | |
| `CsvStorage_proofs` | theorems about it: types, rows that stay, rows read back as written, parts of rows | |
| `SqlGrammar` | the language, as sets of token sequences | |
| `SqlParser` | the two parsers, token by token, with their heap | refers to `SqlGrammar` |
| `SqlParser_proofs` | theorems about it: what is read, held and written at each place; the language, and the blocks | |
| `SqlTokens` | the tokens of a text, with positions and sets | |
| `SqlLexer` | `lexer.c`, character by character | compared with `SqlTokens` |
| `SqlScript` | cutter, exit codes, trace | runs `SqlLexer` on each piece, uses `SqlGrammar` for the parsers |
| `MCSqlScript` | instances of it | |
| `SqlLexer_proofs` | what a step of the lexer keeps: positions, buffer, tokens; what the tokens of a piece of a text are | |
| `SqlScript_proofs` | theorems about a run and about the lexer in it | rests on `SqlLexer_proofs` |
| `DemoServer` | the server, its child, a reader in a terminal | two instances of the process of `SqlEngine` |
| `MCDemoServer` | instance of it | |
| `DemoServer_proofs` | theorems about it | rests on `SqlEngine_proofs` |

**SqlEngine.** `file[t]` is the list of lines after the header; a line has a
number of cells, the id its first cell holds for the strict parser, and a value
for the rest. `ent[t]` is the `Ent` of `week7_index.c`, with the tree as a
function. `pc` walks through `ready`, `append`, `count`, `index`: one action per
step of `executor_execute_insert`, and one for the failure of each step. A
failed statement goes to `exit`, after which the process ends and its entries
are forgotten. `Crash` does the same at any point. `Start` begins the next
process with whatever is on file. Files before the first process include
hand-written ones: blank lines, short rows, text in the id column, repeated ids.
When a write stops half-way, `TornText` gives every line that can be left,
including one whose id lost its last digits. A text in `Split` is one that the
readers take for several lines, because it has a line feed or is longer than
what `fgets` reads at once: its row is a first line, cut short or not, and one of
`Rests` (`RowTexts`), and most properties speak of files in which no such row is
(`Whole`). What the lines after the first look like is left open: a cell of the
string may look like a row with an id of its own. `Rows` maps a file to what
`PkTable` sees of it, and `BreakUp` is its step for a row that is broken up.

**BPlusTree.** Nodes are records in a heap indexed by address. `op` is the call
in progress and where it stands; `find_leaf` is one step per level, and after a
split `insert_into_parent` is one step per level too. `SplitFails` and
`RiseFails` are the `calloc` failures, which leave the tree as the code does:
split below and not linked above; `CreateFails` is `bplus_create` without
memory. `FirstKeys` only fixes the order in which some
keys arrive.

**CsvStorage.** A file is a sequence of bytes, of which it has only those a
reader or writer looks at, and one more. `fgets`, `parse_csv_line`,
`is_blank_line` and the readers are operators; the append is three steps
(compare with the header, look at the last byte, write), because it opens the
file three times, and `write_fails` leaves any prefix. Several writers may be at
it at once: `Glued` names the one case in which that does damage, a writer that
found a line end which is no longer the last byte. Cells are read as the code
does, from quote to quote. `HeaderAssumption` leaves out one kind of file: a
header with a quoted name that is all there is and ends with a lone carriage
return. `append_insert_row` takes that byte for a line end, and the readers, for
whom it is not one, then take the row for a part of the header.

**SqlParser** chooses each token when it is first read, and gives the same
tokens again to the second parser. Blocks are named; `texts` are the strings of
the values or columns. `NoMemory` is one failed allocation at any point.
**SqlGrammar** says independently, with sets and positions and no state, which
token sequences are statements.

**SqlLexer** is `lexer.c` as a machine of one step per character: `lex_pc` says
which of its loops it is in, `begun` is the token begun with the line and column
of its start, `out` the characters in the string buffer. **SqlTokens** says
independently what the tokens of a text are; `lexed` is that list, kept for
comparison.

**SqlScript** holds a text of characters (a word counts as one, so does a
digit). The cutter is one action per branch of the loop of `run_sql_text`; a
piece is trimmed, then lexed, parsed and executed. `Trim` takes what `isspace`
takes, `Blanks`, which is more than the `Space` the lexer skips: a form feed (the
vertical tab is the same to this code) before a statement is lost, and inside one
it is an error. The trace has the events of
`sql_trace.c` with what they tell: the text as `json_write_string` writes it,
with an `Escape` for a quote, a backslash and a control character, the tokens
(cut short where a copy finds no memory), the tree, the executor, the exit code.
`ParsedJson` reads such a text by the grammar of JSON. `written`, the statements
as the lexer sees them in the whole text, and `plain`, that no comment holds a
quote or a semicolon and no form feed stands outside a string, are computed once
for the properties.

**DemoServer** extends `SqlEngine`, whose process is the server's child, and
instantiates it once more for a process in a terminal that runs SELECTs: same
files, another `ent` and `pc`. `inbox` is the queue of the event loop, `serving`
the handler on the stack. `Spawn` is a handler up to `spawnSync`, `Respond` what
follows it, and between the two only the child and the terminal move. The
child's steps are those of `SqlEngine`, with the number of statements left in
its script and the exit code added. A child that is killed has no exit code of
its own (`NoExitCode`): `spawnSync` gives null, or, for `/api/run-command`, the
code of the shell that started it.

How they fit: `SqlEngine` treats the tree as a map, which `BPlusTree` shows it
is (`ImplementsKeyMap`), failed allocations included: in `IndexFails` an
arbitrary part of the index may be lost. It treats the storage as lines, which
`AppendedRowIsLast`, `RowsStay` and `TornWriteLeavesPrefix` of `CsvStorage`
justify within the limits they state. `SqlScript` treats the parsers as the
grammar, which `AcceptsTheLanguage` of `SqlParser` shows they are. In
`SqlEngine` an append by the child is one step also for the terminal: a row that
fits the buffer of stdio reaches the file in one `write`.

## 3. Runs

Passing:

- **Engine**: two tables, two lines at most on file at the start, fewer than three
  when an INSERT starts, rows that the readers break up, every failure and restart. The index agrees with the
  file between statements (`IndexAgrees`), the next id is fresh
  (`NextIdIsFresh`), `WHERE id = k` finds what a scan would
  (`WhereAgreesWithScan`, for integers one past the type too), reported rows are found by every later process
  (`AckedRowFound`), a loadable table becomes unloadable by a cut write, a row
  that is broken up, or an INSERT after the largest integer, and by nothing else
  (`LoadableKept`), and the whole implements `PkTable`.
- **EngineIds**: a table that is only an id, ids of several digits up to the
  largest integer: a write cut inside an id leaves another, valid id, and the
  wrapped next id can spoil a table. Reported rows survive both.
- **Tree**: two keys to a node, six keys in every order, all calls, an
  allocation failing anywhere. `CallsReturn` is the liveness property.
- **TreeWide**: three keys to a node, the code's default. An even and an odd
  number of keys split differently. Eight even keys make four leaves and a full
  root; six more, in any order, can then split the first, a middle and the last
  leaf, and the root with it. `Balanced` is checked with failing allocations: what is still
  reachable after one is as balanced as before.
- **Csv**: a header and any three bytes as the file, rows that exercise quoting,
  the line buffer (a row that fills it, a row one byte longer), NULL, carriage
  returns, line feeds, a wrong number of values, up to two appends, and a second
  process that appends to a file without rows before, while or after the first
  one does. Two appends that interleave leave an empty line at worst, except
  when `Glued` holds; there the two rows run together.
- **Parser**: every statement of up to fifteen tokens, hence INSERTs of up to
  five values (the array of four grows), with one allocation failing anywhere.
- **Script**: every text of up to five of the characters `'`, `;`, `-`, newline
  and a word; every sequence of three pieces (statements, numbers with signs,
  comments, strings that just fit, missing ends, characters that are no token,
  double quotes, backslashes and control characters in a string and outside),
  and of two after a byte order mark, in both programs. `LexedAsDefined`,
  `PositionsTrue` and `StringFits` are about the lexer, `CutAsLexed` compares it
  with the cutter, `ExitCodeTrue` and `ErrorNamesStatement` are what a caller
  learns, `TraceTellsTheRun` what the trace tells, `EventsAreLines` that a
  statement is one line of it and is read back from it, and `RunEnds` is the liveness property.
- **Demo**: two browsers with all four kinds of requests, scripts of up to two
  statements, failures, torn writes and kills of the child, and a terminal.
  `StaleButRight`: an index loaded before others appended still leads to the
  right rows. `ReplyTellsRun`: the second snapshot is the first plus one row per
  INSERT that succeeded, and exit code 0 means nothing else happened, for tables
  with an id and no row that is broken up.
  `RequestsAnswered` is the liveness property. `ServerTypeOK` includes that a
  child lives only under a handler.

Each property of these runs has a mutant in `PROJECT.json`: a plausible bug in a
definition, under which TLC finds that property violated.

Runs that show a disagreement (section 7): **EngineLastId**,
**EngineOneColumn**, **CsvLineFeed**, **ScriptComment**.

## 4. Bounds

- `MaxLines` (engine): the actions look at the number of rows, the largest id,
  and the first repeated or unreadable one; every
  file of up to two lines, and what INSERTs make of it until it has three (four
  in EngineIds and EngineLastId), has every combination of those with blank lines
  before, between and after.
- `MaxInt`, `Radix`: 5 and 2 instead of 2^63 - 1 and 10. Properties depend on
  order and on the wrap at the top, which EngineIds and Demo reach; EngineIds
  uses ids of three binary digits so that a cut can leave one or two of them.
- `Split`, `Rests`: one text that is broken up, in Engine and in Demo. What follows
  its first line is a line of too few cells, or (Engine) one that looks like a
  row with an id; the other runs of the engine have no such text.
- `MaxKeys`: 2 and 3, one even and one odd, because the halves are computed by
  rounding. `Addr` has 16 addresses; an insertion starts only when it will not
  run out (`InTurn`). One allocation fails per process.
- `LineCap` (Csv): 8, so that one of the rows fills the buffer and one is a byte
  too long. `MaxBytes`: 9 for the first process, so that a second append follows
  a first whenever the file is still that short, cut writes included; 5 for the
  second process, so that it begins on a file that has a header only, with any
  end of that line, or a byte of a row.
- `FirstCap`: 4 as in the code. `MaxTokens`: 16 tokens, the last of them the end
  of the text.
- `StrCap`: 5 instead of the code's limit; the piece `Long` has exactly one
  character too many, and `Brim` reaches the limit with a pair of quotes. One
  character stands for form feed and vertical tab, one for the other control
  characters that are no white space, since the code treats them alike.
- `MaxStatements` (Demo): 2, so that a run can fail after a statement that
  succeeded. Clients make any number of requests, one at a time each; two of
  them are enough for one to wait while the other is served.

The bounds are in the guards of actions or in the sets of initial states. No
state constraint is used.

## 5. Fairness and deadlock

Three modules state fairness, always weak.

- `BPlusTree`: of the steps of a call. The code is sequential and nothing in a
  call waits for anything, so a call that can go on does. Nothing is assumed
  about new calls.
- `SqlScript`: of the next step of a run, for the same reason.
- `DemoServer`: of the handlers, since the event loop goes on with what is in its
  queue, in order; and of the child, which the system schedules. Nobody has to
  ask for anything, and the terminal need not do anything. A child ends because
  its script does: `spawnSync` has no timeout, and a child that hung would stop
  the server.

The other modules have safety properties only.

`SqlParser` and `SqlScript` model one statement and one run, which end; their
configurations switch the deadlock check off. All others are checked for
deadlock.

## 6. Proofs

TLAPS proves the theorems below for every value of the constants that the
assumptions of the modules allow. These say that the constants have their types,
that a mark (`NoId`, `Nil`, `Nobody`, ...) is none of the values it marks the
absence of, and that sizes are at least what the code has: two keys to a node,
one address, a string buffer of at least one character. The bounds of section 4 are
constants too, and the theorems hold whatever their values, so for any
number of tables, rows, nodes, tokens, characters, requests and crashes.

### Engine (`SqlEngine_proofs`)

For any tables and headers, any values, any `MaxInt >= 1` and any files before
the first process, with all failures and crashes:

| Theorem | Statement |
|---|---|
| `TypeCorrect` | `Spec => []TypeOK` |
| `InvCorrect` | `Spec => []IInv`, the inductive invariant |
| `IndexAgreesCorrect` | `Spec => []IndexAgrees` |
| `NextIdIsFreshCorrect` | `Spec => []NextIdIsFresh` |
| `WhereAgreesCorrect` | `Spec => []WhereAgreesWithScan` |
| `AckedRowFoundCorrect` | `Spec => []AckedRowFound` |
| `LoadableKeptCorrect` | `Spec => LoadableKept` |
| `PkTableImplemented` | `Spec => ImplementsPkTable` |

`IndexAgrees` is not inductive: it is silent between append and index, and says
nothing of where the job's id and row number came from. `IInv` adds

- `EntInv`: an entry that is loaded *fits* its file, if no row in it was broken up
  (`FitsIfWhole`; otherwise its tree still holds ids and row numbers) -- the tree has exactly the
  known ids with their row numbers, which rules out an id that repeats, rows are
  well formed, the next id is above them unless the largest integer is one. The known lines are all of them, or all but
  the last one while the INSERT at work on that table has appended it and not
  yet indexed it;
- `JobInv`: the INSERT in progress took its id from the entry, and once counted,
  its row number is that of the last row;
- `DownInv`: no process, no entries;
- `AckInv`: a reported row, or its first line, is on some line of its file. Files
  only grow, which is a lemma (`FilesGrow`).

A file stays whole through every step but the INSERT of a text in `Split`
(`RowTexts`, `TornText`), so what is proved of whole files is proved as if there
were no such text; that INSERT has a lemma of its own (`SplitShows`). Two theorems speak of
other files too: `AckedRowFound`, and `PkTableImplemented`, for which such a file is
`BrokenUp` (`BrokenInStore`).

The rest is lemmas on row numbers (`RowNoGrows`, `RowNoInjective`,
`AppendLine`: appending changes no earlier row number), on the loader
(`LoadedEntProps`), on `Max` of a bounded set (`MaxOfBounded`), and one step per
action in `TypeStep` and `InvStep`. The exit after a failed statement is what
the proof of `IndexFails` and `CountFails` needs: in `exit` the index need not
fit. `AckedRowFound` follows from `AckInv` and the injectivity of row numbers;
it holds for loadable tables only, since a cut write can repeat an id and then
no process loads the table. `WhereAgreesWithScan` speaks of every integer a
script may write, one past either end of the type included; its proof is that of
the ids, and that an integer outside the type is turned into one that no row has
(`InRange`).

The refinement needs one thing more. `PkTable` says that a new row has the id
that *follows* the largest, where `IInv` only says that the next id is above it.
`NextIdInv` closes the gap: unless the largest integer is on file, the next id is
one more than some id, or than 0. Then each action of the engine is shown to be
an Insert, a Tear, a BreakUp, a step of a saturated table, Run, Stop or a stutter.

### B+ tree (`BPlusTree_steps`, `BPlusTree_proofs`)

For any number of keys to a node from two on, any keys and rows, any calls in
any order, and an allocation failing anywhere:

| Theorem | Statement |
|---|---|
| `TreeSound` | `Spec => []TreeInv`, the inductive invariant |
| `TypeCorrect` | `Spec => []TypeOK`: no array is filled past its end |
| `TreeShaped` | `Spec => []IsTree` |
| `SeparatorsTrue` | `Spec => []Separated` |
| `AllBalanced` | `Spec => []Balanced` |
| `LeavesInOrder` | `Spec => []LeavesLinked` |
| `NothingLost` | `Spec => []NothingLeaked` |
| `MapImplemented` | `Spec => ImplementsKeyMap` |

The properties speak of what is reached from the root, by recursion, and of the
time between calls; neither can be carried through a split. `TreeInv` says instead
that there is

- a *level* for every allocated node, 0 for leaves, one more for a parent than
  for its children (`Levels`), which replaces recursion by induction on numbers;
- a *span* for every node, the integers whose search passes it. Keys lie in the
  span of their node, and a child's span is what its parent's separators leave of
  the parent's span (`Spans`, `View`). On the way up the node that was split and
  its new neighbour share what the parent still sends to one of them (`Sent`);
- the set of nodes that hang from the root or from the node on its way up
  (`Live`). What a failed allocation cut off is still in the heap, and has levels
  and spans too, since its parent pointers can still be followed;
- the content: on the way down the leaves hold what they held when the call
  began, on the way up also the new key (`Content`);
- the links of the leaves: a leaf's neighbour has the span that comes next
  (`Chained`), as long as no allocation failed;
- addresses left for the splits to come, one for each level above (`Room`).

Each action has a lemma that gives the new levels and spans: a split cuts a span
in two at the separator, a new root gets all integers, `RiseFails` gives the
span of what it loses back to the node that stays. That the recursive functions
`Under` and `depth` exist at all, and that `Under` is the smallest closed set,
is proved by induction on levels. From the invariant the properties follow
directly: two leaves never share an integer (`LeavesApart`), so a key is in one
leaf only, and it is the one that `find_leaf` reaches (`LookedUp`).

For the refinement, `TheMap` is the content between calls and `was` during one.
The step that returns is the step of the map: its lemma says what the leaves
hold afterwards, and what they hold is `Contents` (`HeldOnce`). When an
allocation fails on the way up the leaves are only *within* the old map and the
new key, which is what `Fail` of `KeyMap` allows.

### Parsers (`SqlParser_proofs`)

For texts and arrays of any length, and one allocation failing anywhere:

| Theorem | Statement |
|---|---|
| `ParserInv` | `Spec => []PInv`, the inductive invariant |
| `ParserTypeCorrect` | `Spec => []TypeOK` |
| `InBoundsCorrect` | `Spec => []InBounds` |
| `ParserRefuses` | `Spec => [](PInv /\ RefusedInv)` |
| `AcceptsTheLanguageCorrect` | `Spec => []AcceptsTheLanguage` |
| `NothingLeakedCorrect` | `Spec => []NothingLeaked` |

`PInv` says, for each place of the parsers, what the tokens read so far are
(`ReadInv`), where the end of the text can be (`EofInv`), and which blocks and
strings are owned, with the room in the array (`BlockInv`, `TextsAt`).
`AcceptsTheLanguage` has two halves. What is accepted is a sentence: from
`ReadInv` at the last place, with the list cut out of the tokens as `SqlGrammar`
does. What is refused is the beginning of no sentence: `RefusedInv` says so of
the text so far, and is kept because a token is refused only where no sentence
that agrees with the text so far has one like it. It must speak of both parsers,
since a text that is no INSERT is read again as a SELECT.

### Scripts and lexer (`SqlLexer_proofs`, `SqlScript_proofs`)

For scripts of any length and any capacity of the string buffer, in both
programs:

| Theorem | Statement |
|---|---|
| `ScriptInv` | `Spec => []SInv`, the inductive invariant |
| `StringFitsCorrect` | `Spec => []StringFits` |
| `PositionsTrueCorrect` | `Spec => []PositionsTrue` |
| `ErrorNamesStatementCorrect` | `Spec => []ErrorNamesStatement` |
| `EventsAreLinesCorrect` | `Spec => []EventsAreLines` |
| `TypeCorrect` | `Spec => []TypeOK` |
| `LexedInvCorrect` | `Spec => []LexedInv`, the invariant of the tokens |
| `LexedAsDefinedCorrect` | `Spec => []LexedAsDefined` |
| `ToldInvCorrect` | `Spec => []ToldInv`, the invariant of the trace |
| `TraceTellsTheRunCorrect` | `Spec => []TraceTellsTheRun` |
| `MeantInvCorrect` | `Spec => []MeantInv`, the invariant of the statements |
| `CutAsLexedCorrect` | `Spec => []CutAsLexed` |
| `ExitCodeTrueCorrect` | `Spec => []ExitCodeTrue` |

`SInv` consists of `LexInv` (line and column are those of the position, the token
begun has those of its first character, the buffer has room), `CutInv` (where the
piece starts, and that every piece has a character), `NumberInv` (the piece at work is
the first that was not executed: a blank piece does not count, and only the last
one can be blank), `TakenInv` (what is executed parses) and `TraceInv` (an event
tells a statement so that it can be read back, though it was escaped). That it can
is shown of any text, by induction backwards from its end (`WrittenRead`): what is
written for its k-th character is read as that character, whether it stands for
itself or is an escape (`EscapeStands`), and only the last quote ends the string.

`LexedAsDefined` compares the lexer with `Lex`, which `SqlTokens` defines by two
recursions over the text: where the next token starts, and the tokens from a
position on. That functions satisfying these recursions exist is proved first,
by induction on what is left of the text (`WalkEnds`). `LexedInv` then says that the tokens of
the text are those given followed by those that `Lex` finds from a place that
depends on what the lexer is doing: from `pos` between tokens, from the end of
the line in a comment, from the first character of a token begun, with what is
known of its characters. In a string that is: the quotes so far are even in
number, none of them closes the string, and `out` is the length so far, a pair
being one (`BeganString`). The case that needs an argument is the full buffer:
the lexer gives up at once, and the definition because the string, wherever it
ends, is too long (`StringBreaks`). `TypeOK` has in it that the statements of a
script are well defined, so that the k-th `;` exists (`EndExists`).

`TraceTellsTheRun` speaks of a run that has ended; `ToldInv` is what holds at any
moment: five events for each statement executed (`WholeTold`), as many of the
statement at work as the run has got to (`AtWork`), and at the end one of five
endings (`EndOfRun`). That the tree of an INSERT tells its values and the tree of a SELECT
its columns, each once and in order, is a statement about sentences of any length
(`InsertTold`, `SelectTold`): of a list with commas every other token counts
(`CountAlternating`), and a SELECT has, besides its columns, one name for each of
`FROM` and `WHERE` (`CountSelect`).

`CutAsLexed` and `ExitCodeTrue` compare two readings of the same text: the cutter
counts quotes and knows nothing of comments, the lexer reads tokens. For a
script in which every quote and every `;` is part of a token, and every form feed
part of a string (`IsPlain`), they agree:

- a token that is not an error has an even number of quotes, and ends with a `;`
  only if it is one (`SameToken`). So where a token starts the cutter is outside
  strings, and it cuts at exactly the `;` that are tokens, until the lexer meets
  what is no token: there both the text and the piece have their last token;
- a piece ends with such a `;`, or what follows it is white space, so no token of
  the text goes on past its end, and a token of the piece is that of the text at
  the same place (`WordWithin`, `NumberWithin`, `StringWithin`). The string is the
  hard case: if a quote inside the piece closes it in one of the texts, it does in the
  other. By induction backwards from its end the piece has the tokens of the text up to
  the first that ends a statement (`PieceTokensAgree`, `PieceCut`); the blanks trimmed
  before it change nothing (`SpacesSkipped`), for they are such as the lexer skips:
  a form feed there would be part of no string (`BlanksBefore`, `BlanksAfter`);
- that token is the end of the next statement in the list cut out of the tokens of the
  whole text (`NextMeant`), unless it is the end of the text alone;
- what the parsers take from a piece ends with its first such token, and if they
  take nothing, the statement is no sentence (`StatementIsFirst`).

`MeantInv` says this at any moment. While the cutter scans, `Len(done)` statements
end before the piece it is in, the tokens after them are those `Lex` finds from the
piece's start on, `in_string` is the parity of its quotes and no `;` outside of
quotes was passed (`ScanAt`); while a piece is read it is statement
`Len(done) + 1` (`PieceAt`); the statements executed are the first of `written`
(`DoneInv`). `ScanOn` is one character, `ScanCuts` a cut, `PieceDone`, `PieceWrong` and
`PieceBlank` the ends of a piece, `ScanFinishes` the end of the script. That `CommentsAreIgnored`
is false of scripts with comments (run `ScriptComment`, section 7) shows that `IsPlain`
is needed.

### Demo server (`DemoServer_proofs`)

For any clients, tables and scripts, with kills of the child and a terminal:

| Theorem | Statement |
|---|---|
| `EngineInvUnderServer` | `ServerSpec => []IInv` |
| `ServerTypeCorrect` | `ServerSpec => []ServerTypeOK` |
| `StaleButRightCorrect` | `ServerSpec => []StaleButRight` |
| `ReplyTellsRunCorrect` | `ServerSpec => []ReplyTellsRun` |

Every step of the server is a step of the engine or leaves the engine alone
(`ServerStepIsEngineStep`), so the engine's invariant holds without being proved
again. `StaleButRight` rests on `TerminalInv`: the terminal's entry fits the
file as it was when it had fewer lines (`Behind`), and lines added at the end move
no row. `ReplyTellsRun` rests on `RunInv`, which counts: since the first
snapshot a table has got one line per reported INSERT, one more while an INSERT
has written and not reported, and at most one more at the end, none if the exit
code is 0.

### CSV storage (`CsvStorage_proofs`)

For files of any length, any rows, a line buffer of any size from two bytes on,
any number of writers that append between each other's steps, and writes cut
after any byte:

| Theorem | Statement |
|---|---|
| `TypeCorrect` | `Spec => []TypeOK`: a row being written has a value per column |
| `RowsStayCorrect` | `Spec => RowsStay` |
| `AppendedRowIsLastCorrect` | `Spec => AppendedRowIsLast` |
| `TornWriteLeavesPrefixCorrect` | `Spec => TornWriteLeavesPrefix` |

`TypeOK` compares the row of a writer with the header at any later time, so it
needs that nothing appended changes how many columns the header has. `HeaderEnds`
is what makes it so: the header is *stable* -- it ends with a line feed, fills
the buffer, or has a carriage return that no quote hides -- or every writer that
has looked at the last byte will begin with a line feed, after which it is
stable. `IInv` is `TypeOK /\ HeaderEnds`.

The readers are recursive functions over the bytes. That functions satisfying
these recursions exist is proved first, by induction from the end of the text
(`WalkEnds`). Then:

- a piece that ends with a line feed, or fills the buffer, is the same piece in
  any longer file (`PieceGrows`), so the pieces of a file are those of a longer
  one but for the last (`PiecesAgree`): that is `RowsStay`. Its last row needs
  that a line feed would change nothing in it, which `Closed` says;
- what follows a line end and has no line feed of its own is one piece more
  (`RowAppended`), or none if it is blank; a second line feed adds nothing
  (`SecondLineFeed`), which is what makes a needless one harmless;
- `EscapedPlaces` says where in a written cell the bytes of its text are, two
  quotes for one, and `EscapedRead` follows the reader through them, forwards in
  the text by induction backwards from its end: it stops at the closing quote and at no
  other, and if the cell is cut, at the cut, with a part of the text. `FieldRead`
  adds the cells that are not quoted;
- `PartReadBack` does the same with the cells of a row: any first part of the
  bytes of a row is read as a first part of its values. With the whole row this
  is `AppendedRowIsLast`, with a part `TornWriteLeavesPrefix`.

### Only model-checked

- The liveness properties `CallsReturn`, `RunEnds` and `RequestsAnswered`, which
  are outside the provers.

## 7. Disagreements with the documents

- `EngineLastId`: with the largest integer on file, `next_id` overflows
  (`week7_index.c:187`) and an INSERT writes the smallest integer;
  `docs/03-api-reference.md:71` says the largest id plus one.
- `EngineOneColumn`: in a table of one column that is not `id`, an INSERT of NULL
  writes an empty line and reports success; `docs/03-api-reference.md:63` says a
  data row is added.
- `CsvLineFeed`: a string with a line feed becomes two rows, and the table no
  longer reads (`csv_storage.c:306` against `csv_storage.c:184`); same line of
  the document.
- `ScriptComment`: a quote in a `--` comment hides the statements after it; the
  parser executes the first and the run returns 0 (`sql_processor.c:102`,
  `parser.c:182`); `docs/03-api-reference.md:105` says comments are ignored.
- Also of comments, without a run of its own: a comment after the last `;` goes to
  the parsers as a statement (`sql_processor.c:117`; only white space is passed
  over, `sql_processor.c:43`), they find none, and the run returns 2 although every
  statement was executed. `docs/03-api-reference.md:105` says comments are ignored,
  and line 22 of it that 2 is a syntax error. `ExitCodeTrue` says what the code does:
  exit code 2 where a piece is nothing but comments means that all statements were
  executed, and elsewhere that the next one is none of the language.

Five more cases are named in properties and excluded there: a row longer than
the line buffer (`OneLine`, and `Whole` in the engine); a form feed or a vertical
tab outside the strings of a script (`IsPlain`), which the cutter trims with `isspace`
(`sql_processor.c:25`) and the lexer does not skip (`lexer.c:102`), so that a
statement after one is executed though the lexer finds an error in the whole
text; a file that ends with a lone carriage return, after
which a new row is read as part of the last one (`Plain`); a second process that
appends between the look at the last byte and the write (`Glued`), which the
documents exclude; and an integer outside the type after `WHERE id =`, which
`strtoll` turns into the end of the type and which so finds the row with the
largest or the smallest id, if there is one (`InRange`, `parser.c:340`).

## 8. Not modelled

- Column names and the printed text of SELECT: a SELECT that names an unknown
  column is `SelectFails`, which is always possible.
- The usage errors of the programs, and a parser's allocation that fails in a
  run (`SqlParser` has it; in `SqlScript` it would be one more parse error).
- The letters of names and the digits of numbers: the lexer takes runs of them.
- NUL bytes in files and scripts.
- Two processes that both INSERT into one table, at the level of rows: the
  documents exclude it, and the second would hand out ids that are taken. The
  byte level of it is in `CsvStorage`. So is left out a server that is killed
  while its child goes on.
- Leaks inside `csv_storage.c` when an allocation fails while reading; the
  process ends with that statement.
- The demo's handlers that return constants, its static files and pages, and
  commands of `/api/run-command` that build or test.
- The benchmark: a sequential program without state of its own, whose calls are
  those of `BPlusTree`. The tests.

## 9. Plan

The modules of section 2 are complete as far as section 8 says, and every property
that the runs check is proved but the three liveness properties at the end of
section 6. A change of the code starts at the definition that PROJECT.json maps to
the lines changed: first the runs, then the proofs of that module.
