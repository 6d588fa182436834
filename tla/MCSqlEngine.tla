---------------------------- MODULE MCSqlEngine ----------------------------
(***************************************************************************)
(* Instances of SqlEngine for TLC.  Files before the first process are all *)
(* sequences of at most two lines out of a few telling ones.               *)
(***************************************************************************)
EXTENDS SqlEngine, SequencesExt

CONSTANTS a, m, NULL, users, log, ids, ghost

L(c, id, v) == [cells |-> c, id |-> id, val |-> v]
Blank == L(0, NoId, NULL)

\* What follows the first line of a row that is broken up: the end of a cell, or
\* what happens to look like a row.
MCRests == {<<L(1, NoId, NULL)>>, <<L(2, 3, a)>>}

\* A table with an id and a payload, and one without an id.
MCTables == {users, log}
MCHeader == [t \in MCTables |-> IF t = users THEN [ncol |-> 2, idpk |-> TRUE]
                                             ELSE [ncol |-> 2, idpk |-> FALSE]]
\* Blank lines, the smallest id, an id that is not an integer, a short row,
\* and (by repetition) ids that occur twice.
MCFiles ==
  [t \in MCTables |->
     IF t = users
     THEN BoundedSeq({Blank, L(2, 1, a), L(2, MinInt, a), L(2, NoId, a), L(1, 2, a)}, 2)
     ELSE {<<>>, <<Blank>>, <<L(1, NoId, a)>>}]

\* A table that has only an id, for ids of more than one digit.
IdsTables == {ids, ghost}
IdsHeader == [t \in IdsTables |-> IF t = ids THEN [ncol |-> 1, idpk |-> TRUE]
                                             ELSE [ncol |-> 0, idpk |-> FALSE]]
IdsFiles ==
  [t \in IdsTables |->
     IF t = ids THEN BoundedSeq({Blank, L(1, 1, NULL), L(1, 2, NULL), L(1, MaxInt, NULL)}, 2) ELSE {<<>>}]

\* A table of one column that is not an id.
OneTables == {log}
OneHeader == [t \in OneTables |-> [ncol |-> 1, idpk |-> FALSE]]
OneFiles  == [t \in OneTables |-> BoundedSeq({Blank, L(1, NoId, a)}, 2)]

\* Ids up to the last one.
TopTables == {users}
TopHeader == [t \in TopTables |-> [ncol |-> 2, idpk |-> TRUE]]
TopFiles  == [t \in TopTables |-> BoundedSeq({L(2, 1, a), L(2, MaxInt, a)}, 2)]
=============================================================================
