---------------------------- MODULE MCDemoServer ----------------------------
(* One table with an id, two browsers and a terminal. *)
EXTENDS DemoServer

CONSTANTS NULL, m, users, c1, c2

L(c, id) == [cells |-> c, id |-> id, val |-> NULL]

\* What follows the first line of the text m, which has a line feed.
MCRests == {<<L(1, NoId)>>}

MCTables == {users}
MCHeader == [t \in MCTables |-> [ncol |-> 2, idpk |-> TRUE]]
MCFiles  == [t \in MCTables |-> {<<>>, <<L(0, NoId), L(2, 1)>>}]
=============================================================================
