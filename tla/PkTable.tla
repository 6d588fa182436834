------------------------------ MODULE PkTable ------------------------------
(***************************************************************************)
(* What the SQL processor promises about the rows of its tables, seen by   *)
(* somebody who looks only at the data: a table is a partial map from id   *)
(* to payload; an INSERT adds one row, under an id above every id the      *)
(* table holds; nothing is updated or removed; a write that fails part of  *)
(* the way may leave a damaged table, and then the statement that did it   *)
(* is the last one its process runs.  A row that cannot be one line breaks *)
(* the table up, and nothing more is promised of it.                       *)
(***************************************************************************)
EXTENDS Integers, FiniteSetsExt

CONSTANTS Tables,   \* names of the tables whose first column is id
          Values,   \* payloads of a row
          Keys,     \* every id a cell can hold
          TopId     \* the largest of them: after it there is no next id

VARIABLES store,    \* store[t]: readable, and the rows when it is
          alive     \* a process is running statements

vars == <<store, alive>>

NoRows == [k \in {} |-> {}]
Unreadable == [ok |-> FALSE, rows |-> NoRows]
BrokenUp   == [ok |-> FALSE, brokenUp |-> TRUE]

WithRow(rows, id, v) ==
    [k \in DOMAIN rows \cup {id} |-> IF k = id THEN v ELSE rows[k]]

Init == /\ alive = FALSE
        /\ \A t \in Tables : store[t].ok \/ store[t] \in {Unreadable, BrokenUp}

Run == alive' = TRUE /\ UNCHANGED store

Stop == alive' = FALSE /\ UNCHANGED store

\* The only way a row appears while the process goes on running.
Insert(t, v) ==
    LET rows == store[t].rows
        id   == Max(DOMAIN rows \cup {0}) + 1
    IN  /\ alive /\ store[t].ok /\ TopId \notin DOMAIN rows
        /\ store' = [store EXCEPT ![t].rows = WithRow(rows, id, v)]
        /\ UNCHANGED alive

\* A write that stops half-way: one arbitrary row, or an unreadable table.
Tear(t) ==
    /\ alive /\ store[t].ok
    /\ alive' = FALSE
    /\ \/ \E id \in Keys \ DOMAIN store[t].rows, v \in Values :
             store' = [store EXCEPT ![t].rows = WithRow(@, id, v)]
       \/ store' = [store EXCEPT ![t] = Unreadable]

\* A row of several lines, written in full or in part.
BreakUp(t) ==
    /\ alive /\ store[t].ok
    /\ alive' \in BOOLEAN
    /\ store' = [store EXCEPT ![t] = BrokenUp]

\* Once the largest id is taken no next id exists, and nothing is promised.
Saturated(t) ==
    /\ alive /\ store[t].ok /\ TopId \in DOMAIN store[t].rows
    /\ \/ \E id \in Keys \ DOMAIN store[t].rows, v \in Values :
             store' = [store EXCEPT ![t].rows = WithRow(@, id, v)]
       \/ store' = [store EXCEPT ![t] = Unreadable]
    /\ UNCHANGED alive

Next == \/ Run \/ Stop
        \/ \E t \in Tables : \/ \E v \in Values : Insert(t, v)
                             \/ Tear(t)
                             \/ BreakUp(t)
                             \/ Saturated(t)

Spec == Init /\ [][Next]_vars
=============================================================================
