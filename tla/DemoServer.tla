----------------------------- MODULE DemoServer -----------------------------
(***************************************************************************)
(* The demo server (demo/server.js) with the program it starts.  Clients   *)
(* post scripts; the handlers run one at a time, in the order in which the *)
(* requests arrived, because spawnSync holds the event loop until the      *)
(* program has ended.  /api/run takes a snapshot of the data directory     *)
(* before and after and answers with both and the exit code;               *)
(* /api/run-command only runs.  The server's child is the process of       *)
(* SqlEngine, with a script of a few statements.  Meanwhile somebody reads *)
(* the same tables from a terminal, in a process of its own with an index  *)
(* of its own: the single writer the documents assume, and a reader.       *)
(***************************************************************************)
EXTENDS SqlEngine, SequencesExt

CONSTANTS
  Clients,        \* browsers, with one request at a time each
  Nobody,         \* not a client
  MaxStatements   \* bound: statements in a script

\* What is asked for: /api/run with a script or without one, /api/run-command
\* with a command that runs the program or with one that is not allowed.
Kinds == {"run", "empty", "command", "refused"}

ASSUME ServerAssumption == Nobody \notin Clients /\ MaxStatements \in Nat

VARIABLES
  asks,     \* asks[c]: what client c waits for, or "nothing"
  inbox,    \* the clients whose request no handler has taken, oldest first
  serving,  \* the client whose handler is on the stack
  before,   \* csvBefore of that handler
  left,     \* statements the child has not begun
  status,   \* result.status of spawnSync: exit code, or "null" when killed;
            \* "shell": a code of the shell's own (127, 128 + the signal)
  reply,    \* the last answer, until the next child begins
  did,      \* history: the INSERTs the last child reported as done
  tpc, tent \* the terminal's process, as pc and ent are the child's

child    == <<file, ent, pc, job, acked>>
terminal == <<tpc, tent>>
server   == <<asks, inbox, serving, before, status, reply>>
allvars  == <<child, terminal, server, left, did>>

Terminal == INSTANCE SqlEngine WITH pc <- tpc, ent <- tent, job <- NoJob

\* No snapshot: not even of empty files.
NoFiles == [t \in {} |-> <<>>]
Status  == {"0", "2", "3", "null", "shell"}
Reply   == [http : {"200", "400", "500", "none"},
            exitCode : {"0", "1", "2", "3", "shell", "none"},
            csvBefore : {NoFiles, reply.csvBefore}, csvAfter : {NoFiles, reply.csvAfter}]

\* A child lives only while a handler waits for it, and every request is in
\* the hands of one handler or in the inbox, once.
ServerTypeOK ==
  /\ asks \in [Clients -> Kinds \cup {"nothing"}]
  /\ serving \in Clients \cup {Nobody}
  /\ serving = Nobody => pc = "down"
  /\ IsInjective(inbox)
  /\ ToSet(inbox) = {c \in Clients : asks[c] # "nothing"} \ {serving}
  /\ left \in 0 .. MaxStatements
  /\ status \in Status
  /\ reply \in Reply
  /\ did \subseteq acked

Error(code) == [http |-> code, exitCode |-> "none", csvBefore |-> NoFiles, csvAfter |-> NoFiles]

NoReply == Error("none")

ServerInit ==
  /\ Init
  /\ tpc = "down" /\ tent = ent
  /\ asks = [c \in Clients |-> "nothing"] /\ inbox = <<>> /\ serving = Nobody
  /\ before = NoFiles /\ left = 0 /\ status = "0"
  /\ reply = NoReply /\ did = {}

-----------------------------------------------------------------------------
(* Requests and their handlers.                                            *)

Send(c, kind) ==
  /\ asks[c] = "nothing"
  /\ asks' = [asks EXCEPT ![c] = kind]
  /\ inbox' = Append(inbox, c)
  /\ UNCHANGED <<child, terminal, serving, before, left, status, reply, did>>

\* The event loop calls the next handler when the last one has returned.
NextRequest(c) ==
  /\ serving = Nobody /\ inbox # <<>> /\ c = Head(inbox)
  /\ inbox' = Tail(inbox)

Answered(c, answer) ==
  /\ asks' = [asks EXCEPT ![c] = "nothing"]
  /\ serving' = Nobody
  /\ before' = NoFiles
  /\ reply' = answer

\* Mutant: the check returns and sends nothing.
BadRequestUnanswered(c) ==
  /\ NextRequest(c) /\ asks[c] \in {"empty", "refused"}
  /\ UNCHANGED <<child, terminal, asks, serving, before, left, status, reply, did>>

\* No script, or a command the prefixes do not allow.
BadRequest(c) ==
  /\ NextRequest(c) /\ asks[c] \in {"empty", "refused"}
  /\ Answered(c, Error("400"))
  /\ UNCHANGED <<child, terminal, left, status, did>>

\* The program is not built, or the first snapshot or the temporary
\* directory throws.
NotStarted(c) ==
  /\ NextRequest(c) /\ asks[c] = "run"
  /\ Answered(c, Error("500"))
  /\ UNCHANGED <<child, terminal, left, status, did>>

\* What there is instead of the program's exit code when it did not start or
\* was killed: nothing, or what the shell of /api/run-command makes of it.
NoExitCode(kind) == IF kind = "command" THEN {"null", "shell"} ELSE {"null"}

\* spawnSync: the child begins, with a script of so many statements; or there
\* is no child.
Spawn(c, statements) ==
  /\ NextRequest(c) /\ asks[c] \in {"run", "command"}
  /\ serving' = c
  /\ before' = IF asks[c] = "run" THEN file ELSE NoFiles
  /\ did' = {}
  /\ \/ Start /\ left' = statements /\ status' = "0"
     \/ UNCHANGED child /\ left' = 0 /\ status' \in NoExitCode(asks[c])
  /\ reply' = NoReply
  /\ UNCHANGED <<terminal, asks>>

\* Mutant: a child that was killed counts as one that ended well.
exitCode_of_null(kind) == IF status = "null" THEN "0" ELSE status
exitCode(kind) ==
  IF status # "null" THEN status ELSE IF kind = "run" THEN "3" ELSE "1"

Body(kind) ==
  [http |-> "200", exitCode |-> exitCode(kind), csvBefore |-> before,
   csvAfter |-> IF kind = "run" THEN file ELSE NoFiles]

\* Mutant: the handler goes on before the child has ended.
RespondAtOnce(c) ==
  /\ serving = c
  /\ Answered(c, Body(asks[c]))
  /\ UNCHANGED <<child, terminal, inbox, left, status, did>>

\* spawnSync returned.  The second snapshot may throw.
Respond(c) ==
  /\ serving = c /\ pc = "down"
  /\ \/ Answered(c, Body(asks[c]))
     \/ "read" \in Faults /\ asks[c] = "run" /\ Answered(c, Error("500"))
  /\ UNCHANGED <<child, terminal, inbox, left, status, did>>

-----------------------------------------------------------------------------
(* The child.  A statement is done when its last step is.                  *)

Statement ==
  /\ left > 0 /\ left' = left - 1
  /\ \/ on_append_success
     \/ \E t \in Tables : SelectScan(t) \/ \E n \in Literal : SelectWhere(t, n)
  /\ did' = did \cup (acked' \ acked)
  /\ UNCHANGED status

InsertStep ==
  /\ left > 0
  /\ \/ append_insert_row \/ count_rows
     \/ \E t \in Tables : \E n \in 0 .. Header[t].ncol + 1, v \in RowVals(t) :
           prepare_insert_values(t, n, v)
  /\ UNCHANGED <<left, did, status>>

StatementFails ==
  /\ left > 0
  /\ \/ AppendRefused \/ AppendFails \/ CountFails \/ IndexFails
     \/ \E t \in Tables : SelectFails(t) \/ \E n \in 0 .. Header[t].ncol + 1 : PrepareFails(t, n)
  /\ status' = "3" /\ left' = 0
  /\ UNCHANGED did

\* The end of the script, or a statement that does not parse.
ScriptEnds == /\ EndScript
              /\ status' = IF left = 0 THEN "0" ELSE "2"
              /\ left' = 0
              /\ UNCHANGED did

Ended  == Exit /\ UNCHANGED <<left, did, status>>
Killed == Crash /\ status' \in NoExitCode(asks[serving]) /\ left' = 0 /\ UNCHANGED did

ChildStep == /\ \/ Statement \/ InsertStep \/ StatementFails
                \/ ScriptEnds \/ Ended \/ Killed
             /\ UNCHANGED <<terminal, asks, inbox, serving, before, reply>>

-----------------------------------------------------------------------------
(* The terminal: a process that reads.                                     *)

TerminalStep ==
  /\ \/ Terminal!Start \/ Terminal!EndScript \/ Terminal!Exit \/ Terminal!Crash
     \/ \E t \in Tables : \/ \E n \in Literal : Terminal!SelectWhere(t, n)
                          \/ Terminal!SelectScan(t)
                          \/ Terminal!SelectFails(t)
  /\ UNCHANGED <<child, server, left, did>>

Handlers ==
  \E c \in Clients : \/ BadRequest(c) \/ NotStarted(c) \/ Respond(c)
                     \/ \E n \in 0 .. MaxStatements : Spawn(c, n)

ServerNext == \/ \E c \in Clients, kind \in Kinds : Send(c, kind)
              \/ Handlers
              \/ ChildStep
              \/ TerminalStep

\* The event loop goes on with what is in its queue, and the system goes on
\* with the child.  Nobody has to ask, and nobody has to read.
ServerSpec == /\ ServerInit /\ [][ServerNext]_allvars
              /\ WF_allvars(Handlers) /\ WF_allvars(ChildStep)

-----------------------------------------------------------------------------
(* Properties.                                                             *)

\* An entry that another process fills the file behind is out of date and
\* still right: every id it knows, it finds, in the row of that id, whatever
\* the child appends, tears or leaves uncounted (ensure_loaded, which never
\* looks at the file again; executor_execute_select).
StaleButRight ==
  \A t \in Tables : tent[t].loaded /\ tent[t].id_pk =>
    \A k \in DOMAIN tent[t].tree :
      /\ where_ok(t, tent[t], file[t], k)
      /\ \A i \in where_rows(tent[t], file[t], k) : file[t][i].id = k

NewLines(t) == SubSeq(reply.csvAfter[t], Len(reply.csvBefore[t]) + 1, Len(reply.csvAfter[t]))
DidTo(t)    == {d \in did : d.table = t}

\* What /api/run answers is what its run did, to the tables with an id and with
\* rows of one line: the second snapshot is the first with one row for each
\* INSERT that succeeded, and nothing else when the exit code is 0; otherwise
\* there may be one line more, of the statement that failed or was cut off (the
\* handler of /api/run, execute_insert).
ReplyTellsRun ==
  serving = Nobody /\ reply.csvAfter # NoFiles =>
    \A t \in PkTables : Whole(reply.csvAfter[t]) =>
      /\ IsPrefix(reply.csvBefore[t], reply.csvAfter[t])
      /\ \A d \in DidTo(t) : \E i \in DOMAIN NewLines(t) :
            NewLines(t)[i].id = d.id /\ NewLines(t)[i].val = d.val
      /\ Len(NewLines(t)) - Cardinality(DidTo(t)) \in
            IF reply.exitCode = "0" THEN {0} ELSE {0, 1}

\* Every request is answered, however the child ends and however many other
\* requests there are (the order of the event loop; spawnSync has no timeout,
\* so this rests on the child's end).
RequestsAnswered ==
  \A c \in Clients : asks[c] # "nothing" ~> asks[c] = "nothing"
=============================================================================
