-------------------------- MODULE DemoServer_proofs --------------------------
(***************************************************************************)
(* Proofs about DemoServer: the engine keeps its invariant under the       *)
(* server, and what clients and the terminal are told is true.             *)
(***************************************************************************)
EXTENDS DemoServer, SqlEngine_proofs

-----------------------------------------------------------------------------
(* The child is the engine.                                                *)

\* Every step of the server is a step of the engine or none.
LEMMA ServerStepIsEngineStep == [ServerNext]_allvars => [Next]_vars
<1> SUFFICES ASSUME [ServerNext]_allvars PROVE Next \/ UNCHANGED vars
  OBVIOUS
<1>1. CASE UNCHANGED child
  BY <1>1 DEF child, vars
<1>2. CASE Start
  BY <1>2 DEF Next
<1>3. CASE ChildStep
  BY <1>3 DEF ChildStep, Statement, InsertStep, StatementFails, ScriptEnds, Ended, Killed, Next
<1> QED
  BY <1>1, <1>2, <1>3 DEF ServerNext, Handlers, Send, BadRequest, NotStarted, Spawn, Respond,
     TerminalStep, allvars

LEMMA ServerInitIsEngineInit == ServerInit => Init
BY DEF ServerInit

LEMMA ServerSafety == ServerSpec => ServerInit /\ [][ServerNext]_allvars
BY PTL DEF ServerSpec

\* What is proved of the engine holds under the server.
THEOREM EngineInvUnderServer == ServerSpec => []IInv
BY ServerSafety, ServerInitIsEngineInit, ServerStepIsEngineStep, InvInit, InvStep, PTL
-----------------------------------------------------------------------------
(* Requests and their handlers.                                            *)

Waiting == {c \in Clients : asks[c] # "nothing"}

\* What ServerTypeOK leaves out: whose request a handler may hold, and that a
\* snapshot that was answered is one.
ServerInv ==
  /\ ServerTypeOK
  /\ inbox \in Seq(Clients)
  /\ serving # Nobody => asks[serving] \in {"run", "command"}
  /\ reply = [http |-> reply.http, exitCode |-> reply.exitCode,
              csvBefore |-> reply.csvBefore, csvAfter |-> reply.csvAfter]

\* An inbox that lists each waiting client once still does when another client
\* is added to its end, and when the first is taken from it.
LEMMA InboxGrows ==
  ASSUME NEW q \in Seq(Clients), IsInjective(q), NEW c \in Clients, c \notin ToSet(q)
  PROVE  LET r == Append(q, c) IN
         r \in Seq(Clients) /\ IsInjective(r) /\ ToSet(r) = ToSet(q) \cup {c}
<1> DEFINE r == Append(q, c)
<1>1. /\ r \in Seq(Clients) /\ Len(r) = Len(q) + 1 /\ Len(q) \in Nat
      /\ \A i \in 1 .. Len(q) : r[i] = q[i]
      /\ r[Len(q) + 1] = c
      /\ DOMAIN r = 1 .. Len(q) + 1 /\ DOMAIN q = 1 .. Len(q)
  OBVIOUS
<1> HIDE DEF r
<1>2. ToSet(r) = ToSet(q) \cup {c}
  BY <1>1 DEF ToSet
<1>3. IsInjective(r)
  <2>1. \A i \in 1 .. Len(q) : q[i] # c
    BY <1>1 DEF ToSet
  <2>2. \A i \in DOMAIN r : i \in 1 .. Len(q) \/ i = Len(q) + 1
    BY <1>1
  <2> QED
    BY <1>1, <2>1, <2>2 DEF IsInjective
<1> QED
  BY <1>1, <1>2, <1>3 DEF r

LEMMA InboxShrinks ==
  ASSUME NEW q \in Seq(Clients), IsInjective(q), q # <<>>
  PROVE  /\ Head(q) \in Clients /\ Tail(q) \in Seq(Clients) /\ IsInjective(Tail(q))
         /\ Head(q) \in ToSet(q) /\ ToSet(Tail(q)) = ToSet(q) \ {Head(q)}
<1> DEFINE r == Tail(q)
<1>1. /\ r \in Seq(Clients) /\ Len(r) = Len(q) - 1 /\ Len(q) \in Nat /\ Len(q) > 0
      /\ \A i \in 1 .. Len(r) : r[i] = q[i + 1]
      /\ DOMAIN r = 1 .. Len(q) - 1 /\ DOMAIN q = 1 .. Len(q)
      /\ Head(q) = q[1] /\ q[1] \in Clients
  OBVIOUS
<1> HIDE DEF r
<1>2. IsInjective(r)
  <2> SUFFICES ASSUME NEW i \in DOMAIN r, NEW j \in DOMAIN r, r[i] = r[j] PROVE i = j
    BY DEF IsInjective
  <2>1. i + 1 \in DOMAIN q /\ j + 1 \in DOMAIN q /\ q[i + 1] = q[j + 1]
    BY <1>1
  <2> QED
    BY <1>1, <2>1 DEF IsInjective
<1>3. ASSUME NEW x
      PROVE  x \in ToSet(r) <=> x \in ToSet(q) /\ x # q[1]
  <2>1. ASSUME NEW i \in DOMAIN r, x = r[i]
        PROVE  x \in ToSet(q) /\ x # q[1]
    <3>1. i + 1 \in DOMAIN q /\ x = q[i + 1] /\ 1 \in DOMAIN q /\ i + 1 # 1
      BY <1>1, <2>1
    <3> QED
      BY <3>1 DEF ToSet, IsInjective
  <2>2. ASSUME NEW i \in DOMAIN q, x = q[i], x # q[1]
        PROVE  x \in ToSet(r)
    <3>1. i - 1 \in DOMAIN r /\ r[i - 1] = x
      BY <1>1, <2>2
    <3> QED
      BY <3>1 DEF ToSet
  <2> QED
    BY <2>1, <2>2 DEF ToSet
<1>4. q[1] \in ToSet(q)
  BY <1>1 DEF ToSet
<1> QED
  BY <1>1, <1>2, <1>3, <1>4 DEF r

LEMMA ServerInvInit == ServerInit => ServerInv
<1> SUFFICES ASSUME ServerInit PROVE ServerInv
  OBVIOUS
<1>1. IsInjective(inbox) /\ inbox \in Seq(Clients) /\ ToSet(inbox) = {}
  BY DEF ServerInit, IsInjective, ToSet
<1> QED
  BY <1>1, ServerAssumption DEF ServerInit, ServerInv, ServerTypeOK, Reply, Status, NoReply,
     Error, NoFiles, Init, Kinds
\* The handler of the oldest request takes it from the inbox.
LEMMA RequestTaken ==
  ASSUME ServerInv, NEW c \in Clients, NextRequest(c)
  PROVE  /\ inbox' \in Seq(Clients) /\ IsInjective(inbox') /\ asks[c] # "nothing"
         /\ ToSet(inbox') = Waiting \ {c}
<1>1. /\ inbox \in Seq(Clients) /\ IsInjective(inbox) /\ inbox # <<>>
      /\ serving = Nobody /\ c = Head(inbox) /\ inbox' = Tail(inbox)
      /\ ToSet(inbox) = Waiting \ {Nobody}
  BY DEF ServerInv, ServerTypeOK, NextRequest, Waiting
<1>2. /\ Tail(inbox) \in Seq(Clients) /\ IsInjective(Tail(inbox))
      /\ c \in ToSet(inbox) /\ ToSet(Tail(inbox)) = ToSet(inbox) \ {c}
  BY <1>1, InboxShrinks
<1>3. Nobody \notin Waiting
  BY ServerAssumption DEF Waiting
<1> QED
  BY <1>1, <1>2, <1>3 DEF Waiting

\* An answered client waits no more.
LEMMA AnswerSent ==
  ASSUME ServerInv, NEW c \in Clients, NEW answer, Answered(c, answer)
  PROVE  /\ asks' \in [Clients -> Kinds \cup {"nothing"}]
         /\ Waiting' = Waiting \ {c}
         /\ serving' = Nobody /\ reply' = answer
BY DEF Answered, Waiting, ServerInv, ServerTypeOK

LEMMA ServerInvStep == ServerInv /\ IInv /\ [ServerNext]_allvars => ServerInv'
<1> SUFFICES ASSUME ServerInv, IInv, [ServerNext]_allvars PROVE ServerInv'
  OBVIOUS
<1> USE DEF Reply, Status
<1>0. /\ ServerTypeOK /\ inbox \in Seq(Clients) /\ TypeOK
      /\ serving \in Clients \cup {Nobody} /\ Nobody \notin Clients
  BY ServerAssumption DEF ServerInv, ServerTypeOK, IInv
<1>1. CASE UNCHANGED allvars
  BY <1>1 DEF allvars, child, terminal, server, ServerInv, ServerTypeOK
<1>2. ASSUME NEW c \in Clients, NEW kind \in Kinds, Send(c, kind)
      PROVE  ServerInv'
  <2>1. asks[c] = "nothing" /\ asks' = [asks EXCEPT ![c] = kind] /\ inbox' = Append(inbox, c)
        /\ UNCHANGED <<child, serving, left, status, reply, did>>
    BY <1>2 DEF Send
  <2>2. c \notin ToSet(inbox) /\ c # serving
    BY <1>0, <2>1 DEF ServerInv, ServerTypeOK, Kinds
  <2>3. inbox' \in Seq(Clients) /\ IsInjective(inbox') /\ ToSet(inbox') = ToSet(inbox) \cup {c}
    BY <1>0, <2>1, <2>2, InboxGrows DEF ServerTypeOK
  <2>4. asks' \in [Clients -> Kinds \cup {"nothing"}]
        /\ \A d \in Clients : asks'[d] = IF d = c THEN kind ELSE asks[d]
    BY <1>0, <2>1 DEF ServerTypeOK
  <2>5. ToSet(inbox)' = {d \in Clients : asks'[d] # "nothing"} \ {serving'}
    BY <1>0, <2>1, <2>2, <2>3, <2>4 DEF ServerTypeOK, Kinds
  <2> QED
    BY <1>0, <2>1, <2>2, <2>3, <2>4, <2>5 DEF ServerInv, ServerTypeOK, child
<1>3. ASSUME NEW c \in Clients, NextRequest(c), NEW code \in {"400", "500"},
             Answered(c, Error(code)), UNCHANGED <<child, left, status, did>>
      PROVE  ServerInv'
  <2>1. /\ inbox' \in Seq(Clients) /\ IsInjective(inbox')
        /\ ToSet(inbox') = Waiting \ {c} /\ serving = Nobody
    BY <1>3, RequestTaken DEF NextRequest
  <2>2. /\ asks' \in [Clients -> Kinds \cup {"nothing"}] /\ Waiting' = Waiting \ {c}
        /\ serving' = Nobody /\ reply' = Error(code)
    BY <1>3, AnswerSent
  <2>3. ToSet(inbox)' = Waiting' \ {serving'}
    BY <1>0, <2>1, <2>2 DEF Waiting
  <2> QED
    BY <1>0, <1>3, <2>1, <2>2, <2>3 DEF ServerInv, ServerTypeOK, Waiting, Error, NoFiles, child
<1>4. ASSUME NEW c \in Clients, NEW n \in 0 .. MaxStatements, Spawn(c, n)
      PROVE  ServerInv'
  <2>1. /\ NextRequest(c) /\ asks[c] \in {"run", "command"} /\ serving' = c
        /\ did' = {} /\ reply' = NoReply /\ asks' = asks
        /\ left' \in 0 .. MaxStatements /\ status' \in Status
    BY <1>4, ServerAssumption DEF Spawn, NoExitCode
  <2>2. /\ inbox' \in Seq(Clients) /\ IsInjective(inbox')
        /\ ToSet(inbox') = Waiting \ {c}
    BY <2>1, RequestTaken
  <2> QED
    BY <1>0, <2>1, <2>2 DEF ServerInv, ServerTypeOK, Waiting, NoReply, Error, NoFiles
<1>5. ASSUME NEW c \in Clients, Respond(c)
      PROVE  ServerInv'
  <2>1. /\ serving = c /\ pc = "down" /\ asks[c] \in {"run", "command"}
        /\ UNCHANGED <<child, inbox, left, status, did>>
    BY <1>0, <1>5 DEF Respond, ServerInv
  <2>2. exitCode(asks[c]) \in {"0", "1", "2", "3", "shell", "none"}
    BY <1>0, <2>1 DEF exitCode, ServerTypeOK
  <2>3. PICK answer : /\ Answered(c, answer)
                      /\ answer.http \in {"200", "500"}
                      /\ answer.exitCode \in {"0", "1", "2", "3", "shell", "none"}
                      /\ answer = [http |-> answer.http, exitCode |-> answer.exitCode,
                                   csvBefore |-> answer.csvBefore, csvAfter |-> answer.csvAfter]
    <3>1. CASE Answered(c, Body(asks[c]))
      BY <2>2, <3>1 DEF Body
    <3>2. CASE Answered(c, Error("500"))
      BY <3>2 DEF Error
    <3> QED
      BY <1>5, <3>1, <3>2 DEF Respond
  <2>4. /\ asks' \in [Clients -> Kinds \cup {"nothing"}] /\ Waiting' = Waiting \ {c}
        /\ serving' = Nobody /\ reply' = answer
    BY <2>3, AnswerSent
  <2>5. reply' \in Reply'
    BY <2>3, <2>4
  <2>6. ToSet(inbox)' = Waiting' \ {serving'}
    BY <1>0, <2>1, <2>4 DEF ServerTypeOK, Waiting
  <2> QED
    BY <1>0, <2>1, <2>3, <2>4, <2>5, <2>6 DEF ServerInv, ServerTypeOK, Waiting, child
<1>6. CASE ChildStep
  <2>1. UNCHANGED <<asks, inbox, serving, reply>> /\ pc # "down"
    BY <1>6 DEF ChildStep, Statement, InsertStep, StatementFails, ScriptEnds, Ended, Killed,
       on_append_success, SelectScan, SelectWhere, append_insert_row, count_rows,
       prepare_insert_values, AppendRefused, AppendFails, CountFails, IndexFails,
       SelectFails, PrepareFails, EndScript, Exit, Crash, Running
  <2>2. left' \in 0 .. MaxStatements /\ status' \in Status
    BY <1>0, <1>6, ServerAssumption DEF ChildStep, Statement, InsertStep, StatementFails, ScriptEnds,
       Ended, Killed, NoExitCode, ServerTypeOK
  <2>3. did' \subseteq acked'
    <3>1. acked \subseteq acked'
      BY <1>6 DEF ChildStep, Statement, InsertStep, StatementFails, ScriptEnds, Ended, Killed,
         on_append_success, SelectScan, SelectWhere, append_insert_row, count_rows,
         prepare_insert_values, AppendRefused, AppendFails, CountFails, IndexFails,
         SelectFails, PrepareFails, EndScript, Exit, Crash, Down, vars
    <3>2. did' = did \/ did' = did \cup (acked' \ acked)
      BY <1>6 DEF ChildStep, Statement, InsertStep, StatementFails, ScriptEnds, Ended, Killed
    <3> QED
      BY <1>0, <3>1, <3>2 DEF ServerTypeOK
  <2>4. serving # Nobody
    BY <1>0, <2>1 DEF ServerTypeOK
  <2> QED
    BY <1>0, <2>1, <2>2, <2>3, <2>4 DEF ServerInv, ServerTypeOK
<1>7. CASE TerminalStep
  BY <1>7 DEF TerminalStep, child, server, ServerInv, ServerTypeOK
<1> QED
  BY <1>1, <1>2, <1>3, <1>4, <1>5, <1>6, <1>7 DEF ServerNext, Handlers, BadRequest, NotStarted

\* Requests and handlers stay in order: a child lives only under a handler,
\* and every client that waits is in the inbox, once, or being served
\* (the handlers of server.js, spawnSync).
THEOREM ServerTypeCorrect == ServerSpec => []ServerTypeOK
<1>1. ServerSpec => []ServerInv
  BY ServerSafety, EngineInvUnderServer, ServerInvInit, ServerInvStep, PTL
<1>2. ServerInv => ServerTypeOK
  BY DEF ServerInv
<1> QED
  BY <1>1, <1>2, PTL
-----------------------------------------------------------------------------
(* The terminal.                                                           *)

\* The entry e fits the first lines of f, however many were added since.
Behind(t, e, f) ==
  \E n \in 0 .. Len(f) : Fits(t, e, f, {i \in NonBlank(f) : i <= n})

TerminalInv ==
  /\ tent = [t \in Tables |-> tent[t]]
  /\ \A t \in Tables : IsEnt(tent[t])
  /\ \A t \in Tables : tent[t].loaded => Behind(t, tent[t], file[t])

\* Lines added at the end of a file move no row.
LEMMA RowsKeepPlace ==
  ASSUME NEW f \in Seq(Line), NEW x \in Seq(Line), NEW g, g = f \o x
  PROVE  /\ g \in Seq(Line) /\ Len(f) <= Len(g) /\ Len(f) \in Nat /\ Len(g) \in Nat
         /\ Len(x) \in Nat /\ Len(g) = Len(f) + Len(x)
         /\ \A i \in 1 .. Len(f) : g[i] = f[i] /\ RowNo(g, i) = RowNo(f, i)
         /\ NonBlank(f) = {i \in NonBlank(g) : i <= Len(f)}
<1>1. /\ g \in Seq(Line) /\ Len(g) = Len(f) + Len(x) /\ Len(f) \in Nat /\ Len(x) \in Nat
      /\ \A i \in 1 .. Len(f) : g[i] = f[i]
  BY ConcatProperties, LenProperties
<1>2. NonBlank(f) = {i \in NonBlank(g) : i <= Len(f)}
  BY <1>1 DEF NonBlank
<1>3. ASSUME NEW i \in 1 .. Len(f)
      PROVE  RowNo(g, i) = RowNo(f, i)
  <2>1. {j \in NonBlank(g) : j < i} = {j \in NonBlank(f) : j < i}
    BY <1>1, <1>2 DEF NonBlank
  <2> QED
    BY <2>1 DEF RowNo
<1> QED
  BY <1>1, <1>2, <1>3

\* An entry that is behind stays behind, and no more than that.
LEMMA BehindGrows ==
  ASSUME NEW t \in Tables, NEW e, NEW f \in Seq(Line), NEW x \in Seq(Line),
         Behind(t, e, f), NEW g, g = f \o x
  PROVE  Behind(t, e, g)
<1>1. PICK n \in 0 .. Len(f) : Fits(t, e, f, {i \in NonBlank(f) : i <= n})
  BY DEF Behind
<1>2. /\ g \in Seq(Line) /\ Len(f) <= Len(g) /\ Len(f) \in Nat /\ Len(g) \in Nat
      /\ \A i \in 1 .. Len(f) : g[i] = f[i] /\ RowNo(g, i) = RowNo(f, i)
      /\ NonBlank(f) = {i \in NonBlank(g) : i <= Len(f)}
  BY RowsKeepPlace, ZenonT(60)
<1> DEFINE K == {i \in NonBlank(f) : i <= n}
<1>3. {i \in NonBlank(g) : i <= n} = K /\ n \in 0 .. Len(g)
  BY <1>2 DEF NonBlank
<1>4. \A i \in K : g[i] = f[i] /\ RowNo(g, i) = RowNo(f, i)
  BY <1>2 DEF NonBlank
<1>5. {g[i].id : i \in K} = {f[i].id : i \in K}
  BY <1>4
<1>6. Fits(t, e, g, K)
  BY <1>1, <1>4, <1>5 DEF Fits, WellFormed
<1> QED
  BY <1>3, <1>6 DEF Behind

\* What the terminal's process makes of the files is what any process does.
LEMMA TerminalLoads ==
  ASSUME NEW t \in Tables
  PROVE  /\ Terminal!CanLoad(t) <=> tent[t].loaded \/ Loadable(t, file[t])
         /\ Terminal!ensure_loaded(t) = IF tent[t].loaded THEN tent[t] ELSE LoadedEnt(t, file[t])
         /\ Terminal!Unloaded = Unloaded
<1>1. Terminal!Unloaded = Unloaded /\ Terminal!EmptyTree = EmptyTree
  BY DEF Terminal!Unloaded, Terminal!EmptyTree, Unloaded, EmptyTree
<1>2. Terminal!NonBlank(file[t]) = NonBlank(file[t])
  BY DEF Terminal!NonBlank, NonBlank
<1>3. Terminal!Ids(file[t]) = Ids(file[t])
  BY <1>2 DEF Terminal!Ids, Ids
<1>4. Terminal!Id = Id /\ \A n : Terminal!Succ(n) = Succ(n)
  BY DEF Terminal!Id, Id, Terminal!Succ, Succ, Terminal!MinInt, MinInt
<1>5. Terminal!Loadable(t, file[t]) <=> Loadable(t, file[t])
  BY <1>2, <1>4 DEF Terminal!Loadable, Loadable, Terminal!read_table_ok, read_table_ok,
     Terminal!WellFormed, WellFormed
<1>6. \A i : Terminal!RowNo(file[t], i) = RowNo(file[t], i)
  <2>1. \A S : Terminal!Cardinality(S) = Cardinality(S)
    BY DEF Terminal!Cardinality, Cardinality
  <2> QED
    BY <1>2, <2>1 DEF Terminal!RowNo, RowNo
<1>7. \A k : Terminal!LineOf(file[t], k) = LineOf(file[t], k)
  BY <1>2 DEF Terminal!LineOf, LineOf
<1>8. Terminal!Max(Ids(file[t]) \cup {0}) = Max(Ids(file[t]) \cup {0})
  BY DEF Terminal!Max, Max
<1>9. [k \in Ids(file[t]) |-> Terminal!RowNo(file[t], Terminal!LineOf(file[t], k))]
        = [k \in Ids(file[t]) |-> RowNo(file[t], LineOf(file[t], k))]
  BY <1>6, <1>7
<1>10. Terminal!LoadedEnt(t, file[t]) = LoadedEnt(t, file[t])
  BY <1>1, <1>3, <1>4, <1>8, <1>9 DEF Terminal!LoadedEnt, LoadedEnt
<1> QED
  BY <1>1, <1>5, <1>10 DEF Terminal!CanLoad, Terminal!ensure_loaded

\* A step of the terminal's process leaves an entry alone, drops it, or loads
\* it from the file as it is now.
LEMMA TerminalEffect ==
  ASSUME TerminalInv, TerminalStep
  PROVE  /\ tent' = [t \in Tables |-> tent'[t]]
         /\ \A t \in Tables :
              \/ tent'[t] = tent[t]
              \/ tent'[t] = Unloaded
              \/ Loadable(t, file[t]) /\ tent'[t] = LoadedEnt(t, file[t])
<1> DEFINE OneOf(t, e) == \/ e = tent[t]
                          \/ e = Unloaded
                          \/ Loadable(t, file[t]) /\ e = LoadedEnt(t, file[t])
<1>1. CASE tent' = tent
  BY <1>1 DEF TerminalInv
<1>2. CASE tent' = [t \in Tables |-> Unloaded]
  BY <1>2
<1>3. ASSUME NEW t \in Tables, NEW e, tent' = [tent EXCEPT ![t] = e], OneOf(t, e)
      PROVE  /\ tent' = [s \in Tables |-> tent'[s]]
             /\ \A s \in Tables : OneOf(s, tent'[s])
  <2>1. tent = [s \in Tables |-> tent[s]]
    BY DEF TerminalInv
  <2>2. tent'[t] = e /\ \A s \in Tables : s # t => tent'[s] = tent[s]
    BY <1>3, <2>1
  <2>3. tent' = [s \in Tables |-> tent'[s]]
    BY <1>3, <2>1
  <2> QED
    BY <1>3, <2>2, <2>3
<1>4. ASSUME NEW t \in Tables, Terminal!CanLoad(t)
      PROVE  OneOf(t, Terminal!ensure_loaded(t))
  BY <1>4, TerminalLoads
<1>5. \A t \in Tables : OneOf(t, Terminal!EntAfterLoad(t))
  BY <1>4, TerminalLoads DEF Terminal!EntAfterLoad
<1>6. CASE Terminal!Exit \/ Terminal!Crash
  BY <1>2, <1>6, TerminalLoads DEF Terminal!Exit, Terminal!Crash, Terminal!Down
<1>7. ASSUME NEW t \in Tables, NEW n \in Literal, Terminal!SelectWhere(t, n)
      PROVE  tent' = [tent EXCEPT ![t] = Terminal!ensure_loaded(t)] /\ Terminal!CanLoad(t)
  BY <1>7 DEF Terminal!SelectWhere
<1>8. ASSUME NEW t \in Tables, Terminal!SelectFails(t)
      PROVE  \E e \in {tent[t], Terminal!EntAfterLoad(t)} : tent' = [tent EXCEPT ![t] = e]
  BY <1>8 DEF Terminal!SelectFails, Terminal!Fail
<1>9. CASE \E t \in Tables, n \in Literal : Terminal!SelectWhere(t, n)
  BY <1>3, <1>4, <1>7, <1>9
<1>10. CASE \E t \in Tables : Terminal!SelectFails(t)
  BY <1>3, <1>5, <1>8, <1>10
<1>11. CASE Terminal!Start \/ Terminal!EndScript \/ \E t \in Tables : Terminal!SelectScan(t)
  BY <1>1, <1>11 DEF Terminal!Start, Terminal!EndScript, Terminal!SelectScan, Terminal!vars
<1> HIDE DEF OneOf
<1> QED
  BY <1>6, <1>9, <1>10, <1>11 DEF TerminalStep, OneOf

LEMMA TerminalInvInit == ServerInit => TerminalInv
<1> SUFFICES ASSUME ServerInit PROVE TerminalInv
  OBVIOUS
<1>1. tent = [t \in Tables |-> Unloaded]
  BY DEF ServerInit, Init
<1>2. Unloaded.loaded = FALSE
  BY DEF Unloaded
<1> QED
  BY <1>1, <1>2, UnloadedType DEF TerminalInv

LEMMA TerminalInvStep == TypeOK /\ TerminalInv /\ [ServerNext]_allvars => TerminalInv'
<1> SUFFICES ASSUME TypeOK, TerminalInv, [ServerNext]_allvars PROVE TerminalInv'
  OBVIOUS
<1>1. CASE TerminalStep
  <2>1. /\ tent' = [t \in Tables |-> tent'[t]] /\ file' = file
        /\ \A t \in Tables :
              \/ tent'[t] = tent[t]
              \/ tent'[t] = Unloaded
              \/ Loadable(t, file[t]) /\ tent'[t] = LoadedEnt(t, file[t])
    BY <1>1, TerminalEffect DEF TerminalStep, child
  <2>2. ASSUME NEW t \in Tables
        PROVE  IsEnt(tent'[t]) /\ (tent'[t].loaded => Behind(t, tent'[t], file'[t]))
    <3>1. CASE tent'[t] = tent[t]
      BY <2>1, <3>1 DEF TerminalInv
    <3>2. CASE tent'[t] = Unloaded
      BY <3>2, UnloadedType DEF Unloaded
    <3>3. CASE Loadable(t, file[t]) /\ tent'[t] = LoadedEnt(t, file[t])
      <4>1. file[t] \in Seq(Line)
        BY DEF TypeOK
      <4>2. IsEnt(tent'[t]) /\ Fits(t, tent'[t], file[t], NonBlank(file[t]))
        BY <3>3, <4>1, LoadedEntProps
      <4>3. NonBlank(file[t]) = {i \in NonBlank(file[t]) : i <= Len(file[t])}
            /\ Len(file[t]) \in 0 .. Len(file[t])
        BY <4>1 DEF NonBlank
      <4> QED
        BY <2>1, <4>2, <4>3 DEF Behind
    <3> QED
      BY <2>1, <3>1, <3>2, <3>3
  <2> QED
    BY <2>1, <2>2 DEF TerminalInv
<1>2. CASE tent' = tent
  <2>1. ASSUME NEW t \in Tables, tent[t].loaded
        PROVE  Behind(t, tent[t], file'[t])
    <3>1. file[t] \in Seq(Line) /\ Behind(t, tent[t], file[t])
      BY <2>1 DEF TypeOK, TerminalInv
    <3>2. file'[t] = file[t] \/ \E x \in Seq(Line) : file'[t] = file[t] \o x
      BY FilesGrow, ServerStepIsEngineStep
    <3> QED
      BY <3>1, <3>2, BehindGrows
  <2> QED
    BY <1>2, <2>1 DEF TerminalInv
<1> QED
  BY <1>1, <1>2 DEF ServerNext, Send, Handlers, BadRequest, NotStarted, Spawn, Respond,
     ChildStep, allvars, terminal

\* An entry that fits the first lines of a file finds each of its ids, in the
\* row of that id.
LEMMA BehindFinds ==
  ASSUME NEW t \in Tables, NEW e, NEW f \in Seq(Line), Behind(t, e, f), e.id_pk = TRUE,
         NEW k \in DOMAIN e.tree
  PROVE  where_ok(t, e, f, k) /\ \A i \in where_rows(e, f, k) : f[i].id = k
<1>0. \A m : RowNo(f, m) \in Nat
  BY NonBlankFinite
<1>1. PICK n \in 0 .. Len(f) : Fits(t, e, f, {i \in NonBlank(f) : i <= n})
  BY DEF Behind
<1>2. PICK i \in NonBlank(f) : i <= n /\ f[i].id = k /\ e.tree[k] = RowNo(f, i)
  BY <1>1 DEF Fits
<1>3. where_rows(e, f, k) = {i}
  BY <1>2, RowNoInjective DEF where_rows, read_table_row
<1>4. Cardinality(where_rows(e, f, k)) = 1
  BY <1>3, FS_Singleton
<1>5. ASSUME NEW j \in NonBlank(f), RowNo(f, j) <= RowNo(f, i)
      PROVE  WellFormed(t, f, j)
  <2>1. i \in Int /\ j \in Int /\ n \in Int
    BY DEF NonBlank
  <2>2. j <= i
    BY <1>0, <1>5, <2>1, RowNoGrows
  <2> QED
    BY <1>1, <1>2, <2>1, <2>2 DEF Fits
<1>6. RowNo(f, i) # NoRow
  BY <1>0 DEF NoRow
<1>7. read_table_row_ok(t, f, RowNo(f, i))
  BY <1>1, <1>5, <1>6 DEF read_table_row_ok, Fits
<1> QED
  BY <1>2, <1>3, <1>4, <1>7 DEF where_ok

\* An entry another process fills the file behind still finds every id it
\* knows (ensure_loaded, executor_execute_select).
THEOREM StaleButRightCorrect == ServerSpec => []StaleButRight
<1>1. TypeOK /\ TerminalInv => StaleButRight
  <2> SUFFICES ASSUME TypeOK, TerminalInv, NEW t \in Tables, tent[t].loaded, tent[t].id_pk,
                      NEW k \in DOMAIN tent[t].tree
               PROVE  /\ where_ok(t, tent[t], file[t], k)
                      /\ \A i \in where_rows(tent[t], file[t], k) : file[t][i].id = k
    BY DEF StaleButRight
  <2>1. file[t] \in Seq(Line) /\ Behind(t, tent[t], file[t]) /\ tent[t].id_pk = TRUE
    BY DEF TypeOK, TerminalInv, IsEnt
  <2> QED
    BY <2>1, BehindFinds
<1>2. IInv => TypeOK
  BY DEF IInv
<1> QED
  BY <1>1, <1>2, ServerSafety, EngineInvUnderServer, TerminalInvInit, TerminalInvStep, PTL
-----------------------------------------------------------------------------
(* What /api/run answers.                                                  *)

\* Between the append of a row of one line and its entry in the index, what was
\* reported as stored in that table is on the lines before the last.
AckKnown ==
  pc \in {"count", "index"} /\ Whole(file[job.table]) =>
    \A a \in acked : a.table = job.table =>
      \E i \in Known(a.table) : file[a.table][i].id = a.id

\* The lines of t since the first snapshot that no INSERT was reported for.
Extra(t) == Len(file[t]) - Len(before[t]) - Cardinality(DidTo(t))

\* The INSERT in progress has written its line to t.
Pending(t) == IF pc \in {"count", "index"} /\ job.table = t THEN 1 ELSE 0

\* Since the first snapshot t has got a line for each INSERT reported and, as
\* long as the child runs, one for an INSERT in progress; afterwards there may
\* be one line more, unless the child ended well.
RunTold(t) ==
  /\ Len(before[t]) <= Len(file[t])
  /\ \A i \in 1 .. Len(before[t]) : file[t][i] = before[t][i]
  /\ IsFiniteSet(DidTo(t))
  /\ \A d \in DidTo(t) : \E i \in Len(before[t]) + 1 .. Len(file[t]) :
        file[t][i].id = d.id /\ file[t][i].val = d.val
  /\ Extra(t) \in {0, 1}
  /\ pc \in Running => Extra(t) = Pending(t)
  /\ pc \notin Running /\ status = "0" => Extra(t) = 0

RunServed == serving # Nobody /\ asks[serving] = "run"

RunInv ==
  RunServed => /\ before \in [Tables -> Seq(Line)]
               /\ \A t \in PkTables : Whole(file[t]) => RunTold(t)

\* A row added to a table with an id is one line, and what is left of it at most
\* one, unless it was broken up.
LEMMA RowIsOneLine ==
  ASSUME NEW t \in PkTables, NEW id \in Id \cup {NoId}, NEW v \in Values,
         NEW f \in Seq(Line), NEW x, Whole(f \o x)
  PROVE  /\ x \in RowTexts(t, id, v) => x \in Seq(Line) /\ Len(x) = 1
         /\ x \in TornText(t, id, v) => x \in Seq(Line) /\ Len(x) \in {0, 1}
<1>1. t \in Tables /\ Header[t].idpk
  BY DEF PkTables
<1>2. ASSUME x \in RowTexts(t, id, v)
      PROVE  v \notin Split
  BY <1>1, <1>2, SplitShows
<1>3. ASSUME x \in RowTexts(t, id, v)
      PROVE  x \in Seq(Line) /\ Len(x) = 1
  <2>1. x \in Seq(Line) /\ x = RowText(t, id, v)
    BY <1>1, <1>2, <1>3, RowTextIs
  <2> QED
    BY <1>1, <2>1 DEF RowText
<1>4. ASSUME x \in TornText(t, id, v)
      PROVE  x \in Seq(Line) /\ Len(x) \in {0, 1}
  <2>1. x \in Seq(Line)
    BY <1>1, <1>4, TextType
  <2>2. x = <<>> \/ \E l \in Line : x = <<l>>
    BY <1>1, <1>2, <1>4, TornLine
  <2> QED
    BY <2>1, <2>2
<1> QED
  BY <1>3, <1>4

\* A file that is whole was whole before lines were added.
LEMMA WasWhole ==
  ASSUME TypeOK, [Next]_vars, NEW t \in Tables, Whole(file'[t])
  PROVE  Whole(file[t])
<1>1. file[t] \in Seq(Line)
  BY DEF TypeOK
<1>2. CASE file'[t] = file[t]
  BY <1>2
<1>3. ASSUME NEW x \in Seq(Line), file'[t] = file[t] \o x
      PROVE  Whole(file[t])
  <2>1. Whole(file[t] \o x)
    BY <1>3
  <2> QED
    BY <1>1, <2>1, Longer
<1> QED
  BY <1>2, <1>3, FilesGrow

LEMMA AckKnownStep == IInv /\ AckKnown /\ [Next]_vars => AckKnown'
<1> SUFFICES ASSUME IInv, AckKnown, [Next]_vars PROVE AckKnown'
  OBVIOUS
<1>1. TypeOK /\ AckInv
  BY DEF IInv
<1>2. CASE append_insert_row
  <2>1. /\ pc = "append" /\ pc' = "count" /\ job' = job /\ acked' = acked
        /\ job.table \in Tables /\ job.id \in Id \cup {NoId} /\ job.val \in Values
    BY <1>1, <1>2 DEF append_insert_row, TypeOK, Job
  <2>0. PICK y \in RowTexts(job.table, job.id, job.val) : file' = [file EXCEPT ![job.table] = @ \o y]
    BY <1>2 DEF append_insert_row
  <2> SUFFICES ASSUME NEW a \in acked', (a.table = job.table)', Whole(file[job.table])'
               PROVE  (\E i \in Known(a.table) : file[a.table][i].id = a.id)'
    BY DEF AckKnown
  <2>2. PICK t \in Tables : t = job.table
    BY <2>1
  <2>3. a \in acked /\ a.table = t
    BY <2>1, <2>2
  <2>4. PICK i \in NonBlank(file[t]) : file[t][i].id = a.id
    BY <1>1, <2>3 DEF AckInv, Stored
  <2>5. t \in PkTables
    BY <1>1, <2>2, <2>3 DEF AckInv, PkTables
  <2>6. PICK x \in Seq(Line) : Len(x) = 1 /\ file'[t] = file[t] \o x
    <3>1. file[t] \in Seq(Line) /\ file'[t] = file[t] \o y /\ Whole(file[t] \o y)
      BY <1>1, <2>0, <2>1, <2>2 DEF TypeOK
    <3>2. y \in Seq(Line) /\ Len(y) = 1
      <4>1. PICK k \in Id \cup {NoId}, v \in Values : k = job.id /\ v = job.val
        BY <2>1
      <4>2. y \in RowTexts(t, k, v)
        BY <2>0, <2>2, <4>1
      <4> QED
        BY <2>5, <3>1, <4>2, RowIsOneLine
    <3> QED
      BY <3>1, <3>2
  <2>7. file[t] \in Seq(Line)
    BY <1>1 DEF TypeOK
  <2>8. /\ Len(file'[t]) = Len(file[t]) + Len(x) /\ Len(file[t]) \in Nat
        /\ \A j \in 1 .. Len(file[t]) : file'[t][j] = file[t][j]
    BY <2>6, <2>7, RowsKeepPlace
  <2>9. i \in NonBlank(file'[t]) \ {Len(file'[t])} /\ file'[t][i].id = a.id
    BY <2>4, <2>6, <2>8 DEF NonBlank
  <2>10. ~Settled(t)'
    BY <2>1, <2>2 DEF Settled
  <2>11. i \in Known(t)'
    BY <2>9, <2>10 DEF Known
  <2> QED
    BY <2>3, <2>9, <2>11
<1>3. CASE count_rows
  <2>1. /\ pc = "count" /\ pc' = "index" /\ file' = file /\ acked' = acked
        /\ job' = [job EXCEPT !.row = data_row_count(file[job.table]) - 1]
        /\ job \in Job
    BY <1>1, <1>3 DEF count_rows, TypeOK
  <2>2. job'.table = job.table
    BY <2>1 DEF Job
  <2>3. \A t : Settled(t) <=> Settled(t)'
    BY <2>1, <2>2 DEF Settled, Running
  <2> QED
    BY <2>1, <2>2, <2>3 DEF AckKnown, Known
<1>4. CASE UNCHANGED vars
  BY <1>4 DEF vars, AckKnown, Known, Settled
<1>5. CASE Next /\ ~append_insert_row /\ ~count_rows /\ vars' # vars
  <2>1. pc' \notin {"count", "index"}
    BY <1>5 DEF Next, Start, EndScript, Exit, Crash, Down, PrepareFails, prepare_insert_values,
       AppendRefused, AppendFails, CountFails, on_append_success, IndexFails, SelectWhere,
       SelectScan, SelectFails, Fail, AfterFailure
  <2> QED
    BY <2>1 DEF AckKnown
<1> QED
  BY <1>2, <1>3, <1>4, <1>5

\* Lines x were added to t, and nothing was reported.
LEMMA RunToldMoves ==
  ASSUME NEW t \in PkTables, RunTold(t), file[t] \in Seq(Line), before[t] \in Seq(Line),
         NEW x \in Seq(Line), file'[t] = file[t] \o x, before' = before, did' = did,
         Extra(t) + Len(x) \in {0, 1},
         pc' \in Running => Extra(t) + Len(x) = Pending(t)',
         pc' \notin Running /\ status' = "0" => Extra(t) + Len(x) = 0
  PROVE  RunTold(t)'
<1>1. DidTo(t)' = DidTo(t)
  BY DEF DidTo
<1>2. /\ Len(file'[t]) = Len(file[t]) + Len(x) /\ Len(file[t]) \in Nat
      /\ Len(before[t]) \in Nat /\ Len(x) \in Nat
      /\ \A i \in 1 .. Len(file[t]) : file'[t][i] = file[t][i]
  BY RowsKeepPlace
<1>3. Cardinality(DidTo(t)) \in Nat
  BY FS_CardinalityType DEF RunTold
<1>4. Extra(t)' = Extra(t) + Len(x)
  <2>1. Extra(t)' = Len(file'[t]) - Len(before[t]) - Cardinality(DidTo(t))
    BY <1>1 DEF Extra
  <2>2. Extra(t) = Len(file[t]) - Len(before[t]) - Cardinality(DidTo(t))
    BY DEF Extra
  <2>3. PICK a \in Nat, b \in Nat, c \in Nat, d \in Nat :
             /\ a = Len(file[t]) /\ b = Len(before[t]) /\ c = Cardinality(DidTo(t)) /\ d = Len(x)
    BY <1>2, <1>3
  <2>4. Extra(t) = a - b - c /\ Extra(t)' = (a + d) - b - c
    BY <1>2, <2>1, <2>2, <2>3
  <2>5. (a + d) - b - c = (a - b - c) + d
    OBVIOUS
  <2> QED
    BY <2>3, <2>4, <2>5
<1>5. /\ Len(before[t]) <= Len(file'[t])
      /\ \A i \in 1 .. Len(before[t]) : file'[t][i] = before[t][i]
  BY <1>2 DEF RunTold
<1>6. ASSUME NEW d \in DidTo(t)
      PROVE  \E i \in Len(before[t]) + 1 .. Len(file'[t]) :
                file'[t][i].id = d.id /\ file'[t][i].val = d.val
  <2>1. PICK i \in Len(before[t]) + 1 .. Len(file[t]) :
                file[t][i].id = d.id /\ file[t][i].val = d.val
    BY DEF RunTold
  <2>2. i \in 1 .. Len(file[t]) /\ i \in Len(before[t]) + 1 .. Len(file'[t])
    BY <1>2
  <2>3. file'[t][i] = file[t][i]
    BY <1>2, <2>2
  <2> QED
    BY <2>1, <2>2, <2>3
<1> QED
  BY <1>1, <1>4, <1>5, <1>6 DEF RunTold

\* Nothing was added and nothing reported.
LEMMA RunToldStays ==
  ASSUME NEW t \in PkTables, RunTold(t), file[t] \in Seq(Line), before[t] \in Seq(Line),
         file'[t] = file[t], before' = before, did' = did,
         pc' \in Running => Extra(t) = Pending(t)',
         pc' \notin Running /\ status' = "0" => Extra(t) = 0
  PROVE  RunTold(t)'
<1>1. DidTo(t)' = DidTo(t)
  BY DEF DidTo
<1>2. Extra(t)' = Extra(t)
  BY <1>1 DEF Extra
<1> QED
  BY <1>1, <1>2 DEF RunTold

\* The steps of the child that add a line.
LEMMA RunToldAppend ==
  ASSUME IInv, NEW t \in PkTables, RunTold(t), before[t] \in Seq(Line), before' = before,
         did' = did, Whole(file'[t]),
         append_insert_row \/ (AppendFails /\ status' = "3")
  PROVE  RunTold(t)'
<1>1. /\ TypeOK /\ t \in Tables /\ file[t] \in Seq(Line)
      /\ pc = "append" /\ job \in Job
  BY DEF IInv, TypeOK, PkTables, append_insert_row, AppendFails
<1>2. job.table \in Tables /\ job.id \in Id \cup {NoId} /\ job.val \in Values
  BY <1>1 DEF Job
<1>3. Extra(t) = 0
  BY <1>1 DEF RunTold, Pending, Running
<1>4. CASE append_insert_row
  <2>1. PICK y \in RowTexts(job.table, job.id, job.val) :
             /\ file' = [file EXCEPT ![job.table] = @ \o y]
             /\ pc' = "count" /\ job' = job
    BY <1>4 DEF append_insert_row
  <2>2. CASE job.table = t
    <3>1. PICK x \in Seq(Line) : Len(x) = 1 /\ file'[t] = file[t] \o x
      <4>1. file'[t] = file[t] \o y /\ Whole(file[t] \o y)
        BY <1>1, <2>1, <2>2 DEF TypeOK
      <4>2. y \in Seq(Line) /\ Len(y) = 1
        <5>1. PICK k \in Id \cup {NoId}, v \in Values : k = job.id /\ v = job.val
          BY <1>2
        <5>2. y \in RowTexts(t, k, v)
          BY <2>1, <2>2, <5>1
        <5> QED
          BY <1>1, <4>1, <5>2, RowIsOneLine
      <4> QED
        BY <4>1, <4>2
    <3>2. Pending(t)' = 1 /\ pc' \in Running
      BY <2>1, <2>2 DEF Pending, Running
    <3>3. Extra(t) + Len(x) = 1
      BY <1>3, <3>1
    <3> QED
      BY <1>1, <3>1, <3>2, <3>3, RunToldMoves
  <2>3. CASE job.table # t
    <3>1. file'[t] = file[t]
      BY <1>1, <2>1, <2>3 DEF TypeOK
    <3>2. Pending(t)' = 0 /\ pc' \in Running
      BY <2>1, <2>3 DEF Pending, Running
    <3> QED
      BY <1>1, <1>3, <3>1, <3>2, RunToldStays
  <2> QED
    BY <2>2, <2>3
<1>5. CASE AppendFails /\ status' = "3"
  <2>1. PICK x \in TornText(job.table, job.id, job.val) :
               file' = [file EXCEPT ![job.table] = @ \o x]
    BY <1>5 DEF AppendFails
  <2>2. pc' \notin Running /\ status' # "0"
    BY <1>5 DEF AppendFails, Fail, AfterFailure, Running
  <2>3. CASE job.table = t
    <3>1. x \in Seq(Line) /\ Len(x) \in {0, 1} /\ file'[t] = file[t] \o x
      <4>1. file'[t] = file[t] \o x /\ Whole(file[t] \o x)
        BY <1>1, <2>1, <2>3 DEF TypeOK
      <4>2. PICK k \in Id \cup {NoId}, v \in Values : k = job.id /\ v = job.val
        BY <1>2
      <4>3. x \in TornText(t, k, v)
        BY <2>1, <2>3, <4>2
      <4> QED
        BY <1>1, <4>1, <4>3, RowIsOneLine
    <3>2. Extra(t) + Len(x) \in {0, 1}
      BY <1>3, <3>1
    <3> QED
      BY <1>1, <2>2, <3>1, <3>2, RunToldMoves
  <2>4. CASE job.table # t
    <3>1. file'[t] = file[t]
      BY <1>1, <2>1, <2>4 DEF TypeOK
    <3> QED
      BY <1>1, <1>3, <2>2, <3>1, RunToldStays
  <2> QED
    BY <2>3, <2>4
<1> QED
  BY <1>4, <1>5

\* An INSERT that is reported: its line is there, and it was not reported before.
LEMMA RunToldReport ==
  ASSUME IInv, AckKnown, did \subseteq acked,
         NEW t \in PkTables, RunTold(t), before[t] \in Seq(Line), before' = before, Whole(file[t]),
         on_append_success, did' = did \cup (acked' \ acked)
  PROVE  RunTold(t)'
<1>1. /\ TypeOK /\ t \in Tables /\ file[t] \in Seq(Line) /\ Header[t].idpk
      /\ pc = "index" /\ job \in Job /\ EntInv(job.table) /\ JobInv
  BY DEF IInv, TypeOK, PkTables, on_append_success, Job
<1>2. /\ file' = file /\ pc' = "ready"
      /\ acked' = IF job.indexed
                  THEN acked \cup {[table |-> job.table, id |-> job.id, val |-> job.val]}
                  ELSE acked
      /\ job.indexed => job.id \notin DOMAIN ent[job.table].tree
  BY DEF on_append_success
<1>3. pc' \in Running /\ Pending(t)' = 0
  BY <1>2 DEF Pending, Running
<1>4. CASE job.table # t
  <2>1. DidTo(t)' = DidTo(t)
    BY <1>2, <1>4 DEF DidTo
  <2>2. Extra(t)' = Extra(t) /\ Extra(t) = 0
    BY <1>1, <1>2, <1>4, <2>1 DEF Extra, RunTold, Pending, Running
  <2> QED
    BY <1>2, <1>3, <2>1, <2>2 DEF RunTold
<1>5. CASE job.table = t
  <2>1. /\ Fits(t, ent[t], file[t], NonBlank(file[t]) \ {Len(file[t])})
        /\ ent[t].id_pk /\ job.indexed
    <3>1. pc \in Running /\ ent[t].loaded /\ job.indexed = ent[t].id_pk /\ ~Settled(t)
      BY <1>1, <1>5 DEF JobInv, Settled, Running
    <3>2. Fits(t, ent[t], file[t], NonBlank(file[t]) \ {Len(file[t])})
      BY <1>1, <1>5, <3>1 DEF EntInv, Known, FitsIfWhole
    <3> QED
      BY <1>1, <3>1, <3>2 DEF Fits
  <2>2. PICK r : r = [table |-> t, id |-> job.id, val |-> job.val]
    OBVIOUS
  <2>3. r.table = t /\ r.id = job.id /\ r.val = job.val
    BY <2>2
  <2>4. r \notin acked
    <3> SUFFICES ASSUME r \in acked PROVE FALSE
      OBVIOUS
    <3>1. PICK i \in Known(t) : file[t][i].id = job.id
      BY <1>1, <1>5, <2>3 DEF AckKnown
    <3>2. i \in NonBlank(file[t]) \ {Len(file[t])}
      BY <1>1, <1>5, <3>1 DEF Known, Settled, Running
    <3> QED
      BY <1>2, <1>5, <2>1, <3>1, <3>2 DEF Fits
  <2>5. DidTo(t)' = DidTo(t) \cup {r} /\ r \notin DidTo(t)
    BY <1>2, <1>5, <2>1, <2>2, <2>3, <2>4 DEF DidTo
  <2>6. IsFiniteSet(DidTo(t)') /\ Cardinality(DidTo(t)') = Cardinality(DidTo(t)) + 1
        /\ Cardinality(DidTo(t)) \in Nat
    BY <2>5, FS_AddElement, FS_CardinalityType DEF RunTold
  <2>7. Extra(t) = 1 /\ Len(file[t]) \in Nat /\ Len(before[t]) \in Nat
    BY <1>1, <1>5 DEF RunTold, Pending, Running
  <2>8. Extra(t)' = 0 /\ Len(file[t]) >= Len(before[t]) + 1
    <3>1. PICK a \in Nat, b \in Nat, c \in Nat :
               a = Len(file[t]) /\ b = Len(before[t]) /\ c = Cardinality(DidTo(t))
      BY <2>6, <2>7
    <3>2. a - b - c = 1
      BY <2>7, <3>1 DEF Extra
    <3>3. Extra(t)' = a - b - (c + 1)
      BY <1>2, <2>6, <3>1 DEF Extra
    <3>4. a - b - (c + 1) = 0 /\ a >= b + 1
      BY <3>2
    <3> QED
      BY <3>1, <3>3, <3>4
  <2>9. /\ Len(file[t]) \in Len(before[t]) + 1 .. Len(file[t])
        /\ file[t][Len(file[t])].id = r.id /\ file[t][Len(file[t])].val = r.val
    <3>1. PICK i \in NonBlank(file[t]) : file[t][i].id = job.id /\ file[t][i].val = job.val
      BY <1>1, <1>5, <2>1 DEF JobInv, Stored
    <3>2. i = Len(file[t])
      BY <1>2, <1>5, <2>1, <3>1 DEF Fits
    <3> QED
      BY <2>3, <2>7, <2>8, <3>1, <3>2
  <2>10. \A d \in DidTo(t)' : \E i \in Len(before[t]) + 1 .. Len(file[t]) :
            file[t][i].id = d.id /\ file[t][i].val = d.val
    BY <2>5, <2>9 DEF RunTold
  <2> QED
    BY <1>2, <1>3, <2>6, <2>8, <2>10 DEF RunTold
<1> QED
  BY <1>4, <1>5

LEMMA RunToldStep ==
  ASSUME IInv, AckKnown, did \subseteq acked,
         NEW t \in PkTables, RunTold(t), before[t] \in Seq(Line), ChildStep, Whole(file'[t])
  PROVE  RunTold(t)'
<1>1. before' = before /\ TypeOK /\ file[t] \in Seq(Line)
  BY DEF ChildStep, IInv, TypeOK, PkTables
<1>2. Extra(t) \in {0, 1} /\ (pc \in Running => Extra(t) = Pending(t))
  BY DEF RunTold
<1>3. ASSUME file' = file, did' = did, pc' \in Running, pc \in Running, Pending(t)' = Pending(t)
      PROVE  RunTold(t)'
  BY <1>1, <1>2, <1>3, RunToldStays
<1>4. ASSUME file' = file, did' = did, pc' \notin Running, status' # "0"
      PROVE  RunTold(t)'
  BY <1>1, <1>4, RunToldStays
<1>5. CASE Statement
  <2>1. CASE on_append_success
    <3>1. file' = file
      BY <2>1 DEF on_append_success
    <3> QED
      BY <1>1, <1>5, <2>1, <3>1, RunToldReport DEF Statement
  <2>2. CASE \E s \in Tables : SelectScan(s) \/ \E n \in Literal : SelectWhere(s, n)
    <3>1. pc = "ready" /\ pc' = "ready" /\ file' = file /\ acked' = acked /\ job' = job
      BY <2>2 DEF SelectScan, SelectWhere, vars
    <3>2. did' = did
      BY <1>5, <3>1 DEF Statement
    <3> QED
      BY <1>3, <3>1, <3>2 DEF Pending, Running
  <2> QED
    BY <1>5, <2>1, <2>2 DEF Statement
<1>6. CASE InsertStep
  <2>1. did' = did
    BY <1>6 DEF InsertStep
  <2>2. CASE append_insert_row
    BY <1>1, <2>1, <2>2, RunToldAppend
  <2>3. CASE count_rows
    <3>1. /\ pc = "count" /\ pc' = "index" /\ file' = file
          /\ job' = [job EXCEPT !.row = data_row_count(file[job.table]) - 1] /\ job \in Job
      BY <1>1, <2>3 DEF count_rows, TypeOK
    <3>2. job'.table = job.table
      BY <3>1 DEF Job
    <3> QED
      BY <1>3, <2>1, <3>1, <3>2 DEF Pending, Running
  <2>4. CASE \E s \in Tables : \E n \in 0 .. Header[s].ncol + 1, v \in RowVals(s) :
                prepare_insert_values(s, n, v)
    <3>1. pc = "ready" /\ pc' = "append" /\ file' = file
      BY <2>4 DEF prepare_insert_values
    <3> QED
      BY <1>3, <2>1, <3>1 DEF Pending, Running
  <2> QED
    BY <1>6, <2>2, <2>3, <2>4 DEF InsertStep
<1>7. CASE StatementFails
  <2>1. did' = did /\ status' = "3"
    BY <1>7 DEF StatementFails
  <2>2. CASE AppendFails
    BY <1>1, <2>1, <2>2, RunToldAppend
  <2>3. CASE \/ AppendRefused \/ CountFails \/ IndexFails
             \/ \E s \in Tables : \/ SelectFails(s)
                                  \/ \E n \in 0 .. Header[s].ncol + 1 : PrepareFails(s, n)
    <3>1. file' = file /\ pc' \notin Running
      BY <2>3 DEF AppendRefused, CountFails, IndexFails, SelectFails, PrepareFails, Fail,
         AfterFailure, Running
    <3> QED
      BY <1>4, <2>1, <3>1
  <2> QED
    BY <1>7, <2>2, <2>3 DEF StatementFails
<1>8. CASE ScriptEnds
  <2>1. pc = "ready" /\ pc' = "exit" /\ file' = file /\ did' = did
    BY <1>8 DEF ScriptEnds, EndScript
  <2>2. Extra(t) = 0 /\ pc' \notin Running
    BY <1>2, <2>1 DEF Pending, Running
  <2> QED
    BY <1>1, <2>1, <2>2, RunToldStays
<1>9. CASE Ended
  <2>1. pc \notin Running /\ pc' \notin Running /\ file' = file /\ did' = did /\ status' = status
    BY <1>9 DEF Ended, Exit, Down, Running
  <2>2. status' = "0" => Extra(t) = 0
    BY <2>1 DEF RunTold
  <2> QED
    BY <1>1, <2>1, <2>2, RunToldStays
<1>10. CASE Killed
  <2>1. pc' \notin Running /\ file' = file /\ did' = did /\ status' # "0"
    BY <1>10 DEF Killed, NoExitCode, Crash, Down, Running
  <2> QED
    BY <1>4, <2>1
<1> QED
  BY <1>5, <1>6, <1>7, <1>8, <1>9, <1>10 DEF ChildStep

\* A run begins: nothing reported yet, and no line added.
LEMMA RunToldBegins ==
  ASSUME TypeOK, ServerTypeOK, NEW c \in Clients, NEW n, Spawn(c, n), asks[c] = "run",
         NEW t \in PkTables
  PROVE  RunTold(t)'
<1>1. t \in Tables /\ file[t] \in Seq(Line) /\ serving = Nobody /\ pc = "down"
  BY DEF TypeOK, PkTables, Spawn, NextRequest, ServerTypeOK
<1>2. file' = file /\ before' = file /\ did' = {} /\ (pc' = "ready" \/ status' = "null")
  BY DEF Spawn, Start, NoExitCode, child
<1>3. DidTo(t)' = {} /\ IsFiniteSet({}) /\ Cardinality({}) = 0
  BY <1>2, FS_EmptySet DEF DidTo
<1>4. Len(file[t]) \in Nat /\ Extra(t)' = Len(file[t]) - Len(file[t]) - 0
  BY <1>1, <1>2, <1>3 DEF Extra
<1>5. Extra(t)' = 0
  BY <1>4
<1>6. pc' \in Running => Pending(t)' = 0
  <2>1. pc' = "ready" \/ pc' = pc
    BY DEF Spawn, Start, child
  <2> QED
    BY <1>1, <2>1 DEF Pending, Running
<1> QED
  BY <1>1, <1>2, <1>3, <1>4, <1>5, <1>6 DEF RunTold

LEMMA RunInvStep ==
  IInv /\ ServerInv /\ AckKnown /\ RunInv /\ [ServerNext]_allvars => RunInv'
<1> SUFFICES ASSUME IInv, ServerInv, AckKnown, RunInv, [ServerNext]_allvars, RunServed'
             PROVE  /\ before' \in [Tables -> Seq(Line)]
                    /\ \A t \in PkTables : Whole(file'[t]) => RunTold(t)'
  BY DEF RunInv
<1>1. /\ TypeOK /\ ServerTypeOK /\ did \subseteq acked /\ Nobody \notin Clients
      /\ serving \in Clients \cup {Nobody} /\ PkTables \subseteq Tables
  BY ServerAssumption DEF IInv, ServerInv, ServerTypeOK, PkTables
<1>2. ASSUME RunServed, UNCHANGED <<file, pc, job, before, did, status>>
      PROVE  /\ before' \in [Tables -> Seq(Line)]
             /\ \A t \in PkTables : Whole(file'[t]) => RunTold(t)'
  BY <1>2, ZenonT(60) DEF RunInv, RunTold, Extra, Pending, DidTo
<1>3. CASE UNCHANGED allvars
  BY <1>2, <1>3 DEF allvars, child, server, RunServed
<1>4. CASE TerminalStep
  BY <1>2, <1>4 DEF TerminalStep, child, server, RunServed
<1>5. ASSUME NEW c \in Clients, NEW kind \in Kinds, Send(c, kind)
      PROVE  RunServed /\ UNCHANGED <<file, pc, job, before, did, status>>
  <2>1. /\ asks[c] = "nothing" /\ asks' = [asks EXCEPT ![c] = kind] /\ serving' = serving
        /\ UNCHANGED <<file, pc, job, before, did, status>>
    BY <1>5 DEF Send, child
  <2>2. serving # Nobody => asks[serving] # "nothing"
    BY DEF ServerInv
  <2> QED
    BY <1>1, <2>1, <2>2 DEF RunServed, ServerTypeOK
<1>6. ASSUME NEW c \in Clients, BadRequest(c) \/ NotStarted(c) \/ Respond(c)
      PROVE  FALSE
  BY <1>6 DEF BadRequest, NotStarted, Respond, Answered, RunServed
<1>7. ASSUME NEW c \in Clients, NEW n \in 0 .. MaxStatements, Spawn(c, n)
      PROVE  /\ before' \in [Tables -> Seq(Line)]
             /\ \A t \in PkTables : Whole(file'[t]) => RunTold(t)'
  <2>1. asks[c] = "run" /\ before' = file
    BY <1>7 DEF Spawn, RunServed
  <2> QED
    BY <1>1, <1>7, <2>1, RunToldBegins DEF TypeOK
<1>8. CASE ChildStep
  <2>1. RunServed /\ before' = before
    BY <1>8 DEF ChildStep, RunServed
  <2>2. [Next]_vars
    BY ServerStepIsEngineStep
  <2>3. ASSUME NEW t \in PkTables, Whole(file'[t])
        PROVE  RunTold(t)'
    <3>1. Whole(file[t])
      BY <1>1, <2>2, <2>3, WasWhole
    <3>2. RunTold(t) /\ before[t] \in Seq(Line)
      BY <1>1, <2>1, <3>1 DEF RunInv
    <3> QED
      BY <1>1, <1>8, <2>3, <3>2, RunToldStep
  <2> QED
    BY <2>1, <2>3 DEF RunInv
<1> QED
  BY <1>2, <1>3, <1>4, <1>5, <1>6, <1>7, <1>8 DEF ServerNext, Handlers

\* What ReplyTellsRun says of table t.
Told(t) ==
  /\ IsPrefix(reply.csvBefore[t], reply.csvAfter[t])
  /\ \A d \in DidTo(t) : \E i \in DOMAIN NewLines(t) :
        NewLines(t)[i].id = d.id /\ NewLines(t)[i].val = d.val
  /\ Len(NewLines(t)) - Cardinality(DidTo(t)) \in
        IF reply.exitCode = "0" THEN {0} ELSE {0, 1}

\* The lines of f after the first n.
LEMMA LinesAfter ==
  ASSUME NEW f \in Seq(Line), NEW n \in 0 .. Len(f), NEW g, g = SubSeq(f, n + 1, Len(f))
  PROVE  /\ Len(g) = Len(f) - n /\ DOMAIN g = 1 .. Len(f) - n
         /\ \A i \in n + 1 .. Len(f) : i - n \in DOMAIN g /\ g[i - n] = f[i]
<1>1. Len(f) \in Nat /\ n \in Int
  OBVIOUS
<1>2. Len(g) = Len(f) - n /\ DOMAIN g = 1 .. Len(f) - n
      /\ \A i \in 1 .. Len(f) - n : g[i] = f[i + n]
  BY <1>1
<1>3. ASSUME NEW i \in n + 1 .. Len(f)
      PROVE  i - n \in 1 .. Len(f) - n /\ (i - n) + n = i
  BY <1>1
<1> QED
  BY <1>2, <1>3

\* The lines b are still the first of f, and the rows D are on lines after them.
Between(b, f, D) ==
  /\ Len(b) <= Len(f)
  /\ \A i \in 1 .. Len(b) : f[i] = b[i]
  /\ \A d \in D : \E i \in Len(b) + 1 .. Len(f) : f[i].id = d.id /\ f[i].val = d.val

\* The lines of f that are not in b.
After(b, f) == SubSeq(f, Len(b) + 1, Len(f))

\* Two snapshots b and f, and the rows D reported between them.
LEMMA SnapshotsTell ==
  ASSUME NEW b \in Seq(Line), NEW f \in Seq(Line), NEW D,
         Between(b, f, D),
         NEW g, g = After(b, f)
  PROVE  /\ IsPrefix(b, f)
         /\ \A d \in D : \E i \in DOMAIN g : g[i].id = d.id /\ g[i].val = d.val
         /\ Len(g) = Len(f) - Len(b)
<1>1. /\ Len(b) \in 0 .. Len(f) /\ Len(f) \in Nat
      /\ \A i \in 1 .. Len(b) : f[i] = b[i]
  BY DEF Between
<1>2. /\ Len(g) = Len(f) - Len(b)
      /\ \A i \in Len(b) + 1 .. Len(f) : i - Len(b) \in DOMAIN g /\ g[i - Len(b)] = f[i]
  <2>1. g = SubSeq(f, Len(b) + 1, Len(f))
    BY DEF After
  <2> QED
    BY <1>1, <2>1, LinesAfter
<1>3. IsPrefix(b, f)
  <2>1. SubSeq(b, 1, Len(b)) = SubSeq(f, 1, Len(b))
    BY <1>1
  <2> QED
    BY <1>1, <2>1 DEF IsPrefix
<1>4. ASSUME NEW d \in D
      PROVE  \E i \in DOMAIN g : g[i].id = d.id /\ g[i].val = d.val
  <2>1. PICK i \in Len(b) + 1 .. Len(f) : f[i].id = d.id /\ f[i].val = d.val
    BY DEF Between
  <2> QED
    BY <1>2, <2>1
<1> QED
  BY <1>2, <1>3, <1>4

LEMMA AnswerTells ==
  ASSUME NEW t \in PkTables, RunTold(t), file[t] \in Seq(Line), before[t] \in Seq(Line),
         pc \notin Running, reply' = Body("run"), did' = did
  PROVE  Told(t)'
<1>1. /\ reply'.csvBefore = before /\ reply'.csvAfter = file
      /\ reply'.exitCode = "0" => status = "0"
  BY DEF Body, exitCode
<1>2. DidTo(t)' = DidTo(t)
  BY DEF DidTo
<1>3. PICK b \in Seq(Line), f \in Seq(Line), D \in {DidTo(t)}, g \in {After(before[t], file[t])} :
           /\ b = before[t] /\ f = file[t] /\ D = DidTo(t)
           /\ g = After(b, f)
  OBVIOUS
<1>4. NewLines(t)' = g
  BY <1>1, <1>3 DEF NewLines, After
<1>5. Between(b, f, D)
  BY <1>3 DEF RunTold, Between
<1>6. /\ Len(f) - Len(b) - Cardinality(D) \in {0, 1}
      /\ status = "0" => Len(f) - Len(b) - Cardinality(D) \in {0}
  BY <1>3 DEF RunTold, Extra
<1>7. /\ IsPrefix(b, f)
      /\ \A d \in D : \E i \in DOMAIN g : g[i].id = d.id /\ g[i].val = d.val
      /\ Len(g) = Len(f) - Len(b)
  <2>1. IsPrefix(b, f)
    BY <1>3, <1>5, SnapshotsTell
  <2>2. Len(g) = Len(f) - Len(b)
    BY <1>3, <1>5, SnapshotsTell
  <2>3. \A d \in D : \E i \in DOMAIN g : g[i].id = d.id /\ g[i].val = d.val
    BY <1>3, <1>5, SnapshotsTell
  <2> QED
    BY <2>1, <2>2, <2>3
<1>8. Len(g) - Cardinality(D) \in IF reply'.exitCode = "0" THEN {0} ELSE {0, 1}
  BY <1>1, <1>6, <1>7
<1> QED
  BY <1>1, <1>2, <1>3, <1>4, <1>7, <1>8 DEF Told

LEMMA ReplyStep ==
  /\ IInv /\ ServerInv /\ RunInv /\ ReplyTellsRun /\ [ServerNext]_allvars
  => ReplyTellsRun'
<1> SUFFICES ASSUME IInv, ServerInv, RunInv, ReplyTellsRun, [ServerNext]_allvars,
                    serving' = Nobody, reply'.csvAfter # NoFiles, NEW t \in PkTables,
                    Whole(reply'.csvAfter[t])
             PROVE  Told(t)'
  BY DEF ReplyTellsRun, Told, Whole
<1>1. /\ TypeOK /\ ServerTypeOK /\ Nobody \notin Clients /\ t \in Tables
      /\ \A c \in Clients : serving = c => asks[c] \in {"run", "command"}
  BY ServerAssumption DEF IInv, ServerInv, PkTables
<1>2. ASSUME serving = Nobody, UNCHANGED <<reply, did>>
      PROVE  Told(t)'
  <2>1. Told(t)
    BY <1>2 DEF ReplyTellsRun, Told
  <2>2. NewLines(t)' = NewLines(t) /\ DidTo(t)' = DidTo(t)
    BY <1>2 DEF NewLines, DidTo
  <2> QED
    BY <1>2, <2>1, <2>2 DEF Told
<1>3. CASE UNCHANGED allvars
  BY <1>2, <1>3 DEF allvars, server
<1>4. CASE TerminalStep
  BY <1>2, <1>4 DEF TerminalStep, server
<1>5. CASE \E c \in Clients, kind \in Kinds : Send(c, kind)
  BY <1>2, <1>5 DEF Send
<1>6. ASSUME NEW c \in Clients, NEW code, Answered(c, Error(code))
      PROVE  FALSE
  BY <1>6 DEF Answered, Error
<1>7. ASSUME NEW c \in Clients, NEW n \in 0 .. MaxStatements, Spawn(c, n)
      PROVE  FALSE
  BY <1>1, <1>7 DEF Spawn
<1>8. CASE ChildStep
  <2>1. pc # "down" /\ serving' = serving
    BY <1>8 DEF ChildStep, Statement, InsertStep, StatementFails, ScriptEnds, Ended, Killed,
       on_append_success, SelectScan, SelectWhere, append_insert_row, count_rows,
       prepare_insert_values, AppendRefused, AppendFails, CountFails, IndexFails,
       SelectFails, PrepareFails, EndScript, Exit, Crash, Running
  <2> QED
    BY <1>1, <2>1 DEF ServerTypeOK
<1>9. ASSUME NEW c \in Clients, Respond(c)
      PROVE  Told(t)'
  <2>1. serving = c /\ pc = "down" /\ did' = did /\ asks[c] \in {"run", "command"}
    BY <1>1, <1>9 DEF Respond
  <2>2. Answered(c, Body(asks[c]))
    BY <1>6, <1>9 DEF Respond
  <2>3. reply' = Body(asks[c])
    BY <2>2 DEF Answered
  <2>4. asks[c] = "run"
    BY <2>1, <2>3 DEF Body
  <2>5. before \in [Tables -> Seq(Line)] /\ RunTold(t)
    <3>1. Whole(file[t])
      BY <2>3, <2>4 DEF Body
    <3> QED
      BY <1>1, <2>1, <2>4, <3>1 DEF RunInv, RunServed
  <2>6. pc \notin Running
    BY <2>1 DEF Running
  <2> QED
    BY <1>1, <2>1, <2>3, <2>4, <2>5, <2>6, AnswerTells DEF TypeOK
<1> QED
  BY <1>3, <1>4, <1>5, <1>6, <1>7, <1>8, <1>9
     DEF ServerNext, Handlers, BadRequest, NotStarted

\* What /api/run answers is what its run did, to the tables with an id and with
\* rows of one line: the second snapshot is the first with a line for every
\* INSERT that was reported, and one more at most when the program did not end
\* well (the handler of /api/run, execute_insert).
THEOREM ReplyTellsRunCorrect == ServerSpec => []ReplyTellsRun
<1>1. ServerInit => AckKnown /\ RunInv /\ ReplyTellsRun
  BY DEF ServerInit, Init, AckKnown, RunInv, RunServed, ReplyTellsRun, NoReply, Error
<1>2. IInv /\ AckKnown /\ [ServerNext]_allvars => AckKnown'
  BY AckKnownStep, ServerStepIsEngineStep
<1>3. ServerSpec => []ServerInv
  BY ServerSafety, EngineInvUnderServer, ServerInvInit, ServerInvStep, PTL
<1> QED
  BY <1>1, <1>2, <1>3, ServerSafety, EngineInvUnderServer, RunInvStep, ReplyStep, PTL
=============================================================================
