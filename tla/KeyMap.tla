------------------------------- MODULE KeyMap -------------------------------
(***************************************************************************)
(* What bplus_tree.h promises of a tree: it is a map from keys to rows.  A *)
(* call is made, and later answered; the map changes in the answer, as the *)
(* answer says: 0 for done, Dup for a key that was there, NotFound for one *)
(* that was not, NoMemory when an allocation failed -- and only then is    *)
(* anything lost.                                                          *)
(***************************************************************************)
EXTENDS Integers

CONSTANTS Keys, Rows, Dup, NotFound, NoMemory

VARIABLES
  map,   \* the keys and their rows
  req,   \* the call that is being answered
  ans    \* the answer to the last call

vars == <<map, req, ans>>

NoReq == [kind |-> "none"]
Done  == 0

With(m, k, r) == [x \in DOMAIN m \cup {k} |-> IF x = k THEN r ELSE m[x]]
Part(m, s)    == /\ DOMAIN s \subseteq DOMAIN m
                 /\ \A x \in DOMAIN s : s[x] = m[x]

Empty == [x \in {} |-> 0]
Init  == map = Empty /\ req = NoReq /\ ans = Done

Call == /\ req = NoReq
        /\ \E kind \in {"search", "insert", "replace"}, k \in Keys, r \in Rows :
             req' = [kind |-> kind, key |-> k, row |-> r]
        /\ ans' = Done
        /\ UNCHANGED map

Answer(a) == req # NoReq /\ req' = NoReq /\ ans' = a

Search == /\ req.kind = "search"
          /\ Answer(IF req.key \in DOMAIN map THEN map[req.key] ELSE NotFound)
          /\ UNCHANGED map

Insert == /\ req.kind = "insert" /\ req.key \notin DOMAIN map
          /\ Answer(Done)
          /\ map' = With(map, req.key, req.row)

Refuse == /\ req.kind = "insert" /\ req.key \in DOMAIN map
          /\ Answer(Dup)
          /\ UNCHANGED map

Replace == /\ req.kind = "replace"
           /\ Answer(Done)
           /\ map' = With(map, req.key, req.row)

\* An insertion that fails adds its key or not, and can lose others.
Fail == /\ req.kind \in {"insert", "replace"} /\ req.key \notin DOMAIN map
        /\ Answer(NoMemory)
        /\ Part(With(map, req.key, req.row), map')

Clear == req = NoReq /\ map' = Empty /\ req' = NoReq /\ ans' = Done

Next == Call \/ Search \/ Insert \/ Refuse \/ Replace \/ Fail \/ Clear

Spec == Init /\ [][Next]_vars
=============================================================================
