---------------------------- MODULE Cancellation ----------------------------
(***************************************************************************)
(* Cooperative cancellation: the registry of a session with a token wraps  *)
(* every operator its nodes reach, at any depth of subgraphs, in a guard   *)
(* that looks at the token before it delegates.                            *)
(*                                                                         *)
(* A lane is a thread that executes nodes one after another: a run on the  *)
(* sequential path, or one of the tasks a depth level is split into.  The  *)
(* model runs a chain of nodes; a node with a body is a Loop, which runs   *)
(* it any number of times.                                                 *)
(***************************************************************************)
EXTENDS Naturals, SequencesExt

CONSTANTS Lane, Token, Op,
          Program,    \* sequence of [op, body], body a sequence of operators
          Provided,   \* operators the registry has when the session is built
          MaxBind     \* bound: calls of set_session_cancellation and register_op

(* A lane has at least one node to execute.                                 *)
ASSUME ProgramAssumption ==
  /\ Program \in Seq([op : Op, body : Seq(Op)]) /\ Program # <<>>
  /\ Provided \subseteq Op /\ MaxBind \in Nat

VARIABLES guards,  \* the registry: operator -> the tokens of its guards, outermost first
          bound,   \* history: the tokens bound, the last one being Session::cancellation
          flag,    \* flag[t]: the token is cancelled
          pc,      \* pc[l]: what lane l is at
          node,    \* node[l]: the node it is at
          inner,   \* inner[l]: the operator of its body, 0 for its own
          layer,   \* layer[l]: the guards passed
          late,    \* late[l], history: tokens raised before the look-up, and ever since
          changes  \* calls that changed the registry

vars == <<guards, bound, flag, pc, node, inner, layer, late, changes>>
session == <<guards, bound, changes>>
place == <<node, inner>>

Running(l) == pc[l] \in {"ready", "guard"}
Program_op(l) == IF inner[l] = 0 THEN Program[node[l]].op ELSE Program[node[l]].body[inner[l]]
Current == {bound[k] : k \in {Len(bound)} \ {0}}   \* Session::cancellation, if any
Raised == {t \in Token : flag[t]}

TypeOK ==
  /\ DOMAIN guards \subseteq Op /\ guards \in [DOMAIN guards -> Seq(Token)]
  /\ bound \in Seq(Token)
  /\ flag \in [Token -> BOOLEAN]
  /\ pc \in [Lane -> {"idle", "ready", "guard", "done", "failed", "cancelled", "unsupported"}]
  /\ node \in [Lane -> 1 .. Len(Program)]
  /\ \A l \in Lane : inner[l] \in 0 .. Len(Program[node[l]].body)
  /\ layer \in [Lane -> Nat]
  /\ late \in [Lane -> SUBSET Token]

Init ==
  /\ guards = [op \in Provided |-> <<>>]
  /\ bound = <<>>
  /\ flag = [t \in Token |-> FALSE]
  /\ pc = [l \in Lane |-> "idle"]
  /\ node = [l \in Lane |-> 1]
  /\ inner = [l \in Lane |-> 0]
  /\ layer = [l \in Lane |-> 0]
  /\ late = [l \in Lane |-> {}]
  /\ changes = 0

-----------------------------------------------------------------------------
reachable_op_types == UNION {{Program[i].op} \cup Range(Program[i].body) : i \in DOMAIN Program}

wrap_registry(t) == [op \in DOMAIN guards \cap reachable_op_types |-> <<t>> \o guards[op]]

(* set_session_cancellation takes the session for itself: no run is going.  *)
Bind(t) ==
  /\ \A l \in Lane : ~Running(l)
  /\ changes < MaxBind
  /\ t \notin Current
  /\ guards' = wrap_registry(t)
  /\ bound' = Append(bound, t)
  /\ changes' = changes + 1
  /\ UNCHANGED <<flag, pc, place, layer, late>>

(* Variant: a late operator goes straight into the registry.                *)
wrap_owned_op_bare == <<>>

wrap_owned_op == IF bound = <<>> THEN <<>> ELSE <<Last(bound)>>

register_op(op) ==
  /\ \A l \in Lane : ~Running(l)
  /\ changes < MaxBind
  /\ guards' = [o \in DOMAIN guards \cup {op} |-> IF o = op THEN wrap_owned_op ELSE guards[o]]
  /\ changes' = changes + 1
  /\ UNCHANGED <<bound, flag, pc, place, layer, late>>

(* From any thread at any time.                                             *)
Cancel(t) ==
  /\ flag' = [flag EXCEPT ![t] = TRUE]
  /\ UNCHANGED <<session, pc, place, layer, late>>

Reset(t) ==
  /\ flag' = [flag EXCEPT ![t] = FALSE]
  /\ late' = [l \in Lane |-> late[l] \ {t}]
  /\ UNCHANGED <<session, pc, place, layer>>

-----------------------------------------------------------------------------
(* Variant: a new run goes on inside the body the last one stopped in.      *)
BeginInside(l) ==
  /\ ~Running(l)
  /\ pc' = [pc EXCEPT ![l] = "ready"]
  /\ node' = [node EXCEPT ![l] = 1]
  /\ UNCHANGED <<session, flag, inner, layer, late>>

Begin(l) ==
  /\ ~Running(l)
  /\ pc' = [pc EXCEPT ![l] = "ready"]
  /\ node' = [node EXCEPT ![l] = 1]
  /\ inner' = [inner EXCEPT ![l] = 0]
  /\ UNCHANGED <<session, flag, layer, late>>

(* registry.get: an operator nobody provides fails before any guard.        *)
Lookup(l) ==
  /\ pc[l] = "ready"
  /\ pc' = [pc EXCEPT ![l] = IF Program_op(l) \in DOMAIN guards THEN "guard" ELSE "unsupported"]
  /\ layer' = [layer EXCEPT ![l] = 0]
  /\ late' = [late EXCEPT ![l] = Raised]
  /\ UNCHANGED <<session, flag, place>>

(* Each guard checks its own token, then delegates to the next.             *)
Check(l) ==
  /\ pc[l] = "guard"
  /\ layer[l] < Len(guards[Program_op(l)])
  /\ IF flag[guards[Program_op(l)][layer[l] + 1]]
       THEN pc' = [pc EXCEPT ![l] = "cancelled"] /\ UNCHANGED layer
       ELSE layer' = [layer EXCEPT ![l] = @ + 1] /\ UNCHANGED pc
  /\ UNCHANGED <<session, flag, place, late>>

(* Variant: the guard of the outermost token is the last one.               *)
UnguardedOnce(l) == pc[l] = "guard" /\ layer[l] >= Len(guards[Program_op(l)]) - 1

Unguarded(l) == pc[l] = "guard" /\ layer[l] = Len(guards[Program_op(l)])

(* The operator runs and fails, or the next one is up: the first of the     *)
(* body, the next of it, the first again, or that of the next node.         *)
Goto(l, n, k) ==
  /\ pc' = [pc EXCEPT ![l] = IF n > Len(Program) THEN "done" ELSE "ready"]
  /\ node' = [node EXCEPT ![l] = IF n > Len(Program) THEN @ ELSE n]
  /\ inner' = [inner EXCEPT ![l] = k]

Execute(l) ==
  /\ Unguarded(l)
  /\ LET last == Len(Program[node[l]].body)
     IN \/ pc' = [pc EXCEPT ![l] = "failed"] /\ UNCHANGED place
        \/ inner[l] < last /\ Goto(l, node[l], inner[l] + 1)
        \/ last > 0 /\ inner[l] = last /\ Goto(l, node[l], 1)
        \/ inner[l] \in {0, last} /\ Goto(l, node[l] + 1, 0)
  /\ UNCHANGED <<session, flag, layer, late>>

Proceed(l) == Lookup(l) \/ Check(l) \/ Execute(l)

Next ==
  \/ \E t \in Token : Bind(t) \/ Cancel(t) \/ Reset(t)
  \/ \E op \in Op : register_op(op)
  \/ \E l \in Lane : Begin(l) \/ Proceed(l)

(* A run that has begun proceeds.                                           *)
Spec == Init /\ [][Next]_vars /\ \A l \in Lane : WF_vars(Proceed(l))

-----------------------------------------------------------------------------
(* An operator that is looked up after the session's token was raised does  *)
(* not run, whatever operators were registered since the token was bound,   *)
(* unless the token is reset in between.                                    *)
StopsAtNextNode ==
  [][\A l \in Lane : Execute(l) => late[l] \cap Current = {}]_vars

(* A cancelled run ends, also out of a Loop that has iterations left: its   *)
(* bound of a million is not modelled, and without the token it goes on.   *)
CancelledRunEnds ==
  \A l \in Lane :
    <>[](Raised \cap Current # {}) => (Running(l) ~> ~Running(l))
=============================================================================
