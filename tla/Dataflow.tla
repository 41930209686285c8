------------------------------ MODULE Dataflow ------------------------------
(***************************************************************************)
(* What Session::run promises: each call, once begun, either fails or      *)
(* answers with the values the graph denotes for its own inputs, and an    *)
(* answer given never changes.  Buffers, reference counts, the pool, the   *)
(* fast paths and the schedule do not appear.                              *)
(***************************************************************************)
EXTENDS OnnxGraph

CONSTANTS Run, Sessions

VARIABLES g,       \* the session
          status,  \* status[r]: idle, running, done or failed
          answer   \* answer[r]: what the call returned, a function on names

vars == <<g, status, answer>>

(* The value of every name after the first i nodes, in sorted order; a name *)
(* a node writes hides an initializer or input of that name.                *)
Denotation(r) ==
  LET ArgOf(env, n) == IF n = NoName THEN NoValue ELSE env[n]
      env[i \in 0 .. g.n] ==
        IF i = 0
          THEN [n \in Name |->
                  IF \E k \in DOMAIN g.inputs : g.inputs[k] = n THEN InputValue(r, n)
                  ELSE IF n \in g.weights THEN WeightValue(n) ELSE NoValue]
          ELSE [n \in Name |->
                  LET at == {k \in DOMAIN g.outs[i] : g.outs[i][k] = n /\ k <= g.arity[i]}
                      before == env[i - 1]
                  IN IF at = {} THEN before[n]
                     ELSE NodeValue(i, CHOOSE k \in at : \A l \in at : l <= k,
                            [j \in DOMAIN g.ins[i] |-> ArgOf(before, g.ins[i][j])],
                            {<<m, before[m]>> : m \in g.caps[i]})]
  IN env[g.n]

Init ==
  /\ g \in Sessions
  /\ status = [r \in Run |-> "idle"]
  /\ answer = [r \in Run |-> <<>>]

Begin(r) ==
  /\ status[r] = "idle"
  /\ status' = [status EXCEPT ![r] = "running"]
  /\ UNCHANGED <<g, answer>>

Return(r) ==
  /\ status[r] = "running"
  /\ status' = [status EXCEPT ![r] = "done"]
  /\ answer' = [answer EXCEPT ![r] = [n \in OutputSet(g) |-> Denotation(r)[n]]]
  /\ UNCHANGED g

GiveUp(r) ==
  /\ status[r] \in {"idle", "running"}
  /\ status' = [status EXCEPT ![r] = "failed"]
  /\ UNCHANGED <<g, answer>>

Next == \E r \in Run : Begin(r) \/ Return(r) \/ GiveUp(r)

Spec == Init /\ [][Next]_vars
=============================================================================
