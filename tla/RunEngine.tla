------------------------------ MODULE RunEngine ------------------------------
(***************************************************************************)
(* Session::run on the CPU: runs of one session, sharing its buffer pool.  *)
(*                                                                         *)
(* A run walks the batches of the schedule.  A batch of one node with      *)
(* checked = FALSE is dispatch_node followed by decrement_refs_state, the  *)
(* sequential path and the serial half of the parallel one; a batch with   *)
(* checked = TRUE is the par_iter half of a depth level.  Each batch goes  *)
(* through the same four phases, in the code's order:                      *)
(*   claim    serially, decide each node's path and take its buffers       *)
(*   compute  the operators run, in any order                              *)
(*   write    serially, store the outputs in the run state                 *)
(*   release  serially, give up one reference per use                      *)
(***************************************************************************)
EXTENDS OnnxGraph

CONSTANTS Run,       \* the calls of Session::run, concurrent or one after another
          Sessions,  \* the sessions to choose from
          NoBuffer   \* no heap buffer: an empty Vec, or a name not in the run state

ASSUME SessionsAssumption == \A s \in Sessions : IsSession(s)
ASSUME NoBufferAssumption == NoBuffer \notin Run \X Nat \X Nat

VARIABLES g,        \* the session
          pc,       \* pc[r]: the phase run r is in
          step,     \* step[r]: the batch it executes
          pos,      \* pos[r]: the node of the batch the serial phase is at
          tensors,  \* tensors[r][n]: the buffer the run state holds for name n
          refs,     \* refs[r][n]: remaining references to n
          work,     \* work[r]: the claims of the current batch, in order
          content,  \* what is stored in each buffer
          pool      \* the buffers cached in the session's pool

vars == <<g, pc, step, pos, tensors, refs, work, content, pool>>

(* A heap allocation is named by the place that makes it: the k-th input or *)
(* output tensor of node i in run r, node 0 being the caller's inputs.      *)
Buffer == Run \X Nat \X Nat
Fresh(r, i, k) == <<r, i, k>>

Batch(r) == g.batches[step[r]]
Held(r, n) == tensors[r][n] # NoBuffer
BuffersOf(s) == {s[k] : k \in DOMAIN s} \ {NoBuffer}
Pooled(S) == IF g.pooled THEN S ELSE {}
FirstOf(a, b) == IF a < b THEN a ELSE b

(* state.get(name).or_else(|| weights.get(name)) *)
ValueOf(r, n) ==
  IF n = NoName THEN NoValue
  ELSE IF Held(r, n) THEN content[tensors[r][n]]
  ELSE IF n \in g.weights THEN WeightValue(n) ELSE NoValue

(* A node of the current batch: its path, the tensors it owns, its outcome. *)
Claim == [node : Nodes(g), how : {"inplace", "slots", "fresh"},
          bufs : Seq(Buffer \cup {NoBuffer}), st : {"claimed", "computed", "error"}]

-----------------------------------------------------------------------------
(* Every variable holds what its comment says.                              *)
TypeOK ==
  /\ g \in Sessions
  /\ pc \in [Run -> {"idle", "claim", "compute", "write", "release", "done", "failed"}]
  /\ step \in [Run -> Nat \ {0}]
  /\ pos \in [Run -> Nat \ {0}]
  /\ tensors \in [Run -> [Name -> Buffer \cup {NoBuffer}]]
  /\ refs \in [Run -> [Name -> Nat]]
  /\ work \in [Run -> Seq(Claim)]
  /\ pool \in SUBSET Buffer

Init ==
  /\ g \in Sessions
  /\ pc = [r \in Run |-> "idle"]
  /\ step = [r \in Run |-> 1]
  /\ pos = [r \in Run |-> 1]
  /\ tensors = [r \in Run |-> [n \in Name |-> NoBuffer]]
  /\ refs = [r \in Run |-> [n \in Name |-> 0]]
  /\ work = [r \in Run |-> <<>>]
  /\ content = <<>>
  /\ pool = {}

(* An error unwinds with `?`: the run state and the claims are dropped, and *)
(* none of their buffers goes back to the pool.                             *)
Fail(r) ==
  /\ pc' = [pc EXCEPT ![r] = "failed"]
  /\ tensors' = [tensors EXCEPT ![r] = [n \in Name |-> NoBuffer]]
  /\ work' = [work EXCEPT ![r] = <<>>]
  /\ UNCHANGED <<g, step, pos, refs, content, pool>>

(* run_internal up to the run loop: seed the counts, clone the inputs in.   *)
Start(r) ==
  /\ pc[r] = "idle"
  /\ pc' = [pc EXCEPT ![r] = "claim"]
  /\ refs' = [refs EXCEPT ![r] = BaseRefCounts(g)]
  /\ tensors' = [tensors EXCEPT ![r] = [n \in Name |->
       IF \E k \in DOMAIN g.inputs : g.inputs[k] = n
         THEN Fresh(r, 0, CHOOSE k \in DOMAIN g.inputs : g.inputs[k] = n)
         ELSE NoBuffer]]
  /\ content' = [b \in DOMAIN content \cup {Fresh(r, 0, k) : k \in DOMAIN g.inputs} |->
       IF b \in DOMAIN content THEN content[b] ELSE InputValue(r, g.inputs[b[3]])]
  /\ UNCHANGED <<g, step, pos, work, pool>>

(* validate_input_shapes or resolve_run_shapes rejects the inputs. *)
Reject(r) == pc[r] = "idle" /\ Fail(r)

-----------------------------------------------------------------------------
(* node_can_execute_inplace: the first input has this one use left, and is  *)
(* neither an initializer nor a graph output.                               *)
CanInplace(r, i) ==
  /\ i \in g.inplace
  /\ g.ins[i] # <<>>
  /\ g.ins[i][1] # NoName
  /\ g.ins[i][1] \notin g.weights
  /\ g.ins[i][1] \notin OutputSet(g)
  /\ refs[r][g.ins[i][1]] = 1

CanSlot(r, i) ==
  /\ ~CanInplace(r, i)
  /\ i \in g.slots
  /\ \A k \in Named(g, i) : g.outs[i][k] \in g.shaped

Claimed(r, item) ==
  /\ work' = [work EXCEPT ![r] = Append(@, item)]
  /\ pc' = [pc EXCEPT ![r] = IF Len(work[r]) + 1 = Len(Batch(r).nodes)
                                THEN "compute" ELSE "claim"]
  /\ UNCHANGED <<g, step, pos, refs, content>>

Claiming(r, i) ==
  /\ pc[r] = "claim"
  /\ step[r] \in DOMAIN g.batches
  /\ i = Batch(r).nodes[Len(work[r]) + 1]

(* The in-place path takes the first input out of the run state.            *)
ClaimInplace(r) == \E i \in Nodes(g) :
  /\ Claiming(r, i)
  /\ CanInplace(r, i)
  /\ LET n == g.ins[i][1] IN
       /\ Claimed(r, [node |-> i, how |-> "inplace", bufs |-> <<tensors[r][n]>>,
                      st |-> "claimed"])
       /\ tensors' = [tensors EXCEPT ![r][n] = NoBuffer]
  /\ UNCHANGED pool

(* acquire_output_slots: per named output, a cached buffer if the pool has a *)
(* fitting one and else a new one.                                          *)
ClaimSlots(r) == \E i \in Nodes(g) :
  /\ Claiming(r, i)
  /\ CanSlot(r, i)
  /\ \E hits \in SUBSET Named(g, i) : \E f \in [hits -> pool] :
       /\ \A k, l \in hits : f[k] = f[l] => k = l
       /\ Claimed(r, [node |-> i, how |-> "slots", st |-> "claimed",
                      bufs |-> [k \in DOMAIN g.outs[i] |->
                        IF k \in hits THEN f[k]
                        ELSE IF k \in Named(g, i) THEN Fresh(r, i, k) ELSE NoBuffer]])
       /\ pool' = pool \ {f[k] : k \in hits}
  /\ UNCHANGED tensors

(* Slots acquired for the outputs before one of unknown shape are given up   *)
(* again; those that missed the pool enter it.                              *)
GivenUp(r, i) ==
  LET unshaped == {k \in Named(g, i) : g.outs[i][k] \notin g.shaped}
  IN IF i \notin g.slots \/ CanInplace(r, i) THEN {}
     ELSE {Fresh(r, i, Len(g.outs[i]) + g.arity[i] + k) :
             k \in {j \in Named(g, i) : \A u \in unshaped : j < u}}

ClaimFresh(r) == \E i \in Nodes(g) :
  /\ Claiming(r, i)
  /\ ~CanInplace(r, i) /\ ~CanSlot(r, i)
  /\ Claimed(r, [node |-> i, how |-> "fresh", bufs |-> <<>>, st |-> "claimed"])
  /\ \E missed \in SUBSET GivenUp(r, i) : pool' = pool \cup Pooled(missed)
  /\ UNCHANGED tensors

(* The operator is not in the registry. *)
ClaimError(r) == (\E i \in Nodes(g) : Claiming(r, i)) /\ Fail(r)

-----------------------------------------------------------------------------
OwnsFirst(item) == item.how = "inplace" /\ BuffersOf(item.bufs) # {}

Args(r, item) ==
  [k \in DOMAIN g.ins[item.node] |->
     IF item.how # "inplace" \/ k # 1 THEN ValueOf(r, g.ins[item.node][k])
     ELSE IF OwnsFirst(item) THEN content[item.bufs[1]] ELSE NoValue]

Captured(r, i) == {<<n, ValueOf(r, n)>> : n \in g.caps[i]}

(* The tensors the operator returns, and the buffers they are in.           *)
ResultBuffers(r, item) ==
  IF item.how = "slots" THEN item.bufs
  ELSE [k \in 1 .. g.arity[item.node] |->
          IF k = 1 /\ OwnsFirst(item) THEN item.bufs[1] ELSE Fresh(r, item.node, k)]

(* One worker finishes one node.  Writing into slots needs as many results  *)
(* as slots.                                                                *)
Compute(r, w) ==
  /\ pc[r] = "compute"
  /\ work[r][w].st = "claimed"
  /\ LET item == work[r][w]
         bufs == ResultBuffers(r, item)
         value == [k \in DOMAIN bufs |->
                     NodeValue(item.node, k, Args(r, item), Captured(r, item.node))]
     IN /\ item.how = "slots" => g.arity[item.node] = Len(g.outs[item.node])
        /\ work' = [work EXCEPT ![r][w] = [@ EXCEPT !.st = "computed", !.bufs = bufs]]
        /\ content' = [b \in DOMAIN content \cup BuffersOf(bufs) |->
             IF b \in BuffersOf(bufs) THEN value[CHOOSE k \in DOMAIN bufs : bufs[k] = b]
             ELSE content[b]]
  /\ UNCHANGED <<g, pc, step, pos, tensors, refs, pool>>

(* The operator returns an error: of its own, for the number of slots, or    *)
(* because it is handed no tensor for an input it cannot do without.        *)
ComputeError(r, w) ==
  /\ pc[r] = "compute"
  /\ work[r][w].st = "claimed"
  /\ work' = [work EXCEPT ![r][w] = [@ EXCEPT !.st = "error"]]
  /\ UNCHANGED <<g, pc, step, pos, tensors, refs, content, pool>>

(* Variant: only successful workers are counted.                            *)
JoinComputed(r) ==
  /\ pc[r] = "compute"
  /\ \A w \in DOMAIN work[r] : work[r][w].st = "computed"
  /\ pc' = [pc EXCEPT ![r] = "write"]
  /\ UNCHANGED <<g, step, pos, tensors, refs, work, content, pool>>

(* par_iter's collect: every worker has answered.                           *)
Join(r) ==
  /\ pc[r] = "compute"
  /\ \A w \in DOMAIN work[r] : work[r][w].st # "claimed"
  /\ pc' = [pc EXCEPT ![r] = "write"]
  /\ UNCHANGED <<g, step, pos, tensors, refs, work, content, pool>>

-----------------------------------------------------------------------------
(* write_node_outputs' check of the results against the declared outputs; a *)
(* result of the wrong shape counts as an error of its operator.            *)
Conforms(item) == g.arity[item.node] = Len(g.outs[item.node])

(* Variant: elided outputs are skipped before results are paired with them.  *)
StoredAtPacked(item, n) ==
  LET names == SelectSeq(g.outs[item.node], LAMBDA m : m # NoName)
      at == {k \in 1 .. FirstOf(Len(names), Len(item.bufs)) : names[k] = n}
  IN IF at = {} THEN 0 ELSE CHOOSE k \in at : TRUE

(* The position the results of item put under name n, 0 for none: the loop  *)
(* zips outputs with results, so the shorter of the two ends it, and a name *)
(* declared twice keeps the later result.                                   *)
StoredAt(item, n) ==
  LET outs == g.outs[item.node]
      last == FirstOf(Len(outs), Len(item.bufs))
      at == {k \in 1 .. last : outs[k] = n /\ \A l \in k + 1 .. last : outs[l] # n}
  IN IF at = {} THEN 0 ELSE CHOOSE k \in at : TRUE

(* The serial phases go through the batch in order, then on to the next one. *)
LastOfBatch(r) == pos[r] = Len(Batch(r).nodes)
Advance(r, next) ==
  /\ pos' = [pos EXCEPT ![r] = IF LastOfBatch(r) THEN 1 ELSE @ + 1]
  /\ pc' = [pc EXCEPT ![r] = IF LastOfBatch(r) THEN next ELSE @]

(* The positions of the results that stay under no name and go to the pool: *)
(* one displaced by a later output of the same name and, in the checked     *)
(* path, an elided output's.                                                *)
Unstored(item, checked) ==
  {k \in DOMAIN item.bufs :
     /\ k \in Named(g, item.node) \/ checked
     /\ \A n \in Name : StoredAt(item, n) # k}

(* state.insert per output; what it displaces goes to the pool.             *)
Write(r) ==
  /\ pc[r] = "write"
  /\ LET item == work[r][pos[r]]
         stored == [n \in Name |-> IF StoredAt(item, n) = 0 THEN tensors[r][n]
                                    ELSE item.bufs[StoredAt(item, n)]]
         displaced == {tensors[r][n] : n \in {m \in Name : StoredAt(item, m) # 0}}
         unstored == {item.bufs[k] : k \in Unstored(item, Batch(r).checked)}
     IN /\ item.st = "computed"
        /\ Batch(r).checked => Conforms(item)
        /\ tensors' = [tensors EXCEPT ![r] = stored]
        /\ pool' = pool \cup Pooled((displaced \cup unstored) \ {NoBuffer})
        /\ work' = [work EXCEPT ![r][pos[r]] = [@ EXCEPT !.bufs = <<>>]]
  /\ Advance(r, "release")
  /\ UNCHANGED <<g, step, refs, content>>

WriteError(r) ==
  /\ pc[r] = "write"
  /\ \/ work[r][pos[r]].st = "error"
     \/ Batch(r).checked /\ ~Conforms(work[r][pos[r]])
  /\ Fail(r)

-----------------------------------------------------------------------------
(* Variants: initializers are counted too, without saturation; a name is     *)
(* counted once per node.                                                   *)
RefsAfterAll(g_, rc, i) == [n \in Name |-> rc[n] - Cardinality(Uses(g_, i, n))]
RefsAfterOnce(g_, rc, i) ==
  [n \in Name |-> IF n \in g_.weights \/ Uses(g_, i, n) = {} \/ rc[n] = 0 THEN rc[n]
                   ELSE rc[n] - 1]

(* decrement_refs_state: one reference per use, saturating at zero; the last *)
(* use of a tensor that is no graph output frees it into the pool.          *)
RefsAfter(g_, rc, i) ==
  [n \in Name |-> IF n \in g_.weights THEN rc[n]
                   ELSE LET k == Cardinality(Uses(g_, i, n))
                        IN IF rc[n] <= k THEN 0 ELSE rc[n] - k]

(* Variants: graph outputs are freed as well; captures never free.          *)
LastUsedAny(g_, rc, i) ==
  {n \in Name \ g_.weights : Uses(g_, i, n) # {} /\ RefsAfter(g_, rc, i)[n] <= 1}
LastUsedInputs(g_, rc, i) ==
  {n \in Name \ (g_.weights \cup OutputSet(g_)) :
     Uses(g_, i, n) \ {<<i, 0>>} # {} /\ RefsAfter(g_, rc, i)[n] = 0}

LastUsed(g_, rc, i) ==
  {n \in Name \ (g_.weights \cup OutputSet(g_)) :
     Uses(g_, i, n) # {} /\ RefsAfter(g_, rc, i)[n] = 0}

Release(r) ==
  /\ pc[r] = "release"
  /\ LET i == Batch(r).nodes[pos[r]]
         dead == LastUsed(g, refs[r], i)
     IN /\ refs' = [refs EXCEPT ![r] = RefsAfter(g, refs[r], i)]
        /\ tensors' = [tensors EXCEPT ![r] = [n \in Name |->
             IF n \in dead THEN NoBuffer ELSE tensors[r][n]]]
        /\ pool' = pool \cup Pooled({tensors[r][n] : n \in dead} \ {NoBuffer})
  /\ Advance(r, "claim")
  /\ step' = [step EXCEPT ![r] = IF LastOfBatch(r) THEN @ + 1 ELSE @]
  /\ work' = [work EXCEPT ![r] = IF LastOfBatch(r) THEN <<>> ELSE @]
  /\ UNCHANGED <<g, content>>

-----------------------------------------------------------------------------
(* take_outputs: the declared outputs leave with the caller, the rest of    *)
(* the state goes to the pool.  A name declared twice is taken only once.   *)
Missing(r) ==
  {k \in DOMAIN g.outputs :
     /\ ~Held(r, g.outputs[k]) \/ \E l \in 1 .. (k - 1) : g.outputs[l] = g.outputs[k]
     /\ g.outputs[k] \notin g.weights}

Finished(r) == pc[r] = "claim" /\ step[r] = Len(g.batches) + 1

(* Variant: what was answered is drained with the rest.                     *)
LeftoverAll(r) == {tensors[r][n] : n \in Name} \ {NoBuffer}

Leftover(r) == {tensors[r][n] : n \in Name \ OutputSet(g)} \ {NoBuffer}

Finish(r) ==
  /\ Finished(r)
  /\ Missing(r) = {}
  /\ pc' = [pc EXCEPT ![r] = "done"]
  /\ tensors' = [tensors EXCEPT ![r] = [n \in Name |->
       IF n \in OutputSet(g) THEN tensors[r][n] ELSE NoBuffer]]
  /\ pool' = pool \cup Pooled(Leftover(r))
  /\ UNCHANGED <<g, step, pos, refs, work, content>>

(* TensorNotFound; the rest of the state was drained into the pool already. *)
FinishError(r) ==
  /\ Finished(r)
  /\ Missing(r) # {}
  /\ pc' = [pc EXCEPT ![r] = "failed"]
  /\ tensors' = [tensors EXCEPT ![r] = [n \in Name |-> NoBuffer]]
  /\ pool' = pool \cup Pooled(Leftover(r))
  /\ UNCHANGED <<g, step, pos, refs, work, content>>

Step(r) ==
  \/ ClaimInplace(r) \/ ClaimSlots(r) \/ ClaimFresh(r) \/ ClaimError(r)
  \/ \E w \in DOMAIN work[r] : Compute(r, w) \/ ComputeError(r, w)
  \/ Join(r) \/ Write(r) \/ WriteError(r) \/ Release(r)
  \/ Finish(r) \/ FinishError(r)

Next == \E r \in Run : Start(r) \/ Reject(r) \/ Step(r)

(* A run that has begun keeps going: its thread executes on, and so do the  *)
(* workers.  Nobody has to start one.                                       *)
Fairness == \A r \in Run : WF_vars(Step(r))

Spec == Init /\ [][Next]_vars /\ Fairness

-----------------------------------------------------------------------------
Active(r) == pc[r] \notin {"idle", "done", "failed"}

(* The nodes of run r whose references are given up, and those whose        *)
(* outputs are in the run state.                                            *)
NodesBefore(b, p) ==
  {NodeAt(g, q) : q \in {q \in Positions(g) : q[1] < b \/ (q[1] = b /\ q[2] < p)}}
Released(r) == NodesBefore(step[r], IF pc[r] = "release" THEN pos[r] ELSE 1)
Written(r) ==
  IF pc[r] = "release" THEN NodesBefore(step[r] + 1, 1)
  ELSE NodesBefore(step[r], IF pc[r] = "write" THEN pos[r] ELSE 1)
Pending(r) == Nodes(g) \ Released(r)

(* The seed and the decrements stay in step: while a run is active, the     *)
(* count of a name is the number of uses no released node accounts for,     *)
(* plus its declarations as a graph output.  One use too few frees a live   *)
(* tensor, one too many keeps it for the whole run.                         *)
RefCountsExact ==
  \A r \in Run : Active(r) => \A n \in Name \ g.weights :
    refs[r][n] = Cardinality(UsesBy(g, Pending(r), n)) + OutputRefs(g, n)

Available(r, n) ==
  \/ \E k \in DOMAIN g.inputs : g.inputs[k] = n
  \/ \E i \in Written(r) : \E k \in DOMAIN g.outs[i] :
       g.outs[i][k] = n /\ k <= g.arity[i]

ClaimedInplaceBy(r, i, n) ==
  /\ g.ins[i] # <<>> /\ g.ins[i][1] = n
  /\ \E w \in DOMAIN work[r] : work[r][w].node = i /\ work[r][w].how = "inplace"

(* No tensor is taken away while somebody still needs it: a name that is    *)
(* fed or already written stays in the run state for every node that has    *)
(* not released it (but the one that claimed it in place) and, if it is a   *)
(* graph output, for the caller.                                            *)
NeededTensorsHeld ==
  \A r \in Run : Active(r) => \A n \in Name \ g.weights : Available(r, n) =>
    \/ Held(r, n)
    \/ /\ n \notin OutputSet(g)
       /\ \A i \in Pending(r) : Uses(g, i, n) # {} => ClaimedInplaceBy(r, i, n)

(* Memory goes back as early as the counts allow: an active run holds no    *)
(* tensor all of whose uses are released, unless it is a graph output.      *)
NoDeadTensorHeld ==
  \A r \in Run : Active(r) => \A n \in Name \ (g.weights \cup OutputSet(g)) :
    Held(r, n) /\ UsesBy(g, Nodes(g), n) # {} => UsesBy(g, Pending(r), n) # {}

(* Tensors are held exactly as long as they are needed, whatever order the  *)
(* nodes of a level are claimed, written and released in.                   *)
HeldWhileNeeded == NeededTensorsHeld /\ NoDeadTensorHeld

(* A buffer has one owner, over all the runs that share the pool: two       *)
(* names, two claims, a name and a claim, or any of them and the pool,      *)
(* never hold the same one.                                                 *)
BuffersUnshared ==
  /\ \A r, s \in Run : \A m, n \in Name :
       Held(r, m) /\ tensors[r][m] = tensors[s][n] => r = s /\ m = n
  /\ \A r \in Run : \A n \in Name : tensors[r][n] \notin pool
  /\ \A r \in Run : \A w \in DOMAIN work[r] :
       LET bufs == work[r][w].bufs IN
       /\ BuffersOf(bufs) \cap pool = {}
       /\ \A s \in Run : \A n \in Name : tensors[s][n] \notin BuffersOf(bufs)
       /\ \A k, l \in DOMAIN bufs : bufs[k] = bufs[l] /\ bufs[k] # NoBuffer => k = l
       /\ \A s \in Run : \A v \in DOMAIN work[s] :
            BuffersOf(bufs) \cap BuffersOf(work[s][v].bufs) # {} => r = s /\ w = v

(* Every run computes what the graph denotes for its own inputs, whatever   *)
(* the other runs do with the buffers of the shared pool, then and later.   *)
Promise == INSTANCE Dataflow WITH
  status <- [r \in Run |-> IF pc[r] \in {"idle", "done", "failed"} THEN pc[r] ELSE "running"],
  answer <- [r \in Run |-> IF pc[r] # "done" THEN <<>>
                             ELSE [n \in OutputSet(g) |-> ValueOf(r, n)]]
AnswersDenotation == Promise!Spec

(* A run that has begun ends: no phase waits for something that never comes. *)
EveryRunEnds == \A r \in Run : pc[r] = "claim" ~> pc[r] \in {"done", "failed"}
=============================================================================
