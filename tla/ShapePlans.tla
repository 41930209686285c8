----------------------------- MODULE ShapePlans -----------------------------
(***************************************************************************)
(* The entry of a run: input shapes are validated, the shapes of every     *)
(* tensor are resolved through the session's caches, the run executes, and *)
(* run_with_binding moves the answer into the caller's output buffers.     *)
(* Callers of one session interleave between any two locks.                *)
(***************************************************************************)
EXTENDS Naturals, SequencesExt

CONSTANTS Caller,    \* threads calling Session::run
          Binder,    \* the one that calls run_with_binding
          Inputs,    \* input_names: the graph inputs that are no initializers
          Infos,     \* input_infos: graph input -> dimensions, as tagged pairs
          Weights,   \* initializer -> its shape
          Nodes,     \* sequence of [rule, in, out], in topological order
          Outputs,   \* names of the graph outputs
          Feeds,     \* the input shapes a caller may come with
          Buffers,   \* the shapes of buffers a caller may bind as outputs
          MaxPlans   \* MAX_CACHED_SHAPE_PLANS

(* A caller feeds inputs and, over their defaults, initializers.  It is the *)
(* caller's part of the contract: run_internal takes any name, and one that *)
(* is neither stays in the memo, where later runs do not look for it.       *)
ASSUME FeedsAssumption == \A f \in Feeds : DOMAIN f \subseteq Inputs \cup DOMAIN Weights
ASSUME BinderAssumption == Binder \in Caller
ASSUME MaxPlansAssumption == MaxPlans \in Nat \ {0}
ASSUME NodesAssumption == Nodes \in Seq({Nodes[i] : i \in DOMAIN Nodes})
(* No node writes the name of an input or an initializer.                   *)
ASSUME SingleAssignment ==
  \A i \in DOMAIN Nodes : Nodes[i].out \notin Inputs \cup DOMAIN Weights

VARIABLES pc,       \* pc[c]: where caller c is
          feed,     \* feed[c]: the shapes of its inputs
          plan,     \* plan[c]: the shapes its run goes by
          entries,  \* ShapePlanCache: [key, plan] records, last used first
          memo,     \* resolved_shapes: the plan of a recent run
          dims,     \* dynamic_dims: symbol -> extent, of a recent run
          binding,  \* the Binder's output buffers
          recency   \* the MaxPlans keys used last, latest first: history

vars == <<pc, feed, plan, entries, memo, dims, binding, recency>>

Empty == [n \in {} |-> <<>>]
NoBuffer == [shape |-> <<>>, val |-> Empty]
Merge(f, h) == [n \in DOMAIN f \cup DOMAIN h |-> IF n \in DOMAIN h THEN h[n] ELSE f[n]]
Put(f, n, s) == Merge(f, [m \in {n} |-> s])

-----------------------------------------------------------------------------
(* What a node makes of its input's shape: an elementwise operator keeps    *)
(* it, a transpose reverses it, and of a data dependent one nothing is      *)
(* known before it runs.                                                    *)
Reversed(s) == [k \in 1 .. Len(s) |-> s[Len(s) + 1 - k]]
Shaped(rule, s) == IF rule = "transpose" THEN Reversed(s) ELSE s

(* Variant: only the initializers are known before the first node.          *)
SeedDefaults(f) == Weights

(* infer_shapes: the fed shapes, hidden by the initializers', then node by  *)
(* node.                                                                    *)
Seed(f) == Merge(f, Weights)
ShapesBy(seed, known) ==
  LET shapes[i \in 0 .. Len(Nodes)] ==
        IF i = 0 THEN seed
        ELSE LET node == Nodes[i]
                 before == shapes[i - 1]
             IN IF node.rule \in known /\ node.in \in DOMAIN before
                  THEN Put(before, node.out, Shaped(node.rule, before[node.in]))
                  ELSE before
  IN shapes[Len(Nodes)]
Infer(f) == ShapesBy(Seed(f), {"elementwise", "transpose"})

(* The shapes the run's results have: it reads what is fed before it reads  *)
(* an initializer.                                                          *)
Actual(f) == ShapesBy(Merge(Weights, f), {"elementwise", "transpose", "opaque"})

(* The extents that the symbol sym stands for in inputs of these shapes.    *)
Axes(f) == {p \in (DOMAIN f \cap DOMAIN Infos) \X (1 .. 3) :
              p[2] \in DOMAIN Infos[p[1]] /\ p[2] \in DOMAIN f[p[1]]}
Extents(f, sym) == {f[p[1]][p[2]] : p \in {q \in Axes(f) : Infos[q[1]][q[2]] = <<"symbol", sym>>}}
Symbols(f) == {Infos[p[1]][p[2]][2] : p \in {q \in Axes(f) : Infos[q[1]][q[2]][1] = "symbol"}}

(* validate_input_shapes: the declared rank, the static extents, and one    *)
(* extent per symbol over all inputs.                                       *)
Valid(f) ==
  /\ \A n \in DOMAIN f \cap DOMAIN Infos : Infos[n] # <<>> => Len(f[n]) = Len(Infos[n])
  /\ \A p \in Axes(f) : Infos[p[1]][p[2]][1] = "static" => f[p[1]][p[2]] = Infos[p[1]][p[2]][2]
  /\ \A s \in Symbols(f) : Cardinality(Extents(f, s)) = 1

(* resolve_dynamic_shapes *)
Resolved(f) == [s \in Symbols(f) |-> CHOOSE e \in Extents(f, s) : TRUE]

-----------------------------------------------------------------------------
Keys(es) == {es[i].key : i \in DOMAIN es}
Without(es, k) == RemoveFirstMatch(es, LAMBDA e : e.key = k)
Upto(es, m) == SubSeq(es, 1, IF Len(es) < m THEN Len(es) ELSE m)

(* k is used: what was used since its last use is one place further back.   *)
Used(k) ==
  LET n == Len(recency)
      place == IF k \in Range(recency) THEN CHOOSE i \in 1 .. n : recency[i] = k ELSE n + 1
  IN [i \in 1 .. (IF n < place /\ place <= MaxPlans THEN place ELSE n) |->
        IF i = 1 THEN k ELSE IF i <= place THEN recency[i - 1] ELSE recency[i]]

(* Variant: a hit stays where it is.                                        *)
PromotedNever(k) == entries

(* lookup moves a hit to the front, store replaces and truncates.           *)
Promoted(k) ==
  <<CHOOSE e \in {entries[i] : i \in DOMAIN entries} : e.key = k>> \o Without(entries, k)
Stored(k, p) == Upto(<<[key |-> k, plan |-> p]>> \o Without(entries, k), MaxPlans)

Same(f, h, n) == (n \in DOMAIN f <=> n \in DOMAIN h) /\ (n \in DOMAIN f => f[n] = h[n])

(* Variant: only what is fed is compared.                                   *)
MemoMatchesFed(m, f) ==
  m # Empty /\ \A n \in DOMAIN f : n \in DOMAIN m /\ m[n] = f[n]

(* memo_matches_inputs: every declared input agrees, absent ones too, and   *)
(* so does whatever is fed.                                                 *)
MemoMatches(m, f) ==
  /\ m # Empty
  /\ \A n \in Inputs : Same(f, m, n)
  /\ \A n \in DOMAIN f : n \in DOMAIN m /\ m[n] = f[n]

-----------------------------------------------------------------------------
(* The inputs, and initializers, whose declared shape is static.            *)
StaticInputs ==
  {n \in DOMAIN Infos : Infos[n] # <<>> /\ \A k \in DOMAIN Infos[n] : Infos[n][k][1] = "static"}
Declared == [n \in StaticInputs |-> [k \in DOMAIN Infos[n] |-> Infos[n][k][2]]]

(* A session with a pool has inferred shapes when it was built, and stores  *)
(* them as a plan if as many shapes are static as there are inputs.         *)
Init ==
  /\ pc = [c \in Caller |-> "idle"]
  /\ feed = [c \in Caller |-> Empty]
  /\ plan = [c \in Caller |-> Empty]
  /\ \E pooled \in BOOLEAN :
       entries = IF pooled /\ Inputs # {} /\ Cardinality(StaticInputs) = Cardinality(Inputs)
                   THEN <<[key |-> Declared, plan |-> Infer(Declared)]>> ELSE <<>>
  /\ memo = Empty
  /\ dims = Empty
  /\ binding = [n \in Outputs |-> NoBuffer]
  /\ recency = [i \in DOMAIN entries |-> entries[i].key]

Goto(c, there) == pc' = [pc EXCEPT ![c] = there]

(* The call returns.                                                        *)
Return(c) ==
  /\ feed' = [feed EXCEPT ![c] = Empty]
  /\ plan' = [plan EXCEPT ![c] = Empty]
  /\ Goto(c, "idle")

(* IoBinding::bind_output: a buffer of any shape.                           *)
BindOutput == \E n \in Outputs, s \in Buffers :
  /\ pc[Binder] = "idle"
  /\ binding' = [binding EXCEPT ![n] = [shape |-> s, val |-> Empty]]
  /\ UNCHANGED <<pc, feed, plan, entries, memo, dims, recency>>

(* The inputs of the call, however bind_input and clear_inputs got there.   *)
Call(c) == \E f \in Feeds :
  /\ pc[c] = "idle"
  /\ feed' = [feed EXCEPT ![c] = f]
  /\ Goto(c, "called")
  /\ UNCHANGED <<plan, entries, memo, dims, binding, recency>>

Reject(c) ==
  /\ pc[c] = "called" /\ ~Valid(feed[c])
  /\ Return(c)
  /\ UNCHANGED <<entries, memo, dims, binding, recency>>

(* dynamic_dims is refreshed under its own lock.                            *)
Accept(c) ==
  /\ pc[c] = "called" /\ Valid(feed[c])
  /\ dims' = Resolved(feed[c])
  /\ Goto(c, "lookup")
  /\ UNCHANGED <<feed, plan, entries, memo, binding, recency>>

LookupHit(c) ==
  /\ pc[c] = "lookup" /\ feed[c] \in Keys(entries)
  /\ plan' = [plan EXCEPT ![c] =
       (CHOOSE e \in {entries[i] : i \in DOMAIN entries} : e.key = feed[c]).plan]
  /\ entries' = Promoted(feed[c])
  /\ recency' = Used(feed[c])
  /\ Goto(c, "refresh")
  /\ UNCHANGED <<feed, memo, dims, binding>>

LookupMiss(c) ==
  /\ pc[c] = "lookup" /\ feed[c] \notin Keys(entries)
  /\ Goto(c, "memo")
  /\ UNCHANGED <<feed, plan, entries, memo, dims, binding, recency>>

(* refresh_shape_memo *)
Refresh(c) ==
  /\ pc[c] = "refresh"
  /\ memo' = IF MemoMatches(memo, feed[c]) THEN memo ELSE plan[c]
  /\ Goto(c, "run")
  /\ UNCHANGED <<feed, plan, entries, dims, binding, recency>>

(* The memo is cloned under its lock, and stored after it is released.      *)
MemoHit(c) ==
  /\ pc[c] = "memo" /\ MemoMatches(memo, feed[c])
  /\ plan' = [plan EXCEPT ![c] = memo]
  /\ Goto(c, "keep")
  /\ UNCHANGED <<feed, entries, memo, dims, binding, recency>>

MemoMiss(c) ==
  /\ pc[c] = "memo" /\ ~MemoMatches(memo, feed[c])
  /\ plan' = [plan EXCEPT ![c] = Infer(feed[c])]
  /\ Goto(c, "store")
  /\ UNCHANGED <<feed, entries, memo, dims, binding, recency>>

Store(c) ==
  /\ pc[c] \in {"keep", "store"}
  /\ entries' = Stored(feed[c], plan[c])
  /\ recency' = Used(feed[c])
  /\ Goto(c, IF pc[c] = "keep" THEN "run" ELSE "memoize")
  /\ UNCHANGED <<feed, plan, memo, dims, binding>>

Memoize(c) ==
  /\ pc[c] = "memoize"
  /\ memo' = plan[c]
  /\ Goto(c, "run")
  /\ UNCHANGED <<feed, plan, entries, dims, binding, recency>>

-----------------------------------------------------------------------------
Elements(s) == IF Len(s) = 0 THEN 1 ELSE IF Len(s) = 1 THEN s[1] ELSE s[1] * s[2]

(* Variant: a buffer of the right size is the right buffer.                 *)
ReceiveSized(buf, tensor) ==
  IF Elements(buf.shape) = Elements(tensor.shape) THEN [buf EXCEPT !.val = tensor.val] ELSE tensor

(* A bound buffer of the same size and shape is copied into, any other is   *)
(* replaced.                                                                *)
Receive(buf, tensor) ==
  IF Elements(buf.shape) = Elements(tensor.shape) /\ buf.shape = tensor.shape
    THEN [buf EXCEPT !.val = tensor.val] ELSE tensor

Tensor(c, n) == [shape |-> Actual(feed[c])[n], val |-> feed[c]]

(* An operator runs into whatever slot the plan gave it and resizes it.     *)
Answer(c) ==
  /\ pc[c] = "run"
  /\ Outputs \subseteq DOMAIN Actual(feed[c])
  /\ binding' = IF c # Binder THEN binding
                ELSE [n \in Outputs |-> Receive(binding[n], Tensor(c, n))]
  /\ Return(c)
  /\ UNCHANGED <<entries, memo, dims, recency>>

(* An operator fails, or what an accelerator returned has not the shape the *)
(* plan says.                                                               *)
RunError(c) ==
  /\ pc[c] = "run"
  /\ Return(c)
  /\ UNCHANGED <<entries, memo, dims, binding, recency>>

Next ==
  \/ BindOutput
  \/ \E c \in Caller :
       \/ Call(c) \/ Reject(c) \/ Accept(c)
       \/ LookupHit(c) \/ LookupMiss(c) \/ Refresh(c)
       \/ MemoHit(c) \/ MemoMiss(c) \/ Store(c) \/ Memoize(c)
       \/ Answer(c) \/ RunError(c)

Spec == Init /\ [][Next]_vars

-----------------------------------------------------------------------------
Shapes == UNION {{Infer(f), Actual(f)} : f \in Feeds \cup {Declared}}
States == {"idle", "called", "lookup", "memo", "refresh", "keep", "store", "memoize", "run"}

(* Every variable holds a value of its kind; in particular a plan, the memo  *)
(* and the cached plans name a shape for every input they were made from.    *)
TypeOK ==
  /\ pc \in [Caller -> States]
  /\ \A c \in Caller : feed[c] \in Feeds \cup {Empty}
  /\ \A c \in Caller : plan[c] # Empty => DOMAIN feed[c] \subseteq DOMAIN plan[c]
  /\ \A i \in DOMAIN entries : DOMAIN entries[i].key \subseteq DOMAIN entries[i].plan
  /\ dims # Empty => dims \in {Resolved(f) : f \in {h \in Feeds : Valid(h)}}
  /\ DOMAIN binding = Outputs
  /\ Len(recency) <= MaxPlans

(* No run goes by another run's shapes: the plan a run holds, from the cache,*)
(* from the memo another run left or freshly inferred, is what infer_shapes  *)
(* makes of its own inputs, also when the memo was made from other feeds     *)
(* than the run's, and whatever runs in between (resolve_run_shapes).        *)
PlanOfItsInputs ==
  \A c \in Caller : pc[c] \in {"refresh", "keep", "store", "memoize", "run"} =>
    plan[c] = Infer(feed[c])

(* The cache is exact and keeps the right plans: one entry per key, with the *)
(* plan of that key, and its keys are the MaxPlans keys most recently hit or *)
(* stored, latest first, although a miss and the store that answers it are   *)
(* different critical sections (ShapePlanCache::lookup, store).              *)
CacheExact ==
  /\ \A i \in DOMAIN entries : entries[i].plan = Infer(entries[i].key)
  /\ [i \in DOMAIN entries |-> entries[i].key] = recency

(* What a caller finds bound is whole: the buffers filled by a call hold the *)
(* outputs of one and the same run, in that run's own shapes, whatever was   *)
(* bound before, and a call that fails fills none (run_with_binding).        *)
BindingAnswers ==
  LET filled == {n \in Outputs : binding[n].val # Empty}
  IN /\ \A n, m \in filled : binding[n].val = binding[m].val
     /\ \A n \in filled : binding[n].shape = Actual(binding[n].val)[n]
=============================================================================
