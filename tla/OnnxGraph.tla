----------------------------- MODULE OnnxGraph -----------------------------
(***************************************************************************)
(* The graph a Session executes, as far as scheduling and memory can tell  *)
(* graphs apart.  A session record g has                                   *)
(*   n         number of nodes; sorted_nodes[i - 1] is node i              *)
(*   ins       node -> sequence of input names, NoName an elided one       *)
(*   outs      node -> sequence of output names, NoName an elided one      *)
(*   caps      node -> names its If/Loop/Scan bodies capture               *)
(*   weights   names of the initializers                                   *)
(*   inputs    sequence of the names the caller feeds                      *)
(*   outputs   sequence of the declared graph outputs                      *)
(*   inplace   nodes whose operator supports_inplace()                     *)
(*   slots     nodes whose operator supports_output_slots()                *)
(*   shaped    names whose shape this run resolved                         *)
(*   arity     node -> number of tensors its execute() returns             *)
(*   batches   the schedule: a sequence of [nodes, checked] records        *)
(*   pooled    whether the session has a memory pool                       *)
(***************************************************************************)
EXTENDS Naturals, Sequences, FiniteSets

CONSTANTS Name,    \* tensor names
          NoName   \* the empty name "" of an elided optional slot

ASSUME NoNameAssumption == NoName \notin Name

Nodes(g) == 1 .. g.n

OutputSet(g) == {g.outputs[k] : k \in DOMAIN g.outputs}

(* The positions of the outputs node i does not elide.                      *)
Named(g, i) == {k \in DOMAIN g.outs[i] : g.outs[i][k] # NoName}

(* Symbolic tensor values: what was fed, what was loaded, what the k-th     *)
(* result of node i is a function of, and no tensor at all, which an        *)
(* operator sees for an elided input and for a name nothing produced.       *)
NoValue == <<"none">>
InputValue(r, n) == <<"input", r, n>>
WeightValue(n) == <<"weight", n>>
NodeValue(i, k, args, captured) == <<"op", i, k, args, captured>>

(* Where node i consumes n: its input positions, and 0 for a capture.  A    *)
(* name read twice by one node is two uses, a captured name is one.         *)
Uses(g, i, n) ==
  {<<i, k>> : k \in {j \in DOMAIN g.ins[i] : g.ins[i][j] = n}}
    \cup (IF n \in g.caps[i] THEN {<<i, 0>>} ELSE {})

UsesBy(g, I, n) == UNION {Uses(g, i, n) : i \in I}

OutputRefs(g, n) == Cardinality({k \in DOMAIN g.outputs : g.outputs[k] = n})

(* StaticRunPlan's seed: one per use of a name that is no initializer, and  *)
(* one per declaration as a graph output.                                   *)
BaseRefCounts(g) ==
  [n \in Name |-> OutputRefs(g, n)
     + IF n \in g.weights THEN 0 ELSE Cardinality(UsesBy(g, Nodes(g), n))]

(* The nodes of the schedule, by batch and position.                        *)
Positions(g) == {bp \in (DOMAIN g.batches) \X (1 .. g.n) :
                   bp[2] \in DOMAIN g.batches[bp[1]].nodes}
NodeAt(g, bp) == g.batches[bp[1]].nodes[bp[2]]

(* A graph is well typed; its schedule holds every node exactly once, and   *)
(* no batch is empty.                                                       *)
IsGraph(g) ==
  /\ g.n \in Nat
  /\ g.ins \in [Nodes(g) -> Seq(Name \cup {NoName})]
  /\ g.outs \in [Nodes(g) -> Seq(Name \cup {NoName})]
  /\ g.caps \in [Nodes(g) -> SUBSET Name]
  /\ g.weights \in SUBSET Name
  /\ g.inputs \in Seq(Name)
  /\ g.outputs \in Seq(Name)
  /\ g.inplace \in SUBSET Nodes(g)
  /\ g.slots \in SUBSET Nodes(g)
  /\ g.shaped \in SUBSET Name
  /\ g.arity \in [Nodes(g) -> Nat]
  /\ g.pooled \in BOOLEAN

IsSchedule(g) ==
  /\ g.batches \in Seq([nodes : Seq(Nodes(g)), checked : BOOLEAN])
  /\ \A b \in DOMAIN g.batches : Len(g.batches[b].nodes) \in 1 .. g.n
  /\ \A i \in Nodes(g) : \E p \in Positions(g) : NodeAt(g, p) = i
  /\ \A p, q \in Positions(g) : NodeAt(g, p) = NodeAt(g, q) => p = q

IsSession(g) == IsGraph(g) /\ IsSchedule(g)

(* No batch uses a name that a later one stores.                            *)
ProducedFirst(s) == \A p, q \in Positions(s) : \A n \in Name :
  /\ \E k \in DOMAIN s.outs[NodeAt(s, p)] : s.outs[NodeAt(s, p)][k] = n
  /\ Uses(s, NodeAt(s, q), n) # {}
  => p[1] <= q[1]

(* The results of node i that are stored under n.                           *)
Results(s, i, n) == {k \in DOMAIN s.outs[i] : s.outs[i][k] = n /\ k <= s.arity[i]}

(* Of two nodes that share a name at least one of them stores, the schedule *)
(* keeps the sorted order: what is stored is there before the batch of a    *)
(* later user, what a node uses is not stored again before its batch, and   *)
(* of two that store it the later one is written last.                      *)
KeepsOrder(s) == \A p, q \in Positions(s) : \A n \in Name :
  LET i == NodeAt(s, p)
      j == NodeAt(s, q)
  IN i < j =>
       /\ Results(s, i, n) # {} /\ Uses(s, j, n) # {} => p[1] < q[1]
       /\ Uses(s, i, n) # {} /\ Results(s, j, n) # {} => p[1] <= q[1]
       /\ Results(s, i, n) # {} /\ Results(s, j, n) # {}
            => p[1] < q[1] \/ (p[1] = q[1] /\ p[2] < q[2])
=============================================================================
