---------------------------- MODULE GraphPasses ----------------------------
(***************************************************************************)
(* The graph rewriting a session goes through when it is built: at         *)
(* OptLevel::All shape materialisation, constant folding, dead-node        *)
(* elimination, common-subexpression elimination and then the fusions of   *)
(* Fusion, in that order; less of it at the other levels.                  *)
(*                                                                         *)
(* A node record has op, attr (everything else its fingerprint looks at,   *)
(* as numbers), ins and outs (sequences of names, NoName an elided slot)   *)
(* and caps (the names its If/Loop/Scan bodies capture).  A graph record   *)
(* has nodes in file order, inputs, weights and outputs (sets of names),   *)
(* shaped, the names whose shape inference knows, and level, the OptLevel. *)
(***************************************************************************)
EXTENDS Fusion

CONSTANTS Name, Graphs,
          Given,    \* the value of every input and of every initializer
          Random,   \* NON_DETERMINISTIC_OPS
          Control   \* operators that need a registry: If, Loop, Scan

VARIABLES g,        \* the graph as loaded
          nodes,    \* what is left of its nodes
          weights,  \* the initializers and what was folded: name -> value
          stage,    \* the pass that comes next
          sweeps    \* how often constant folding has gone over the nodes

vars == <<g, nodes, weights, stage, sweeps>>

(* What really draws: Dropout hands its operand on.                         *)
Drawn == Random \ {"Dropout"}

(* What the k-th output of a node is a function of.  A random operator has  *)
(* a value of its own, and one drawn at load time is not one drawn in a run. *)
Result(node, k, env, when) ==
  LET vals == [j \in DOMAIN node.ins |-> env[node.ins[j]]]
      captured == {<<n, env[n]>> : n \in node.caps}
  IN CASE node.op \in Drawn -> <<<<node.op, k, node.outs, when>>, Widest(vals)>>
       [] node.op \notin Drawn \cup Control /\ k = 1 /\ (Len(node.outs) = 1 \/ node.op = "Dropout") ->
            Computed(node.op, node.attr, vals)
       [] OTHER -> Opaque(node.op, k, node.attr, Len(node.outs), vals, captured)

(* A name in a run: a tensor of the run, else an initializer.               *)
Seen(env, w, n) ==
  CASE n \in DOMAIN env -> env[n]
    [] n \notin DOMAIN env /\ n \in DOMAIN w -> w[n]
    [] OTHER -> NoValue

(* What node stores, by the values env of what it reads: of a name that it  *)
(* has twice, the last.                                                     *)
Stored(node, env, when) ==
  [n \in Range(node.outs) \ {NoName} |->
     Result(node, Max({k \in DOMAIN node.outs : node.outs[k] = n}), env, when)]

(* The run state env after the nodes ns have run in order, with w to read.  *)
RECURSIVE After(_, _, _)
After(env, ns, w) ==
  IF ns = <<>> THEN env
  ELSE LET read == Range(Head(ns).ins) \cup Head(ns).caps
       IN After(Stored(Head(ns), [n \in read |-> Seen(env, w, n)], "run") @@ env, Tail(ns), w)

(* What every name stands for after that.                                   *)
Environment(ns, w) ==
  LET end == After([n \in g.inputs |-> Given[n]], ns, w)
  IN [n \in Name |-> Seen(end, w, n)]

InitialWeights == [n \in g.weights |-> Given[n]]

TypeOK ==
  /\ Range(nodes) \subseteq [op : STRING, attr : Seq(Int), ins : Seq(Name \cup {NoName}),
                             outs : Seq(Name \cup {NoName}), caps : SUBSET Name]
  /\ g.weights \subseteq DOMAIN weights /\ DOMAIN weights \subseteq Name
  /\ stage \in {"shapes", "fold", "dead", "cse", "done"} \cup Range(Fusions)
  /\ sweeps \in Nat

Init ==
  /\ g \in Graphs
  /\ nodes = g.nodes
  /\ weights = InitialWeights
  /\ stage = CASE g.level = "All" -> "shapes" [] g.level = "None" -> "done" [] OTHER -> "dead"
  /\ sweeps = 0

-----------------------------------------------------------------------------
(* Variant: what is known replaces the initializers.                        *)
MaterializeOnly ==
  /\ stage = "shapes"
  /\ weights' = [n \in g.shaped |-> Environment(nodes, weights)[n]]
  /\ stage' = "fold"
  /\ UNCHANGED <<g, nodes, sweeps>>

(* materialize_shape_ops: the output of a Shape node of known shape becomes *)
(* an initializer; the node stays.                                          *)
MaterializeShapes ==
  /\ stage = "shapes"
  /\ LET known == {nodes[i].outs[1] : i \in {j \in DOMAIN nodes :
                     nodes[j].op = "Shape" /\ nodes[j].ins[1] \in g.shaped
                       /\ nodes[j].outs[1] # NoName}}
     IN weights' = [n \in DOMAIN weights \cup known |->
                      IF n \in DOMAIN weights THEN weights[n]
                      ELSE Environment(nodes, weights)[n]]
  /\ stage' = "fold"
  /\ UNCHANGED <<g, nodes, sweeps>>

(* Operators of a subgraph fail without a registry, and are kept then.      *)
Foldable(node, w) ==
  /\ node.op \notin {"Shape"} \cup Random \cup Control
  /\ Range(node.outs) \cap g.outputs = {}
  /\ \A n \in Range(node.ins) \ {NoName} : n \in DOMAIN w
  /\ Range(node.ins) \ {NoName} # {}

(* One sweep of constant_fold over ns: kept has the nodes before, and what  *)
(* they were folded to is in w for the nodes after.                         *)
RECURSIVE Swept(_, _, _)
Swept(ns, kept, w) ==
  IF ns = <<>> THEN [kept |-> kept, w |-> w]
  ELSE LET node == Head(ns)
           read == [n \in Range(node.ins) |-> Seen(Nothing, w, n)]
           found == IF Foldable(node, w) THEN Stored(node, read, "load") ELSE [n \in {NoName} |-> Failed]
       IN IF Failed \in Range(found) THEN Swept(Tail(ns), Append(kept, node), w)
          ELSE Swept(Tail(ns), kept, found @@ w)

Folded == Swept(nodes, <<>>, weights)

(* Variant: folded_any is not reset before a sweep.                         *)
FoldRoundSticky ==
  /\ stage = "fold"
  /\ \E folded \in {Folded} :
       /\ nodes' = folded.kept
       /\ weights' = folded.w
       /\ stage' = IF Len(folded.kept) = Len(g.nodes) THEN "dead" ELSE "fold"
  /\ sweeps' = sweeps + 1
  /\ UNCHANGED g

FoldRound ==
  /\ stage = "fold"
  /\ \E folded \in {Folded} :
       /\ nodes' = folded.kept
       /\ weights' = folded.w
       /\ stage' = IF folded.kept = nodes THEN "dead" ELSE "fold"
  /\ sweeps' = sweeps + 1
  /\ UNCHANGED g

-----------------------------------------------------------------------------
(* Variant: every node is live.                                             *)
LiveAlways(node, live) == TRUE

Live(node, live) == Range(node.outs) \cap live # {}

(* dead_node_elimination: one pass from the last node to the first.         *)
DeadNodes ==
  LET back(node, acc) ==
        IF Live(node, acc.live)
          THEN [live |-> acc.live \cup (Range(node.ins) \ {NoName}), kept |-> <<node>> \o acc.kept]
          ELSE acc
  IN FoldRight(back, nodes, [live |-> g.outputs, kept |-> <<>>])

EliminateDead ==
  /\ stage = "dead"
  /\ nodes' = DeadNodes.kept
  /\ stage' = CASE g.level = "All" -> "cse" [] g.level = "Basic" -> "done" [] OTHER -> Fusions[1]
  /\ UNCHANGED <<g, weights, sweeps>>

-----------------------------------------------------------------------------
(* Variant: operands are sorted whatever the operator.                      *)
FingerprintUnordered(node) ==
  <<node.op, Range(node.ins), Len(node.outs), node.attr, node.caps>>

(* node_fingerprint: operands in order, unless the operator commutes.       *)
Fingerprint(node) ==
  <<node.op,
    IF node.op \in Commutative
      THEN {<<n, Cardinality({j \in DOMAIN node.ins : node.ins[j] = n})>> : n \in Range(node.ins)}
      ELSE node.ins,
    Len(node.outs), node.attr, node.caps>>

(* Node i is removed: an earlier node has its fingerprint, and no output of *)
(* it is a graph output.  First(i) is the one that stays for it.            *)
First(i) == CHOOSE j \in 1 .. i : /\ Fingerprint(nodes[j]) = Fingerprint(nodes[i])
                                  /\ \A k \in 1 .. j - 1 : Fingerprint(nodes[k]) # Fingerprint(nodes[j])

Duplicate(i) ==
  /\ nodes[i].op \notin Random
  /\ First(i) # i
  /\ Range(nodes[i].outs) \cap g.outputs = {}

(* The name that stands for n: an elided output stands for none.            *)
Redirect(n) ==
  LET merged == {i \in DOMAIN nodes : /\ Duplicate(i) /\ n \in Range(nodes[i].outs)
                                      /\ n # NoName}
      i == CHOOSE j \in merged : TRUE
      k == CHOOSE l \in DOMAIN nodes[i].outs : nodes[i].outs[l] = n
  IN IF merged # {} /\ nodes[First(i)].outs[k] # NoName THEN nodes[First(i)].outs[k] ELSE n

(* The inputs of what stays are redirected; what its bodies capture is not. *)
EliminateCommon ==
  /\ stage = "cse"
  /\ LET stay == [i \in DOMAIN nodes |-> IF Duplicate(i) THEN <<>> ELSE
                   <<[nodes[i] EXCEPT !.ins = [k \in DOMAIN @ |-> Redirect(@[k])]]>>]
     IN nodes' = FlattenSeq(stay)
  /\ stage' = Fusions[1]
  /\ UNCHANGED <<g, weights, sweeps>>

-----------------------------------------------------------------------------
(* The shapes that inference knows of the graph.                            *)
KnownShapes ==
  LET filed == Environment(g.nodes, InitialWeights)
  IN [n \in g.shaped |-> Dims(filed[n])]

Fuse ==
  /\ stage \in Range(Fusions)
  /\ \E s \in {Walk(stage, nodes, weights, g.outputs, KnownShapes)} :
       /\ nodes' = Rebuilt(s)
       /\ weights' = s.w
  /\ \E k \in DOMAIN Fusions :
       /\ Fusions[k] = stage
       /\ stage' = IF k = Len(Fusions) THEN "done" ELSE Fusions[k + 1]
  /\ UNCHANGED <<g, sweeps>>

Next == MaterializeShapes \/ FoldRound \/ EliminateDead \/ EliminateCommon \/ Fuse

Spec == Init /\ [][Next]_vars

-----------------------------------------------------------------------------
(* Rewriting never changes what the session answers: at every stage the     *)
(* declared outputs have the values the graph had as loaded, and what a run  *)
(* draws is not drawn once and for all.  A fused node may stand before the  *)
(* node that makes its residual, which a second round settles.              *)
Equivalent ==
  \E before \in {Environment(g.nodes \o g.nodes, InitialWeights)},
     now \in {Environment(nodes \o nodes, weights)} :
    \A o \in g.outputs : now[o] = before[o]

(* What is left after dead-node elimination serves a declared output, and   *)
(* merging equal nodes strands nothing; fusion may strand what made the     *)
(* shape of a Reshape it takes away.                                        *)
NoDeadNodes ==
  stage \in {"cse", Fusions[1]} =>
    \A i \in DOMAIN nodes :
      \/ Range(nodes[i].outs) \cap g.outputs # {}
      \/ \E j \in i + 1 .. Len(nodes) : Range(nodes[i].outs) \cap (Range(nodes[j].ins) \ {NoName}) # {}

(* Constant folding comes to rest: every sweep that is followed by another  *)
(* has taken a node away.                                                   *)
FoldingEnds == stage = "fold" => sweeps <= Len(g.nodes) - Len(nodes)

(* The passes take away what is dead, and nothing else.                     *)
PassesSound == Equivalent /\ NoDeadNodes
=============================================================================
