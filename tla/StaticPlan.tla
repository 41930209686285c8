----------------------------- MODULE StaticPlan -----------------------------
(***************************************************************************)
(* StaticRunPlan's schedule and the order run_sequential_inner and         *)
(* run_parallel_inner walk it in, as batches for RunEngine.  Besides the   *)
(* fields OnnxGraph lists, a graph here has                                *)
(*   control   nodes that carry a subgraph attribute (If, Loop, Scan)      *)
(*   cost      node -> critical-path cost                                  *)
(***************************************************************************)
EXTENDS OnnxGraph, SequencesExt

Predecessors(g, i) ==
  ({g.ins[i][k] : k \in DOMAIN g.ins[i]} \cup g.caps[i]) \ (g.weights \cup {NoName})

Writers(g, n) == {j \in Nodes(g) : \E k \in DOMAIN g.outs[j] : g.outs[j][k] = n}

MaxOf(S) == CHOOSE m \in S : \A x \in S : x <= m

(* compute_node_depths: one past the deepest predecessor written so far.    *)
NodeDepths(g) ==
  LET depth[i \in Nodes(g)] ==
        LET earlier(n) == {j \in Writers(g, n) : j < i}
            deps == {depth[MaxOf(earlier(n))] :
                       n \in {m \in Predecessors(g, i) : earlier(m) # {}}}
        IN IF deps = {} THEN 0 ELSE MaxOf(deps) + 1
  IN depth

(* group_by_depth, each group sorted heaviest first by a stable sort.       *)
DepthGroups(g) ==
  LET depth == NodeDepths(g)
      heavier(i, j) == g.cost[i] > g.cost[j] \/ (g.cost[i] = g.cost[j] /\ i < j)
      group(d) == SetToSortSeq({i \in Nodes(g) : depth[i] = d}, heavier)
  IN IF g.n = 0 THEN <<>>
     ELSE [k \in 1 .. MaxOf({depth[i] : i \in Nodes(g)}) + 1 |-> group(k - 1)]

Serially(nodes) == [k \in DOMAIN nodes |-> [nodes |-> <<nodes[k]>>, checked |-> FALSE]]

SequentialBatches(g) == Serially([i \in Nodes(g) |-> i])

(* A level of one node is dispatched serially.  In a wider one the          *)
(* control-flow nodes go first, serially, and the others run together.      *)
ParallelBatches(g) ==
  LET ofGroup(group) ==
        IF Len(group) = 1 THEN Serially(group)
        ELSE LET isControl(i) == i \in g.control
                 isOther(i) == i \notin g.control
                 others == SelectSeq(group, isOther)
             IN Serially(SelectSeq(group, isControl))
                  \o (IF others = <<>> THEN <<>> ELSE <<[nodes |-> others, checked |-> TRUE]>>)
      groups == DepthGroups(g)
  IN FlattenSeq([k \in DOMAIN groups |-> ofGroup(groups[k])])

(* g with the schedule of its session, without accelerators.                *)
Planned(g, parallel) ==
  [f \in DOMAIN g \cup {"batches"} |->
     IF f = "batches" THEN IF parallel THEN ParallelBatches(g) ELSE SequentialBatches(g)
     ELSE g[f]]
=============================================================================
