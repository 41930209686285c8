------------------------------ MODULE Loading ------------------------------
(***************************************************************************)
(* build_from_graph, from the parsed graph to the order its session runs   *)
(* the nodes in: the passes of GraphPasses and then the sort, which takes  *)
(* what the passes left, with the initializers they added as known names.  *)
(***************************************************************************)
EXTENDS GraphPasses

VARIABLES sorting,  \* the passes are over
          inDegree, queue, order, placed  \* those of TopologicalSort

sortVars == <<inDegree, queue, order, placed>>
loadVars == <<g, nodes, weights, stage, sweeps, sorting, inDegree, queue, order, placed>>

(* The graph to sort.                                                       *)
OptGraph ==
  [n |-> Len(nodes), ins |-> [i \in DOMAIN nodes |-> nodes[i].ins],
   outs |-> [i \in DOMAIN nodes |-> nodes[i].outs],
   known |-> g.inputs \cup DOMAIN weights]

Sort == INSTANCE TopologicalSort WITH g <- OptGraph, Graphs <- {}

LoadInit ==
  /\ Init
  /\ sorting = FALSE
  /\ inDegree = <<>> /\ queue = <<>> /\ order = <<>> /\ placed = Len(g.nodes) + 1

Optimize == Next /\ UNCHANGED <<sorting, sortVars>>

BeginSort ==
  /\ stage = "done" /\ ~sorting
  /\ sorting' = TRUE
  /\ inDegree' = Sort!InDegrees
  /\ queue' = Sort!FirstQueue
  /\ order' = <<>>
  /\ placed' = Sort!Unplaced
  /\ UNCHANGED vars

SortOn == sorting /\ UNCHANGED <<vars, sorting>> /\ (Sort!Pop \/ Sort!AppendRest)

(* The session is built.                                                    *)
Ready == sorting /\ Sort!Sorted /\ UNCHANGED loadVars

LoadNext == Optimize \/ BeginSort \/ SortOn \/ Ready

LoadSpec == LoadInit /\ [][LoadNext]_loadVars

-----------------------------------------------------------------------------
(* Everything is in its place.                                              *)
TypesOK == TypeOK /\ sorting \in BOOLEAN /\ (sorting => Sort!TypeOK)

Loaded == sorting /\ Sort!Sorted
sorted_nodes == [p \in DOMAIN order |-> nodes[order[p]]]

(* No name has two origins, and a file that does not list nodes after what  *)
(* they read, as dead-node elimination expects, declares every output.      *)
Produced(i) == Range(g.nodes[i].outs) \ {NoName}
Read(i) == (Range(g.nodes[i].ins) \ {NoName}) \cup g.nodes[i].caps
WellFormed ==
  /\ \A i \in DOMAIN g.nodes :
       /\ Produced(i) \cap (g.inputs \cup g.weights) = {}
       /\ \A j \in DOMAIN g.nodes \ {i} : Produced(i) \cap Produced(j) = {}
  /\ \/ \A i \in DOMAIN g.nodes : \A j \in i .. Len(g.nodes) : Produced(j) \cap Read(i) = {}
     \/ \A i \in DOMAIN g.nodes : Produced(i) \subseteq g.outputs

(* From file to session nothing is lost: the nodes in the order the sort    *)
(* found, over the initializers the passes left, answer what the dataflow   *)
(* of an acyclic file denotes (which one round per node settles).           *)
AnswersAsFiled ==
  Loaded /\ placed = Len(order) /\ WellFormed =>
    \E filed \in {Environment(FlattenSeq([k \in DOMAIN g.nodes |-> g.nodes]), InitialWeights)},
       built \in {Environment(sorted_nodes, weights)} :
      \A o \in g.outputs : built[o] = filed[o]

(* The order is what the scheduler relies on: counts of unplaced producers  *)
(* never saturate, no node runs before a producer it waits for, every node  *)
(* the passes left runs exactly once, and only nodes on a cycle, or behind  *)
(* one, are left to the append.                                             *)
OrderSound ==
  sorting => Sort!InDegreeExact /\ Sort!ProducersFirst /\ Sort!EachOnce /\ Sort!AppendedWaits

(* Building a session ends: as long as constant folding goes on it takes    *)
(* nodes away, and as long as the sort goes on it places nodes; nothing but *)
(* a session that is built is at rest.                                      *)
LoadEnds == FoldingEnds /\ (sorting => Len(order) + Len(queue) <= Len(nodes))

(* scheduling.rs: "Captures are real data dependencies even though they     *)
(* appear nowhere in `node.inputs`": what a body captures is there when its *)
(* node runs.                                                               *)
CapturesFirst ==
  Loaded => \A p \in DOMAIN order :
    nodes[order[p]].caps \subseteq
      g.inputs \cup DOMAIN weights \cup UNION {Range(nodes[order[q]].outs) : q \in 1 .. p - 1}

(* functions.rs: Dropouts "are removed and their consumers re-pointed at    *)
(* the Dropout's data input", and of a pair of Transposes or Reshapes "both *)
(* nodes are removed and consumers are re-pointed at the original input":   *)
(* what a node of the session reads is there to be read.                    *)
ConsumersRepointed ==
  Loaded => \A i \in DOMAIN nodes : Range(nodes[i].ins) \ {NoName} \subseteq
              g.inputs \cup DOMAIN weights \cup UNION {Range(nodes[j].outs) : j \in DOMAIN nodes}
=============================================================================
