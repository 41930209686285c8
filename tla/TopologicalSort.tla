-------------------------- MODULE TopologicalSort --------------------------
(***************************************************************************)
(* Graph::topological_sort, which fixes the order a session runs its nodes *)
(* in: Kahn's algorithm over the inputs that are not known beforehand, and *)
(* an append of whatever it could not place.                               *)
(*                                                                         *)
(* A graph record has n, ins and outs (node -> sequence of names, NoName   *)
(* an elided slot) and known (the initializers and the inputs of the       *)
(* graph).                                                                 *)
(***************************************************************************)
EXTENDS Naturals, SequencesExt

CONSTANTS Name, NoName, Graphs

VARIABLES g,         \* the graph
          inDegree,  \* inDegree[i]: inputs of node i not yet produced
          queue,     \* nodes with nothing left to wait for
          order,     \* the nodes placed so far
          placed     \* how many of them the queue placed: n + 1 before the append

vars == <<g, inDegree, queue, order, placed>>

Nodes == 1 .. g.n

(* A later definition of a name replaces an earlier one in the map.         *)
IsProducer(j, n) ==
  n \in Range(g.outs[j]) /\ \A k \in j + 1 .. g.n : n \notin Range(g.outs[k])
Producer(n) == CHOOSE j \in Nodes : IsProducer(j, n)

(* The k-th input of node i is an edge of the graph to sort.                *)
WaitsFor(i, k) ==
  /\ g.ins[i][k] # NoName
  /\ g.ins[i][k] \notin g.known
  /\ \E j \in Nodes : IsProducer(j, g.ins[i][k])

Waiting(i) == {k \in DOMAIN g.ins[i] : WaitsFor(i, k)}
From(i, j) == {k \in Waiting(i) : Producer(g.ins[i][k]) = j}

Ascending(S) == SetToSortSeq(S, <)

TypeOK ==
  /\ inDegree \in [Nodes -> Nat]
  /\ queue \in Seq(Nodes)
  /\ order \in Seq(Nodes) /\ Len(order) <= g.n
  /\ placed \in 0 .. g.n + 1

InDegrees == [i \in Nodes |-> Cardinality(Waiting(i))]
Unplaced == g.n + 1
FirstQueue == Ascending({i \in Nodes : InDegrees[i] = 0})

Init ==
  /\ g \in Graphs
  /\ inDegree = InDegrees
  /\ queue = FirstQueue
  /\ order = <<>>
  /\ placed = Unplaced

(* Variant: dependents holds a node once per producer, not once per input.  *)
LessOnce(i, j) == IF From(i, j) = {} THEN inDegree[i] ELSE inDegree[i] - 1

(* What node i waits for once node j is placed.                             *)
Less(i, j) == inDegree[i] - Cardinality(From(i, j))

(* Variants: a dependent joins the queue whatever else it waits for; every  *)
(* node that waits for nothing joins it; only one dependent does.           *)
ReadyAfterAny(j) == {i \in Nodes : From(i, j) # {} /\ i \notin Range(queue) \cup Range(order)}
ReadyAfterZero(j) == {i \in Nodes : Less(i, j) = 0}
ReadyAfterOne(j) ==
  LET S == {i \in Nodes : From(i, j) # {} /\ Less(i, j) = 0}
  IN {i \in S : \A k \in S : i <= k}

ReadyAfter(j) == {i \in Nodes : From(i, j) # {} /\ Less(i, j) = 0}

Pop ==
  /\ queue # <<>>
  /\ order' = Append(order, Head(queue))
  /\ inDegree' = [i \in Nodes |-> Less(i, Head(queue))]
  /\ queue' = Tail(queue) \o Ascending(ReadyAfter(Head(queue)))
  /\ UNCHANGED <<g, placed>>

Rest == Nodes \ Range(order)

(* The loop is over: cycles go in the order of the file.                    *)
AppendRest ==
  /\ queue = <<>>
  /\ placed = Unplaced
  /\ placed' = Len(order)
  /\ order' = order \o Ascending(Rest)
  /\ UNCHANGED <<g, inDegree, queue>>

Next == Pop \/ AppendRest

Spec == Init /\ [][Next]_vars

-----------------------------------------------------------------------------
Sorted == placed <= g.n

(* The count of a node that waits is that of its inputs whose producers are *)
(* still to come; with it the subtraction never saturates.                  *)
InDegreeExact ==
  \A i \in Nodes \ Range(order) :
    inDegree[i] = Cardinality({k \in Waiting(i) : Producer(g.ins[i][k]) \notin Range(order)})

(* No node runs before a node it takes an input from, unless the append put *)
(* it there.                                                                *)
ProducersFirst ==
  \A p \in DOMAIN order : p <= placed =>
    \A k \in Waiting(order[p]) : \E q \in 1 .. p - 1 : order[q] = Producer(g.ins[order[p]][k])

(* Every node runs exactly once, whatever cycles or doubly defined names    *)
(* the graph has.                                                           *)
EachOnce ==
  /\ \A p, q \in DOMAIN order : order[p] = order[q] => p = q
  /\ Sorted => Range(order) = Nodes

(* Only a node on a cycle, or behind one, is appended: it takes an input    *)
(* from another that is appended too.                                       *)
AppendedWaits ==
  Sorted => \A p \in placed + 1 .. Len(order) :
              \E k \in Waiting(order[p]) :
                \E q \in placed + 1 .. Len(order) : order[q] = Producer(g.ins[order[p]][k])
=============================================================================
