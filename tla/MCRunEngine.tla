----------------------------- MODULE MCRunEngine -----------------------------
(***************************************************************************)
(* Small sessions for RunEngine, each planned by StaticPlan, and each made *)
(* for a hazard of the run loop.  Nodes 1 .. n are in topological order.   *)
(***************************************************************************)
EXTENDS RunEngine

Plan == INSTANCE StaticPlan

MCName == {"x", "k", "a", "b", "c", "y", "w"}
MCNoName == ""

Graph(ins, outs, caps, inplace, slots, control, outputs) ==
  [n |-> Len(ins), ins |-> ins, outs |-> outs, caps |-> caps, weights |-> {"w"},
   inputs |-> <<"x", "k">>, outputs |-> outputs, inplace |-> inplace, slots |-> slots,
   shaped |-> MCName, arity |-> [i \in DOMAIN outs |-> Len(outs[i])], pooled |-> TRUE,
   control |-> control, cost |-> [i \in DOMAIN ins |-> 1]]

(* A chain through every path: slots, in place, a name read twice by one    *)
(* node, in place again; the input k is never read.                         *)
Chain == Graph(<< <<"x", "w">>, <<"a">>, <<"b", "b">>, <<"c">> >>,
               << <<"a">>, <<"b">>, <<"c">>, <<"y">> >>,
               [i \in 1 .. 4 |-> {}], {2, 3, 4}, {1, 3}, {}, <<"y">>)

(* Two siblings of one level read a: neither may take it over.  Then a join *)
(* that may overwrite its first input, heavier sibling first.               *)
Diamond == [Graph(<< <<"x">>, <<"a">>, <<"a", "k">>, <<"b", "c">> >>,
                  << <<"a">>, <<"b">>, <<"c">>, <<"y">> >>,
                  [i \in 1 .. 4 |-> {}], {2, 3, 4}, {1, 3}, {}, <<"y">>)
              EXCEPT !.cost = <<1, 1, 2, 1>>]

(* An If captures a, which a sibling before it would like to overwrite; its *)
(* condition is an input.                                                   *)
Capture == Graph(<< <<"x">>, <<"a">>, <<"k">>, <<"b", "c">> >>,
                 << <<"a">>, <<"b">>, <<"c">>, <<"y">> >>,
                 << {}, {}, {"a", "w"}, {} >>, {1, 2, 4}, {2}, {3}, <<"y">>)

(* An elided output before one that is read, an intermediate that is also a *)
(* graph output and a candidate for in-place, and an initializer declared   *)
(* as an output.                                                            *)
Outputs == Graph(<< <<"x">>, <<"a", "">>, <<"a", "c">> >>,
                 << <<"a", "", "c">>, <<"b">>, <<"y">> >>,
                 [i \in 1 .. 3 |-> {}], {1, 2, 3}, {1, 2}, {}, <<"y", "a", "w">>)

(* A fed name that a node writes again: the fed tensor is displaced; and a  *)
(* dead output.                                                             *)
Rewrite == Graph(<< <<"x">>, <<"x", "k">>, <<"a", "b">> >>,
                 << <<"a">>, <<"b", "k">>, <<"y", "c">> >>,
                 [i \in 1 .. 3 |-> {}], {2, 3}, {1}, {}, <<"y">>)

(* The optional second output, declared as a graph output, is one the       *)
(* operator does not return.                                                *)
Short == [Graph(<< <<"x">>, <<"a">> >>, << <<"a">>, <<"y", "b">> >>,
                [i \in 1 .. 2 |-> {}], {}, {1}, {}, <<"y", "b">>)
            EXCEPT !.arity = <<1, 1>>, !.shaped = {"x", "k", "a"}]

(* The caller does not feed k, and a node written by a slot operator has an  *)
(* output whose shape is unknown.                                           *)
Unfed == [Diamond EXCEPT !.inputs = <<"x">>, !.outs[1] = <<"a", "w">>, !.arity[1] = 2,
                         !.weights = {}, !.shaped = MCName \ {"w"}]

(* A node that declares a name twice: the later result displaces the first. *)
Twice == Graph(<< <<"x">>, <<"a">> >>, << <<"a", "a">>, <<"y">> >>,
               [i \in 1 .. 2 |-> {}], {2}, {1}, {}, <<"y">>)

Unpooled == [Plan!Planned(Diamond, TRUE) EXCEPT !.pooled = FALSE]

SequentialSessions == {Plan!Planned(h, FALSE) : h \in {Chain, Capture, Outputs, Rewrite, Short, Twice}}
ParallelSessions == {Plan!Planned(h, TRUE) : h \in {Diamond, Capture, Outputs, Rewrite, Unfed}}
MCSessions == SequentialSessions \cup ParallelSessions \cup {Unpooled}

ASSUME MCSessionsAssumption == \A s \in MCSessions : ProducedFirst(s) /\ KeepsOrder(s)
=============================================================================
