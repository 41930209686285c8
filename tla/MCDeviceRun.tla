----------------------------- MODULE MCDeviceRun -----------------------------
(***************************************************************************)
(* Small sessions for DeviceRun: graphs whose values change sides, each    *)
(* with the operators' binding rules of one of the two resident backends.  *)
(***************************************************************************)
EXTENDS DeviceRun

MCName == {"x", "a", "b", "c", "y", "w", "k"}
MCNoName == ""

(* Operators by the input slots they bind, need and serve from the cache.   *)
Op(accepts, needs, keyed) == [accepts |-> accepts, needs |-> needs, keyed |-> keyed]
Conv == Op({1}, {1, 2}, {2, 3})
Unary == Op({1}, {1}, {})
Binary == Op({1, 2}, {1, 2}, {})
MatMul == Op({1}, {1, 2}, {})
Reshape == Op({1}, {1, 2}, {})
HostOnly == Op({}, {1}, {})

Session(strict, chain, ops, ins, outs) ==
  [n |-> Len(ins), ins |-> ins, outs |-> outs, caps |-> [i \in DOMAIN ins |-> {}],
   weights |-> {"w", "k"}, inputs |-> <<"x">>, outputs |-> <<"y">>,
   inplace |-> {}, slots |-> {}, shaped |-> {}, arity |-> [i \in DOMAIN outs |-> Len(outs[i])],
   pooled |-> FALSE, strict |-> strict, resident |-> TRUE,
   chain |-> [i \in DOMAIN ins |-> chain],
   accepts |-> [i \in DOMAIN ins |-> ops[i].accepts],
   needs |-> [i \in DOMAIN ins |-> ops[i].needs],
   keyed |-> [i \in DOMAIN ins |-> ops[i].keyed],
   views |-> {}, placed |-> {i \in DOMAIN ins : ops[i] # HostOnly},
   promotes |-> {i \in DOMAIN ins : ops[i] = Binary}]

Async(ops, ins, outs) == Session(TRUE, <<"async">>, ops, ins, outs)
Cuda(ops, ins, outs) == Session(FALSE, <<"cuda">>, ops, ins, outs)

(* A convolution's result stays; an initializer is promoted beside it, and   *)
(* read again later.                                                        *)
Promoted == Async(<<Conv, Binary, Binary>>,
                  << <<"x", "w">>, <<"a", "k">>, <<"b", "k">> >>,
                  << <<"a">>, <<"b">>, <<"y">> >>)

(* The name of a cached initializer is written by a node and convolved with. *)
Hidden == Async(<<Conv, Unary, Conv>>,
                << <<"x", "w">>, <<"a">>, <<"x", "w">> >>,
                << <<"a">>, <<"w">>, <<"y">> >>)

(* A consumer that binds nothing, and a node with two outputs, keep values   *)
(* off the device under the strict policy.                                  *)
Split == Async(<<Conv, HostOnly, Binary>>,
               << <<"x", "w">>, <<"a">>, <<"b", "c">> >>,
               << <<"a">>, <<"b", "c">>, <<"y">> >>)

(* A body captures a, which is then kept off the device, and b is not.       *)
Captured == [Cuda(<<Unary, Unary, HostOnly, Binary>>,
                  << <<"x">>, <<"a">>, <<"x">>, <<"b", "c">> >>,
                  << <<"a">>, <<"b">>, <<"c">>, <<"y">> >>)
               EXCEPT !.caps[3] = {"a"}]

(* A view shares its origin's buffer, outlives it, and is needed on the host *)
(* by a product that binds its first operand only.                          *)
Views == [Cuda(<<Conv, Reshape, Unary, MatMul>>,
               << <<"x", "w">>, <<"a", "k">>, <<"b">>, <<"c", "b">> >>,
               << <<"a">>, <<"b">>, <<"c">>, <<"y">> >>)
            EXCEPT !.views = {2}]

(* The same with every accelerator behind CUDA, and a provider list that     *)
(* reaches none for the second node.                                        *)
Chained == [Views EXCEPT !.chain = << <<"cuda", "directml", "wgpu">>, <<>>,
                                      <<"cuda", "wgpu">>, <<"directml">> >>]

NotResident == [Promoted EXCEPT !.resident = FALSE]

MCSessions == {Promoted, Hidden, Split, Captured, Views, Chained, NotResident}

(* A bias computed on the device, because a later node can bind it there.    *)
Bias == Cuda(<<Unary, Conv, Binary>>,
             << <<"x">>, <<"x", "w", "a">>, <<"a", "b">> >>,
             << <<"a">>, <<"b">>, <<"y">> >>)
BiasSessions == {Bias}

(* The graphs are sorted, and all but the last are unambiguous: Bias is what *)
(* NoneOverlooked excludes.                                                 *)
ASSUME MCSessionsAssumption ==
  \A s \in MCSessions \cup BiasSessions :
    UsedLater(s) /\ (Unambiguous(s) <=> s # Bias)
=============================================================================
