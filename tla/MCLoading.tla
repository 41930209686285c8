----------------------------- MODULE MCLoading -----------------------------
(***************************************************************************)
(* Three families of graphs.  The first, of three nodes, is for the passes *)
(* before fusion: over one input and one initializer, built from operators *)
(* that the passes tell apart.  The second, of three nodes too, is for the *)
(* sort: every combination of up to two inputs each, cyclic or not, in any *)
(* order of the file, with names that may be defined twice or be known     *)
(* beforehand.  The third is for fusion: what each pass looks for, and     *)
(* what it must leave alone, with an intermediate that is exported, or     *)
(* read once more, or neither.                                             *)
(***************************************************************************)
EXTENDS Loading

F == <<"f1", "f2", "f3", "f4", "f5", "f6", "f7", "f8", "f9">>
MCSpare == {"n1", "n2", "n3", "n4", "n5"}
MCNone == ""

Symbols == [x |-> <<2, 3>>, z |-> <<1, 2, 3>>, u |-> <<1, 3>>, im |-> <<1, 2, 2, 2>>, a |-> <<2, 3>>,
            w |-> <<2, 3>>, m32 |-> <<3, 2>>, v2 |-> <<2>>, v3 |-> <<3>>, m22 |-> <<2, 2>>,
            k |-> <<2, 2, 1, 1>>, b1 |-> <<2>>, b2 |-> <<2>>, b3 |-> <<2>>, b4 |-> <<2>>]
Literals == [zero |-> <<0>>, one |-> <<1>>, two |-> <<2>>, six |-> <<6>>, last |-> <<-1>>,
             picks |-> <<1, 0, 1>>, r32 |-> <<3, 2>>, r23 |-> <<2, 3>>, r0 |-> <<0, -1>>]
MCGiven == [n \in DOMAIN Symbols |-> <<<<n>>, Symbols[n]>>]
             @@ [n \in DOMAIN Literals |-> Lit(Literals[n], <<Len(Literals[n])>>)]
             @@ "grid" :> Lit(<<1, 0>>, <<1, 2>>)
FusionInputs == {"x", "z", "u", "im"}
FusionWeights == DOMAIN MCGiven \ (FusionInputs \cup {"a"})

MCName == DOMAIN MCGiven \cup Range(F) \cup MCSpare
            \cup {"t1", "t2", "t3", "s1", "s2", "s3", "a", "b", "c", "e"}

N(op, attr, ins, outs, caps) == [op |-> op, attr |-> attr, ins |-> ins, outs |-> outs, caps |-> caps]

(* Nodes that define t (and s): a is the operand that varies.               *)
Defining(t, s, S) ==
  {N(op, <<>>, <<a, "w">>, <<t>>, {}) : op \in {"Sub", "Add"}, a \in S}
    \cup {N(op, <<>>, <<"w", a>>, <<t>>, {}) : op \in {"Sub", "Add"}, a \in S \ {"w"}}
    \cup {N("Split", <<>>, <<a>>, outs, {}) : a \in S \ {"w"}, outs \in {<<t>>, <<t, s>>}}
    \cup {N(op, <<>>, <<a>>, <<t>>, {}) : op \in {"RandomNormalLike", "Shape"}, a \in S}

FirstNodes == Defining("t1", "s1", {"x", "w"}) \ {N("Sub", <<>>, <<"w", "x">>, <<"t1">>, {})}
SecondNodes == Defining("t2", "s2", {"x", "t1"}) \cup {N("RandomNormalLike", <<>>, <<"w">>, <<"t2">>, {})}
ThirdNodes == {N("Sub", <<>>, <<"t1", b>>, <<"t3">>, {}) : b \in {"t2", ""}}
            \cup {N("Add", <<1>>, <<"w", "t2">>, <<"t3">>, {}),
                  N("Split", <<>>, <<"x">>, <<"", "s3">>, {}),
                  N("If", <<>>, <<"t2">>, <<"t3">>, {"x", "w"})}

ForPasses ==
  {[nodes |-> <<a, b, c>>, inputs |-> {"x"}, weights |-> {"w"}, outputs |-> o, shaped |-> h,
    level |-> "All"] :
     a \in FirstNodes, b \in SecondNodes, c \in ThirdNodes,
     o \in {{"t3"}, {"t2", "t3"}, {"t2", "s3"}}, h \in {{}, {"x", "t1"}}}

Inputs == {<<m, n>> : m \in {"x", "a"}, n \in {"", "a", "b", "c"}}
            \cup {<<"b", "">>, <<"b", "c">>, <<"c", "c">>}

(* The passes have nothing to do on these, or are not asked for.            *)
ForSort ==
  {[nodes |-> [k \in 1 .. 3 |-> N("Sub", <<k>>, i[k], <<<<"a", "">>, <<"b">>, <<d[1]>>>>[k], {})],
    inputs |-> {"x"}, weights |-> d[2], outputs |-> {"a", "b", "c"}, shaped |-> {},
    level |-> "None"] :
     i \in [1 .. 3 -> Inputs], d \in {<<"c", {}>>, <<"c", {"a"}>>, <<"b", {}>>}}

(* What the passes look for: lists of <<op, attr, ins>>, the k-th defining  *)
(* the name F[k].                                                           *)
Dropouts ==
  {<<<<"Tanh", <<>>, <<"x">>>>, <<"Dropout", d[1], <<"f1">> \o d[2]>>, <<"Relu", <<>>, <<"f2">>>>>> :
     d \in {<<<<>>, <<>>>>, <<<<>>, <<"zero", "zero">>>>, <<<<>>, <<"zero", "one">>>>, <<<<1>>, <<>>>>}}
Products ==
  {<<<<"MatMul", <<>>, <<m, "m32">>>>, <<"Add", <<>>, i>>>> :
     m \in {"x", "z"}, i \in {<<"f1", "v2">>, <<"v2", "f1">>, <<"f1", "m22">>}}
  \cup {<<<<"MatMul", <<>>, <<"x", "m32">>>>, <<"Transpose", t, <<"f1">>>>>> : t \in {<<>>, <<1, 0>>, <<0, 1>>}}
  \cup {<<<<"Add", <<>>, i>>, <<"MatMul", <<>>, <<"f1", "m32">>>>>> :
           i \in {<<"x", "v3">>, <<"v3", "x">>, <<"z", "v3">>, <<"x", "u">>}}
Norm(n) == <<"BatchNorm", <<>>, <<n, "b1", "b2", "b3", "b4">>>>
Convolutions ==
  {<<<<"Conv", <<>>, <<"im", "k">> \o c>>>> \o rest :
     c \in {<<>>, <<"v2">>},
     rest \in {<<Norm("f1"), <<"Relu", <<>>, <<"f2">>>>>>, <<<<"Relu", <<>>, <<"f1">>>>, Norm("f2")>>,
               <<<<"Clip", <<>>, <<"f1", "one", "two">>>>, <<"Clip", <<>>, <<"f2", "zero", "six">>>>>>,
               <<<<"Clip", <<0, 6>>, <<"f1">>>>>>, <<<<"Clip", <<>>, <<"f1", "six", "one">>>>>>,
               <<<<"Tanh", <<>>, <<"im">>>>, <<"Add", <<>>, <<"f1", "f2">>>>, <<"Relu", <<>>, <<"f3">>>>>>,
               <<<<"Conv", <<>>, <<"im", "k">>>>, <<"Add", <<>>, <<"f2", "f1">>>>, <<"Relu", <<>>, <<"f3">>>>>>}}
  \cup {<<<<"Tanh", <<>>, <<"im">>>>, Norm("f1")>>}
Gates ==
  {<<<<"Tanh", <<>>, <<"x">>>>, <<"Sigmoid", <<>>, <<"f1">>>>, <<"Mul", <<>>, i>>>> :
     i \in {<<"f1", "f2">>, <<"f2", "f1">>, <<"x", "f2">>}}
  \cup {<<<<"Sqrt", <<>>, <<"x">>>>, <<"Div", <<>>, <<n, "f1">>>>>> : n \in {"one", "two"}}
(* Over the axes a, of d squared and of x, with epsilon e.                  *)
Deviation(x, a, b, square, e) ==
  <<<<"ReduceMean", a[1], <<x>> \o a[2]>>, <<"Sub", <<>>, <<x, "f1">>>>, square,
    <<"ReduceMean", b[1], <<"f3">> \o b[2]>>, <<"Add", <<>>, <<"f4", e>>>>, <<"Sqrt", <<>>, <<"f5">>>>>>
ByPow == <<"Pow", <<>>, <<"f2", "two">>>>
ByMul == <<"Mul", <<>>, <<"f2", "f2">>>>
Quotient == <<<<"Div", <<>>, <<"f2", "f6">>>>>>
Affine == Quotient \o <<<<"Mul", <<>>, <<"v3", "f7">>>>, <<"Add", <<>>, <<"f8", "v3">>>>>>
AxesOf == {<<<<1, -1>>, <<>>>>, <<<<1, 1>>, <<>>>>, <<<<1>>, <<"one">>>>}
LayerNorms ==
  {Deviation("x", a, <<<<1, -1>>, <<>>>>, ByPow, "zero") \o Affine : a \in AxesOf \cup {<<<<1, 0>>, <<>>>>}}
  \cup {Deviation("x", <<<<1, -1>>, <<>>>>, <<<<1, -1>>, <<>>>>, p[1], p[2]) \o p[3] :
           p \in {<<ByPow, "one", Affine>>, <<ByMul, "zero", Affine>>, <<ByPow, "zero", Quotient>>}}
InstanceNorms ==
  {Deviation("im", a, <<<<1, -1, -2>>, <<>>>>, sq, "one") \o q :
     a \in {<<<<1, 2, 3>>, <<>>>>, <<<<1, 3>>, <<>>>>}, sq \in {ByPow, ByMul},
     q \in {Quotient, <<<<"Reciprocal", <<>>, <<"f6">>>>, <<"Mul", <<>>, <<"f7", "f2">>>>>>,
            <<<<"Div", <<>>, <<"one", "f6">>>>, <<"Mul", <<>>, <<"f2", "f7">>>>>>}}
Layouts ==
  {<<<<"Transpose", s, <<"z">>>>, <<"Transpose", t, <<"f1">>>>, <<"Transpose", <<1, 0, 2>>, <<"f2">>>>>> :
     s \in {<<1, 2, 0>>, <<>>}, t \in {<<0, 2, 1>>, <<2, 0, 1>>}}
  \cup {<<<<"Transpose", t, <<n>>>>, <<"Reshape", <<>>, <<"f1", r>>>>>> :
           t \in {<<1, 0>>, <<0, 1>>}, n \in {"x", "u"}, r \in {"last", "r0"}}
  \cup {<<<<"Reshape", <<>>, <<"x", "six">>>>, <<"Reshape", <<>>, <<"f1", r>>>>, <<"Tanh", <<>>, <<"f2">>>>>> :
           r \in {"r32", "r23", "r0"}}
  \cup {<<<<"Shape", <<>>, <<"x">>>>, <<"Reshape", <<>>, <<"x", p[1]>>>>, <<"Reshape", <<>>, <<"f2", p[2]>>>>,
           <<"Tanh", <<>>, <<"f3">>>>>> : p \in {<<"six", "f1">>, <<"f1", "six">>}}
  \cup {<<<<"Gather", <<s>>, <<"x", i>>>>, <<"Gather", <<0>>, <<"f1", j>>>>>> :
           s \in {0, 1}, i \in {"picks", "grid"}, j \in {"last", "grid"}}

(* As they are, or with a reader more of the k-th name, or with it exported. *)
Varied(list) ==
  LET ns == [k \in DOMAIN list |-> N(list[k][1], list[k][2], list[k][3], <<F[k]>>, {})]
      end == F[Len(list)]
  IN {<<ns, {end}>>} \cup {<<ns, {F[k], end}>> : k \in 1 .. Len(list) - 1}
       \cup {<<Append(ns, N("Exp", <<>>, <<F[k]>>, <<"e">>, {})), {"e", end}>> : k \in 1 .. Len(list) - 1}

(* Left out, because fusion is not meant for it or fails on it: chains of   *)
(* redirected names (Chained, below); a bias that a node computes before a  *)
(* BatchNormalization; scales of a LayerNorm that are wider than its group; *)
(* constants for one and epsilon of more dimensions than x; an x or a bias  *)
(* of Gemm that broadcasts; bodies that capture what is fused.              *)
ForFusion ==
  {[nodes |-> v[1], inputs |-> FusionInputs, weights |-> FusionWeights, outputs |-> v[2],
    shaped |-> h, level |-> l] :
     v \in UNION {Varied(p) : p \in Dropouts \cup Products \cup Convolutions \cup Gates
                                  \cup LayerNorms \cup InstanceNorms \cup Layouts},
     h \in {{}, FusionInputs \cup Range(F)}, l \in {"All", "Extended"}}

MCGraphs == ForPasses \cup ForSort \cup ForFusion

(* The body of an If captures b; the file has the If last.                  *)
Capturing ==
  {[nodes |-> <<N("Split", <<>>, <<"x">>, <<"a">>, {}), N("Split", <<>>, <<"a">>, <<"b">>, {}),
                N("If", <<>>, <<"x">>, <<"c">>, {"b"})>>,
    inputs |-> {"x"}, weights |-> {}, outputs |-> {"b", "c"}, shaped |-> {},
    level |-> "All"]}

(* One redirect after another.                                              *)
Turned(n) == <<"Transpose", <<1, 0>>, <<n>>>>
Shaped(n, r) == <<"Reshape", <<>>, <<n, r>>>>
Unread(n) == <<"Dropout", <<>>, <<n>>>>
Chained ==
  {[nodes |-> v[1], inputs |-> FusionInputs, weights |-> FusionWeights, outputs |-> v[2],
    shaped |-> FusionInputs \cup Range(F), level |-> "All"] :
     v \in UNION {Varied(p) : p \in
       {<<Unread("x"), Unread("f1"), <<"Tanh", <<>>, <<"f2">>>>>>,
        <<Turned("x"), Turned("f1"), Turned("f2"), Turned("f3"), <<"Tanh", <<>>, <<"f4">>>>>>,
        <<Shaped("x", "six"), Shaped("f1", "r23"), Shaped("f2", "six"), Shaped("f3", "r23"),
          <<"Tanh", <<>>, <<"f4">>>>>>}}}
=============================================================================
