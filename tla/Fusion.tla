------------------------------ MODULE Fusion ------------------------------
(***************************************************************************)
(* The fusion passes of the optimizer.  Every pass walks the nodes in the  *)
(* order of the file with the producers and the counts of consumers it     *)
(* found before it began, and notes what it will do: nodes to leave out,   *)
(* nodes to put in the place of others, names to read instead of others,   *)
(* and initializers to add (these at once).  Then it rebuilds the list.    *)
(*                                                                         *)
(* The record s of a walk has ns, the nodes; w, the initializers; outputs, *)
(* the graph's; dims, the shapes inference knows; and skip, put and ren,   *)
(* what has been noted.  Each rule gives the set of rewrites, at most one, *)
(* that the pass finds at node i.                                          *)
(***************************************************************************)
EXTENDS OperatorValues, FiniteSetsExt, TLC

CONSTANTS NoName,
          Spare,    \* names no file uses, for what NameAllocator makes
          Kernels   \* of ConvAddRelu and OxiInstanceNorm, those registered

Node(op, attr, ins, outs) == [op |-> op, attr |-> attr, ins |-> ins, outs |-> outs, caps |-> {}]

NthIn(node, k) == IF k \in DOMAIN node.ins THEN node.ins[k] ELSE NoName
In(s, i, k) == IF i = 0 THEN NoName ELSE NthIn(s.ns[i], k)
Out(s, i) == IF i = 0 \/ s.ns[i].outs = <<>> THEN NoName ELSE s.ns[i].outs[1]
IsOp(s, i, op) == i # 0 /\ s.ns[i].op = op

(* The last node that has n as an output; 0 if there is none.               *)
Maker(s, n) == Max({0} \cup {j \in DOMAIN s.ns : n # NoName /\ n \in Range(s.ns[j].outs)})

(* Variant: one reader is enough for the intermediate to be taken away.     *)
ConsumersOnce(s, n) == IF \E j \in DOMAIN s.ns : n \in Range(s.ns[j].ins) THEN 1 ELSE 0

(* How often n is an input of a node; what bodies capture is not counted.   *)
Consumers(s, n) ==
  Cardinality(UNION {{j} \X {k \in DOMAIN s.ns[j].ins : s.ns[j].ins[k] = n} : j \in DOMAIN s.ns})

(* Variant: an intermediate the model exports may be taken away.            *)
FusableExported(s, n) == n # NoName /\ Consumers(s, n) = 1

Fusable(s, n) == n # NoName /\ n \notin s.outputs /\ Consumers(s, n) = 1

Noted(s, i) == i \in s.skip \cup DOMAIN s.put

(* The node of kind op that makes n for one reader only, if n is that.      *)
Feeding(s, n, op) ==
  {j \in {Maker(s, n)} : IsOp(s, j, op) /\ ~Noted(s, j) /\ Fusable(s, n)}

Rank(s, n) == IF n \in DOMAIN s.dims THEN Len(s.dims[n])
              ELSE IF n \in DOMAIN s.w THEN Len(Dims(s.w[n])) ELSE -1
Length(s, n) == Size(Dims(s.w[n]))
IsVector(s, n) == n \in DOMAIN s.w /\ Len(Dims(s.w[n])) = 1

(* The number an initializer of one element holds.                          *)
Scalar(s, n) == IF n \in DOMAIN s.w /\ Op(s.w[n]) = "lit" /\ Length(s, n) = 1
                  THEN {s.w[n][1][2][1]} ELSE {}

(* NameAllocator::allocate, as often as a rewrite needs it.                 *)
Fresh(s) ==
  LET used == DOMAIN s.w \cup UNION {Range(s.ns[j].ins) \cup Range(s.ns[j].outs) : j \in DOMAIN s.ns}
                \cup UNION {UNION {Range(node.outs) : node \in Range(s.put[j])} : j \in DOMAIN s.put}
  IN SetToSeq(Spare \ used)

Nothing == [x \in {} |-> 0]
Putting(i, nodes, skip, w) == [put |-> i :> nodes, skip |-> skip, ren |-> Nothing, w |-> w]
Put(i, node, skip) == Putting(i, <<node>>, skip, Nothing)
Reading(n, m, skip) == [put |-> Nothing, skip |-> skip, ren |-> n :> m, w |-> Nothing]

-----------------------------------------------------------------------------
(* eliminate_dropout_inference: the readers of y read x instead.            *)
Dropout(s, i) ==
  LET mask == IF Len(s.ns[i].outs) > 1 THEN s.ns[i].outs[2] ELSE NoName
  IN IF /\ s.ns[i].attr = <<>>
        /\ In(s, i, 3) = NoName \/ Scalar(s, In(s, i, 3)) = {0}
        /\ In(s, i, 1) # NoName
        /\ Out(s, i) \notin s.outputs \cup {NoName}
        /\ mask = NoName \/ (Consumers(s, mask) = 0 /\ mask \notin s.outputs)
     THEN {Reading(Out(s, i), In(s, i, 1), {i})} ELSE {}

(* Variant: fuse_matmul_add for a product of any rank.                      *)
MatMulAddBatched(s, i) ==
  {Put(j, Node("Gemm", <<0, 0>>, <<In(s, j, 1), In(s, j, 2), In(s, i, 2)>>, s.ns[i].outs), {i}) :
     j \in {j \in Feeding(s, In(s, i, 1), "MatMul") : IsVector(s, In(s, i, 2))}}

(* fuse_matmul_add: MatMul, then Add of a vector, into Gemm.                *)
MatMulAdd(s, i) ==
  {Put(j, Node("Gemm", <<0, 0>>, <<In(s, j, 1), In(s, j, 2), In(s, i, 2)>>, s.ns[i].outs), {i}) :
     j \in {j \in Feeding(s, In(s, i, 1), "MatMul") :
              /\ Rank(s, In(s, j, 1)) = 2 /\ Rank(s, In(s, j, 2)) = 2
              /\ IsVector(s, In(s, i, 2))}}

(* The parameters of a BatchNormalization, all known and one per channel.   *)
NormNames(s, i) == [k \in 1 .. 4 |-> In(s, i, k + 1)]
NormParams(s, i) == [k \in 1 .. 4 |-> s.w[NormNames(s, i)[k]]]
Channels(s, i) == Length(s, In(s, i, 2))
NormKnown(s, i) ==
  /\ Range(NormNames(s, i)) \subseteq DOMAIN s.w
  /\ \A n \in Range(NormNames(s, i)) : Length(s, n) = Channels(s, i) /\ Channels(s, i) # 0

(* fuse_conv_batchnorm: the parameters go into a new kernel and a new bias. *)
(* A bias that is not an initializer is taken for none.                     *)
ConvBatchNorm(s, i) ==
  {LET p == NormParams(s, i)
       kernel == s.w[In(s, j, 2)]
       bias == IF In(s, j, 3) \in DOMAIN s.w THEN s.w[In(s, j, 3)] ELSE NoValue
       f == Fresh(s)
   IN Putting(j, <<[s.ns[j] EXCEPT !.ins = <<In(s, j, 1), f[1], f[2]>>, !.outs = s.ns[i].outs]>>,
              {i}, f[1] :> NormKernel(kernel, p) @@ f[2] :> NormBias(bias, p)) :
     j \in {j \in Feeding(s, In(s, i, 1), "Conv") :
              /\ NormKnown(s, i) /\ s.ns[j].attr = <<>> /\ In(s, j, 2) \in DOMAIN s.w
              /\ Dims(s.w[In(s, j, 2)])[1] = Channels(s, i)
              /\ In(s, j, 3) \in DOMAIN s.w => Length(s, In(s, j, 3)) = Channels(s, i)}}

(* resolve_clip_bounds: an operand must be known, an attribute may be there. *)
Bound(s, i, k, unbounded) ==
  IF In(s, i, k) # NoName THEN Scalar(s, In(s, i, k))
  ELSE {IF s.ns[i].attr = <<>> THEN unbounded ELSE s.ns[i].attr[k - 1]}
Bounds(s, i) ==
  IF s.ns[i].op = "Relu" THEN {<<0, Unbounded>>}
  ELSE {b \in Bound(s, i, 2, -Unbounded) \X Bound(s, i, 3, Unbounded) : b[1] <= b[2]}

(* Variant: fuse_conv_relu of a convolution that is already activated.      *)
ConvActivationAgain(s, i) ==
  {Put(j, [s.ns[j] EXCEPT !.attr = b, !.outs = s.ns[i].outs], {i}) :
     b \in Bounds(s, i), j \in Feeding(s, In(s, i, 1), "Conv")}

(* fuse_conv_relu: Relu, or Clip of known bounds, into the convolution.     *)
ConvActivation(s, i) ==
  {Put(j, [s.ns[j] EXCEPT !.attr = b, !.outs = s.ns[i].outs], {i}) :
     b \in Bounds(s, i), j \in {c \in Feeding(s, In(s, i, 1), "Conv") : s.ns[c].attr = <<>>}}

(* fuse_conv_clip_to_conv_relu6.                                            *)
ConvRelu6(s, i) == IF Bounds(s, i) = {<<0, 6>>} THEN ConvActivation(s, i) ELSE {}

(* fuse_mul_sigmoid_to_silu: x * Sigmoid(x), in either order.               *)
Silu(s, i) ==
  {Put(i, Node("SiLU", <<>>, <<In(s, i, 3 - k)>>, s.ns[i].outs), {Maker(s, In(s, i, k))}) :
     k \in {k \in 1 .. 2 : \E j \in Feeding(s, In(s, i, k), "Sigmoid") : In(s, j, 1) = In(s, i, 3 - k)}}

(* fuse_div_sqrt_to_rsqrt: 1 / Sqrt(x) reads the root, which stays.         *)
Rsqrt(s, i) ==
  {Put(i, Node("Reciprocal", <<>>, <<In(s, i, 2)>>, s.ns[i].outs), {}) :
     j \in {j \in {Maker(s, In(s, i, 2))} : /\ Scalar(s, In(s, i, 1)) = {1} /\ IsOp(s, j, "Sqrt")
                                            /\ Consumers(s, In(s, i, 2)) = 1}}

(* fold_batch_norm_inference: x * factor + shift, constants of x's rank.    *)
FoldBatchNorm(s, i) ==
  LET x == In(s, i, 1)
      p == NormParams(s, i)
      f == Fresh(s)
      dims == [k \in DOMAIN s.dims[x] |-> IF k = 2 THEN Channels(s, i) ELSE 1]
  IN IF /\ NormKnown(s, i) /\ ~IsOp(s, Maker(s, x), "Conv") /\ x \in DOMAIN s.dims
        /\ Len(s.dims[x]) >= 2 /\ s.dims[x][2] = Channels(s, i) /\ Out(s, i) # NoName
     THEN {Putting(i, <<Node("Mul", <<>>, <<x, f[1]>>, <<f[3]>>),
                        Node("Add", <<>>, <<f[3], f[2]>>, s.ns[i].outs)>>,
                   {}, f[1] :> Factor(p, dims) @@ f[2] :> Shift(p, dims))}
     ELSE {}

-----------------------------------------------------------------------------
(* What LayerNorm and InstanceNorm have in common: the variance of x.       *)

(* The Add of a variance and a constant that is usable as epsilon.          *)
Epsilons(s, i, usable) ==
  {[of |-> In(s, i, 3 - k), eps |-> CHOOSE e \in Scalar(s, In(s, i, k)) : TRUE] :
     k \in {k \in 1 .. 2 : /\ Scalar(s, In(s, i, k)) \cap usable # {}
                          /\ Scalar(s, In(s, i, 3 - k)) = {}}}

(* Node i squares d, reading it that often; 0 if it does not.               *)
SquareSlots(s, i, d) ==
  CASE IsOp(s, i, "Pow") /\ In(s, i, 1) = d /\ Scalar(s, In(s, i, 2)) = {2} -> 1
    [] IsOp(s, i, "Mul") /\ In(s, i, 1) = d /\ In(s, i, 2) = d -> 2
    [] OTHER -> 0

(* d = x - mean(x) and std = Sqrt(mean(d * d) + eps), with no other reader. *)
Moments(s, d, std, usable) ==
  LET root == Maker(s, std)
      sum == Maker(s, In(s, root, 1))
      sub == Maker(s, d)
      mean == Maker(s, In(s, sub, 2))
      var(e) == Maker(s, e.of)
      square(e) == Maker(s, In(s, var(e), 1))
      chain(e) == {root, sum, var(e), square(e), sub, mean}
  IN {[x |-> In(s, sub, 1), eps |-> e.eps, var |-> var(e), mean |-> mean, square |-> square(e),
       chain |-> chain(e)] :
        e \in {e \in IF IsOp(s, root, "Sqrt") /\ IsOp(s, sum, "Add") THEN Epsilons(s, sum, usable) ELSE {} :
               /\ IsOp(s, var(e), "ReduceMean") /\ IsOp(s, mean, "ReduceMean") /\ IsOp(s, sub, "Sub")
               /\ In(s, mean, 1) = In(s, sub, 1)
               /\ SquareSlots(s, square(e), d) # 0
               /\ d \notin s.outputs /\ Consumers(s, d) = 1 + SquareSlots(s, square(e), d)
               /\ \A j \in chain(e) : ~Noted(s, j) /\ (j # sub => Fusable(s, Out(s, j)))}}

(* The axes of a ReduceMean that keeps them, if they are known.             *)
KnownAxes(s, i) ==
  LET a == s.ns[i].attr
      n == In(s, i, 2)
  IN IF a # <<>> /\ a[1] # 1 THEN {}
     ELSE IF Len(a) > 1 THEN {Range(Tail(a))}
     ELSE IF n \in DOMAIN s.w /\ Op(s.w[n]) = "lit" THEN {Range(s.w[n][1][2])} \ {{}}
     ELSE {}

(* trailing_reduce_axis: -k if node i reduces over the last k axes.         *)
TrailingAxis(s, i) ==
  LET r == Rank(s, In(s, i, 1))
      inside(a) == IF a < 0 THEN r = -1 \/ -a <= r ELSE a < r
      ends(axes) == {IF a < 0 THEN a ELSE a - r : a \in axes}
  IN {-Cardinality(ends(axes)) : axes \in
        {axes \in KnownAxes(s, i) : /\ \A a \in axes : inside(a)
                                    /\ ends(axes) = -Cardinality(ends(axes)) .. -1}}

(* Variant: any axes will do for an instance.                               *)
ReducesOverAny(s, i) == KnownAxes(s, i) # {}

(* reduces_over_spatial_axes: all but the first two.                        *)
ReducesOverSpatialAxes(s, i) ==
  LET r == Rank(s, In(s, i, 1))
  IN r >= 3 /\ \E axes \in KnownAxes(s, i) : {IF a < 0 THEN a + r ELSE a : a \in axes} = 2 .. r - 1

(* The node of kind op that applies an initializer to n, its only reader.   *)
Applied(s, n, op) ==
  {[at |-> p[1], by |-> In(s, p[1], 3 - p[2])] :
     p \in {p \in (DOMAIN s.ns) \X (1 .. 2) :
              /\ Fusable(s, n) /\ p[1] \notin s.skip /\ IsOp(s, p[1], op)
              /\ In(s, p[1], p[2]) = n /\ In(s, p[1], 3 - p[2]) \in DOMAIN s.w}}

(* fuse_layer_norm: (d / std) * scale, and + bias if it follows; epsilon is  *)
(* less than 0.01, which counts as 0 here.                                  *)
LayerNormalization(s, i) ==
  {LET b == Applied(s, Out(s, m.at), "Add")
       last == IF b = {} THEN m.at ELSE (CHOOSE a \in b : TRUE).at
       axis == CHOOSE a \in TrailingAxis(s, c.mean) : TRUE
   IN Put(c.mean, Node("LayerNorm", <<axis, c.eps>>,
                       <<c.x, m.by>> \o SetToSeq({a.by : a \in b}), <<Out(s, last)>>),
          (c.chain \ {c.mean}) \cup {i, m.at, last}) :
     m \in Applied(s, Out(s, i), "Mul"),
     c \in {c \in Moments(s, In(s, i, 1), In(s, i, 2), {0}) :
              /\ IsOp(s, c.square, "Pow")
              /\ TrailingAxis(s, c.mean) # {} /\ TrailingAxis(s, c.mean) = TrailingAxis(s, c.var)}}

(* d / std, or d * (1 / std) in either order: what is divided, by what, and *)
(* the node that inverts.                                                   *)
Quotients(s, i) ==
  LET inverts(k) == LET j == Maker(s, In(s, i, k)) IN IsOp(s, j, "Reciprocal") \/ IsOp(s, j, "Div")
      inverted(j) == IF IsOp(s, j, "Reciprocal") THEN In(s, j, 1)
                     ELSE IF Scalar(s, In(s, j, 1)) = {1} THEN In(s, j, 2) ELSE NoName
  IN IF IsOp(s, i, "Div") THEN {[d |-> In(s, i, 1), std |-> In(s, i, 2), by |-> {i}]}
     ELSE {[d |-> In(s, i, 3 - k), std |-> inverted(Maker(s, In(s, i, k))),
            by |-> {i, Maker(s, In(s, i, k))}] :
             k \in {k \in 1 .. 2 : inverts(k) /\ ~inverts(3 - k) /\ Fusable(s, In(s, i, k))}}

(* fuse_instance_norm: the normalised x, in the place of its first node.    *)
InstanceNormalization(s, i) ==
  UNION {{Put(Min(c.chain \cup q.by),
              Node("OxiInstanceNorm", <<c.eps>>, <<c.x>>, <<Out(s, i)>>),
              (c.chain \cup q.by) \ {Min(c.chain \cup q.by)}) :
            c \in {c \in Moments(s, q.d, q.std, Nat) :
                     /\ Out(s, i) # NoName /\ \A j \in q.by : ~Noted(s, j)
                     /\ ReducesOverSpatialAxes(s, c.mean) /\ ReducesOverSpatialAxes(s, c.var)}} :
           q \in Quotients(s, i)}

-----------------------------------------------------------------------------
(* cancel_consecutive_transpose: two transposes are one, or none.           *)
CancelTranspose(s, i) ==
  {LET perm == Composed(s.ns[j].attr, s.ns[i].attr)
   IN IF \A k \in DOMAIN perm : perm[k] = k - 1
        THEN Reading(Out(s, i), In(s, j, 1), {i, j})
        ELSE Put(i, Node("Transpose", perm, <<In(s, j, 1)>>, s.ns[i].outs), {j}) :
     j \in {j \in Feeding(s, In(s, i, 1), "Transpose") :
              /\ s.ns[i].attr # <<>> /\ Len(s.ns[j].attr) = Len(s.ns[i].attr)
              /\ In(s, j, 1) # NoName
              /\ (\A k \in DOMAIN s.ns[i].attr : Composed(s.ns[j].attr, s.ns[i].attr)[k] = k - 1)
                   => Out(s, i) \notin s.outputs \cup {NoName}}}

(* fuse_matmul_transpose: (a b)^T is b^T a^T.                               *)
MatMulTranspose(s, i) ==
  {Put(j, Node("Gemm", <<1, 1>>, <<In(s, j, 2), In(s, j, 1)>>, s.ns[i].outs), {i}) :
     j \in {j \in Feeding(s, In(s, i, 1), "MatMul") : s.ns[i].attr = <<1, 0>>}}

(* fuse_add_matmul_to_gemm: (x + c) w is x w + c w, and c w is a constant.   *)
AddMatMul(s, i) ==
  LET w == In(s, i, 2)
      side(j) == IF In(s, j, 2) \in DOMAIN s.w THEN 2 ELSE 1
      c(j) == In(s, j, side(j))
      f == Fresh(s)
  IN {Putting(j, <<Node("Gemm", <<0, 0>>, <<In(s, j, 3 - side(j)), w, f[1]>>, s.ns[i].outs)>>, {i},
              f[1] :> Product(s.w[c(j)], s.w[w])) :
        j \in {j \in Feeding(s, In(s, i, 1), "Add") :
                 /\ w \in DOMAIN s.w /\ Len(Dims(s.w[w])) = 2
                 /\ IsVector(s, c(j)) /\ Dims(s.w[c(j)])[1] = Dims(s.w[w])[1]
                 /\ Rank(s, In(s, j, 3 - side(j))) = 2 /\ Out(s, i) # NoName}}

(* fuse_gather_composition: the gathered indices are constants.             *)
GatherComposition(s, i) ==
  LET f == Fresh(s)
      data(j) == s.w[In(s, j, 2)][1][2]
      picks(j) == Wrapped(data(i), Len(data(j)))
  IN {Putting(i, <<Node("Gather", s.ns[i].attr, <<In(s, j, 1), f[1]>>, s.ns[i].outs)>>, {j},
              f[1] :> Lit([k \in DOMAIN data(i) |-> data(j)[picks(j)[k] + 1]], Dims(s.w[In(s, i, 2)]))) :
        j \in {j \in Feeding(s, In(s, i, 1), "Gather") :
                 /\ s.ns[i].attr = s.ns[j].attr /\ Out(s, i) # NoName
                 /\ IsVector(s, In(s, j, 2)) /\ In(s, i, 2) \in DOMAIN s.w
                 /\ Range(picks(j)) \subseteq 0 .. Len(data(j)) - 1}}

(* fuse_conv_add_relu: the first operand that is a bare convolution.        *)
ConvAddRelu(s, i) ==
  UNION {LET bare(k) == {c \in Feeding(s, In(s, j, k), "Conv") : s.ns[c].attr = <<>>}
             k == IF bare(1) # {} THEN 1 ELSE 2
         IN {Put(c, Node("ConvAddRelu", <<>>,
                         <<In(s, c, 1), In(s, c, 2), In(s, c, 3), In(s, j, 3 - k)>>, s.ns[i].outs),
                 {i, j}) : c \in bare(k)} : j \in Feeding(s, In(s, i, 1), "Add")}

(* Variant: any target shape may be resolved against another input.         *)
AlwaysReparentSafe(s, i) == TRUE

(* target_shape_is_reparent_safe: no dimension is copied from the input.    *)
ReparentSafe(s, i) ==
  LET n == In(s, i, 2)
  IN s.ns[i].attr = <<1>> \/ (n \in DOMAIN s.w /\ Op(s.w[n]) = "lit" /\ 0 \notin Range(s.w[n][1][2]))

Reparented(s, i, x) == Node("Reshape", s.ns[i].attr, <<x>> \o Tail(s.ns[i].ins), s.ns[i].outs)

(* simplify_transpose_reshape: a transpose that moves no data goes.         *)
TransposeReshape(s, i) ==
  {Put(i, Reparented(s, i, In(s, j, 1)), {j}) :
     j \in {j \in Feeding(s, In(s, i, 1), "Transpose") :
              LET perm == s.ns[j].attr
                  x == In(s, j, 1)
              IN /\ perm # <<>> /\ x # NoName
                 /\ \/ \A k \in DOMAIN perm : perm[k] = k - 1
                    \/ /\ x \in DOMAIN s.dims /\ Len(perm) = Len(s.dims[x])
                       /\ MovesNothing(perm, s.dims[x]) /\ ReparentSafe(s, i)}}

(* cancel_consecutive_reshape: the last reshape counts, if it counts.       *)
CancelReshape(s, i) ==
  LET target == IF In(s, i, 2) \in DOMAIN s.w THEN s.w[In(s, i, 2)] ELSE NoValue
      restores(x) == /\ x \in DOMAIN s.dims /\ Op(target) = "lit"
                     /\ Resolve(target[1][2], s.dims[x], s.ns[i].attr = <<1>>) = {s.dims[x]}
  IN {IF restores(In(s, j, 1)) THEN Reading(Out(s, i), In(s, j, 1), {i, j})
      ELSE Put(i, Reparented(s, i, In(s, j, 1)), {j}) :
        j \in {j \in Feeding(s, In(s, i, 1), "Reshape") :
                 /\ ReparentSafe(s, i) /\ In(s, j, 1) # NoName
                 /\ restores(In(s, j, 1)) => Out(s, i) \notin s.outputs \cup {NoName}}}

-----------------------------------------------------------------------------
Fusions ==
  <<"eliminate_dropout", "matmul_add", "conv_batchnorm", "conv_relu", "conv_relu6", "silu", "rsqrt",
    "fold_batch_norm", "layer_norm", "instance_norm", "cancel_transpose", "matmul_transpose",
    "add_matmul", "gather_composition", "conv_add_relu", "transpose_reshape", "cancel_reshape">>

Rewrites(pass, s, i) ==
  LET op == s.ns[i].op
  IN CASE pass = "eliminate_dropout" /\ op = "Dropout" -> Dropout(s, i)
       [] pass = "matmul_add" /\ op = "Add" -> MatMulAdd(s, i)
       [] pass = "conv_batchnorm" /\ op = "BatchNorm" -> ConvBatchNorm(s, i)
       [] pass = "conv_relu" /\ op \in {"Relu", "Clip"} -> ConvActivation(s, i)
       [] pass = "conv_relu6" /\ op = "Clip" -> ConvRelu6(s, i)
       [] pass = "silu" /\ op = "Mul" -> Silu(s, i)
       [] pass = "rsqrt" /\ op = "Div" -> Rsqrt(s, i)
       [] pass = "fold_batch_norm" /\ op = "BatchNorm" -> FoldBatchNorm(s, i)
       [] pass = "layer_norm" /\ op = "Div" -> LayerNormalization(s, i)
       [] pass = "instance_norm" /\ op \in {"Mul", "Div"} /\ "OxiInstanceNorm" \in Kernels ->
            InstanceNormalization(s, i)
       [] pass = "cancel_transpose" /\ op = "Transpose" -> CancelTranspose(s, i)
       [] pass = "matmul_transpose" /\ op = "Transpose" -> MatMulTranspose(s, i)
       [] pass = "add_matmul" /\ op = "MatMul" -> AddMatMul(s, i)
       [] pass = "gather_composition" /\ op = "Gather" -> GatherComposition(s, i)
       [] pass = "conv_add_relu" /\ op = "Relu" /\ "ConvAddRelu" \in Kernels -> ConvAddRelu(s, i)
       [] pass = "transpose_reshape" /\ op = "Reshape" -> TransposeReshape(s, i)
       [] pass = "cancel_reshape" /\ op = "Reshape" -> CancelReshape(s, i)
       [] OTHER -> {}

Noting(s, r) ==
  [s EXCEPT !.skip = @ \cup r.skip, !.put = r.put @@ @, !.ren = r.ren @@ @, !.w = r.w @@ @]

(* The walk from node i on: what is left out already is passed over.        *)
RECURSIVE Walked(_, _, _)
Walked(pass, s, i) ==
  IF i > Len(s.ns) THEN s
  ELSE LET found == IF i \in s.skip THEN {} ELSE Rewrites(pass, s, i)
       IN Walked(pass, IF found = {} THEN s ELSE Noting(s, CHOOSE r \in found : TRUE), i + 1)

(* The list that is left: a name is looked up in ren once, and not in what  *)
(* is put in, nor in what a body captures.                                  *)
Rebuilt(s) ==
  LET renamed(node) == [node EXCEPT !.ins = [k \in DOMAIN @ |->
                          IF @[k] \in DOMAIN s.ren THEN s.ren[@[k]] ELSE @[k]]]
  IN FlattenSeq([i \in DOMAIN s.ns |->
       CASE i \in s.skip -> <<>>
         [] i \notin s.skip /\ i \in DOMAIN s.put -> s.put[i]
         [] OTHER -> <<renamed(s.ns[i])>>])

Walk(pass, ns, w, outputs, dims) ==
  Walked(pass, [ns |-> ns, w |-> w, outputs |-> outputs, dims |-> dims,
                skip |-> {}, put |-> Nothing, ren |-> Nothing], 1)
=============================================================================
