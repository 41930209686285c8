-------------------------- MODULE OperatorValues --------------------------
(***************************************************************************)
(* What the operators that fusion rewrites compute, up to the algebra that *)
(* fusion relies on.  A value is <<term, shape>>: the term stands for the  *)
(* buffer and the shape for its dimensions, so that a Reshape keeps the    *)
(* term.  A term is <<"lit", data>> for a known constant and otherwise     *)
(* <<op, output, attr, outputs, operands, captured>> (or a name in a       *)
(* tuple, for what a file leaves open).  Each operator below brings its    *)
(* result into one form, in which two nodes and the node that replaces     *)
(* them have the same value exactly if the replacement is right.           *)
(* Axes, permutations and indices count from zero, as in the code.         *)
(***************************************************************************)
EXTENDS Integers, SequencesExt

CONSTANT Commutative  \* COMMUTATIVE_OPS

ASSUME CommutativeOps == {"Add", "Mul"} \subseteq Commutative

NoValue == <<<<"none">>, <<>>>>
Failed == <<<<"failed">>, <<>>>>   \* the kernel returns an error
Lit(data, shape) == <<<<"lit", data>>, shape>>
One == Lit(<<1>>, <<1>>)
Unbounded == 1000000               \* f32::INFINITY

Dims(v) == v[2]
Op(v) == v[1][1]
Operands(v) == v[1][5]
IsOne(v) == v[1] = One[1]
Size(shape) == FoldLeft(LAMBDA acc, d : acc * d, 1, shape)

(* The shape of the operand the others are broadcast to.                    *)
Widest(vals) ==
  LET shapes == {Dims(v) : v \in Range(vals)}
  IN IF shapes = {} THEN <<>>
     ELSE CHOOSE s \in shapes : \A t \in shapes :
            Len(t) < Len(s) \/ (Len(t) = Len(s) /\ Size(t) <= Size(s))

Unordered(vals) == {<<v, Cardinality({j \in DOMAIN vals : vals[j] = v})>> : v \in Range(vals)}

(* An operator nothing is known of: output k of n.                          *)
Opaque(op, k, attr, n, vals, captured) ==
  <<<<op, k, attr, n, IF op \in Commutative THEN Unordered(vals) ELSE vals, captured>>,
    Widest(vals)>>
Plain(op, attr, vals) == Opaque(op, 1, attr, 1, vals, {})

-----------------------------------------------------------------------------
(* Arithmetic: u * (1 / v) is u / v, and the square of d is d * d.          *)
Div(u, v) == Plain("Div", <<>>, <<IF IsOne(u) THEN One ELSE u, v>>)

Inverts(v) == Op(v) = "Div" /\ IsOne(Operands(v)[1])
Mul(u, v) ==
  CASE Inverts(v) -> Div(u, Operands(v)[2])
    [] Inverts(u) -> Div(v, Operands(u)[2])
    [] OTHER -> Plain("Mul", <<>>, <<u, v>>)

Pow(u, v) == IF v[1] = <<"lit", <<2>>>> THEN Mul(u, u) ELSE Plain("Pow", <<>>, <<u, v>>)

(* BatchNormalization with parameters p is x * factor(p) + shift(p).        *)
BatchNorm(x, p) == <<<<"BatchNorm", 1, <<>>, 1, <<x>> \o p, {}>>, Dims(x)>>
Factor(p, shape) == <<<<"factor", p>>, shape>>
Shift(p, shape) == <<<<"shift", p>>, shape>>
Scaled(u, v) == /\ Op(v) = "shift" /\ Op(u) = "Mul"
                /\ \E q \in Operands(u) : q[1][1] = <<"factor", v[1][2]>>
Unscaled(u, p) == (CHOOSE q \in Operands(u) : q[1][1] # <<"factor", p>>)[1]
Add(u, v) ==
  CASE Scaled(u, v) -> BatchNorm(Unscaled(u, v[1][2]), v[1][2])
    [] Scaled(v, u) -> BatchNorm(Unscaled(v, u[1][2]), u[1][2])
    [] OTHER -> Plain("Add", <<>>, <<u, v>>)

(* Convolution; with the kernel and bias of fuse_conv_batchnorm, it is the  *)
(* normalised convolution.  The activation is a pair of bounds.             *)
Clip(lo, hi, v) == <<<<"Clip", 1, <<lo, hi>>, 1, <<v>>, {}>>, Dims(v)>>
NormKernel(kernel, p) == <<<<"kernel", kernel, p>>, Dims(kernel)>>
NormBias(bias, p) == <<<<"bias", bias, p>>, Dims(p[1])>>
BareConv(x, kernel, bias) == <<<<"Conv", 1, <<>>, 1, <<x, kernel, bias>>, {}>>, Dims(x)>>
Conv(attr, x, kernel, bias) ==
  LET conv == IF Op(kernel) = "kernel" /\ Op(bias) = "bias"
                THEN BatchNorm(BareConv(x, kernel[1][2], bias[1][2]), kernel[1][3])
                ELSE BareConv(x, kernel, bias)
  IN IF attr = <<>> THEN conv ELSE Clip(attr[1], attr[2], conv)

-----------------------------------------------------------------------------
(* Transpose(perm): data stays where it is if only axes of one element move. *)
Permuted(shape, perm) == [k \in DOMAIN perm |-> shape[perm[k] + 1]]
MovesNothing(perm, shape) ==
  \A j, k \in DOMAIN perm : j < k /\ shape[perm[j] + 1] # 1 /\ shape[perm[k] + 1] # 1 => perm[j] < perm[k]
Composed(first, second) == [k \in DOMAIN second |-> first[second[k] + 1]]
Transpose(axes, v) ==
  LET attr == IF axes = <<>> THEN [k \in DOMAIN Dims(v) |-> Len(Dims(v)) - k] ELSE axes
      again == /\ Op(v) = "Transpose"
               /\ Dims(v) = Permuted(Dims(Operands(v)[1]), v[1][3])
      from == IF again THEN Operands(v)[1] ELSE v
      perm == IF again THEN Composed(v[1][3], attr) ELSE attr
  IN IF Len(attr) # Len(Dims(v)) THEN Failed
     ELSE <<IF MovesNothing(perm, Dims(from)) THEN from[1]
            ELSE <<"Transpose", 1, perm, 1, <<from>>, {}>>, Permuted(Dims(v), attr)>>

(* resolve_reshape: -1 is inferred, 0 copies a dimension unless allowzero.  *)
Resolve(dims, shape, allowzero) ==
  LET free == {k \in DOMAIN dims : dims[k] = -1}
      copies == {k \in DOMAIN dims : dims[k] = 0 /\ ~allowzero}
      fixed == [k \in DOMAIN dims |-> IF k \in free THEN 1
                                     ELSE IF k \in copies THEN shape[k] ELSE dims[k]]
      known == Size(fixed)
  IN IF Cardinality(free) > 1 \/ ~(copies \subseteq DOMAIN shape) THEN {}
     ELSE IF free = {} THEN {d \in {fixed} : known = Size(shape)}
     ELSE IF known = 0 \/ Size(shape) % known # 0 THEN {}
     ELSE {[k \in DOMAIN dims |-> IF k \in free THEN Size(shape) \div known ELSE fixed[k]]}
Reshape(attr, v, target) ==
  IF Op(target) # "lit" THEN Plain("Reshape", attr, <<v, target>>)
  ELSE LET to == Resolve(target[1][2], Dims(v), attr = <<1>>)
       IN IF to = {} THEN Failed ELSE <<v[1], CHOOSE d \in to : TRUE>>

(* Gather(axis) of constant indices; of a Gather by a vector of indices, it *)
(* is the Gather of the indices gathered.                                   *)
Wrapped(data, n) == [k \in DOMAIN data |-> IF data[k] < 0 THEN data[k] + n ELSE data[k]]
Gather(axis, v, index) ==
  LET again == /\ Op(v) = "Gather" /\ v[1][3] = <<axis>>
               /\ Len(Dims(Operands(v)[2])) = 1
               /\ Len(Dims(v)) = Len(Dims(Operands(v)[1]))
      inner == Operands(v)[2]
      data == Wrapped(index[1][2], Dims(v)[axis + 1])
      picks == [k \in DOMAIN data |-> IF again THEN inner[1][2][data[k] + 1] ELSE data[k]]
  IN IF axis >= Len(Dims(v)) THEN Failed
     ELSE IF Op(index) # "lit" THEN Plain("Gather", <<axis>>, <<v, index>>)
     ELSE IF \E k \in DOMAIN data : data[k] \notin 0 .. Dims(v)[axis + 1] - 1 THEN Failed
     ELSE <<<<"Gather", 1, <<axis>>, 1,
              <<IF again THEN Operands(v)[1] ELSE v, Lit(picks, Dims(index))>>, {}>>,
            SubSeq(Dims(v), 1, axis) \o Dims(index) \o SubSeq(Dims(v), axis + 2, Len(Dims(v)))>>

-----------------------------------------------------------------------------
(* A product distributes over the sum on its left.                          *)
ProductDims(a, b) ==
  IF Len(b) > Len(a) /\ Len(a) > 1 THEN SubSeq(b, 1, Len(b) - 2) \o <<a[Len(a) - 1], b[Len(b)]>>
  ELSE Front(a) \o <<b[Len(b)]>>
Product(a, b) == <<<<"MatMul", 1, <<>>, 1, <<a, b>>, {}>>, ProductDims(Dims(a), Dims(b))>>
MatMul(a, b) ==
  IF Len(Dims(a)) < 2 \/ Len(Dims(b)) < 2 THEN Failed
  ELSE IF Op(a) = "Add"
    THEN <<<<"Add", 1, <<>>, 1, {<<Product(q[1], b), q[2]>> : q \in Operands(a)}, {}>>,
           ProductDims(Dims(a), Dims(b))>>
  ELSE Product(a, b)

(* Gemm: the typed kernel takes matrices only; attr is <<transA, transB>>.  *)
Gemm(attr, a, b, c) ==
  IF Len(Dims(a)) # 2 \/ Len(Dims(b)) # 2 THEN Failed
  ELSE LET ab == IF attr = <<1, 1>> THEN Transpose(<<1, 0>>, MatMul(b, a)) ELSE MatMul(a, b)
       IN IF c = NoValue THEN ab ELSE Add(ab, c)

(* ReduceMean over a set of axes, which keeps them as dimensions of one.    *)
Axes(axes, rank) == {IF a < 0 THEN a + rank ELSE a : a \in Range(axes)}
Mean(axes, v) ==
  LET all == [k \in DOMAIN Dims(v) |-> k - 1]
      over == IF axes = {} THEN Range(all) ELSE axes
  IN <<<<"ReduceMean", 1, SelectSeq(all, LAMBDA a : a \in over), 1, <<v>>, {}>>,
       [k \in DOMAIN all |-> IF all[k] \in over THEN 1 ELSE Dims(v)[k]]>>
ReduceMean(attr, v, axes) ==
  LET raw == IF Len(attr) > 1 THEN Tail(attr) ELSE IF axes = NoValue THEN <<>> ELSE axes[1][2]
      mean == Mean(Axes(raw, Len(Dims(v))), v)
  IN IF attr # <<>> /\ attr[1] = 0 THEN Plain("Squeeze", <<>>, <<mean>>) ELSE mean

(* x less its mean over the axes, over the root of its variance and eps.    *)
Normalized(axes, eps, x) ==
  LET d == Plain("Sub", <<>>, <<x, Mean(axes, x)>>)
  IN Div(d, Plain("Sqrt", <<>>, <<Add(Mean(axes, Mul(d, d)), eps)>>))

(* layer_norm_into takes scale and bias modulo their length: right if they  *)
(* have the shape of one normalised group.                                  *)
LayerNorm(axis, eps, x, scale, bias) ==
  LET from == Len(Dims(x)) + axis
      group == SubSeq(Dims(x), from + 1, Len(Dims(x)))
      fits(v) == Dims(v) = group \/ Size(Dims(v)) = 1
      y == Mul(Normalized(from .. Len(Dims(x)) - 1, Lit(<<eps>>, <<1>>), x), scale)
  IN IF from < 0 THEN Failed
     ELSE IF ~fits(scale) \/ ~fits(bias) THEN Plain("LayerNorm", <<axis>>, <<x, scale, bias>>)
     ELSE IF bias = NoValue THEN y ELSE Add(y, bias)

(* InstanceNorm without scale and bias, over all axes but the first two.    *)
InstanceNorm(eps, x) ==
  IF Len(Dims(x)) < 3 THEN Failed
  ELSE Normalized(2 .. Len(Dims(x)) - 1, Lit(<<eps>>, <<1>>), x)

-----------------------------------------------------------------------------
(* The first output of a node, from its attributes and operands.  Training  *)
(* is refused by Dropout.                                                   *)
Computed(op, attr, vals) ==
  LET v(k) == IF k \in DOMAIN vals THEN vals[k] ELSE NoValue
      bound(k, unbounded) ==
        IF v(k) # NoValue THEN v(k)[1][2][1] ELSE IF attr = <<>> THEN unbounded ELSE attr[k - 1]
  IN CASE v(1) \in {NoValue, Failed} \/ Failed \in Range(vals) -> Failed
       [] op = "Dropout" -> IF v(3) # NoValue /\ Op(v(3)) = "lit" /\ v(3)[1][2] # <<0>> THEN Failed ELSE v(1)
       [] op = "Shape" -> Lit(Dims(v(1)), <<Len(Dims(v(1)))>>)
       [] op = "Reshape" -> Reshape(attr, v(1), v(2))
       [] op = "Transpose" -> Transpose(attr, v(1))
       [] op = "Gather" -> Gather(attr[1], v(1), v(2))
       [] op = "Relu" -> Clip(0, Unbounded, v(1))
       [] op = "Clip" -> Clip(bound(2, -Unbounded), bound(3, Unbounded), v(1))
       [] op = "Conv" -> Conv(attr, v(1), v(2), v(3))
       [] op = "ConvAddRelu" -> Clip(0, Unbounded, Add(Conv(attr, v(1), v(2), v(3)), v(4)))
       [] op = "BatchNorm" -> BatchNorm(v(1), Tail(vals))
       [] op = "Gemm" -> Gemm(attr, v(1), v(2), v(3))
       [] op = "MatMul" -> MatMul(v(1), v(2))
       [] op = "Add" -> Add(v(1), v(2))
       [] op = "Mul" -> Mul(v(1), v(2))
       [] op = "Div" -> Div(v(1), v(2))
       [] op = "Pow" -> Pow(v(1), v(2))
       [] op = "SiLU" -> Mul(v(1), Plain("Sigmoid", <<>>, <<v(1)>>))
       [] op = "Reciprocal" -> Div(One, v(1))
       [] op = "ReduceMean" -> ReduceMean(attr, v(1), v(2))
       [] op = "LayerNorm" -> LayerNorm(attr[1], attr[2], v(1), v(2), v(3))
       [] op = "OxiInstanceNorm" -> InstanceNorm(attr[1], v(1))
       [] OTHER -> Plain(op, attr, vals)
=============================================================================
