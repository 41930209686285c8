------------------------- MODULE CancellationProofs -------------------------
(***************************************************************************)
(* Theorems about Cancellation, for every program, every set of lanes,     *)
(* tokens and operators, and any number of tokens bound one after another. *)
(***************************************************************************)
EXTENDS Cancellation, SequenceTheorems, TLAPS

-----------------------------------------------------------------------------
(* The session's token guards every operator of the registry, from outside. *)
Guarded ==
  bound # <<>> => \A op \in DOMAIN guards :
                    Len(guards[op]) >= 1 /\ guards[op][1] = bound[Len(bound)]

(* A token in late[l] is raised, and was at every guard the lane passed.    *)
LateRaised == \A l \in Lane : late[l] \subseteq Raised

Passed(l) ==
  pc[l] = "guard" =>
    /\ Program_op(l) \in DOMAIN guards
    /\ layer[l] <= Len(guards[Program_op(l)])
    /\ \A j \in 1 .. layer[l] : guards[Program_op(l)][j] \notin late[l]

IInv == TypeOK /\ inner \in [Lane -> Nat] /\ Guarded /\ LateRaised /\ \A l \in Lane : Passed(l)

-----------------------------------------------------------------------------
LEMMA ProgramIs ==
  /\ Len(Program) \in Nat /\ Len(Program) >= 1 /\ DOMAIN Program = 1 .. Len(Program)
  /\ \A n \in 1 .. Len(Program) :
       /\ Program[n].op \in Op /\ Program[n].body \in Seq(Op)
       /\ Len(Program[n].body) \in Nat
<1>1. Program \in Seq([op : Op, body : Seq(Op)]) /\ Program # <<>>
  BY ProgramAssumption
<1>2. Len(Program) \in Nat /\ Len(Program) >= 1 /\ DOMAIN Program = 1 .. Len(Program)
  BY <1>1
<1>3. ASSUME NEW n \in 1 .. Len(Program)
      PROVE  Program[n].op \in Op /\ Program[n].body \in Seq(Op) /\ Len(Program[n].body) \in Nat
  <2>1. Program[n] \in [op : Op, body : Seq(Op)]
    BY <1>1, <1>2, ElementOfSeq
  <2> QED
    BY <2>1
<1> QED
  BY <1>2, <1>3

LEMMA InitInv == Init => IInv
<1> SUFFICES ASSUME Init PROVE IInv
  OBVIOUS
<1>1. TypeOK
  <2>1. guards \in [DOMAIN guards -> Seq(Token)] /\ DOMAIN guards \subseteq Op
    BY ProgramAssumption DEF Init
  <2>2. bound \in Seq(Token)
    BY DEF Init
  <2> QED
    BY <2>1, <2>2, ProgramIs DEF Init, TypeOK
<1> QED
  BY <1>1 DEF Init, IInv, Guarded, LateRaised, Passed

(* The registry is wrapped once more, or gets one more operator, while no   *)
(* lane is running.                                                         *)
LEMMA BindInv ==
  ASSUME IInv, NEW t \in Token, Bind(t)
  PROVE  IInv'
<1>1. /\ bound' \in Seq(Token) /\ Len(bound') = Len(bound) + 1 /\ bound'[Len(bound')] = t
  BY DEF IInv, TypeOK, Bind
<1>2. ASSUME NEW op \in DOMAIN guards'
      PROVE  /\ op \in DOMAIN guards /\ op \in Op
             /\ guards'[op] \in Seq(Token) /\ Len(guards'[op]) >= 1 /\ guards'[op][1] = t
  <2>1. op \in DOMAIN guards /\ guards'[op] = <<t>> \o guards[op]
    BY DEF Bind, wrap_registry
  <2>2. guards[op] \in Seq(Token) /\ <<t>> \in Seq(Token)
    BY <2>1 DEF IInv, TypeOK
  <2> QED
    BY <2>1, <2>2 DEF IInv, TypeOK
<1>3. guards' = [op \in DOMAIN guards' |-> guards'[op]]
  BY DEF Bind, wrap_registry
<1>4. TypeOK'
  BY <1>1, <1>2, <1>3 DEF IInv, TypeOK, Bind, place
<1>5. Guarded'
  BY <1>1, <1>2 DEF Guarded
<1>6. LateRaised' /\ \A l \in Lane : Passed(l)'
  BY DEF IInv, Bind, place, LateRaised, Raised, Passed, Running
<1>7. UNCHANGED inner
  BY DEF Bind, register_op, place
<1> QED
  BY <1>4, <1>5, <1>6, <1>7 DEF IInv

LEMMA RegisterInv ==
  ASSUME IInv, NEW op \in Op, register_op(op)
  PROVE  IInv'
<1>1. /\ wrap_owned_op \in Seq(Token)
      /\ bound # <<>> => Len(wrap_owned_op) = 1 /\ wrap_owned_op[1] = bound[Len(bound)]
  <2>1. CASE bound = <<>>
    BY <2>1 DEF wrap_owned_op
  <2>2. CASE bound # <<>>
    <3>1. bound[Len(bound)] \in Token
      BY <2>2 DEF IInv, TypeOK
    <3> QED
      BY <2>2, <3>1 DEF wrap_owned_op, Last
  <2> QED
    BY <2>1, <2>2
<1>2. guards' = [o \in DOMAIN guards \cup {op} |-> IF o = op THEN wrap_owned_op ELSE guards[o]]
  BY DEF register_op
<1>3. DOMAIN guards' \subseteq Op /\ guards' \in [DOMAIN guards' -> Seq(Token)]
  BY <1>1, <1>2 DEF IInv, TypeOK
<1>4. TypeOK'
  BY <1>3 DEF IInv, TypeOK, register_op, place
<1>5. Guarded'
  <2> SUFFICES ASSUME bound # <<>>, NEW o \in DOMAIN guards'
               PROVE  Len(guards'[o]) >= 1 /\ guards'[o][1] = bound[Len(bound)]
    BY DEF register_op, Guarded
  <2>1. guards'[o] = IF o = op THEN wrap_owned_op ELSE guards[o]
    BY <1>2
  <2>2. CASE o = op
    BY <1>1, <2>1, <2>2
  <2>3. CASE o # op
    BY <1>2, <2>1, <2>3 DEF IInv, Guarded
  <2> QED
    BY <2>2, <2>3
<1>6. LateRaised' /\ \A l \in Lane : Passed(l)'
  BY DEF IInv, register_op, place, LateRaised, Raised, Passed, Running
<1>7. UNCHANGED inner
  BY DEF Bind, register_op, place
<1> QED
  BY <1>4, <1>5, <1>6, <1>7 DEF IInv

(* A token is raised, or reset, whatever the lanes are at.                  *)
LEMMA TokenInv ==
  ASSUME IInv, NEW t \in Token, Cancel(t) \/ Reset(t)
  PROVE  IInv'
<1>1. TypeOK'
  BY DEF IInv, TypeOK, Cancel, Reset, session, place
<1>2. LateRaised'
  <2>1. CASE Cancel(t)
    BY <2>1 DEF IInv, TypeOK, Cancel, LateRaised, Raised
  <2>2. CASE Reset(t)
    <3>1. \A l \in Lane : late'[l] = late[l] \ {t}
      BY <2>2 DEF Reset
    <3>2. \A u \in Token : u # t => flag'[u] = flag[u]
      BY <2>2 DEF Reset, IInv, TypeOK
    <3> QED
      BY <3>1, <3>2 DEF IInv, LateRaised, Raised
  <2> QED
    BY <2>1, <2>2
<1>3. UNCHANGED <<guards, bound, pc, node, inner, layer>>
  BY DEF Cancel, Reset, session, place
<1>4. ASSUME NEW l \in Lane PROVE Passed(l)'
  <2>1. late'[l] \subseteq late[l]
    BY DEF Cancel, Reset, IInv, TypeOK
  <2> QED
    BY <1>3, <2>1 DEF IInv, Passed, Program_op
<1> QED
  BY <1>1, <1>2, <1>3, <1>4 DEF IInv, Guarded

LEMMA BeginInv ==
  ASSUME IInv, NEW l \in Lane, Begin(l)
  PROVE  IInv'
<1>1. TypeOK'
  BY ProgramIs DEF IInv, TypeOK, Begin, session
<1>2. UNCHANGED <<guards, bound, flag, layer, late>> /\ inner' \in [Lane -> Nat]
  BY DEF IInv, Begin, session
<1>3. ASSUME NEW m \in Lane PROVE Passed(m)'
  <2>1. CASE m = l
    BY <2>1 DEF IInv, TypeOK, Begin, Passed
  <2>2. CASE m # l
    BY <1>2, <2>2 DEF IInv, TypeOK, Begin, Passed, Program_op
  <2> QED
    BY <2>1, <2>2
<1> QED
  BY <1>1, <1>2, <1>3 DEF IInv, Guarded, LateRaised, Raised

-----------------------------------------------------------------------------
(* A lane goes from the look-up through the guards into the operator.       *)
LEMMA LookupInv ==
  ASSUME IInv, NEW l \in Lane, Lookup(l)
  PROVE  IInv'
<1>1. TypeOK'
  BY DEF IInv, TypeOK, Lookup, session, place, Raised
<1>2. LateRaised'
  BY DEF IInv, TypeOK, Lookup, LateRaised, Raised
<1>3. ASSUME NEW m \in Lane PROVE Passed(m)'
  <2>1. CASE m = l
    <3>1. layer'[m] = 0 /\ (pc'[m] = "guard" => Program_op(m) \in DOMAIN guards)
      BY <2>1 DEF IInv, TypeOK, Lookup
    <3>2. Program_op(m)' = Program_op(m) /\ guards' = guards
      BY DEF Lookup, session, place, Program_op
    <3>3. Program_op(m) \in DOMAIN guards => Len(guards[Program_op(m)]) \in Nat
      BY DEF IInv, TypeOK
    <3> QED
      BY <3>1, <3>2, <3>3 DEF Passed
  <2>2. CASE m # l
    BY <2>2 DEF IInv, TypeOK, Lookup, session, place, Passed, Program_op
  <2> QED
    BY <2>1, <2>2
<1> QED
  BY <1>1, <1>2, <1>3 DEF IInv, Lookup, session, place, Guarded

LEMMA CheckInv ==
  ASSUME IInv, NEW l \in Lane, Check(l)
  PROVE  IInv'
<1>1. TypeOK'
  <2>1. pc' \in [Lane -> {"idle", "ready", "guard", "done", "failed", "cancelled", "unsupported"}]
    BY DEF IInv, TypeOK, Check
  <2>2. layer' \in [Lane -> Nat]
    BY DEF IInv, TypeOK, Check
  <2> QED
    BY <2>1, <2>2 DEF IInv, TypeOK, Check, session, place
<1>2. LateRaised'
  BY DEF IInv, Check, session, LateRaised, Raised
<1>3. ASSUME NEW m \in Lane PROVE Passed(m)'
  <2>0. Program_op(m)' = Program_op(m) /\ guards' = guards /\ late' = late
    BY DEF Check, session, place, Program_op
  <2>1. CASE m = l
    <3>1. CASE flag[guards[Program_op(l)][layer[l] + 1]]
      <4>1. pc'[m] = "cancelled"
        BY <2>1, <3>1 DEF IInv, TypeOK, Check
      <4> QED
        BY <4>1 DEF Passed
    <3>2. CASE ~flag[guards[Program_op(l)][layer[l] + 1]]
      <4>1. layer'[m] = layer[m] + 1 /\ pc' = pc /\ layer[m] \in Nat
        BY <2>1, <3>2 DEF IInv, TypeOK, Check
      <4>2. guards[Program_op(m)][layer[m] + 1] \notin late[m]
        BY <2>1, <3>2 DEF IInv, LateRaised, Raised
      <4>3. Program_op(m) \in DOMAIN guards /\ Len(guards[Program_op(m)]) \in Nat
        BY <2>1 DEF IInv, TypeOK, Check, Passed
      <4> QED
        BY <2>0, <2>1, <4>1, <4>2, <4>3 DEF IInv, Check, Passed
    <3> QED
      BY <3>1, <3>2
  <2>2. CASE m # l
    BY <2>0, <2>2 DEF IInv, TypeOK, Check, Passed
  <2> QED
    BY <2>1, <2>2
<1> QED
  BY <1>1, <1>2, <1>3 DEF IInv, Check, session, place, Guarded

LEMMA ExecuteInv ==
  ASSUME IInv, NEW l \in Lane, Execute(l)
  PROVE  IInv'
<1>1. pc'[l] \in {"failed", "done", "ready"} /\ \A m \in Lane : m # l => pc'[m] = pc[m]
  BY DEF IInv, TypeOK, Execute, Goto
<1> DEFINE Moved == /\ \A m \in Lane : m # l => node'[m] = node[m] /\ inner'[m] = inner[m]
                    /\ node'[l] \in 1 .. Len(Program)
                    /\ inner'[l] \in Nat /\ inner'[l] \in 0 .. Len(Program[node'[l]].body)
                    /\ node' = [m \in Lane |-> node'[m]] /\ inner' = [m \in Lane |-> inner'[m]]
<1>2. Moved
  <2>1. /\ node \in [Lane -> 1 .. Len(Program)] /\ inner \in [Lane -> Nat]
        /\ inner[l] \in 0 .. Len(Program[node[l]].body) /\ Len(Program[node[l]].body) \in Nat
        /\ Len(Program) \in Nat
    BY ProgramIs DEF IInv, TypeOK
  <2>2. CASE UNCHANGED place
    BY <2>1, <2>2 DEF place
  <2>3. ASSUME NEW n \in Nat, NEW k \in Nat, Goto(l, n, k), n >= 1,
               n <= Len(Program) => k <= Len(Program[n].body), n > Len(Program) => k = 0
        PROVE  Moved
    <3>1. /\ node' = [m \in Lane |-> IF m = l THEN IF n > Len(Program) THEN node[l] ELSE n
                                               ELSE node[m]]
          /\ inner' = [m \in Lane |-> IF m = l THEN k ELSE inner[m]]
      BY <2>1, <2>3 DEF Goto
    <3>2. node'[l] \in 1 .. Len(Program) /\ k \in 0 .. Len(Program[node'[l]].body)
      <4>1. CASE n > Len(Program)
        BY <2>1, <2>3, <3>1, <4>1
      <4>2. CASE ~(n > Len(Program))
        <5>1. n \in 1 .. Len(Program) /\ node'[l] = n
          BY <2>1, <2>3, <3>1, <4>2
        <5>2. Len(Program[n].body) \in Nat /\ k <= Len(Program[n].body)
          BY <2>1, <2>3, <5>1, ProgramIs
        <5> QED
          BY <2>3, <5>1, <5>2
      <4> QED
        BY <4>1, <4>2
    <3> QED
      BY <3>1, <3>2
  <2>4. CASE inner[l] < Len(Program[node[l]].body) /\ Goto(l, node[l], inner[l] + 1)
    <3>1. /\ node[l] \in Nat /\ node[l] >= 1 /\ node[l] <= Len(Program)
          /\ inner[l] + 1 \in Nat /\ inner[l] + 1 <= Len(Program[node[l]].body)
      BY <2>1, <2>4
    <3> QED
      BY <2>1, <2>3, <2>4, <3>1
  <2>5. CASE Len(Program[node[l]].body) > 0 /\ Goto(l, node[l], 1)
    BY <2>1, <2>3, <2>5
  <2>6. CASE Goto(l, node[l] + 1, 0)
    <3>1. node[l] + 1 \in Nat /\ node[l] + 1 >= 1 /\ 0 \in Nat
      BY <2>1
    <3>2. node[l] + 1 <= Len(Program) => 0 <= Len(Program[node[l] + 1].body)
      <4> SUFFICES ASSUME node[l] + 1 <= Len(Program) PROVE 0 <= Len(Program[node[l] + 1].body)
        OBVIOUS
      <4>1. node[l] + 1 \in 1 .. Len(Program)
        BY <2>1
      <4> QED
        BY <4>1, ProgramIs
    <3> QED
      BY <2>3, <2>6, <3>1, <3>2
  <2> QED
    BY <2>2, <2>4, <2>5, <2>6 DEF Execute
<1>t. TypeOK'
  <2>1. pc' \in [Lane -> {"idle", "ready", "guard", "done", "failed", "cancelled", "unsupported"}]
    BY DEF IInv, TypeOK, Execute, Goto
  <2>2. node' \in [Lane -> 1 .. Len(Program)]
    BY <1>2 DEF IInv, TypeOK
  <2>3. \A m \in Lane : inner'[m] \in 0 .. Len(Program[node'[m]].body)
    BY <1>2 DEF IInv, TypeOK
  <2> QED
    BY <2>1, <2>2, <2>3 DEF IInv, TypeOK, Execute, session
<1>3. ASSUME NEW m \in Lane PROVE Passed(m)'
  <2>1. CASE m = l
    BY <1>1, <2>1 DEF Passed
  <2>2. CASE m # l
    <3>1. Program_op(m)' = Program_op(m)
      BY <1>2, <2>2 DEF Program_op
    <3> QED
      BY <1>1, <2>2, <3>1 DEF IInv, Execute, session, Passed
  <2> QED
    BY <2>1, <2>2
<1>4. inner' \in [Lane -> Nat]
  BY <1>2 DEF IInv
<1> QED
  BY <1>t, <1>3, <1>4 DEF IInv, Execute, session, Guarded, LateRaised, Raised

-----------------------------------------------------------------------------
LEMMA NextInv ==
  ASSUME IInv, [Next]_vars
  PROVE  IInv'
<1>1. ASSUME NEW t \in Token, Bind(t) \/ Cancel(t) \/ Reset(t) PROVE IInv'
  BY <1>1, BindInv, TokenInv
<1>2. ASSUME NEW op \in Op, register_op(op) PROVE IInv'
  BY <1>2, RegisterInv
<1>3. ASSUME NEW l \in Lane, Begin(l) \/ Proceed(l) PROVE IInv'
  BY <1>3, BeginInv, LookupInv, CheckInv, ExecuteInv DEF Proceed
<1>4. CASE UNCHANGED vars
  <2>1. TypeOK' /\ inner' \in [Lane -> Nat]
    BY <1>4 DEF vars, session, place, IInv, TypeOK
  <2>2. Guarded' /\ LateRaised'
    BY <1>4 DEF vars, session, place, IInv, Guarded, LateRaised, Raised
  <2>3. ASSUME NEW l \in Lane PROVE Passed(l)'
    BY <1>4 DEF vars, session, place, IInv, Passed, Program_op
  <2> QED
    BY <2>1, <2>2, <2>3 DEF IInv
<1> QED
  BY <1>1, <1>2, <1>3, <1>4 DEF Next

LEMMA Invariance == Spec => []IInv
<1>1. Init => IInv
  BY InitInv
<1>2. IInv /\ [Next]_vars => IInv'
  BY NextInv
<1> QED
  BY <1>1, <1>2, PTL DEF Spec

(* Every variable holds a value of its kind: a lane is at a node of the     *)
(* program, and inside its body at an operator of it.                       *)
THEOREM TypeCorrect == Spec => []TypeOK
<1>1. IInv => TypeOK
  BY DEF IInv
<1> QED
  BY <1>1, Invariance, PTL

(* An operator runs when the lane has passed all its guards; the session's  *)
(* token is one of them, and was not raised there.                          *)
LEMMA ExecuteUnraised ==
  ASSUME IInv, NEW l \in Lane, Execute(l)
  PROVE  late[l] \cap Current = {}
<1> SUFFICES ASSUME NEW t \in late[l] \cap Current PROVE FALSE
  OBVIOUS
<1> DEFINE g == guards[Program_op(l)]
<1>1. bound # <<>> /\ t = bound[Len(bound)]
  <2>1. PICK k \in {Len(bound)} \ {0} : t = bound[k]
    BY DEF Current
  <2> QED
    BY <2>1
<1>2. Program_op(l) \in DOMAIN guards /\ layer[l] = Len(g)
      /\ \A j \in 1 .. layer[l] : g[j] \notin late[l]
  BY DEF IInv, Passed, Execute, Unguarded
<1>3. Len(g) \in Nat /\ Len(g) >= 1 /\ g[1] = t
  BY <1>1, <1>2 DEF IInv, TypeOK, Guarded
<1> QED
  BY <1>2, <1>3

(* No operator runs for a cancelled session: neither one that was there     *)
(* when the token was bound, nor one registered since, however often the    *)
(* session was bound again (CancellableOp, register_op).                    *)
THEOREM StopsAtNextNodeCorrect == Spec => StopsAtNextNode
<1>1. IInv => [\A l \in Lane : Execute(l) => late[l] \cap Current = {}]_vars
  BY ExecuteUnraised
<1> QED
  BY <1>1, Invariance, PTL DEF StopsAtNextNode
=============================================================================
