--------------------------- MODULE RunEngineProofs ---------------------------
(***************************************************************************)
(* Theorems about RunEngine, for every set of runs and every set of        *)
(* sessions that schedule each of their nodes once: its types, its         *)
(* reference counts, who owns a buffer and for how long it is held; and,   *)
(* last, that what a run answers is what its graph denotes.                *)
(***************************************************************************)
EXTENDS RunEngine, FiniteSetTheorems, SequenceTheorems, WellFoundedInduction, TLAPS

-----------------------------------------------------------------------------
(* Counting uses.                                                           *)

(* A node uses a name finitely often.                                       *)
LEMMA UsesFinite ==
  ASSUME NEW s, IsSession(s), NEW i \in Nodes(s), NEW n
  PROVE  IsFiniteSet(Uses(s, i, n))
<1>1. s.ins[i] \in Seq(Name \cup {NoName})
  BY DEF IsSession, IsGraph
<1>2. Len(s.ins[i]) \in Nat /\ DOMAIN s.ins[i] = 1 .. Len(s.ins[i])
  BY <1>1
<1>3. IsFiniteSet({i} \X (0 .. Len(s.ins[i])))
  <2>1. IsFiniteSet({i})
    BY FS_Singleton
  <2>2. IsFiniteSet(0 .. Len(s.ins[i]))
    BY <1>2, FS_Interval
  <2> QED
    BY <2>1, <2>2, FS_Product
<1>4. Uses(s, i, n) \in SUBSET ({i} \X (0 .. Len(s.ins[i])))
  BY <1>2 DEF Uses
<1> QED
  BY <1>3, <1>4, FS_Subset

(* Nor do finitely many nodes use it more often.                            *)
LEMMA UsesByFinite ==
  ASSUME NEW s, IsSession(s), NEW I \in SUBSET Nodes(s), NEW n
  PROVE  /\ IsFiniteSet(UsesBy(s, I, n))
         /\ Cardinality(UsesBy(s, I, n)) \in Nat
<1>1. IsFiniteSet(I)
  <2>1. s.n \in Nat
    BY DEF IsSession, IsGraph
  <2>2. IsFiniteSet(1 .. s.n)
    BY <2>1, FS_Interval
  <2> QED
    BY <2>2, FS_Subset DEF Nodes
<1> DEFINE T == {Uses(s, i, n) : i \in I}
           f == [i \in I |-> Uses(s, i, n)]
<1>2. f \in Surjection(I, T)
  BY DEF Surjection
<1>3. IsFiniteSet(T)
  BY <1>1, <1>2, FS_Surjection
<1>4. \A U \in T : IsFiniteSet(U)
  BY UsesFinite
<1>5. IsFiniteSet(UNION T)
  BY <1>3, <1>4, FS_UNION
<1>6. UsesBy(s, I, n) = UNION T
  BY DEF UsesBy
<1> QED
  BY <1>5, <1>6, FS_CardinalityType

(* The uses of a set of nodes are those of one of them and those of the     *)
(* others, and no use belongs to two nodes.                                 *)
LEMMA UsesBySplit ==
  ASSUME NEW s, IsSession(s), NEW I \in SUBSET Nodes(s), NEW i \in I, NEW n
  PROVE  Cardinality(UsesBy(s, I, n))
           = Cardinality(UsesBy(s, I \ {i}, n)) + Cardinality(Uses(s, i, n))
<1> DEFINE A == UsesBy(s, I \ {i}, n)
           B == Uses(s, i, n)
<1>1. IsFiniteSet(A) /\ Cardinality(A) \in Nat
  BY UsesByFinite, I \ {i} \in SUBSET Nodes(s)
<1>2. IsFiniteSet(B) /\ Cardinality(B) \in Nat
  BY UsesFinite, FS_CardinalityType
<1>3. UsesBy(s, I, n) = A \cup B
  BY DEF UsesBy
<1>4. A \cap B = {}
  BY DEF UsesBy, Uses
<1>5. Cardinality(A \cap B) = 0
  BY <1>4, FS_EmptySet
<1>6. Cardinality(A \cup B) = Cardinality(A) + Cardinality(B) - Cardinality(A \cap B)
  BY <1>1, <1>2, FS_Union
<1> QED
  BY <1>1, <1>2, <1>3, <1>5, <1>6

(* A name is declared as an output finitely often.                          *)
LEMMA OutputRefsNat ==
  ASSUME NEW s, IsSession(s), NEW n
  PROVE  OutputRefs(s, n) \in Nat
<1>1. Len(s.outputs) \in Nat /\ DOMAIN s.outputs = 1 .. Len(s.outputs)
  BY DEF IsSession, IsGraph
<1> DEFINE D == {k \in DOMAIN s.outputs : s.outputs[k] = n}
<1>2. IsFiniteSet(1 .. Len(s.outputs)) /\ D \in SUBSET (1 .. Len(s.outputs))
  BY <1>1, FS_Interval
<1>3. Cardinality(D) \in Nat
  BY <1>2, FS_Subset, FS_CardinalityType
<1> QED
  BY <1>3 DEF OutputRefs

(* The seed counts are natural numbers.                                     *)
LEMMA BaseRefCountsType ==
  ASSUME NEW s, IsSession(s)
  PROVE  BaseRefCounts(s) \in [Name -> Nat]
<1>1. ASSUME NEW n \in Name PROVE Cardinality(UsesBy(s, Nodes(s), n)) \in Nat
  BY UsesByFinite
<1>2. ASSUME NEW n \in Name PROVE OutputRefs(s, n) \in Nat
  BY OutputRefsNat
<1> QED
  BY <1>1, <1>2 DEF BaseRefCounts

-----------------------------------------------------------------------------
(* Where a run is in its schedule.                                          *)

(* The batch, the position and the claims of run r fit its phase: claims    *)
(* grow to one per node of the batch, and the serial phases stay inside it. *)
CursorOf(r) ==
  /\ pc[r] \in {"idle", "claim"} => step[r] <= Len(g.batches) + 1 /\ pos[r] = 1
  /\ pc[r] = "idle" => step[r] = 1 /\ work[r] = <<>>
  /\ pc[r] = "claim" =>
       IF step[r] = Len(g.batches) + 1 THEN work[r] = <<>>
                                       ELSE Len(work[r]) < Len(Batch(r).nodes)
  /\ pc[r] = "compute" => pos[r] = 1
  /\ pc[r] \in {"compute", "write", "release"} =>
       /\ step[r] \in DOMAIN g.batches
       /\ pos[r] \in 1 .. Len(Batch(r).nodes)
       /\ Len(work[r]) = Len(Batch(r).nodes)

Cursor == \A r \in Run : CursorOf(r)

TInv == TypeOK /\ Cursor

(* What IsSession says of the schedule, in the terms the cursor needs.      *)
LEMMA BatchType ==
  ASSUME NEW s \in Sessions
  PROVE  /\ Len(s.batches) \in Nat
         /\ DOMAIN s.batches = 1 .. Len(s.batches)
         /\ \A b \in DOMAIN s.batches :
              /\ s.batches[b].nodes \in Seq(Nodes(s))
              /\ Len(s.batches[b].nodes) \in Nat \ {0}
              /\ DOMAIN s.batches[b].nodes = 1 .. Len(s.batches[b].nodes)
              /\ Len(s.batches[b].nodes) <= s.n
<1>1. s.n \in Nat /\ IsSchedule(s)
  BY SessionsAssumption DEF IsSession, IsGraph
<1> DEFINE B == [nodes : Seq(Nodes(s)), checked : BOOLEAN]
<1>2. s.batches \in Seq(B)
  BY <1>1 DEF IsSchedule
<1>3. Len(s.batches) \in Nat /\ DOMAIN s.batches = 1 .. Len(s.batches)
  BY <1>2, LenProperties
<1>4. ASSUME NEW b \in DOMAIN s.batches
      PROVE  /\ s.batches[b].nodes \in Seq(Nodes(s))
             /\ Len(s.batches[b].nodes) \in 1 .. s.n
  <2>1. s.batches[b] \in B
    BY <1>2, <1>3, ElementOfSeq
  <2> QED
    BY <1>1, <2>1 DEF IsSchedule
<1>5. ASSUME NEW b \in DOMAIN s.batches
      PROVE  DOMAIN s.batches[b].nodes = 1 .. Len(s.batches[b].nodes)
  BY <1>4, LenProperties
<1> QED
  BY <1>1, <1>3, <1>4, <1>5

(* ... and of the nodes.                                                    *)
LEMMA NodeType ==
  ASSUME NEW s \in Sessions, NEW i \in Nodes(s)
  PROVE  /\ i \in Nat
         /\ s.arity[i] \in Nat
         /\ s.ins[i] \in Seq(Name \cup {NoName})
         /\ s.outs[i] \in Seq(Name \cup {NoName})
         /\ Len(s.outs[i]) \in Nat
         /\ DOMAIN s.outs[i] = 1 .. Len(s.outs[i])
<1>1. IsGraph(s)
  BY SessionsAssumption DEF IsSession
<1>2. /\ s.arity[i] \in Nat
      /\ s.ins[i] \in Seq(Name \cup {NoName})
      /\ s.outs[i] \in Seq(Name \cup {NoName})
  BY <1>1 DEF IsGraph
<1>3. Len(s.outs[i]) \in Nat /\ DOMAIN s.outs[i] = 1 .. Len(s.outs[i])
  BY <1>2, LenProperties
<1>4. i \in Nat
  BY <1>1 DEF IsGraph, Nodes
<1> QED
  BY <1>2, <1>3, <1>4

(* What a run allocates is a buffer.                                        *)
LEMMA FreshType ==
  ASSUME NEW r \in Run, NEW i \in Nat, NEW k \in Nat
  PROVE  Fresh(r, i, k) \in Buffer
  BY DEF Fresh, Buffer

(* The records a claim can be do not depend on the state but for g.         *)
LEMMA ClaimUnchanged ==
  ASSUME UNCHANGED g
  PROVE  Claim' = Claim
  BY DEF Claim, Buffer, Nodes

(* A run that fails stays well typed.                                       *)
LEMMA FailTInv ==
  ASSUME TInv, NEW r \in Run, Fail(r)
  PROVE  TInv'
<1> USE DEF TInv, TypeOK, Cursor, Fail
<1>1. pc' \in [Run -> {"idle", "claim", "compute", "write", "release", "done", "failed"}]
  OBVIOUS
<1>2. tensors' \in [Run -> [Name -> Buffer' \cup {NoBuffer}]]
  BY DEF Buffer
<1>3. work' \in [Run -> Seq(Claim')]
  <2>1. <<>> \in Seq(Claim)
    BY EmptySeq
  <2>2. work' \in [Run -> Seq(Claim)]
    BY <2>1
  <2> QED
    BY <2>2, ClaimUnchanged
<1>4. TypeOK'
  BY <1>1, <1>2, <1>3 DEF Buffer
<1>5. ASSUME NEW s \in Run PROVE CursorOf(s)'
  <2>1. CASE s = r
    BY <2>1 DEF CursorOf
  <2>2. CASE s # r
    BY <2>2 DEF CursorOf, Batch
  <2> QED
    BY <2>1, <2>2
<1> QED
  BY <1>4, <1>5
(* A claim added to the batch.                                              *)
LEMMA ClaimedTInv ==
  ASSUME TInv, NEW r \in Run, NEW i \in Nodes(g), Claiming(r, i),
         NEW item \in Claim, Claimed(r, item),
         tensors' \in [Run -> [Name -> Buffer \cup {NoBuffer}]], pool' \in SUBSET Buffer
  PROVE  TInv'
<1> USE DEF TInv, TypeOK, Cursor, Claimed
<1>1. work' \in [Run -> Seq(Claim')]
  <2>1. Append(work[r], item) \in Seq(Claim)
    BY AppendProperties
  <2> QED
    BY <2>1, ClaimUnchanged
<1>2. pc' \in [Run -> {"idle", "claim", "compute", "write", "release", "done", "failed"}]
  OBVIOUS
<1>3. TypeOK'
  BY <1>1, <1>2 DEF Buffer
<1>4. ASSUME NEW s \in Run PROVE CursorOf(s)'
  <2>1. CASE s = r
    <3>1. Len(work'[r]) = Len(work[r]) + 1 /\ Len(work[r]) \in Nat
      BY AppendProperties, LenProperties
    <3>2. step[r] \in DOMAIN g.batches /\ Len(work[r]) < Len(Batch(r).nodes)
      BY BatchType DEF Claiming, CursorOf
    <3>3. Batch(r)' = Batch(r) /\ Len(Batch(r).nodes) \in Nat \ {0}
      BY <3>2, BatchType DEF Batch
    <3> QED
      BY <2>1, <3>1, <3>2, <3>3, BatchType DEF CursorOf, Claiming
  <2>2. CASE s # r
    BY <2>2 DEF CursorOf, Batch
  <2> QED
    BY <2>1, <2>2
<1> QED
  BY <1>3, <1>4

(* A claim of the batch replaced by another record.                         *)
LEMMA ItemReplaced ==
  ASSUME TypeOK, NEW r \in Run, NEW w \in DOMAIN work[r], NEW item \in Claim,
         UNCHANGED g, work' = [work EXCEPT ![r][w] = item]
  PROVE  /\ work' \in [Run -> Seq(Claim')]
         /\ \A s \in Run : Len(work'[s]) = Len(work[s])
<1>1. work[r] \in Seq(Claim) /\ w \in 1 .. Len(work[r])
  BY LenProperties DEF TypeOK
<1>2. /\ [work[r] EXCEPT ![w] = item] \in Seq(Claim)
      /\ Len([work[r] EXCEPT ![w] = item]) = Len(work[r])
  BY <1>1, ExceptSeq
<1>3. work' = [work EXCEPT ![r] = [work[r] EXCEPT ![w] = item]]
  BY DEF TypeOK
<1> QED
  BY <1>2, <1>3, ClaimUnchanged DEF TypeOK

(* The buffers an operator's results are in.                                *)
LEMMA ResultBuffersType ==
  ASSUME TypeOK, NEW r \in Run, NEW item \in Claim
  PROVE  ResultBuffers(r, item) \in Seq(Buffer \cup {NoBuffer})
<1>1. item.node \in Nodes(g) /\ item.bufs \in Seq(Buffer \cup {NoBuffer})
  BY DEF Claim
<1>2. g.arity[item.node] \in Nat /\ item.node \in Nat
  BY <1>1, NodeType DEF TypeOK
<1>3. CASE item.how = "slots"
  BY <1>1, <1>3 DEF ResultBuffers
<1>4. CASE item.how # "slots"
  <2> DEFINE e(k) == IF k = 1 /\ OwnsFirst(item) THEN item.bufs[1]
                                                ELSE Fresh(r, item.node, k)
  <2>1. ASSUME NEW k \in 1 .. g.arity[item.node] PROVE e(k) \in Buffer \cup {NoBuffer}
    <3>1. Fresh(r, item.node, k) \in Buffer
      BY <1>2, FreshType
    <3>2. ASSUME OwnsFirst(item) PROVE item.bufs[1] \in Buffer \cup {NoBuffer}
      <4>1. 1 \in DOMAIN item.bufs
        BY <1>1, <3>2, LenProperties DEF OwnsFirst, BuffersOf
      <4> QED
        BY <1>1, <4>1, LenProperties, ElementOfSeq
    <3> QED
      BY <3>1, <3>2
  <2>2. [k \in 1 .. g.arity[item.node] |-> e(k)] \in Seq(Buffer \cup {NoBuffer})
    BY <1>2, <2>1, SMT
  <2> QED
    BY <1>4, <2>2 DEF ResultBuffers
<1> QED
  BY <1>3, <1>4

(* The position moves inside the batch.                                     *)
LEMMA AdvanceType ==
  ASSUME TInv, NEW r \in Run, pc[r] \in {"write", "release"},
         NEW next \in {"release", "claim"}, Advance(r, next)
  PROVE  /\ pos' \in [Run -> Nat \ {0}]
         /\ pc' \in [Run -> {"idle", "claim", "compute", "write", "release", "done", "failed"}]
         /\ pos'[r] \in 1 .. Len(Batch(r).nodes)
         /\ LastOfBatch(r) => pos'[r] = 1 /\ pc'[r] = next
         /\ ~LastOfBatch(r) => pos'[r] = pos[r] + 1 /\ pc'[r] = pc[r]
         /\ \A s \in Run \ {r} : pos'[s] = pos[s] /\ pc'[s] = pc[s]
<1>1. pos[r] \in 1 .. Len(Batch(r).nodes) /\ Len(Batch(r).nodes) \in Nat \ {0}
  BY BatchType DEF TInv, TypeOK, Cursor, CursorOf, Batch
<1> QED
  BY <1>1 DEF TInv, TypeOK, Advance, LastOfBatch

(* The initial state is well typed.                                         *)
LEMMA InitTInv == Init => TInv
<1> SUFFICES ASSUME Init PROVE TInv
  OBVIOUS
<1>1. TypeOK
  BY EmptySeq DEF Init, TypeOK
<1>2. ASSUME NEW r \in Run PROVE CursorOf(r)
  BY BatchType DEF Init, CursorOf
<1> QED
  BY <1>1, <1>2 DEF TInv, Cursor

(* Phases of one run; what the others hold is untouched.                    *)
LEMMA StepTInv ==
  ASSUME TInv, NEW r \in Run, Start(r) \/ Reject(r) \/ Step(r)
  PROVE  TInv'
<1> USE DEF TInv, TypeOK, Cursor
<1> DEFINE Tensors == [Name -> Buffer \cup {NoBuffer}]
<1>1. CASE Start(r)
  <2> USE <1>1 DEF Start
  <2>1. IsSession(g)
    BY SessionsAssumption
  <2>2. BaseRefCounts(g) \in [Name -> Nat]
    BY <2>1, BaseRefCountsType
  <2>3. tensors' \in [Run -> Tensors]
    <3>1. \A k \in DOMAIN g.inputs : k \in Nat
      BY <2>1, LenProperties DEF IsSession, IsGraph
    <3>2. \A k \in DOMAIN g.inputs : Fresh(r, 0, k) \in Buffer
      BY <3>1, FreshType
    <3> QED
      BY <3>2
  <2>4. TypeOK'
    BY <2>2, <2>3, ClaimUnchanged DEF Buffer
  <2>5. ASSUME NEW s \in Run PROVE CursorOf(s)'
    <3>1. CASE s = r
      <4>1. step[r] = 1 /\ work[r] = <<>> /\ pos[r] = 1
        BY DEF CursorOf
      <4>2. Len(g.batches) \in Nat /\ (Len(g.batches) # 0 => Len(Batch(r).nodes) > 0)
        BY <4>1, BatchType DEF Batch
      <4> QED
        BY <3>1, <4>1, <4>2, EmptySeq DEF CursorOf, Batch
    <3>2. CASE s # r
      BY <3>2 DEF CursorOf, Batch
    <3> QED
      BY <3>1, <3>2
  <2> QED
    BY <2>4, <2>5
<1>2. CASE Reject(r) \/ ClaimError(r) \/ WriteError(r)
  BY <1>2, FailTInv DEF Reject, ClaimError, WriteError
<1>3. CASE ClaimInplace(r)
  <2>1. PICK i \in Nodes(g) :
          /\ Claiming(r, i)
          /\ Claimed(r, [node |-> i, how |-> "inplace", bufs |-> <<tensors[r][g.ins[i][1]]>>,
                         st |-> "claimed"])
          /\ tensors' = [tensors EXCEPT ![r][g.ins[i][1]] = NoBuffer]
          /\ g.ins[i] # <<>> /\ g.ins[i][1] # NoName
    BY <1>3 DEF ClaimInplace, CanInplace
  <2>2. g.ins[i][1] \in Name
    BY <2>1, NodeType, EmptySeq, ElementOfSeq
  <2>3. [node |-> i, how |-> "inplace", bufs |-> <<tensors[r][g.ins[i][1]]>>,
         st |-> "claimed"] \in Claim
    BY <2>2 DEF Claim
  <2>4. tensors' \in [Run -> Tensors] /\ pool' \in SUBSET Buffer
    BY <1>3, <2>1, <2>2 DEF ClaimInplace
  <2> QED
    BY <2>1, <2>3, <2>4, ClaimedTInv
<1>4. CASE ClaimSlots(r)
  <2>1. PICK i \in Nodes(g) :
          \E hits \in SUBSET Named(g, i) : \E f \in [hits -> pool] :
          /\ Claiming(r, i)
          /\ Claimed(r, [node |-> i, how |-> "slots", st |-> "claimed",
                         bufs |-> [k \in DOMAIN g.outs[i] |->
                           IF k \in hits THEN f[k]
                           ELSE IF k \in Named(g, i) THEN Fresh(r, i, k) ELSE NoBuffer]])
          /\ pool' = pool \ {f[k] : k \in hits}
          /\ UNCHANGED tensors
    BY <1>4 DEF ClaimSlots
  <2>2. PICK hits \in SUBSET Named(g, i) : \E f \in [hits -> pool] :
          /\ Claiming(r, i)
          /\ Claimed(r, [node |-> i, how |-> "slots", st |-> "claimed",
                         bufs |-> [k \in DOMAIN g.outs[i] |->
                           IF k \in hits THEN f[k]
                           ELSE IF k \in Named(g, i) THEN Fresh(r, i, k) ELSE NoBuffer]])
          /\ pool' = pool \ {f[k] : k \in hits}
          /\ UNCHANGED tensors
    BY <2>1
  <2>6. PICK f \in [hits -> pool] :
          /\ Claiming(r, i)
          /\ Claimed(r, [node |-> i, how |-> "slots", st |-> "claimed",
                         bufs |-> [k \in DOMAIN g.outs[i] |->
                           IF k \in hits THEN f[k]
                           ELSE IF k \in Named(g, i) THEN Fresh(r, i, k) ELSE NoBuffer]])
          /\ pool' = pool \ {f[k] : k \in hits}
          /\ UNCHANGED tensors
    BY <2>2
  <2> DEFINE b(k) == IF k \in hits THEN f[k]
                     ELSE IF k \in Named(g, i) THEN Fresh(r, i, k) ELSE NoBuffer
  <2>3. [k \in DOMAIN g.outs[i] |-> b(k)] \in Seq(Buffer \cup {NoBuffer})
    <3>1. DOMAIN g.outs[i] = 1 .. Len(g.outs[i]) /\ Len(g.outs[i]) \in Nat /\ i \in Nat
      BY NodeType
    <3>2. ASSUME NEW k \in 1 .. Len(g.outs[i]) PROVE b(k) \in Buffer \cup {NoBuffer}
      BY <3>1, FreshType
    <3> QED
      BY <3>1, <3>2, SMT
  <2>4. [node |-> i, how |-> "slots", st |-> "claimed",
         bufs |-> [k \in DOMAIN g.outs[i] |-> b(k)]] \in Claim
    BY <2>3 DEF Claim
  <2>5. tensors' \in [Run -> Tensors] /\ pool' \in SUBSET Buffer
    BY <2>6
  <2> QED
    BY <2>4, <2>5, <2>6, ClaimedTInv
<1>5. CASE ClaimFresh(r)
  <2>1. PICK i \in Nodes(g) :
          /\ Claiming(r, i)
          /\ Claimed(r, [node |-> i, how |-> "fresh", bufs |-> <<>>, st |-> "claimed"])
          /\ \E missed \in SUBSET GivenUp(r, i) : pool' = pool \cup Pooled(missed)
    BY <1>5 DEF ClaimFresh
  <2>2. [node |-> i, how |-> "fresh", bufs |-> <<>>, st |-> "claimed"] \in Claim
    BY EmptySeq DEF Claim
  <2>3. GivenUp(r, i) \subseteq Buffer
    <3>1. /\ i \in Nat /\ g.arity[i] \in Nat /\ Len(g.outs[i]) \in Nat
          /\ \A k \in Named(g, i) : k \in Nat
      BY NodeType DEF Named
    <3>2. ASSUME NEW k \in Named(g, i)
          PROVE  Fresh(r, i, Len(g.outs[i]) + g.arity[i] + k) \in Buffer
      <4>1. Len(g.outs[i]) + g.arity[i] + k \in Nat
        BY <3>1
      <4> QED
        BY <3>1, <4>1, FreshType, Zenon
    <3> QED
      BY <3>2 DEF GivenUp
  <2>4. pool' \in SUBSET Buffer /\ tensors' \in [Run -> Tensors]
    BY <1>5, <2>1, <2>3 DEF Pooled, ClaimFresh
  <2> QED
    BY <2>1, <2>2, <2>4, ClaimedTInv
<1>6. CASE \E w \in DOMAIN work[r] : Compute(r, w) \/ ComputeError(r, w)
  <2>1. PICK w \in DOMAIN work[r] : Compute(r, w) \/ ComputeError(r, w)
    BY <1>6
  <2>2. work[r][w] \in Claim
    BY LenProperties, ElementOfSeq
  <2>3. PICK item \in Claim : work' = [work EXCEPT ![r][w] = item]
    <3>1. CASE Compute(r, w)
      <4> DEFINE bufs == ResultBuffers(r, work[r][w])
                 item == [work[r][w] EXCEPT !.st = "computed", !.bufs = bufs]
      <4>1. bufs \in Seq(Buffer \cup {NoBuffer})
        BY <2>2, ResultBuffersType
      <4>2. item \in Claim
        BY <2>2, <4>1 DEF Claim
      <4>3. work' = [work EXCEPT ![r][w] = item]
        BY <3>1 DEF Compute
      <4> QED
        BY <4>2, <4>3
    <3>2. CASE ComputeError(r, w)
      <4>1. [work[r][w] EXCEPT !.st = "error"] \in Claim
        BY <2>2 DEF Claim
      <4> QED
        BY <3>2, <4>1 DEF ComputeError
    <3> QED
      BY <2>1, <3>1, <3>2
  <2>4. UNCHANGED <<g, pc, step, pos, tensors, refs, pool>>
    BY <2>1 DEF Compute, ComputeError
  <2>5. /\ work' \in [Run -> Seq(Claim')]
        /\ \A s \in Run : Len(work'[s]) = Len(work[s])
    BY <2>3, <2>4, ItemReplaced
  <2>6. pc[r] = "compute" /\ \A s \in Run \ {r} : work'[s] = work[s]
    BY <2>1, <2>3 DEF Compute, ComputeError
  <2>7. TypeOK'
    BY <2>4, <2>5 DEF Buffer
  <2>8. ASSUME NEW s \in Run PROVE CursorOf(s)'
    BY <2>4, <2>5, <2>6 DEF CursorOf, Batch
  <2> QED
    BY <2>7, <2>8
<1>7. CASE Join(r)
  <2>1. TypeOK'
    BY <1>7, ClaimUnchanged DEF Join, Buffer
  <2>2. ASSUME NEW s \in Run PROVE CursorOf(s)'
    BY <1>7 DEF Join, CursorOf, Batch
  <2> QED
    BY <2>1, <2>2
<1>8. CASE Write(r)
  <2>1. /\ pc[r] = "write" /\ Advance(r, "release")
        /\ UNCHANGED <<g, step, refs, content>>
    BY <1>8 DEF Write
  <2>2. pos[r] \in DOMAIN work[r] /\ work[r][pos[r]] \in Claim
    <3>1. pos[r] \in 1 .. Len(work[r]) /\ work[r] \in Seq(Claim)
      BY <2>1 DEF CursorOf
    <3> QED
      BY <3>1, LenProperties, ElementOfSeq
  <2> DEFINE item == work[r][pos[r]]
  <2>3. item.bufs \in Seq(Buffer \cup {NoBuffer}) /\ item.node \in Nodes(g)
    BY <2>2 DEF Claim
  <2>4. DOMAIN item.bufs = 1 .. Len(item.bufs) /\ Len(item.bufs) \in Nat
    BY <2>3, LenProperties
  <2>5. ASSUME NEW k \in 1 .. Len(item.bufs) PROVE item.bufs[k] \in Buffer \cup {NoBuffer}
    BY <2>3, ElementOfSeq
  <2>6. ASSUME NEW n \in Name, StoredAt(item, n) # 0
        PROVE  StoredAt(item, n) \in 1 .. Len(item.bufs)
    <3> DEFINE last == FirstOf(Len(g.outs[item.node]), Len(item.bufs))
               at == {k \in 1 .. last :
                        /\ g.outs[item.node][k] = n
                        /\ \A l \in k + 1 .. last : g.outs[item.node][l] # n}
    <3>1. Len(g.outs[item.node]) \in Nat
      <4>1. g \in Sessions
        BY DEF TypeOK
      <4>2. item.node \in Nodes(g)
        BY <2>3
      <4> HIDE DEF item
      <4> QED
        BY ONLY <4>1, <4>2, NodeType
    <3>2. last \in Nat /\ last <= Len(item.bufs)
      <4> DEFINE a == Len(g.outs[item.node])
                 b == Len(item.bufs)
      <4>1. a \in Nat /\ b \in Nat
        BY <2>4, <3>1
      <4> HIDE DEF a, b
      <4>2. FirstOf(a, b) \in Nat /\ FirstOf(a, b) <= b
        BY ONLY <4>1 DEF FirstOf
      <4> QED
        BY <4>2, Zenon DEF a, b
    <3>3. StoredAt(item, n) \in at
      BY <2>6, Zenon DEF StoredAt
    <3>4. at \subseteq 1 .. last
      BY Zenon
    <3>5. StoredAt(item, n) \in 1 .. last
      BY ONLY <3>3, <3>4
    <3>6. ASSUME NEW k \in 1 .. last PROVE k \in 1 .. Len(item.bufs)
      <4> HIDE DEF last, item
      <4> QED
        BY <3>2, <2>4
    <3> HIDE DEF at, last, item
    <3> QED
      BY ONLY <3>5, <3>6
  <2>7. tensors' \in [Run -> Tensors]
    <3> DEFINE stored == [n \in Name |-> IF StoredAt(item, n) = 0 THEN tensors[r][n]
                                          ELSE item.bufs[StoredAt(item, n)]]
    <3>1. stored \in Tensors
      BY <2>5, <2>6
    <3>2. tensors' = [tensors EXCEPT ![r] = stored]
      BY <1>8 DEF Write
    <3> QED
      BY <3>1, <3>2
  <2>8. pool' \in SUBSET Buffer
    <3> DEFINE displaced == {tensors[r][n] : n \in {m \in Name : StoredAt(item, m) # 0}}
               unstored == {item.bufs[k] : k \in Unstored(item, Batch(r).checked)}
    <3>1. displaced \subseteq Buffer \cup {NoBuffer}
      OBVIOUS
    <3>2. unstored \subseteq Buffer \cup {NoBuffer}
      BY <2>4, <2>5 DEF Unstored
    <3>3. pool' = pool \cup Pooled((displaced \cup unstored) \ {NoBuffer})
      BY <1>8 DEF Write
    <3> QED
      BY <3>1, <3>2, <3>3 DEF Pooled
  <2>9. /\ work' \in [Run -> Seq(Claim')]
        /\ \A s \in Run : Len(work'[s]) = Len(work[s])
    <3>1. [item EXCEPT !.bufs = <<>>] \in Claim
      BY <2>2, EmptySeq DEF Claim
    <3>2. work' = [work EXCEPT ![r][pos[r]] = [item EXCEPT !.bufs = <<>>]]
      BY <1>8 DEF Write
    <3> QED
      BY <2>1, <2>2, <3>1, <3>2, ItemReplaced
  <2>10. TypeOK'
    BY <2>1, <2>7, <2>8, <2>9, AdvanceType DEF Buffer
  <2>11. ASSUME NEW s \in Run PROVE CursorOf(s)'
    <3>1. CASE s = r
      <4>1. /\ pos'[r] \in 1 .. Len(Batch(r).nodes)
            /\ pc'[r] \in {"write", "release"}
        BY <2>1, AdvanceType
      <4> QED
        BY <2>1, <2>9, <3>1, <4>1 DEF CursorOf, Batch
    <3>2. CASE s # r
      <4>1. work'[s] = work[s] /\ pos'[s] = pos[s] /\ pc'[s] = pc[s]
        BY <1>8, <2>1, <3>2, AdvanceType DEF Write
      <4> QED
        BY <2>1, <4>1 DEF CursorOf, Batch
    <3> QED
      BY <3>1, <3>2
  <2> QED
    BY <2>10, <2>11
<1>9. CASE Release(r)
  <2>1. pc[r] = "release" /\ Advance(r, "claim") /\ UNCHANGED <<g, content>>
    BY <1>9 DEF Release
  <2> DEFINE i == Batch(r).nodes[pos[r]]
  <2>2. i \in Nodes(g) /\ pos[r] \in 1 .. Len(Batch(r).nodes) /\ step[r] \in DOMAIN g.batches
    <3>1. pos[r] \in 1 .. Len(Batch(r).nodes) /\ step[r] \in DOMAIN g.batches
      BY <2>1 DEF CursorOf
    <3>2. Batch(r).nodes \in Seq(Nodes(g))
      BY <3>1, BatchType DEF Batch
    <3> QED
      BY <3>1, <3>2, ElementOfSeq
  <2>3. RefsAfter(g, refs[r], i) \in [Name -> Nat]
    <3>1. ASSUME NEW n \in Name PROVE Cardinality(Uses(g, i, n)) \in Nat
      BY <2>2, UsesFinite, FS_CardinalityType, SessionsAssumption
    <3> QED
      BY <3>1 DEF RefsAfter
  <2>4. /\ refs' \in [Run -> [Name -> Nat]]
        /\ tensors' \in [Run -> Tensors]
        /\ pool' \in SUBSET Buffer
        /\ step' \in [Run -> Nat \ {0}]
    <3>1. refs' \in [Run -> [Name -> Nat]]
      BY <1>9, <2>3 DEF Release
    <3>2. tensors' \in [Run -> Tensors]
      BY <1>9 DEF Release
    <3>3. step' \in [Run -> Nat \ {0}]
      BY <1>9 DEF Release
    <3>4. pool' \in SUBSET Buffer
      <4> DEFINE dead == LastUsed(g, refs[r], i)
      <4>1. dead \subseteq Name
        BY DEF LastUsed
      <4>2. pool' = pool \cup Pooled({tensors[r][n] : n \in dead} \ {NoBuffer})
        BY <1>9 DEF Release
      <4> QED
        BY <4>1, <4>2 DEF Pooled
    <3> QED
      BY <3>1, <3>2, <3>3, <3>4
  <2>5. work' \in [Run -> Seq(Claim)]
    BY <1>9, EmptySeq DEF Release
  <2>6. TypeOK'
    BY <2>1, <2>4, <2>5, AdvanceType, ClaimUnchanged DEF Buffer
  <2>7. ASSUME NEW s \in Run PROVE CursorOf(s)'
    <3>1. CASE s = r /\ LastOfBatch(r)
      <4>1. /\ step'[r] = step[r] + 1 /\ work'[r] = <<>>
            /\ pos'[r] = 1 /\ pc'[r] = "claim"
        BY <1>9, <2>1, <3>1, AdvanceType DEF Release
      <4>2. /\ Len(g.batches) \in Nat /\ step[r] \in 1 .. Len(g.batches)
            /\ step[r] # Len(g.batches) =>
                 Len(g.batches[step[r] + 1].nodes) \in Nat \ {0}
        BY <2>2, BatchType
      <4> QED
        BY <2>1, <3>1, <4>1, <4>2, EmptySeq DEF CursorOf, Batch
    <3>2. CASE s = r /\ ~LastOfBatch(r)
      <4>1. /\ step'[r] = step[r] /\ work'[r] = work[r]
            /\ pos'[r] \in 1 .. Len(Batch(r).nodes) /\ pc'[r] = "release"
        BY <1>9, <2>1, <3>2, AdvanceType DEF Release
      <4> QED
        BY <2>1, <3>2, <4>1 DEF CursorOf, Batch
    <3>3. CASE s # r
      <4>1. /\ step'[s] = step[s] /\ work'[s] = work[s]
            /\ pos'[s] = pos[s] /\ pc'[s] = pc[s]
        BY <1>9, <2>1, <3>3, AdvanceType DEF Release
      <4> QED
        BY <2>1, <4>1 DEF CursorOf, Batch
    <3> QED
      BY <3>1, <3>2, <3>3
  <2> QED
    BY <2>6, <2>7
<1>10. CASE Finish(r) \/ FinishError(r)
  <2>1. /\ pc' \in [Run -> {"idle", "claim", "compute", "write", "release", "done", "failed"}]
        /\ pc'[r] \in {"done", "failed"} /\ \A s \in Run \ {r} : pc'[s] = pc[s]
        /\ UNCHANGED <<g, step, pos, refs, work, content>>
    <3>1. CASE Finish(r)
      BY <3>1 DEF Finish
    <3>2. CASE FinishError(r)
      BY <3>2 DEF FinishError
    <3> QED
      BY <1>10, <3>1, <3>2
  <2>2. tensors' \in [Run -> Tensors]
    <3>1. CASE Finish(r)
      BY <3>1 DEF Finish
    <3>2. CASE FinishError(r)
      BY <3>2 DEF FinishError
    <3> QED
      BY <1>10, <3>1, <3>2
  <2>3. pool' \in SUBSET Buffer
    BY <1>10 DEF Finish, FinishError, Leftover, Pooled
  <2>4. TypeOK'
    BY <2>1, <2>2, <2>3, ClaimUnchanged DEF Buffer
  <2>5. ASSUME NEW s \in Run PROVE CursorOf(s)'
    BY <2>1 DEF CursorOf, Batch
  <2> QED
    BY <2>4, <2>5
<1> QED
  BY <1>1, <1>2, <1>3, <1>4, <1>5, <1>6, <1>7, <1>8, <1>9, <1>10 DEF Step

(* The type invariant, with the cursor, holds of every run's every state.   *)
THEOREM TInvCorrect == Spec => []TInv
<1>1. Init => TInv
  BY InitTInv
<1>2. TInv /\ [Next]_vars => TInv'
  <2> SUFFICES ASSUME TInv, [Next]_vars PROVE TInv'
    OBVIOUS
  <2>1. CASE Next
    BY <2>1, StepTInv DEF Next
  <2>2. CASE UNCHANGED vars
    <3>1. TypeOK'
      BY <2>2, ClaimUnchanged DEF vars, TInv, TypeOK, Buffer
    <3>2. Cursor'
      BY <2>2 DEF vars, TInv, Cursor, CursorOf, Batch
    <3> QED
      BY <3>1, <3>2 DEF TInv
  <2> QED
    BY <2>1, <2>2
<1> QED
  BY <1>1, <1>2, PTL DEF Spec

(* Every variable holds what its comment in RunEngine says, always.         *)
THEOREM TypeCorrect == Spec => []TypeOK
<1>1. TInv => TypeOK
  BY DEF TInv
<1> QED
  BY <1>1, TInvCorrect, PTL
-----------------------------------------------------------------------------
(* Exact reference counts.                                                  *)

(* Position (b, k) of the schedule.                                         *)
LEMMA PositionOf ==
  ASSUME TypeOK, NEW b \in DOMAIN g.batches, NEW k \in 1 .. Len(g.batches[b].nodes)
  PROVE  <<b, k>> \in Positions(g) /\ NodeAt(g, <<b, k>>) = g.batches[b].nodes[k]
<1>1. k \in DOMAIN g.batches[b].nodes /\ k \in 1 .. g.n
  <2>1. /\ DOMAIN g.batches[b].nodes = 1 .. Len(g.batches[b].nodes)
        /\ Len(g.batches[b].nodes) \in Nat /\ Len(g.batches[b].nodes) <= g.n
    BY BatchType DEF TypeOK
  <2>2. g.n \in Nat
    BY SessionsAssumption DEF TypeOK, IsSession, IsGraph
  <2> QED
    BY <2>1, <2>2
<1> QED
  BY <1>1 DEF Positions, NodeAt

(* A position of the schedule is a pair of a batch and an index into it.    *)
LEMMA PositionPair ==
  ASSUME TypeOK, NEW q \in Positions(g)
  PROVE  /\ q[1] \in DOMAIN g.batches /\ q[1] \in Nat
         /\ q[2] \in 1 .. Len(g.batches[q[1]].nodes)
         /\ q = <<q[1], q[2]>>
<1>1. q[1] \in DOMAIN g.batches /\ q[2] \in DOMAIN g.batches[q[1]].nodes /\ q = <<q[1], q[2]>>
  BY DEF Positions
<1> QED
  BY <1>1, BatchType DEF TypeOK

(* One node further in the batch.                                           *)
LEMMA NextNode ==
  ASSUME TypeOK, NEW b \in DOMAIN g.batches, NEW k \in 1 .. Len(g.batches[b].nodes)
  PROVE  /\ NodesBefore(b, k + 1) = NodesBefore(b, k) \cup {g.batches[b].nodes[k]}
         /\ g.batches[b].nodes[k] \notin NodesBefore(b, k)
<1> DEFINE P(j) == {q \in Positions(g) : q[1] < b \/ (q[1] = b /\ q[2] < j)}
<1>0. b \in Nat /\ k \in Nat
  BY BatchType DEF TypeOK
<1>1. <<b, k>> \in Positions(g) /\ NodeAt(g, <<b, k>>) = g.batches[b].nodes[k]
  BY PositionOf
<1>2. P(k + 1) = P(k) \cup {<<b, k>>}
  <2>1. ASSUME NEW q \in P(k + 1) PROVE q \in P(k) \cup {<<b, k>>}
    BY <1>0, PositionPair
  <2>2. P(k) \subseteq P(k + 1)
    <3>1. ASSUME NEW q \in P(k) PROVE q \in P(k + 1)
      BY <1>0, PositionPair
    <3> QED
      BY <3>1
  <2>3. <<b, k>> \in P(k + 1)
    BY <1>0, <1>1
  <2> QED
    BY <2>1, <2>2, <2>3
<1>3. NodesBefore(b, k + 1) = NodesBefore(b, k) \cup {g.batches[b].nodes[k]}
  BY <1>1, <1>2 DEF NodesBefore
<1>4. g.batches[b].nodes[k] \notin NodesBefore(b, k)
  <2>1. SUFFICES ASSUME NEW q \in P(k), NodeAt(g, q) = NodeAt(g, <<b, k>>) PROVE FALSE
    BY <1>1 DEF NodesBefore
  <2>2. q = <<b, k>>
    BY <1>1, <2>1, SessionsAssumption DEF TypeOK, IsSession, IsSchedule
  <2> QED
    BY <1>0, <2>1, <2>2
<1> QED
  BY <1>3, <1>4

(* Past the last node of a batch begins the next one.                       *)
LEMMA NextBatch ==
  ASSUME TypeOK, NEW b \in DOMAIN g.batches
  PROVE  NodesBefore(b + 1, 1) = NodesBefore(b, Len(g.batches[b].nodes) + 1)
<1>0. b \in Nat /\ Len(g.batches[b].nodes) \in Nat
  BY BatchType DEF TypeOK
<1>1. ASSUME NEW q \in Positions(g)
      PROVE  (q[1] < b + 1 \/ (q[1] = b + 1 /\ q[2] < 1))
               <=> (q[1] < b \/ (q[1] = b /\ q[2] < Len(g.batches[b].nodes) + 1))
  BY <1>0, PositionPair
<1> QED
  BY <1>1 DEF NodesBefore

(* Nothing comes before the first node.                                     *)
LEMMA NothingBefore ==
  ASSUME TypeOK
  PROVE  NodesBefore(1, 1) = {}
<1>1. ASSUME NEW q \in Positions(g) PROVE ~ (q[1] < 1 \/ (q[1] = 1 /\ q[2] < 1))
  <2>1. q[1] \in 1 .. Len(g.batches) /\ Len(g.batches) \in Nat
    BY PositionPair, BatchType DEF TypeOK
  <2>2. q[2] \in 1 .. Len(g.batches[q[1]].nodes)
    BY PositionPair
  <2> QED
    BY <2>1, <2>2
<1> QED
  BY <1>1 DEF NodesBefore

(* A release takes exactly its node out of the pending ones.                *)
LEMMA ReleasePending ==
  ASSUME TInv, NEW r \in Run, Release(r)
  PROVE  LET i == Batch(r).nodes[pos[r]] IN
         /\ i \in Pending(r)
         /\ Pending(r)' = Pending(r) \ {i}
<1> USE DEF TInv
<1>1. pc[r] = "release" /\ Advance(r, "claim") /\ UNCHANGED g
  BY DEF Release
<1>2. step[r] \in DOMAIN g.batches /\ pos[r] \in 1 .. Len(Batch(r).nodes)
  BY <1>1 DEF Cursor, CursorOf
<1> DEFINE b == step[r]
           k == pos[r]
           i == Batch(r).nodes[pos[r]]
<1>3. i \in Nodes(g) /\ i = g.batches[b].nodes[k]
  <2>1. Batch(r).nodes \in Seq(Nodes(g))
    BY <1>2, BatchType DEF Batch, TypeOK
  <2> QED
    BY <1>2, <2>1, ElementOfSeq DEF Batch
<1>4. /\ NodesBefore(b, k + 1) = NodesBefore(b, k) \cup {i}
      /\ i \notin NodesBefore(b, k)
  BY <1>2, <1>3, NextNode DEF Batch
<1>5. Pending(r) = Nodes(g) \ NodesBefore(b, k)
  BY <1>1 DEF Pending, Released
<1>6. Pending(r)' = Nodes(g) \ NodesBefore(b, k + 1)
  <2>1. CASE LastOfBatch(r)
    <3>1. pc'[r] = "claim" /\ step'[r] = b + 1 /\ k = Len(g.batches[b].nodes)
      BY <1>1, <2>1, AdvanceType DEF Release, TypeOK, LastOfBatch, Batch
    <3>2. Pending(r)' = Nodes(g) \ NodesBefore(b + 1, 1)
      BY <1>1, <3>1 DEF Pending, Released, NodesBefore, Positions, NodeAt, Nodes
    <3> QED
      BY <1>2, <3>1, <3>2, NextBatch
  <2>2. CASE ~LastOfBatch(r)
    <3>1. pc'[r] = "release" /\ step'[r] = b /\ pos'[r] = k + 1
      BY <1>1, <2>2, AdvanceType DEF Release, TypeOK
    <3> QED
      BY <1>1, <3>1 DEF Pending, Released, NodesBefore, Positions, NodeAt, Nodes
  <2> QED
    BY <2>1, <2>2
<1> QED
  BY <1>3, <1>4, <1>5, <1>6

(* What is pending stays pending in every other step of an active run.      *)
LEMMA StepPending ==
  ASSUME TInv, NEW r \in Run, Step(r), ~Release(r), Active(r), Active(r)'
  PROVE  /\ UNCHANGED <<g, refs>>
         /\ Pending(r)' = Pending(r)
<1>1. /\ UNCHANGED <<g, refs, step>>
      /\ pc[r] # "release"
      /\ pc'[r] = "release" => pos'[r] = 1
  <2> USE DEF TInv, TypeOK
  <2>1. CASE ClaimInplace(r) \/ ClaimSlots(r) \/ ClaimFresh(r)
    BY <2>1 DEF ClaimInplace, ClaimSlots, ClaimFresh, Claimed, Claiming
  <2>2. CASE ClaimError(r) \/ WriteError(r)
    BY <2>2 DEF ClaimError, WriteError, Fail, Active
  <2>3. CASE \E w \in DOMAIN work[r] : Compute(r, w) \/ ComputeError(r, w)
    BY <2>3 DEF Compute, ComputeError
  <2>4. CASE Join(r)
    BY <2>4 DEF Join
  <2>5. CASE Write(r)
    BY <2>5, AdvanceType DEF Write
  <2>6. CASE Finish(r) \/ FinishError(r)
    BY <2>6 DEF Finish, FinishError, Active
  <2> QED
    BY <2>1, <2>2, <2>3, <2>4, <2>5, <2>6 DEF Step
<1> QED
  BY <1>1 DEF Pending, Released, NodesBefore, Positions, NodeAt, Nodes

(* RefCountsExact, for one run.                                             *)
CountsExact(r) ==
  Active(r) => \A n \in Name \ g.weights :
    refs[r][n] = Cardinality(UsesBy(g, Pending(r), n)) + OutputRefs(g, n)

CountInv == TInv /\ \A r \in Run : CountsExact(r)

(* Every step of the run keeps its counts exact.                            *)
LEMMA StepCountsExact ==
  ASSUME TInv, NEW r \in Run, CountsExact(r), Start(r) \/ Reject(r) \/ Step(r)
  PROVE  CountsExact(r)'
<1> USE DEF TInv, TypeOK
<1>0. IsSession(g)
  BY SessionsAssumption
<1>1. CASE Start(r)
  <2>1. step'[r] = 1 /\ pc'[r] = "claim" /\ UNCHANGED g /\ refs'[r] = BaseRefCounts(g)
    BY <1>1 DEF Start, Cursor, CursorOf
  <2>2. Pending(r)' = Nodes(g)
    <3>1. Pending(r)' = Nodes(g) \ NodesBefore(1, 1)
      BY <2>1 DEF Pending, Released, NodesBefore, Positions, NodeAt, Nodes
    <3> QED
      BY <3>1, NothingBefore
  <2>3. ASSUME NEW n \in Name \ g.weights
        PROVE  /\ OutputRefs(g, n) \in Nat
               /\ Cardinality(UsesBy(g, Nodes(g), n)) \in Nat
               /\ refs'[r][n] = OutputRefs(g, n) + Cardinality(UsesBy(g, Nodes(g), n))
    BY <1>0, <2>1, OutputRefsNat, UsesByFinite DEF BaseRefCounts
  <2> QED
    BY <2>1, <2>2, <2>3 DEF CountsExact
<1>2. CASE Reject(r)
  BY <1>2 DEF Reject, Fail, CountsExact, Active
<1>3. CASE Release(r)
  <2> DEFINE i == Batch(r).nodes[pos[r]]
  <2>1. /\ Active(r) /\ UNCHANGED g
        /\ refs'[r] = RefsAfter(g, refs[r], i)
    BY <1>3 DEF Release, Active
  <2>2. /\ i \in Pending(r) /\ Pending(r)' = Pending(r) \ {i}
        /\ Pending(r) \in SUBSET Nodes(g)
    BY <1>3, ReleasePending DEF Pending
  <2>3. ASSUME NEW n \in Name \ g.weights
        PROVE  refs'[r][n] = Cardinality(UsesBy(g, Pending(r) \ {i}, n)) + OutputRefs(g, n)
    <3> DEFINE before == Cardinality(UsesBy(g, Pending(r), n))
               after == Cardinality(UsesBy(g, Pending(r) \ {i}, n))
               used == Cardinality(Uses(g, i, n))
    <3>1. before = after + used
      BY <1>0, <2>2, UsesBySplit
    <3>2. before \in Nat /\ after \in Nat /\ used \in Nat /\ OutputRefs(g, n) \in Nat
      <4>1. Pending(r) \ {i} \in SUBSET Nodes(g) /\ i \in Nodes(g)
        BY <2>2
      <4>2. IsFiniteSet(UsesBy(g, Pending(r) \ {i}, n)) /\ IsFiniteSet(Uses(g, i, n))
        BY <1>0, <4>1, UsesByFinite, UsesFinite
      <4>3. OutputRefs(g, n) \in Nat
        BY <1>0, OutputRefsNat
      <4>4. after \in Nat /\ used \in Nat
        BY <4>2, FS_CardinalityType
      <4> HIDE DEF before, after, used
      <4> QED
        BY <3>1, <4>3, <4>4
    <3>3. refs[r][n] = before + OutputRefs(g, n)
      BY <2>1 DEF CountsExact
    <3>4. refs'[r][n] = IF refs[r][n] <= used THEN 0 ELSE refs[r][n] - used
      BY <2>1 DEF RefsAfter
    <3> HIDE DEF before, after, used
    <3>5. refs'[r][n] = after + OutputRefs(g, n)
      BY ONLY <3>1, <3>2, <3>3, <3>4
    <3> QED
      BY <3>5 DEF after
  <2> QED
    BY <2>1, <2>2, <2>3 DEF CountsExact
<1>4. CASE Step(r) /\ ~Release(r)
  <2>1. CASE Active(r) /\ Active(r)'
    <3>1. UNCHANGED <<g, refs>> /\ Pending(r)' = Pending(r)
      BY <1>4, <2>1, StepPending
    <3> QED
      BY <2>1, <3>1 DEF CountsExact
  <2>2. CASE ~Active(r)'
    BY <2>2 DEF CountsExact
  <2>3. CASE ~Active(r)
    BY <1>4, <2>3 DEF Step, Active, ClaimInplace, ClaimSlots, ClaimFresh, ClaimError,
         Claiming, Compute, ComputeError, Join, Write, WriteError, Finish, FinishError, Finished
  <2> QED
    BY <2>1, <2>2, <2>3
<1> QED
  BY <1>1, <1>2, <1>3, <1>4

(* A step of one run leaves the counts and the cursor of the others alone.  *)
LEMMA OthersUntouched ==
  ASSUME TInv, NEW r \in Run, Start(r) \/ Reject(r) \/ Step(r), NEW s \in Run \ {r}
  PROVE  /\ UNCHANGED g
         /\ pc'[s] = pc[s] /\ step'[s] = step[s] /\ pos'[s] = pos[s] /\ refs'[s] = refs[s]
<1> USE DEF TInv, TypeOK
<1>1. CASE Start(r)
  BY <1>1 DEF Start
<1>2. CASE Reject(r) \/ ClaimError(r) \/ WriteError(r)
  BY <1>2 DEF Reject, ClaimError, WriteError, Fail
<1>3. CASE ClaimInplace(r) \/ ClaimSlots(r) \/ ClaimFresh(r)
  BY <1>3 DEF ClaimInplace, ClaimSlots, ClaimFresh, Claimed
<1>4. CASE \E w \in DOMAIN work[r] : Compute(r, w) \/ ComputeError(r, w)
  BY <1>4 DEF Compute, ComputeError
<1>5. CASE Join(r)
  BY <1>5 DEF Join
<1>6. CASE Write(r)
  BY <1>6, AdvanceType DEF Write
<1>7. CASE Release(r)
  BY <1>7, AdvanceType DEF Release
<1>8. CASE Finish(r) \/ FinishError(r)
  BY <1>8 DEF Finish, FinishError
<1> QED
  BY <1>1, <1>2, <1>3, <1>4, <1>5, <1>6, <1>7, <1>8 DEF Step

LEMMA CountInvCorrect == Spec => []CountInv
<1>1. Init => CountInv
  BY InitTInv DEF CountInv, CountsExact, Active, Init
<1>2. CountInv /\ [Next]_vars => CountInv'
  <2> SUFFICES ASSUME CountInv, [Next]_vars PROVE CountInv'
    OBVIOUS
  <2>1. CASE Next
    <3>1. PICK r \in Run : Start(r) \/ Reject(r) \/ Step(r)
      BY <2>1 DEF Next
    <3>2. TInv'
      BY <3>1, StepTInv DEF CountInv
    <3>3. CountsExact(r)'
      BY <3>1, StepCountsExact DEF CountInv
    <3>4. ASSUME NEW s \in Run \ {r} PROVE CountsExact(s)'
      <4>1. /\ UNCHANGED g /\ pc'[s] = pc[s] /\ step'[s] = step[s] /\ pos'[s] = pos[s]
            /\ refs'[s] = refs[s]
        BY <3>1, OthersUntouched DEF CountInv
      <4> QED
        BY <4>1 DEF CountInv, CountsExact, Active, Pending, Released, NodesBefore, Positions,
             NodeAt, Nodes
    <3> QED
      BY <3>2, <3>3, <3>4 DEF CountInv
  <2>2. CASE UNCHANGED vars
    <3>1. TInv'
      <4>1. TypeOK'
        BY <2>2, ClaimUnchanged DEF vars, CountInv, TInv, TypeOK, Buffer
      <4>2. Cursor'
        BY <2>2 DEF vars, CountInv, TInv, Cursor, CursorOf, Batch
      <4> QED
        BY <4>1, <4>2 DEF TInv
    <3>2. ASSUME NEW s \in Run PROVE CountsExact(s)'
      BY <2>2 DEF vars, CountInv, CountsExact, Active, Pending, Released, NodesBefore, Positions,
           NodeAt, Nodes
    <3> QED
      BY <3>1, <3>2 DEF CountInv
  <2> QED
    BY <2>1, <2>2
<1> QED
  BY <1>1, <1>2, PTL DEF Spec

(* In every state of every run the count of a name is the number of uses    *)
(* still to be released plus its declarations as an output: the seed that   *)
(* base_ref_counts precomputes and the decrements of decrement_refs_state   *)
(* agree whatever the graph, the schedule and the interleaving of runs.     *)
THEOREM CountsCorrect == Spec => []RefCountsExact
<1>1. CountInv => RefCountsExact
  BY DEF CountInv, CountsExact, RefCountsExact
<1> QED
  BY <1>1, CountInvCorrect, PTL

-----------------------------------------------------------------------------
(* Who owns a buffer, and for how long.                                     *)
(*                                                                          *)
(* Ownership follows each buffer from the place that allocates it: a        *)
(* buffer still to come belongs to nobody, what a step allocates was still  *)
(* to come and is no longer, and everything else a step only hands over     *)
(* between the names, the claims and the pool.                              *)
(*                                                                          *)
(* How long follows from the reference counts: nothing is taken while a     *)
(* pending node uses it, and what no pending node uses is let go.           *)

(* The buffers run r holds under a name, and in a claim of its batch.       *)
InNames(r) == {tensors[r][n] : n \in Name} \ {NoBuffer}
InClaims(r) == UNION {BuffersOf(work[r][w].bufs) : w \in DOMAIN work[r]}
Own(r) == InNames(r) \cup InClaims(r)

(* The nodes run r has not claimed yet.                                     *)
Unclaimed(r) ==
  {NodeAt(g, p) : p \in {q \in Positions(g) :
     q[1] > step[r] \/ (q[1] = step[r] /\ q[2] > Len(work[r]))}}

(* Node i is claimed and still has to allocate its results.                 *)
Allocates(r, i) == \E w \in DOMAIN work[r] :
  /\ work[r][w].node = i
  /\ work[r][w].st = "claimed" /\ work[r][w].how # "slots"

(* The buffers run r may still allocate.                                    *)
ToCome(r) == {b \in Buffer :
  /\ b[1] = r
  /\ pc[r] \notin {"done", "failed"}
  /\ \/ pc[r] = "idle"
     \/ b[2] \in Unclaimed(r)
     \/ Allocates(r, b[2]) /\ b[3] <= g.arity[b[2]]}

(* The claims of a batch are its nodes, in order.                           *)
ClaimsInOrder(r) == \A w \in DOMAIN work[r] : work[r][w].node = Batch(r).nodes[w]

(* Inside run r no buffer is in two places.                                 *)
NamesApart(r) == \A m, n \in Name :
  Held(r, m) /\ tensors[r][m] = tensors[r][n] => m = n
ClaimsApart(r) == \A w, v \in DOMAIN work[r] :
  \A k \in DOMAIN work[r][w].bufs, l \in DOMAIN work[r][v].bufs :
    work[r][w].bufs[k] = work[r][v].bufs[l] /\ work[r][w].bufs[k] # NoBuffer
      => w = v /\ k = l
OwnOnce(r) == NamesApart(r) /\ ClaimsApart(r) /\ InNames(r) \cap InClaims(r) = {}

(* ... nor is it in one place of r and one of another run or the pool.      *)
OwnAlone(r) ==
  /\ Own(r) \cap pool = {}
  /\ ToCome(r) \cap (Own(r) \cup pool) = {}
  /\ \A s \in Run \ {r} : Own(r) \cap Own(s) = {} /\ ToCome(r) \cap Own(s) = {}

Unshared == \A r \in Run : OwnOnce(r) /\ OwnAlone(r)

IInv == TInv /\ (\A r \in Run : ClaimsInOrder(r)) /\ Unshared

-----------------------------------------------------------------------------
(* A step of one run that allocates the buffers New and otherwise only      *)
(* hands its own and the pool's around keeps every buffer with one owner.   *)
LEMMA Handover ==
  ASSUME Unshared, NEW r \in Run, NEW New, New \subseteq ToCome(r), UNCHANGED g,
         \A s \in Run \ {r} : /\ tensors'[s] = tensors[s] /\ work'[s] = work[s]
                              /\ pc'[s] = pc[s] /\ step'[s] = step[s],
         OwnOnce(r)', (Own(r) \cap pool)' = {},
         (Own(r) \cup pool)' \subseteq Own(r) \cup pool \cup New,
         ToCome(r)' \subseteq ToCome(r) \ New
  PROVE  Unshared'
<1>1. ASSUME NEW s \in Run \ {r}
      PROVE  Own(s)' = Own(s) /\ ToCome(s)' = ToCome(s)
  <2>1. Own(s)' = Own(s)
    BY DEF Own, InNames, InClaims
  <2>2. ToCome(s)' = ToCome(s)
    <3>1. Unclaimed(s)' = Unclaimed(s)
      BY DEF Unclaimed, Positions, NodeAt
    <3>2. \A i : Allocates(s, i)' <=> Allocates(s, i)
      BY DEF Allocates
    <3> QED
      BY <3>1, <3>2 DEF ToCome, Buffer
  <2> QED
    BY <2>1, <2>2
<1>2. ASSUME NEW s \in Run \ {r} PROVE ToCome(s) \cap ToCome(r) = {}
  BY DEF ToCome
<1>3. OwnAlone(r)'
  <2>1. ToCome(r)' \cap (Own(r)' \cup pool') = {}
    BY DEF Unshared, OwnAlone
  <2>2. ASSUME NEW s \in Run \ {r}
        PROVE  Own(r)' \cap Own(s)' = {} /\ ToCome(r)' \cap Own(s)' = {}
    <3>1. OwnAlone(s) /\ OwnAlone(r)
      BY DEF Unshared
    <3>2. Own(r) \cap Own(s) = {} /\ pool \cap Own(s) = {} /\ ToCome(r) \cap Own(s) = {}
      BY <3>1 DEF OwnAlone
    <3>3. Own(s)' = Own(s)
      BY <1>1
    <3> QED
      BY <3>2, <3>3
  <2> QED
    BY <2>1, <2>2 DEF OwnAlone
<1>4. ASSUME NEW s \in Run \ {r} PROVE OwnOnce(s)' /\ OwnAlone(s)'
  <2>1. OwnAlone(s) /\ OwnAlone(r) /\ OwnOnce(s)
    BY DEF Unshared
  <2>2. Own(s)' = Own(s) /\ ToCome(s)' = ToCome(s)
    BY <1>1
  <2>3. OwnOnce(s)'
    BY <2>1 DEF OwnOnce, NamesApart, ClaimsApart, InNames, InClaims, Held
  <2>4. /\ Own(s) \cap Own(r) = {} /\ Own(s) \cap pool = {} /\ Own(s) \cap ToCome(r) = {}
        /\ ToCome(s) \cap (Own(s) \cup pool) = {} /\ ToCome(s) \cap Own(r) = {}
    BY <2>1 DEF OwnAlone
  <2>5. ToCome(s) \cap New = {}
    BY <1>2
  <2>6. (Own(r)' \cup pool') \cap Own(s) = {} /\ (Own(r)' \cup pool') \cap ToCome(s) = {}
    BY <2>4, <2>5
  <2>7. ASSUME NEW t \in Run \ {s}
        PROVE  Own(s)' \cap Own(t)' = {} /\ ToCome(s)' \cap Own(t)' = {}
    <3>1. CASE t = r
      BY <2>2, <2>6, <3>1
    <3>2. CASE t # r
      <4>1. Own(t)' = Own(t)
        BY <1>1, <3>2
      <4>2. Own(s) \cap Own(t) = {} /\ ToCome(s) \cap Own(t) = {}
        BY <2>1 DEF OwnAlone
      <4> QED
        BY <2>2, <4>1, <4>2
    <3> QED
      BY <3>1, <3>2
  <2>8. OwnAlone(s)'
    <3>1. (Own(s) \cap pool)' = {} /\ (ToCome(s) \cap (Own(s) \cup pool))' = {}
      BY <2>2, <2>4, <2>6
    <3> QED
      BY <2>7, <3>1 DEF OwnAlone
  <2> QED
    BY <2>3, <2>8
<1> QED
  BY <1>3, <1>4 DEF Unshared

-----------------------------------------------------------------------------
(* The schedule and what is still to come.                                  *)

(* A node stands at one position of the schedule.                           *)
LEMMA PositionUnique ==
  ASSUME TypeOK, NEW p \in Positions(g), NEW q \in Positions(g), NodeAt(g, p) = NodeAt(g, q)
  PROVE  p = q
<1>1. \A u, v \in Positions(g) : NodeAt(g, u) = NodeAt(g, v) => u = v
  BY SessionsAssumption DEF TypeOK, IsSession, IsSchedule
<1> QED
  BY <1>1

(* A claim of the batch stands at a position of the schedule.               *)
LEMMA ClaimPosition ==
  ASSUME TInv, NEW r \in Run, pc[r] \notin {"idle", "done", "failed"},
         NEW w \in DOMAIN work[r]
  PROVE  /\ w \in Nat /\ w \in 1 .. Len(work[r]) /\ step[r] \in DOMAIN g.batches
         /\ w \in 1 .. Len(Batch(r).nodes)
         /\ <<step[r], w>> \in Positions(g)
         /\ NodeAt(g, <<step[r], w>>) = Batch(r).nodes[w]
         /\ work[r][w] \in Claim
<1>1. /\ work[r] \in Seq(Claim) /\ DOMAIN work[r] = 1 .. Len(work[r])
      /\ Len(work[r]) \in Nat
  BY LenProperties DEF TInv, TypeOK
<1>2. pc[r] \in {"claim", "compute", "write", "release"} /\ step[r] \in Nat \ {0}
  BY DEF TInv, TypeOK
<1>3. step[r] \in DOMAIN g.batches
  <2>1. Len(work[r]) # 0
    BY <1>1
  <2>2. work[r] # <<>>
    BY <2>1, EmptySeq
  <2>3. CASE pc[r] = "claim"
    BY <1>2, <2>2, <2>3, BatchType DEF TInv, TypeOK, Cursor, CursorOf
  <2>4. CASE pc[r] # "claim"
    BY <1>2, <2>4 DEF TInv, TypeOK, Cursor, CursorOf
  <2> QED
    BY <2>3, <2>4
<1>4. Len(work[r]) <= Len(Batch(r).nodes) /\ Len(Batch(r).nodes) \in Nat
  <2>1. Len(Batch(r).nodes) \in Nat /\ Len(g.batches) \in Nat
        /\ DOMAIN g.batches = 1 .. Len(g.batches)
    BY <1>3, BatchType DEF TInv, TypeOK, Batch
  <2> QED
    BY <1>1, <1>2, <1>3, <2>1 DEF TInv, Cursor, CursorOf
<1>5. w \in 1 .. Len(Batch(r).nodes) /\ w \in Nat
  BY <1>1, <1>4
<1>6. work[r][w] \in Claim
  BY <1>1, ElementOfSeq
<1> QED
  BY <1>1, <1>3, <1>5, <1>6, PositionOf DEF TInv, Batch

(* The claims of a batch are of different nodes.                            *)
LEMMA ClaimNodes ==
  ASSUME TInv, NEW r \in Run, pc[r] \notin {"idle", "done", "failed"}, ClaimsInOrder(r),
         NEW v \in DOMAIN work[r], NEW w \in DOMAIN work[r],
         work[r][v].node = work[r][w].node
  PROVE  v = w
<1>1. <<step[r], v>> = <<step[r], w>>
  <2>1. /\ <<step[r], v>> \in Positions(g) /\ <<step[r], w>> \in Positions(g)
        /\ NodeAt(g, <<step[r], v>>) = NodeAt(g, <<step[r], w>>)
    BY ClaimPosition DEF ClaimsInOrder
  <2> QED
    BY <2>1, PositionUnique DEF TInv
<1> QED
  BY <1>1

(* The node a run claims next: at its position, unclaimed, in no claim.     *)
LEMMA ClaimingNode ==
  ASSUME TInv, NEW r \in Run, ClaimsInOrder(r), NEW i \in Nodes(g), Claiming(r, i)
  PROVE  /\ i \in Unclaimed(r)
         /\ \A w \in DOMAIN work[r] : work[r][w].node # i
         /\ <<step[r], Len(work[r]) + 1>> \in Positions(g)
         /\ NodeAt(g, <<step[r], Len(work[r]) + 1>>) = i
         /\ Len(work[r]) \in Nat /\ step[r] \in Nat
<1> DEFINE c == Len(work[r]) + 1
<1>1. /\ pc[r] = "claim" /\ step[r] \in DOMAIN g.batches /\ step[r] \in Nat
      /\ i = g.batches[step[r]].nodes[c]
      /\ work[r] \in Seq(Claim) /\ DOMAIN work[r] = 1 .. Len(work[r]) /\ Len(work[r]) \in Nat
  BY LenProperties DEF TInv, TypeOK, Claiming, Batch
<1>2. c \in 1 .. Len(g.batches[step[r]].nodes)
  <2>1. Len(g.batches) \in Nat /\ DOMAIN g.batches = 1 .. Len(g.batches)
        /\ Len(g.batches[step[r]].nodes) \in Nat
    BY <1>1, BatchType DEF TInv, TypeOK
  <2>2. Len(work[r]) < Len(g.batches[step[r]].nodes)
    BY <1>1, <2>1 DEF TInv, Cursor, CursorOf, Batch
  <2> QED
    BY <1>1, <2>1, <2>2
<1>3. <<step[r], c>> \in Positions(g) /\ NodeAt(g, <<step[r], c>>) = i
  BY <1>1, <1>2, PositionOf DEF TInv
<1>4. i \in Unclaimed(r)
  BY <1>1, <1>3 DEF Unclaimed
<1>5. ASSUME NEW w \in DOMAIN work[r], work[r][w].node = i PROVE FALSE
  <2>1. /\ <<step[r], w>> \in Positions(g) /\ w \in 1 .. Len(work[r])
        /\ NodeAt(g, <<step[r], w>>) = i
    BY <1>1, <1>5, ClaimPosition DEF ClaimsInOrder
  <2>2. <<step[r], w>> = <<step[r], c>>
    BY <1>3, <2>1, PositionUnique DEF TInv
  <2> QED
    BY <1>1, <2>1, <2>2
<1> QED
  BY <1>1, <1>3, <1>4, <1>5

(* A claim takes its node out of the unclaimed ones, and the claims stay in *)
(* order.                                                                   *)
LEMMA ClaimedNode ==
  ASSUME TInv, NEW r \in Run, ClaimsInOrder(r), NEW i \in Nodes(g), Claiming(r, i),
         NEW item \in Claim, item.node = i, Claimed(r, item)
  PROVE  /\ Unclaimed(r)' \subseteq Unclaimed(r) \ {i}
         /\ ClaimsInOrder(r)'
         /\ work'[r] = Append(work[r], item)
         /\ DOMAIN work'[r] = 1 .. Len(work[r]) + 1
         /\ DOMAIN work[r] = 1 .. Len(work[r])
         /\ \A w \in DOMAIN work[r] : work'[r][w] = work[r][w]
         /\ work'[r][Len(work[r]) + 1] = item
<1> DEFINE c == Len(work[r]) + 1
<1>1. /\ work[r] \in Seq(Claim) /\ DOMAIN work[r] = 1 .. Len(work[r]) /\ Len(work[r]) \in Nat
      /\ work'[r] = Append(work[r], item) /\ UNCHANGED <<g, step>>
  BY LenProperties DEF TInv, TypeOK, Claimed
<1>2. /\ Len(work'[r]) = c /\ DOMAIN work'[r] = 1 .. c
      /\ \A w \in DOMAIN work[r] : work'[r][w] = work[r][w]
      /\ work'[r][c] = item
  BY <1>1, AppendProperties, LenProperties
<1>3. ClaimsInOrder(r)'
  <2>1. ASSUME NEW w \in DOMAIN work'[r]
        PROVE  work'[r][w].node = g.batches[step[r]].nodes[w]
    <3>1. CASE w = c
      BY <1>2, <3>1 DEF Claiming, Batch
    <3>2. CASE w # c
      <4>1. w \in DOMAIN work[r]
        BY <1>1, <1>2, <3>2
      <4> QED
        BY <1>2, <4>1 DEF ClaimsInOrder, Batch
    <3> QED
      BY <3>1, <3>2
  <2> QED
    BY <1>1, <2>1 DEF ClaimsInOrder, Batch
<1>4. Unclaimed(r)' \subseteq Unclaimed(r) \ {i}
  <2> SUFFICES ASSUME NEW j \in Unclaimed(r)' PROVE j \in Unclaimed(r) /\ j # i
    OBVIOUS
  <2>1. PICK q \in Positions(g) : /\ j = NodeAt(g, q)
                                  /\ q[1] > step[r] \/ (q[1] = step[r] /\ q[2] > c)
    BY <1>1, <1>2 DEF Unclaimed, Positions, NodeAt
  <2>2. q[1] \in Nat /\ q[2] \in Nat /\ step[r] \in Nat
    BY PositionPair, BatchType DEF TInv, TypeOK
  <2>3. j \in Unclaimed(r)
    <3>1. q[1] > step[r] \/ (q[1] = step[r] /\ q[2] > Len(work[r]))
      BY <1>1, <2>1, <2>2
    <3> QED
      BY <2>1, <3>1 DEF Unclaimed
  <2>4. j # i
    <3>1. SUFFICES ASSUME j = i PROVE FALSE
      OBVIOUS
    <3>2. <<step[r], c>> \in Positions(g) /\ NodeAt(g, <<step[r], c>>) = i
      BY ClaimingNode
    <3>3. q = <<step[r], c>>
      BY <2>1, <3>1, <3>2, PositionUnique DEF TInv
    <3> QED
      BY <1>1, <2>1, <2>2, <3>3
  <2> QED
    BY <2>3, <2>4
<1> QED
  BY <1>1, <1>2, <1>3, <1>4

(* What a run allocates is a buffer of its own.                             *)
LEMMA FreshBuffer ==
  ASSUME NEW r \in Run, NEW i \in Nat, NEW k \in Nat
  PROVE  /\ Fresh(r, i, k) \in Buffer /\ Fresh(r, i, k) # NoBuffer
         /\ Fresh(r, i, k)[1] = r /\ Fresh(r, i, k)[2] = i /\ Fresh(r, i, k)[3] = k
<1>1. Fresh(r, i, k) \in Buffer
  BY FreshType
<1>2. NoBuffer \notin Buffer
  BY NoBufferAssumption DEF Buffer
<1> QED
  BY <1>1, <1>2 DEF Fresh

(* What is unclaimed is a node of the graph.                                *)
LEMMA UnclaimedNodes ==
  ASSUME TypeOK, NEW r \in Run
  PROVE  Unclaimed(r) \subseteq Nodes(g)
<1>1. ASSUME NEW q \in Positions(g) PROVE NodeAt(g, q) \in Nodes(g)
  <2>1. q[1] \in DOMAIN g.batches /\ q[2] \in 1 .. Len(g.batches[q[1]].nodes)
    BY PositionPair
  <2>2. g.batches[q[1]].nodes \in Seq(Nodes(g))
    BY <2>1, BatchType DEF TypeOK
  <2> QED
    BY <2>1, <2>2, ElementOfSeq DEF NodeAt
<1> QED
  BY <1>1 DEF Unclaimed

(* While the batch stays, nothing new comes up but by a claim.              *)
LEMMA SameToCome ==
  ASSUME TypeOK, NEW r \in Run, pc[r] \notin {"idle", "done", "failed"}, UNCHANGED <<g, step>>,
         pc'[r] # "idle", DOMAIN work'[r] = DOMAIN work[r], Len(work'[r]) = Len(work[r]),
         \A w \in DOMAIN work[r] :
           /\ work'[r][w].node = work[r][w].node /\ work'[r][w].how = work[r][w].how
           /\ work'[r][w].st = "claimed" => work[r][w].st = "claimed"
  PROVE  ToCome(r)' \subseteq ToCome(r)
<1>1. Unclaimed(r)' = Unclaimed(r)
  BY DEF Unclaimed, Positions, NodeAt
<1>2. ASSUME NEW i, Allocates(r, i)' PROVE Allocates(r, i)
  BY <1>2 DEF Allocates
<1> QED
  BY <1>1, <1>2 DEF ToCome, Buffer

-----------------------------------------------------------------------------
(* The steps of a run, one by one.                                          *)

(* The buffers of a failing run are dropped.                                *)
LEMMA FailUnshared ==
  ASSUME TInv, Unshared, NEW r \in Run, Fail(r)
  PROVE  Unshared' /\ ClaimsInOrder(r)'
<1>1. /\ tensors' = [tensors EXCEPT ![r] = [n \in Name |-> NoBuffer]]
      /\ work' = [work EXCEPT ![r] = <<>>] /\ pc' = [pc EXCEPT ![r] = "failed"]
      /\ UNCHANGED <<g, step, pool>>
  BY DEF Fail
<1>2. /\ tensors'[r] = [n \in Name |-> NoBuffer] /\ work'[r] = <<>> /\ pc'[r] = "failed"
      /\ \A s \in Run \ {r} : /\ tensors'[s] = tensors[s] /\ work'[s] = work[s]
                              /\ pc'[s] = pc[s] /\ step'[s] = step[s]
  BY <1>1 DEF TInv, TypeOK
<1>3. DOMAIN work'[r] = {}
  BY <1>2
<1>4. InNames(r)' = {} /\ InClaims(r)' = {}
  BY <1>2, <1>3 DEF InNames, InClaims
<1>5. OwnOnce(r)'
  BY <1>2, <1>3, <1>4 DEF OwnOnce, NamesApart, ClaimsApart, Held
<1>6. ToCome(r)' = {}
  BY <1>2 DEF ToCome
<1>7. ClaimsInOrder(r)'
  BY <1>3 DEF ClaimsInOrder
<1>8. Own(r)' = {}
  BY <1>4 DEF Own
<1>9. Unshared'
  <2> DEFINE New == {}
  <2>1. /\ New \subseteq ToCome(r) /\ (Own(r) \cap pool)' = {}
        /\ (Own(r) \cup pool)' \subseteq Own(r) \cup pool \cup New
        /\ ToCome(r)' \subseteq ToCome(r) \ New
    BY <1>1, <1>6, <1>8
  <2> HIDE DEF New
  <2> QED
    BY <1>1, <1>2, <1>5, <2>1, Handover
<1> QED
  BY <1>7, <1>9

(* The caller's tensors are cloned into the run state.                      *)
LEMMA StartUnshared ==
  ASSUME TInv, Unshared, NEW r \in Run, Start(r)
  PROVE  Unshared' /\ ClaimsInOrder(r)'
<1> DEFINE Fed(n) == \E k \in DOMAIN g.inputs : g.inputs[k] = n
           At(n) == CHOOSE k \in DOMAIN g.inputs : g.inputs[k] = n
           New == InNames(r)'
<1>1. /\ pc[r] = "idle" /\ pc'[r] = "claim" /\ UNCHANGED <<g, step, work, pool>>
      /\ tensors'[r] = [n \in Name |-> IF Fed(n) THEN Fresh(r, 0, At(n)) ELSE NoBuffer]
      /\ \A s \in Run \ {r} : tensors'[s] = tensors[s] /\ pc'[s] = pc[s]
  BY DEF Start, TInv, TypeOK
<1>2. work[r] = <<>> /\ DOMAIN work'[r] = {}
  BY <1>1 DEF TInv, Cursor, CursorOf
<1>3. \A n \in Name : Fed(n) => /\ At(n) \in DOMAIN g.inputs /\ g.inputs[At(n)] = n
                                /\ At(n) \in Nat
  <2>1. \A k \in DOMAIN g.inputs : k \in Nat
    BY SessionsAssumption, LenProperties DEF TInv, TypeOK, IsSession, IsGraph
  <2> QED
    BY <2>1
<1>4. \A n \in Name : Fed(n) =>
        Fresh(r, 0, At(n)) \in Buffer /\ Fresh(r, 0, At(n)) # NoBuffer
  <2> SUFFICES ASSUME NEW n \in Name, Fed(n)
               PROVE  Fresh(r, 0, At(n)) \in Buffer /\ Fresh(r, 0, At(n)) # NoBuffer
    OBVIOUS
  <2>1. At(n) \in Nat
    BY <1>3
  <2> HIDE DEF At, Fed
  <2> QED
    BY <2>1, FreshBuffer
<1>5. \A b \in New : b \in Buffer /\ b[1] = r /\ b[2] = 0
  <2> SUFFICES ASSUME NEW b \in New PROVE b \in Buffer /\ b[1] = r /\ b[2] = 0
    OBVIOUS
  <2>1. PICK n \in Name : b = tensors'[r][n] /\ b # NoBuffer
    BY DEF InNames
  <2>2. Fed(n) /\ b = Fresh(r, 0, At(n))
    BY <1>1, <2>1
  <2> QED
    BY <1>4, <2>2 DEF Fresh
<1>6. New \subseteq ToCome(r)
  BY <1>1, <1>5 DEF ToCome
<1>7. InClaims(r)' = {} /\ Own(r)' = New
  BY <1>2 DEF InClaims, Own
<1>8. NamesApart(r)'
  <2> SUFFICES ASSUME NEW m \in Name, NEW n \in Name, tensors'[r][m] # NoBuffer,
                      tensors'[r][m] = tensors'[r][n]
               PROVE  m = n
    BY DEF NamesApart, Held
  <2>1. Fed(m) /\ Fed(n) /\ Fresh(r, 0, At(m)) = Fresh(r, 0, At(n))
    BY <1>1
  <2>2. At(m) = At(n)
    BY <2>1 DEF Fresh
  <2> QED
    BY <1>3, <2>1, <2>2
<1>9. OwnOnce(r)' /\ ClaimsInOrder(r)'
  BY <1>2, <1>7, <1>8 DEF OwnOnce, ClaimsApart, ClaimsInOrder
<1>10. ToCome(r)' \subseteq ToCome(r) \ New
  <2> SUFFICES ASSUME NEW b \in ToCome(r)' PROVE b \in ToCome(r) /\ b \notin New
    OBVIOUS
  <2>1. b \in Buffer /\ b[1] = r /\ b[2] \in Unclaimed(r)'
    BY <1>1, <1>2 DEF ToCome, Allocates, Buffer
  <2>2. b[2] # 0
    <3>1. Unclaimed(r)' = Unclaimed(r)
      BY <1>1 DEF Unclaimed, Positions, NodeAt
    <3>2. Unclaimed(r) \subseteq 1 .. g.n
      BY UnclaimedNodes DEF TInv, Nodes
    <3> QED
      BY <2>1, <3>1, <3>2, SessionsAssumption DEF TInv, TypeOK, IsSession, IsGraph
  <2> QED
    BY <1>1, <1>5, <2>1, <2>2 DEF ToCome
<1>11. (Own(r) \cap pool)' = {}
  <2>1. ToCome(r) \cap pool = {}
    BY DEF Unshared, OwnAlone
  <2> QED
    BY <1>1, <1>6, <1>7, <2>1
<1>12. (Own(r) \cup pool)' \subseteq Own(r) \cup pool \cup New
  BY <1>1, <1>7
<1> HIDE DEF New
<1> QED
  BY <1>1, <1>6, <1>9, <1>10, <1>11, <1>12, Handover

(* A claim of node i that allocates the buffers New at once: they were to   *)
(* come, and what is still to come is the rest.                             *)
LEMMA ClaimedToCome ==
  ASSUME TInv, NEW r \in Run, ClaimsInOrder(r), NEW i \in Nodes(g), Claiming(r, i),
         NEW item \in Claim, item.node = i, item.st = "claimed", Claimed(r, item),
         NEW New,
         \A b \in New : /\ b \in Buffer /\ b[1] = r /\ b[2] = i
                        /\ item.how # "slots" => ~(b[3] <= g.arity[i])
  PROVE  New \subseteq ToCome(r) /\ ToCome(r)' \subseteq ToCome(r) \ New
<1>1. pc[r] = "claim" /\ pc'[r] \notin {"idle", "done", "failed"} /\ UNCHANGED g
  BY DEF Claiming, Claimed, TInv, TypeOK
<1>2. i \in Unclaimed(r) /\ \A w \in DOMAIN work[r] : work[r][w].node # i
  BY ClaimingNode
<1>3. New \subseteq ToCome(r)
  BY <1>1, <1>2 DEF ToCome
<1>4. ASSUME NEW b \in ToCome(r)' PROVE b \in ToCome(r) /\ b \notin New
  <2>1. b \in Buffer /\ b[1] = r
    BY DEF ToCome, Buffer
  <2>2. CASE b[2] \in Unclaimed(r)'
    <3>1. b[2] \in Unclaimed(r) /\ b[2] # i
      BY <2>2, ClaimedNode
    <3> QED
      BY <1>1, <2>1, <3>1 DEF ToCome
  <2>3. CASE b[2] \notin Unclaimed(r)'
    <3>1. Allocates(r, b[2])' /\ b[3] <= g.arity[b[2]]
      BY <1>1, <2>3 DEF ToCome
    <3>2. PICK w \in DOMAIN work'[r] : /\ work'[r][w].node = b[2]
                                       /\ work'[r][w].st = "claimed"
                                       /\ work'[r][w].how # "slots"
      BY <3>1 DEF Allocates
    <3>3. /\ DOMAIN work'[r] = 1 .. Len(work[r]) + 1 /\ DOMAIN work[r] = 1 .. Len(work[r])
          /\ \A v \in DOMAIN work[r] : work'[r][v] = work[r][v]
          /\ work'[r][Len(work[r]) + 1] = item
      BY ClaimedNode
    <3>4. CASE w = Len(work[r]) + 1
      BY <1>1, <1>2, <2>1, <3>1, <3>2, <3>3, <3>4 DEF ToCome
    <3>5. CASE w # Len(work[r]) + 1
      <4>1. w \in DOMAIN work[r]
        BY <3>3, <3>5, ClaimingNode
      <4>2. Allocates(r, b[2]) /\ b[2] # i
        BY <1>2, <3>2, <3>3, <4>1 DEF Allocates
      <4> QED
        BY <1>1, <2>1, <3>1, <4>2 DEF ToCome
    <3> QED
      BY <3>4, <3>5
  <2> QED
    BY <2>2, <2>3
<1> QED
  BY <1>3, <1>4

(* A claim adds its buffers to those in claims; they stay apart if they are *)
(* different ones and in no other claim.                                    *)
LEMMA ClaimedApart ==
  ASSUME TInv, NEW r \in Run, ClaimsInOrder(r), NEW i \in Nodes(g), Claiming(r, i),
         NEW item \in Claim, item.node = i, Claimed(r, item),
         ClaimsApart(r), BuffersOf(item.bufs) \cap InClaims(r) = {},
         \A k, l \in DOMAIN item.bufs :
           item.bufs[k] = item.bufs[l] /\ item.bufs[k] # NoBuffer => k = l
  PROVE  ClaimsApart(r)' /\ InClaims(r)' = InClaims(r) \cup BuffersOf(item.bufs)
<1> DEFINE c == Len(work[r]) + 1
<1>1. /\ DOMAIN work'[r] = 1 .. c /\ DOMAIN work[r] = 1 .. Len(work[r])
      /\ \A w \in DOMAIN work[r] : work'[r][w] = work[r][w]
      /\ work'[r][c] = item /\ Len(work[r]) \in Nat
  BY ClaimedNode, ClaimingNode
<1>2. DOMAIN work'[r] = DOMAIN work[r] \cup {c} /\ c \notin DOMAIN work[r]
  BY <1>1
<1> HIDE DEF c
<1>3. InClaims(r)' = InClaims(r) \cup BuffersOf(item.bufs)
  <2>1. \A w \in DOMAIN work[r] : BuffersOf(work'[r][w].bufs) = BuffersOf(work[r][w].bufs)
    BY <1>1
  <2>2. InClaims(r)' = UNION {BuffersOf(work'[r][w].bufs) : w \in DOMAIN work'[r]}
    BY DEF InClaims, BuffersOf
  <2>3. c \in DOMAIN work'[r] /\ work'[r][c].bufs = item.bufs
    BY <1>1, <1>2
  <2>4. ASSUME NEW b \in InClaims(r)' PROVE b \in InClaims(r) \cup BuffersOf(item.bufs)
    <3>1. PICK w \in DOMAIN work'[r] : b \in BuffersOf(work'[r][w].bufs)
      BY <2>2, <2>4
    <3>2. CASE w = c
      BY <2>3, <3>1, <3>2
    <3>3. CASE w \in DOMAIN work[r]
      BY <2>1, <3>1, <3>3 DEF InClaims
    <3> QED
      BY <1>2, <3>2, <3>3
  <2>5. BuffersOf(item.bufs) \subseteq InClaims(r)'
    BY <2>2, <2>3
  <2>6. ASSUME NEW b \in InClaims(r) PROVE b \in InClaims(r)'
    <3>1. PICK w \in DOMAIN work[r] : b \in BuffersOf(work[r][w].bufs)
      BY <2>6 DEF InClaims
    <3>2. w \in DOMAIN work'[r] /\ b \in BuffersOf(work'[r][w].bufs)
      BY <1>2, <2>1, <3>1
    <3> QED
      BY <2>2, <3>2
  <2> QED
    BY <2>4, <2>5, <2>6
<1>4. ASSUME NEW w \in DOMAIN work[r], NEW k \in DOMAIN work[r][w].bufs,
             NEW l \in DOMAIN item.bufs, work[r][w].bufs[k] = item.bufs[l],
             item.bufs[l] # NoBuffer
      PROVE  FALSE
  BY <1>4 DEF InClaims, BuffersOf
<1>5. ClaimsApart(r)'
  <2> SUFFICES ASSUME NEW w \in DOMAIN work'[r], NEW v \in DOMAIN work'[r],
                      NEW k \in DOMAIN work'[r][w].bufs, NEW l \in DOMAIN work'[r][v].bufs,
                      work'[r][w].bufs[k] = work'[r][v].bufs[l],
                      work'[r][w].bufs[k] # NoBuffer
               PROVE  w = v /\ k = l
    BY DEF ClaimsApart
  <2>1. CASE w \in DOMAIN work[r] /\ v \in DOMAIN work[r]
    BY <1>1, <2>1 DEF ClaimsApart
  <2>2. CASE w = c /\ v = c
    BY <1>1, <2>2
  <2>3. CASE w \in DOMAIN work[r] /\ v = c
    BY <1>1, <1>4, <2>3
  <2>4. CASE w = c /\ v \in DOMAIN work[r]
    BY <1>1, <1>4, <2>4
  <2> QED
    BY <1>2, <2>1, <2>2, <2>3, <2>4
<1> QED
  BY <1>3, <1>5

(* The in-place path moves one buffer from a name to a claim.               *)
LEMMA ClaimInplaceUnshared ==
  ASSUME TInv, Unshared, NEW r \in Run, ClaimsInOrder(r), ClaimInplace(r)
  PROVE  Unshared' /\ ClaimsInOrder(r)'
<1>1. PICK i \in Nodes(g) :
        /\ Claiming(r, i)
        /\ Claimed(r, [node |-> i, how |-> "inplace", bufs |-> <<tensors[r][g.ins[i][1]]>>,
                       st |-> "claimed"])
        /\ tensors' = [tensors EXCEPT ![r][g.ins[i][1]] = NoBuffer]
        /\ g.ins[i] # <<>> /\ g.ins[i][1] # NoName
  BY DEF ClaimInplace, CanInplace
<1> DEFINE n == g.ins[i][1]
           item == [node |-> i, how |-> "inplace", bufs |-> <<tensors[r][n]>>,
                    st |-> "claimed"]
<1>2. n \in Name
  BY <1>1, NodeType, EmptySeq, ElementOfSeq DEF TInv, TypeOK
<1>3. item \in Claim /\ item.node = i /\ item.st = "claimed"
  BY <1>2 DEF Claim, TInv, TypeOK
<1>4. DOMAIN item.bufs = {1} /\ item.bufs[1] = tensors[r][n]
  OBVIOUS
<1>5. BuffersOf(item.bufs) \subseteq {tensors[r][n]} \ {NoBuffer}
  BY <1>4 DEF BuffersOf
<1>6. /\ UNCHANGED <<g, step, pool>>
      /\ tensors'[r] = [tensors[r] EXCEPT ![n] = NoBuffer]
      /\ \A s \in Run \ {r} : /\ tensors'[s] = tensors[s] /\ work'[s] = work[s]
                              /\ pc'[s] = pc[s] /\ step'[s] = step[s]
  <2>1. /\ tensors \in [Run -> [Name -> Buffer \cup {NoBuffer}]]
        /\ UNCHANGED <<g, step, pool>>
    <3>1. tensors \in [Run -> [Name -> Buffer \cup {NoBuffer}]]
      BY DEF TInv, TypeOK
    <3>2. UNCHANGED <<g, step>>
      BY <1>1 DEF Claimed
    <3>3. UNCHANGED pool
      BY DEF ClaimInplace
    <3> QED
      BY <3>1, <3>2, <3>3
  <2>2. \A s \in Run \ {r} : work'[s] = work[s] /\ pc'[s] = pc[s]
    <3>1. /\ work' = [work EXCEPT ![r] = Append(@, item)]
          /\ pc' = [pc EXCEPT ![r] = IF Len(work[r]) + 1 = Len(Batch(r).nodes)
                                        THEN "compute" ELSE "claim"]
      BY <1>1 DEF Claimed
    <3>2. DOMAIN work = Run /\ DOMAIN pc = Run
      BY DEF TInv, TypeOK
    <3> QED
      BY <3>1, <3>2
  <2>3. /\ tensors'[r] = [tensors[r] EXCEPT ![n] = NoBuffer]
        /\ \A s \in Run \ {r} : tensors'[s] = tensors[s]
    BY <1>1, <2>1
  <2> QED
    BY <2>1, <2>2, <2>3
<1>7. OwnOnce(r) /\ OwnAlone(r) /\ tensors[r] \in [Name -> Buffer \cup {NoBuffer}]
  BY DEF Unshared, TInv, TypeOK
<1> HIDE DEF item, n
<1>8. InNames(r)' = InNames(r) \ {tensors[r][n]}
  <2>1. ASSUME NEW m \in Name
        PROVE  tensors'[r][m] = IF m = n THEN NoBuffer ELSE tensors[r][m]
    BY <1>2, <1>6, <1>7
  <2>2. ASSUME NEW m \in Name, m # n, Held(r, m) PROVE tensors[r][m] # tensors[r][n]
    BY <1>2, <1>7, <2>2 DEF OwnOnce, NamesApart
  <2> QED
    BY <1>2, <2>1, <2>2 DEF InNames, Held
<1>9. BuffersOf(item.bufs) \subseteq InNames(r)
  BY <1>2, <1>5 DEF InNames
<1>10. ClaimsApart(r)' /\ InClaims(r)' = InClaims(r) \cup BuffersOf(item.bufs)
  <2>1. BuffersOf(item.bufs) \cap InClaims(r) = {}
    BY <1>7, <1>9 DEF OwnOnce
  <2>2. \A k, l \in DOMAIN item.bufs : k = l
    BY <1>4
  <2> QED
    BY <1>1, <1>3, <1>7, <2>1, <2>2, ClaimedApart DEF OwnOnce, item, n
<1>11. NamesApart(r)'
  <2>1. ASSUME NEW m \in Name
        PROVE  tensors'[r][m] = IF m = n THEN NoBuffer ELSE tensors[r][m]
    BY <1>2, <1>6, <1>7
  <2> QED
    BY <1>7, <2>1 DEF OwnOnce, NamesApart, Held
<1>12. OwnOnce(r)'
  <2>1. (InNames(r) \cap InClaims(r))' = {}
    BY <1>5, <1>7, <1>8, <1>10 DEF OwnOnce
  <2> QED
    BY <1>10, <1>11, <2>1 DEF OwnOnce
<1>13. Own(r)' \subseteq Own(r)
  BY <1>8, <1>9, <1>10 DEF Own
<1>14. (Own(r) \cap pool)' = {} /\ (Own(r) \cup pool)' \subseteq Own(r) \cup pool
  BY <1>6, <1>7, <1>13 DEF OwnAlone
<1>15. ToCome(r)' \subseteq ToCome(r) /\ ClaimsInOrder(r)'
  <2> DEFINE New == {}
  <2>1. ToCome(r)' \subseteq ToCome(r) \ New
    <3> HIDE DEF New
    <3>1. \A b \in New : FALSE
      BY DEF New
    <3> QED
      BY <1>1, <1>3, <3>1, ClaimedToCome DEF item, n
  <2>2. ClaimsInOrder(r)'
    BY <1>1, <1>3, ClaimedNode DEF item, n
  <2> QED
    BY <2>1, <2>2
<1> QED
  <2> DEFINE New == {}
  <2>1. /\ New \subseteq ToCome(r) /\ (Own(r) \cup pool)' \subseteq Own(r) \cup pool \cup New
        /\ ToCome(r)' \subseteq ToCome(r) \ New
    BY <1>14, <1>15
  <2> HIDE DEF New
  <2> QED
    BY <1>6, <1>12, <1>14, <1>15, <2>1, Handover

(* Output slots come out of the pool or are allocated.                      *)
LEMMA ClaimSlotsUnshared ==
  ASSUME TInv, Unshared, NEW r \in Run, ClaimsInOrder(r), ClaimSlots(r)
  PROVE  Unshared' /\ ClaimsInOrder(r)'
<1> DEFINE Takes(i, hits, f) ==
             /\ Claiming(r, i)
             /\ \A k, l \in hits : f[k] = f[l] => k = l
             /\ Claimed(r, [node |-> i, how |-> "slots", st |-> "claimed",
                            bufs |-> [k \in DOMAIN g.outs[i] |->
                              IF k \in hits THEN f[k]
                              ELSE IF k \in Named(g, i) THEN Fresh(r, i, k) ELSE NoBuffer]])
             /\ pool' = pool \ {f[k] : k \in hits}
             /\ UNCHANGED tensors
<1>1. PICK i \in Nodes(g) :
        \E hits \in SUBSET Named(g, i) : \E f \in [hits -> pool] : Takes(i, hits, f)
  BY DEF ClaimSlots
<1>0. PICK hits \in SUBSET Named(g, i) : \E f \in [hits -> pool] : Takes(i, hits, f)
  BY <1>1
<1>2. PICK f \in [hits -> pool] : Takes(i, hits, f)
  BY <1>0
<1> DEFINE slot(k) == IF k \in hits THEN f[k]
                      ELSE IF k \in Named(g, i) THEN Fresh(r, i, k) ELSE NoBuffer
           bufs == [k \in DOMAIN g.outs[i] |-> slot(k)]
           item == [node |-> i, how |-> "slots", st |-> "claimed", bufs |-> bufs]
           Reused == {f[k] : k \in hits}
           New == {Fresh(r, i, k) : k \in Named(g, i) \ hits}
<1>3. /\ DOMAIN g.outs[i] = 1 .. Len(g.outs[i]) /\ Len(g.outs[i]) \in Nat /\ i \in Nat
      /\ \A k \in Named(g, i) : k \in Nat /\ k \in DOMAIN g.outs[i]
  BY NodeType DEF TInv, TypeOK, Named
<1>4. /\ pool \subseteq Buffer /\ NoBuffer \notin Buffer /\ NoBuffer \notin pool
      /\ \A k \in hits : f[k] \in pool
  BY NoBufferAssumption DEF TInv, TypeOK, Buffer
<1>5. item \in Claim /\ item.node = i /\ item.st = "claimed" /\ item.how = "slots"
  <2>1. ASSUME NEW k \in 1 .. Len(g.outs[i]) PROVE slot(k) \in Buffer \cup {NoBuffer}
    BY <1>3, <1>4, FreshBuffer
  <2>2. bufs \in Seq(Buffer \cup {NoBuffer})
    <3> HIDE DEF slot
    <3> QED
      BY <1>3, <2>1, SMT
  <2> QED
    BY <2>2 DEF Claim
<1>6. \A b \in New : b \in Buffer /\ b[1] = r /\ b[2] = i
  BY <1>3, FreshBuffer
<1>7. Claimed(r, item) /\ Claiming(r, i)
  BY <1>2
<1> DEFINE isNew(k) == k \in Named(g, i) /\ k \notin hits
<1>8. \A k \in DOMAIN bufs : /\ k \in hits => bufs[k] = f[k]
                             /\ isNew(k) => bufs[k] = Fresh(r, i, k)
                             /\ k \notin hits /\ ~isNew(k) => bufs[k] = NoBuffer
  OBVIOUS
<1>9. item.bufs = bufs
  OBVIOUS
<1> HIDE DEF item, bufs, slot, isNew
<1>10. New \subseteq ToCome(r) /\ ToCome(r)' \subseteq ToCome(r) \ New
  <2>1. \A b \in New : /\ b \in Buffer /\ b[1] = r /\ b[2] = i
                       /\ item.how # "slots" => ~(b[3] <= g.arity[i])
    BY <1>5, <1>6
  <2> HIDE DEF New
  <2> QED
    BY <1>5, <1>7, <2>1, ClaimedToCome
<1>11. OwnOnce(r) /\ OwnAlone(r)
  BY DEF Unshared
<1>12. BuffersOf(bufs) \subseteq Reused \cup New
  BY <1>8 DEF BuffersOf, isNew
<1>13. Reused \subseteq pool /\ New \cap pool = {} /\ (Reused \cup New) \cap Own(r) = {}
  BY <1>4, <1>10, <1>11 DEF OwnAlone
<1>14. ASSUME NEW k \in DOMAIN bufs, NEW l \in DOMAIN bufs, bufs[k] = bufs[l],
              bufs[k] # NoBuffer
       PROVE  k = l
  <2>1. CASE k \in hits /\ l \in hits
    BY <1>2, <1>8, <1>14, <2>1
  <2>2. CASE isNew(k) /\ isNew(l)
    <3>1. k \in Nat /\ l \in Nat
      BY <1>3, <2>2 DEF isNew
    <3>2. Fresh(r, i, k)[3] = k /\ Fresh(r, i, l)[3] = l
      BY <1>3, <3>1, FreshBuffer
    <3> QED
      BY <1>8, <1>14, <2>2, <3>2
  <2>3. CASE k \in hits /\ isNew(l)
    <3>1. bufs[k] \in pool /\ bufs[l] \in New
      BY <1>4, <1>8, <2>3 DEF isNew
    <3> QED
      BY <1>13, <1>14, <3>1
  <2>4. CASE isNew(k) /\ l \in hits
    <3>1. bufs[l] \in pool /\ bufs[k] \in New
      BY <1>4, <1>8, <2>4 DEF isNew
    <3> QED
      BY <1>13, <1>14, <3>1
  <2>5. (k \in hits \/ isNew(k)) /\ (l \in hits \/ isNew(l))
    BY <1>8, <1>14
  <2> QED
    BY <2>1, <2>2, <2>3, <2>4, <2>5
<1>15. ClaimsApart(r)' /\ InClaims(r)' = InClaims(r) \cup BuffersOf(bufs)
  <2>1. BuffersOf(item.bufs) \cap InClaims(r) = {}
    BY <1>9, <1>12, <1>13 DEF Own
  <2>2. ClaimsApart(r)
    BY <1>11 DEF OwnOnce
  <2> QED
    BY <1>5, <1>7, <1>9, <1>14, <2>1, <2>2, ClaimedApart
<1>16. UNCHANGED <<tensors, g, step>> /\ pool' = pool \ Reused
  BY <1>2 DEF Claimed
<1>17. InNames(r)' = InNames(r) /\ (NamesApart(r)' <=> NamesApart(r))
  BY <1>16 DEF InNames, NamesApart, Held
<1>18. OwnOnce(r)'
  <2>1. NamesApart(r) /\ InNames(r) \cap InClaims(r) = {}
    BY <1>11 DEF OwnOnce
  <2>2. NamesApart(r)'
    BY <2>1, <1>16 DEF NamesApart, Held
  <2>3. (InNames(r) \cap InClaims(r))' = {}
    BY <1>12, <1>13, <1>15, <1>17, <2>1 DEF Own
  <2> QED
    BY <1>15, <2>2, <2>3 DEF OwnOnce
<1>19. Own(r)' = Own(r) \cup BuffersOf(bufs)
  BY <1>15, <1>17 DEF Own
<1>20. (Own(r) \cap pool)' = {} /\ (Own(r) \cup pool)' \subseteq Own(r) \cup pool \cup New
  <2>1. Own(r) \cap pool = {}
    BY <1>11 DEF OwnAlone
  <2> HIDE DEF Reused, New
  <2> QED
    BY <1>12, <1>13, <1>16, <1>19, <2>1
<1>21. ClaimsInOrder(r)'
  BY <1>5, <1>7, ClaimedNode
<1>22. \A s \in Run \ {r} : /\ tensors'[s] = tensors[s] /\ work'[s] = work[s]
                            /\ pc'[s] = pc[s] /\ step'[s] = step[s]
  BY <1>7, <1>16 DEF Claimed, TInv, TypeOK
<1> HIDE DEF New
<1> QED
  BY <1>10, <1>16, <1>18, <1>20, <1>21, <1>22, Handover

(* Slots given up for a later output of unknown shape enter the pool new.   *)
LEMMA ClaimFreshUnshared ==
  ASSUME TInv, Unshared, NEW r \in Run, ClaimsInOrder(r), ClaimFresh(r)
  PROVE  Unshared' /\ ClaimsInOrder(r)'
<1>1. PICK i \in Nodes(g) :
        /\ Claiming(r, i)
        /\ Claimed(r, [node |-> i, how |-> "fresh", bufs |-> <<>>, st |-> "claimed"])
        /\ \E missed \in SUBSET GivenUp(r, i) : pool' = pool \cup Pooled(missed)
        /\ UNCHANGED tensors
  BY DEF ClaimFresh
<1>2. PICK missed \in SUBSET GivenUp(r, i) : pool' = pool \cup Pooled(missed)
  BY <1>1
<1> DEFINE item == [node |-> i, how |-> "fresh", bufs |-> <<>>, st |-> "claimed"]
           New == Pooled(missed)
<1>3. item \in Claim /\ item.node = i /\ item.st = "claimed" /\ item.bufs = <<>>
  BY EmptySeq DEF Claim
<1>4. ASSUME NEW b \in New
      PROVE  b \in Buffer /\ b[1] = r /\ b[2] = i /\ ~(b[3] <= g.arity[i])
  <2>1. PICK k \in Named(g, i) : b = Fresh(r, i, Len(g.outs[i]) + g.arity[i] + k)
    BY <1>4 DEF Pooled, GivenUp
  <2>2. /\ i \in Nat /\ g.arity[i] \in Nat /\ Len(g.outs[i]) \in Nat
        /\ k \in 1 .. Len(g.outs[i])
    BY NodeType DEF Named, TInv, TypeOK
  <2>3. /\ Len(g.outs[i]) + g.arity[i] + k \in Nat
        /\ ~(Len(g.outs[i]) + g.arity[i] + k <= g.arity[i])
    <3>1. \A a, l, j \in Nat : j # 0 => l + a + j \in Nat /\ ~(l + a + j <= a)
      OBVIOUS
    <3>2. k \in Nat /\ k # 0
      BY <2>2
    <3> QED
      BY ONLY <2>2, <3>1, <3>2
  <2> QED
    BY <2>1, <2>2, <2>3, FreshBuffer
<1>5. Claimed(r, item) /\ Claiming(r, i)
  BY <1>1
<1>6. BuffersOf(item.bufs) = {} /\ DOMAIN item.bufs = {}
  BY <1>3 DEF BuffersOf
<1> HIDE DEF item, New
<1>7. New \subseteq ToCome(r) /\ ToCome(r)' \subseteq ToCome(r) \ New
  <2>1. \A b \in New : /\ b \in Buffer /\ b[1] = r /\ b[2] = i
                       /\ item.how # "slots" => ~(b[3] <= g.arity[i])
    BY <1>4
  <2> QED
    BY <1>3, <1>5, <2>1, ClaimedToCome
<1>8. OwnOnce(r) /\ OwnAlone(r)
  BY DEF Unshared
<1>9. ClaimsApart(r)' /\ InClaims(r)' = InClaims(r)
  <2>1. ClaimsApart(r)
    BY <1>8 DEF OwnOnce
  <2>2. ClaimsApart(r)' /\ InClaims(r)' = InClaims(r) \cup BuffersOf(item.bufs)
    BY <1>3, <1>5, <1>6, <2>1, ClaimedApart
  <2> QED
    BY <1>6, <2>2
<1>10. UNCHANGED <<tensors, g, step>>
  BY <1>1 DEF Claimed
<1>11. InNames(r)' = InNames(r) /\ Own(r)' = Own(r)
  BY <1>9, <1>10 DEF InNames, Own
<1>12. OwnOnce(r)'
  <2>1. NamesApart(r) /\ InNames(r) \cap InClaims(r) = {}
    BY <1>8 DEF OwnOnce
  <2>2. NamesApart(r)'
    BY <2>1, <1>10 DEF NamesApart, Held
  <2> QED
    BY <1>9, <1>11, <2>1, <2>2 DEF OwnOnce
<1>13. (Own(r) \cap pool)' = {} /\ (Own(r) \cup pool)' \subseteq Own(r) \cup pool \cup New
  <2>1. Own(r) \cap pool = {} /\ Own(r) \cap New = {}
    BY <1>7, <1>8 DEF OwnAlone
  <2>2. pool' = pool \cup New
    BY <1>2 DEF New
  <2> QED
    BY <1>11, <2>1, <2>2
<1>14. ClaimsInOrder(r)'
  BY <1>3, <1>5, ClaimedNode
<1>15. \A s \in Run \ {r} : /\ tensors'[s] = tensors[s] /\ work'[s] = work[s]
                            /\ pc'[s] = pc[s] /\ step'[s] = step[s]
  BY <1>5, <1>10 DEF Claimed, TInv, TypeOK
<1> QED
  BY <1>7, <1>10, <1>12, <1>13, <1>14, <1>15, Handover

(* A step that gives the buffers of the names D up, to the pool or          *)
(* altogether, and neither allocates nor claims any.                        *)
LEMMA HandedBack ==
  ASSUME Unshared, NEW r \in Run, NEW D \in SUBSET Name, UNCHANGED g,
         \A n \in Name : tensors'[r][n] = IF n \in D THEN NoBuffer ELSE tensors[r][n],
         pool \subseteq pool', pool' \subseteq pool \cup ({tensors[r][n] : n \in D} \ {NoBuffer}),
         \A s \in Run \ {r} : /\ tensors'[s] = tensors[s] /\ work'[s] = work[s]
                              /\ pc'[s] = pc[s] /\ step'[s] = step[s],
         ClaimsApart(r)', InClaims(r)' \subseteq InClaims(r),
         ToCome(r)' \subseteq ToCome(r)
  PROVE  Unshared'
<1>1. OwnOnce(r) /\ OwnAlone(r)
  BY DEF Unshared
<1>2. NamesApart(r)'
  <2>1. NamesApart(r)
    BY <1>1 DEF OwnOnce
  <2> QED
    BY <2>1 DEF NamesApart, Held
<1>3. InNames(r)' \subseteq InNames(r)
  BY DEF InNames
<1>4. (InNames(r) \cap InClaims(r))' = {}
  <2>1. InNames(r) \cap InClaims(r) = {}
    BY <1>1 DEF OwnOnce
  <2> QED
    BY <1>3, <2>1
<1>5. OwnOnce(r)'
  BY <1>2, <1>4 DEF OwnOnce
<1>6. {tensors[r][n] : n \in D} \ {NoBuffer} \subseteq InNames(r)
  BY DEF InNames
<1>7. ASSUME NEW n \in D, tensors[r][n] # NoBuffer PROVE tensors[r][n] \notin Own(r)'
  <2>1. tensors[r][n] \notin InNames(r)'
    <3> SUFFICES ASSUME NEW m \in Name, tensors'[r][m] = tensors[r][n] PROVE FALSE
      BY DEF InNames
    <3>1. m \notin D /\ tensors[r][m] = tensors[r][n]
      BY <1>7
    <3>2. NamesApart(r)
      BY <1>1 DEF OwnOnce
    <3> QED
      BY <1>7, <3>1, <3>2 DEF NamesApart, Held
  <2>2. tensors[r][n] \notin InClaims(r)
    <3>1. tensors[r][n] \in InNames(r)
      BY <1>6, <1>7
    <3> QED
      BY <1>1, <3>1 DEF OwnOnce
  <2> QED
    BY <2>1, <2>2 DEF Own
<1>8. Own(r)' \subseteq Own(r)
  BY <1>3 DEF Own
<1>9. (Own(r) \cap pool)' = {}
  <2> SUFFICES ASSUME NEW b \in Own(r)', b \in pool' PROVE FALSE
    OBVIOUS
  <2>1. b \notin pool
    BY <1>1, <1>8 DEF OwnAlone
  <2>2. PICK n \in D : b = tensors[r][n] /\ b # NoBuffer
    BY <2>1
  <2> QED
    BY <1>7, <2>2
<1> DEFINE New == {}
<1>10. /\ New \subseteq ToCome(r) /\ ToCome(r)' \subseteq ToCome(r) \ New
       /\ (Own(r) \cup pool)' \subseteq Own(r) \cup pool \cup New
  <2>1. Own(r)' \cup pool' \subseteq Own(r) \cup pool
    BY <1>6, <1>8 DEF Own
  <2> QED
    BY <2>1
<1> HIDE DEF New
<1> QED
  BY <1>5, <1>9, <1>10, Handover

(* One claim of the batch replaced, as ItemReplaced has it.                 *)
LEMMA ClaimReplaced ==
  ASSUME TInv, NEW r \in Run, NEW w \in DOMAIN work[r], NEW item \in Claim,
         work' = [work EXCEPT ![r][w] = item]
  PROVE  /\ DOMAIN work'[r] = DOMAIN work[r] /\ Len(work'[r]) = Len(work[r])
         /\ work'[r][w] = item
         /\ \A v \in DOMAIN work[r] \ {w} : work'[r][v] = work[r][v]
         /\ \A s \in Run \ {r} : work'[s] = work[s]
<1>1. work'[r] = [work[r] EXCEPT ![w] = item] /\ \A s \in Run \ {r} : work'[s] = work[s]
  BY DEF TInv, TypeOK
<1>2. work[r] \in Seq(Claim)
  BY DEF TInv, TypeOK
<1>3. DOMAIN work'[r] = DOMAIN work[r]
  BY <1>1
<1>4. Len(work'[r]) = Len(work[r])
  BY <1>1, <1>2, SMT
<1> QED
  BY <1>1, <1>3, <1>4

(* A node that is claimed is not to be claimed again.                       *)
LEMMA ClaimedOnce ==
  ASSUME TInv, NEW r \in Run, pc[r] \notin {"idle", "done", "failed"}, ClaimsInOrder(r),
         NEW w \in DOMAIN work[r]
  PROVE  work[r][w].node \notin Unclaimed(r)
<1> SUFFICES ASSUME NEW q \in Positions(g), NodeAt(g, q) = work[r][w].node,
                    q[1] > step[r] \/ (q[1] = step[r] /\ q[2] > Len(work[r]))
             PROVE  FALSE
  BY DEF Unclaimed
<1>1. /\ <<step[r], w>> \in Positions(g) /\ w \in 1 .. Len(work[r])
      /\ NodeAt(g, <<step[r], w>>) = work[r][w].node
  BY ClaimPosition DEF ClaimsInOrder
<1>2. q = <<step[r], w>>
  BY <1>1, PositionUnique DEF TInv
<1>3. q[1] = step[r] /\ q[2] = w /\ step[r] \in Nat /\ w \in Nat /\ Len(work[r]) \in Nat
  BY <1>2, ClaimPosition, LenProperties DEF TInv, TypeOK
<1> QED
  BY <1>1, <1>3

(* The operator fails, or the batch is joined.                              *)
LEMMA QuietUnshared ==
  ASSUME TInv, Unshared, NEW r \in Run, ClaimsInOrder(r),
         Join(r) \/ \E w \in DOMAIN work[r] : ComputeError(r, w)
  PROVE  Unshared' /\ ClaimsInOrder(r)'
<1>1. /\ UNCHANGED <<g, step, tensors, pool>> /\ pc[r] = "compute" /\ pc'[r] # "idle"
      /\ \A s \in Run \ {r} : pc'[s] = pc[s]
  BY DEF Join, ComputeError, TInv, TypeOK
<1>2. /\ DOMAIN work'[r] = DOMAIN work[r] /\ Len(work'[r]) = Len(work[r])
      /\ \A v \in DOMAIN work[r] :
           /\ work'[r][v].node = work[r][v].node /\ work'[r][v].how = work[r][v].how
           /\ work'[r][v].bufs = work[r][v].bufs
           /\ work'[r][v].st = "claimed" => work[r][v].st = "claimed"
      /\ \A s \in Run \ {r} : work'[s] = work[s]
  <2>1. CASE Join(r)
    BY <2>1 DEF Join
  <2>2. CASE \E w \in DOMAIN work[r] : ComputeError(r, w)
    <3>1. PICK w \in DOMAIN work[r] : ComputeError(r, w)
      BY <2>2
    <3>2. work[r][w] \in Claim
      BY <1>1, ClaimPosition
    <3>3. PICK item \in Claim : /\ work' = [work EXCEPT ![r][w] = item]
                                /\ item = [work[r][w] EXCEPT !.st = "error"]
      <4>1. [work[r][w] EXCEPT !.st = "error"] \in Claim
        BY <3>2 DEF Claim
      <4> QED
        BY <3>1, <4>1 DEF ComputeError
    <3>4. /\ item.node = work[r][w].node /\ item.how = work[r][w].how
          /\ item.bufs = work[r][w].bufs /\ item.st = "error"
      BY <3>2, <3>3 DEF Claim
    <3>5. /\ DOMAIN work'[r] = DOMAIN work[r] /\ Len(work'[r]) = Len(work[r])
          /\ work'[r][w] = item
          /\ \A v \in DOMAIN work[r] \ {w} : work'[r][v] = work[r][v]
          /\ \A s \in Run \ {r} : work'[s] = work[s]
      <4>1. work' = [work EXCEPT ![r][w] = item]
        BY <3>3
      <4> QED
        BY ONLY TInv, <4>1, ClaimReplaced
    <3> QED
      BY <3>4, <3>5
  <2> QED
    BY <2>1, <2>2
<1>3. ClaimsInOrder(r)'
  BY <1>1, <1>2 DEF ClaimsInOrder, Batch
<1>4. ToCome(r)' \subseteq ToCome(r)
  BY <1>1, <1>2, SameToCome DEF TInv
<1>5. ClaimsApart(r)' /\ InClaims(r)' \subseteq InClaims(r)
  <2>1. ClaimsApart(r)
    BY DEF Unshared, OwnOnce
  <2>2. ClaimsApart(r)'
    BY <1>2, <2>1 DEF ClaimsApart
  <2> QED
    BY <1>2, <2>2 DEF InClaims
<1>6. Unshared'
  <2> DEFINE D == {}
  <2>1. D \in SUBSET Name /\ \A n \in Name : n \notin D
    OBVIOUS
  <2> HIDE DEF D
  <2> QED
    BY <1>1, <1>2, <1>4, <1>5, <2>1, HandedBack
<1> QED
  BY <1>3, <1>6

(* A result is in the claim's own buffer or in one of the operator's.       *)
LEMMA ResultPlaces ==
  ASSUME TInv, NEW r \in Run, NEW item \in Claim, NEW k \in DOMAIN ResultBuffers(r, item)
  PROVE  \/ k \in DOMAIN item.bufs /\ ResultBuffers(r, item)[k] = item.bufs[k]
         \/ /\ item.how # "slots" /\ k \in 1 .. g.arity[item.node] /\ k \in Nat
            /\ ResultBuffers(r, item)[k] = Fresh(r, item.node, k)
<1>1. CASE item.how = "slots"
  BY <1>1 DEF ResultBuffers
<1>2. CASE item.how # "slots"
  <2>1. k \in 1 .. g.arity[item.node] /\ k \in Nat
    <3>1. item.node \in Nodes(g)
      BY DEF Claim
    <3>2. g.arity[item.node] \in Nat
      BY <3>1, NodeType DEF TInv, TypeOK
    <3>3. DOMAIN ResultBuffers(r, item) = 1 .. g.arity[item.node]
      BY <1>2 DEF ResultBuffers
    <3> QED
      BY <3>2, <3>3
  <2>2. CASE k = 1 /\ OwnsFirst(item)
    <3>1. ResultBuffers(r, item)[k] = item.bufs[1]
      BY <1>2, <2>1, <2>2 DEF ResultBuffers
    <3>2. item.bufs \in Seq(Buffer \cup {NoBuffer}) /\ DOMAIN item.bufs # {}
      BY <2>2 DEF Claim, OwnsFirst, BuffersOf
    <3>3. 1 \in DOMAIN item.bufs
      BY <3>2, LenProperties
    <3> QED
      BY <2>2, <3>1, <3>3
  <2>3. CASE ~(k = 1 /\ OwnsFirst(item))
    <3>1. ResultBuffers(r, item)[k] = Fresh(r, item.node, k)
      BY <1>2, <2>1, <2>3 DEF ResultBuffers
    <3> QED
      BY <1>2, <2>1, <3>1
  <2> QED
    BY <2>2, <2>3
<1> QED
  BY <1>1, <1>2

(* A worker keeps the buffers of its claim or allocates, from what it alone *)
(* had to come.                                                             *)
LEMMA ComputeUnshared ==
  ASSUME TInv, Unshared, NEW r \in Run, ClaimsInOrder(r),
         NEW w \in DOMAIN work[r], Compute(r, w)
  PROVE  Unshared' /\ ClaimsInOrder(r)'
<1>1. /\ UNCHANGED <<g, pc, step, tensors, pool>> /\ pc[r] = "compute"
      /\ work[r][w].st = "claimed"
  BY DEF Compute
<1>2. work[r][w] \in Claim /\ work[r][w].node \in Nodes(g)
  BY <1>1, ClaimPosition DEF Claim
<1> DEFINE old == work[r][w]
           i == old.node
           bufs == ResultBuffers(r, old)
           New == IF old.how = "slots" THEN {} ELSE {Fresh(r, i, k) : k \in 1 .. g.arity[i]}
<1>3. PICK item \in Claim : /\ work' = [work EXCEPT ![r][w] = item]
                            /\ item = [old EXCEPT !.st = "computed", !.bufs = bufs]
  <2>1. bufs \in Seq(Buffer \cup {NoBuffer})
    BY <1>2, ResultBuffersType DEF TInv
  <2>2. [old EXCEPT !.st = "computed", !.bufs = bufs] \in Claim
    BY <1>2, <2>1 DEF Claim
  <2> QED
    BY <2>2 DEF Compute
<1>4. item.node = i /\ item.how = old.how /\ item.st = "computed" /\ item.bufs = bufs
  BY <1>2, <1>3 DEF Claim
<1>5. /\ DOMAIN work'[r] = DOMAIN work[r] /\ Len(work'[r]) = Len(work[r])
      /\ work'[r][w] = item
      /\ \A v \in DOMAIN work[r] \ {w} : work'[r][v] = work[r][v]
      /\ \A s \in Run \ {r} : work'[s] = work[s]
  <2>1. work' = [work EXCEPT ![r][w] = item]
    BY <1>3
  <2> QED
    BY ONLY TInv, <2>1, ClaimReplaced
<1>6. i \in Nat /\ g.arity[i] \in Nat
  BY <1>2, NodeType DEF TInv, TypeOK
<1>7. \A b \in New : /\ b \in Buffer /\ b[1] = r /\ b[2] = i /\ b[3] <= g.arity[i]
                     /\ old.how # "slots"
  <2>1. ASSUME NEW k \in 1 .. g.arity[i] PROVE k \in Nat /\ k <= g.arity[i]
    BY <1>6
  <2> QED
    BY <1>6, <2>1, FreshBuffer
<1>8. \A k \in DOMAIN bufs :
        \/ k \in DOMAIN old.bufs /\ bufs[k] = old.bufs[k]
        \/ k \in Nat /\ bufs[k] = Fresh(r, i, k) /\ bufs[k] \in New
  <2> SUFFICES ASSUME NEW k \in DOMAIN bufs
               PROVE  \/ k \in DOMAIN old.bufs /\ bufs[k] = old.bufs[k]
                      \/ k \in Nat /\ bufs[k] = Fresh(r, i, k) /\ bufs[k] \in New
    OBVIOUS
  <2>1. \/ k \in DOMAIN old.bufs /\ bufs[k] = old.bufs[k]
        \/ /\ old.how # "slots" /\ k \in 1 .. g.arity[i] /\ k \in Nat
           /\ bufs[k] = Fresh(r, i, k)
    BY <1>2, ResultPlaces
  <2> QED
    BY <2>1
<1>9. old \in Claim /\ old.st = "claimed" /\ old = work[r][w]
  BY <1>1, <1>2
<1> HIDE DEF New, bufs, i, old
<1>10. New \subseteq ToCome(r)
  <2> SUFFICES ASSUME NEW b \in New PROVE b \in ToCome(r)
    OBVIOUS
  <2>1. b \in Buffer /\ b[1] = r /\ b[2] = i /\ b[3] <= g.arity[i] /\ old.how # "slots"
    BY <1>7
  <2>2. Allocates(r, i)
    BY <1>9, <2>1 DEF Allocates, i
  <2> QED
    BY <1>1, <2>1, <2>2 DEF ToCome
<1>11. ToCome(r)' \subseteq ToCome(r) \ New
  <2> SUFFICES ASSUME NEW b \in ToCome(r)' PROVE b \in ToCome(r) /\ b \notin New
    OBVIOUS
  <2>1. Unclaimed(r)' = Unclaimed(r)
    BY <1>1, <1>5 DEF Unclaimed, Positions, NodeAt
  <2>2. /\ b \in Buffer /\ b[1] = r
        /\ b[2] \in Unclaimed(r) \/ (Allocates(r, b[2])' /\ b[3] <= g.arity[b[2]])
    BY <1>1, <2>1 DEF ToCome, Buffer
  <2>3. CASE b[2] \in Unclaimed(r)
    <3>1. i \notin Unclaimed(r)
      BY <1>1, ClaimedOnce DEF i, old
    <3> QED
      BY <1>1, <1>7, <2>2, <2>3, <3>1 DEF ToCome
  <2>4. CASE Allocates(r, b[2])' /\ b[3] <= g.arity[b[2]]
    <3>1. PICK v \in DOMAIN work'[r] : /\ work'[r][v].node = b[2]
                                       /\ work'[r][v].st = "claimed"
                                       /\ work'[r][v].how # "slots"
      BY <2>4 DEF Allocates
    <3>2. v \in DOMAIN work[r] /\ v # w /\ work'[r][v] = work[r][v]
      BY <1>4, <1>5, <3>1
    <3>3. Allocates(r, b[2])
      BY <3>1, <3>2 DEF Allocates
    <3>4. b[2] # i
      BY <1>1, <3>1, <3>2, ClaimNodes DEF i, old
    <3> QED
      BY <1>1, <1>7, <2>2, <2>4, <3>3, <3>4 DEF ToCome
  <2> QED
    BY <2>2, <2>3, <2>4
<1>12. OwnOnce(r) /\ OwnAlone(r)
  BY DEF Unshared
<1>13. New \cap Own(r) = {} /\ New \cap pool = {}
  BY <1>10, <1>12 DEF OwnAlone
<1>14. InNames(r)' = InNames(r) /\ NamesApart(r)'
  BY <1>1, <1>12 DEF InNames, OwnOnce, NamesApart, Held
<1>15. ASSUME NEW v \in DOMAIN work[r], NEW k \in DOMAIN work'[r][v].bufs,
              work'[r][v].bufs[k] # NoBuffer
       PROVE  \/ /\ k \in DOMAIN work[r][v].bufs
                 /\ work'[r][v].bufs[k] = work[r][v].bufs[k]
              \/ /\ v = w /\ k \in Nat
                 /\ work'[r][v].bufs[k] \in New /\ work'[r][v].bufs[k] = Fresh(r, i, k)
  <2>1. CASE v = w
    <3>1. work'[r][v].bufs = bufs
      BY <1>4, <1>5, <2>1
    <3> QED
      BY <1>8, <1>9, <1>15, <2>1, <3>1
  <2>2. CASE v # w
    BY <1>5, <1>15, <2>2
  <2> QED
    BY <2>1, <2>2
<1>16. ASSUME NEW v \in DOMAIN work[r], NEW k \in DOMAIN work[r][v].bufs,
              work[r][v].bufs[k] # NoBuffer
       PROVE  work[r][v].bufs[k] \in InClaims(r)
  BY <1>16 DEF InClaims, BuffersOf
<1>17. InClaims(r)' \subseteq InClaims(r) \cup New
  <2> SUFFICES ASSUME NEW b \in InClaims(r)' PROVE b \in InClaims(r) \cup New
    OBVIOUS
  <2>1. PICK v \in DOMAIN work'[r] : b \in BuffersOf(work'[r][v].bufs)
    BY DEF InClaims, BuffersOf
  <2>2. PICK k \in DOMAIN work'[r][v].bufs : b = work'[r][v].bufs[k] /\ b # NoBuffer
    BY <2>1 DEF BuffersOf
  <2> QED
    BY <1>5, <1>15, <1>16, <2>2
<1>18. ClaimsApart(r)'
  <2> SUFFICES ASSUME NEW u \in DOMAIN work'[r], NEW v \in DOMAIN work'[r],
                      NEW k \in DOMAIN work'[r][u].bufs, NEW l \in DOMAIN work'[r][v].bufs,
                      work'[r][u].bufs[k] = work'[r][v].bufs[l],
                      work'[r][u].bufs[k] # NoBuffer
               PROVE  u = v /\ k = l
    BY DEF ClaimsApart
  <2> DEFINE b == work'[r][u].bufs[k]
             Kept(x, j) == j \in DOMAIN work[r][x].bufs /\ b = work[r][x].bufs[j]
             Made(x, j) == x = w /\ j \in Nat /\ b \in New /\ b = Fresh(r, i, j)
  <2>1. u \in DOMAIN work[r] /\ v \in DOMAIN work[r]
    BY <1>5
  <2>2. (Kept(u, k) \/ Made(u, k)) /\ (Kept(v, l) \/ Made(v, l))
    BY <1>15, <2>1
  <2>3. CASE Kept(u, k) /\ Kept(v, l)
    <3>1. /\ k \in DOMAIN work[r][u].bufs /\ l \in DOMAIN work[r][v].bufs
          /\ work[r][u].bufs[k] = work[r][v].bufs[l] /\ work[r][u].bufs[k] # NoBuffer
      BY <2>3
    <3>2. ClaimsApart(r)
      BY <1>12 DEF OwnOnce
    <3> QED
      BY <2>1, <3>1, <3>2 DEF ClaimsApart
  <2>4. CASE Made(u, k) /\ Made(v, l)
    <3>1. k \in Nat /\ l \in Nat /\ u = v /\ Fresh(r, i, k) = Fresh(r, i, l)
      BY <2>4
    <3>2. Fresh(r, i, k)[3] = k /\ Fresh(r, i, l)[3] = l
      BY ONLY <1>6, <3>1, FreshBuffer
    <3> QED
      BY <3>1, <3>2
  <2>5. ASSUME b \in New PROVE b \notin InClaims(r)
    BY <1>13, <2>5 DEF Own
  <2>6. ~(Kept(u, k) /\ Made(v, l)) /\ ~(Made(u, k) /\ Kept(v, l))
    BY <1>16, <2>1, <2>5
  <2> QED
    BY <2>2, <2>3, <2>4, <2>6
<1>19. OwnOnce(r)'
  <2>1. (InNames(r) \cap InClaims(r))' = {}
    <3>1. InNames(r) \cap InClaims(r) = {} /\ InNames(r) \cap New = {}
      BY <1>12, <1>13 DEF OwnOnce, Own
    <3> QED
      BY <1>14, <1>17, <3>1
  <2> QED
    BY <1>14, <1>18, <2>1 DEF OwnOnce
<1>20. Own(r)' \subseteq Own(r) \cup New
  BY <1>14, <1>17 DEF Own
<1>21. (Own(r) \cap pool)' = {} /\ (Own(r) \cup pool)' \subseteq Own(r) \cup pool \cup New
  <2>1. Own(r) \cap pool = {}
    BY <1>12 DEF OwnAlone
  <2> QED
    BY <1>1, <1>13, <1>20, <2>1
<1>22. ClaimsInOrder(r)'
  <2>1. \A v \in DOMAIN work[r] : work'[r][v].node = work[r][v].node
    BY <1>4, <1>5 DEF i, old
  <2> QED
    BY <1>1, <1>5, <2>1 DEF ClaimsInOrder, Batch
<1> QED
  BY <1>1, <1>5, <1>10, <1>11, <1>19, <1>21, <1>22, Handover

(* Where a name's result is: a result declared under that name.             *)
LEMMA StoredAtPlace ==
  ASSUME TInv, NEW item \in Claim, NEW n \in Name, StoredAt(item, n) # 0
  PROVE  /\ StoredAt(item, n) \in DOMAIN item.bufs
         /\ StoredAt(item, n) \in Named(g, item.node)
         /\ g.outs[item.node][StoredAt(item, n)] = n
<1> DEFINE outs == g.outs[item.node]
           last == FirstOf(Len(outs), Len(item.bufs))
           at == {k \in 1 .. last : outs[k] = n /\ \A l \in k + 1 .. last : outs[l] # n}
<1>1. StoredAt(item, n) \in at
  BY DEF StoredAt
<1>2. StoredAt(item, n) \in 1 .. last /\ outs[StoredAt(item, n)] = n
  BY <1>1
<1>3. item.node \in Nodes(g) /\ item.bufs \in Seq(Buffer \cup {NoBuffer})
  BY DEF Claim
<1>4. /\ Len(outs) \in Nat /\ DOMAIN outs = 1 .. Len(outs)
      /\ Len(item.bufs) \in Nat /\ DOMAIN item.bufs = 1 .. Len(item.bufs)
  BY <1>3, NodeType, LenProperties DEF TInv, TypeOK
<1>5. last \in Nat /\ last <= Len(outs) /\ last <= Len(item.bufs)
  BY <1>4 DEF FirstOf
<1>6. StoredAt(item, n) \in 1 .. Len(outs) /\ StoredAt(item, n) \in 1 .. Len(item.bufs)
  <2> HIDE DEF last, outs
  <2> QED
    BY <1>2, <1>4, <1>5
<1> QED
  BY <1>2, <1>4, <1>6, NoNameAssumption DEF Named

(* The results move to their names; what they displace and what has no name *)
(* goes to the pool.                                                        *)
LEMMA WriteUnshared ==
  ASSUME TInv, Unshared, NEW r \in Run, ClaimsInOrder(r), Write(r)
  PROVE  Unshared' /\ ClaimsInOrder(r)'
<1> DEFINE p == pos[r]
           item == work[r][p]
           stored == [n \in Name |-> IF StoredAt(item, n) = 0 THEN tensors[r][n]
                                      ELSE item.bufs[StoredAt(item, n)]]
           displaced == {tensors[r][n] : n \in {m \in Name : StoredAt(item, m) # 0}}
           unstored == {item.bufs[k] : k \in Unstored(item, Batch(r).checked)}
           given == Pooled((displaced \cup unstored) \ {NoBuffer})
<1>1. /\ pc[r] = "write" /\ Advance(r, "release") /\ UNCHANGED <<g, step>>
      /\ tensors' = [tensors EXCEPT ![r] = stored]
      /\ pool' = pool \cup given
      /\ work' = [work EXCEPT ![r][p] = [item EXCEPT !.bufs = <<>>]]
  BY DEF Write
<1>2. p \in DOMAIN work[r] /\ item \in Claim
  <2>1. p \in 1 .. Len(work[r]) /\ DOMAIN work[r] = 1 .. Len(work[r])
    BY <1>1, LenProperties DEF TInv, TypeOK, Cursor, CursorOf
  <2> QED
    BY <1>1, <2>1, ClaimPosition
<1>3. PICK left \in Claim : /\ work' = [work EXCEPT ![r][p] = left]
                            /\ left = [item EXCEPT !.bufs = <<>>]
  <2>1. [item EXCEPT !.bufs = <<>>] \in Claim
    BY <1>2, EmptySeq DEF Claim
  <2> QED
    BY <1>1, <2>1
<1>4. /\ left.node = item.node /\ left.how = item.how /\ left.st = item.st
      /\ left.bufs = <<>>
  BY <1>2, <1>3 DEF Claim
<1>5. /\ DOMAIN work'[r] = DOMAIN work[r] /\ Len(work'[r]) = Len(work[r])
      /\ work'[r][p] = left
      /\ \A v \in DOMAIN work[r] \ {p} : work'[r][v] = work[r][v]
      /\ \A s \in Run \ {r} : work'[s] = work[s]
  <2>1. work' = [work EXCEPT ![r][p] = left]
    BY <1>3
  <2> HIDE DEF p
  <2> QED
    BY ONLY TInv, <1>2, <2>1, ClaimReplaced
<1>6. /\ pc'[r] \in {"write", "release"}
      /\ \A s \in Run \ {r} : pc'[s] = pc[s] /\ tensors'[s] = tensors[s] /\ step'[s] = step[s]
  BY <1>1, AdvanceType DEF TInv, TypeOK
<1>7. \A n \in Name :
        /\ StoredAt(item, n) = 0 => tensors'[r][n] = tensors[r][n]
        /\ StoredAt(item, n) # 0 => tensors'[r][n] = item.bufs[StoredAt(item, n)]
  BY <1>1 DEF TInv, TypeOK
<1>8. \A n \in Name : StoredAt(item, n) # 0 =>
        /\ StoredAt(item, n) \in DOMAIN item.bufs
        /\ StoredAt(item, n) \in Named(g, item.node)
        /\ g.outs[item.node][StoredAt(item, n)] = n
  BY <1>2, StoredAtPlace
<1>9. OwnOnce(r) /\ OwnAlone(r)
  BY DEF Unshared
<1>10. given \subseteq (displaced \cup unstored) \ {NoBuffer}
  BY DEF Pooled
<1>11. ASSUME NEW k \in DOMAIN item.bufs, item.bufs[k] # NoBuffer
       PROVE  /\ item.bufs[k] \in InClaims(r) /\ item.bufs[k] \notin InNames(r)
              /\ \A l \in DOMAIN item.bufs : item.bufs[l] = item.bufs[k] => l = k
              /\ \A v \in DOMAIN work[r] \ {p} : item.bufs[k] \notin BuffersOf(work[r][v].bufs)
  <2>1. item.bufs[k] \in InClaims(r)
    BY <1>2, <1>11 DEF InClaims, BuffersOf
  <2>2. item.bufs[k] \notin InNames(r)
    BY <1>9, <2>1 DEF OwnOnce
  <2>3. ClaimsApart(r)
    BY <1>9 DEF OwnOnce
  <2>4. \A l \in DOMAIN item.bufs : item.bufs[l] = item.bufs[k] => l = k
    BY <1>2, <1>11, <2>3 DEF ClaimsApart
  <2>5. \A v \in DOMAIN work[r] \ {p} : item.bufs[k] \notin BuffersOf(work[r][v].bufs)
    BY <1>2, <1>11, <2>3 DEF ClaimsApart, BuffersOf
  <2> QED
    BY <2>1, <2>2, <2>4, <2>5
<1>12. ASSUME NEW n \in Name, tensors[r][n] # NoBuffer
       PROVE  tensors[r][n] \in InNames(r) /\ tensors[r][n] \notin InClaims(r)
  BY <1>9, <1>12 DEF InNames, OwnOnce
<1>13. \A m, n \in Name : tensors[r][m] # NoBuffer /\ tensors[r][m] = tensors[r][n] => m = n
  BY <1>9 DEF OwnOnce, NamesApart, Held
<1>14. \A b : b \in displaced => \E m \in Name : StoredAt(item, m) # 0 /\ b = tensors[r][m]
  OBVIOUS
<1>15. \A b : b \in unstored =>
         \E k \in DOMAIN item.bufs : b = item.bufs[k] /\ \A n \in Name : StoredAt(item, n) # k
  BY DEF Unstored
<1>16. item = work[r][p]
  OBVIOUS
<1> HIDE DEF item, stored, displaced, unstored, given, p
<1>17. ASSUME NEW b \in InClaims(r)'
       PROVE  /\ b \in InClaims(r) /\ b # NoBuffer
              /\ \A k \in DOMAIN item.bufs : item.bufs[k] # b
  <2>1. PICK v \in DOMAIN work'[r] : b \in BuffersOf(work'[r][v].bufs)
    BY DEF InClaims, BuffersOf
  <2>2. v # p
    BY <1>4, <1>5, <2>1 DEF BuffersOf
  <2>3. v \in DOMAIN work[r] \ {p} /\ b \in BuffersOf(work[r][v].bufs) /\ b # NoBuffer
    BY <1>5, <2>1, <2>2 DEF BuffersOf
  <2> QED
    BY <1>11, <2>3 DEF InClaims
<1>18. NamesApart(r)'
  <2> SUFFICES ASSUME NEW m \in Name, NEW n \in Name, tensors'[r][m] # NoBuffer,
                      tensors'[r][m] = tensors'[r][n]
               PROVE  m = n
    BY DEF NamesApart, Held
  <2>1. CASE StoredAt(item, m) = 0 /\ StoredAt(item, n) = 0
    BY <1>7, <1>13, <2>1
  <2>2. CASE StoredAt(item, m) # 0 /\ StoredAt(item, n) # 0
    <3>1. StoredAt(item, m) = StoredAt(item, n)
      BY <1>7, <1>8, <1>11, <2>2
    <3> QED
      BY <1>8, <2>2, <3>1
  <2>3. CASE StoredAt(item, m) # 0 /\ StoredAt(item, n) = 0
    BY <1>7, <1>8, <1>11, <1>12, <2>3
  <2>4. CASE StoredAt(item, m) = 0 /\ StoredAt(item, n) # 0
    BY <1>7, <1>8, <1>11, <1>12, <2>4
  <2> QED
    BY <2>1, <2>2, <2>3, <2>4
<1>19. ASSUME NEW b \in InNames(r)'
       PROVE  /\ b # NoBuffer
              /\ \/ \E n \in Name : StoredAt(item, n) = 0 /\ b = tensors[r][n]
                 \/ \E n \in Name : StoredAt(item, n) # 0 /\ b = item.bufs[StoredAt(item, n)]
  <2>1. PICK n \in Name : b = tensors'[r][n] /\ b # NoBuffer
    BY DEF InNames
  <2> QED
    BY <1>7, <2>1
<1>20. (InNames(r) \cap InClaims(r))' = {}
  <2> SUFFICES ASSUME NEW b \in InNames(r)', b \in InClaims(r)' PROVE FALSE
    OBVIOUS
  <2>1. b \in InClaims(r) /\ \A k \in DOMAIN item.bufs : item.bufs[k] # b
    BY <1>17
  <2> QED
    BY <1>8, <1>12, <1>19, <2>1
<1>21. ClaimsApart(r)'
  <2>1. ClaimsApart(r)
    BY <1>9 DEF OwnOnce
  <2>2. \A v \in DOMAIN work'[r] : v = p => DOMAIN work'[r][v].bufs = {}
    BY <1>4, <1>5
  <2>3. \A v \in DOMAIN work'[r] : v # p => v \in DOMAIN work[r] /\ work'[r][v] = work[r][v]
    BY <1>5
  <2> QED
    BY <2>1, <2>2, <2>3 DEF ClaimsApart
<1>22. OwnOnce(r)'
  BY <1>18, <1>20, <1>21 DEF OwnOnce
<1>23. Own(r)' \subseteq Own(r)
  <2>1. InNames(r)' \subseteq Own(r)
    BY <1>8, <1>11, <1>12, <1>19 DEF Own
  <2>2. InClaims(r)' \subseteq Own(r)
    BY <1>17 DEF Own
  <2> QED
    BY <2>1, <2>2 DEF Own
<1>24. ASSUME NEW b \in given PROVE b \in Own(r) /\ b \notin Own(r)'
  <2>1. b # NoBuffer /\ (b \in displaced \/ b \in unstored)
    BY <1>10
  <2>2. CASE b \in displaced
    <3>1. PICK m \in Name : StoredAt(item, m) # 0 /\ b = tensors[r][m]
      BY <1>14, <2>2
    <3>2. b \in InNames(r) /\ b \notin InClaims(r)
      BY <1>12, <2>1, <3>1
    <3>3. b \notin InNames(r)'
      <4>1. \A n \in Name : StoredAt(item, n) = 0 => b # tensors[r][n]
        BY <1>13, <2>1, <3>1
      <4>2. \A n \in Name : StoredAt(item, n) # 0 => b # item.bufs[StoredAt(item, n)]
        BY <1>8, <1>11, <2>1, <3>2
      <4> QED
        BY <1>19, <4>1, <4>2
    <3> QED
      BY <1>17, <3>2, <3>3 DEF Own
  <2>3. CASE b \in unstored
    <3>1. PICK k \in DOMAIN item.bufs :
                 b = item.bufs[k] /\ \A n \in Name : StoredAt(item, n) # k
      BY <1>15, <2>3
    <3>2. b \in InClaims(r) /\ b \notin InNames(r)
      BY <1>11, <2>1, <3>1
    <3>3. b \notin InNames(r)'
      <4>1. \A n \in Name : StoredAt(item, n) = 0 => b # tensors[r][n]
        BY <1>12, <2>1, <3>2
      <4>2. \A n \in Name : StoredAt(item, n) # 0 => b # item.bufs[StoredAt(item, n)]
        BY <1>8, <1>11, <2>1, <3>1
      <4> QED
        BY <1>19, <4>1, <4>2
    <3>4. b \notin InClaims(r)'
      BY <1>17, <3>1
    <3> QED
      BY <3>2, <3>3, <3>4 DEF Own
  <2> QED
    BY <2>1, <2>2, <2>3
<1> DEFINE New == {}
<1>25. (Own(r) \cap pool)' = {}
  <2>1. Own(r) \cap pool = {}
    BY <1>9 DEF OwnAlone
  <2> QED
    BY <1>1, <1>23, <1>24, <2>1
<1>26. ToCome(r)' \subseteq ToCome(r)
  <2>1. \A v \in DOMAIN work[r] :
          /\ work'[r][v].node = work[r][v].node /\ work'[r][v].how = work[r][v].how
          /\ work'[r][v].st = work[r][v].st
    BY <1>4, <1>5, <1>16
  <2> QED
    BY <1>1, <1>5, <1>6, <2>1, SameToCome DEF TInv
<1>27. ClaimsInOrder(r)'
  <2>1. \A v \in DOMAIN work[r] : work'[r][v].node = work[r][v].node
    BY <1>4, <1>5, <1>16
  <2> QED
    BY <1>1, <1>5, <2>1 DEF ClaimsInOrder, Batch
<1>28. /\ New \subseteq ToCome(r) /\ ToCome(r)' \subseteq ToCome(r) \ New
       /\ (Own(r) \cup pool)' \subseteq Own(r) \cup pool \cup New
  <2>1. Own(r)' \cup pool' \subseteq Own(r) \cup pool
    BY <1>1, <1>23, <1>24
  <2> QED
    BY <1>26, <2>1
<1> HIDE DEF New
<1> QED
  BY <1>1, <1>5, <1>6, <1>22, <1>25, <1>27, <1>28, Handover

(* The dead tensors go to the pool, and after the last node the claims go.  *)
LEMMA ReleaseUnshared ==
  ASSUME TInv, Unshared, NEW r \in Run, ClaimsInOrder(r), Release(r)
  PROVE  Unshared' /\ ClaimsInOrder(r)'
<1> DEFINE D == LastUsed(g, refs[r], Batch(r).nodes[pos[r]])
<1>1. /\ pc[r] = "release" /\ Advance(r, "claim") /\ UNCHANGED g
      /\ tensors' = [tensors EXCEPT ![r] = [n \in Name |->
           IF n \in D THEN NoBuffer ELSE tensors[r][n]]]
      /\ pool' = pool \cup Pooled({tensors[r][n] : n \in D} \ {NoBuffer})
      /\ step' = [step EXCEPT ![r] = IF LastOfBatch(r) THEN @ + 1 ELSE @]
      /\ work' = [work EXCEPT ![r] = IF LastOfBatch(r) THEN <<>> ELSE @]
  BY DEF Release
<1>2. D \in SUBSET Name
  BY DEF LastUsed
<1> HIDE DEF D
<1>3. /\ \A n \in Name : tensors'[r][n] = IF n \in D THEN NoBuffer ELSE tensors[r][n]
      /\ work'[r] = (IF LastOfBatch(r) THEN <<>> ELSE work[r])
      /\ step'[r] = (IF LastOfBatch(r) THEN step[r] + 1 ELSE step[r])
      /\ \A s \in Run \ {r} : tensors'[s] = tensors[s] /\ work'[s] = work[s] /\ step'[s] = step[s]
  BY <1>1 DEF TInv, TypeOK
<1>4. /\ LastOfBatch(r) => pc'[r] = "claim"
      /\ ~LastOfBatch(r) => pc'[r] = "release"
      /\ \A s \in Run \ {r} : pc'[s] = pc[s]
  BY <1>1, AdvanceType
<1>5. pool \subseteq pool' /\ pool' \subseteq pool \cup ({tensors[r][n] : n \in D} \ {NoBuffer})
  BY <1>1 DEF Pooled
<1>6. ClaimsApart(r)
  BY DEF Unshared, OwnOnce
<1>7. /\ ClaimsApart(r)' /\ InClaims(r)' \subseteq InClaims(r)
      /\ ToCome(r)' \subseteq ToCome(r) /\ ClaimsInOrder(r)'
  <2>1. CASE ~LastOfBatch(r)
    <3>1. work'[r] = work[r] /\ step'[r] = step[r]
      BY <1>3, <2>1
    <3>2. UNCHANGED <<g, step>>
      BY <1>1, <2>1 DEF TInv, TypeOK
    <3>3. ToCome(r)' \subseteq ToCome(r)
      BY <1>1, <1>4, <2>1, <3>1, <3>2, SameToCome DEF TInv
    <3> QED
      BY <1>1, <1>6, <3>1, <3>2, <3>3 DEF ClaimsApart, InClaims, ClaimsInOrder, Batch
  <2>2. CASE LastOfBatch(r)
    <3>1. /\ work'[r] = <<>> /\ DOMAIN work'[r] = {} /\ Len(work'[r]) = 0
          /\ step'[r] = step[r] + 1 /\ pc'[r] = "claim"
      BY <1>3, <1>4, <2>2
    <3>2. ClaimsApart(r)' /\ InClaims(r)' = {} /\ ClaimsInOrder(r)'
      BY <3>1 DEF ClaimsApart, InClaims, ClaimsInOrder
    <3>3. \A i : ~Allocates(r, i)'
      BY <3>1 DEF Allocates
    <3>4. Unclaimed(r)' \subseteq Unclaimed(r)
      <4> SUFFICES ASSUME NEW j \in Unclaimed(r)' PROVE j \in Unclaimed(r)
        OBVIOUS
      <4>1. PICK q \in Positions(g) :
              /\ j = NodeAt(g, q)
              /\ q[1] > step[r] + 1 \/ (q[1] = step[r] + 1 /\ q[2] > 0)
        BY <1>1, <3>1 DEF Unclaimed, Positions, NodeAt
      <4>2. q[1] \in Nat /\ step[r] \in Nat
        BY PositionPair DEF TInv, TypeOK
      <4>3. q[1] > step[r]
        BY <4>1, <4>2
      <4> QED
        BY <4>1, <4>3 DEF Unclaimed
    <3>5. ToCome(r)' \subseteq ToCome(r)
      BY <1>1, <3>1, <3>3, <3>4 DEF ToCome, Buffer
    <3> QED
      BY <3>2, <3>5
  <2> QED
    BY <2>1, <2>2
<1>8. Unshared'
  <2>1. pool \subseteq pool' /\ pool' \subseteq pool \cup ({tensors[r][n] : n \in D} \ {NoBuffer})
    BY <1>5
  <2>2. \A s \in Run \ {r} : /\ tensors'[s] = tensors[s] /\ work'[s] = work[s]
                              /\ pc'[s] = pc[s] /\ step'[s] = step[s]
    BY <1>3, <1>4
  <2>3. \A n \in Name : tensors'[r][n] = IF n \in D THEN NoBuffer ELSE tensors[r][n]
    BY <1>3
  <2>4. UNCHANGED g /\ ClaimsApart(r)' /\ InClaims(r)' \subseteq InClaims(r)
        /\ ToCome(r)' \subseteq ToCome(r)
    BY <1>1, <1>7
  <2> QED
    BY <1>2, <2>1, <2>2, <2>3, <2>4, HandedBack
<1> QED
  BY <1>7, <1>8

(* The outputs leave with the caller, the rest goes to the pool.            *)
LEMMA FinishUnshared ==
  ASSUME TInv, Unshared, NEW r \in Run, ClaimsInOrder(r), Finish(r) \/ FinishError(r)
  PROVE  Unshared' /\ ClaimsInOrder(r)'
<1> DEFINE D == IF Finish(r) THEN Name \ OutputSet(g) ELSE Name
<1>1. /\ UNCHANGED <<g, step, work>> /\ pool' = pool \cup Pooled(Leftover(r))
      /\ pc'[r] \in {"done", "failed"} /\ \A s \in Run \ {r} : pc'[s] = pc[s]
      /\ \A n \in Name : tensors'[r][n] = IF n \in D THEN NoBuffer ELSE tensors[r][n]
      /\ \A s \in Run \ {r} : tensors'[s] = tensors[s]
  <2>1. CASE Finish(r)
    BY <2>1 DEF Finish, TInv, TypeOK
  <2>2. CASE ~Finish(r)
    BY <2>2 DEF FinishError, TInv, TypeOK
  <2> QED
    BY <2>1, <2>2
<1>2. D \in SUBSET Name /\ Name \ OutputSet(g) \subseteq D
  OBVIOUS
<1> HIDE DEF D
<1>3. pool \subseteq pool' /\ pool' \subseteq pool \cup ({tensors[r][n] : n \in D} \ {NoBuffer})
  BY <1>1, <1>2 DEF Pooled, Leftover
<1>4. ToCome(r)' \subseteq ToCome(r)
  BY <1>1 DEF ToCome
<1>5. ClaimsApart(r)
  BY DEF Unshared, OwnOnce
<1>6. ClaimsApart(r)' /\ InClaims(r)' \subseteq InClaims(r) /\ ClaimsInOrder(r)'
  BY <1>1, <1>5 DEF ClaimsApart, InClaims, BuffersOf, ClaimsInOrder, Batch
<1>7. Unshared'
  BY <1>1, <1>2, <1>3, <1>4, <1>6, HandedBack
<1> QED
  BY <1>6, <1>7

-----------------------------------------------------------------------------
(* No step gives a buffer a second owner.                                   *)
LEMMA StepUnshared ==
  ASSUME IInv, NEW r \in Run, Start(r) \/ Reject(r) \/ Step(r)
  PROVE  Unshared' /\ \A s \in Run : ClaimsInOrder(s)'
<1>1. TInv /\ Unshared /\ \A s \in Run : ClaimsInOrder(s)
  BY DEF IInv
<1>2. Unshared' /\ ClaimsInOrder(r)'
  <2>1. CASE Start(r)
    BY <1>1, <2>1, StartUnshared
  <2>2. CASE Reject(r) \/ ClaimError(r) \/ WriteError(r)
    BY <1>1, <2>2, FailUnshared DEF Reject, ClaimError, WriteError
  <2>3. CASE ClaimInplace(r)
    BY <1>1, <2>3, ClaimInplaceUnshared
  <2>4. CASE ClaimSlots(r)
    BY <1>1, <2>4, ClaimSlotsUnshared
  <2>5. CASE ClaimFresh(r)
    BY <1>1, <2>5, ClaimFreshUnshared
  <2>6. CASE \E w \in DOMAIN work[r] : Compute(r, w)
    BY <1>1, <2>6, ComputeUnshared
  <2>7. CASE Join(r) \/ \E w \in DOMAIN work[r] : ComputeError(r, w)
    BY <1>1, <2>7, QuietUnshared
  <2>8. CASE Write(r)
    BY <1>1, <2>8, WriteUnshared
  <2>9. CASE Release(r)
    BY <1>1, <2>9, ReleaseUnshared
  <2>10. CASE Finish(r) \/ FinishError(r)
    BY <1>1, <2>10, FinishUnshared
  <2> QED
    BY <2>1, <2>2, <2>3, <2>4, <2>5, <2>6, <2>7, <2>8, <2>9, <2>10 DEF Step
<1>3. ASSUME NEW s \in Run \ {r} PROVE ClaimsInOrder(s)'
  <2>1. UNCHANGED g /\ step'[s] = step[s]
    BY <1>1, OthersUntouched
  <2>2. work'[s] = work[s]
    <3> USE DEF TInv, TypeOK
    <3>1. CASE Start(r) \/ Join(r) \/ Finish(r) \/ FinishError(r)
      BY <3>1 DEF Start, Join, Finish, FinishError
    <3>2. CASE Reject(r) \/ ClaimError(r) \/ WriteError(r)
      BY <1>1, <3>2 DEF Reject, ClaimError, WriteError, Fail
    <3>3. CASE ClaimInplace(r) \/ ClaimSlots(r) \/ ClaimFresh(r)
      BY <1>1, <3>3 DEF ClaimInplace, ClaimSlots, ClaimFresh, Claimed
    <3>4. CASE \E w \in DOMAIN work[r] : Compute(r, w) \/ ComputeError(r, w)
      BY <1>1, <3>4 DEF Compute, ComputeError
    <3>5. CASE Write(r) \/ Release(r)
      BY <1>1, <3>5 DEF Write, Release
    <3> QED
      BY <3>1, <3>2, <3>3, <3>4, <3>5 DEF Step
  <2> QED
    BY <1>1, <2>1, <2>2 DEF ClaimsInOrder, Batch
<1> QED
  BY <1>2, <1>3

(* At the start nobody holds a buffer, and all of them are to come.         *)
LEMMA InitUnshared == Init => IInv
<1> SUFFICES ASSUME Init PROVE IInv
  OBVIOUS
<1>1. ASSUME NEW r \in Run
      PROVE  /\ tensors[r] = [n \in Name |-> NoBuffer] /\ work[r] = <<>>
             /\ DOMAIN work[r] = {} /\ pool = {}
  BY DEF Init
<1>2. ASSUME NEW r \in Run PROVE InNames(r) = {} /\ InClaims(r) = {} /\ Own(r) = {}
  BY <1>1 DEF InNames, InClaims, Own
<1>3. ASSUME NEW r \in Run PROVE OwnOnce(r) /\ ClaimsInOrder(r)
  BY <1>1, <1>2 DEF OwnOnce, NamesApart, ClaimsApart, Held, ClaimsInOrder
<1>4. ASSUME NEW r \in Run PROVE OwnAlone(r)
  BY <1>1, <1>2 DEF OwnAlone
<1> QED
  BY <1>3, <1>4, InitTInv DEF IInv, Unshared

(* The owners of IInv are those of BuffersUnshared.                         *)
LEMMA OneOwner == IInv => BuffersUnshared
<1> SUFFICES ASSUME IInv PROVE BuffersUnshared
  OBVIOUS
<1>1. ASSUME NEW r \in Run
      PROVE  OwnOnce(r) /\ OwnAlone(r)
  BY DEF IInv, Unshared
<1>2. ASSUME NEW r \in Run, NEW n \in Name, Held(r, n)
      PROVE  tensors[r][n] \in InNames(r) /\ tensors[r][n] \in Own(r)
  BY <1>2 DEF InNames, Own, Held
<1>3. ASSUME NEW r \in Run, NEW w \in DOMAIN work[r]
      PROVE  BuffersOf(work[r][w].bufs) \subseteq InClaims(r) /\ InClaims(r) \subseteq Own(r)
  BY DEF InClaims, Own
<1>4. NoBuffer \notin pool
  BY NoBufferAssumption DEF IInv, TInv, TypeOK, Buffer
<1>5. ASSUME NEW r \in Run, NEW s \in Run, NEW m \in Name, NEW n \in Name,
             Held(r, m), tensors[r][m] = tensors[s][n]
      PROVE  r = s /\ m = n
  <2>1. Held(s, n)
    BY <1>5 DEF Held
  <2>2. r = s
    BY <1>1, <1>2, <1>5, <2>1 DEF OwnAlone
  <2> QED
    BY <1>1, <1>5, <2>2 DEF OwnOnce, NamesApart
<1>6. ASSUME NEW r \in Run, NEW n \in Name PROVE tensors[r][n] \notin pool
  <2>1. CASE Held(r, n)
    BY <1>1, <1>2, <2>1 DEF OwnAlone
  <2>2. CASE ~Held(r, n)
    BY <1>4, <2>2 DEF Held
  <2> QED
    BY <2>1, <2>2
<1>7. ASSUME NEW r \in Run, NEW w \in DOMAIN work[r]
      PROVE  LET bufs == work[r][w].bufs IN
             /\ BuffersOf(bufs) \cap pool = {}
             /\ \A s \in Run : \A n \in Name : tensors[s][n] \notin BuffersOf(bufs)
             /\ \A k, l \in DOMAIN bufs : bufs[k] = bufs[l] /\ bufs[k] # NoBuffer => k = l
             /\ \A s \in Run : \A v \in DOMAIN work[s] :
                  BuffersOf(bufs) \cap BuffersOf(work[s][v].bufs) # {} => r = s /\ w = v
  <2> DEFINE bufs == work[r][w].bufs
  <2>1. BuffersOf(bufs) \cap pool = {}
    BY <1>1, <1>3 DEF OwnAlone
  <2>2. ASSUME NEW s \in Run, NEW n \in Name, tensors[s][n] \in BuffersOf(bufs) PROVE FALSE
    <3>1. Held(s, n)
      BY <2>2 DEF BuffersOf, Held
    <3>2. tensors[s][n] \in InNames(s) /\ tensors[s][n] \in Own(s)
      BY <1>2, <3>1
    <3>3. tensors[s][n] \in InClaims(r) /\ tensors[s][n] \in Own(r)
      BY <1>3, <2>2
    <3>4. CASE s = r
      BY <1>1, <3>2, <3>3, <3>4 DEF OwnOnce
    <3>5. CASE s # r
      BY <1>1, <3>2, <3>3, <3>5 DEF OwnAlone
    <3> QED
      BY <3>4, <3>5
  <2>3. ClaimsApart(r)
    BY <1>1 DEF OwnOnce
  <2>4. \A k, l \in DOMAIN bufs : bufs[k] = bufs[l] /\ bufs[k] # NoBuffer => k = l
    BY <2>3 DEF ClaimsApart
  <2>5. ASSUME NEW s \in Run, NEW v \in DOMAIN work[s],
               NEW b \in BuffersOf(bufs), b \in BuffersOf(work[s][v].bufs)
        PROVE  r = s /\ w = v
    <3>1. r = s
      <4>1. b \in Own(r) /\ b \in Own(s)
        BY <1>3, <2>5
      <4> QED
        BY <1>1, <4>1 DEF OwnAlone
    <3>2. w = v
      BY <2>3, <2>5, <3>1 DEF ClaimsApart, BuffersOf
    <3> QED
      BY <3>1, <3>2
  <2> QED
    BY <2>1, <2>2, <2>4, <2>5
<1> QED
  BY <1>5, <1>6, <1>7 DEF BuffersUnshared

LEMMA IInvCorrect == Spec => []IInv
<1>1. Init => IInv
  BY InitUnshared
<1>2. IInv /\ [Next]_vars => IInv'
  <2> SUFFICES ASSUME IInv, [Next]_vars PROVE IInv'
    OBVIOUS
  <2>1. CASE Next
    <3>1. PICK r \in Run : Start(r) \/ Reject(r) \/ Step(r)
      BY <2>1 DEF Next
    <3>2. TInv'
      BY <3>1, StepTInv DEF IInv
    <3>3. Unshared' /\ \A s \in Run : ClaimsInOrder(s)'
      BY <3>1, StepUnshared
    <3> QED
      BY <3>2, <3>3 DEF IInv
  <2>2. CASE UNCHANGED vars
    <3>1. TInv'
      <4>1. TypeOK'
        BY <2>2, ClaimUnchanged DEF vars, IInv, TInv, TypeOK, Buffer
      <4>2. Cursor'
        BY <2>2 DEF vars, IInv, TInv, Cursor, CursorOf, Batch
      <4> QED
        BY <4>1, <4>2 DEF TInv
    <3>2. \A s \in Run : ClaimsInOrder(s)'
      BY <2>2 DEF vars, IInv, ClaimsInOrder, Batch
    <3>3. Unshared'
      <4>1. UNCHANGED <<g, pc, step, tensors, work, pool>> /\ Unshared
        BY <2>2 DEF vars, IInv
      <4>2. ASSUME NEW r \in Run PROVE Own(r)' = Own(r) /\ ToCome(r)' = ToCome(r)
        BY <4>1 DEF Own, InNames, InClaims, ToCome, Unclaimed, Allocates, Buffer, Positions, NodeAt
      <4>3. ASSUME NEW r \in Run PROVE OwnOnce(r)'
        BY <4>1 DEF Unshared, OwnOnce, NamesApart, ClaimsApart, InNames, InClaims, Held
      <4>4. ASSUME NEW r \in Run PROVE OwnAlone(r)'
        BY <4>1, <4>2 DEF Unshared, OwnAlone
      <4> QED
        BY <4>3, <4>4 DEF Unshared
    <3> QED
      BY <3>1, <3>2, <3>3 DEF IInv
  <2> QED
    BY <2>1, <2>2
<1> QED
  BY <1>1, <1>2, PTL DEF Spec

(* A buffer has one owner over all the runs of a session that share its     *)
(* pool: acquire_output_slots, the in-place takeover, write_node_outputs,   *)
(* the release into the pool and the drain of take_outputs never leave the  *)
(* same one in two places, whatever the graph and the interleaving.         *)
THEOREM UnsharedCorrect == Spec => []BuffersUnshared
BY IInvCorrect, OneOwner, PTL

-----------------------------------------------------------------------------
(* Tensors are held exactly as long as they are needed.                     *)

(* The buffers of a claim, and the results a worker has left to be written. *)
SlotsReady(i, bufs) ==
  /\ DOMAIN bufs = DOMAIN g.outs[i]
  /\ \A k \in Named(g, i) : bufs[k] # NoBuffer
Prepared(item) ==
  /\ item.how = "slots" => SlotsReady(item.node, item.bufs)
  /\ item.how = "inplace" => DOMAIN item.bufs = {1}
ResultsReady(i, bufs) ==
  /\ DOMAIN bufs = 1 .. g.arity[i]
  /\ \A k \in Named(g, i) \cap DOMAIN bufs : bufs[k] # NoBuffer
ClaimReady(r, w) == LET item == work[r][w] IN
  /\ item.st = "claimed" => Prepared(item)
  /\ item.st = "computed" /\ (pc[r] = "write" => w >= pos[r]) /\ pc[r] # "release"
       => ResultsReady(item.node, item.bufs)
ClaimsReady(r) == \A w \in DOMAIN work[r] : ClaimReady(r, w)

(* NeededTensorsHeld and NoDeadTensorHeld, for one run.                     *)
NeededHeld(r) ==
  Active(r) => \A n \in Name \ g.weights : Available(r, n) =>
    \/ Held(r, n)
    \/ /\ n \notin OutputSet(g)
       /\ \A i \in Pending(r) : Uses(g, i, n) # {} => ClaimedInplaceBy(r, i, n)
NoDeadHeld(r) ==
  ProducedFirst(g) /\ Active(r) => \A n \in Name \ (g.weights \cup OutputSet(g)) :
    Held(r, n) /\ UsesBy(g, Nodes(g), n) # {} => UsesBy(g, Pending(r), n) # {}

(* A number from 1 to n with a property has a last one like it after it.    *)
LEMMA LastOne ==
  ASSUME NEW n \in Nat, NEW T \in SUBSET (1 .. n), T # {}
  PROVE  \E k \in T : \A l \in k + 1 .. n : l \notin T
<1> DEFINE D == {d \in Nat : \E k \in T : d = n - k}
<1>1. D # {}
  <2>1. PICK k \in T : TRUE
    OBVIOUS
  <2>2. n - k \in Nat
    OBVIOUS
  <2> QED
    BY <2>1, <2>2
<1>2. PICK d \in D : \A e \in D : ~(<<e, d>> \in {ss \in Nat \X Nat : ss[1] < ss[2]})
  <2>1. D \subseteq Nat
    OBVIOUS
  <2> HIDE DEF D
  <2> QED
    BY <1>1, <2>1, WFMin, NatLessThanWellFounded DEF OpToRel
<1>3. PICK k \in T : d = n - k
  BY <1>2
<1>4. ASSUME NEW l \in k + 1 .. n, l \in T PROVE FALSE
  <2>1. n - l \in Nat /\ n - l < n - k
    BY <1>4
  <2>2. n - l \in D
    BY <1>4, <2>1
  <2>3. <<n - l, d>> \in {ss \in Nat \X Nat : ss[1] < ss[2]}
    BY <1>2, <1>3, <2>1
  <2> QED
    BY <1>2, <2>2, <2>3
<1> QED
  BY <1>4

(* A result declared under a name is stored under it, or a later one is.    *)
LEMMA StoredIfNamed ==
  ASSUME TInv, NEW item \in Claim, NEW n \in Name, NEW k \in DOMAIN item.bufs,
         k \in DOMAIN g.outs[item.node], g.outs[item.node][k] = n
  PROVE  StoredAt(item, n) # 0
<1> DEFINE outs == g.outs[item.node]
           last == FirstOf(Len(outs), Len(item.bufs))
           at == {j \in 1 .. last : outs[j] = n /\ \A l \in j + 1 .. last : outs[l] # n}
           T == {j \in 1 .. last : outs[j] = n}
<1>1. item.node \in Nodes(g) /\ item.bufs \in Seq(Buffer \cup {NoBuffer})
  BY DEF Claim
<1>2. /\ Len(outs) \in Nat /\ DOMAIN outs = 1 .. Len(outs)
      /\ Len(item.bufs) \in Nat /\ DOMAIN item.bufs = 1 .. Len(item.bufs)
  BY <1>1, NodeType, LenProperties DEF TInv, TypeOK
<1>3. last \in Nat /\ k \in 1 .. last
  <2>1. k \in 1 .. Len(outs) /\ k \in 1 .. Len(item.bufs)
    BY <1>2
  <2> QED
    BY ONLY <1>2, <2>1 DEF FirstOf
<1>4. T # {} /\ T \in SUBSET (1 .. last)
  BY <1>3
<1>5. \E j \in T : \A l \in j + 1 .. last : l \notin T
  <2> HIDE DEF T, last
  <2> QED
    BY <1>3, <1>4, LastOne
<1>6. at # {}
  <2>1. PICK j \in T : \A l \in j + 1 .. last : l \notin T
    BY <1>5
  <2>2. ASSUME NEW l \in j + 1 .. last PROVE outs[l] # n
    <3>1. l \in 1 .. last /\ l \notin T
      <4>1. j \in 1 .. last
        OBVIOUS
      <4> HIDE DEF last, T
      <4> QED
        BY <1>3, <2>1, <4>1
    <3> QED
      BY <3>1
  <2> QED
    BY <2>1, <2>2
<1>7. StoredAt(item, n) \in at
  BY <1>6 DEF StoredAt
<1>8. ASSUME NEW j \in at PROVE j # 0
  <2>1. j \in 1 .. last
    OBVIOUS
  <2> HIDE DEF last
  <2> QED
    BY <1>3, <2>1
<1> QED
  BY <1>7, <1>8

(* A step that is not a write adds nothing to what is written.              *)
LEMMA StepWritten ==
  ASSUME TInv, NEW r \in Run, Step(r), ~Write(r), Active(r)'
  PROVE  Written(r)' = Written(r) /\ UNCHANGED g
<1> USE DEF TInv, TypeOK
<1>1. CASE ClaimInplace(r) \/ ClaimSlots(r) \/ ClaimFresh(r)
  <2>1. /\ UNCHANGED <<g, step>> /\ pc[r] = "claim" /\ pc'[r] \in {"claim", "compute"}
    BY <1>1 DEF ClaimInplace, ClaimSlots, ClaimFresh, Claimed, Claiming
  <2> QED
    BY <2>1 DEF Written, NodesBefore, Positions, NodeAt
<1>2. CASE ClaimError(r) \/ WriteError(r)
  BY <1>2 DEF ClaimError, WriteError, Fail, Active
<1>3. CASE \E w \in DOMAIN work[r] : Compute(r, w) \/ ComputeError(r, w)
  <2>1. UNCHANGED <<g, step, pos, pc>>
    BY <1>3 DEF Compute, ComputeError
  <2> QED
    BY <2>1 DEF Written, NodesBefore, Positions, NodeAt
<1>4. CASE Join(r)
  <2>1. /\ UNCHANGED <<g, step, pos>> /\ pc[r] = "compute" /\ pc'[r] = "write" /\ pos[r] = 1
    BY <1>4 DEF Join, Cursor, CursorOf
  <2> QED
    BY <2>1 DEF Written, NodesBefore, Positions, NodeAt
<1>5. CASE Release(r)
  <2>1. pc[r] = "release" /\ Advance(r, "claim") /\ UNCHANGED g
    BY <1>5 DEF Release
  <2>2. CASE LastOfBatch(r)
    <3>1. pc'[r] = "claim" /\ step'[r] = step[r] + 1
      BY <1>5, <2>1, <2>2, AdvanceType DEF Release
    <3> QED
      BY <2>1, <3>1 DEF Written, NodesBefore, Positions, NodeAt
  <2>3. CASE ~LastOfBatch(r)
    <3>1. pc'[r] = "release" /\ step'[r] = step[r]
      BY <1>5, <2>1, <2>3, AdvanceType DEF Release
    <3> QED
      BY <2>1, <3>1 DEF Written, NodesBefore, Positions, NodeAt
  <2> QED
    BY <2>2, <2>3
<1>6. CASE Finish(r) \/ FinishError(r)
  BY <1>6 DEF Finish, FinishError, Active
<1> QED
  BY <1>1, <1>2, <1>3, <1>4, <1>5, <1>6 DEF Step

(* A write adds its node.                                                   *)
LEMMA WriteWritten ==
  ASSUME TInv, NEW r \in Run, Write(r)
  PROVE  Written(r)' = Written(r) \cup {Batch(r).nodes[pos[r]]}
<1> DEFINE b == step[r]
           k == pos[r]
<1>1. /\ pc[r] = "write" /\ Advance(r, "release") /\ UNCHANGED <<g, step>>
      /\ b \in DOMAIN g.batches /\ k \in 1 .. Len(g.batches[b].nodes)
      /\ Len(g.batches[b].nodes) \in Nat
  BY BatchType DEF Write, TInv, TypeOK, Cursor, CursorOf, Batch
<1>2. NodesBefore(b, k + 1) = NodesBefore(b, k) \cup {g.batches[b].nodes[k]}
  BY <1>1, NextNode DEF TInv
<1>3. Written(r) = NodesBefore(b, k)
  BY <1>1 DEF Written
<1>4. Written(r)' = NodesBefore(b, k + 1)
  <2>1. CASE LastOfBatch(r)
    <3>1. pc'[r] = "release" /\ step'[r] = b /\ k = Len(g.batches[b].nodes)
      BY <1>1, <2>1, AdvanceType DEF LastOfBatch, Batch
    <3>2. Written(r)' = NodesBefore(b + 1, 1)
      BY <1>1, <3>1 DEF Written, NodesBefore, Positions, NodeAt
    <3> QED
      BY <1>1, <3>1, <3>2, NextBatch DEF TInv
  <2>2. CASE ~LastOfBatch(r)
    <3>1. pc'[r] = "write" /\ step'[r] = b /\ pos'[r] = k + 1
      BY <1>1, <2>2, AdvanceType
    <3> QED
      BY <1>1, <3>1 DEF Written, NodesBefore, Positions, NodeAt
  <2> QED
    BY <2>1, <2>2
<1> QED
  BY <1>2, <1>3, <1>4 DEF Batch

(* A step that moves no tensor of a run, releases and writes nothing.       *)
LEMMA HeldKept ==
  ASSUME NEW r \in Run, Active(r), NeededHeld(r), NoDeadHeld(r), UNCHANGED g,
         tensors'[r] = tensors[r], Pending(r)' = Pending(r), Written(r)' = Written(r),
         \A i, n : ClaimedInplaceBy(r, i, n) => ClaimedInplaceBy(r, i, n)'
  PROVE  NeededHeld(r)' /\ NoDeadHeld(r)'
<1>1. \A n : Held(r, n)' <=> Held(r, n)
  BY DEF Held
<1>2. \A n : Available(r, n)' => Available(r, n)
  BY DEF Available
<1>3. NeededHeld(r)'
  BY <1>1, <1>2 DEF NeededHeld, OutputSet, Uses
<1>4. NoDeadHeld(r)'
  <2> SUFFICES ASSUME ProducedFirst(g)', NEW n \in Name \ (g'.weights \cup OutputSet(g)'),
                      Held(r, n)', UsesBy(g, Nodes(g), n)' # {}
               PROVE  UsesBy(g, Pending(r), n)' # {}
    BY DEF NoDeadHeld
  <2>1. ProducedFirst(g)
    OBVIOUS
  <2>2. n \in Name \ (g.weights \cup OutputSet(g)) /\ UsesBy(g, Nodes(g), n) # {}
    OBVIOUS
  <2>3. UsesBy(g, Pending(r), n) # {}
    BY <1>1, <2>1, <2>2 DEF NoDeadHeld
  <2> QED
    BY <2>3 DEF UsesBy
<1> QED
  BY <1>3, <1>4

(* What the caller feeds is held, and nobody has released anything.         *)
LEMMA StartHeld ==
  ASSUME TInv, NEW r \in Run, Start(r)
  PROVE  NeededHeld(r)' /\ NoDeadHeld(r)' /\ ClaimsReady(r)'
<1>1. /\ pc[r] = "idle" /\ pc'[r] = "claim" /\ step'[r] = 1 /\ UNCHANGED g
      /\ DOMAIN work'[r] = {}
      /\ tensors'[r] = [n \in Name |->
           IF \E k \in DOMAIN g.inputs : g.inputs[k] = n
             THEN Fresh(r, 0, CHOOSE k \in DOMAIN g.inputs : g.inputs[k] = n)
             ELSE NoBuffer]
  BY DEF Start, TInv, TypeOK, Cursor, CursorOf
<1>2. Pending(r)' = Nodes(g) /\ Written(r)' = {}
  <2>1. Pending(r)' = Nodes(g) \ NodesBefore(1, 1) /\ Written(r)' = NodesBefore(1, 1)
    BY <1>1 DEF Pending, Released, Written, NodesBefore, Positions, NodeAt, Nodes
  <2> QED
    BY <2>1, NothingBefore DEF TInv
<1>3. ASSUME NEW n \in Name, Available(r, n)' PROVE Held(r, n)'
  <2>1. \E k \in DOMAIN g.inputs : g.inputs[k] = n
    BY <1>1, <1>2, <1>3 DEF Available
  <2>2. PICK k \in DOMAIN g.inputs : tensors'[r][n] = Fresh(r, 0, k)
    BY <1>1, <2>1
  <2>3. k \in Nat
    BY SessionsAssumption, LenProperties DEF TInv, TypeOK, IsSession, IsGraph
  <2> QED
    BY <2>2, <2>3, FreshBuffer DEF Held
<1>4. NeededHeld(r)'
  BY <1>1, <1>3 DEF NeededHeld
<1>5. NoDeadHeld(r)'
  BY <1>1, <1>2 DEF NoDeadHeld, UsesBy, Uses, Nodes
<1>6. ClaimsReady(r)'
  BY <1>1 DEF ClaimsReady
<1> QED
  BY <1>4, <1>5, <1>6

(* Until its batch is released a node is pending.                           *)
LEMMA LaterPending ==
  ASSUME TInv, NEW r \in Run, pc[r] # "release", NEW p \in Positions(g), step[r] <= p[1]
  PROVE  NodeAt(g, p) \in Pending(r)
<1>1. Pending(r) = Nodes(g) \ NodesBefore(step[r], 1)
  BY DEF Pending, Released
<1>2. p[1] \in Nat /\ p[2] \in Nat /\ step[r] \in Nat /\ p[2] >= 1 /\ NodeAt(g, p) \in Nodes(g)
  <2>1. p[1] \in DOMAIN g.batches /\ p[1] \in Nat /\ p[2] \in 1 .. Len(g.batches[p[1]].nodes)
    BY PositionPair DEF TInv
  <2>2. /\ g.batches[p[1]].nodes \in Seq(Nodes(g))
        /\ Len(g.batches[p[1]].nodes) \in Nat
    BY <2>1, BatchType DEF TInv, TypeOK
  <2>3. NodeAt(g, p) \in Nodes(g)
    BY <2>1, <2>2, ElementOfSeq DEF NodeAt
  <2> QED
    BY <2>1, <2>2, <2>3 DEF TInv, TypeOK
<1>3. ASSUME NEW q \in Positions(g), NodeAt(g, q) = NodeAt(g, p),
             q[1] < step[r] \/ (q[1] = step[r] /\ q[2] < 1)
      PROVE  FALSE
  <2>1. q = p
    BY <1>3, PositionUnique DEF TInv
  <2> QED
    BY <1>2, <1>3, <2>1
<1> QED
  BY <1>1, <1>2, <1>3 DEF NodesBefore

(* A claim with its slots joins the others; what was claimed in place is.   *)
LEMMA ClaimedReady ==
  ASSUME TInv, NEW r \in Run, ClaimsInOrder(r), ClaimsReady(r),
         NEW i \in Nodes(g), Claiming(r, i), NEW item \in Claim, item.node = i,
         item.st = "claimed", Prepared(item),
         Claimed(r, item)
  PROVE  /\ ClaimsReady(r)'
         /\ \A j, n : ClaimedInplaceBy(r, j, n) => ClaimedInplaceBy(r, j, n)'
<1>1. /\ DOMAIN work'[r] = 1 .. Len(work[r]) + 1 /\ DOMAIN work[r] = 1 .. Len(work[r])
      /\ \A w \in DOMAIN work[r] : work'[r][w] = work[r][w]
      /\ work'[r][Len(work[r]) + 1] = item /\ Len(work[r]) \in Nat
  BY ClaimedNode, ClaimingNode
<1>2. UNCHANGED g /\ pc[r] = "claim" /\ pc'[r] \in {"claim", "compute"}
  BY DEF Claimed, Claiming, TInv, TypeOK
<1>3. ASSUME NEW w \in DOMAIN work'[r] PROVE ClaimReady(r, w)'
  <2>1. CASE w = Len(work[r]) + 1
    BY <1>1, <1>2, <2>1 DEF ClaimReady, Prepared, SlotsReady, Named
  <2>2. CASE w # Len(work[r]) + 1
    <3>1. w \in DOMAIN work[r]
      BY <1>1, <2>2
    <3>2. ClaimReady(r, w) /\ work'[r][w] = work[r][w]
      BY <1>1, <3>1 DEF ClaimsReady
    <3> QED
      BY <1>2, <3>2 DEF ClaimReady, Prepared, SlotsReady, ResultsReady, Named
  <2> QED
    BY <2>1, <2>2
<1>4. ASSUME NEW j, NEW n, ClaimedInplaceBy(r, j, n) PROVE ClaimedInplaceBy(r, j, n)'
  <2>1. PICK w \in DOMAIN work[r] : work[r][w].node = j /\ work[r][w].how = "inplace"
    BY <1>4 DEF ClaimedInplaceBy
  <2>2. w \in DOMAIN work'[r] /\ work'[r][w] = work[r][w]
    BY <1>1
  <2> QED
    BY <1>2, <1>4, <2>1, <2>2 DEF ClaimedInplaceBy
<1> QED
  BY <1>3, <1>4 DEF ClaimsReady

(* What node_can_execute_inplace lets a node take is left to that node's    *)
(* first input alone.                                                       *)
LEMMA InplaceAlone ==
  ASSUME TInv, NEW r \in Run, CountsExact(r), ClaimsInOrder(r),
         NEW i \in Nodes(g), Claiming(r, i), CanInplace(r, i)
  PROVE  /\ g.ins[i][1] \in Name \ g.weights
         /\ UsesBy(g, Pending(r), g.ins[i][1]) \subseteq {<<i, 1>>}
<1> DEFINE x == g.ins[i][1]
           U == UsesBy(g, Pending(r), x)
<1>1. /\ x \in Name \ g.weights /\ x \notin OutputSet(g) /\ refs[r][x] = 1
      /\ 1 \in DOMAIN g.ins[i]
  <2>1. g.ins[i] \in Seq(Name \cup {NoName}) /\ g.ins[i] # <<>> /\ x # NoName
    BY NodeType DEF CanInplace, TInv, TypeOK
  <2>2. 1 \in DOMAIN g.ins[i] /\ x \in Name
    BY <2>1, EmptySeq, ElementOfSeq, LenProperties
  <2> QED
    BY <2>2 DEF CanInplace
<1>2. i \in Pending(r)
  <2>1. /\ <<step[r], Len(work[r]) + 1>> \in Positions(g)
        /\ NodeAt(g, <<step[r], Len(work[r]) + 1>>) = i /\ step[r] \in Nat
    BY ClaimingNode
  <2> QED
    BY <2>1, LaterPending DEF Claiming
<1>3. Pending(r) \in SUBSET Nodes(g) /\ IsSession(g)
  BY SessionsAssumption DEF Pending, TInv, TypeOK
<1>4. IsFiniteSet(U) /\ Cardinality(U) \in Nat /\ OutputRefs(g, x) = 0
  <2>1. {k \in DOMAIN g.outputs : g.outputs[k] = x} = {}
    BY <1>1 DEF OutputSet
  <2> QED
    BY <1>3, <2>1, UsesByFinite, FS_EmptySet DEF OutputRefs
<1>5. <<i, 1>> \in U
  BY <1>1, <1>2 DEF UsesBy, Uses
<1>6. refs[r][x] = Cardinality(U) + OutputRefs(g, x)
  BY <1>1 DEF CountsExact, Claiming, Active
<1> HIDE DEF U, x
<1>7. Cardinality(U) = 1
  BY <1>1, <1>4, <1>6
<1>8. PICK u : U = {u}
  BY <1>4, <1>7, FS_Singleton
<1> QED
  BY <1>1, <1>5, <1>8 DEF U, x

(* In place: a count of one means that no other pending node uses the name. *)
LEMMA ClaimInplaceHeld ==
  ASSUME TInv, NEW r \in Run, CountsExact(r), ClaimsInOrder(r), ClaimsReady(r),
         NeededHeld(r), NoDeadHeld(r), ClaimInplace(r), ~Release(r), ~Write(r)
  PROVE  NeededHeld(r)' /\ NoDeadHeld(r)' /\ ClaimsReady(r)'
<1>1. PICK i \in Nodes(g) :
        /\ Claiming(r, i) /\ CanInplace(r, i)
        /\ Claimed(r, [node |-> i, how |-> "inplace", bufs |-> <<tensors[r][g.ins[i][1]]>>,
                       st |-> "claimed"])
        /\ tensors' = [tensors EXCEPT ![r][g.ins[i][1]] = NoBuffer]
  BY DEF ClaimInplace
<1> DEFINE x == g.ins[i][1]
           item == [node |-> i, how |-> "inplace", bufs |-> <<tensors[r][x]>>, st |-> "claimed"]
<1>2. /\ x \in Name \ g.weights /\ x \notin OutputSet(g) /\ refs[r][x] = 1
      /\ 1 \in DOMAIN g.ins[i] /\ g.ins[i] # <<>>
  <2>1. g.ins[i] \in Seq(Name \cup {NoName}) /\ g.ins[i] # <<>> /\ x # NoName
    BY <1>1, NodeType DEF CanInplace, TInv, TypeOK
  <2>2. 1 \in DOMAIN g.ins[i] /\ x \in Name
    BY <2>1, EmptySeq, ElementOfSeq, LenProperties
  <2> QED
    BY <1>1, <2>1, <2>2 DEF CanInplace
<1>3. /\ item \in Claim /\ item.node = i /\ item.st = "claimed" /\ item.how = "inplace"
      /\ Prepared(item)
  <2>1. tensors[r][x] \in Buffer \cup {NoBuffer}
    BY <1>2 DEF TInv, TypeOK
  <2>2. <<tensors[r][x]>> \in Seq(Buffer \cup {NoBuffer})
    BY ONLY <2>1
  <2> QED
    BY <2>2 DEF Claim, Prepared
<1>4. /\ UNCHANGED g /\ pc[r] = "claim" /\ Active(r) /\ Active(r)'
      /\ \A n \in Name : tensors'[r][n] = IF n = x THEN NoBuffer ELSE tensors[r][n]
  BY <1>1, <1>2 DEF Claiming, Claimed, Active, TInv, TypeOK
<1> HIDE DEF item, x
<1>5. Step(r)
  BY DEF Step
<1>6. Written(r)' = Written(r) /\ Pending(r)' = Pending(r)
  BY <1>4, <1>5, StepWritten, StepPending
<1>7. /\ ClaimsReady(r)'
      /\ \A j, n : ClaimedInplaceBy(r, j, n) => ClaimedInplaceBy(r, j, n)'
  BY <1>1, <1>3, ClaimedReady DEF item, x
<1>8. ASSUME NEW n, n = x PROVE ClaimedInplaceBy(r, i, n)'
  <2>1. /\ DOMAIN work'[r] = 1 .. Len(work[r]) + 1 /\ Len(work[r]) \in Nat
        /\ work'[r][Len(work[r]) + 1] = item
    BY <1>1, <1>3, ClaimedNode, ClaimingNode DEF item, x
  <2>2. Len(work[r]) + 1 \in DOMAIN work'[r]
    BY <2>1
  <2> QED
    BY <1>2, <1>3, <1>4, <1>8, <2>1, <2>2 DEF ClaimedInplaceBy, x
<1>9. i \in Pending(r)
  <2>1. /\ <<step[r], Len(work[r]) + 1>> \in Positions(g)
        /\ NodeAt(g, <<step[r], Len(work[r]) + 1>>) = i /\ step[r] \in Nat
    BY <1>1, ClaimingNode
  <2> QED
    BY <1>4, <2>1, LaterPending
<1>10. ASSUME NEW j \in Pending(r), Uses(g, j, x) # {} PROVE j = i
  <2>1. PICK v \in Uses(g, j, x) : TRUE
    BY <1>10
  <2>2. v \in UsesBy(g, Pending(r), x) /\ v[1] = j
    BY <2>1 DEF UsesBy, Uses
  <2>3. v = <<i, 1>>
    BY <1>1, <2>2, InplaceAlone DEF x
  <2> QED
    BY <2>2, <2>3
<1>11. NeededHeld(r)'
  <2> SUFFICES ASSUME NEW n \in Name \ g.weights, Available(r, n)', ~Held(r, n)'
               PROVE  /\ n \notin OutputSet(g)
                      /\ \A j \in Pending(r) : Uses(g, j, n) # {} => ClaimedInplaceBy(r, j, n)'
    BY <1>4, <1>6 DEF NeededHeld, OutputSet, Uses
  <2>1. CASE n = x
    <3>1. n \notin OutputSet(g)
      BY <1>2, <2>1
    <3>2. ASSUME NEW j \in Pending(r), Uses(g, j, n) # {} PROVE ClaimedInplaceBy(r, j, n)'
      <4>1. Uses(g, j, x) # {}
        BY <2>1, <3>2
      <4>2. j = i
        BY <1>10, <4>1
      <4> QED
        BY <1>8, <2>1, <4>2
    <3> QED
      BY <3>1, <3>2
  <2>2. CASE n # x
    <3>1. ~Held(r, n) /\ Available(r, n)
      BY <1>4, <1>6, <2>2 DEF Held, Available
    <3> QED
      BY <1>4, <1>7, <3>1 DEF NeededHeld
  <2> QED
    BY <2>1, <2>2
<1>12. NoDeadHeld(r)'
  <2> SUFFICES ASSUME ProducedFirst(g)', NEW n \in Name \ (g'.weights \cup OutputSet(g)'),
                      Held(r, n)', UsesBy(g, Nodes(g), n)' # {}
               PROVE  UsesBy(g, Pending(r), n)' # {}
    BY DEF NoDeadHeld
  <2>1. ProducedFirst(g) /\ Held(r, n)
    BY <1>4 DEF Held
  <2>2. n \in Name \ (g.weights \cup OutputSet(g)) /\ UsesBy(g, Nodes(g), n) # {}
    BY <1>4
  <2>3. UsesBy(g, Pending(r), n) # {}
    BY <1>4, <2>1, <2>2 DEF NoDeadHeld
  <2> QED
    BY <1>4, <1>6, <2>3 DEF UsesBy
<1> QED
  BY <1>7, <1>11, <1>12


(* Those two take slots or no buffer at all.                                *)
LEMMA ClaimAsideItem ==
  ASSUME TInv, NEW r \in Run, ClaimSlots(r) \/ ClaimFresh(r)
  PROVE  \E i \in Nodes(g) : \E item \in Claim :
           /\ Claiming(r, i) /\ item.node = i /\ item.st = "claimed"
           /\ item.how # "inplace" /\ Prepared(item)
           /\ Claimed(r, item) /\ UNCHANGED tensors
<1>1. CASE ClaimSlots(r)
  <2>1. PICK i \in Nodes(g) : \E hits \in SUBSET Named(g, i) : \E f \in [hits -> pool] :
          /\ Claiming(r, i) /\ UNCHANGED tensors
          /\ Claimed(r, [node |-> i, how |-> "slots", st |-> "claimed",
                         bufs |-> [k \in DOMAIN g.outs[i] |->
                           IF k \in hits THEN f[k]
                           ELSE IF k \in Named(g, i) THEN Fresh(r, i, k) ELSE NoBuffer]])
    BY <1>1 DEF ClaimSlots
  <2>2. PICK hits \in SUBSET Named(g, i) : \E f \in [hits -> pool] :
          /\ Claiming(r, i) /\ UNCHANGED tensors
          /\ Claimed(r, [node |-> i, how |-> "slots", st |-> "claimed",
                         bufs |-> [k \in DOMAIN g.outs[i] |->
                           IF k \in hits THEN f[k]
                           ELSE IF k \in Named(g, i) THEN Fresh(r, i, k) ELSE NoBuffer]])
    BY <2>1
  <2>9. PICK f \in [hits -> pool] :
          /\ Claiming(r, i) /\ UNCHANGED tensors
          /\ Claimed(r, [node |-> i, how |-> "slots", st |-> "claimed",
                         bufs |-> [k \in DOMAIN g.outs[i] |->
                           IF k \in hits THEN f[k]
                           ELSE IF k \in Named(g, i) THEN Fresh(r, i, k) ELSE NoBuffer]])
    BY <2>2
  <2> DEFINE bufs == [k \in DOMAIN g.outs[i] |->
                        IF k \in hits THEN f[k]
                        ELSE IF k \in Named(g, i) THEN Fresh(r, i, k) ELSE NoBuffer]
             item == [node |-> i, how |-> "slots", st |-> "claimed", bufs |-> bufs]
  <2>3. /\ Len(g.outs[i]) \in Nat /\ DOMAIN g.outs[i] = 1 .. Len(g.outs[i]) /\ i \in Nat
    BY NodeType DEF TInv, TypeOK
  <2>4. ASSUME NEW k \in DOMAIN g.outs[i]
        PROVE  /\ bufs[k] \in Buffer \cup {NoBuffer}
               /\ k \in Named(g, i) => bufs[k] # NoBuffer
    <3>1. k \in Nat
      BY <2>3
    <3>2. Fresh(r, i, k) \in Buffer /\ Fresh(r, i, k) # NoBuffer
      BY <2>3, <3>1, FreshBuffer
    <3>3. k \in hits => f[k] \in Buffer /\ f[k] # NoBuffer
      BY NoBufferAssumption DEF TInv, TypeOK, Buffer
    <3> QED
      BY <3>2, <3>3
  <2>5. bufs \in Seq(Buffer \cup {NoBuffer})
    <3>1. bufs \in [1 .. Len(g.outs[i]) -> Buffer \cup {NoBuffer}]
      BY <2>3, <2>4
    <3> HIDE DEF bufs
    <3> QED
      BY <2>3, <3>1, SeqDef
  <2>6. SlotsReady(i, bufs)
    BY <2>4 DEF SlotsReady, Named
  <2>7. item \in Claim /\ Claimed(r, item) /\ item.node = i /\ item.bufs = bufs
        /\ item.st = "claimed" /\ item.how = "slots"
    <3>1. Claimed(r, item)
      BY <2>9
    <3> HIDE DEF bufs
    <3> QED
      BY <2>5, <3>1 DEF Claim
  <2> HIDE DEF bufs, item
  <2> QED
    BY <2>9, <2>6, <2>7 DEF Prepared
<1>2. CASE ClaimFresh(r)
  <2>1. PICK i \in Nodes(g) :
          /\ Claiming(r, i) /\ UNCHANGED tensors
          /\ Claimed(r, [node |-> i, how |-> "fresh", bufs |-> <<>>, st |-> "claimed"])
    BY <1>2 DEF ClaimFresh
  <2> DEFINE item == [node |-> i, how |-> "fresh", bufs |-> <<>>, st |-> "claimed"]
  <2>2. item \in Claim /\ item.node = i /\ item.how = "fresh" /\ item.st = "claimed"
    BY EmptySeq DEF Claim
  <2>3. Claimed(r, item)
    BY <2>1
  <2> HIDE DEF item
  <2> QED
    BY <2>1, <2>2, <2>3 DEF Prepared
<1> QED
  BY <1>1, <1>2

(* The other claims move no tensor of the run state.                        *)
LEMMA ClaimAsideHeld ==
  ASSUME TInv, NEW r \in Run, ClaimsInOrder(r), ClaimsReady(r),
         NeededHeld(r), NoDeadHeld(r), ClaimSlots(r) \/ ClaimFresh(r)
  PROVE  NeededHeld(r)' /\ NoDeadHeld(r)' /\ ClaimsReady(r)'
<1>2. PICK i \in Nodes(g), item \in Claim :
        /\ Claiming(r, i) /\ item.node = i /\ item.st = "claimed"
        /\ Prepared(item)
        /\ Claimed(r, item) /\ UNCHANGED tensors
  BY ClaimAsideItem
<1>3. UNCHANGED g /\ Active(r) /\ Active(r)' /\ pc[r] = "claim"
  BY <1>2 DEF Claimed, Claiming, Active, TInv, TypeOK
<1>4. Step(r) /\ ~Release(r) /\ ~Write(r)
  BY <1>3 DEF Step, Release, Write
<1>5. Pending(r)' = Pending(r) /\ Written(r)' = Written(r)
  BY <1>3, <1>4, StepPending, StepWritten
<1>6. ClaimsReady(r)' /\ \A j, n : ClaimedInplaceBy(r, j, n) => ClaimedInplaceBy(r, j, n)'
  BY <1>2, ClaimedReady
<1>7. tensors'[r] = tensors[r]
  BY <1>2
<1>8. NeededHeld(r)' /\ NoDeadHeld(r)'
  BY <1>3, <1>5, <1>6, <1>7, HeldKept
<1> QED
  BY <1>6, <1>8

(* A claim of the batch is answered: the results are there to be written.   *)
LEMMA ResultsOf ==
  ASSUME TInv, NEW r \in Run, NEW item \in Claim,
         Prepared(item),
         item.how = "slots" => g.arity[item.node] = Len(g.outs[item.node])
  PROVE  ResultsReady(item.node, ResultBuffers(r, item))
<1> DEFINE i == item.node
           bufs == ResultBuffers(r, item)
<1>1. i \in Nodes(g)
  BY DEF Claim
<1>2. i \in Nat /\ g.arity[i] \in Nat /\ DOMAIN g.outs[i] = 1 .. Len(g.outs[i])
  BY <1>1, NodeType DEF TInv, TypeOK
<1>3. CASE item.how = "slots"
  BY <1>2, <1>3 DEF ResultBuffers, Prepared, SlotsReady, ResultsReady
<1>4. CASE item.how # "slots"
  <2>1. bufs = [k \in 1 .. g.arity[i] |->
                  IF k = 1 /\ OwnsFirst(item) THEN item.bufs[1] ELSE Fresh(r, i, k)]
    BY <1>4 DEF ResultBuffers
  <2>2. ASSUME NEW k \in 1 .. g.arity[i] PROVE bufs[k] # NoBuffer
    <3>1. CASE k = 1 /\ OwnsFirst(item)
      <4>1. item.bufs[1] # NoBuffer
        BY <3>1 DEF OwnsFirst, BuffersOf, Prepared
      <4> QED
        BY <2>1, <3>1, <4>1
    <3>2. CASE ~(k = 1 /\ OwnsFirst(item))
      <4>1. k \in Nat
        BY <1>2
      <4>2. Fresh(r, i, k) # NoBuffer
        BY <1>2, <4>1, FreshBuffer
      <4> QED
        BY <2>1, <3>2, <4>2
    <3> QED
      BY <3>1, <3>2
  <2>3. DOMAIN bufs = 1 .. g.arity[i]
    BY <2>1
  <2> HIDE DEF bufs
  <2>4. ResultsReady(i, bufs)
    BY <2>2, <2>3 DEF ResultsReady
  <2> QED
    BY <2>4 DEF bufs
<1> QED
  BY <1>3, <1>4


(* A claim is replaced by one of the same node and the same path.           *)
LEMMA ReplacedInplace ==
  ASSUME TInv, UNCHANGED g, NEW r \in Run, NEW w \in DOMAIN work[r], NEW item \in Claim,
         work' = [work EXCEPT ![r][w] = item],
         item.node = work[r][w].node, item.how = work[r][w].how
  PROVE  \A j, n : ClaimedInplaceBy(r, j, n) => ClaimedInplaceBy(r, j, n)'
<1>1. /\ DOMAIN work'[r] = DOMAIN work[r] /\ Len(work'[r]) = Len(work[r])
      /\ work'[r][w] = item
      /\ \A v \in DOMAIN work[r] \ {w} : work'[r][v] = work[r][v]
      /\ \A s \in Run \ {r} : work'[s] = work[s]
  <2>1. work' = [work EXCEPT ![r][w] = item]
    OBVIOUS
  <2> QED
    BY ONLY TInv, <2>1, ClaimReplaced
<1> SUFFICES ASSUME NEW j, NEW n, ClaimedInplaceBy(r, j, n) PROVE ClaimedInplaceBy(r, j, n)'
  OBVIOUS
<1>2. PICK v \in DOMAIN work[r] : work[r][v].node = j /\ work[r][v].how = "inplace"
  BY DEF ClaimedInplaceBy
<1>3. v \in DOMAIN work'[r] /\ work'[r][v].node = j /\ work'[r][v].how = "inplace"
  BY <1>1, <1>2
<1> QED
  BY <1>3 DEF ClaimedInplaceBy

(* Workers, whether they succeed or not, move nothing in the run state.     *)
LEMMA WorkerHeld ==
  ASSUME TInv, NEW r \in Run, ClaimsReady(r), NeededHeld(r), NoDeadHeld(r),
         NEW w \in DOMAIN work[r], Compute(r, w) \/ ComputeError(r, w)
  PROVE  NeededHeld(r)' /\ NoDeadHeld(r)' /\ ClaimsReady(r)'
<1> DEFINE old == work[r][w]
           bufs == ResultBuffers(r, old)
<1>1. /\ UNCHANGED <<g, pc, pos, step, tensors>> /\ pc[r] = "compute"
      /\ old.st = "claimed"
  BY DEF Compute, ComputeError
<1>2. old \in Claim /\ Prepared(old)
  BY <1>1, ClaimPosition DEF ClaimsReady, ClaimReady
<1>3. PICK item \in Claim : /\ work' = [work EXCEPT ![r][w] = item]
                            /\ item.node = old.node /\ item.how = old.how
                            /\ item.st # "claimed"
                            /\ item.st = "computed" => ResultsReady(item.node, item.bufs)
  <2>1. CASE Compute(r, w)
    <3>1. bufs \in Seq(Buffer \cup {NoBuffer})
      BY <1>2, ResultBuffersType DEF TInv
    <3>2. ResultsReady(old.node, bufs)
      BY <1>2, <2>1, ResultsOf DEF Compute
    <3>3. work' = [work EXCEPT ![r][w] = [old EXCEPT !.st = "computed", !.bufs = bufs]]
      BY <2>1 DEF Compute
    <3> HIDE DEF bufs
    <3>4. PICK item : item = [old EXCEPT !.st = "computed", !.bufs = bufs]
      OBVIOUS
    <3>5. /\ item \in Claim /\ item.node = old.node /\ item.how = old.how
          /\ item.st = "computed" /\ item.bufs = bufs
      BY <1>2, <3>1, <3>4 DEF Claim
    <3> HIDE DEF old
    <3> QED
      BY <3>2, <3>3, <3>4, <3>5 DEF old
  <2>2. CASE ComputeError(r, w)
    <3>1. work' = [work EXCEPT ![r][w] = [old EXCEPT !.st = "error"]]
      BY <2>2 DEF ComputeError
    <3>2. PICK item : item = [old EXCEPT !.st = "error"]
      OBVIOUS
    <3>3. item \in Claim /\ item.node = old.node /\ item.how = old.how /\ item.st = "error"
      BY <1>2, <3>2 DEF Claim
    <3> QED
      BY <3>1, <3>2, <3>3
  <2> QED
    BY <2>1, <2>2
<1>4. /\ DOMAIN work'[r] = DOMAIN work[r] /\ Len(work'[r]) = Len(work[r])
      /\ work'[r][w] = item
      /\ \A v \in DOMAIN work[r] \ {w} : work'[r][v] = work[r][v]
      /\ \A s \in Run \ {r} : work'[s] = work[s]
  <2>1. work' = [work EXCEPT ![r][w] = item]
    BY <1>3
  <2> QED
    BY ONLY TInv, <2>1, ClaimReplaced
<1>5. ClaimsReady(r)'
  <2> SUFFICES ASSUME NEW v \in DOMAIN work[r] PROVE ClaimReady(r, v)'
    BY <1>4 DEF ClaimsReady
  <2>1. CASE v = w
    BY <1>1, <1>3, <1>4, <2>1 DEF ClaimReady, ResultsReady, Named
  <2>2. CASE v # w
    <3>1. ClaimReady(r, v) /\ work'[r][v] = work[r][v]
      BY <1>4, <2>2 DEF ClaimsReady
    <3> QED
      BY <1>1, <3>1 DEF ClaimReady, Prepared, SlotsReady, ResultsReady, Named
  <2> QED
    BY <2>1, <2>2
<1>6. \A j, n : ClaimedInplaceBy(r, j, n) => ClaimedInplaceBy(r, j, n)'
  <2>1. /\ UNCHANGED g /\ work' = [work EXCEPT ![r][w] = item]
        /\ item.node = work[r][w].node /\ item.how = work[r][w].how
    BY <1>1, <1>3
  <2> QED
    BY ONLY TInv, <2>1, ReplacedInplace
<1>7. Active(r) /\ Active(r)' /\ Step(r) /\ ~Release(r) /\ ~Write(r)
  BY <1>1 DEF Active, Step, Release, Write
<1>8. Pending(r)' = Pending(r) /\ Written(r)' = Written(r)
  BY <1>7, StepPending, StepWritten
<1>9. NeededHeld(r)' /\ NoDeadHeld(r)'
  BY <1>1, <1>6, <1>7, <1>8, HeldKept
<1> QED
  BY <1>5, <1>9

(* The writes begin at the first claim.                                     *)
LEMMA JoinHeld ==
  ASSUME TInv, NEW r \in Run, ClaimsReady(r), NeededHeld(r), NoDeadHeld(r), Join(r)
  PROVE  NeededHeld(r)' /\ NoDeadHeld(r)' /\ ClaimsReady(r)'
<1>1. /\ UNCHANGED <<g, pos, step, tensors, work>> /\ pc[r] = "compute" /\ pc'[r] = "write"
  BY DEF Join, TInv, TypeOK
<1>2. ClaimsReady(r)'
  <2> SUFFICES ASSUME NEW v \in DOMAIN work[r] PROVE ClaimReady(r, v)'
    BY <1>1 DEF ClaimsReady
  <2>1. ClaimReady(r, v) /\ work'[r][v] = work[r][v]
    BY <1>1 DEF ClaimsReady
  <2> QED
    BY <1>1, <2>1 DEF ClaimReady, Prepared, SlotsReady, ResultsReady, Named
<1>3. \A j, n : ClaimedInplaceBy(r, j, n) => ClaimedInplaceBy(r, j, n)'
  BY <1>1 DEF ClaimedInplaceBy
<1>4. Active(r) /\ Active(r)' /\ Step(r) /\ ~Release(r) /\ ~Write(r)
  BY <1>1 DEF Active, Step, Release, Write
<1>5. Pending(r)' = Pending(r) /\ Written(r)' = Written(r)
  BY <1>4, StepPending, StepWritten
<1>6. NeededHeld(r)' /\ NoDeadHeld(r)'
  BY <1>1, <1>3, <1>4, <1>5, HeldKept
<1> QED
  BY <1>2, <1>6


(* What a write stores was not there to be lost, and all its uses are still *)
(* to come: the batch that produces a tensor is released after it is        *)
(* written, and no earlier one uses it.                                     *)
LEMMA WriteHeld ==
  ASSUME TInv, NEW r \in Run, ClaimsInOrder(r), ClaimsReady(r),
         NeededHeld(r), NoDeadHeld(r), Write(r)
  PROVE  NeededHeld(r)' /\ NoDeadHeld(r)' /\ ClaimsReady(r)'
<1> DEFINE p == pos[r]
           old == work[r][p]
           i == Batch(r).nodes[p]
<1>1. /\ pc[r] = "write" /\ Advance(r, "release") /\ UNCHANGED <<g, step, refs>>
      /\ tensors' = [tensors EXCEPT ![r] =
           [n \in Name |-> IF StoredAt(old, n) = 0 THEN tensors[r][n]
                            ELSE old.bufs[StoredAt(old, n)]]]
      /\ work' = [work EXCEPT ![r][p] = [old EXCEPT !.bufs = <<>>]]
      /\ old.st = "computed"
  BY DEF Write
<1>2. p \in DOMAIN work[r] /\ old \in Claim /\ old.node = i /\ ResultsReady(i, old.bufs)
  <2>1. /\ p \in 1 .. Len(work[r]) /\ DOMAIN work[r] = 1 .. Len(work[r]) /\ p \in Nat
    BY <1>1, LenProperties DEF TInv, TypeOK, Cursor, CursorOf
  <2>2. old \in Claim /\ old.node = i
    BY <1>1, <2>1, ClaimPosition DEF ClaimsInOrder
  <2>3. ResultsReady(old.node, old.bufs)
    BY <1>1, <2>1 DEF ClaimsReady, ClaimReady
  <2> QED
    BY <2>1, <2>2, <2>3
<1>3. PICK left \in Claim : /\ work' = [work EXCEPT ![r][p] = left]
                            /\ left.node = old.node /\ left.how = old.how
                            /\ left.st = "computed"
  <2>1. PICK left : left = [old EXCEPT !.bufs = <<>>]
    OBVIOUS
  <2>2. /\ left \in Claim /\ left.node = old.node /\ left.how = old.how
        /\ left.st = "computed"
    BY <1>1, <1>2, <2>1, EmptySeq DEF Claim
  <2> HIDE DEF old
  <2> QED
    BY <1>1, <2>1, <2>2
<1>4. /\ DOMAIN work'[r] = DOMAIN work[r] /\ Len(work'[r]) = Len(work[r])
      /\ work'[r][p] = left
      /\ \A v \in DOMAIN work[r] \ {p} : work'[r][v] = work[r][v]
      /\ \A s \in Run \ {r} : work'[s] = work[s]
  <2>1. work' = [work EXCEPT ![r][p] = left]
    BY <1>3
  <2> HIDE DEF p
  <2> QED
    BY ONLY TInv, <1>2, <2>1, ClaimReplaced
<1>5. \A j, n : ClaimedInplaceBy(r, j, n) => ClaimedInplaceBy(r, j, n)'
  <2>1. /\ UNCHANGED g /\ work' = [work EXCEPT ![r][p] = left]
        /\ left.node = work[r][p].node /\ left.how = work[r][p].how
    BY <1>1, <1>3
  <2> HIDE DEF p, old
  <2> QED
    BY ONLY TInv, <1>2, <2>1, ReplacedInplace
<1>6. /\ pc'[r] \in {"write", "release"}
      /\ pc'[r] = "write" => pos'[r] = p + 1
      /\ pc[r] = "write" /\ Active(r) /\ Active(r)'
  <2>1. /\ LastOfBatch(r) => pc'[r] = "release"
        /\ ~LastOfBatch(r) => pos'[r] = p + 1 /\ pc'[r] = "write"
    BY <1>1, AdvanceType
  <2> QED
    BY <1>1, <2>1 DEF Active
<1>7. \A n \in Name :
        /\ StoredAt(old, n) = 0 => tensors'[r][n] = tensors[r][n]
        /\ StoredAt(old, n) # 0 => tensors'[r][n] = old.bufs[StoredAt(old, n)]
  BY <1>1 DEF TInv, TypeOK
<1>8. Pending(r)' = Pending(r) /\ Written(r)' = Written(r) \cup {i}
  <2>1. Step(r) /\ ~Release(r)
    BY <1>1 DEF Step, Release
  <2> QED
    BY <1>6, <2>1, StepPending, WriteWritten
<1>9. <<step[r], p>> \in Positions(g) /\ NodeAt(g, <<step[r], p>>) = i /\ step[r] \in Nat
  BY <1>1, <1>2, ClaimPosition DEF TInv, TypeOK
<1> HIDE DEF p, old, i
<1>10. ASSUME NEW n \in Name, StoredAt(old, n) # 0
       PROVE  /\ Held(r, n)' /\ \E k \in DOMAIN g.outs[i] : g.outs[i][k] = n
  <2>1. /\ StoredAt(old, n) \in DOMAIN old.bufs
        /\ StoredAt(old, n) \in Named(g, i)
        /\ g.outs[i][StoredAt(old, n)] = n
    BY <1>2, <1>10, StoredAtPlace
  <2>2. old.bufs[StoredAt(old, n)] # NoBuffer
    BY <1>2, <2>1 DEF ResultsReady
  <2> QED
    BY <1>7, <1>10, <2>1, <2>2 DEF Held, Named
<1>11. NeededHeld(r)'
  <2> SUFFICES ASSUME NEW n \in Name \ g.weights, Available(r, n)', ~Held(r, n)'
               PROVE  /\ n \notin OutputSet(g)
                      /\ \A j \in Pending(r) : Uses(g, j, n) # {} => ClaimedInplaceBy(r, j, n)'
    BY <1>1, <1>8 DEF NeededHeld, OutputSet, Uses
  <2>1. StoredAt(old, n) = 0
    BY <1>10
  <2>2. ASSUME NEW k \in DOMAIN g.outs[i], g.outs[i][k] = n, k <= g.arity[i] PROVE FALSE
    <3>1. k \in 1 .. g.arity[i]
      <4>1. i \in Nodes(g)
        BY <1>2 DEF Claim
      <4>2. k \in 1 .. Len(g.outs[i]) /\ Len(g.outs[i]) \in Nat /\ g.arity[i] \in Nat
        BY <4>1, NodeType DEF TInv, TypeOK
      <4> QED
        BY <2>2, <4>2
    <3>2. k \in DOMAIN old.bufs
      BY <1>2, <3>1 DEF ResultsReady
    <3> QED
      BY <1>2, <2>1, <2>2, <3>2, StoredIfNamed
  <2>3. Available(r, n)
    BY <1>1, <1>8, <2>2 DEF Available
  <2>4. ~Held(r, n)
    BY <1>7, <2>1 DEF Held
  <2> QED
    BY <1>5, <1>6, <2>3, <2>4 DEF NeededHeld
<1>12. NoDeadHeld(r)'
  <2> SUFFICES ASSUME ProducedFirst(g)', NEW n \in Name \ (g'.weights \cup OutputSet(g)'),
                      Held(r, n)', UsesBy(g, Nodes(g), n)' # {}
               PROVE  UsesBy(g, Pending(r), n)' # {}
    BY DEF NoDeadHeld
  <2>1. /\ ProducedFirst(g) /\ n \in Name \ (g.weights \cup OutputSet(g))
        /\ UsesBy(g, Nodes(g), n) # {}
    BY <1>1
  <2>2. UsesBy(g, Pending(r), n) # {}
    <3>1. CASE StoredAt(old, n) = 0
      <4>1. Held(r, n)
        BY <1>7, <3>1 DEF Held
      <4> QED
        BY <1>6, <2>1, <4>1 DEF NoDeadHeld
    <3>2. CASE StoredAt(old, n) # 0
      <4>1. PICK j \in Nodes(g) : Uses(g, j, n) # {}
        BY <2>1 DEF UsesBy
      <4>2. PICK q \in Positions(g) : NodeAt(g, q) = j
        BY SessionsAssumption DEF TInv, TypeOK, IsSession, IsSchedule
      <4>3. \E k \in DOMAIN g.outs[NodeAt(g, <<step[r], p>>)] :
              g.outs[NodeAt(g, <<step[r], p>>)][k] = n
        BY <1>9, <1>10, <3>2
      <4>4. <<step[r], p>>[1] <= q[1]
        BY <1>9, <2>1, <4>1, <4>2, <4>3 DEF ProducedFirst
      <4>5. NodeAt(g, q) \in Pending(r)
        BY <1>1, <4>2, <4>4, LaterPending
      <4> QED
        BY <4>1, <4>2, <4>5 DEF UsesBy
    <3> QED
      BY <3>1, <3>2
  <2> QED
    BY <1>1, <1>8, <2>2 DEF UsesBy
<1>13. ClaimsReady(r)'
  <2> SUFFICES ASSUME NEW v \in DOMAIN work[r] PROVE ClaimReady(r, v)'
    BY <1>4 DEF ClaimsReady
  <2>1. p \in Nat /\ v \in Nat
    <3>1. DOMAIN work[r] = 1 .. Len(work[r]) /\ Len(work[r]) \in Nat
      BY LenProperties DEF TInv, TypeOK
    <3> QED
      BY <1>2, <3>1
  <2>2. CASE v = p
    <3>1. pc'[r] = "write" => ~(v >= pos'[r])
      BY <1>6, <2>1, <2>2
    <3>2. work'[r][v].st = "computed"
      BY <1>3, <1>4, <2>2
    <3>3. pc'[r] \in {"write", "release"}
      BY <1>6
    <3> QED
      BY ONLY <3>1, <3>2, <3>3 DEF ClaimReady
  <2>3. CASE v # p
    <3>1. ClaimReady(r, v) /\ work'[r][v] = work[r][v]
      BY <1>4, <2>3 DEF ClaimsReady
    <3>2. pc'[r] = "write" /\ v >= pos'[r] => v >= pos[r]
      BY <1>6, <2>1 DEF p
    <3>3. pc'[r] \in {"write", "release"} /\ pc[r] = "write"
      BY <1>6
    <3>4. UNCHANGED g
      BY <1>1
    <3> QED
      BY ONLY <3>1, <3>2, <3>3, <3>4 DEF ClaimReady, Prepared, SlotsReady, ResultsReady, Named
  <2> QED
    BY <2>2, <2>3
<1> QED
  BY <1>11, <1>12, <1>13


(* A tensor is freed when its count says that nobody is left to use it, and *)
(* then nobody is; once a batch is released, so is what it claimed.         *)
LEMMA ReleaseHeld ==
  ASSUME TInv, NEW r \in Run, CountsExact(r), ClaimsInOrder(r), ClaimsReady(r),
         NeededHeld(r), NoDeadHeld(r), Release(r)
  PROVE  NeededHeld(r)' /\ NoDeadHeld(r)' /\ ClaimsReady(r)'
<1> DEFINE i == Batch(r).nodes[pos[r]]
           D == LastUsed(g, refs[r], i)
<1>1. /\ pc[r] = "release" /\ Advance(r, "claim") /\ UNCHANGED g
      /\ refs' = [refs EXCEPT ![r] = RefsAfter(g, refs[r], i)]
      /\ tensors' = [tensors EXCEPT ![r] = [n \in Name |->
           IF n \in D THEN NoBuffer ELSE tensors[r][n]]]
      /\ work' = [work EXCEPT ![r] = IF LastOfBatch(r) THEN <<>> ELSE @]
      /\ step' = [step EXCEPT ![r] = IF LastOfBatch(r) THEN @ + 1 ELSE @]
  BY DEF Release
<1>2. i \in Pending(r) /\ Pending(r)' = Pending(r) \ {i}
  BY ReleasePending
<1>3. /\ LastOfBatch(r) => pc'[r] = "claim" /\ step'[r] = step[r] + 1 /\ work'[r] = <<>>
      /\ ~LastOfBatch(r) => pc'[r] = "release" /\ work'[r] = work[r]
  BY <1>1, AdvanceType DEF TInv, TypeOK
<1>4. Active(r) /\ Active(r)'
  BY <1>1, <1>3 DEF Active
<1>5. Written(r)' = Written(r)
  <2>1. Step(r) /\ ~Write(r)
    BY <1>1 DEF Step, Write
  <2> QED
    BY <1>4, <2>1, StepWritten
<1>6. ASSUME NEW n \in D
      PROVE  /\ n \in Name \ g.weights /\ n \notin OutputSet(g) /\ Uses(g, i, n) # {}
             /\ RefsAfter(g, refs[r], i)[n] = 0
  BY <1>6 DEF LastUsed
<1> HIDE DEF D, i
<1>7. \A n \in Name : /\ tensors'[r][n] = IF n \in D THEN NoBuffer ELSE tensors[r][n]
                      /\ refs'[r][n] = RefsAfter(g, refs[r], i)[n]
  BY <1>1 DEF TInv, TypeOK
<1>8. ASSUME NEW n \in Name \ (g.weights \cup OutputSet(g))
      PROVE  refs'[r][n] = 0 <=> UsesBy(g, Pending(r) \ {i}, n) = {}
  <2> DEFINE U == UsesBy(g, Pending(r) \ {i}, n)
  <2>1. CountsExact(r)'
    BY StepCountsExact DEF Step
  <2>2. refs'[r][n] = Cardinality(UsesBy(g, Pending(r), n)') + OutputRefs(g, n)'
    BY <1>1, <1>4, <2>1 DEF CountsExact
  <2>3. UsesBy(g, Pending(r), n)' = U /\ OutputRefs(g, n)' = OutputRefs(g, n)
    BY <1>1, <1>2 DEF UsesBy, Uses, OutputRefs
  <2>4. Pending(r) \ {i} \in SUBSET Nodes(g) /\ IsSession(g)
    BY SessionsAssumption DEF Pending, TInv, TypeOK
  <2>5. IsFiniteSet(U) /\ Cardinality(U) \in Nat
    BY <2>4, UsesByFinite
  <2>6. OutputRefs(g, n) = 0
    <3>1. {k \in DOMAIN g.outputs : g.outputs[k] = n} = {}
      BY DEF OutputSet
    <3> QED
      BY <3>1, FS_EmptySet DEF OutputRefs
  <2> HIDE DEF U
  <2>7. refs'[r][n] = Cardinality(U)
    BY <2>2, <2>3, <2>5, <2>6
  <2>8. Cardinality(U) = 0 <=> U = {}
    BY <2>5, FS_EmptySet
  <2> QED
    BY <2>7, <2>8 DEF U
<1>9. ASSUME NEW n \in D PROVE UsesBy(g, Pending(r) \ {i}, n) = {}
  <2>1. refs'[r][n] = 0 /\ n \in Name \ (g.weights \cup OutputSet(g))
    BY <1>6, <1>7
  <2> QED
    BY <1>8, <2>1
<1>10. ASSUME NEW n, NEW j \in Pending(r) \ {i}, ClaimedInplaceBy(r, j, n)
       PROVE  ClaimedInplaceBy(r, j, n)'
  <2>1. PICK w \in DOMAIN work[r] : work[r][w].node = j /\ work[r][w].how = "inplace"
    BY <1>10 DEF ClaimedInplaceBy
  <2>2. CASE ~LastOfBatch(r)
    BY <1>1, <1>3, <1>10, <2>2 DEF ClaimedInplaceBy
  <2>3. CASE LastOfBatch(r)
    <3>1. <<step[r], w>> \in Positions(g) /\ NodeAt(g, <<step[r], w>>) = j /\ step[r] \in Nat
      BY <1>1, <2>1, ClaimPosition DEF ClaimsInOrder, TInv, TypeOK
    <3>2. j \in NodesBefore(step[r] + 1, 1)
      BY <3>1 DEF NodesBefore
    <3>3. Pending(r)' = Nodes(g) \ NodesBefore(step[r] + 1, 1)
      BY <1>1, <1>3, <2>3
         DEF Pending, Released, NodesBefore, Positions, NodeAt, Nodes
    <3> QED
      BY <1>2, <3>2, <3>3
  <2> QED
    BY <2>2, <2>3
<1>11. NeededHeld(r)'
  <2> SUFFICES ASSUME NEW n \in Name \ g.weights, Available(r, n)', ~Held(r, n)'
               PROVE  /\ n \notin OutputSet(g)
                      /\ \A j \in Pending(r) \ {i} :
                           Uses(g, j, n) # {} => ClaimedInplaceBy(r, j, n)'
    BY <1>1, <1>2 DEF NeededHeld, OutputSet, Uses
  <2>1. CASE n \in D
    BY <1>6, <1>9, <2>1 DEF UsesBy
  <2>2. CASE n \notin D
    <3>1. ~Held(r, n) /\ Available(r, n)
      BY <1>1, <1>5, <1>7, <2>2 DEF Held, Available
    <3>2. /\ n \notin OutputSet(g)
          /\ \A j \in Pending(r) : Uses(g, j, n) # {} => ClaimedInplaceBy(r, j, n)
      BY <1>4, <3>1 DEF NeededHeld
    <3> QED
      BY <1>10, <3>2
  <2> QED
    BY <2>1, <2>2
<1>12. NoDeadHeld(r)'
  <2> SUFFICES ASSUME ProducedFirst(g)', NEW n \in Name \ (g'.weights \cup OutputSet(g)'),
                      Held(r, n)', UsesBy(g, Nodes(g), n)' # {}
               PROVE  UsesBy(g, Pending(r), n)' # {}
    BY DEF NoDeadHeld
  <2>1. /\ ProducedFirst(g) /\ n \in Name \ (g.weights \cup OutputSet(g))
        /\ UsesBy(g, Nodes(g), n) # {} /\ n \notin D /\ Held(r, n)
    BY <1>1, <1>7 DEF Held
  <2>2. UsesBy(g, Pending(r), n) # {}
    BY <1>4, <2>1 DEF NoDeadHeld
  <2>3. UsesBy(g, Pending(r) \ {i}, n) # {}
    <3>1. CASE Uses(g, i, n) = {}
      BY <2>2, <3>1 DEF UsesBy
    <3>2. CASE Uses(g, i, n) # {}
      <4>1. refs'[r][n] # 0
        BY <1>7, <2>1, <3>2 DEF D, LastUsed
      <4> QED
        BY <1>8, <2>1, <4>1
    <3> QED
      BY <3>1, <3>2
  <2> QED
    BY <1>1, <1>2, <2>3 DEF UsesBy
<1>13. ClaimsReady(r)'
  <2>1. CASE LastOfBatch(r)
    BY <1>3, <2>1 DEF ClaimsReady
  <2>2. CASE ~LastOfBatch(r)
    <3> SUFFICES ASSUME NEW v \in DOMAIN work[r] PROVE ClaimReady(r, v)'
      BY <1>3, <2>2 DEF ClaimsReady
    <3>1. ClaimReady(r, v) /\ work'[r] = work[r] /\ pc'[r] = "release" /\ UNCHANGED g
      BY <1>1, <1>3, <2>2 DEF ClaimsReady
    <3> QED
      BY ONLY <3>1 DEF ClaimReady, Prepared, SlotsReady, ResultsReady, Named
  <2> QED
    BY <2>1, <2>2
<1> QED
  BY <1>11, <1>12, <1>13


(* A run that has ended or is not begun has nothing to keep.                *)
LEMMA EndHeld ==
  ASSUME TInv, NEW r \in Run, ClaimsReady(r),
         Reject(r) \/ ClaimError(r) \/ WriteError(r) \/ Finish(r) \/ FinishError(r)
  PROVE  NeededHeld(r)' /\ NoDeadHeld(r)' /\ ClaimsReady(r)'
<1>1. CASE Reject(r) \/ ClaimError(r) \/ WriteError(r)
  <2>1. pc'[r] = "failed" /\ DOMAIN work'[r] = {}
    BY <1>1 DEF Reject, ClaimError, WriteError, Fail, TInv, TypeOK
  <2> QED
    BY <2>1 DEF NeededHeld, NoDeadHeld, ClaimsReady, Active
<1>2. CASE Finish(r) \/ FinishError(r)
  <2>1. pc'[r] \in {"done", "failed"} /\ DOMAIN work'[r] = {}
    <3>1. work' = work /\ work[r] = <<>> /\ pc'[r] \in {"done", "failed"}
      BY <1>2 DEF Finish, FinishError, Finished, TInv, TypeOK, Cursor, CursorOf
    <3> QED
      BY <3>1
  <2> QED
    BY <2>1 DEF NeededHeld, NoDeadHeld, ClaimsReady, Active
<1> QED
  BY <1>1, <1>2

HeldInv(r) == ClaimsReady(r) /\ NeededHeld(r) /\ NoDeadHeld(r)

(* No action of another run disturbs what a run holds.                      *)
LEMMA OthersHeld ==
  ASSUME UNCHANGED g, NEW s \in Run, HeldInv(s),
         tensors'[s] = tensors[s], work'[s] = work[s],
         pc'[s] = pc[s], step'[s] = step[s], pos'[s] = pos[s]
  PROVE  HeldInv(s)'
<1>1. /\ Pending(s)' = Pending(s) /\ Written(s)' = Written(s)
      /\ Active(s)' = Active(s)
  BY DEF Pending, Released, Written, NodesBefore, Positions, NodeAt, Nodes, Active
<1>2. ClaimsReady(s)'
  BY DEF HeldInv, ClaimsReady, ClaimReady, Prepared, SlotsReady, ResultsReady, Named
<1>3. \A i, n : ClaimedInplaceBy(s, i, n) => ClaimedInplaceBy(s, i, n)'
  BY DEF ClaimedInplaceBy
<1>4. CASE Active(s)
  BY <1>1, <1>2, <1>3, <1>4, HeldKept DEF HeldInv
<1>5. CASE ~Active(s)
  BY <1>1, <1>2, <1>5 DEF HeldInv, NeededHeld, NoDeadHeld
<1> QED
  BY <1>4, <1>5

LEMMA OthersAside ==
  ASSUME TInv, NEW r \in Run, Start(r) \/ Reject(r) \/ Step(r), NEW s \in Run \ {r}
  PROVE  tensors'[s] = tensors[s] /\ work'[s] = work[s]
<1> USE DEF TInv, TypeOK
<1>1. CASE Start(r) \/ Join(r) \/ Finish(r) \/ FinishError(r)
  BY <1>1 DEF Start, Join, Finish, FinishError
<1>2. CASE Reject(r) \/ ClaimError(r) \/ WriteError(r)
  BY <1>2 DEF Reject, ClaimError, WriteError, Fail
<1>3. CASE ClaimInplace(r) \/ ClaimSlots(r) \/ ClaimFresh(r)
  BY <1>3 DEF ClaimInplace, ClaimSlots, ClaimFresh, Claimed
<1>4. CASE \E w \in DOMAIN work[r] : Compute(r, w) \/ ComputeError(r, w)
  BY <1>4 DEF Compute, ComputeError
<1>5. CASE Write(r) \/ Release(r)
  BY <1>5 DEF Write, Release
<1> QED
  BY <1>1, <1>2, <1>3, <1>4, <1>5 DEF Step

(* Every step of a run keeps what it holds in line with what it needs.      *)
LEMMA StepHeld ==
  ASSUME IInv, CountInv, NEW r \in Run, HeldInv(r), Start(r) \/ Reject(r) \/ Step(r)
  PROVE  HeldInv(r)'
<1> USE DEF HeldInv
<1>1. TInv /\ ClaimsInOrder(r) /\ CountsExact(r)
  BY DEF IInv, CountInv
<1>2. CASE Start(r)
  BY <1>1, <1>2, StartHeld
<1>3. CASE Reject(r) \/ ClaimError(r) \/ WriteError(r) \/ Finish(r) \/ FinishError(r)
  BY <1>1, <1>3, EndHeld
<1>4. CASE ClaimInplace(r)
  <2>1. pc[r] = "claim"
    BY <1>4 DEF ClaimInplace, Claiming
  <2>2. ~Release(r) /\ ~Write(r)
    BY <2>1 DEF Release, Write
  <2> QED
    BY <1>1, <1>4, <2>2, ClaimInplaceHeld, Zenon
<1>5. CASE ClaimSlots(r) \/ ClaimFresh(r)
  BY <1>1, <1>5, ClaimAsideHeld
<1>6. CASE \E w \in DOMAIN work[r] : Compute(r, w) \/ ComputeError(r, w)
  BY <1>1, <1>6, WorkerHeld
<1>7. CASE Join(r)
  BY <1>1, <1>7, JoinHeld
<1>8. CASE Write(r)
  BY <1>1, <1>8, WriteHeld
<1>9. CASE Release(r)
  BY <1>1, <1>9, ReleaseHeld
<1> QED
  BY <1>2, <1>3, <1>4, <1>5, <1>6, <1>7, <1>8, <1>9 DEF Step

LEMMA HeldInvCorrect == Spec => []\A r \in Run : HeldInv(r)
<1> DEFINE HInv == \A r \in Run : HeldInv(r)
<1>1. Init => HInv
  BY DEF Init, HeldInv, ClaimsReady, NeededHeld, NoDeadHeld, Active
<1>2. IInv /\ CountInv /\ HInv /\ [Next]_vars => HInv'
  <2> SUFFICES ASSUME IInv, CountInv, HInv, [Next]_vars, NEW s \in Run PROVE HeldInv(s)'
    OBVIOUS
  <2>1. CASE Next
    <3>1. PICK r \in Run : Start(r) \/ Reject(r) \/ Step(r)
      BY <2>1 DEF Next
    <3>2. CASE s = r
      BY <3>1, <3>2, StepHeld
    <3>3. CASE s # r
      <4>1. /\ UNCHANGED g /\ pc'[s] = pc[s] /\ step'[s] = step[s] /\ pos'[s] = pos[s]
            /\ tensors'[s] = tensors[s] /\ work'[s] = work[s]
        BY <3>1, <3>3, OthersUntouched, OthersAside DEF IInv
      <4> QED
        BY <4>1, OthersHeld
    <3> QED
      BY <3>2, <3>3
  <2>2. CASE UNCHANGED vars
    BY <2>2, OthersHeld DEF vars
  <2> QED
    BY <2>1, <2>2
<1> QED
  BY <1>1, <1>2, IInvCorrect, CountInvCorrect, PTL DEF Spec

(* Nothing is taken from a run while a node or the caller still needs it:   *)
(* decrement_refs_state frees by the counts, and what they let go, or let   *)
(* node_can_execute_inplace take, no other node is left to use.             *)
THEOREM NeededHeldCorrect == Spec => []NeededTensorsHeld
<1>1. (\A r \in Run : HeldInv(r)) => NeededTensorsHeld
  BY DEF HeldInv, NeededHeld, NeededTensorsHeld
<1> QED
  BY <1>1, HeldInvCorrect, PTL

(* In a schedule that runs no node before one whose result it uses, memory  *)
(* also goes back as soon as the last use is released.                      *)
THEOREM HeldCorrect ==
  ASSUME \A s \in Sessions : ProducedFirst(s)
  PROVE  Spec => []HeldWhileNeeded
<1>1. TInv /\ (\A r \in Run : HeldInv(r)) => HeldWhileNeeded
  BY DEF HeldInv, NeededHeld, NoDeadHeld, HeldWhileNeeded, NeededTensorsHeld,
         NoDeadTensorHeld, TInv, TypeOK
<1> QED
  BY <1>1, HeldInvCorrect, TInvCorrect, PTL

-----------------------------------------------------------------------------
(***************************************************************************)
(* Every run of RunEngine answers what the graph denotes for its own       *)
(* inputs: for every set of runs and every set of sessions whose schedule  *)
(* keeps the order of the nodes that share a name, RunEngine implements    *)
(* Dataflow.                                                               *)
(*                                                                         *)
(* The denotation gives every name a value after each node, in sorted      *)
(* order.  What a run holds under a name is the value after the last node  *)
(* written that stores it; a node reads it in the batch that comes after   *)
(* exactly the writes before that node, so it reads the value before the   *)
(* node, and what it computes is the value after it.  That a buffer keeps  *)
(* its content until then follows from its having one owner, that it is    *)
(* there to be read from the counts: both are shown above.                 *)
(***************************************************************************)


Fed(n) == \E k \in DOMAIN g.inputs : g.inputs[k] = n

(* The values of the names for the inputs of run r, before the first node,  *)
(* and after node i where they were `before`.                               *)
Seed(r) ==
  [n \in Name |-> IF Fed(n) THEN InputValue(r, n)
                  ELSE IF n \in g.weights THEN WeightValue(n) ELSE NoValue]
ArgOf(env, n) == IF n = NoName THEN NoValue ELSE env[n]
ArgsIn(env, i) == [j \in DOMAIN g.ins[i] |-> ArgOf(env, g.ins[i][j])]
CapturedIn(env, i) == {<<m, env[m]>> : m \in g.caps[i]}
After(i, before) ==
  [n \in Name |->
     IF Results(g, i, n) = {} THEN before[n]
     ELSE NodeValue(i, CHOOSE k \in Results(g, i, n) : \A l \in Results(g, i, n) : l <= k,
                    ArgsIn(before, i), CapturedIn(before, i))]
IsEnv(r, m, env) == env = [i \in 0 .. m |-> IF i = 0 THEN Seed(r) ELSE After(i, env[i - 1])]
Env(r) == LET env[i \in 0 .. g.n] == IF i = 0 THEN Seed(r) ELSE After(i, env[i - 1])
          IN env

(* Node i is the last of those written that store n, or nobody is (0).      *)
Stands(r, n, i) ==
  /\ i # 0 => i \in Written(r) /\ Results(g, i, n) # {}
  /\ \A j \in Written(r) : Results(g, j, n) # {} => j <= i

(* The run state holds the denoted values.                                  *)
HeldDenoted(r) == \A n \in Name : Held(r, n) =>
  /\ tensors[r][n] \in DOMAIN content
  /\ \E i \in {0} \cup Written(r) :
       Stands(r, n, i) /\ content[tensors[r][n]] = Env(r)[i][n]

(* What a node took over is what it is to read, and nobody else's to read.  *)
Taken(r, item) == IF OwnsFirst(item) THEN content[item.bufs[1]] ELSE NoValue
TakenBy(r, item) ==
  LET i == item.node
      x == g.ins[i][1]
  IN item.how = "inplace" /\ item.st = "claimed" =>
       /\ x \in Name /\ UsesBy(g, Pending(r), x) \subseteq {<<i, 1>>}
       /\ OwnsFirst(item) => item.bufs[1] \in DOMAIN content
       /\ Taken(r, item) = Env(r)[i - 1][x]

(* The results that wait to be written are the denoted ones.                *)
ResultsBy(r, item) ==
  LET i == item.node
      before == Env(r)[i - 1]
  IN item.st = "computed" =>
       \A k \in DOMAIN item.bufs : item.bufs[k] # NoBuffer =>
         /\ item.bufs[k] \in DOMAIN content
         /\ content[item.bufs[k]] = NodeValue(i, k, ArgsIn(before, i), CapturedIn(before, i))

ClaimsDenoted(r) == \A w \in DOMAIN work[r] :
  TakenBy(r, work[r][w]) /\ ResultsBy(r, work[r][w])

(* An initializer's name that is fed or written stays in the run state.     *)
WeightsHeld(r) == \A n \in Name \cap g.weights : Available(r, n) => Held(r, n)

(* The answer is the denoted one, then and later.                           *)
Answered(r) == \A n \in OutputSet(g) : ValueOf(r, n) = Env(r)[g.n][n]

ValueInv(r) ==
  /\ pc[r] \notin {"idle", "failed"} => HeldDenoted(r)
  /\ Active(r) => ClaimsDenoted(r) /\ WeightsHeld(r)
  /\ pc[r] = "done" => Answered(r)

(* Nothing is stored yet in the buffers of a run that has not begun.        *)
UnusedIdle == \A b \in DOMAIN content : b \in Buffer /\ pc[b[1]] # "idle"

AInv == UnusedIdle /\ \A r \in Run : ValueInv(r)

-----------------------------------------------------------------------------
(* The denotation.                                                          *)
LEMMA LeastNat ==
  ASSUME NEW T, T \subseteq Nat, T # {}
  PROVE  \E n \in T : \A k \in T : n <= k
<1>1. PICK n \in T : \A k \in T : ~(<<k, n>> \in {ss \in Nat \X Nat : ss[1] < ss[2]})
  BY WFMin, NatLessThanWellFounded DEF OpToRel
<1>2. ASSUME NEW k \in T PROVE n <= k
  <2>1. n \in Nat /\ k \in Nat /\ ~(k < n)
    BY <1>1
  <2> QED
    BY <2>1
<1> QED
  BY <1>2

LEMMA EnvExists ==
  ASSUME NEW r \in Run, NEW m \in Nat
  PROVE  \E env : IsEnv(r, m, env)
<1> DEFINE Bad == {n \in Nat : ~\E env : IsEnv(r, n, env)}
<1>1. SUFFICES ASSUME Bad # {} PROVE FALSE
  OBVIOUS
<1>2. PICK n \in Bad : \A k \in Bad : n <= k
  BY <1>1, LeastNat
<1>3. CASE n = 0
  <2>1. IsEnv(r, 0, [i \in 0 .. 0 |-> Seed(r)])
    BY DEF IsEnv
  <2> QED
    BY <1>3, <2>1
<1>4. CASE n # 0
  <2>1. n - 1 \in Nat /\ n - 1 \notin Bad
    BY <1>2, <1>4
  <2>2. PICK h : IsEnv(r, n - 1, h)
    BY <2>1
  <2> DEFINE env == [i \in 0 .. n |-> IF i = n THEN After(n, h[n - 1]) ELSE h[i]]
  <2>3. \A i \in 0 .. n - 1 : h[i] = IF i = 0 THEN Seed(r) ELSE After(i, h[i - 1])
    BY <2>2 DEF IsEnv
  <2>4. \A i \in 0 .. n : env[i] = IF i = 0 THEN Seed(r) ELSE After(i, env[i - 1])
    <3>1. TAKE i \in 0 .. n
    <3>2. CASE i = n
      BY <1>4, <3>2
    <3>3. CASE i # n
      BY <2>3, <3>3
    <3> QED
      BY <3>2, <3>3
  <2>5. IsEnv(r, n, env)
    BY <2>4 DEF IsEnv
  <2> QED
    BY <2>5
<1> QED
  BY <1>3, <1>4

LEMMA EnvIs ==
  ASSUME TypeOK, NEW r \in Run
  PROVE  /\ g.n \in Nat
         /\ Env(r)[0] = Seed(r)
         /\ \A i \in 1 .. g.n : Env(r)[i] = After(i, Env(r)[i - 1])
         /\ Promise!Denotation(r) = Env(r)[g.n]
<1> DEFINE P(env) == env = [i \in 0 .. g.n |-> IF i = 0 THEN Seed(r) ELSE After(i, env[i - 1])]
<1>1. g.n \in Nat
  BY SessionsAssumption DEF TypeOK, IsSession, IsGraph
<1>2. P(CHOOSE env : P(env))
  <2>1. PICK h : IsEnv(r, g.n, h)
    BY <1>1, EnvExists
  <2>2. P(h)
    BY <2>1 DEF IsEnv
  <2> QED
    BY <2>2
<1>3. Env(r) = CHOOSE env : P(env)
  BY DEF Env
<1>4. \A i \in 0 .. g.n : Env(r)[i] = IF i = 0 THEN Seed(r) ELSE After(i, Env(r)[i - 1])
  BY <1>2, <1>3
<1>5. Promise!Denotation(r) = Env(r)[g.n]
  BY DEF Promise!Denotation, Env, Seed, Fed, After, Results, ArgsIn, ArgOf, CapturedIn,
     InputValue, WeightValue, NoValue, NodeValue, Promise!InputValue, Promise!WeightValue,
     Promise!NoValue, Promise!NodeValue
<1> QED
  BY <1>1, <1>4, <1>5

(* A name keeps its value where no node stores it.                          *)
LEMMA EnvStays ==
  ASSUME TypeOK, NEW r \in Run, NEW n \in Name, NEW i \in 0 .. g.n, NEW j \in 0 .. g.n,
         i <= j, \A k \in i + 1 .. j : Results(g, k, n) = {}
  PROVE  Env(r)[j][n] = Env(r)[i][n]
<1> DEFINE E == Env(r)
           Bad == {m \in i .. j : E[m][n] # E[i][n]}
<1>1. g.n \in Nat /\ \A m \in 1 .. g.n : E[m] = After(m, E[m - 1])
  BY EnvIs
<1> HIDE DEF E
<1>2. SUFFICES ASSUME Bad # {} PROVE FALSE
  BY <1>1 DEF E
<1>3. PICK m \in Bad : \A k \in Bad : m <= k
  <2>1. Bad \subseteq Nat
    BY <1>1
  <2> HIDE DEF Bad
  <2> QED
    BY <1>2, <2>1, LeastNat
<1>4. m \in i + 1 .. j /\ m \in 1 .. g.n /\ m - 1 \in i .. j /\ ~(m <= m - 1)
  BY <1>1, <1>3
<1>5. E[m - 1][n] = E[i][n]
  BY <1>3, <1>4
<1>6. E[m][n] = E[m - 1][n]
  <2>1. E[m] = After(m, E[m - 1]) /\ Results(g, m, n) = {}
    BY <1>1, <1>4
  <2> QED
    BY <2>1 DEF After
<1> QED
  BY <1>3, <1>5, <1>6

(* A name a node stores gets its last result for it.                        *)
LEMMA EnvStored ==
  ASSUME TypeOK, NEW r \in Run, NEW n \in Name, NEW i \in Nodes(g),
         NEW k \in Results(g, i, n), \A l \in Results(g, i, n) : l <= k
  PROVE  Env(r)[i][n] = NodeValue(i, k, ArgsIn(Env(r)[i - 1], i), CapturedIn(Env(r)[i - 1], i))
<1> DEFINE R == Results(g, i, n)
           before == Env(r)[i - 1]
<1>1. Env(r)[i] = After(i, before)
  BY EnvIs DEF Nodes
<1>2. \A l \in R : l \in Nat
  BY NodeType DEF TypeOK, Results
<1>3. (CHOOSE l \in R : \A m \in R : m <= l) = k
  <2>1. ASSUME NEW l \in R, \A m \in R : m <= l PROVE l = k
    <3>1. l <= k /\ k <= l
      BY <2>1
    <3> QED
      BY <1>2, <3>1
  <2> HIDE DEF R
  <2> QED
    BY <2>1
<1> HIDE DEF before
<1>4. Env(r)[i][n] = After(i, before)[n]
  BY <1>1
<1>5. After(i, before)[n] = NodeValue(i, CHOOSE l \in R : \A m \in R : m <= l,
                                      ArgsIn(before, i), CapturedIn(before, i))
  BY DEF After
<1>6. Env(r)[i][n] = NodeValue(i, k, ArgsIn(before, i), CapturedIn(before, i))
  BY <1>3, <1>4, <1>5
<1> QED
  BY <1>6 DEF before

-----------------------------------------------------------------------------
(* What a node reads.                                                       *)

LEMMA PositionNode ==
  ASSUME TypeOK, NEW p \in Positions(g)
  PROVE  NodeAt(g, p) \in Nodes(g) /\ NodeAt(g, p) \in Nat
<1>1. p[1] \in DOMAIN g.batches /\ p[2] \in 1 .. Len(g.batches[p[1]].nodes)
  BY PositionPair
<1>2. g.batches[p[1]].nodes \in Seq(Nodes(g))
  BY <1>1, BatchType DEF TypeOK
<1>3. NodeAt(g, p) \in Nodes(g)
  BY <1>1, <1>2, ElementOfSeq DEF NodeAt
<1> QED
  BY <1>3, NodeType DEF TypeOK

LEMMA WrittenNodes ==
  ASSUME TypeOK, NEW r \in Run
  PROVE  Written(r) \subseteq Nodes(g) /\ Pending(r) \subseteq Nodes(g)
<1>1. \A b, m : NodesBefore(b, m) \subseteq Nodes(g)
  BY PositionNode DEF NodesBefore
<1> QED
  BY <1>1 DEF Written, Pending

(* Before its batch, exactly the nodes before it have stored what it uses.  *)
LEMMA StoredBefore ==
  ASSUME TInv, KeepsOrder(g), NEW r \in Run, pc[r] \in {"claim", "compute"},
         NEW p \in Positions(g), p[1] = step[r], NEW n \in Name,
         Uses(g, NodeAt(g, p), n) # {}, NEW i \in Nodes(g), Results(g, i, n) # {}
  PROVE  i \in Written(r) <=> i < NodeAt(g, p)
<1> DEFINE j == NodeAt(g, p)
<1>1. PICK q \in Positions(g) : NodeAt(g, q) = i
  BY SessionsAssumption DEF TInv, TypeOK, IsSession, IsSchedule
<1>2. /\ p[1] \in Nat /\ q[1] \in Nat /\ q[2] \in Nat /\ q[2] >= 1 /\ step[r] \in Nat
      /\ i \in Nat /\ j \in Nat
  <2>1. /\ p[1] \in Nat /\ q[1] \in Nat /\ p[1] \in DOMAIN g.batches
        /\ q[2] \in 1 .. Len(g.batches[q[1]].nodes) /\ q[1] \in DOMAIN g.batches
        /\ p[2] \in 1 .. Len(g.batches[p[1]].nodes)
    BY PositionPair DEF TInv
  <2>2. Len(g.batches[q[1]].nodes) \in Nat
    BY <2>1, BatchType DEF TInv, TypeOK
  <2>3. i \in Nat /\ j \in Nat
    BY PositionNode, NodeType DEF TInv, TypeOK
  <2> QED
    BY <2>1, <2>2, <2>3 DEF TInv, TypeOK
<1>3. Written(r) = NodesBefore(step[r], 1)
  BY DEF Written
<1>4. i \in Written(r) <=> q[1] < step[r]
  <2>1. ASSUME NEW o \in Positions(g), NodeAt(g, o) = i PROVE o = q
    BY <1>1, <2>1, PositionUnique DEF TInv
  <2> QED
    BY <1>1, <1>2, <1>3, <2>1 DEF NodesBefore
<1>5. i < j => q[1] < p[1]
  BY <1>1 DEF KeepsOrder
<1>6. j < i => p[1] <= q[1]
  BY <1>1 DEF KeepsOrder
<1>7. i = j => q[1] = p[1]
  <2>1. i = j => q = p
    BY <1>1, PositionUnique DEF TInv
  <2> QED
    BY <2>1
<1> HIDE DEF j
<1>8. i \in Written(r) <=> i < j
  BY <1>2, <1>4, <1>5, <1>6, <1>7
<1> QED
  BY <1>8 DEF j

(* A node that reads a name the run state or the session has for it reads   *)
(* the value before the node.                                               *)
LEMMA ReadValue ==
  ASSUME TInv, KeepsOrder(g), NEW r \in Run, pc[r] \in {"claim", "compute"},
         HeldDenoted(r), NeededHeld(r), WeightsHeld(r),
         NEW p \in Positions(g), p[1] = step[r], NEW n \in Name,
         Uses(g, NodeAt(g, p), n) # {}, ~ClaimedInplaceBy(r, NodeAt(g, p), n)
  PROVE  ValueOf(r, n) = Env(r)[NodeAt(g, p) - 1][n]
<1> DEFINE j == NodeAt(g, p)
<1>1. j \in Nodes(g) /\ j \in Nat /\ j \in 1 .. g.n /\ g.n \in Nat
  <2>1. j \in Nodes(g) /\ g.n \in Nat
    BY PositionNode, EnvIs DEF TInv
  <2> QED
    BY <2>1 DEF Nodes
<1>2. \A i \in Nodes(g) : Results(g, i, n) # {} => (i \in Written(r) <=> i < j)
  BY StoredBefore
<1>3. Written(r) \subseteq Nodes(g)
  BY WrittenNodes DEF TInv
<1>4. n # NoName
  BY NoNameAssumption
<1>5. CASE Held(r, n)
  <2>1. PICK i \in {0} \cup Written(r) :
          Stands(r, n, i) /\ content[tensors[r][n]] = Env(r)[i][n]
    BY <1>5 DEF HeldDenoted
  <2>2. i \in 0 .. g.n /\ i <= j - 1 /\ j - 1 \in 0 .. g.n
    <3>1. i # 0 => i \in Nodes(g) /\ i < j
      BY <1>2, <1>3, <2>1 DEF Stands
    <3> HIDE DEF j
    <3> QED
      BY <1>1, <3>1 DEF Nodes
  <2>3. ASSUME NEW k \in i + 1 .. j - 1 PROVE Results(g, k, n) = {}
    <3>1. k \in Nodes(g) /\ k < j /\ ~(k <= i)
      <4> HIDE DEF j
      <4> QED
        BY <1>1, <2>2 DEF Nodes
    <3> QED
      BY <1>2, <2>1, <3>1 DEF Stands
  <2>4. Env(r)[j - 1][n] = Env(r)[i][n]
    <3> HIDE DEF j
    <3> QED
      BY <2>2, <2>3, EnvStays DEF TInv
  <2> QED
    BY <1>4, <1>5, <2>1, <2>4 DEF ValueOf
<1>6. CASE ~Held(r, n)
  <2>1. ~Available(r, n)
    <3>1. CASE n \in g.weights
      BY <1>6, <3>1 DEF WeightsHeld
    <3>2. CASE n \notin g.weights
      <4>1. Active(r)
        BY DEF Active
      <4>2. j \in Pending(r)
        <5>1. pc[r] # "release" /\ step[r] <= p[1]
          BY DEF TInv, TypeOK
        <5> QED
          BY <5>1, LaterPending
      <4> QED
        BY <1>6, <3>2, <4>1, <4>2 DEF NeededHeld
    <3> QED
      BY <3>1, <3>2
  <2>2. ~Fed(n) /\ \A i \in Written(r) : Results(g, i, n) = {}
    BY <2>1 DEF Available, Fed, Results
  <2>3. ASSUME NEW k \in 0 + 1 .. j - 1 PROVE Results(g, k, n) = {}
    <3>1. k \in Nodes(g) /\ k < j
      <4> HIDE DEF j
      <4> QED
        BY <1>1 DEF Nodes
    <3> QED
      BY <1>2, <2>2, <3>1
  <2>4. Env(r)[j - 1][n] = Env(r)[0][n]
    <3>1. 0 \in 0 .. g.n /\ j - 1 \in 0 .. g.n /\ 0 <= j - 1
      BY <1>1
    <3> HIDE DEF j
    <3> QED
      BY <2>3, <3>1, EnvStays DEF TInv
  <2>5. Env(r)[0][n] = IF n \in g.weights THEN WeightValue(n) ELSE NoValue
    BY <2>2, EnvIs DEF Seed, TInv
  <2> QED
    BY <1>4, <1>6, <2>4, <2>5 DEF ValueOf
<1> QED
  BY <1>5, <1>6

(* An operator is handed the values before its node.                        *)
LEMMA ArgsDenoted ==
  ASSUME TInv, KeepsOrder(g), NEW r \in Run, pc[r] = "compute", ClaimsInOrder(r),
         HeldDenoted(r), NeededHeld(r), WeightsHeld(r), ClaimsDenoted(r),
         NEW w \in DOMAIN work[r], work[r][w].st = "claimed"
  PROVE  LET i == work[r][w].node IN
         /\ Args(r, work[r][w]) = ArgsIn(Env(r)[i - 1], i)
         /\ Captured(r, i) = CapturedIn(Env(r)[i - 1], i)
<1> DEFINE item == work[r][w]
           i == item.node
           x == g.ins[i][1]
           before == Env(r)[i - 1]
<1>1. PICK p \in Positions(g) : NodeAt(g, p) = i /\ p[1] = step[r]
  BY ClaimPosition DEF ClaimsInOrder
<1>2. /\ i \in Nodes(g) /\ g.ins[i] \in Seq(Name \cup {NoName}) /\ g.caps[i] \subseteq Name
      /\ i \in Pending(r)
  <2>1. i \in Nodes(g) /\ g \in Sessions
    BY <1>1, PositionNode DEF TInv, TypeOK
  <2>2. g.ins[i] \in Seq(Name \cup {NoName})
    BY <2>1, NodeType
  <2>3. g.caps[i] \subseteq Name
    BY <2>1, SessionsAssumption DEF IsSession, IsGraph
  <2>4. i \in Pending(r)
    <3>1. pc[r] # "release" /\ step[r] <= p[1]
      BY <1>1 DEF TInv, TypeOK
    <3> QED
      BY <1>1, <3>1, LaterPending
  <2> QED
    BY <2>1, <2>2, <2>3, <2>4
<1>3. item.how = "inplace" =>
        /\ x \in Name /\ UsesBy(g, Pending(r), x) \subseteq {<<i, 1>>}
        /\ Taken(r, item) = before[x]
  BY DEF ClaimsDenoted, TakenBy
<1>4. ASSUME NEW n \in Name, Uses(g, i, n) # {}, item.how = "inplace" => n # x
      PROVE  ValueOf(r, n) = before[n]
  <2>1. ~ClaimedInplaceBy(r, i, n)
    <3> SUFFICES ASSUME NEW v \in DOMAIN work[r], work[r][v].node = i,
                        work[r][v].how = "inplace"
                 PROVE  n # g.ins[i][1]
      BY DEF ClaimedInplaceBy
    <3>1. v = w
      BY ClaimNodes
    <3> QED
      BY <1>4, <3>1
  <2> HIDE DEF i
  <2> QED
    BY <1>1, <1>4, <2>1, ReadValue
<1> HIDE DEF item, i, x, before
<1>5. ASSUME NEW n \in Name, NEW u \in Uses(g, i, n), item.how = "inplace", n = x
      PROVE  u = <<i, 1>>
  BY <1>2, <1>3, <1>5 DEF UsesBy
<1>6. ASSUME NEW k \in DOMAIN g.ins[i]
      PROVE  (IF item.how # "inplace" \/ k # 1 THEN ValueOf(r, g.ins[i][k]) ELSE Taken(r, item))
               = ArgOf(before, g.ins[i][k])
  <2> DEFINE n == g.ins[i][k]
  <2>1. n \in Name \cup {NoName}
    BY <1>2, ElementOfSeq, LenProperties
  <2> HIDE DEF n
  <2>2. CASE n = NoName
    <3>1. item.how # "inplace" \/ k # 1
      BY <1>3, <2>2, NoNameAssumption DEF x, n
    <3> QED
      BY <2>2, <3>1 DEF n, ArgOf, ValueOf
  <2>3. CASE n # NoName /\ (item.how # "inplace" \/ k # 1)
    <3>1. n \in Name /\ <<i, k>> \in Uses(g, i, n)
      BY <2>1, <2>3 DEF n, Uses
    <3>2. item.how = "inplace" => n # x
      <4> SUFFICES ASSUME item.how = "inplace", n = x PROVE FALSE
        OBVIOUS
      <4>1. <<i, k>> = <<i, 1>>
        BY <1>5, <3>1
      <4> QED
        BY <2>3, <4>1
    <3>3. ValueOf(r, n) = before[n]
      BY <1>4, <3>1, <3>2
    <3> QED
      BY <2>3, <3>3 DEF n, ArgOf
  <2>4. CASE n # NoName /\ item.how = "inplace" /\ k = 1
    <3>1. n = x
      BY <2>4 DEF n, x
    <3>2. Taken(r, item) = ArgOf(before, n)
      BY <1>3, <2>4, <3>1 DEF ArgOf
    <3> QED
      BY <2>4, <3>2 DEF n
  <2> QED
    BY <2>2, <2>3, <2>4
<1>7. ASSUME NEW n \in g.caps[i] PROVE ValueOf(r, n) = before[n]
  <2>1. n \in Name /\ <<i, 0>> \in Uses(g, i, n)
    BY <1>2, <1>7 DEF Uses
  <2>2. item.how = "inplace" => n # x
    <3> SUFFICES ASSUME item.how = "inplace", n = x PROVE FALSE
      OBVIOUS
    <3>1. <<i, 0>> = <<i, 1>>
      BY <1>5, <2>1
    <3> QED
      BY <3>1
  <2> QED
    BY <1>4, <2>1, <2>2
<1>8. Args(r, item) = ArgsIn(before, i)
  <2>1. \A k \in DOMAIN g.ins[i] :
          (IF item.how # "inplace" \/ k # 1 THEN ValueOf(r, g.ins[i][k])
           ELSE IF OwnsFirst(item) THEN content[item.bufs[1]] ELSE NoValue)
             = ArgOf(before, g.ins[i][k])
    BY <1>6 DEF Taken
  <2> QED
    BY <2>1 DEF Args, ArgsIn, i
<1>9. Captured(r, i) = CapturedIn(before, i)
  BY <1>7 DEF Captured, CapturedIn
<1> QED
  BY <1>8, <1>9 DEF item, i, before

-----------------------------------------------------------------------------
(* What a step leaves as it is.                                             *)

Kept(b) == b \in DOMAIN content => b \in DOMAIN content' /\ content'[b] = content[b]

(* Only an operator overwrites a buffer, and only the ones of its results.  *)
LEMMA ComputeKeeps ==
  ASSUME TInv, NEW r \in Run, NEW w \in DOMAIN work[r], Compute(r, w)
  PROVE  /\ work'[r][w].bufs = ResultBuffers(r, work[r][w])
         /\ \A b : b \notin BuffersOf(work'[r][w].bufs) => Kept(b)
<1> DEFINE bufs == ResultBuffers(r, work[r][w])
<1>1. work' = [work EXCEPT ![r][w] = [@ EXCEPT !.st = "computed", !.bufs = bufs]]
  BY DEF Compute
<1>2. work'[r][w].bufs = bufs
  <2>1. work \in [Run -> Seq(Claim)] /\ work[r][w] \in Claim
    BY ElementOfSeq, LenProperties DEF TInv, TypeOK
  <2> HIDE DEF bufs
  <2> QED
    BY <1>1, <2>1 DEF Claim
<1>3. /\ DOMAIN content' = DOMAIN content \cup BuffersOf(bufs)
      /\ \A b \in DOMAIN content \ BuffersOf(bufs) : content'[b] = content[b]
  <2> HIDE DEF bufs
  <2> QED
    BY DEF Compute, bufs
<1> HIDE DEF bufs
<1> QED
  BY <1>2, <1>3 DEF Kept, bufs

LEMMA OthersKept ==
  ASSUME TInv, NEW r \in Run, Start(r) \/ Reject(r) \/ Step(r),
         \A w \in DOMAIN work[r] : ~Compute(r, w)
  PROVE  \A b : Kept(b)
<1>1. CASE Start(r)
  BY <1>1 DEF Start, Kept
<1>2. CASE ~Start(r)
  <2>1. content' = content
    BY <1>2 DEF Step, Reject, Fail, ClaimInplace, ClaimSlots, ClaimFresh, ClaimError, Claimed,
       ComputeError, Join, Write, WriteError, Release, Finish, FinishError
  <2> QED
    BY <2>1 DEF Kept
<1> QED
  BY <1>1, <1>2

(* So what a run holds stays, and what the others have claimed.             *)
LEMMA OwnedKept ==
  ASSUME TInv, Unshared', NEW r \in Run, Start(r) \/ Reject(r) \/ Step(r)
  PROVE  /\ \A s \in Run : \A n \in Name : Held(s, n)' => Kept(tensors'[s][n])
         /\ \A s \in Run \ {r} : \A v \in DOMAIN work'[s] : \A k \in DOMAIN work'[s][v].bufs :
              work'[s][v].bufs[k] # NoBuffer => Kept(work'[s][v].bufs[k])
         /\ \A w \in DOMAIN work[r] : Compute(r, w) =>
              \A v \in DOMAIN work'[r] \ {w} : \A k \in DOMAIN work'[r][v].bufs :
                work'[r][v].bufs[k] # NoBuffer => Kept(work'[r][v].bufs[k])
<1>1. CASE \A w \in DOMAIN work[r] : ~Compute(r, w)
  BY <1>1, OthersKept
<1>2. ASSUME NEW w \in DOMAIN work[r], Compute(r, w)
      PROVE  /\ \A s \in Run : \A n \in Name : Held(s, n)' => Kept(tensors'[s][n])
             /\ \A s \in Run \ {r} : \A v \in DOMAIN work'[s] : \A k \in DOMAIN work'[s][v].bufs :
                  work'[s][v].bufs[k] # NoBuffer => Kept(work'[s][v].bufs[k])
             /\ \A v \in DOMAIN work'[r] \ {w} : \A k \in DOMAIN work'[r][v].bufs :
                  work'[r][v].bufs[k] # NoBuffer => Kept(work'[r][v].bufs[k])
  <2> DEFINE T == BuffersOf(work'[r][w].bufs)
  <2>1. \A b : b \notin T => Kept(b)
    BY <1>2, ComputeKeeps
  <2>2. w \in DOMAIN work'[r]
    <3>1. work \in [Run -> Seq(Claim)]
      BY DEF TInv, TypeOK
    <3> QED
      BY <1>2, <3>1 DEF Compute
  <2>3. T \subseteq InClaims(r)'
    BY <2>2 DEF InClaims
  <2> HIDE DEF Kept
  <2>4. ASSUME NEW s \in Run, NEW n \in Name, Held(s, n)'
        PROVE  Kept(tensors'[s][n])
    <3>1. tensors'[s][n] \in InNames(s)'
      BY <2>4 DEF InNames, Held
    <3>2. tensors'[s][n] \notin T
      <4>1. CASE s = r
        BY <2>3, <3>1, <4>1 DEF Unshared, OwnOnce
      <4>2. CASE s # r
        <5>1. (Own(r) \cap Own(s) = {})'
          BY <4>2 DEF Unshared, OwnAlone
        <5> QED
          BY <2>3, <3>1, <5>1 DEF Own
      <4> QED
        BY <4>1, <4>2
    <3> QED
      BY <2>1, <3>2
  <2>5. ASSUME NEW s \in Run \ {r}, NEW v \in DOMAIN work'[s], NEW k \in DOMAIN work'[s][v].bufs,
               work'[s][v].bufs[k] # NoBuffer
        PROVE  Kept(work'[s][v].bufs[k])
    <3>1. work'[s][v].bufs[k] \in Own(s)'
      BY <2>5 DEF Own, InClaims, BuffersOf
    <3>2. (Own(r) \cap Own(s) = {})'
      BY DEF Unshared, OwnAlone
    <3>3. work'[s][v].bufs[k] \notin T
      BY <2>3, <3>1, <3>2 DEF Own
    <3> QED
      BY <2>1, <3>3
  <2>6. ASSUME NEW v \in DOMAIN work'[r] \ {w}, NEW k \in DOMAIN work'[r][v].bufs,
               work'[r][v].bufs[k] # NoBuffer
        PROVE  Kept(work'[r][v].bufs[k])
    <3>1. ClaimsApart(r)'
      BY DEF Unshared, OwnOnce
    <3>2. work'[r][v].bufs[k] \notin T
      BY <2>2, <2>6, <3>1 DEF ClaimsApart, BuffersOf
    <3> QED
      BY <2>1, <3>2
  <2> QED
    BY <2>4, <2>5, <2>6
<1> QED
  BY <1>1, <1>2


(* The denotation depends on nothing a step changes.                        *)
LEMMA EnvSame ==
  ASSUME UNCHANGED g, NEW r \in Run
  PROVE  Env(r)' = Env(r)
BY DEF Env, Seed, Fed, After, Results, ArgsIn, ArgOf, CapturedIn, InputValue, WeightValue,
       NoValue, NodeValue

(* What a run still holds of what it held is what it was.                   *)
LEMMA KeptHeld ==
  ASSUME UNCHANGED g, NEW r \in Run, HeldDenoted(r), Written(r)' = Written(r),
         \A n \in Name : Held(r, n)' =>
           tensors'[r][n] = tensors[r][n] /\ Kept(tensors'[r][n])
  PROVE  HeldDenoted(r)'
<1> SUFFICES ASSUME NEW n \in Name, Held(r, n)'
             PROVE  /\ tensors'[r][n] \in DOMAIN content'
                    /\ \E i \in {0} \cup Written(r)' :
                         Stands(r, n, i)' /\ content'[tensors'[r][n]] = Env(r)'[i][n]
  BY DEF HeldDenoted
<1>1. Held(r, n) /\ tensors'[r][n] = tensors[r][n] /\ Kept(tensors[r][n])
  <2>1. tensors'[r][n] = tensors[r][n] /\ Kept(tensors'[r][n])
    OBVIOUS
  <2>2. Held(r, n)
    BY <2>1 DEF Held
  <2> QED
    BY <2>1, <2>2
<1>2. PICK i \in {0} \cup Written(r) : Stands(r, n, i) /\ content[tensors[r][n]] = Env(r)[i][n]
  BY <1>1 DEF HeldDenoted
<1>3. /\ tensors'[r][n] \in DOMAIN content'
      /\ content'[tensors'[r][n]] = content[tensors[r][n]]
  BY <1>1 DEF HeldDenoted, Kept
<1>4. Stands(r, n, i)'
  BY <1>2 DEF Stands, Results
<1> QED
  BY <1>2, <1>3, <1>4, EnvSame

(* So is what a claim keeps.                                                *)
LEMMA KeptClaim ==
  ASSUME UNCHANGED g, NEW r \in Run, Pending(r)' \subseteq Pending(r), NEW item,
         TakenBy(r, item), ResultsBy(r, item),
         item.how = "inplace" /\ item.st = "claimed" => DOMAIN item.bufs = {1},
         \A k \in DOMAIN item.bufs : item.bufs[k] # NoBuffer => Kept(item.bufs[k])
  PROVE  TakenBy(r, item)' /\ ResultsBy(r, item)'
<1>1. Env(r)' = Env(r)
  BY EnvSame
<1>2. TakenBy(r, item)'
  <2> SUFFICES ASSUME item.how = "inplace", item.st = "claimed"
               PROVE  /\ g'.ins[item.node][1] \in Name
                      /\ UsesBy(g', Pending(r)', g'.ins[item.node][1]) \subseteq {<<item.node, 1>>}
                      /\ OwnsFirst(item) => item.bufs[1] \in DOMAIN content'
                      /\ Taken(r, item)' = Env(r)'[item.node - 1][g'.ins[item.node][1]]
    BY DEF TakenBy
  <2>1. /\ g.ins[item.node][1] \in Name
        /\ UsesBy(g, Pending(r), g.ins[item.node][1]) \subseteq {<<item.node, 1>>}
        /\ OwnsFirst(item) => item.bufs[1] \in DOMAIN content
        /\ Taken(r, item) = Env(r)[item.node - 1][g.ins[item.node][1]]
    BY DEF TakenBy
  <2>2. UsesBy(g, Pending(r)', g.ins[item.node][1]) \subseteq UsesBy(g, Pending(r), g.ins[item.node][1])
    BY DEF UsesBy
  <2>3. OwnsFirst(item) => item.bufs[1] \in DOMAIN content' /\ content'[item.bufs[1]] = content[item.bufs[1]]
    <3> SUFFICES ASSUME OwnsFirst(item)
                 PROVE  item.bufs[1] \in DOMAIN content' /\ content'[item.bufs[1]] = content[item.bufs[1]]
      OBVIOUS
    <3>1. 1 \in DOMAIN item.bufs /\ item.bufs[1] # NoBuffer
      BY DEF OwnsFirst, BuffersOf
    <3>2. Kept(item.bufs[1])
      BY <3>1
    <3> QED
      BY <2>1, <3>2 DEF Kept
  <2>4. Taken(r, item)' = Taken(r, item)
    BY <2>3 DEF Taken, OwnsFirst
  <2> QED
    BY <1>1, <2>1, <2>2, <2>3, <2>4
<1>3. ResultsBy(r, item)'
  <2> DEFINE value(k) == NodeValue(item.node, k, ArgsIn(Env(r)[item.node - 1], item.node),
                                   CapturedIn(Env(r)[item.node - 1], item.node))
  <2>1. \A k : value(k)' = value(k)
    BY <1>1 DEF NodeValue, ArgsIn, ArgOf, CapturedIn
  <2>2. item.st = "computed" => \A k \in DOMAIN item.bufs : item.bufs[k] # NoBuffer =>
          item.bufs[k] \in DOMAIN content' /\ content'[item.bufs[k]] = value(k)
    BY DEF ResultsBy, Kept
  <2> HIDE DEF value
  <2>3. item.st = "computed" => \A k \in DOMAIN item.bufs : item.bufs[k] # NoBuffer =>
          item.bufs[k] \in DOMAIN content' /\ content'[item.bufs[k]] = value(k)'
    BY <2>1, <2>2
  <2> QED
    BY <2>3 DEF ResultsBy, value
<1> QED
  BY <1>2, <1>3

LEMMA KeptInBatch ==
  ASSUME UNCHANGED g, NEW r \in Run, Pending(r)' \subseteq Pending(r),
         ClaimsDenoted(r), ClaimsReady(r),
         NEW v \in DOMAIN work[r], work'[r][v] = work[r][v],
         \A k \in DOMAIN work'[r][v].bufs :
           work'[r][v].bufs[k] # NoBuffer => Kept(work'[r][v].bufs[k])
  PROVE  TakenBy(r, work[r][v])' /\ ResultsBy(r, work[r][v])'
<1>1. PICK item : item = work[r][v]
  OBVIOUS
<1>2. TakenBy(r, item) /\ ResultsBy(r, item)
  BY <1>1 DEF ClaimsDenoted
<1>3. item.how = "inplace" /\ item.st = "claimed" => DOMAIN item.bufs = {1}
  BY <1>1 DEF ClaimsReady, ClaimReady, Prepared
<1>4. \A k \in DOMAIN item.bufs : item.bufs[k] # NoBuffer => Kept(item.bufs[k])
  BY <1>1
<1>5. TakenBy(r, item)' /\ ResultsBy(r, item)'
  BY <1>2, <1>3, <1>4, KeptClaim
<1>6. work'[r][v] = item
  BY <1>1
<1> QED
  BY <1>5, <1>6 DEF TakenBy, ResultsBy, Taken

(* The initializers stay hidden where they were.                            *)
LEMMA KeptWeights ==
  ASSUME UNCHANGED g, NEW r \in Run, WeightsHeld(r), Written(r)' = Written(r),
         \A n \in Name \cap g.weights : Held(r, n) => Held(r, n)'
  PROVE  WeightsHeld(r)'
BY DEF WeightsHeld, Available

(* What was answered stays.                                                 *)
LEMMA KeptAnswer ==
  ASSUME UNCHANGED g, TypeOK, NEW r \in Run, HeldDenoted(r), Answered(r), tensors'[r] = tensors[r],
         \A n \in Name : Held(r, n)' => Kept(tensors'[r][n])
  PROVE  Answered(r)'
<1>1. Env(r)' = Env(r)
  BY EnvSame
<1>2. OutputSet(g)' = OutputSet(g) /\ OutputSet(g) \subseteq Name
  <2>1. g.outputs \in Seq(Name)
    BY SessionsAssumption DEF TypeOK, IsSession, IsGraph
  <2> QED
    BY <2>1 DEF OutputSet
<1>3. ASSUME NEW n \in Name PROVE ValueOf(r, n)' = ValueOf(r, n)
  <2>1. Held(r, n)' <=> Held(r, n)
    BY DEF Held
  <2>2. Held(r, n) => content'[tensors'[r][n]] = content[tensors[r][n]]
    BY <2>1 DEF HeldDenoted, Kept
  <2> QED
    BY <2>1, <2>2 DEF ValueOf, WeightValue, NoValue
<1> QED
  BY <1>1, <1>2, <1>3 DEF Answered

(* No other run's step disturbs what a run holds and has answered.          *)
LEMMA OthersValues ==
  ASSUME TInv, NEW s \in Run, ClaimsReady(s), ValueInv(s),
         UNCHANGED g, pc'[s] = pc[s], step'[s] = step[s], pos'[s] = pos[s],
         tensors'[s] = tensors[s], work'[s] = work[s],
         \A n \in Name : Held(s, n)' => Kept(tensors'[s][n]),
         \A v \in DOMAIN work'[s] : \A k \in DOMAIN work'[s][v].bufs :
           work'[s][v].bufs[k] # NoBuffer => Kept(work'[s][v].bufs[k])
  PROVE  ValueInv(s)'
<1>1. /\ Pending(s)' = Pending(s) /\ Written(s)' = Written(s)
      /\ Active(s)' = Active(s)
  BY DEF Pending, Released, Written, NodesBefore, Positions, NodeAt, Nodes, Active
<1>2. ASSUME pc'[s] \notin {"idle", "failed"} PROVE HeldDenoted(s)'
  <2>1. HeldDenoted(s)
    BY <1>2 DEF ValueInv
  <2> QED
    BY <1>1, <2>1, KeptHeld
<1>3. ASSUME Active(s)' PROVE ClaimsDenoted(s)' /\ WeightsHeld(s)'
  <2>1. ClaimsDenoted(s) /\ WeightsHeld(s)
    BY <1>1, <1>3 DEF ValueInv
  <2>2. ASSUME NEW v \in DOMAIN work'[s] PROVE TakenBy(s, work[s][v])' /\ ResultsBy(s, work[s][v])'
    BY <1>1, <2>1, KeptInBatch
  <2>3. WeightsHeld(s)'
    BY <1>1, <2>1, KeptWeights DEF Held
  <2> QED
    BY <2>2, <2>3 DEF ClaimsDenoted
<1>4. ASSUME pc'[s] = "done" PROVE Answered(s)'
  <2>1. HeldDenoted(s) /\ Answered(s) /\ TypeOK
    BY <1>4 DEF ValueInv, TInv
  <2> QED
    BY <2>1, KeptAnswer
<1> QED
  BY <1>2, <1>3, <1>4 DEF ValueInv

-----------------------------------------------------------------------------
(* The steps of a run, one by one.                                          *)

(* The caller's tensors are what the names denote before the first node.    *)
LEMMA StartValues ==
  ASSUME TInv, UnusedIdle, NEW r \in Run, Start(r)
  PROVE  ValueInv(r)'
<1> DEFINE at(n) == CHOOSE k \in DOMAIN g.inputs : g.inputs[k] = n
<1>1. /\ UNCHANGED <<g, step, work>> /\ pc[r] = "idle" /\ pc'[r] = "claim"
      /\ \A n \in Name : tensors'[r][n] = IF Fed(n) THEN Fresh(r, 0, at(n)) ELSE NoBuffer
      /\ content' = [b \in DOMAIN content \cup {Fresh(r, 0, k) : k \in DOMAIN g.inputs} |->
           IF b \in DOMAIN content THEN content[b] ELSE InputValue(r, g.inputs[b[3]])]
  BY DEF Start, Fed, TInv, TypeOK
<1>2. Written(r)' = {} /\ work'[r] = <<>>
  <2>1. step[r] = 1 /\ work[r] = <<>>
    BY <1>1 DEF TInv, Cursor, CursorOf
  <2>2. NodesBefore(1, 1)' = {}
    BY <1>1, NothingBefore DEF TInv, NodesBefore, NodeAt, Positions
  <2> QED
    BY <1>1, <2>1, <2>2 DEF Written
<1>3. ASSUME NEW n \in Name, Fed(n)
      PROVE  /\ Held(r, n)' /\ tensors'[r][n] \in DOMAIN content'
             /\ content'[tensors'[r][n]] = InputValue(r, n)
  <2>1. at(n) \in DOMAIN g.inputs /\ g.inputs[at(n)] = n
    BY <1>3 DEF Fed
  <2>2. at(n) \in Nat
    <3>1. g.inputs \in Seq(Name)
      BY SessionsAssumption DEF TInv, TypeOK, IsSession, IsGraph
    <3> HIDE DEF at
    <3> QED
      BY <2>1, <3>1, LenProperties
  <2> HIDE DEF at
  <2>3. /\ Fresh(r, 0, at(n)) # NoBuffer
        /\ Fresh(r, 0, at(n))[1] = r /\ Fresh(r, 0, at(n))[3] = at(n)
    BY <2>2, FreshBuffer
  <2>4. Fresh(r, 0, at(n)) \notin DOMAIN content
    BY <1>1, <2>3 DEF UnusedIdle
  <2>5. content'[Fresh(r, 0, at(n))] = InputValue(r, g.inputs[Fresh(r, 0, at(n))[3]])
    BY <1>1, <2>1, <2>4
  <2> QED
    BY <1>1, <1>3, <2>1, <2>3, <2>5 DEF Held
<1>4. HeldDenoted(r)'
  <2> SUFFICES ASSUME NEW n \in Name, Held(r, n)'
               PROVE  /\ tensors'[r][n] \in DOMAIN content'
                      /\ \E i \in {0} \cup Written(r)' :
                           Stands(r, n, i)' /\ content'[tensors'[r][n]] = Env(r)'[i][n]
    BY DEF HeldDenoted
  <2>1. Fed(n)
    BY <1>1 DEF Held
  <2>2. Env(r)'[0][n] = InputValue(r, n)
    <3>1. Env(r)[0] = Seed(r) /\ Env(r)' = Env(r)
      BY <1>1, EnvIs, EnvSame DEF TInv
    <3> QED
      BY <2>1, <3>1 DEF Seed
  <2>3. Stands(r, n, 0)'
    BY <1>2 DEF Stands
  <2> QED
    BY <1>3, <2>1, <2>2, <2>3
<1>5. ClaimsDenoted(r)'
  <2>1. DOMAIN work'[r] = {}
    BY <1>2
  <2> QED
    BY <2>1 DEF ClaimsDenoted
<1>6. WeightsHeld(r)'
  <2> SUFFICES ASSUME NEW n \in Name, Available(r, n)' PROVE Held(r, n)'
    BY DEF WeightsHeld
  <2>1. Fed(n)
    BY <1>1, <1>2 DEF Available, Fed
  <2> QED
    BY <1>3, <2>1
<1> QED
  BY <1>1, <1>4, <1>5, <1>6 DEF ValueInv

(* A run that has failed holds nothing and answers nothing.                 *)
LEMMA FailedValues ==
  ASSUME TInv, NEW r \in Run,
         Reject(r) \/ ClaimError(r) \/ WriteError(r) \/ FinishError(r)
  PROVE  ValueInv(r)'
<1>1. pc'[r] = "failed"
  BY DEF Reject, ClaimError, WriteError, FinishError, Fail, TInv, TypeOK
<1> QED
  BY <1>1 DEF ValueInv, Active

(* A claim joins the others of its batch.                                   *)
LEMMA ClaimedValues ==
  ASSUME TInv, NEW r \in Run, ClaimsInOrder(r), ClaimsReady(r), ClaimsDenoted(r),
         NEW i \in Nodes(g), Claiming(r, i), NEW item \in Claim, item.node = i,
         item.st = "claimed", Claimed(r, item), Pending(r)' = Pending(r), TakenBy(r, item)'
  PROVE  ClaimsDenoted(r)'
<1>1. /\ DOMAIN work'[r] = 1 .. Len(work[r]) + 1
      /\ DOMAIN work[r] = 1 .. Len(work[r])
      /\ \A w \in DOMAIN work[r] : work'[r][w] = work[r][w]
      /\ work'[r][Len(work[r]) + 1] = item /\ Len(work[r]) \in Nat
  BY ClaimedNode, ClaimingNode
<1>2. UNCHANGED <<g, content>>
  BY DEF Claimed
<1>3. SUFFICES ASSUME NEW v \in DOMAIN work'[r]
               PROVE  TakenBy(r, work[r][v])' /\ ResultsBy(r, work[r][v])'
  BY DEF ClaimsDenoted
<1>4. CASE v \in DOMAIN work[r]
  <2>1. \A k \in DOMAIN work'[r][v].bufs : Kept(work'[r][v].bufs[k])
    BY <1>2 DEF Kept
  <2>2. work'[r][v] = work[r][v]
    BY <1>1, <1>4
  <2> QED
    BY <1>2, <1>4, <2>1, <2>2, KeptInBatch
<1>5. CASE v \notin DOMAIN work[r]
  <2>1. work'[r][v] = item
    <3>1. v = Len(work[r]) + 1
      BY <1>1, <1>5
    <3> QED
      BY <1>1, <3>1
  <2>2. TakenBy(r, work[r][v])'
    BY <2>1 DEF TakenBy, Taken
  <2>3. ResultsBy(r, work[r][v])'
    BY <2>1 DEF ResultsBy
  <2> QED
    BY <2>2, <2>3
<1> QED
  BY <1>4, <1>5

(* A claim that moves no tensor of the run state takes nothing over.        *)
LEMMA ClaimAsideValues ==
  ASSUME TInv, NEW r \in Run, ClaimsInOrder(r), ClaimsReady(r), ValueInv(r),
         ClaimSlots(r) \/ ClaimFresh(r)
  PROVE  ValueInv(r)'
<1>1. PICK i \in Nodes(g), item \in Claim :
        /\ Claiming(r, i) /\ item.node = i /\ item.st = "claimed" /\ item.how # "inplace"
        /\ Claimed(r, item) /\ UNCHANGED tensors
  BY ClaimAsideItem
<1>2. /\ UNCHANGED <<g, content>> /\ Active(r) /\ Active(r)' /\ pc[r] = "claim"
      /\ pc'[r] # "done"
  BY <1>1 DEF Claimed, Claiming, Active, TInv, TypeOK
<1>3. Step(r) /\ ~Release(r) /\ ~Write(r)
  BY <1>2 DEF Step, Release, Write
<1>4. Pending(r)' = Pending(r) /\ Written(r)' = Written(r)
  BY <1>2, <1>3, StepPending, StepWritten
<1>5. HeldDenoted(r) /\ ClaimsDenoted(r) /\ WeightsHeld(r)
  BY <1>2 DEF ValueInv, Active
<1>6. HeldDenoted(r)'
  <2>1. \A n \in Name : tensors'[r][n] = tensors[r][n] /\ Kept(tensors'[r][n])
    BY <1>1, <1>2 DEF Kept
  <2> QED
    BY <1>2, <1>4, <1>5, <2>1, KeptHeld
<1>7. ClaimsDenoted(r)'
  <2>1. TakenBy(r, item)'
    BY <1>1 DEF TakenBy
  <2> QED
    BY <1>1, <1>4, <1>5, <2>1, ClaimedValues
<1>8. WeightsHeld(r)'
  <2>1. \A n \in Name : Held(r, n) => Held(r, n)'
    BY <1>1 DEF Held
  <2> QED
    BY <1>2, <1>4, <1>5, <2>1, KeptWeights
<1> QED
  BY <1>2, <1>6, <1>7, <1>8 DEF ValueInv

(* The in-place path takes over what the node is to read, and nobody else   *)
(* reads it any more.                                                       *)
LEMMA ClaimInplaceValues ==
  ASSUME TInv, KeepsOrder(g), NEW r \in Run, ClaimsInOrder(r), HeldInv(r), CountsExact(r),
         ValueInv(r), ClaimInplace(r)
  PROVE  ValueInv(r)'
<1>1. PICK i \in Nodes(g) :
        /\ Claiming(r, i) /\ CanInplace(r, i)
        /\ Claimed(r, [node |-> i, how |-> "inplace", bufs |-> <<tensors[r][g.ins[i][1]]>>,
                       st |-> "claimed"])
        /\ tensors' = [tensors EXCEPT ![r][g.ins[i][1]] = NoBuffer]
  BY DEF ClaimInplace
<1>x. PICK x : x = g.ins[i][1]
  OBVIOUS
<1>2. x \in Name \ g.weights /\ UsesBy(g, Pending(r), x) \subseteq {<<i, 1>>}
  BY <1>x, <1>1, InplaceAlone
<1>3. PICK item \in Claim :
        /\ item.node = i /\ item.st = "claimed" /\ item.how = "inplace"
        /\ item.bufs = <<tensors[r][x]>> /\ Claimed(r, item)
  <2> DEFINE c == [node |-> i, how |-> "inplace", bufs |-> <<tensors[r][x]>>, st |-> "claimed"]
  <2>1. tensors[r][x] \in Buffer \cup {NoBuffer}
    BY <1>2 DEF TInv, TypeOK
  <2>2. <<tensors[r][x]>> \in Seq(Buffer \cup {NoBuffer})
    BY ONLY <2>1
  <2>3. /\ c \in Claim /\ c.node = i /\ c.st = "claimed" /\ c.how = "inplace"
        /\ c.bufs = <<tensors[r][x]>>
    BY <2>2 DEF Claim
  <2>4. Claimed(r, c)
    BY <1>x, <1>1
  <2> QED
    BY <2>3, <2>4
<1>4. /\ UNCHANGED <<g, content>> /\ pc[r] = "claim" /\ Active(r) /\ Active(r)' /\ pc'[r] # "done"
      /\ \A n \in Name : tensors'[r][n] = IF n = x THEN NoBuffer ELSE tensors[r][n]
  BY <1>x, <1>1, <1>2 DEF Claiming, Claimed, Active, TInv, TypeOK
<1>5. Step(r) /\ ~Release(r) /\ ~Write(r)
  BY <1>4 DEF Step, Release, Write
<1>6. Pending(r)' = Pending(r) /\ Written(r)' = Written(r)
  BY <1>4, <1>5, StepPending, StepWritten
<1>7. HeldDenoted(r) /\ ClaimsDenoted(r) /\ WeightsHeld(r)
  BY <1>4 DEF ValueInv, Active
<1>8. ValueOf(r, x) = Env(r)[i - 1][x]
  <2> DEFINE p == <<step[r], Len(work[r]) + 1>>
  <2>1. p \in Positions(g) /\ NodeAt(g, p) = i /\ \A w \in DOMAIN work[r] : work[r][w].node # i
    BY <1>1, ClaimingNode
  <2>2. p[1] = step[r]
    OBVIOUS
  <2> HIDE DEF p
  <2>3. ~ClaimedInplaceBy(r, i, x)
    BY <2>1 DEF ClaimedInplaceBy
  <2>4. Uses(g, i, x) # {}
    <3>1. g.ins[i] \in Seq(Name \cup {NoName}) /\ g.ins[i] # <<>>
      BY <1>1, NodeType DEF CanInplace, TInv, TypeOK
    <3>2. 1 \in DOMAIN g.ins[i]
      BY <3>1, EmptySeq, LenProperties
    <3> QED
      BY <1>x, <3>2 DEF Uses
  <2>5. x \in Name /\ NeededHeld(r) /\ pc[r] \in {"claim", "compute"}
    BY <1>2, <1>4 DEF HeldInv
  <2> QED
    BY <1>7, <2>1, <2>2, <2>3, <2>4, <2>5, ReadValue
<1>9. TakenBy(r, item)'
  <2>1. OwnsFirst(item) <=> Held(r, x)
    <3>1. BuffersOf(item.bufs) = {tensors[r][x]} \ {NoBuffer}
      BY <1>3 DEF BuffersOf
    <3> QED
      BY <1>3, <3>1 DEF OwnsFirst, Held
  <2>2. item.bufs[1] = tensors[r][x]
    BY <1>3
  <2>3. OwnsFirst(item) => item.bufs[1] \in DOMAIN content
    BY <1>2, <1>7, <2>1, <2>2 DEF HeldDenoted
  <2>4. Taken(r, item) = Env(r)[i - 1][x]
    <3>1. x # NoName /\ x \notin g.weights
      BY <1>2, NoNameAssumption
    <3>2. ValueOf(r, x) = IF Held(r, x) THEN content[tensors[r][x]] ELSE NoValue
      BY <3>1 DEF ValueOf
    <3> QED
      BY <1>8, <2>1, <2>2, <3>2 DEF Taken
  <2>5. Taken(r, item)' = Taken(r, item) /\ Env(r)' = Env(r)
    BY <1>4, EnvSame DEF Taken
  <2>6. UsesBy(g', Pending(r)', x) \subseteq {<<i, 1>>} /\ g'.ins[i][1] = x
    BY <1>x, <1>2, <1>4, <1>6
  <2> QED
    BY <1>2, <1>3, <1>4, <2>3, <2>4, <2>5, <2>6 DEF TakenBy
<1>10. ClaimsDenoted(r)'
  BY <1>1, <1>3, <1>6, <1>7, <1>9, ClaimedValues DEF HeldInv
<1>11. HeldDenoted(r)'
  <2>1. ASSUME NEW n \in Name, Held(r, n)'
        PROVE  tensors'[r][n] = tensors[r][n] /\ Kept(tensors'[r][n])
    BY <1>4, <2>1 DEF Held, Kept
  <2> QED
    BY <1>4, <1>6, <1>7, <2>1, KeptHeld
<1>12. WeightsHeld(r)'
  <2>1. \A n \in Name \cap g.weights : Held(r, n) => Held(r, n)'
    BY <1>2, <1>4 DEF Held
  <2> QED
    BY <1>4, <1>6, <1>7, <2>1, KeptWeights
<1> QED
  BY <1>4, <1>10, <1>11, <1>12 DEF ValueInv

(* An operator computes from the values before its node, so its results are *)
(* those after it.                                                          *)
LEMMA ComputeResults ==
  ASSUME TInv, KeepsOrder(g), NEW r \in Run, ClaimsInOrder(r), HeldInv(r), ValueInv(r),
         Unshared', NEW w \in DOMAIN work[r], Compute(r, w)
  PROVE  work'[r][w].st = "computed" /\ ResultsBy(r, work[r][w])'
<1>1. PICK item \in Claim : item = work[r][w]
  <2>1. work[r] \in Seq(Claim)
    BY DEF TInv, TypeOK
  <2> QED
    BY <2>1, ElementOfSeq, LenProperties
<1>2. PICK i : i = item.node
  OBVIOUS
<1>3. PICK before : before = Env(r)[i - 1]
  OBVIOUS
<1> DEFINE bufs == ResultBuffers(r, item)
           args == ArgsIn(before, i)
           captured == CapturedIn(before, i)
<1>4. /\ pc[r] = "compute" /\ item.st = "claimed" /\ UNCHANGED g /\ Active(r)
      /\ work' = [work EXCEPT ![r][w] = [@ EXCEPT !.st = "computed", !.bufs = bufs]]
  BY <1>1 DEF Compute, Active
<1>5. Args(r, item) = args /\ Captured(r, i) = captured
  <2>1. HeldDenoted(r) /\ ClaimsDenoted(r) /\ WeightsHeld(r) /\ NeededHeld(r)
    BY <1>4 DEF ValueInv, Active, HeldInv
  <2> QED
    BY <1>1, <1>2, <1>3, <1>4, <2>1, ArgsDenoted
<1>6. content' = [b \in DOMAIN content \cup BuffersOf(bufs) |->
        IF b \in BuffersOf(bufs)
          THEN [k \in DOMAIN bufs |-> NodeValue(i, k, args, captured)]
                 [CHOOSE k \in DOMAIN bufs : bufs[k] = b]
          ELSE content[b]]
  BY <1>1, <1>2, <1>5 DEF Compute
<1>7. /\ work'[r][w].node = i /\ work'[r][w].st = "computed" /\ work'[r][w].bufs = bufs
      /\ w \in DOMAIN work'[r]
  <2>1. work \in [Run -> Seq(Claim)] /\ item \in Claim
    BY DEF TInv, TypeOK
  <2> HIDE DEF bufs
  <2> QED
    BY <1>1, <1>2, <1>4, <2>1 DEF Claim
<1> HIDE DEF bufs, args, captured
<1>8. ASSUME NEW k \in DOMAIN bufs, bufs[k] # NoBuffer
      PROVE  bufs[k] \in DOMAIN content' /\ content'[bufs[k]] = NodeValue(i, k, args, captured)
  <2>1. ASSUME NEW l \in DOMAIN bufs, bufs[l] = bufs[k] PROVE l = k
    <3>1. ClaimsApart(r)'
      BY DEF Unshared, OwnOnce
    <3> QED
      BY <1>7, <1>8, <2>1, <3>1 DEF ClaimsApart
  <2>2. (CHOOSE l \in DOMAIN bufs : bufs[l] = bufs[k]) = k
    BY <2>1
  <2>3. bufs[k] \in BuffersOf(bufs)
    BY <1>8 DEF BuffersOf
  <2> QED
    BY <1>6, <2>2, <2>3
<1>9. Env(r)' = Env(r)
  BY <1>4, EnvSame
<1>10. ArgsIn(Env(r)[i - 1], i)' = args /\ CapturedIn(Env(r)[i - 1], i)' = captured
  BY <1>3, <1>4, <1>9 DEF args, captured, ArgsIn, ArgOf, CapturedIn
<1>11. ResultsBy(r, work[r][w])'
  <2> SUFFICES ASSUME NEW k \in DOMAIN bufs, bufs[k] # NoBuffer
               PROVE  /\ bufs[k] \in DOMAIN content'
                      /\ content'[bufs[k]] = NodeValue(i, k, ArgsIn(Env(r)[i - 1], i)',
                                                       CapturedIn(Env(r)[i - 1], i)')
    BY <1>7 DEF ResultsBy
  <2> QED
    BY <1>8, <1>10
<1> QED
  BY <1>7, <1>11

LEMMA ComputeValues ==
  ASSUME TInv, KeepsOrder(g), NEW r \in Run, ClaimsInOrder(r), HeldInv(r), ValueInv(r),
         Unshared', NEW w \in DOMAIN work[r], Compute(r, w)
  PROVE  ValueInv(r)'
<1>1. /\ UNCHANGED <<g, pc, step, pos, tensors>> /\ pc[r] = "compute" /\ Active(r) /\ Active(r)'
  BY DEF Compute, Active
<1>2. /\ DOMAIN work'[r] = DOMAIN work[r]
      /\ \A v \in DOMAIN work[r] \ {w} : work'[r][v] = work[r][v]
  BY DEF Compute, TInv, TypeOK
<1>3. Pending(r)' = Pending(r) /\ Written(r)' = Written(r)
  BY <1>1 DEF Pending, Released, Written, NodesBefore, Positions, NodeAt, Nodes
<1>4. Step(r)
  BY DEF Step
<1>5. HeldDenoted(r) /\ ClaimsDenoted(r) /\ WeightsHeld(r) /\ ClaimsReady(r)
  BY <1>1 DEF ValueInv, Active, HeldInv
<1>6. HeldDenoted(r)'
  <2>1. \A n \in Name : Held(r, n)' => Kept(tensors'[r][n])
    BY <1>4, OwnedKept
  <2> QED
    BY <1>1, <1>3, <1>5, <2>1, KeptHeld
<1>7. ClaimsDenoted(r)'
  <2> SUFFICES ASSUME NEW v \in DOMAIN work'[r]
               PROVE  TakenBy(r, work[r][v])' /\ ResultsBy(r, work[r][v])'
    BY DEF ClaimsDenoted
  <2>1. CASE v = w
    <3>1. work'[r][w].st = "computed" /\ ResultsBy(r, work[r][w])'
      BY ComputeResults
    <3>2. TakenBy(r, work[r][w])'
      BY <3>1 DEF TakenBy
    <3> QED
      BY <2>1, <3>1, <3>2
  <2>2. CASE v # w
    <3>1. \A k \in DOMAIN work'[r][v].bufs :
            work'[r][v].bufs[k] # NoBuffer => Kept(work'[r][v].bufs[k])
      BY <1>4, <2>2, OwnedKept
    <3>2. v \in DOMAIN work[r] /\ work'[r][v] = work[r][v]
      BY <1>2, <2>2
    <3> QED
      BY <1>1, <1>3, <1>5, <3>1, <3>2, KeptInBatch
  <2> QED
    BY <2>1, <2>2
<1>8. WeightsHeld(r)'
  BY <1>1, <1>3, <1>5, KeptWeights DEF Held
<1> QED
  BY <1>1, <1>6, <1>7, <1>8 DEF ValueInv

(* An operator's error stores nothing, nor does the join.                   *)
LEMMA QuietValues ==
  ASSUME TInv, NEW r \in Run, HeldInv(r), ValueInv(r),
         Join(r) \/ \E w \in DOMAIN work[r] : ComputeError(r, w)
  PROVE  ValueInv(r)'
<1>1. /\ UNCHANGED <<g, step, pos, tensors, content>>
      /\ pc[r] = "compute" /\ pc'[r] \in {"compute", "write"} /\ pos[r] = 1
  <2>1. pc[r] = "compute" => pos[r] = 1
    BY DEF TInv, Cursor, CursorOf
  <2> QED
    BY <2>1 DEF Join, ComputeError, TInv, TypeOK
<1>2. /\ DOMAIN work'[r] = DOMAIN work[r]
      /\ \A v \in DOMAIN work[r] : work'[r][v] = work[r][v] \/ work'[r][v].st = "error"
  <2>1. CASE Join(r)
    BY <2>1 DEF Join
  <2>2. ASSUME NEW w \in DOMAIN work[r], ComputeError(r, w)
        PROVE  /\ DOMAIN work'[r] = DOMAIN work[r]
               /\ \A v \in DOMAIN work[r] : work'[r][v] = work[r][v] \/ work'[r][v].st = "error"
    <3>1. work' = [work EXCEPT ![r][w] = [@ EXCEPT !.st = "error"]]
      BY <2>2 DEF ComputeError
    <3>2. work \in [Run -> Seq(Claim)] /\ work[r][w] \in Claim
      BY ElementOfSeq, LenProperties DEF TInv, TypeOK
    <3> QED
      BY <3>1, <3>2 DEF Claim
  <2> QED
    BY <2>1, <2>2
<1>3. Pending(r)' = Pending(r) /\ Written(r)' = Written(r)
  BY <1>1 DEF Pending, Released, Written, NodesBefore, Positions, NodeAt, Nodes
<1>4. HeldDenoted(r) /\ ClaimsDenoted(r) /\ WeightsHeld(r) /\ ClaimsReady(r)
  BY <1>1 DEF ValueInv, Active, HeldInv
<1>5. HeldDenoted(r)'
  BY <1>1, <1>3, <1>4, KeptHeld DEF Kept
<1>6. ClaimsDenoted(r)'
  <2> SUFFICES ASSUME NEW v \in DOMAIN work'[r]
               PROVE  TakenBy(r, work[r][v])' /\ ResultsBy(r, work[r][v])'
    BY DEF ClaimsDenoted
  <2>1. CASE work'[r][v].st = "error"
    BY <2>1 DEF TakenBy, ResultsBy
  <2>2. CASE work'[r][v].st # "error"
    <3>1. v \in DOMAIN work[r] /\ work'[r][v] = work[r][v]
      BY <1>2, <2>2
    <3>2. \A b : Kept(b)
      BY <1>1 DEF Kept
    <3> QED
      BY <1>1, <1>3, <1>4, <3>1, <3>2, KeptInBatch
  <2> QED
    BY <2>1, <2>2
<1>7. WeightsHeld(r)'
  BY <1>1, <1>3, <1>4, KeptWeights DEF Held
<1> QED
  BY <1>1, <1>5, <1>6, <1>7 DEF ValueInv

(* The zip of outputs and results leaves a name the last result the node    *)
(* has for it.                                                              *)
LEMMA StoredIs ==
  ASSUME TInv, NEW item \in Claim, ResultsReady(item.node, item.bufs), NEW n \in Name
  PROVE  LET R == Results(g, item.node, n)
             k == StoredAt(item, n)
         IN /\ k = 0 <=> R = {}
            /\ k # 0 => /\ k \in R /\ \A l \in R : l <= k
                        /\ k \in DOMAIN item.bufs /\ item.bufs[k] # NoBuffer
<1> DEFINE i == item.node
           outs == g.outs[i]
           R == Results(g, i, n)
           last == FirstOf(Len(outs), Len(item.bufs))
           at == {k \in 1 .. last : outs[k] = n /\ \A l \in k + 1 .. last : outs[l] # n}
<1>1. /\ i \in Nodes(g) /\ item.bufs \in Seq(Buffer \cup {NoBuffer})
      /\ Len(outs) \in Nat /\ DOMAIN outs = 1 .. Len(outs) /\ g.arity[i] \in Nat
  BY NodeType DEF Claim, TInv, TypeOK
<1>2. DOMAIN item.bufs = 1 .. Len(item.bufs) /\ Len(item.bufs) \in Nat
  BY <1>1, LenProperties
<1>3. Len(item.bufs) = g.arity[i]
  <2>1. 1 .. Len(item.bufs) = 1 .. g.arity[i]
    BY <1>2 DEF ResultsReady
  <2> HIDE DEF i
  <2> QED
    BY <1>1, <1>2, <2>1
<1>4. StoredAt(item, n) = IF at = {} THEN 0 ELSE CHOOSE k \in at : TRUE
  BY DEF StoredAt
<1> HIDE DEF outs
<1>5. last \in Nat /\ last <= Len(outs) /\ last <= Len(item.bufs)
      /\ \A k \in Nat : k <= Len(outs) /\ k <= Len(item.bufs) => k <= last
  BY <1>1, <1>2 DEF FirstOf
<1> HIDE DEF last
<1>6. R = {k \in 1 .. last : outs[k] = n}
  <2>1. R = {k \in 1 .. Len(outs) : outs[k] = n /\ k <= g.arity[i]}
    BY <1>1 DEF Results, outs
  <2> HIDE DEF R, i
  <2> QED
    BY <1>1, <1>2, <1>3, <1>5, <2>1
<1> HIDE DEF R
<1>7. R = {} => StoredAt(item, n) = 0
  BY <1>4, <1>6
<1>8. R # {} => at # {}
  <2>1. R \in SUBSET (1 .. last)
    BY <1>6
  <2>2. R # {} => \E k \in R : \A l \in k + 1 .. last : l \notin R
    BY <1>5, <2>1, LastOne
  <2>3. R # {} => \E k \in R : \A l \in k + 1 .. last : outs[l] # n
    <3>1. ASSUME NEW k \in R, NEW l \in k + 1 .. last, l \notin R PROVE outs[l] # n
      <4>1. l \in 1 .. last
        BY <1>5, <2>1, <3>1
      <4> QED
        BY <1>6, <3>1, <4>1
    <3> QED
      BY <2>2, <3>1
  <2> QED
    BY <1>6, <2>3
<1>9. R # {} => StoredAt(item, n) \in at
  BY <1>4, <1>8
<1>10. R # {} => StoredAt(item, n) # 0
  BY <1>9, <1>5
<1>11. ASSUME R # {}
       PROVE  /\ StoredAt(item, n) \in R /\ \A l \in R : l <= StoredAt(item, n)
              /\ StoredAt(item, n) \in DOMAIN item.bufs /\ item.bufs[StoredAt(item, n)] # NoBuffer
  <2>1. PICK k : k = StoredAt(item, n)
    OBVIOUS
  <2>2. k \in 1 .. last /\ outs[k] = n /\ \A l \in k + 1 .. last : outs[l] # n
    BY <1>9, <1>11, <2>1
  <2>3. k \in R /\ \A l \in R : l <= k
    <3>1. ASSUME NEW l \in R PROVE l <= k
      <4>1. l \in 1 .. last /\ outs[l] = n
        BY <1>6
      <4> QED
        BY <1>5, <2>2, <4>1
    <3> QED
      BY <1>6, <2>2, <3>1
  <2>4. k \in DOMAIN item.bufs
    BY <1>2, <1>5, <2>2
  <2>5. k \in Named(g, i)
    <3>1. k \in DOMAIN outs /\ outs[k] # NoName
      BY <1>1, <1>5, <2>2, NoNameAssumption DEF outs
    <3> QED
      BY <3>1 DEF Named, outs
  <2>6. item.bufs[k] # NoBuffer
    BY <2>4, <2>5 DEF ResultsReady
  <2> QED
    BY <2>1, <2>3, <2>4, <2>6
<1> QED
  BY <1>7, <1>10, <1>11 DEF R

(* Of those written before it none stores its names after it.               *)
LEMMA WriteOrder ==
  ASSUME TInv, KeepsOrder(g), NEW r \in Run, pc[r] = "write", NEW n \in Name,
         Results(g, Batch(r).nodes[pos[r]], n) # {},
         NEW j \in Written(r), Results(g, j, n) # {}
  PROVE  j <= Batch(r).nodes[pos[r]]
<1> DEFINE p == <<step[r], pos[r]>>
           i == NodeAt(g, p)
<1>1. /\ p \in Positions(g) /\ i = Batch(r).nodes[pos[r]]
      /\ p[1] = step[r] /\ p[2] = pos[r] /\ step[r] \in Nat /\ pos[r] \in Nat
  <2>1. /\ step[r] \in DOMAIN g.batches /\ pos[r] \in 1 .. Len(g.batches[step[r]].nodes)
        /\ step[r] \in Nat /\ pos[r] \in Nat
    BY DEF TInv, TypeOK, Cursor, CursorOf, Batch
  <2> QED
    BY <2>1, PositionOf DEF TInv, Batch
<1>2. PICK q \in Positions(g) :
        NodeAt(g, q) = j /\ (q[1] < step[r] \/ (q[1] = step[r] /\ q[2] < pos[r]))
  BY DEF Written, NodesBefore
<1>3. i \in Nat /\ j \in Nat /\ q[1] \in Nat /\ q[2] \in Nat
  <2>1. q[1] \in Nat /\ q[2] \in Nat
    <3>1. q[1] \in Nat /\ q[2] \in 1 .. Len(g.batches[q[1]].nodes) /\ q[1] \in DOMAIN g.batches
      BY PositionPair DEF TInv
    <3>2. Len(g.batches[q[1]].nodes) \in Nat
      BY <3>1, BatchType DEF TInv, TypeOK
    <3> QED
      BY <3>1, <3>2
  <2> QED
    BY <1>1, <1>2, <2>1, PositionNode DEF TInv
<1>4. i < j => p[1] < q[1] \/ (p[1] = q[1] /\ p[2] < q[2])
  BY <1>1, <1>2 DEF KeepsOrder
<1> HIDE DEF i, p
<1> QED
  BY <1>1, <1>2, <1>3, <1>4

(* A write puts the values after its node under the names.                  *)
LEMMA WriteValues ==
  ASSUME TInv, KeepsOrder(g), NEW r \in Run, ClaimsInOrder(r), HeldInv(r), ValueInv(r), Write(r)
  PROVE  ValueInv(r)'
<1>1. /\ step[r] \in DOMAIN g.batches /\ pos[r] \in 1 .. Len(Batch(r).nodes)
      /\ pos[r] \in DOMAIN work[r] /\ pos[r] \in Nat /\ pc[r] = "write" /\ Active(r)
  BY LenProperties DEF Write, Active, TInv, TypeOK, Cursor, CursorOf
<1>2. PICK item \in Claim : item = work[r][pos[r]]
  <2>1. work[r] \in Seq(Claim)
    BY DEF TInv, TypeOK
  <2> QED
    BY <1>1, <2>1, ElementOfSeq, LenProperties
<1>3. PICK i : i = item.node
  OBVIOUS
<1>4. i \in Nodes(g) /\ i = Batch(r).nodes[pos[r]]
  BY <1>1, <1>2, <1>3 DEF Claim, ClaimsInOrder
<1>5. /\ item.st = "computed" /\ UNCHANGED <<g, step, content>>
      /\ tensors' = [tensors EXCEPT ![r] = [n \in Name |->
           IF StoredAt(item, n) = 0 THEN tensors[r][n] ELSE item.bufs[StoredAt(item, n)]]]
      /\ work' = [work EXCEPT ![r][pos[r]] = [@ EXCEPT !.bufs = <<>>]]
      /\ Advance(r, "release")
  BY <1>2 DEF Write
<1>6. pc'[r] \in {"write", "release"} /\ Active(r)'
  <2>1. pc'[r] \in {"write", "release"}
    BY <1>1, <1>5 DEF Advance, TInv, TypeOK
  <2> QED
    BY <2>1 DEF Active
<1>7. \A n \in Name : tensors'[r][n] =
        IF StoredAt(item, n) = 0 THEN tensors[r][n] ELSE item.bufs[StoredAt(item, n)]
  BY <1>5 DEF TInv, TypeOK
<1>8. Written(r)' = Written(r) \cup {i} /\ Pending(r)' = Pending(r)
  <2>1. Step(r) /\ ~Release(r)
    BY <1>1 DEF Step, Release
  <2> QED
    BY <1>1, <1>4, <1>6, <2>1, StepPending, WriteWritten
<1>9. HeldDenoted(r) /\ ClaimsDenoted(r) /\ WeightsHeld(r) /\ ClaimsReady(r)
  BY <1>1 DEF ValueInv, Active, HeldInv
<1>10. ResultsReady(i, item.bufs)
  BY <1>1, <1>2, <1>3, <1>5, <1>9 DEF ClaimsReady, ClaimReady
<1>11. ASSUME NEW n \in Name
       PROVE  /\ StoredAt(item, n) = 0 <=> Results(g, i, n) = {}
              /\ StoredAt(item, n) # 0 =>
                   /\ StoredAt(item, n) \in Results(g, i, n)
                   /\ \A l \in Results(g, i, n) : l <= StoredAt(item, n)
                   /\ StoredAt(item, n) \in DOMAIN item.bufs
                   /\ item.bufs[StoredAt(item, n)] # NoBuffer
  BY <1>3, <1>10, StoredIs
<1>12. Env(r)' = Env(r)
  BY <1>5, EnvSame
<1>13. HeldDenoted(r)'
  <2> SUFFICES ASSUME NEW n \in Name, Held(r, n)'
               PROVE  /\ tensors'[r][n] \in DOMAIN content'
                      /\ \E j \in {0} \cup Written(r)' :
                           Stands(r, n, j)' /\ content'[tensors'[r][n]] = Env(r)'[j][n]
    BY DEF HeldDenoted
  <2>1. CASE Results(g, i, n) = {}
    <3>1. tensors'[r][n] = tensors[r][n] /\ Held(r, n)
      BY <1>7, <1>11, <2>1 DEF Held
    <3>2. PICK j \in {0} \cup Written(r) :
            Stands(r, n, j) /\ content[tensors[r][n]] = Env(r)[j][n]
      BY <1>9, <3>1 DEF HeldDenoted
    <3>3. Stands(r, n, j)'
      BY <1>5, <1>8, <2>1, <3>2 DEF Stands, Results
    <3>4. tensors[r][n] \in DOMAIN content
      BY <1>9, <3>1 DEF HeldDenoted
    <3> QED
      BY <1>5, <1>8, <1>12, <3>1, <3>2, <3>3, <3>4
  <2>2. CASE Results(g, i, n) # {}
    <3>1. PICK k \in Results(g, i, n) : k = StoredAt(item, n) /\ \A l \in Results(g, i, n) : l <= k
      BY <1>11, <2>2
    <3>2. tensors'[r][n] = item.bufs[k] /\ k \in DOMAIN item.bufs /\ item.bufs[k] # NoBuffer
      BY <1>7, <1>11, <2>2, <3>1
    <3>3. Env(r)[i][n] =
            NodeValue(i, k, ArgsIn(Env(r)[i - 1], i), CapturedIn(Env(r)[i - 1], i))
      BY <1>4, <3>1, EnvStored DEF TInv
    <3>4. item.bufs[k] \in DOMAIN content /\ content[item.bufs[k]] = Env(r)[i][n]
      <4>1. ResultsBy(r, item)
        BY <1>1, <1>2, <1>9 DEF ClaimsDenoted
      <4> QED
        BY <1>3, <1>5, <3>2, <3>3, <4>1 DEF ResultsBy
    <3>5. Stands(r, n, i)'
      <4>1. i \in Nat
        BY <1>4, NodeType DEF TInv, TypeOK
      <4>2. \A j \in Written(r) : Results(g, j, n) # {} => j <= i
        BY <1>1, <1>4, <2>2, WriteOrder
      <4>3. \A j \in Written(r)' : Results(g, j, n) # {} => j <= i
        BY <1>8, <4>1, <4>2
      <4> QED
        BY <1>5, <1>8, <2>2, <4>3 DEF Stands, Results
    <3> QED
      BY <1>5, <1>8, <1>12, <3>2, <3>4, <3>5
  <2> QED
    BY <2>1, <2>2
<1>14. ClaimsDenoted(r)'
  <2> SUFFICES ASSUME NEW v \in DOMAIN work'[r]
               PROVE  TakenBy(r, work[r][v])' /\ ResultsBy(r, work[r][v])'
    BY DEF ClaimsDenoted
  <2>1. /\ DOMAIN work'[r] = DOMAIN work[r]
        /\ \A u \in DOMAIN work[r] \ {pos[r]} : work'[r][u] = work[r][u]
        /\ work'[r][pos[r]] = [item EXCEPT !.bufs = <<>>]
    BY <1>1, <1>2, <1>5 DEF TInv, TypeOK
  <2>2. CASE v = pos[r]
    <3>1. work'[r][v].st = "computed" /\ work'[r][v].bufs = <<>>
      BY <1>5, <2>1, <2>2 DEF Claim
    <3>2. TakenBy(r, work[r][v])'
      BY <3>1 DEF TakenBy
    <3>3. ResultsBy(r, work[r][v])'
      BY <3>1 DEF ResultsBy
    <3> QED
      BY <3>2, <3>3
  <2>3. CASE v # pos[r]
    <3>1. v \in DOMAIN work[r] /\ work'[r][v] = work[r][v]
      BY <2>1, <2>3
    <3>2. \A b : Kept(b)
      BY <1>5 DEF Kept
    <3> QED
      BY <1>5, <1>8, <1>9, <3>1, <3>2, KeptInBatch
  <2> QED
    BY <2>2, <2>3
<1>15. WeightsHeld(r)'
  <2> SUFFICES ASSUME NEW n \in Name, n \in g.weights, Available(r, n)' PROVE Held(r, n)'
    BY <1>5 DEF WeightsHeld
  <2>1. CASE Results(g, i, n) = {}
    <3>1. Available(r, n)
      BY <1>5, <1>8, <2>1 DEF Available, Results
    <3>2. Held(r, n)
      BY <1>9, <3>1 DEF WeightsHeld
    <3> QED
      BY <1>7, <1>11, <2>1, <3>2 DEF Held
  <2>2. CASE Results(g, i, n) # {}
    BY <1>7, <1>11, <2>2 DEF Held
  <2> QED
    BY <2>1, <2>2
<1> QED
  BY <1>6, <1>13, <1>14, <1>15 DEF ValueInv

(* What is left of the run state after a release is as it was, and no       *)
(* initializer goes.                                                        *)
LEMMA ReleaseValues ==
  ASSUME TInv, NEW r \in Run, HeldInv(r), ValueInv(r), Release(r)
  PROVE  ValueInv(r)'
<1> DEFINE i == Batch(r).nodes[pos[r]]
           dead == LastUsed(g, refs[r], i)
<1>1. /\ pc[r] = "release" /\ Active(r) /\ UNCHANGED <<g, content>>
      /\ tensors' = [tensors EXCEPT ![r] = [n \in Name |->
           IF n \in dead THEN NoBuffer ELSE tensors[r][n]]]
      /\ work' = [work EXCEPT ![r] = IF LastOfBatch(r) THEN <<>> ELSE @]
      /\ Advance(r, "claim")
  BY DEF Release, Active
<1>2. dead \cap g.weights = {}
  BY DEF LastUsed
<1> HIDE DEF dead
<1>3. pc'[r] \in {"release", "claim"} /\ Active(r)'
  <2>1. pc'[r] \in {"release", "claim"}
    BY <1>1 DEF Advance, TInv, TypeOK
  <2> QED
    BY <2>1 DEF Active
<1>4. \A n \in Name : tensors'[r][n] = IF n \in dead THEN NoBuffer ELSE tensors[r][n]
  BY <1>1 DEF TInv, TypeOK
<1>5. Written(r)' = Written(r) /\ Pending(r)' \subseteq Pending(r)
  <2>1. Step(r) /\ ~Write(r)
    BY <1>1 DEF Step, Write
  <2>2. Pending(r)' = Pending(r) \ {i}
    BY ReleasePending
  <2> QED
    BY <1>3, <2>1, <2>2, StepWritten
<1>6. HeldDenoted(r) /\ ClaimsDenoted(r) /\ WeightsHeld(r) /\ ClaimsReady(r)
  BY <1>1 DEF ValueInv, Active, HeldInv
<1>7. HeldDenoted(r)'
  <2>1. ASSUME NEW n \in Name, Held(r, n)'
        PROVE  tensors'[r][n] = tensors[r][n] /\ Kept(tensors'[r][n])
    BY <1>1, <1>4, <2>1 DEF Held, Kept
  <2> QED
    BY <1>1, <1>5, <1>6, <2>1, KeptHeld
<1>8. ClaimsDenoted(r)'
  <2> SUFFICES ASSUME NEW v \in DOMAIN work'[r]
               PROVE  TakenBy(r, work[r][v])' /\ ResultsBy(r, work[r][v])'
    BY DEF ClaimsDenoted
  <2>1. v \in DOMAIN work[r] /\ work'[r][v] = work[r][v]
    BY <1>1 DEF TInv, TypeOK
  <2>2. \A b : Kept(b)
    BY <1>1 DEF Kept
  <2> QED
    BY <1>1, <1>5, <1>6, <2>1, <2>2, KeptInBatch
<1>9. WeightsHeld(r)'
  <2>1. \A n \in Name \cap g.weights : Held(r, n) => Held(r, n)'
    BY <1>2, <1>4 DEF Held
  <2> QED
    BY <1>1, <1>5, <1>6, <2>1, KeptWeights
<1> QED
  BY <1>3, <1>7, <1>8, <1>9 DEF ValueInv

(* Every node is written when a run answers.                                *)
LEMMA AllWritten ==
  ASSUME TypeOK, NEW r \in Run, Finished(r)
  PROVE  Written(r) = Nodes(g)
<1>1. g \in Sessions /\ IsSchedule(g)
  BY SessionsAssumption DEF TypeOK, IsSession
<1>2. Written(r) = NodesBefore(Len(g.batches) + 1, 1)
  BY DEF Finished, Written
<1>3. ASSUME NEW i \in Nodes(g) PROVE i \in Written(r)
  <2>1. PICK q \in Positions(g) : NodeAt(g, q) = i
    BY <1>1 DEF IsSchedule
  <2>2. q[1] \in DOMAIN g.batches
    BY PositionPair
  <2>3. DOMAIN g.batches = 1 .. Len(g.batches) /\ Len(g.batches) \in Nat
    BY <1>1, BatchType
  <2>4. q[1] < Len(g.batches) + 1
    BY <2>2, <2>3
  <2> QED
    BY <1>2, <2>1, <2>4 DEF NodesBefore
<1>4. Written(r) \subseteq Nodes(g)
  BY WrittenNodes
<1> QED
  BY <1>3, <1>4

(* What take_outputs hands over is the value after the last node.           *)
LEMMA FinishValues ==
  ASSUME TInv, NEW r \in Run, ValueInv(r), Finish(r)
  PROVE  ValueInv(r)'
<1>1. /\ pc[r] = "claim" /\ pc'[r] = "done" /\ Active(r) /\ UNCHANGED <<g, step, pos, content>>
      /\ Finished(r) /\ Missing(r) = {}
      /\ \A n \in Name : tensors'[r][n] = IF n \in OutputSet(g) THEN tensors[r][n] ELSE NoBuffer
  BY DEF Finish, Finished, Active, TInv, TypeOK
<1>2. Written(r) = Nodes(g)
  BY <1>1, AllWritten DEF TInv
<1>3. Written(r)' = Written(r)
  BY <1>1 DEF Written, NodesBefore, Positions, NodeAt
<1>4. HeldDenoted(r) /\ WeightsHeld(r)
  BY <1>1 DEF ValueInv, Active
<1>5. HeldDenoted(r)'
  <2>1. ASSUME NEW n \in Name, Held(r, n)'
        PROVE  tensors'[r][n] = tensors[r][n] /\ Kept(tensors'[r][n])
    BY <1>1, <2>1 DEF Held, Kept
  <2> QED
    BY <1>1, <1>3, <1>4, <2>1, KeptHeld
<1>6. OutputSet(g) \subseteq Name /\ g.n \in Nat
  <2>1. g.outputs \in Seq(Name)
    BY SessionsAssumption DEF TInv, TypeOK, IsSession, IsGraph
  <2>2. g.n \in Nat
    BY EnvIs DEF TInv
  <2> QED
    BY <2>1, <2>2 DEF OutputSet
<1>7. ASSUME NEW n \in OutputSet(g) PROVE ValueOf(r, n) = Env(r)[g.n][n]
  <2>1. n \in Name /\ n # NoName
    BY <1>6, NoNameAssumption
  <2>2. CASE Held(r, n)
    <3>1. PICK i \in {0} \cup Written(r) :
            Stands(r, n, i) /\ content[tensors[r][n]] = Env(r)[i][n]
      BY <1>4, <2>1, <2>2 DEF HeldDenoted
    <3>2. i \in 0 .. g.n /\ g.n \in 0 .. g.n /\ i <= g.n
      BY <1>2, <1>6 DEF Nodes
    <3>3. ASSUME NEW k \in i + 1 .. g.n PROVE Results(g, k, n) = {}
      <4>1. k \in Nodes(g) /\ ~(k <= i)
        BY <1>6, <3>2 DEF Nodes
      <4> QED
        BY <1>2, <3>1, <4>1 DEF Stands
    <3>4. Env(r)[g.n][n] = Env(r)[i][n]
      BY <2>1, <3>2, <3>3, EnvStays DEF TInv
    <3> QED
      BY <2>1, <2>2, <3>1, <3>4 DEF ValueOf
  <2>3. CASE ~Held(r, n)
    <3>1. n \in g.weights
      BY <1>1, <2>3 DEF Missing, OutputSet
    <3>2. ~Available(r, n)
      BY <1>4, <2>1, <2>3, <3>1 DEF WeightsHeld
    <3>3. ~Fed(n) /\ \A k \in 0 + 1 .. g.n : Results(g, k, n) = {}
      <4>1. \A k \in Nodes(g) : Results(g, k, n) = {}
        BY <1>2, <3>2 DEF Available, Results
      <4> QED
        BY <3>2, <4>1 DEF Available, Fed, Nodes
    <3>4. Env(r)[g.n][n] = Env(r)[0][n]
      <4>1. 0 \in 0 .. g.n /\ g.n \in 0 .. g.n /\ 0 <= g.n
        BY <1>6
      <4> QED
        BY <2>1, <3>3, <4>1, EnvStays DEF TInv
    <3>5. Env(r)[0][n] = WeightValue(n)
      BY <2>1, <3>1, <3>3, EnvIs DEF Seed, TInv
    <3> QED
      BY <2>1, <2>3, <3>1, <3>4, <3>5 DEF ValueOf
  <2> QED
    BY <2>2, <2>3
<1>8. ASSUME NEW n \in OutputSet(g) PROVE ValueOf(r, n)' = ValueOf(r, n)
  <2>1. tensors'[r][n] = tensors[r][n]
    BY <1>1, <1>6
  <2> QED
    BY <1>1, <2>1 DEF ValueOf, Held, WeightValue, NoValue
<1>9. Answered(r)'
  <2>1. Env(r)' = Env(r)
    BY <1>1, EnvSame
  <2> QED
    BY <1>1, <1>7, <1>8, <2>1 DEF Answered, OutputSet
<1> QED
  BY <1>1, <1>5, <1>9 DEF ValueInv, Active

-----------------------------------------------------------------------------
LEMMA StepValues ==
  ASSUME IInv, CountInv, KeepsOrder(g), NEW r \in Run, HeldInv(r), UnusedIdle, ValueInv(r),
         Unshared', Start(r) \/ Reject(r) \/ Step(r)
  PROVE  ValueInv(r)'
<1>1. TInv /\ ClaimsInOrder(r) /\ CountsExact(r) /\ ClaimsReady(r)
  BY DEF IInv, CountInv, HeldInv
<1>2. CASE Start(r)
  BY <1>1, <1>2, StartValues
<1>3. CASE Reject(r) \/ ClaimError(r) \/ WriteError(r) \/ FinishError(r)
  BY <1>1, <1>3, FailedValues
<1>4. CASE ClaimInplace(r)
  BY <1>1, <1>4, ClaimInplaceValues
<1>5. CASE ClaimSlots(r) \/ ClaimFresh(r)
  BY <1>1, <1>5, ClaimAsideValues
<1>6. ASSUME NEW w \in DOMAIN work[r], Compute(r, w) PROVE ValueInv(r)'
  BY <1>1, <1>6, ComputeValues
<1>7. CASE Join(r) \/ \E w \in DOMAIN work[r] : ComputeError(r, w)
  BY <1>1, <1>7, QuietValues
<1>8. CASE Write(r)
  BY <1>1, <1>8, WriteValues
<1>9. CASE Release(r)
  BY <1>1, <1>9, ReleaseValues
<1>10. CASE Finish(r)
  BY <1>1, <1>10, FinishValues
<1> QED
  BY <1>2, <1>3, <1>4, <1>5, <1>6, <1>7, <1>8, <1>9, <1>10 DEF Step

(* What is stored is stored by a run that has begun.                        *)
LEMMA StepUnusedIdle ==
  ASSUME TInv, TInv', Unshared', UnusedIdle, NEW r \in Run, Start(r) \/ Reject(r) \/ Step(r)
  PROVE  UnusedIdle'
<1>1. pc'[r] # "idle" /\ \A s \in Run \ {r} : pc'[s] = pc[s]
  <2>1. pc'[r] # "idle"
    BY DEF Start, Step, Reject, Fail, ClaimInplace, ClaimSlots, ClaimFresh, ClaimError, Claimed,
       Claiming, Compute, ComputeError, Join, Write, WriteError, Release, Finish, FinishError,
       Advance, TInv, TypeOK
  <2> QED
    BY <2>1, OthersUntouched
<1>2. ASSUME NEW b \in DOMAIN content PROVE b \in Buffer /\ pc'[b[1]] # "idle"
  <2>1. b \in Buffer /\ pc[b[1]] # "idle"
    BY DEF UnusedIdle
  <2>2. b[1] \in Run
    BY <2>1 DEF Buffer
  <2> QED
    BY <1>1, <2>1, <2>2
<1>3. CASE Start(r)
  <2>1. DOMAIN content' = DOMAIN content \cup {Fresh(r, 0, k) : k \in DOMAIN g.inputs}
    BY <1>3 DEF Start
  <2>2. ASSUME NEW k \in DOMAIN g.inputs
        PROVE  Fresh(r, 0, k) \in Buffer /\ Fresh(r, 0, k)[1] = r
    <3>1. g.inputs \in Seq(Name)
      BY SessionsAssumption DEF TInv, TypeOK, IsSession, IsGraph
    <3>2. k \in Nat /\ 0 \in Nat
      BY <3>1, LenProperties
    <3> QED
      BY <3>2 DEF Fresh, Buffer
  <2> QED
    BY <1>1, <1>2, <2>1, <2>2 DEF UnusedIdle
<1>4. ASSUME NEW w \in DOMAIN work[r], Compute(r, w) PROVE UnusedIdle'
  <2>1. work'[r][w].bufs = ResultBuffers(r, work[r][w])
    BY <1>4, ComputeKeeps
  <2>2. DOMAIN content' = DOMAIN content \cup BuffersOf(ResultBuffers(r, work[r][w]))
    BY <1>4 DEF Compute
  <2>3. ASSUME NEW b \in BuffersOf(ResultBuffers(r, work[r][w]))
        PROVE  b \in Buffer /\ pc'[b[1]] # "idle"
    <3>1. w \in DOMAIN work'[r]
      BY <1>4 DEF Compute, TInv, TypeOK
    <3>2. b \in Own(r)'
      BY <2>1, <2>3, <3>1 DEF Own, InClaims
    <3>3. b \in Buffer
      <4>1. work[r][w] \in Claim
        BY ElementOfSeq, LenProperties DEF TInv, TypeOK
      <4>2. ResultBuffers(r, work[r][w]) \in Seq(Buffer \cup {NoBuffer})
        BY <4>1, ResultBuffersType DEF TInv
      <4> QED
        BY <4>2 DEF BuffersOf
    <3>4. b[1] \in Run
      BY <3>3 DEF Buffer
    <3>5. ASSUME pc'[b[1]] = "idle" PROVE FALSE
      <4>1. b[1] # r
        BY <1>1, <3>5
      <4>2. b \in ToCome(b[1])'
        BY <3>3, <3>5 DEF ToCome
      <4>3. (ToCome(b[1]) \cap Own(r))' = {}
        BY <3>4, <4>1 DEF Unshared, OwnAlone
      <4> QED
        BY <3>2, <4>2, <4>3
    <3> QED
      BY <3>3, <3>5
  <2> QED
    BY <1>2, <2>2, <2>3 DEF UnusedIdle
<1>5. CASE ~Start(r) /\ \A w \in DOMAIN work[r] : ~Compute(r, w)
  <2>1. content' = content
    BY <1>5 DEF Step, Reject, Fail, ClaimInplace, ClaimSlots, ClaimFresh, ClaimError, Claimed,
       ComputeError, Join, Write, WriteError, Release, Finish, FinishError
  <2> QED
    BY <1>2, <2>1 DEF UnusedIdle
<1> QED
  BY <1>3, <1>4, <1>5

(* The denoted values are held in every state of every run.                 *)
LEMMA AInvStep ==
  ASSUME IInv, CountInv, \A r \in Run : HeldInv(r), KeepsOrder(g), IInv', AInv, [Next]_vars
  PROVE  AInv'
<1>1. TInv /\ TInv' /\ Unshared' /\ \A r \in Run : ClaimsReady(r)
  BY DEF IInv, HeldInv
<1>2. CASE Next
  <2>1. PICK r \in Run : Start(r) \/ Reject(r) \/ Step(r)
    BY <1>2 DEF Next
  <2>2. UnusedIdle'
    BY <1>1, <2>1, StepUnusedIdle DEF AInv
  <2>3. ValueInv(r)'
    BY <1>1, <2>1, StepValues DEF AInv
  <2>4. ASSUME NEW s \in Run \ {r} PROVE ValueInv(s)'
    <3>1. /\ UNCHANGED g /\ pc'[s] = pc[s] /\ step'[s] = step[s] /\ pos'[s] = pos[s]
          /\ tensors'[s] = tensors[s] /\ work'[s] = work[s]
      BY <1>1, <2>1, OthersUntouched, OthersAside
    <3>2. /\ \A n \in Name : Held(s, n)' => Kept(tensors'[s][n])
          /\ \A v \in DOMAIN work'[s] : \A k \in DOMAIN work'[s][v].bufs :
               work'[s][v].bufs[k] # NoBuffer => Kept(work'[s][v].bufs[k])
      BY <1>1, <2>1, OwnedKept
    <3> QED
      BY <1>1, <3>1, <3>2, OthersValues DEF AInv
  <2> QED
    BY <2>2, <2>3, <2>4 DEF AInv
<1>3. CASE UNCHANGED vars
  <2>1. \A b : Kept(b)
    BY <1>3 DEF vars, Kept
  <2>2. ASSUME NEW s \in Run PROVE ValueInv(s)'
    <3>1. /\ UNCHANGED g /\ pc'[s] = pc[s] /\ step'[s] = step[s] /\ pos'[s] = pos[s]
          /\ tensors'[s] = tensors[s] /\ work'[s] = work[s]
      BY <1>3 DEF vars
    <3> QED
      BY <1>1, <2>1, <3>1, OthersValues DEF AInv
  <2>3. UnusedIdle'
    BY <1>3 DEF AInv, UnusedIdle, vars
  <2> QED
    BY <2>2, <2>3 DEF AInv
<1> QED
  BY <1>2, <1>3

LEMMA AInvCorrect ==
  ASSUME \A s \in Sessions : KeepsOrder(s)
  PROVE  Spec => []AInv
<1> DEFINE HInv == \A r \in Run : HeldInv(r)
<1>1. Init => AInv
  BY DEF Init, AInv, UnusedIdle, ValueInv, Active
<1>2. IInv /\ CountInv /\ HInv /\ IInv' /\ AInv /\ [Next]_vars => AInv'
  <2> SUFFICES ASSUME IInv, CountInv, HInv, IInv', AInv, [Next]_vars PROVE AInv'
    OBVIOUS
  <2>1. KeepsOrder(g)
    BY DEF IInv, TInv, TypeOK
  <2> QED
    BY <2>1, AInvStep
<1> QED
  BY <1>1, <1>2, IInvCorrect, CountInvCorrect, HeldInvCorrect, PTL DEF Spec

-----------------------------------------------------------------------------
(* RunEngine implements Dataflow.                                           *)

(* The promise's view of the runs.                                          *)
StatusNow == [r \in Run |-> IF pc[r] \in {"idle", "done", "failed"} THEN pc[r] ELSE "running"]
AnswerNow ==
  [r \in Run |-> IF pc[r] # "done" THEN <<>> ELSE [n \in OutputSet(g) |-> ValueOf(r, n)]]

(* How a step moves its run on.                                             *)
LEMMA StepStatus ==
  ASSUME TInv, NEW r \in Run, Start(r) \/ Reject(r) \/ Step(r)
  PROVE  /\ UNCHANGED g /\ \A s \in Run \ {r} : pc'[s] = pc[s]
         /\ \/ pc[r] = "idle" /\ pc'[r] = "claim"
            \/ Active(r) /\ pc'[r] = "done"
            \/ pc[r] \notin {"done", "failed"} /\ pc'[r] = "failed"
            \/ Active(r) /\ Active(r)'
<1>1. g' = g /\ \A s \in Run \ {r} : pc'[s] = pc[s]
  <2>1. g' = g
    BY DEF Start, Step, Reject, Fail, ClaimInplace, ClaimSlots, ClaimFresh, ClaimError, Claimed,
       Compute, ComputeError, Join, Write, WriteError, Release, Finish, FinishError
  <2> QED
    BY <2>1, OthersUntouched
<1> USE DEF Active
<1>2. CASE Start(r) \/ Reject(r)
  BY <1>2 DEF Start, Reject, Fail, TInv, TypeOK
<1>3. CASE ClaimInplace(r) \/ ClaimSlots(r) \/ ClaimFresh(r) \/ ClaimError(r)
  BY <1>3 DEF ClaimInplace, ClaimSlots, ClaimFresh, ClaimError, Claimed, Claiming, Fail,
       TInv, TypeOK
<1>4. CASE Join(r) \/ \E w \in DOMAIN work[r] : Compute(r, w) \/ ComputeError(r, w)
  BY <1>4 DEF Compute, ComputeError, Join, TInv, TypeOK
<1>5. CASE Write(r) \/ WriteError(r) \/ Release(r)
  BY <1>5 DEF Write, WriteError, Release, Advance, Fail, TInv, TypeOK
<1>6. CASE Finish(r) \/ FinishError(r)
  BY <1>6 DEF Finish, FinishError, Finished, TInv, TypeOK
<1> QED
  BY <1>1, <1>2, <1>3, <1>4, <1>5, <1>6 DEF Step

(* An answer is the denoted one.                                            *)
LEMMA AnswerIs ==
  ASSUME AInv
  PROVE  AnswerNow = [r \in Run |-> IF pc[r] # "done" THEN <<>>
                                      ELSE [n \in OutputSet(g) |-> Env(r)[g.n][n]]]
<1>1. ASSUME NEW r \in Run, pc[r] = "done"
      PROVE  [n \in OutputSet(g) |-> ValueOf(r, n)] = [n \in OutputSet(g) |-> Env(r)[g.n][n]]
  BY <1>1 DEF AInv, ValueInv, Answered
<1> QED
  BY <1>1 DEF AnswerNow

(* Every step begins, answers or gives up one run, or is none of the        *)
(* promise's business.                                                      *)
LEMMA PromiseStep ==
  ASSUME TInv, AInv, AInv', [Next]_vars
  PROVE  [Promise!Next]_Promise!vars
<1> DEFINE Deno(r) == [n \in OutputSet(g) |-> Env(r)[g.n][n]]
<1>1. AnswerNow = [r \in Run |-> IF pc[r] # "done" THEN <<>> ELSE Deno(r)]
  BY AnswerIs
<1>2. AnswerNow' = [r \in Run |-> IF pc'[r] # "done" THEN <<>> ELSE Deno(r)']
  <2>1. ASSUME NEW r \in Run, pc'[r] = "done"
        PROVE  [n \in OutputSet(g) |-> ValueOf(r, n)]' = Deno(r)'
    BY <2>1 DEF AInv, ValueInv, Answered
  <2> HIDE DEF Deno
  <2> QED
    BY <2>1 DEF AnswerNow
<1>3. CASE UNCHANGED vars
  BY <1>3 DEF vars, Promise!vars, ValueOf, Held, OutputSet, NoValue, WeightValue
<1>4. CASE Next
  <2>1. PICK r \in Run : Start(r) \/ Reject(r) \/ Step(r)
    BY <1>4 DEF Next
  <2>2. /\ UNCHANGED g /\ \A s \in Run \ {r} : pc'[s] = pc[s]
        /\ \/ pc[r] = "idle" /\ pc'[r] = "claim"
           \/ Active(r) /\ pc'[r] = "done"
           \/ pc[r] \notin {"done", "failed"} /\ pc'[r] = "failed"
           \/ Active(r) /\ Active(r)'
    BY <1>4, <2>1, StepStatus
  <2>3. \A s \in Run : Deno(s)' = Deno(s)
    <3>1. \A s \in Run : Env(s)' = Env(s)
      BY <2>2, EnvSame
    <3> QED
      BY <2>2, <3>1
  <2> HIDE DEF Deno
  <2>4. ASSUME pc[r] # "done", pc'[r] # "done" PROVE AnswerNow' = AnswerNow
    BY <1>1, <1>2, <2>2, <2>3, <2>4
  <2>5. CASE pc[r] = "idle" /\ pc'[r] = "claim"
    <3>1. StatusNow' = [StatusNow EXCEPT ![r] = "running"] /\ StatusNow[r] = "idle"
      BY <2>2, <2>5 DEF StatusNow
    <3>2. AnswerNow' = AnswerNow
      BY <2>4, <2>5
    <3>3. Promise!Begin(r)
      BY <2>2, <3>1, <3>2 DEF Promise!Begin, StatusNow, AnswerNow
    <3> QED
      BY <3>3 DEF Promise!Next
  <2>6. CASE Active(r) /\ pc'[r] = "done"
    <3>1. StatusNow' = [StatusNow EXCEPT ![r] = "done"] /\ StatusNow[r] = "running"
      BY <2>2, <2>6 DEF StatusNow, Active
    <3>2. AnswerNow' = [AnswerNow EXCEPT ![r] = Deno(r)]
      BY <1>1, <1>2, <2>2, <2>3, <2>6 DEF Active
    <3>3. Deno(r) = [n \in OutputSet(g) |-> Promise!Denotation(r)[n]]
      BY EnvIs DEF Deno, TInv
    <3>4. Promise!OutputSet(g) = OutputSet(g)
      BY DEF OutputSet, Promise!OutputSet
    <3>5. Promise!Return(r)
      BY <2>2, <3>1, <3>2, <3>3, <3>4 DEF Promise!Return, StatusNow, AnswerNow
    <3> QED
      BY <3>5 DEF Promise!Next
  <2>7. CASE pc[r] \notin {"done", "failed"} /\ pc'[r] = "failed"
    <3>1. /\ StatusNow' = [StatusNow EXCEPT ![r] = "failed"]
          /\ StatusNow[r] \in {"idle", "running"}
      BY <2>2, <2>7 DEF StatusNow
    <3>2. AnswerNow' = AnswerNow
      BY <2>4, <2>7
    <3>3. Promise!GiveUp(r)
      BY <2>2, <3>1, <3>2 DEF Promise!GiveUp, StatusNow, AnswerNow
    <3> QED
      BY <3>3 DEF Promise!Next
  <2>8. CASE Active(r) /\ Active(r)'
    <3>1. StatusNow' = StatusNow
      BY <2>2, <2>8 DEF StatusNow, Active
    <3>2. AnswerNow' = AnswerNow
      BY <2>4, <2>8 DEF Active
    <3> QED
      BY <2>2, <3>1, <3>2 DEF Promise!vars, StatusNow, AnswerNow
  <2> QED
    BY <2>2, <2>5, <2>6, <2>7, <2>8
<1> QED
  BY <1>3, <1>4

(* The sequential schedules, whose batches are the nodes in sorted order,   *)
(* keep the order whatever the graph.                                       *)
LEMMA SequentialKeepsOrder ==
  ASSUME NEW s \in Sessions,
         \A p, q \in Positions(s) : NodeAt(s, p) < NodeAt(s, q) => p[1] < q[1]
  PROVE  KeepsOrder(s)
<1>1. \A p \in Positions(s) : p[1] \in Nat
  BY BatchType DEF Positions
<1> QED
  BY <1>1 DEF KeepsOrder

(* So do batches that go by depth, if a node is deeper than those before it *)
(* that store what it uses, and no name is stored twice or after its use.   *)
LEMMA LevelsKeepOrder ==
  ASSUME NEW s \in Sessions, NEW depth,
         \A p, q \in Positions(s) : depth[NodeAt(s, p)] < depth[NodeAt(s, q)] => p[1] < q[1],
         \A i, j \in Nodes(s) : \A n \in Name : i < j /\ Results(s, i, n) # {} =>
           /\ Uses(s, j, n) # {} => depth[i] < depth[j]
           /\ Results(s, j, n) = {},
         \A i, j \in Nodes(s) : \A n \in Name :
           i < j /\ Uses(s, i, n) # {} => Results(s, j, n) = {}
  PROVE  KeepsOrder(s)
<1>1. \A p \in Positions(s) : NodeAt(s, p) \in Nodes(s)
  BY SessionsAssumption, BatchType, ElementOfSeq DEF Positions, NodeAt, IsSession, IsSchedule
<1> QED
  BY <1>1 DEF KeepsOrder

(* Every call of Session::run fails or answers with what the graph denotes  *)
(* for its own inputs, and the answer never changes: whatever the runs that *)
(* share the session do with the buffers of its pool, whichever fast path   *)
(* each node takes, and in whatever order a level is computed, provided the *)
(* schedule keeps the sorted order of the nodes that share a name.          *)
THEOREM AnswersCorrect ==
  ASSUME \A s \in Sessions : KeepsOrder(s)
  PROVE  Spec => AnswersDenotation
<1>1. Init => Promise!Init
  BY DEF Init, Promise!Init
<1>2. TInv /\ AInv /\ AInv' /\ [Next]_vars => [Promise!Next]_Promise!vars
  BY PromiseStep
<1> QED
  BY <1>1, <1>2, TInvCorrect, AInvCorrect, PTL DEF Spec, AnswersDenotation, Promise!Spec
=============================================================================
