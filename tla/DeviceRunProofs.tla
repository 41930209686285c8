-------------------------- MODULE DeviceRunProofs --------------------------
(***************************************************************************)
(* Theorems about DeviceRun, for every set of runs, every set of device    *)
(* sessions and every amount of device memory: who owns a buffer, for how  *)
(* long a value stays on the device, and that where values live does not   *)
(* show in what a run answers.                                             *)
(***************************************************************************)
EXTENDS DeviceRun, FiniteSetTheorems, SequenceTheorems, WellFoundedInduction, TLAPS

(* Where a run is; one that has not begun holds nothing on the device.      *)
CursorOf(r) ==
  /\ Active(r) => node[r] \in 1 .. g.n + 1
  /\ pc[r] = "close" => node[r] <= g.n
  /\ pc[r] = "idle" => node[r] = 1 /\ \A n \in Name : ~OnDevice(r, n)
Cursor == \A r \in Run : CursorOf(r)

TInv == TypeOK /\ Cursor

-----------------------------------------------------------------------------
(* Sessions and entries.                                                    *)

LEMMA SessionType ==
  ASSUME NEW s \in Sessions
  PROVE  /\ IsGraph(s) /\ IsDeviceSession(s)
         /\ s.n \in Nat
         /\ \A i \in Nodes(s) :
              /\ i \in Nat /\ i >= 1 /\ i <= s.n
              /\ s.ins[i] \in Seq(Name \cup {NoName}) /\ Len(s.ins[i]) \in Nat
              /\ DOMAIN s.ins[i] = 1 .. Len(s.ins[i])
              /\ \A k \in DOMAIN s.ins[i] : s.ins[i][k] \in Name \cup {NoName} /\ k \in Nat
              /\ s.outs[i] \in Seq(Name \cup {NoName}) /\ Len(s.outs[i]) \in Nat
              /\ DOMAIN s.outs[i] = 1 .. Len(s.outs[i])
              /\ \A k \in DOMAIN s.outs[i] : s.outs[i][k] \in Name \cup {NoName} /\ k \in Nat
              /\ s.caps[i] \subseteq Name
              /\ s.chain[i] \in Seq(Accelerators) /\ Len(s.chain[i]) \in Nat
         /\ OutputSet(s) \subseteq Name
         /\ s.weights \subseteq Name
<1>1. IsGraph(s) /\ IsDeviceSession(s)
  BY DeviceSessions DEF IsDeviceSession
<1>2. s.n \in Nat /\ s.outputs \in Seq(Name) /\ s.weights \subseteq Name
  BY <1>1 DEF IsGraph
<1>3. ASSUME NEW k \in DOMAIN s.outputs PROVE s.outputs[k] \in Name
  BY <1>2, ElementOfSeq, LenProperties
<1>4. ASSUME NEW i \in Nodes(s)
      PROVE  /\ i \in Nat /\ i >= 1 /\ i <= s.n
             /\ s.ins[i] \in Seq(Name \cup {NoName})
             /\ s.outs[i] \in Seq(Name \cup {NoName})
             /\ s.caps[i] \subseteq Name
             /\ s.chain[i] \in Seq(Accelerators)
  <2>1. i \in Nat /\ i >= 1 /\ i <= s.n
    BY <1>2 DEF Nodes
  <2>2. /\ s.ins[i] \in Seq(Name \cup {NoName}) /\ s.outs[i] \in Seq(Name \cup {NoName})
        /\ s.caps[i] \subseteq Name
    BY <1>1 DEF IsGraph
  <2>3. s.chain[i] \in Seq(Accelerators)
    BY <1>1 DEF IsDeviceSession
  <2> QED
    BY <2>1, <2>2, <2>3
<1>5. ASSUME NEW q \in Seq(Name \cup {NoName})
      PROVE  /\ Len(q) \in Nat /\ DOMAIN q = 1 .. Len(q)
             /\ \A k \in DOMAIN q : q[k] \in Name \cup {NoName} /\ k \in Nat
  BY ElementOfSeq, LenProperties
<1>6. \A q \in Seq(Accelerators) : Len(q) \in Nat
  BY LenProperties
<1>7. OutputSet(s) \subseteq Name
  BY <1>3 DEF OutputSet
<1> QED
  BY <1>1, <1>2, <1>4, <1>5, <1>6, <1>7

(* The entries of an operand that was uploaded and of a node's result.      *)
Uploaded(b, v) == [buf |-> b, bytes |-> v, val |-> v, produced |-> FALSE]
Computed(b, v, w) == [buf |-> b, bytes |-> v, val |-> w, produced |-> TRUE]

LEMMA EntryIs ==
  ASSUME NEW b \in Buffer, NEW v, NEW w
  PROVE  /\ Uploaded(b, v) # NoBinding /\ IsBinding(Uploaded(b, v))
         /\ Uploaded(b, v).buf = b /\ Uploaded(b, v).bytes = v /\ Uploaded(b, v).val = v
         /\ ~Uploaded(b, v).produced
         /\ Computed(b, v, w) # NoBinding /\ IsBinding(Computed(b, v, w))
         /\ Computed(b, v, w).buf = b /\ Computed(b, v, w).bytes = v /\ Computed(b, v, w).val = w
         /\ Computed(b, v, w).produced
<1>1. b # NoBuffer
  BY NoBufferAssumption
<1>2. Uploaded(b, v) # NoBinding /\ IsBinding(Uploaded(b, v))
  BY <1>1 DEF Uploaded, NoBinding, IsBinding
<1>3. Computed(b, v, w) # NoBinding /\ IsBinding(Computed(b, v, w))
  BY <1>1 DEF Computed, NoBinding, IsBinding
<1> QED
  BY <1>2, <1>3 DEF Uploaded, Computed

LEMMA EntryOf ==
  ASSUME TypeOK, NEW r \in Run, NEW n \in Name, OnDevice(r, n)
  PROVE  device[r][n].buf \in Buffer /\ device[r][n].produced \in BOOLEAN
BY DEF TypeOK, OnDevice, IsBinding

(* One entry is put in place, or replaced.                                  *)
LEMMA EntryPut ==
  ASSUME TypeOK, NEW r \in Run, NEW n \in Name, NEW e, e # NoBinding, IsBinding(e),
         device' = [device EXCEPT ![r][n] = e]
  PROVE  /\ DOMAIN device' = Run
         /\ \A s \in Run : DOMAIN device'[s] = Name /\ \A m \in Name : IsBinding(device'[s][m])
         /\ \A s \in Run \ {r} : device'[s] = device[s]
         /\ \A m \in Name \ {n} : device'[r][m] = device[r][m]
         /\ device'[r][n] = e /\ OnDevice(r, n)'
<1>1. device' = [device EXCEPT ![r] = [device[r] EXCEPT ![n] = e]]
  OBVIOUS
<1>2. DOMAIN device = Run /\ \A s \in Run : DOMAIN device[s] = Name
  BY DEF TypeOK
<1>3. device'[r] = [device[r] EXCEPT ![n] = e] /\ DOMAIN device' = Run
  BY <1>1, <1>2
<1>4. \A s \in Run \ {r} : device'[s] = device[s]
  BY <1>1, <1>2
<1>5. /\ device'[r][n] = e /\ DOMAIN device'[r] = Name
      /\ \A m \in Name \ {n} : device'[r][m] = device[r][m]
  BY <1>2, <1>3
<1>6. ASSUME NEW s \in Run, NEW m \in Name PROVE IsBinding(device'[s][m])
  <2>1. CASE s = r /\ m = n
    BY <1>5, <2>1
  <2>2. CASE s = r /\ m # n
    BY <1>5, <2>2 DEF TypeOK
  <2>3. CASE s # r
    BY <1>4, <2>3 DEF TypeOK
  <2> QED
    BY <2>1, <2>2, <2>3
<1>7. OnDevice(r, n)'
  BY <1>5, NoNameAssumption DEF OnDevice
<1> QED
  BY <1>2, <1>3, <1>4, <1>5, <1>6, <1>7

(* The entries of some names are taken away.                                *)
LEMMA EntriesDropped ==
  ASSUME TypeOK, NEW r \in Run, NEW D \in SUBSET Name,
         device' = [device EXCEPT ![r] = [n \in Name |->
                      IF n \in D THEN NoBinding ELSE device[r][n]]]
  PROVE  /\ DOMAIN device' = Run
         /\ \A s \in Run : DOMAIN device'[s] = Name /\ \A m \in Name : IsBinding(device'[s][m])
         /\ \A s \in Run \ {r} : device'[s] = device[s]
         /\ \A m \in Name \ D : device'[r][m] = device[r][m]
         /\ \A m \in D : ~OnDevice(r, m)'
<1> DEFINE f == [n \in Name |-> IF n \in D THEN NoBinding ELSE device[r][n]]
<1>1. \A m \in Name : f[m] = IF m \in D THEN NoBinding ELSE device[r][m]
  OBVIOUS
<1>2. DOMAIN f = Name
  OBVIOUS
<1>3. device' = [device EXCEPT ![r] = f]
  OBVIOUS
<1> HIDE DEF f
<1>4. /\ DOMAIN device' = Run /\ device'[r] = f
      /\ \A s \in Run \ {r} : device'[s] = device[s]
  BY <1>3 DEF TypeOK
<1>5. \A m \in Name : IsBinding(f[m])
  BY <1>1 DEF TypeOK, IsBinding
<1>6. \A m \in D : ~OnDevice(r, m)'
  BY <1>1, <1>4 DEF OnDevice
<1> QED
  BY <1>1, <1>2, <1>4, <1>5, <1>6 DEF TypeOK

-----------------------------------------------------------------------------
(* Buffers.                                                                 *)

LEMMA BoundType ==
  ASSUME TypeOK, NEW r \in Run
  PROVE  /\ BoundBy(r) \subseteq Buffer
         /\ \A names \in SUBSET Name, kept \in SUBSET Name :
              /\ Disposed(r, names, kept) \subseteq BoundBy(r)
              /\ \A b \in Disposed(r, names, kept) : \A n \in kept :
                   OnDevice(r, n) => device[r][n].buf # b
<1>1. BoundBy(r) \subseteq Buffer
  BY EntryOf DEF BoundBy
<1> QED
  BY <1>1 DEF BoundBy, Disposed

LEMMA AllocationType ==
  ASSUME TypeOK, NEW b \in Allocations
  PROVE  b \in Buffer /\ (b \in spare \/ b \notin live)
<1>1. CASE live = Buffer
  BY <1>1 DEF Allocations, TypeOK
<1>2. CASE live # Buffer
  <2>1. \E c \in Buffer : c \notin live
    BY <1>2 DEF TypeOK
  <2>2. (CHOOSE c \in Buffer : c \notin live) \in Buffer \ live
    BY <2>1
  <2> QED
    BY <1>2, <2>2 DEF Allocations, TypeOK
<1> QED
  BY <1>1, <1>2

(* The pool keeps no more than its bound, whatever is returned to it, and   *)
(* what it does not keep is no longer accounted for.                        *)
LEMMA RecycleType ==
  ASSUME NEW pooled \in SUBSET Buffer, NEW back \in SUBSET Buffer, NEW accounted,
         Recycle(pooled, back, accounted)
  PROVE  /\ spare' \subseteq pooled \cup back
         /\ Cardinality(spare') <= MaxSpare
         /\ live' = accounted \ ((pooled \cup back) \ spare')
<1> DEFINE all == pooled \cup back
<1>1. PICK keep \in SUBSET all :
        /\ Cardinality(keep) <= MaxSpare
        /\ spare' = keep
        /\ live' = accounted \ (all \ keep)
  BY DEF Recycle
<1> QED
  BY <1>1

(* What reclaiming takes from the pool is accounted for no longer, and      *)
(* nothing else changes.                                                    *)
LEMMA ReclaimIs ==
  ASSUME TypeOK, NEW r \in Run, Reclaim(r)
  PROVE  /\ UNCHANGED <<g, pc, node, tried, host, device, content, cached>>
         /\ pc[r] = "offer" /\ node[r] <= g.n
         /\ spare' \subseteq spare /\ Cardinality(spare') <= MaxSpare
         /\ live' = live \ (spare \ spare')
<1>1. Recycle(spare, {}, live)
  BY DEF Reclaim
<1>2. spare \in SUBSET Buffer /\ {} \in SUBSET Buffer
  BY DEF TypeOK
<1>3. /\ spare' \subseteq spare \cup {} /\ Cardinality(spare') <= MaxSpare
      /\ live' = live \ ((spare \cup {}) \ spare')
  BY <1>1, <1>2, RecycleType
<1> QED
  BY <1>3 DEF Reclaim, Offered, OnHost

(* The buffers of the other entries, and what goes back when one leaves.    *)
Beside(r, n) == {device[r][m].buf : m \in {l \in Name \ {n} : OnDevice(r, l)}}
Left(r, n) == Disposed(r, {n}, Name \ {n})

(* What the result in buffer b displaces goes back, unless a view keeps it. *)
LEMMA DisplacingType ==
  ASSUME TypeOK, NEW r \in Run, NEW n \in Name, NEW b \in Buffer, NEW accounted,
         Displacing(r, n, b, accounted)
  PROVE  /\ Left(r, n) \subseteq BoundBy(r) /\ Left(r, n) \subseteq Buffer
         /\ \A m \in Name \ {n} : OnDevice(r, m) => device[r][m].buf \notin Left(r, n)
         /\ spare' \subseteq (spare \ {b}) \cup (Left(r, n) \ {b})
         /\ spare' \subseteq Buffer
         /\ Cardinality(spare') <= MaxSpare
         /\ live' = accounted \ (((spare \ {b}) \cup (Left(r, n) \ {b})) \ spare')
         /\ live' \subseteq accounted
<1>1. /\ Left(r, n) \subseteq BoundBy(r) /\ Left(r, n) \subseteq Buffer
      /\ \A m \in Name \ {n} : OnDevice(r, m) => device[r][m].buf \notin Left(r, n)
  BY BoundType DEF Left
<1>2. Recycle(spare \ {b}, Left(r, n) \ {b}, accounted)
  BY DEF Displacing, Left
<1>3. spare \ {b} \in SUBSET Buffer /\ Left(r, n) \ {b} \in SUBSET Buffer
  BY <1>1 DEF TypeOK
<1>4. /\ spare' \subseteq (spare \ {b}) \cup (Left(r, n) \ {b})
      /\ Cardinality(spare') <= MaxSpare
      /\ live' = accounted \ (((spare \ {b}) \cup (Left(r, n) \ {b})) \ spare')
  BY <1>2, <1>3, RecycleType
<1>5. spare' \subseteq Buffer
  BY <1>3, <1>4
<1>6. live' \subseteq accounted
  BY <1>4
<1> QED
  BY <1>1, <1>4, <1>5, <1>6

LEMMA SpareLess ==
  ASSUME TypeOK, NEW b
  PROVE  spare \ {b} \subseteq Buffer /\ Cardinality(spare \ {b}) <= MaxSpare
<1>1. IsFiniteSet(spare) /\ spare \ {b} \subseteq spare
  BY BufferAssumption, FS_Subset DEF TypeOK
<1>2. Cardinality(spare \ {b}) <= Cardinality(spare)
  BY <1>1, FS_Subset
<1>3. Cardinality(spare \ {b}) \in Nat /\ Cardinality(spare) \in Nat /\ MaxSpare \in Nat
  BY <1>1, FS_Subset, FS_CardinalityType, BufferAssumption
<1> QED
  BY <1>1, <1>2, <1>3 DEF TypeOK

-----------------------------------------------------------------------------
(* What the steps do to the entries of their run.                           *)

LEMMA OfferedNode ==
  ASSUME TypeOK, NEW r \in Run, pc[r] = "offer", node[r] <= g.n
  PROVE  node[r] \in Nodes(g) /\ node[r] \in Nat /\ node[r] >= 1
<1>1. node[r] \in Nat \ {0} /\ g.n \in Nat
  BY SessionType DEF TypeOK
<1> QED
  BY <1>1 DEF Nodes

LEMMA KeptName ==
  ASSUME TypeOK, NEW i \in Nodes(g), Keeps(i)
  PROVE  g.outs[i][1] \in Name /\ 1 \in DOMAIN g.outs[i] /\ MayKeep(g, g.outs[i][1])
<1>1. /\ DOMAIN g.outs[i] = 1 .. Len(g.outs[i])
      /\ \A k \in DOMAIN g.outs[i] : g.outs[i][k] \in Name \cup {NoName}
  BY SessionType DEF TypeOK
<1>2. Len(g.outs[i]) = 1 /\ g.outs[i][1] # NoName /\ MayKeep(g, g.outs[i][1])
  BY DEF Keeps
<1>3. 1 \in DOMAIN g.outs[i]
  BY <1>1, <1>2
<1> QED
  BY <1>1, <1>2, <1>3

(* A host operand is uploaded to a buffer of its own.                       *)
LEMMA PromoteIs ==
  ASSUME TypeOK, NEW r \in Run, Promote(r)
  PROVE  /\ node[r] \in Nodes(g) /\ pc[r] = "offer"
         /\ \E n \in Name, b \in Allocations :
              /\ MayPromote(g, node[r], n)
              /\ Uses(g, node[r], n) # {}
              /\ ~OnDevice(r, n) /\ HostValue(r, n) # NoValue
              /\ device' = [device EXCEPT ![r][n] = Uploaded(b, HostValue(r, n))]
              /\ content' = [content EXCEPT ![b] = HostValue(r, n)]
              /\ live' = live \cup {b}
              /\ spare' = spare \ {b}
         /\ UNCHANGED <<g, pc, node, tried, host, cached>>
<1> DEFINE i == node[r]
<1>1. i \in Nodes(g) /\ pc[r] = "offer"
  BY OfferedNode DEF Promote, Offered
<1>2. PICK k \in g.accepts[i] \cap DOMAIN g.ins[i] :
        LET n == g.ins[i][k]
            v == HostValue(r, n)
        IN /\ ~OnDevice(r, n) /\ v # NoValue
           /\ \E b \in Allocations :
                /\ Allocate(b, v)
                /\ spare' = spare \ {b}
                /\ device' = [device EXCEPT ![r][n] =
                     [buf |-> b, bytes |-> v, val |-> v, produced |-> FALSE]]
  BY DEF Promote
<1> DEFINE n == g.ins[i][k]
<1>3. PICK b \in Allocations :
        /\ Allocate(b, HostValue(r, n))
        /\ spare' = spare \ {b}
        /\ device' = [device EXCEPT ![r][n] = Uploaded(b, HostValue(r, n))]
  BY <1>2 DEF Uploaded
<1>4. n \in Name
  <2>1. n \in Name \cup {NoName}
    BY <1>1, SessionType DEF TypeOK
  <2>2. HostValue(r, n) # NoValue
    BY <1>2
  <2> QED
    BY <2>1, <2>2 DEF HostValue
<1>5. MayPromote(g, i, n) /\ Uses(g, i, n) # {}
  <2>1. i \in g.promotes
    BY DEF Promote
  <2> QED
    BY <2>1 DEF MayPromote, Uses
<1>6. UNCHANGED <<g, pc, node, tried, host, cached>>
  BY DEF Promote
<1> HIDE DEF n
<1> QED
  BY <1>1, <1>2, <1>3, <1>4, <1>5, <1>6 DEF Allocate, n

(* A result is left in a buffer of its own.                                 *)
LEMMA DispatchDeviceIs ==
  ASSUME TypeOK, NEW r \in Run, DispatchDevice(r)
  PROVE  LET i == node[r]
             n == g.outs[i][1]
             v == KernelResult(r, i, 1)
         IN /\ i \in Nodes(g) /\ pc[r] = "offer" /\ n \in Name /\ i \in g.placed
            /\ MayKeep(g, n) /\ Runnable(r, i) /\ 1 \in DOMAIN g.outs[i]
            /\ \E b \in Allocations :
                 /\ content' = [content EXCEPT ![b] = v]
                 /\ device' = [device EXCEPT ![r][n] = Computed(b, v, v)]
                 /\ Displacing(r, n, b, live \cup {b})
            /\ Keyed(r, i)
            /\ pc' = [pc EXCEPT ![r] = "close"]
            /\ UNCHANGED <<g, node, tried, host>>
<1>1. node[r] \in Nodes(g) /\ pc[r] = "offer"
  BY OfferedNode DEF DispatchDevice, Offered
<1>2. Keeps(node[r])
  BY DEF DispatchDevice
<1>3. g.outs[node[r]][1] \in Name /\ 1 \in DOMAIN g.outs[node[r]] /\ MayKeep(g, g.outs[node[r]][1])
  BY <1>1, <1>2, KeptName
<1> QED
  BY <1>1, <1>3 DEF DispatchDevice, Computed

(* A result is a view of the buffer of the first operand.                   *)
LEMMA DispatchViewIs ==
  ASSUME TypeOK, NEW r \in Run, DispatchView(r)
  PROVE  LET i == node[r]
             n == g.outs[i][1]
             m == g.ins[i][1]
             a == device[r][m]
         IN /\ i \in Nodes(g) /\ pc[r] = "offer" /\ n \in Name /\ i \in g.views
            /\ MayKeep(g, n) /\ Runnable(r, i) /\ 1 \in DOMAIN g.outs[i]
            /\ m \in Name /\ OnDevice(r, m)
            /\ device' = [device EXCEPT ![r][n] = Computed(a.buf, a.bytes, KernelResult(r, i, 1))]
            /\ Displacing(r, n, a.buf, live)
            /\ pc' = [pc EXCEPT ![r] = "close"]
            /\ UNCHANGED <<g, node, tried, host, content, cached>>
<1>1. node[r] \in Nodes(g) /\ pc[r] = "offer"
  BY OfferedNode DEF DispatchView, Offered
<1>2. Keeps(node[r])
  BY DEF DispatchView
<1>3. g.outs[node[r]][1] \in Name /\ 1 \in DOMAIN g.outs[node[r]] /\ MayKeep(g, g.outs[node[r]][1])
  BY <1>1, <1>2, KeptName
<1>4. Accelerator(r) = "cuda"
  BY DEF DispatchView, Offered
<1>5. OnDevice(r, g.ins[node[r]][1])
  BY <1>4 DEF DispatchView, Runnable
<1>6. g.ins[node[r]][1] \in Name
  <2>1. node[r] \in g.views
    BY DEF DispatchView
  <2>2. g.ins[node[r]] # <<>> /\ g.ins[node[r]] \in Seq(Name \cup {NoName})
    BY <1>1, <2>1, SessionType DEF TypeOK, IsDeviceSession
  <2>3. 1 \in DOMAIN g.ins[node[r]]
    BY <2>2
  <2>4. g.ins[node[r]][1] \in Name \cup {NoName}
    BY <1>1, <2>3, SessionType DEF TypeOK
  <2> QED
    BY <1>5, <2>4 DEF OnDevice
<1> QED
  BY <1>1, <1>3, <1>5, <1>6 DEF DispatchView, Computed

-----------------------------------------------------------------------------
(* Types.                                                                   *)

LEMMA KeyedType ==
  ASSUME TypeOK, NEW r \in Run, NEW i, Keyed(r, i)
  PROVE  \A n \in Name : cached'[n] \in {NoValue, WeightValue(n)}
<1> SUFFICES ASSUME NEW n \in Name PROVE cached'[n] \in {NoValue, WeightValue(n)}
  OBVIOUS
<1>1. cached'[n] = cached[n] \/ (Key(r, n) /\ cached'[n] = HostValue(r, n))
  BY DEF Keyed
<1>2. Key(r, n) => HostValue(r, n) = WeightValue(n)
  BY NoNameAssumption DEF Key, HostValue
<1> QED
  BY <1>1, <1>2 DEF TypeOK

(* The other runs are where they were.                                      *)
LEMMA OthersUntouched ==
  ASSUME TypeOK, NEW r \in Run, Start(r) \/ Reject(r) \/ Step(r) \/ StepError(r)
  PROVE  /\ UNCHANGED g
         /\ \A s \in Run \ {r} :
              /\ pc'[s] = pc[s] /\ node'[s] = node[s]
              /\ host'[s] = host[s] /\ device'[s] = device[s]
<1> USE DEF TypeOK
<1>1. CASE Start(r) \/ Reject(r) \/ StepError(r)
  BY <1>1 DEF Start, Reject, StepError, DispatchError, ReadBackError, HostError, Fail
<1>2. CASE Promote(r)
  <2>1. PICK n \in Name, b \in Allocations :
          device' = [device EXCEPT ![r][n] = Uploaded(b, HostValue(r, n))]
    BY <1>2, PromoteIs
  <2> QED
    BY <1>2, <2>1, EntryIs, EntryPut, AllocationType DEF Promote
<1>3. CASE DispatchDevice(r)
  BY <1>3 DEF DispatchDevice
<1>4. CASE DispatchView(r)
  BY <1>4 DEF DispatchView
<1>5. CASE DispatchHost(r) \/ Decline(r) \/ ReadBack(r) \/ HostCompute(r)
  BY <1>5 DEF DispatchHost, Decline, ReadBack, HostCompute
<1>6. CASE Close(r) \/ Finish(r)
  BY <1>6 DEF Close, Finish
<1>7. CASE Reclaim(r)
  BY <1>7 DEF Reclaim
<1> QED
  BY <1>1, <1>2, <1>3, <1>4, <1>5, <1>6, <1>7 DEF Step

(* The phases a run goes through.                                           *)
LEMMA StepPhase ==
  ASSUME TInv, NEW r \in Run, Start(r) \/ Reject(r) \/ Step(r) \/ StepError(r)
  PROVE  /\ pc' \in [Run -> {"idle", "offer", "close", "done", "failed"}]
         /\ node' \in [Run -> Nat \ {0}]
         /\ tried' \in [Run -> Nat]
         /\ \/ pc[r] = "idle" /\ pc'[r] = "offer" /\ node'[r] = node[r]
            \/ pc[r] = "offer" /\ pc'[r] = "offer" /\ node'[r] = node[r] /\ node[r] <= g.n
            \/ pc[r] = "offer" /\ pc'[r] = "close" /\ node'[r] = node[r] /\ node[r] <= g.n
            \/ pc[r] = "close" /\ pc'[r] = "offer" /\ node'[r] = node[r] + 1
            \/ pc[r] = "offer" /\ pc'[r] = "done" /\ node'[r] = node[r] /\ node[r] = g.n + 1
            \/ pc[r] \in {"idle", "offer"} /\ pc'[r] = "failed" /\ node'[r] = node[r]
<1>1. /\ pc \in [Run -> {"idle", "offer", "close", "done", "failed"}]
      /\ node \in [Run -> Nat \ {0}] /\ tried \in [Run -> Nat]
  BY DEF TInv, TypeOK
<1>2. CASE Start(r) \/ Reject(r) \/ StepError(r)
  BY <1>1, <1>2 DEF Start, Reject, StepError, DispatchError, ReadBackError, HostError, Fail,
     Offered, OnHost
<1>3. CASE Promote(r)
  <2>1. pc[r] = "offer" /\ node[r] <= g.n /\ UNCHANGED <<pc, node, tried>>
    BY <1>3 DEF Promote, Offered
  <2> QED
    BY <1>1, <2>1
<1>4. CASE Decline(r)
  <2>1. /\ pc[r] = "offer" /\ node[r] <= g.n
        /\ tried' = [tried EXCEPT ![r] = @ + 1] /\ UNCHANGED <<pc, node>>
    BY <1>4 DEF Decline, Offered
  <2> QED
    BY <1>1, <2>1
<1>5. CASE DispatchHost(r)
  <2>1. /\ pc[r] = "offer" /\ node[r] <= g.n
        /\ pc' = [pc EXCEPT ![r] = "close"] /\ UNCHANGED <<node, tried>>
    BY <1>5 DEF DispatchHost, Offered
  <2> QED
    BY <1>1, <2>1
<1>6. CASE DispatchDevice(r)
  <2>1. /\ pc[r] = "offer" /\ node[r] <= g.n
        /\ pc' = [pc EXCEPT ![r] = "close"] /\ UNCHANGED <<node, tried>>
    BY <1>6 DEF DispatchDevice, Offered
  <2> QED
    BY <1>1, <2>1
<1>7. CASE DispatchView(r)
  <2>1. /\ pc[r] = "offer" /\ node[r] <= g.n
        /\ pc' = [pc EXCEPT ![r] = "close"] /\ UNCHANGED <<node, tried>>
    BY <1>7 DEF DispatchView, Offered
  <2> QED
    BY <1>1, <2>1
<1>8. CASE ReadBack(r) \/ HostCompute(r)
  BY <1>1, <1>8 DEF ReadBack, HostCompute, OnHost
<1>9. CASE Close(r)
  BY <1>1, <1>9 DEF Close
<1>10. CASE Finish(r)
  BY <1>1, <1>10 DEF Finish
<1>11. CASE Reclaim(r)
  <2>1. pc[r] = "offer" /\ node[r] <= g.n /\ UNCHANGED <<pc, node, tried>>
    BY <1>11, ReclaimIs DEF TInv
  <2> QED
    BY <1>1, <2>1
<1> QED
  BY <1>2, <1>3, <1>4, <1>5, <1>6, <1>7, <1>8, <1>9, <1>10, <1>11 DEF Step

(* The entries, the buffers and the cache keep their types.                 *)
LEMMA StepMemoryType ==
  ASSUME TypeOK, NEW r \in Run, Start(r) \/ Reject(r) \/ Step(r) \/ StepError(r)
  PROVE  /\ DOMAIN device' = Run
         /\ \A s \in Run : DOMAIN device'[s] = Name /\ \A n \in Name : IsBinding(device'[s][n])
         /\ DOMAIN content' = Buffer
         /\ live' \subseteq Buffer
         /\ spare' \subseteq Buffer /\ Cardinality(spare') <= MaxSpare
         /\ \A n \in Name : cached'[n] \in {NoValue, WeightValue(n)}
<1> DEFINE G ==
      /\ DOMAIN device' = Run
      /\ \A s \in Run : DOMAIN device'[s] = Name /\ \A n \in Name : IsBinding(device'[s][n])
      /\ DOMAIN content' = Buffer
      /\ live' \subseteq Buffer
      /\ spare' \subseteq Buffer /\ Cardinality(spare') <= MaxSpare
      /\ \A n \in Name : cached'[n] \in {NoValue, WeightValue(n)}
<1>1. CASE Start(r) \/ Decline(r) \/ ReadBack(r) \/ HostCompute(r)
  BY <1>1 DEF Start, Decline, ReadBack, HostCompute, memory, TypeOK
<1>2. CASE Fail(r)
  <2>1. device' = [device EXCEPT ![r] = [n \in Name |->
          IF n \in Name THEN NoBinding ELSE device[r][n]]]
    BY <1>2 DEF Fail
  <2>2. /\ DOMAIN device' = Run
        /\ \A s \in Run : DOMAIN device'[s] = Name /\ \A n \in Name : IsBinding(device'[s][n])
    BY <2>1, EntriesDropped
  <2> QED
    BY <1>2, <2>2 DEF Fail, TypeOK
<1>3. CASE Finish(r)
  <2>1. device' = [device EXCEPT ![r] = [n \in Name |->
          IF n \in Name THEN NoBinding ELSE device[r][n]]]
    BY <1>3 DEF Finish
  <2>2. /\ DOMAIN device' = Run
        /\ \A s \in Run : DOMAIN device'[s] = Name /\ \A n \in Name : IsBinding(device'[s][n])
    BY <2>1, EntriesDropped
  <2> QED
    BY <1>3, <2>2 DEF Finish, TypeOK
<1>4. CASE Promote(r)
  <2>1. PICK n \in Name, b \in Allocations :
          /\ device' = [device EXCEPT ![r][n] = Uploaded(b, HostValue(r, n))]
          /\ content' = [content EXCEPT ![b] = HostValue(r, n)]
          /\ live' = live \cup {b}
          /\ spare' = spare \ {b}
    BY <1>4, PromoteIs
  <2>2. b \in Buffer
    BY AllocationType
  <2>3. cached' = cached
    BY <1>4 DEF Promote
  <2> QED
    BY ZenonT(40), <2>1, <2>2, <2>3, EntryIs, EntryPut, SpareLess DEF TypeOK
<1>5. CASE DispatchDevice(r)
  <2> DEFINE i == node[r]
             n == g.outs[i][1]
             v == KernelResult(r, i, 1)
  <2>1. n \in Name /\ Keyed(r, i)
    BY <1>5, DispatchDeviceIs
  <2>2. PICK b \in Allocations :
          /\ content' = [content EXCEPT ![b] = v]
          /\ device' = [device EXCEPT ![r][n] = Computed(b, v, v)]
          /\ Displacing(r, n, b, live \cup {b})
    BY <1>5, DispatchDeviceIs
  <2> HIDE DEF n, v
  <2>3. b \in Buffer
    BY AllocationType
  <2>6. spare' \subseteq Buffer /\ Cardinality(spare') <= MaxSpare /\ live' \subseteq live \cup {b}
    BY <2>1, <2>2, <2>3, DisplacingType
  <2>7. /\ DOMAIN device' = Run
        /\ \A s \in Run : DOMAIN device'[s] = Name /\ \A m \in Name : IsBinding(device'[s][m])
    BY ZenonT(40), <2>1, <2>2, <2>3, EntryIs, EntryPut
  <2> QED
    BY <2>1, <2>2, <2>3, <2>6, <2>7, KeyedType DEF TypeOK
<1>6. CASE DispatchView(r)
  <2> DEFINE i == node[r]
             n == g.outs[i][1]
             a == device[r][g.ins[i][1]]
  <2>1. /\ n \in Name /\ UNCHANGED <<content, cached>>
        /\ device' = [device EXCEPT ![r][n] = Computed(a.buf, a.bytes, KernelResult(r, i, 1))]
        /\ Displacing(r, n, a.buf, live)
    BY <1>6, DispatchViewIs
  <2>2. a.buf \in Buffer
    BY <1>6, DispatchViewIs, EntryOf
  <2> HIDE DEF n, a
  <2>5. spare' \subseteq Buffer /\ Cardinality(spare') <= MaxSpare /\ live' \subseteq live
    BY <2>1, <2>2, DisplacingType
  <2>6. /\ DOMAIN device' = Run
        /\ \A s \in Run : DOMAIN device'[s] = Name /\ \A m \in Name : IsBinding(device'[s][m])
    BY ZenonT(40), <2>1, <2>2, EntryIs, EntryPut
  <2> QED
    BY <2>1, <2>5, <2>6 DEF TypeOK
<1>7. CASE DispatchHost(r)
  <2>1. Keyed(r, node[r]) /\ UNCHANGED <<device, content, live, spare>>
    BY <1>7 DEF DispatchHost, memory
  <2> QED
    BY <2>1, KeyedType DEF TypeOK
<1>8. CASE Close(r)
  <2> DEFINE doomed == Doomed(r, node[r])
             back == Disposed(r, doomed, Name \ doomed)
  <2>1. doomed \in SUBSET Name
    BY DEF Doomed
  <2>2. /\ device' = [device EXCEPT ![r] = [n \in Name |->
             IF n \in doomed THEN NoBinding ELSE device[r][n]]]
        /\ Recycle(spare, back, live) /\ UNCHANGED <<content, cached>>
    BY <1>8 DEF Close
  <2> HIDE DEF doomed
  <2>3. back \in SUBSET Buffer
    BY <2>1, BoundType
  <2> HIDE DEF back
  <2>4. spare' \subseteq Buffer /\ Cardinality(spare') <= MaxSpare /\ live' \subseteq Buffer
    BY <2>2, <2>3, RecycleType DEF TypeOK
  <2>5. /\ DOMAIN device' = Run
        /\ \A s \in Run : DOMAIN device'[s] = Name /\ \A m \in Name : IsBinding(device'[s][m])
    BY <2>1, <2>2, EntriesDropped
  <2> QED
    BY <2>2, <2>4, <2>5 DEF TypeOK
<1>9. CASE Reclaim(r)
  BY <1>9, ReclaimIs DEF TypeOK
<1> QED
  BY <1>1, <1>2, <1>3, <1>4, <1>5, <1>6, <1>7, <1>8, <1>9 DEF Step, StepError, Reject, DispatchError,
     ReadBackError, HostError

LEMMA StepHostType ==
  ASSUME TypeOK, NEW r \in Run, Start(r) \/ Reject(r) \/ Step(r) \/ StepError(r)
  PROVE  DOMAIN host' = Run /\ \A s \in Run : DOMAIN host'[s] = Name
<1>1. DOMAIN host = Run /\ \A s \in Run : DOMAIN host[s] = Name
  BY DEF TypeOK
<1>2. ASSUME NEW f, DOMAIN f = Name, host' = [host EXCEPT ![r] = f]
      PROVE  DOMAIN host' = Run /\ \A s \in Run : DOMAIN host'[s] = Name
  BY <1>1, <1>2
<1>3. ASSUME UNCHANGED host
      PROVE  DOMAIN host' = Run /\ \A s \in Run : DOMAIN host'[s] = Name
  BY <1>1, <1>3
<1>4. CASE Start(r)
  BY <1>1, <1>4 DEF Start
<1>5. CASE Fail(r)
  BY <1>1, <1>5 DEF Fail
<1>6. CASE Reclaim(r) \/ Promote(r) \/ DispatchDevice(r) \/ DispatchView(r) \/ Decline(r)
  BY <1>3, <1>6 DEF Reclaim, Promote, DispatchDevice, DispatchView, Decline
<1>7. CASE DispatchHost(r)
  <2> DEFINE i == node[r]
             f == [n \in Name |-> IF Results(g, i, n) = {} THEN host[r][n]
                                  ELSE KernelResult(r, i, LastResult(i, n))]
  <2>1. host' = [host EXCEPT ![r] = f]
    BY <1>7 DEF DispatchHost
  <2>2. DOMAIN f = Name
    OBVIOUS
  <2> HIDE DEF f
  <2> QED
    BY <1>2, <2>1, <2>2
<1>8. CASE ReadBack(r)
  <2>1. PICK n : host' = [host EXCEPT ![r][n] = ReadDevice(r, n)]
    BY <1>8 DEF ReadBack
  <2>2. host' = [host EXCEPT ![r] = [host[r] EXCEPT ![n] = ReadDevice(r, n)]]
    BY <2>1
  <2> QED
    BY <1>1, <1>2, <2>2
<1>9. CASE HostCompute(r)
  <2> DEFINE i == node[r]
             f == [n \in Name |->
                    IF Results(g, i, n) = {} THEN host[r][n]
                    ELSE NodeValue(i, LastResult(i, n),
                                   [j \in DOMAIN g.ins[i] |-> HostValue(r, g.ins[i][j])],
                                   {<<m, HostValue(r, m)>> : m \in g.caps[i]})]
  <2>1. host' = [host EXCEPT ![r] = f]
    BY <1>9 DEF HostCompute
  <2>2. DOMAIN f = Name
    OBVIOUS
  <2> HIDE DEF f
  <2> QED
    BY <1>2, <2>1, <2>2
<1>10. CASE Close(r)
  BY <1>1, <1>10 DEF Close
<1>11. CASE Finish(r)
  BY <1>1, <1>11 DEF Finish
<1> QED
  BY <1>4, <1>5, <1>6, <1>7, <1>8, <1>9, <1>10, <1>11 DEF Step, StepError, Reject,
     DispatchError, ReadBackError, HostError

LEMMA StepCursor ==
  ASSUME TInv, NEW r \in Run, Start(r) \/ Reject(r) \/ Step(r) \/ StepError(r)
  PROVE  Cursor'
<1>1. /\ g' = g /\ g.n \in Nat /\ node[r] \in Nat \ {0} /\ CursorOf(r)
      /\ \A s \in Run \ {r} : pc'[s] = pc[s] /\ node'[s] = node[s] /\ device'[s] = device[s]
  BY OthersUntouched, SessionType DEF TInv, TypeOK, Cursor
<1>2. ASSUME NEW s \in Run \ {r} PROVE CursorOf(s)'
  BY <1>1, <1>2 DEF TInv, Cursor, CursorOf, Active, OnDevice
<1>3. CursorOf(r)'
  BY <1>1, StepPhase DEF CursorOf, Active
<1> QED
  BY <1>2, <1>3 DEF Cursor

LEMMA StepTInv ==
  TInv /\ [Next]_vars => TInv'
<1> SUFFICES ASSUME TInv, [Next]_vars PROVE TInv'
  OBVIOUS
<1>1. CASE Next
  <2>1. PICK r \in Run : Start(r) \/ Reject(r) \/ Step(r) \/ StepError(r)
    BY <1>1 DEF Next
  <2>2. g' \in Sessions
    BY <2>1, OthersUntouched DEF TInv, TypeOK
  <2>3. /\ pc' \in [Run -> {"idle", "offer", "close", "done", "failed"}]
        /\ node' \in [Run -> Nat \ {0}]
        /\ tried' \in [Run -> Nat]
    BY <2>1, StepPhase
  <2>4. TypeOK'
    BY <2>1, <2>2, <2>3, StepHostType, StepMemoryType DEF TInv, TypeOK
  <2> QED
    BY <2>1, <2>4, StepCursor DEF TInv
<1>2. CASE UNCHANGED vars
  BY <1>2 DEF vars, TInv, TypeOK, Cursor, CursorOf, Active, OnDevice
<1> QED
  BY <1>1, <1>2

LEMMA InitTInv ==
  Init => TInv
<1> SUFFICES ASSUME Init PROVE TInv
  OBVIOUS
<1>1. Cardinality(spare) <= MaxSpare
  BY FS_EmptySet, BufferAssumption DEF Init
<1>2. TypeOK
  BY <1>1 DEF Init, TypeOK, IsBinding
<1>3. Cursor
  <2>1. g.n \in Nat
    BY SessionType DEF Init
  <2> QED
    BY <2>1 DEF Init, Cursor, CursorOf, Active, OnDevice
<1> QED
  BY <1>2, <1>3 DEF TInv

LEMMA TInvCorrect == Spec => []TInv
BY InitTInv, StepTInv, PTL DEF Spec

(* Every variable keeps its type: the pool never has more buffers than its  *)
(* bound, whatever goes back to it, and what is cached of an initializer is *)
(* that initializer, whatever node outputs and fed tensors share its name.  *)
THEOREM TypeCorrect == Spec => []TypeOK
<1>1. TInv => TypeOK
  BY DEF TInv
<1> QED
  BY <1>1, TInvCorrect, PTL

-----------------------------------------------------------------------------
(* Who owns the device memory.                                              *)

MInv == TInv /\ DeviceMemoryAccounted

Elsewhere(r) == UNION {BoundBy(s) : s \in Run \ {r}}

LEMMA BoundIs ==
  ASSUME NEW r \in Run, NEW b
  PROVE  b \in BoundBy(r) <=> \E n \in Name : OnDevice(r, n) /\ device[r][n].buf = b
BY DEF BoundBy

LEMMA AccountIs ==
  ASSUME MInv, NEW r \in Run
  PROVE  /\ live = spare \cup Elsewhere(r) \cup BoundBy(r)
         /\ spare \cap Elsewhere(r) = {} /\ spare \cap BoundBy(r) = {}
         /\ BoundBy(r) \cap Elsewhere(r) = {}
         /\ \A m, n \in Name : OnDevice(r, m) /\ OnDevice(r, n)
              /\ device[r][m].buf = device[r][n].buf => device[r][m].bytes = device[r][n].bytes
<1> USE DEF MInv, DeviceMemoryAccounted
<1>1. live = spare \cup Elsewhere(r) \cup BoundBy(r)
  BY DEF Elsewhere
<1>2. spare \cap Elsewhere(r) = {}
  BY DEF Elsewhere
<1>3. BoundBy(r) \cap Elsewhere(r) = {}
  <2>1. ASSUME NEW s \in Run \ {r}, NEW b \in BoundBy(r), b \in BoundBy(s) PROVE FALSE
    <3>1. PICK m \in Name : OnDevice(r, m) /\ device[r][m].buf = b
      BY BoundIs
    <3>2. PICK n \in Name : OnDevice(s, n) /\ device[s][n].buf = b
      BY <2>1, BoundIs
    <3> QED
      BY <3>1, <3>2
  <2> QED
    BY <2>1 DEF Elsewhere
<1> QED
  BY <1>1, <1>2, <1>3

(* What may go to the pool, P, and what the runs hold after a step are the  *)
(* account of it, whichever of P the pool keeps.                            *)
LEMMA AccountKept ==
  ASSUME MInv, NEW r \in Run, NEW P,
         \A s \in Run \ {r} : device'[s] = device[s],
         spare' \subseteq P,
         live' = (P \cup Elsewhere(r) \cup BoundBy(r)') \ (P \ spare'),
         P \cap Elsewhere(r) = {}, P \cap BoundBy(r)' = {},
         BoundBy(r)' \cap Elsewhere(r) = {},
         \A m, n \in Name : OnDevice(r, m)' /\ OnDevice(r, n)'
           /\ device'[r][m].buf = device'[r][n].buf => device'[r][m].bytes = device'[r][n].bytes
  PROVE  DeviceMemoryAccounted'
<1>1. ASSUME NEW s \in Run \ {r}
      PROVE  /\ BoundBy(s)' = BoundBy(s)
             /\ \A n \in Name : OnDevice(s, n)' <=> OnDevice(s, n)
  BY <1>1 DEF BoundBy, OnDevice
<1>2. Elsewhere(r)' = Elsewhere(r)
  BY <1>1 DEF Elsewhere
<1>3. UNION {BoundBy(s) : s \in Run}' = Elsewhere(r) \cup BoundBy(r)'
  BY <1>1 DEF Elsewhere
<1>4. live' = spare' \cup UNION {BoundBy(s) : s \in Run}'
  BY <1>3
<1>5. ASSUME NEW s \in Run PROVE spare' \cap BoundBy(s)' = {}
  <2>1. CASE s = r
    BY <2>1
  <2>2. CASE s # r
    BY <1>1, <2>2 DEF Elsewhere
  <2> QED
    BY <2>1, <2>2
<1>6. ASSUME NEW s \in Run, NEW t \in Run, NEW m \in Name, NEW n \in Name,
             OnDevice(s, m)', OnDevice(t, n)', device'[s][m].buf = device'[t][n].buf
      PROVE  s = t /\ device'[s][m].bytes = device'[t][n].bytes
  <2>1. CASE s = r /\ t = r
    BY <1>6, <2>1
  <2>2. CASE s # r /\ t # r
    BY <1>1, <1>6, <2>2 DEF MInv, DeviceMemoryAccounted
  <2>3. device'[s][m].buf \in BoundBy(s)' /\ device'[t][n].buf \in BoundBy(t)'
    BY <1>6 DEF BoundBy
  <2>4. CASE s # r /\ t = r
    <3>1. device'[s][m].buf \in Elsewhere(r)
      BY <1>1, <2>3, <2>4 DEF Elsewhere
    <3> QED
      BY <1>6, <2>3, <2>4, <3>1
  <2>5. CASE s = r /\ t # r
    <3>1. device'[t][n].buf \in Elsewhere(r)
      BY <1>1, <2>3, <2>5 DEF Elsewhere
    <3> QED
      BY <1>6, <2>3, <2>5, <3>1
  <2> QED
    BY <2>1, <2>2, <2>4, <2>5
<1> QED
  BY <1>4, <1>5, <1>6 DEF DeviceMemoryAccounted

LEMMA FreshBuffer ==
  ASSUME MInv, NEW r \in Run, NEW b \in Allocations
  PROVE  b \in Buffer /\ b \notin BoundBy(r) /\ b \notin Elsewhere(r)
<1>1. b \in Buffer /\ (b \in spare \/ b \notin live)
  BY AllocationType DEF MInv, TInv
<1> QED
  BY <1>1, AccountIs

(* The buffers bound after one entry is put in place.                       *)
LEMMA BoundPut ==
  ASSUME NEW r \in Run, NEW n \in Name, NEW b,
         \A m \in Name \ {n} : device'[r][m] = device[r][m],
         OnDevice(r, n)', device'[r][n].buf = b
  PROVE  /\ BoundBy(r)' = Beside(r, n) \cup {b}
         /\ BoundBy(r) = Beside(r, n) \cup Left(r, n)
         /\ Beside(r, n) \cap Left(r, n) = {}
         /\ \A m \in Name \ {n} : OnDevice(r, m)' <=> OnDevice(r, m)
<1>1. ASSUME NEW m \in Name \ {n}
      PROVE  (OnDevice(r, m)' <=> OnDevice(r, m)) /\ device'[r][m] = device[r][m]
  <2>1. device'[r][m] = device[r][m]
    OBVIOUS
  <2> QED
    BY <2>1 DEF OnDevice
<1>2. BoundBy(r)' = Beside(r, n) \cup {b}
  BY <1>1 DEF BoundBy, Beside
<1>3. BoundBy(r) = Beside(r, n) \cup Left(r, n) /\ Beside(r, n) \cap Left(r, n) = {}
  BY DEF BoundBy, Beside, Left, Disposed
<1> QED
  BY <1>1, <1>2, <1>3

(* An entry in a buffer no other entry of the run is in, or one of its own  *)
(* in which the bytes are the same, leaves the entries in agreement.        *)
LEMMA EntriesAgree ==
  ASSUME MInv, NEW r \in Run, NEW n \in Name, NEW b, NEW v,
         \A m \in Name \ {n} : device'[r][m] = device[r][m],
         OnDevice(r, n)', device'[r][n].buf = b, device'[r][n].bytes = v,
         \A m \in Name \ {n} : OnDevice(r, m) /\ device[r][m].buf = b => device[r][m].bytes = v
  PROVE  \A m, l \in Name : OnDevice(r, m)' /\ OnDevice(r, l)'
           /\ device'[r][m].buf = device'[r][l].buf => device'[r][m].bytes = device'[r][l].bytes
<1> SUFFICES ASSUME NEW m \in Name, NEW l \in Name, OnDevice(r, m)', OnDevice(r, l)',
                    device'[r][m].buf = device'[r][l].buf
             PROVE  device'[r][m].bytes = device'[r][l].bytes
  OBVIOUS
<1>1. \A k \in Name \ {n} : (OnDevice(r, k)' <=> OnDevice(r, k)) /\ device'[r][k] = device[r][k]
  BY BoundPut
<1>2. CASE m # n /\ l # n
  BY <1>1, <1>2, AccountIs
<1>3. CASE m = n \/ l = n
  BY <1>1, <1>3
<1> QED
  BY <1>2, <1>3

LEMMA MemoryPromoted ==
  ASSUME MInv, NEW r \in Run, Promote(r)
  PROVE  DeviceMemoryAccounted'
<1>1. TypeOK
  BY DEF MInv, TInv
<1>2. PICK n \in Name, b \in Allocations :
        /\ ~OnDevice(r, n)
        /\ device' = [device EXCEPT ![r][n] = Uploaded(b, HostValue(r, n))]
        /\ live' = live \cup {b}
        /\ spare' = spare \ {b}
  BY <1>1, PromoteIs
<1>3. b \in Buffer /\ b \notin BoundBy(r) /\ b \notin Elsewhere(r)
  BY FreshBuffer
<1>4. /\ \A s \in Run \ {r} : device'[s] = device[s]
      /\ \A m \in Name \ {n} : device'[r][m] = device[r][m]
      /\ OnDevice(r, n)' /\ device'[r][n].buf = b /\ device'[r][n].bytes = HostValue(r, n)
  <2> DEFINE e == Uploaded(b, HostValue(r, n))
  <2>1. /\ e # NoBinding /\ IsBinding(e) /\ e.buf = b /\ e.bytes = HostValue(r, n)
        /\ device' = [device EXCEPT ![r][n] = e]
    BY <1>2, <1>3, EntryIs
  <2> HIDE DEF e
  <2> QED
    BY <1>1, <2>1, EntryPut
<1>5. BoundBy(r)' = Beside(r, n) \cup {b} /\ BoundBy(r) = Beside(r, n) \cup Left(r, n)
  BY <1>4, BoundPut
<1>6. Left(r, n) = {}
  BY <1>2 DEF Left, Disposed
<1>7. \A m \in Name \ {n} : OnDevice(r, m) => device[r][m].buf # b
  BY <1>3 DEF BoundBy
<1>8. \A m, l \in Name : OnDevice(r, m)' /\ OnDevice(r, l)'
        /\ device'[r][m].buf = device'[r][l].buf => device'[r][m].bytes = device'[r][l].bytes
  BY <1>4, <1>7, EntriesAgree
<1>9. /\ spare' \subseteq spare \ {b}
      /\ live' = ((spare \ {b}) \cup Elsewhere(r) \cup BoundBy(r)') \ ((spare \ {b}) \ spare')
  BY <1>2, <1>5, <1>6, AccountIs
<1>10. /\ (spare \ {b}) \cap Elsewhere(r) = {} /\ (spare \ {b}) \cap BoundBy(r)' = {}
       /\ BoundBy(r)' \cap Elsewhere(r) = {}
  BY <1>3, <1>5, <1>6, AccountIs
<1> QED
  BY <1>4, <1>8, <1>9, <1>10, AccountKept

(* A result in buffer b replaces an entry whose buffer goes back.           *)
LEMMA MemoryDisplaced ==
  ASSUME MInv, NEW r \in Run, NEW n \in Name, NEW b \in Buffer, NEW v,
         \A s \in Run \ {r} : device'[s] = device[s],
         \A m \in Name \ {n} : device'[r][m] = device[r][m],
         OnDevice(r, n)', device'[r][n].buf = b, device'[r][n].bytes = v,
         \A m \in Name \ {n} : OnDevice(r, m) /\ device[r][m].buf = b => device[r][m].bytes = v,
         b \notin Elsewhere(r),
         Displacing(r, n, b, live \cup {b})
  PROVE  DeviceMemoryAccounted'
<1> DEFINE back == Left(r, n) \ {b}
           P == (spare \ {b}) \cup back
<1>1. TypeOK
  BY DEF MInv, TInv
<1>2. spare' \subseteq P /\ live' = (live \cup {b}) \ (P \ spare')
  <2>1. /\ spare' \subseteq (spare \ {b}) \cup (Left(r, n) \ {b})
        /\ live' = (live \cup {b}) \ (((spare \ {b}) \cup (Left(r, n) \ {b})) \ spare')
    BY <1>1, DisplacingType
  <2> QED
    BY <2>1
<1>3. /\ BoundBy(r)' = Beside(r, n) \cup {b} /\ BoundBy(r) = Beside(r, n) \cup Left(r, n)
      /\ Beside(r, n) \cap Left(r, n) = {}
  BY BoundPut
<1>4. /\ live = spare \cup Elsewhere(r) \cup BoundBy(r)
      /\ spare \cap Elsewhere(r) = {} /\ spare \cap BoundBy(r) = {}
      /\ BoundBy(r) \cap Elsewhere(r) = {}
  BY AccountIs
<1>5. live \cup {b} = P \cup Elsewhere(r) \cup BoundBy(r)'
  BY <1>3, <1>4
<1>6. P \cap Elsewhere(r) = {} /\ P \cap BoundBy(r)' = {} /\ BoundBy(r)' \cap Elsewhere(r) = {}
  BY <1>3, <1>4
<1>7. \A m, l \in Name : OnDevice(r, m)' /\ OnDevice(r, l)'
        /\ device'[r][m].buf = device'[r][l].buf => device'[r][m].bytes = device'[r][l].bytes
  BY EntriesAgree
<1> HIDE DEF P
<1>8. live' = (P \cup Elsewhere(r) \cup BoundBy(r)') \ (P \ spare')
  BY <1>2, <1>5
<1> QED
  BY <1>2, <1>6, <1>7, <1>8, AccountKept

LEMMA MemoryComputed ==
  ASSUME MInv, NEW r \in Run, DispatchDevice(r)
  PROVE  DeviceMemoryAccounted'
<1>1. TypeOK
  BY DEF MInv, TInv
<1>2. PICK n \in Name : n = g.outs[node[r]][1]
  BY <1>1, DispatchDeviceIs
<1> DEFINE v == KernelResult(r, node[r], 1)
<1>3. PICK b \in Allocations :
        /\ device' = [device EXCEPT ![r][n] = Computed(b, v, v)]
        /\ Displacing(r, n, b, live \cup {b})
  BY <1>1, <1>2, DispatchDeviceIs
<1> HIDE DEF v
<1>4. b \in Buffer /\ b \notin BoundBy(r) /\ b \notin Elsewhere(r)
  BY FreshBuffer
<1>5. /\ \A s \in Run \ {r} : device'[s] = device[s]
      /\ \A m \in Name \ {n} : device'[r][m] = device[r][m]
      /\ OnDevice(r, n)' /\ device'[r][n].buf = b /\ device'[r][n].bytes = v
  <2> DEFINE e == Computed(b, v, v)
  <2>1. /\ e # NoBinding /\ IsBinding(e) /\ e.buf = b /\ e.bytes = v
        /\ device' = [device EXCEPT ![r][n] = e]
    BY <1>3, <1>4, EntryIs
  <2> HIDE DEF e
  <2> QED
    BY <1>1, <2>1, EntryPut
<1>6. \A m \in Name \ {n} : OnDevice(r, m) => device[r][m].buf # b
  BY <1>4 DEF BoundBy
<1> QED
  BY <1>2, <1>3, <1>4, <1>5, <1>6, MemoryDisplaced

LEMMA MemoryViewed ==
  ASSUME MInv, NEW r \in Run, DispatchView(r)
  PROVE  DeviceMemoryAccounted'
<1>1. TypeOK
  BY DEF MInv, TInv
<1>2. PICK n \in Name, m \in Name :
        /\ n = g.outs[node[r]][1] /\ OnDevice(r, m)
        /\ device' = [device EXCEPT ![r][n] =
             Computed(device[r][m].buf, device[r][m].bytes, KernelResult(r, node[r], 1))]
        /\ Displacing(r, n, device[r][m].buf, live)
  BY <1>1, DispatchViewIs
<1> DEFINE v == KernelResult(r, node[r], 1)
           b == device[r][m].buf
           w == device[r][m].bytes
<1>3. b \in Buffer /\ b \in BoundBy(r)
  BY <1>1, <1>2, EntryOf DEF BoundBy
<1>4. \A k \in Name : OnDevice(r, k) /\ device[r][k].buf = b => device[r][k].bytes = w
  BY <1>2, AccountIs
<1> HIDE DEF v, b, w
<1>5. b \notin Elsewhere(r) /\ live \cup {b} = live
  BY <1>3, AccountIs
<1>6. Displacing(r, n, b, live \cup {b})
  BY <1>2, <1>5 DEF b
<1>7. /\ \A s \in Run \ {r} : device'[s] = device[s]
      /\ \A k \in Name \ {n} : device'[r][k] = device[r][k]
      /\ OnDevice(r, n)' /\ device'[r][n].buf = b /\ device'[r][n].bytes = w
  <2> DEFINE e == Computed(b, w, v)
  <2>1. /\ e # NoBinding /\ IsBinding(e) /\ e.buf = b /\ e.bytes = w
        /\ device' = [device EXCEPT ![r][n] = e]
    BY <1>2, <1>3, EntryIs DEF b, v, w
  <2> HIDE DEF e
  <2> QED
    BY <1>1, <2>1, EntryPut
<1> QED
  BY <1>3, <1>4, <1>5, <1>6, <1>7, MemoryDisplaced

(* Some entries of a run are dropped: their buffers are free but for those  *)
(* of the entries that stay.                                                *)
LEMMA BoundDropped ==
  ASSUME NEW r \in Run, NEW D \in SUBSET Name,
         \A m \in Name \ D : device'[r][m] = device[r][m],
         \A m \in D : ~OnDevice(r, m)'
  PROVE  /\ BoundBy(r) = BoundBy(r)' \cup Disposed(r, D, Name \ D)
         /\ BoundBy(r)' \cap Disposed(r, D, Name \ D) = {}
         /\ \A m \in Name : OnDevice(r, m)' => OnDevice(r, m) /\ device'[r][m] = device[r][m]
<1>1. ASSUME NEW m \in Name \ D
      PROVE  (OnDevice(r, m)' <=> OnDevice(r, m)) /\ device'[r][m] = device[r][m]
  <2>1. device'[r][m] = device[r][m]
    OBVIOUS
  <2> QED
    BY <2>1 DEF OnDevice
<1>2. BoundBy(r)' = {device[r][m].buf : m \in {l \in Name \ D : OnDevice(r, l)}}
  BY <1>1 DEF BoundBy
<1>3. /\ BoundBy(r) = {device[r][m].buf : m \in {l \in Name \ D : OnDevice(r, l)}}
                        \cup Disposed(r, D, Name \ D)
      /\ {device[r][m].buf : m \in {l \in Name \ D : OnDevice(r, l)}}
           \cap Disposed(r, D, Name \ D) = {}
  BY DEF BoundBy, Disposed
<1> QED
  BY <1>1, <1>2, <1>3

LEMMA MemoryClosed ==
  ASSUME MInv, NEW r \in Run, Close(r)
  PROVE  DeviceMemoryAccounted'
<1> DEFINE D == Doomed(r, node[r])
           back == Disposed(r, D, Name \ D)
           P == spare \cup back
<1>1. TypeOK
  BY DEF MInv, TInv
<1>2. D \in SUBSET Name
  BY DEF Doomed
<1>3. /\ device' = [device EXCEPT ![r] = [n \in Name |->
           IF n \in D THEN NoBinding ELSE device[r][n]]]
      /\ Recycle(spare, back, live)
  BY DEF Close
<1> HIDE DEF D
<1>4. /\ \A s \in Run \ {r} : device'[s] = device[s]
      /\ \A m \in Name \ D : device'[r][m] = device[r][m]
      /\ \A m \in D : ~OnDevice(r, m)'
  BY <1>1, <1>2, <1>3, EntriesDropped
<1>5. /\ BoundBy(r) = BoundBy(r)' \cup back /\ BoundBy(r)' \cap back = {}
      /\ \A m \in Name : OnDevice(r, m)' => OnDevice(r, m) /\ device'[r][m] = device[r][m]
  BY <1>2, <1>4, BoundDropped
<1>6. back \in SUBSET Buffer /\ spare \in SUBSET Buffer
  BY <1>1, <1>2, BoundType DEF TypeOK
<1> HIDE DEF back
<1>7. spare' \subseteq P /\ live' = live \ (P \ spare')
  BY <1>3, <1>6, RecycleType
<1>8. /\ live = P \cup Elsewhere(r) \cup BoundBy(r)'
      /\ P \cap Elsewhere(r) = {} /\ P \cap BoundBy(r)' = {}
      /\ BoundBy(r)' \cap Elsewhere(r) = {}
  BY <1>5, AccountIs
<1>9. \A m, l \in Name : OnDevice(r, m)' /\ OnDevice(r, l)'
        /\ device'[r][m].buf = device'[r][l].buf => device'[r][m].bytes = device'[r][l].bytes
  BY <1>5, AccountIs
<1> HIDE DEF P
<1> QED
  BY <1>4, <1>7, <1>8, <1>9, AccountKept

(* A run that is over gives up all it holds, to nobody.                     *)
LEMMA MemoryDropped ==
  ASSUME MInv, NEW r \in Run,
         device' = [device EXCEPT ![r] = [n \in Name |-> NoBinding]],
         live' = live \ BoundBy(r), spare' = spare
  PROVE  DeviceMemoryAccounted'
<1>1. TypeOK
  BY DEF MInv, TInv
<1>2. device' = [device EXCEPT ![r] = [n \in Name |->
        IF n \in Name THEN NoBinding ELSE device[r][n]]]
  OBVIOUS
<1>3. /\ \A s \in Run \ {r} : device'[s] = device[s]
      /\ \A m \in Name : ~OnDevice(r, m)'
  BY <1>1, <1>2, EntriesDropped
<1>4. BoundBy(r)' = {}
  BY <1>3 DEF BoundBy
<1>5. /\ live' = (spare \cup Elsewhere(r) \cup BoundBy(r)') \ (spare \ spare')
      /\ spare \cap Elsewhere(r) = {} /\ spare \cap BoundBy(r)' = {}
      /\ BoundBy(r)' \cap Elsewhere(r) = {} /\ spare' \subseteq spare
  BY <1>4, AccountIs
<1> QED
  BY <1>3, <1>5, AccountKept

(* What the pool gives up to make room was nobody's.                        *)
LEMMA MemoryReclaimed ==
  ASSUME MInv, NEW r \in Run, Reclaim(r)
  PROVE  DeviceMemoryAccounted'
<1>1. /\ device' = device /\ spare' \subseteq spare
      /\ live' = live \ (spare \ spare')
  BY ReclaimIs DEF MInv, TInv
<1>2. BoundBy(r)' = BoundBy(r) /\ \A n \in Name : OnDevice(r, n)' <=> OnDevice(r, n)
  BY <1>1 DEF BoundBy, OnDevice
<1>3. /\ live' = (spare \cup Elsewhere(r) \cup BoundBy(r)') \ (spare \ spare')
      /\ spare \cap Elsewhere(r) = {} /\ spare \cap BoundBy(r)' = {}
      /\ BoundBy(r)' \cap Elsewhere(r) = {}
  BY <1>1, <1>2, AccountIs
<1>4. \A m, n \in Name : OnDevice(r, m)' /\ OnDevice(r, n)'
        /\ device'[r][m].buf = device'[r][n].buf => device'[r][m].bytes = device'[r][n].bytes
  BY <1>1, <1>2, AccountIs
<1> QED
  BY <1>1, <1>3, <1>4, AccountKept

LEMMA StepMInv ==
  MInv /\ [Next]_vars => MInv'
<1> SUFFICES ASSUME MInv, [Next]_vars PROVE MInv'
  OBVIOUS
<1>1. TInv'
  BY StepTInv DEF MInv
<1>2. ASSUME UNCHANGED <<device, live, spare>> PROVE DeviceMemoryAccounted'
  BY <1>2 DEF MInv, DeviceMemoryAccounted, BoundBy, OnDevice
<1>3. CASE UNCHANGED vars
  BY <1>1, <1>2, <1>3 DEF vars, MInv
<1>4. ASSUME NEW r \in Run, Start(r) \/ Reject(r) \/ Step(r) \/ StepError(r)
      PROVE  DeviceMemoryAccounted'
  <2>1. CASE Start(r) \/ DispatchHost(r) \/ Decline(r) \/ ReadBack(r) \/ HostCompute(r)
    BY <1>2, <2>1 DEF Start, DispatchHost, Decline, ReadBack, HostCompute, memory
  <2>2. CASE Promote(r)
    BY <2>2, MemoryPromoted
  <2>3. CASE DispatchDevice(r)
    BY <2>3, MemoryComputed
  <2>4. CASE DispatchView(r)
    BY <2>4, MemoryViewed
  <2>5. CASE Close(r)
    BY <2>5, MemoryClosed
  <2>6. CASE Finish(r)
    BY <2>6, MemoryDropped DEF Finish
  <2>7. CASE Fail(r)
    BY <2>7, MemoryDropped DEF Fail
  <2>8. CASE Reclaim(r)
    BY <2>8, MemoryReclaimed
  <2> QED
    BY <1>4, <2>1, <2>2, <2>3, <2>4, <2>5, <2>6, <2>7, <2>8 DEF Step, StepError, Reject,
       DispatchError, ReadBackError, HostError
<1> QED
  BY <1>1, <1>3, <1>4 DEF MInv, Next

LEMMA InitMInv ==
  Init => MInv
<1> SUFFICES ASSUME Init PROVE MInv
  OBVIOUS
<1>1. TInv
  BY InitTInv
<1>2. \A r \in Run, n \in Name : ~OnDevice(r, n)
  BY DEF Init, OnDevice
<1>3. \A r \in Run : BoundBy(r) = {}
  BY <1>2 DEF BoundBy
<1>4. live = {} /\ spare = {}
  BY DEF Init
<1> QED
  BY <1>1, <1>2, <1>3, <1>4 DEF MInv, DeviceMemoryAccounted

LEMMA MInvCorrect == Spec => []MInv
BY InitMInv, StepMInv, PTL DEF Spec

(* No device memory is leaked, handed out twice or disposed of while a view *)
(* is still in it, whatever the runs keep, promote, displace or drop, in    *)
(* whatever order their steps interleave and whatever the pool refuses.     *)
THEOREM MemoryCorrect == Spec => []DeviceMemoryAccounted
<1>1. MInv => DeviceMemoryAccounted
  BY DEF MInv
<1> QED
  BY <1>1, MInvCorrect, PTL

-----------------------------------------------------------------------------
(* How long a value stays on the device.                                    *)

LEMMA LeastNat ==
  ASSUME NEW T, T \subseteq Nat, T # {}
  PROVE  \E n \in T : \A k \in T : n <= k
<1>1. PICK n \in T : \A k \in T : ~(<<k, n>> \in {ss \in Nat \X Nat : ss[1] < ss[2]})
  BY WFMin, NatLessThanWellFounded DEF OpToRel
<1>2. ASSUME NEW k \in T PROVE n <= k
  <2>1. n \in Nat /\ k \in Nat /\ ~(k < n)
    BY <1>1
  <2> QED
    BY <2>1
<1> QED
  BY <1>2

LEMMA LastUseIs ==
  ASSUME TypeOK, NEW n, NEW j \in Nodes(g), Uses(g, j, n) # {}
  PROVE  LastUse(n) \in Nodes(g) /\ Uses(g, LastUse(n), n) # {} /\ j <= LastUse(n)
<1> DEFINE users == {i \in Nodes(g) : Uses(g, i, n) # {}}
<1>1. g.n \in Nat /\ \A i \in users : i \in Nat /\ i <= g.n
  BY SessionType DEF TypeOK
<1>2. users # {} /\ j \in users
  OBVIOUS
<1>3. \E i \in users : \A k \in users : k <= i
  <2> DEFINE T == {g.n - i : i \in users}
  <2> HIDE DEF users
  <2>1. T \subseteq Nat /\ T # {}
    BY <1>1, <1>2
  <2>2. PICK m \in T : \A k \in T : m <= k
    <3> HIDE DEF T
    <3> QED
      BY <2>1, LeastNat
  <2>3. PICK i \in users : m = g.n - i
    OBVIOUS
  <2>4. ASSUME NEW k \in users PROVE k <= i
    <3>1. g.n - i <= g.n - k
      BY <2>2, <2>3
    <3> QED
      BY <1>1, <3>1
  <2> QED
    BY <2>4
<1>4. LastUse(n) = CHOOSE i \in users : \A k \in users : k <= i
  BY <1>2 DEF LastUse
<1> HIDE DEF users
<1>5. LastUse(n) \in users /\ j <= LastUse(n)
  BY <1>2, <1>3, <1>4
<1> QED
  BY <1>5 DEF users

LEMMA KeptIsUsed ==
  ASSUME NEW s, NEW n, MayKeep(s, n)
  PROVE  \E j \in Nodes(s) : Uses(s, j, n) # {}
<1>1. PICK p \in ConsumingSlots(s, n) : TRUE
  BY DEF MayKeep
<1>2. PICK j \in Nodes(s) : \E k \in DOMAIN s.ins[j] : p = <<j, k>> /\ s.ins[p[1]][p[2]] = n
  BY <1>1 DEF ConsumingSlots
<1> QED
  BY <1>2 DEF Uses

(* The result a kernel leaves on the device is stored under its name.       *)
LEMMA KeptIsStored ==
  ASSUME TypeOK, NEW i \in Nodes(g), i \in g.views \cup g.placed, 1 \in DOMAIN g.outs[i]
  PROVE  1 \in Results(g, i, g.outs[i][1])
<1>1. g.arity[i] \in Nat /\ g.arity[i] >= 1
  BY SessionType DEF TypeOK, IsDeviceSession, IsGraph
<1> QED
  BY <1>1 DEF Results

(* What is on the device has a use to come.                                 *)
Alive(r, n) == \E i \in node[r] .. g.n : Uses(g, i, n) # {}
LiveOf(r) == Active(r) => \A n \in Name : OnDevice(r, n) => Alive(r, n)

LEMMA AlivePut ==
  ASSUME NEW r \in Run, LiveOf(r), NEW n \in Name, Active(r), Alive(r, n),
         g' = g, node'[r] = node[r],
         \A m \in Name \ {n} : device'[r][m] = device[r][m]
  PROVE  LiveOf(r)'
<1>1. ASSUME NEW m \in Name, OnDevice(r, m)' PROVE Alive(r, m)
  <2>1. CASE m = n
    BY <2>1
  <2>2. CASE m # n
    <3>1. OnDevice(r, m)
      BY <1>1, <2>2 DEF OnDevice
    <3> QED
      BY <3>1 DEF LiveOf
  <2> QED
    BY <2>1, <2>2
<1>2. \A m \in Name : Alive(r, m) => Alive(r, m)'
  BY DEF Alive
<1> QED
  BY <1>1, <1>2 DEF LiveOf

(* The result of node i that stays on the device has a use after it.        *)
LEMMA KeptIsAlive ==
  ASSUME TInv, UsedLater(g), NEW r \in Run, node[r] \in Nodes(g),
         node[r] \in g.views \cup g.placed, 1 \in DOMAIN g.outs[node[r]],
         NEW n \in Name, n = g.outs[node[r]][1], MayKeep(g, n)
  PROVE  Alive(r, n)
<1>1. Stores(g, node[r], n)
  BY KeptIsStored DEF TInv, Stores
<1>2. PICK j \in Nodes(g) : Uses(g, j, n) # {}
  BY KeptIsUsed
<1>3. PICK k \in node[r] + 1 .. g.n : Uses(g, k, n) # {}
  BY <1>1, <1>2 DEF UsedLater
<1>4. k \in node[r] .. g.n
  BY SessionType DEF TInv, TypeOK
<1> QED
  BY <1>3, <1>4 DEF Alive

LEMMA LiveComputed ==
  ASSUME TInv, UsedLater(g), NEW r \in Run, LiveOf(r), DispatchDevice(r) \/ DispatchView(r)
  PROVE  LiveOf(r)'
<1>1. TypeOK
  BY DEF TInv
<1>2. PICK n \in Name :
        /\ n = g.outs[node[r]][1] /\ MayKeep(g, n) /\ 1 \in DOMAIN g.outs[node[r]]
        /\ node[r] \in g.views \cup g.placed /\ node[r] \in Nodes(g)
        /\ pc[r] = "offer" /\ UNCHANGED <<g, node>>
  BY <1>1, DispatchDeviceIs, DispatchViewIs
<1>3. \A m \in Name \ {n} : device'[r][m] = device[r][m]
  <2>1. CASE DispatchDevice(r)
    BY <1>1, <1>2, <2>1 DEF DispatchDevice, TypeOK
  <2>2. CASE DispatchView(r)
    BY <1>1, <1>2, <2>2 DEF DispatchView, TypeOK
  <2> QED
    BY <2>1, <2>2
<1>4. Alive(r, n)
  BY <1>2, KeptIsAlive
<1> QED
  BY <1>2, <1>3, <1>4, AlivePut DEF Active

LEMMA LivePromoted ==
  ASSUME TInv, NEW r \in Run, LiveOf(r), Promote(r)
  PROVE  LiveOf(r)'
<1>1. TypeOK
  BY DEF TInv
<1>2. PICK n \in Name :
        /\ Uses(g, node[r], n) # {} /\ node[r] \in Nodes(g)
        /\ pc[r] = "offer" /\ UNCHANGED <<g, node>>
        /\ \A m \in Name \ {n} : device'[r][m] = device[r][m]
  <2>1. PICK n \in Name, b \in Allocations :
          /\ Uses(g, node[r], n) # {}
          /\ device' = [device EXCEPT ![r][n] = Uploaded(b, HostValue(r, n))]
    BY <1>1, PromoteIs
  <2>2. node[r] \in Nodes(g) /\ pc[r] = "offer" /\ UNCHANGED <<g, node>>
    BY <1>1, PromoteIs
  <2>3. \A m \in Name \ {n} : device'[r][m] = device[r][m]
    BY <1>1, <2>1 DEF TypeOK
  <2> QED
    BY <2>1, <2>2, <2>3
<1>3. Alive(r, n)
  <2>1. node[r] \in node[r] .. g.n
    BY <1>2, SessionType DEF TInv, TypeOK, Nodes
  <2> QED
    BY <1>2, <2>1 DEF Alive
<1> QED
  BY <1>2, <1>3, AlivePut DEF Active

(* A node closes the entries whose last use it is: the others have one      *)
(* after it.                                                                *)
LEMMA LiveClosed ==
  ASSUME TInv, NEW r \in Run, LiveOf(r), Close(r)
  PROVE  LiveOf(r)'
<1>1. TypeOK
  BY DEF TInv
<1>2. /\ g' = g /\ node'[r] = node[r] + 1
      /\ device' = [device EXCEPT ![r] = [n \in Name |->
           IF n \in Doomed(r, node[r]) THEN NoBinding ELSE device[r][n]]]
  BY <1>1 DEF Close, TypeOK
<1>3. Doomed(r, node[r]) \in SUBSET Name
  BY DEF Doomed
<1>4. /\ \A m \in Name \ Doomed(r, node[r]) : device'[r][m] = device[r][m]
      /\ \A m \in Doomed(r, node[r]) : ~OnDevice(r, m)'
  <2> DEFINE D == Doomed(r, node[r])
  <2> HIDE DEF D
  <2>1. /\ D \in SUBSET Name
        /\ device' = [device EXCEPT ![r] = [n \in Name |->
             IF n \in D THEN NoBinding ELSE device[r][n]]]
    BY <1>2, <1>3 DEF D
  <2>2. /\ \A m \in Name \ D : device'[r][m] = device[r][m]
        /\ \A m \in D : ~OnDevice(r, m)'
    BY <1>1, <2>1, EntriesDropped
  <2> QED
    BY <2>2 DEF D
<1>5. ASSUME NEW n \in Name, OnDevice(r, n)' PROVE Alive(r, n)'
  <2>1. n \notin Doomed(r, node[r]) /\ device'[r][n] = device[r][n]
    BY <1>4, <1>5
  <2>2. OnDevice(r, n)
    BY <1>5, <2>1 DEF OnDevice
  <2>3. PICK j \in node[r] .. g.n : Uses(g, j, n) # {}
    BY <2>2 DEF LiveOf, Alive, Active, Close
  <2>4. node[r] \in Nat /\ node[r] >= 1 /\ g.n \in Nat
    BY <1>1, SessionType DEF TypeOK
  <2>5. j \in Nodes(g)
    BY <2>4 DEF Nodes
  <2>6. LastUse(n) \in Nodes(g) /\ Uses(g, LastUse(n), n) # {} /\ j <= LastUse(n)
    BY <1>1, <2>3, <2>5, LastUseIs
  <2>7. LastUse(n) # node[r]
    BY <2>1, <2>2 DEF Doomed
  <2>8. LastUse(n) \in node[r] + 1 .. g.n
    BY <2>4, <2>6, <2>7 DEF Nodes
  <2> QED
    BY <1>2, <2>6, <2>8 DEF Alive
<1> QED
  BY <1>5 DEF LiveOf

LEMMA LiveStep ==
  ASSUME TInv, TInv', UsedLater(g), NoDeadDeviceValue, [Next]_vars
  PROVE  NoDeadDeviceValue'
<1>1. \A r \in Run : LiveOf(r)
  BY DEF NoDeadDeviceValue, LiveOf, Alive
<1>2. ASSUME NEW s \in Run, g' = g, pc'[s] = pc[s], node'[s] = node[s], device'[s] = device[s]
      PROVE  LiveOf(s)'
  BY <1>1, <1>2 DEF LiveOf, Alive, Active, OnDevice
<1>3. ASSUME NEW r \in Run, Start(r) \/ Reject(r) \/ Step(r) \/ StepError(r)
      PROVE  LiveOf(r)'
  <2> USE DEF TInv, TypeOK
  <2>1. CASE Start(r)
    BY <2>1 DEF Start, Cursor, CursorOf, LiveOf, OnDevice
  <2>2. CASE Promote(r)
    BY <1>1, <2>2, LivePromoted
  <2>3. CASE DispatchDevice(r) \/ DispatchView(r)
    BY <1>1, <2>3, LiveComputed
  <2>4. CASE DispatchHost(r)
    BY <1>1, <2>4 DEF DispatchHost, Offered, LiveOf, Alive, Active, OnDevice
  <2>5. CASE Decline(r)
    BY <1>1, <2>5 DEF Decline, Offered, LiveOf, Alive, Active, OnDevice
  <2>6. CASE ReadBack(r) \/ HostCompute(r)
    BY <1>1, <2>6 DEF ReadBack, HostCompute, OnHost, LiveOf, Alive, Active, OnDevice
  <2>7. CASE Close(r)
    BY <1>1, <2>7, LiveClosed
  <2>8. CASE Finish(r) \/ Fail(r)
    BY <2>8 DEF Finish, Fail, LiveOf, Active
  <2>9. CASE Reclaim(r)
    BY <1>2, <2>9, ReclaimIs
  <2> QED
    BY <1>3, <2>1, <2>2, <2>3, <2>4, <2>5, <2>6, <2>7, <2>8, <2>9 DEF Step, StepError, Reject,
       DispatchError, ReadBackError, HostError
<1>4. ASSUME NEW s \in Run PROVE LiveOf(s)'
  <2>1. CASE UNCHANGED vars
    BY <1>2, <2>1 DEF vars
  <2>2. CASE Next
    <3>1. PICK r \in Run : Start(r) \/ Reject(r) \/ Step(r) \/ StepError(r)
      BY <2>2 DEF Next
    <3>2. CASE s = r
      BY <1>3, <3>1, <3>2
    <3>3. CASE s # r
      BY <1>2, <3>1, <3>3, OthersUntouched DEF TInv
    <3> QED
      BY <3>2, <3>3
  <2> QED
    BY <2>1, <2>2
<1> QED
  BY <1>4 DEF NoDeadDeviceValue, LiveOf, Alive

(* Device memory is held for a node to come and for nobody else: wherever   *)
(* the consumers of a value ran, the last of them gives its buffer up, and  *)
(* a value without a consumer to come is never put there, on any session    *)
(* whose stored names, if used at all, are used by a later node.            *)
THEOREM NoDeadCorrect ==
  ASSUME \A s \in Sessions : UsedLater(s)
  PROVE  Spec => []NoDeadDeviceValue
<1>1. Init => NoDeadDeviceValue
  BY DEF Init, NoDeadDeviceValue, OnDevice
<1>2. TInv /\ TInv' /\ NoDeadDeviceValue /\ [Next]_vars => NoDeadDeviceValue'
  <2> SUFFICES ASSUME TInv, TInv', NoDeadDeviceValue, [Next]_vars PROVE NoDeadDeviceValue'
    OBVIOUS
  <2>1. UsedLater(g)
    BY DEF TInv, TypeOK
  <2> QED
    BY <2>1, LiveStep
<1> QED
  BY <1>1, <1>2, TInvCorrect, PTL DEF Spec

-----------------------------------------------------------------------------
(* What the values are: the denotation, node by node.                       *)

(* The values of the names for the inputs of run r, before the first node,  *)
(* and after node i where they were `before`.                               *)
Loaded(n) == IF n \in g.weights THEN WeightValue(n) ELSE NoValue
Seed(r) == [n \in Name |-> IF Fed(g, n) THEN InputValue(r, n) ELSE Loaded(n)]
ArgOf(env, n) == IF n = NoName THEN NoValue ELSE env[n]
ArgsIn(env, i) == [j \in DOMAIN g.ins[i] |-> ArgOf(env, g.ins[i][j])]
CapturedIn(env, i) == {<<m, env[m]>> : m \in g.caps[i]}
After(i, before) ==
  [n \in Name |->
     IF Results(g, i, n) = {} THEN before[n]
     ELSE NodeValue(i, CHOOSE k \in Results(g, i, n) : \A l \in Results(g, i, n) : l <= k,
                    ArgsIn(before, i), CapturedIn(before, i))]
IsEnv(r, m, env) == env = [i \in 0 .. m |-> IF i = 0 THEN Seed(r) ELSE After(i, env[i - 1])]
Env(r) == LET env[i \in 0 .. g.n] == IF i = 0 THEN Seed(r) ELSE After(i, env[i - 1])
          IN env

LEMMA EnvExists ==
  ASSUME NEW r \in Run, NEW m \in Nat
  PROVE  \E env : IsEnv(r, m, env)
<1> DEFINE Bad == {n \in Nat : ~\E env : IsEnv(r, n, env)}
<1>1. SUFFICES ASSUME Bad # {} PROVE FALSE
  OBVIOUS
<1>2. PICK n \in Bad : \A k \in Bad : n <= k
  BY <1>1, LeastNat
<1>3. CASE n = 0
  <2>1. IsEnv(r, 0, [i \in 0 .. 0 |-> Seed(r)])
    BY DEF IsEnv
  <2> QED
    BY <1>3, <2>1
<1>4. CASE n # 0
  <2>1. n - 1 \in Nat /\ n - 1 \notin Bad
    BY <1>2, <1>4
  <2>2. PICK h : IsEnv(r, n - 1, h)
    BY <2>1
  <2> DEFINE env == [i \in 0 .. n |-> IF i = n THEN After(n, h[n - 1]) ELSE h[i]]
  <2>3. \A i \in 0 .. n - 1 : h[i] = IF i = 0 THEN Seed(r) ELSE After(i, h[i - 1])
    BY <2>2 DEF IsEnv
  <2>4. \A i \in 0 .. n : env[i] = IF i = 0 THEN Seed(r) ELSE After(i, env[i - 1])
    <3>1. TAKE i \in 0 .. n
    <3>2. CASE i = n
      BY <1>4, <3>2
    <3>3. CASE i # n
      BY <2>3, <3>3
    <3> QED
      BY <3>2, <3>3
  <2>5. IsEnv(r, n, env)
    BY <2>4 DEF IsEnv
  <2> QED
    BY <2>5
<1> QED
  BY <1>3, <1>4

LEMMA EnvIs ==
  ASSUME TypeOK, NEW r \in Run
  PROVE  /\ g.n \in Nat
         /\ Env(r)[0] = Seed(r)
         /\ \A i \in 1 .. g.n : Env(r)[i] = After(i, Env(r)[i - 1])
         /\ Promise!Denotation(r) = Env(r)[g.n]
<1> DEFINE P(env) == env = [i \in 0 .. g.n |-> IF i = 0 THEN Seed(r) ELSE After(i, env[i - 1])]
<1>1. g.n \in Nat
  BY SessionType DEF TypeOK
<1>2. P(CHOOSE env : P(env))
  <2>1. PICK h : IsEnv(r, g.n, h)
    BY <1>1, EnvExists
  <2>2. P(h)
    BY <2>1 DEF IsEnv
  <2> QED
    BY <2>2
<1>3. Env(r) = CHOOSE env : P(env)
  BY DEF Env
<1>4. \A i \in 0 .. g.n : Env(r)[i] = IF i = 0 THEN Seed(r) ELSE After(i, Env(r)[i - 1])
  BY <1>2, <1>3
<1>5. Promise!Denotation(r) = Env(r)[g.n]
  BY DEF Promise!Denotation, Env, Seed, Loaded, Fed, After, Results, ArgsIn, ArgOf, CapturedIn,
     InputValue, WeightValue, NoValue, NodeValue, Promise!InputValue, Promise!WeightValue,
     Promise!NoValue, Promise!NodeValue
<1> QED
  BY <1>1, <1>4, <1>5

LEMMA EnvSame ==
  ASSUME g' = g, NEW r
  PROVE  Env(r)' = Env(r)
BY DEF Env, Seed, Loaded, Fed, After, Results, ArgsIn, ArgOf, CapturedIn, InputValue,
   WeightValue, NoValue, NodeValue

(* What node i does to the values.                                          *)
LEMMA EnvStep ==
  ASSUME TypeOK, NEW r \in Run, NEW i \in Nodes(g), NEW n \in Name
  PROVE  LET before == Env(r)[i - 1] IN
         Env(r)[i][n] =
           IF Results(g, i, n) = {} THEN before[n]
           ELSE NodeValue(i, CHOOSE k \in Results(g, i, n) : \A l \in Results(g, i, n) : l <= k,
                          ArgsIn(before, i), CapturedIn(before, i))
<1>1. Env(r)[i] = After(i, Env(r)[i - 1])
  BY EnvIs DEF Nodes
<1> QED
  BY <1>1 DEF After

-----------------------------------------------------------------------------
(* Where the values are.                                                    *)

(* The last node run r has computed, and what a name then means to it.      *)
At(r) == IF pc[r] = "close" THEN node[r] ELSE node[r] - 1
Value(r, n) == Env(r)[At(r)][n]
StoredBy(r, n) == \E j \in 1 .. At(r) : Stores(g, j, n)
Given(r, n) == Fed(g, n) \/ StoredBy(r, n)
Wanted(r, n) == n \in OutputSet(g) \/ \E j \in node[r] .. g.n : Uses(g, j, n) # {}

(* What the run state holds is the value of a name that was given one.      *)
HostDenoted(r) == \A n \in Name :
  host[r][n] # NoValue => Given(r, n) /\ host[r][n] = Value(r, n)

(* What an entry stands for is the value of its name, and is still in its   *)
(* buffer: the result of a node that may stay on the device, or an operand  *)
(* that was uploaded, perhaps an initializer.                               *)
DeviceDenoted(r) == \A n \in Name : OnDevice(r, n) =>
  /\ content[device[r][n].buf] = device[r][n].bytes
  /\ device[r][n].val = Value(r, n)
  /\ Produced(r, n) => MayKeep(g, n) /\ StoredBy(r, n)
  /\ ~Produced(r, n) =>
       \/ Given(r, n)
       \/ n \in g.weights /\ \E j \in 1 .. node[r] : MayPromote(g, j, n)

(* A value that is still needed and is neither on the host nor produced on  *)
(* the device is an initializer's, or none.                                 *)
NowhereLoaded(r) == \A n \in Name :
  Wanted(r, n) /\ host[r][n] = NoValue /\ ~Produced(r, n) => Value(r, n) = Loaded(n)

Answered(r) == \A n \in OutputSet(g) : HostValue(r, n) = Env(r)[g.n][n]

ValueInv(r) ==
  /\ Active(r) => HostDenoted(r) /\ DeviceDenoted(r) /\ NowhereLoaded(r)
  /\ pc[r] = "done" => Answered(r)

AInv == \A r \in Run : ValueInv(r)

-----------------------------------------------------------------------------
(* What a node reads.                                                       *)

LEMMA HostReads ==
  ASSUME NEW r \in Run, ValueInv(r), Active(r), NEW n \in Name, Wanted(r, n),
         host[r][n] # NoValue \/ ~Produced(r, n)
  PROVE  HostValue(r, n) = Value(r, n)
<1>1. n # NoName
  BY NoNameAssumption
<1>2. CASE host[r][n] # NoValue
  BY <1>1, <1>2 DEF ValueInv, HostDenoted, HostValue
<1>3. CASE host[r][n] = NoValue
  <2>1. Value(r, n) = Loaded(n)
    BY <1>3 DEF ValueInv, NowhereLoaded
  <2> QED
    BY <1>1, <1>3, <2>1 DEF HostValue, Loaded
<1> QED
  BY <1>2, <1>3

LEMMA DeviceReads ==
  ASSUME NEW r \in Run, ValueInv(r), Active(r), NEW n \in Name, OnDevice(r, n)
  PROVE  ReadDevice(r, n) = Value(r, n)
BY DEF ValueInv, DeviceDenoted, ReadDevice

(* A name that stays on the device is nobody's capture and no output.       *)
LEMMA KeptElsewhere ==
  ASSUME NEW r \in Run, ValueInv(r), Active(r), NEW n \in Name, Produced(r, n)
  PROVE  n \notin OutputSet(g) /\ \A i \in Nodes(g) : n \notin g.caps[i]
<1>1. OnDevice(r, n)
  BY DEF Produced
<1> QED
  BY <1>1 DEF ValueInv, DeviceDenoted, MayKeep

(* The operands at node i, which the run is at.                             *)
LEMMA OperandOf ==
  ASSUME TypeOK, NEW r \in Run, pc[r] = "offer", node[r] \in Nodes(g),
         NEW k \in DOMAIN g.ins[node[r]]
  PROVE  /\ k \in Nat /\ At(r) = node[r] - 1
         /\ g.ins[node[r]][k] \in Name \cup {NoName}
         /\ g.ins[node[r]][k] \in Name => Wanted(r, g.ins[node[r]][k])
<1>1. node[r] \in node[r] .. g.n
  BY SessionType DEF TypeOK
<1>2. Uses(g, node[r], g.ins[node[r]][k]) # {}
  BY DEF Uses
<1>3. g.ins[node[r]][k] \in Name \cup {NoName} /\ k \in Nat
  BY SessionType DEF TypeOK
<1> QED
  BY <1>1, <1>2, <1>3 DEF Wanted, At

(* What a kernel that takes the node sees in its slots is what the node's   *)
(* operands mean: bound on the device, served from the weight cache, or on  *)
(* the host.                                                                *)
LEMMA KernelReads ==
  ASSUME TInv, NEW r \in Run, ValueInv(r), NoneOverlooked(g),
         Offered(r, Accelerators), Runnable(r, node[r]),
         NEW k \in DOMAIN g.ins[node[r]]
  PROVE  KernelArg(r, node[r], k) = ArgOf(Env(r)[node[r] - 1], g.ins[node[r]][k])
<1> DEFINE i == node[r]
           n == g.ins[i][k]
<1>1. TypeOK /\ pc[r] = "offer" /\ node[r] \in Nodes(g) /\ Active(r)
  BY OfferedNode DEF TInv, Offered, Active
<1>2. /\ k \in Nat /\ At(r) = i - 1 /\ n \in Name \cup {NoName}
      /\ n \in Name => Wanted(r, n)
  BY <1>1, OperandOf
<1>3. KernelArg(r, i, k) =
        IF OnDevice(r, n) /\ k \in g.accepts[i] /\ Accelerator(r) \in Binding
          THEN ReadDevice(r, n)
        ELSE IF k \in g.keyed[i] /\ Key(r, n) /\ cached[n] # NoValue THEN cached[n]
        ELSE HostValue(r, n)
  BY DEF KernelArg
<1> HIDE DEF n
<1>4. n \in Name => ArgOf(Env(r)[i - 1], n) = Value(r, n)
  BY <1>2, NoNameAssumption DEF ArgOf, Value
<1>5. CASE n \notin Name
  <2>1. n = NoName
    BY <1>2, <1>5
  <2>2. ~OnDevice(r, n) /\ ~Key(r, n)
    BY <1>1, <1>5, <2>1, SessionType DEF OnDevice, Key, TypeOK
  <2> QED
    BY <1>3, <2>1, <2>2 DEF HostValue, ArgOf, n
<1>6. CASE n \in Name /\ OnDevice(r, n) /\ k \in g.accepts[i] /\ Accelerator(r) \in Binding
  BY <1>1, <1>3, <1>4, <1>6, DeviceReads DEF n
<1>7. ASSUME n \in Name, Key(r, n), cached[n] # NoValue PROVE cached[n] = Value(r, n)
  <2>1. cached[n] = WeightValue(n)
    BY <1>1, <1>7 DEF TypeOK
  <2>2. Value(r, n) = Loaded(n) /\ n \in g.weights
    BY <1>1, <1>2, <1>7 DEF Key, ValueInv, NowhereLoaded
  <2> QED
    BY <2>1, <2>2 DEF Loaded
<1>8. CASE n \in Name /\ ~(OnDevice(r, n) /\ k \in g.accepts[i] /\ Accelerator(r) \in Binding)
  <2>1. CASE k \in g.keyed[i] /\ Key(r, n) /\ cached[n] # NoValue
    BY <1>3, <1>4, <1>7, <1>8, <2>1 DEF n
  <2>2. CASE ~(k \in g.keyed[i] /\ Key(r, n) /\ cached[n] # NoValue)
    <3>1. KernelArg(r, i, k) = HostValue(r, n)
      BY <1>3, <1>8, <2>2
    <3>2. CASE host[r][n] # NoValue \/ ~Produced(r, n)
      BY <1>1, <1>2, <1>4, <1>8, <3>1, <3>2, HostReads DEF n
    <3>3. CASE host[r][n] = NoValue /\ Produced(r, n)
      <4>1. OnDevice(r, n) /\ MayKeep(g, n) /\ StoredBy(r, n)
        BY <1>1, <1>8, <3>3 DEF ValueInv, DeviceDenoted, Produced
      <4>2. \E j \in Nodes(g) : Stores(g, j, n)
        <5>1. PICK j \in 1 .. At(r) : Stores(g, j, n)
          BY <4>1 DEF StoredBy
        <5>2. j \in Nodes(g)
          BY <1>1, <1>2, SessionType DEF TypeOK, Nodes
        <5> QED
          BY <5>1, <5>2
      <4>3. n # NoName
        BY <1>8, NoNameAssumption
      <4>4. \/ k \in g.accepts[i] /\ \A l \in DOMAIN g.chain[i] : g.chain[i][l] \in Binding
            \/ k \in g.needs[i] /\ n \notin g.weights
        BY <1>1, <4>1, <4>2, <4>3 DEF NoneOverlooked, n
      <4>5. Accelerator(r) = g.chain[i][tried[r] + 1] /\ tried[r] + 1 \in DOMAIN g.chain[i]
        <5>1. tried[r] \in Nat /\ tried[r] < Len(g.chain[i]) /\ g.chain[i] \in Seq(Accelerators)
          BY <1>1, SessionType DEF Offered, Chain, TypeOK
        <5> QED
          BY <5>1, LenProperties DEF Accelerator, Chain
      <4>6. k \in g.needs[i] /\ n \notin g.weights
        BY <1>8, <4>1, <4>4, <4>5
      <4>7. HostValue(r, n) = NoValue
        BY <3>3, <4>3, <4>6 DEF HostValue
      <4>8. KernelArg(r, i, k) # NoValue
        BY <4>6 DEF Runnable
      <4> QED
        BY <3>1, <4>7, <4>8
    <3> QED
      BY <3>2, <3>3
  <2> QED
    BY <2>1, <2>2
<1> QED
  BY <1>2, <1>5, <1>6, <1>8

(* What a kernel that takes the node computes is what the node denotes.     *)
LEMMA KernelComputes ==
  ASSUME TInv, NEW r \in Run, ValueInv(r), NoneOverlooked(g),
         Offered(r, Accelerators), Runnable(r, node[r]), NEW k
  PROVE  LET before == Env(r)[node[r] - 1] IN
         KernelResult(r, node[r], k) =
           NodeValue(node[r], k, ArgsIn(before, node[r]), CapturedIn(before, node[r]))
<1>1. \A j \in DOMAIN g.ins[node[r]] :
        KernelArg(r, node[r], j) = ArgOf(Env(r)[node[r] - 1], g.ins[node[r]][j])
  BY KernelReads
<1>2. [j \in DOMAIN g.ins[node[r]] |-> KernelArg(r, node[r], j)]
        = ArgsIn(Env(r)[node[r] - 1], node[r])
  BY <1>1 DEF ArgsIn
<1>3. CapturedIn(Env(r)[node[r] - 1], node[r]) = {}
  BY DEF Runnable, CapturedIn
<1> QED
  BY <1>2, <1>3 DEF KernelResult

(* So is what the CPU computes, once the operands that were only on the     *)
(* device have been read back.                                              *)
LEMMA HostComputes ==
  ASSUME TInv, NEW r \in Run, ValueInv(r), OnHost(r), Stranded(r) = {}, NEW k
  PROVE  LET before == Env(r)[node[r] - 1] IN
         NodeValue(node[r], k, [j \in DOMAIN g.ins[node[r]] |-> HostValue(r, g.ins[node[r]][j])],
                   {<<m, HostValue(r, m)>> : m \in g.caps[node[r]]}) =
           NodeValue(node[r], k, ArgsIn(before, node[r]), CapturedIn(before, node[r]))
<1> DEFINE i == node[r]
           before == Env(r)[i - 1]
<1>1. TypeOK /\ pc[r] = "offer" /\ i \in Nodes(g) /\ Active(r)
  BY OfferedNode DEF TInv, OnHost, Active
<1>2. At(r) = i - 1
  BY <1>1 DEF At
<1>3. ASSUME NEW j \in DOMAIN g.ins[i]
      PROVE  HostValue(r, g.ins[i][j]) = ArgOf(before, g.ins[i][j])
  <2>1. /\ g.ins[i][j] \in Name \cup {NoName}
        /\ g.ins[i][j] \in Name => Wanted(r, g.ins[i][j])
    BY <1>1, OperandOf
  <2>2. CASE g.ins[i][j] = NoName
    BY <2>2 DEF HostValue, ArgOf
  <2>3. CASE g.ins[i][j] \in Name
    <3>1. g.ins[i][j] \in Inputs(i)
      BY <2>3, NoNameAssumption DEF Inputs
    <3>2. host[r][g.ins[i][j]] # NoValue \/ ~Produced(r, g.ins[i][j])
      BY <3>1 DEF Stranded
    <3>3. HostValue(r, g.ins[i][j]) = Value(r, g.ins[i][j])
      BY <1>1, <2>1, <2>3, <3>2, HostReads
    <3> QED
      BY <1>2, <2>3, <3>3, NoNameAssumption DEF Value, ArgOf
  <2> QED
    BY <2>1, <2>2, <2>3
<1>4. ASSUME NEW m \in g.caps[i] PROVE HostValue(r, m) = before[m]
  <2>1. m \in Name
    BY <1>1, SessionType DEF TypeOK
  <2>2. Uses(g, i, m) # {} /\ i \in i .. g.n
    <3>1. <<i, 0>> \in Uses(g, i, m)
      BY DEF Uses
    <3>2. i \in i .. g.n
      BY <1>1, SessionType DEF TypeOK
    <3> QED
      BY <3>1, <3>2
  <2>3. Wanted(r, m)
    BY <2>2 DEF Wanted
  <2>4. ~Produced(r, m)
    BY <1>1, <2>1, KeptElsewhere
  <2>5. HostValue(r, m) = Value(r, m)
    BY <1>1, <2>1, <2>3, <2>4, HostReads
  <2> QED
    BY <1>2, <2>5 DEF Value
<1> HIDE DEF before
<1>5. [j \in DOMAIN g.ins[i] |-> HostValue(r, g.ins[i][j])] = ArgsIn(before, i)
  BY <1>3 DEF ArgsIn
<1>6. {<<m, HostValue(r, m)>> : m \in g.caps[i]} = CapturedIn(before, i)
  BY <1>4 DEF CapturedIn
<1> QED
  BY <1>5, <1>6 DEF before

-----------------------------------------------------------------------------
(* The steps keep the values.                                               *)

(* A run whose cursor, tensors and entries stay has its values still, if    *)
(* nobody has written to its buffers.                                       *)
LEMMA ValuesStay ==
  ASSUME TypeOK, NEW s \in Run, ValueInv(s),
         g' = g, pc'[s] = pc[s], node'[s] = node[s], host'[s] = host[s],
         device'[s] = device[s], \A b \in BoundBy(s) : content'[b] = content[b]
  PROVE  ValueInv(s)'
<1>1. /\ Env(s)' = Env(s) /\ At(s)' = At(s) /\ (Active(s)' <=> Active(s))
      /\ \A n \in Name : OnDevice(s, n)' <=> OnDevice(s, n)
      /\ \A n \in Name : Produced(s, n)' <=> Produced(s, n)
  BY EnvSame DEF At, Active, OnDevice, Produced
<1>2. \A n \in Name : /\ Value(s, n)' = Value(s, n)
                      /\ Given(s, n)' <=> Given(s, n)
                      /\ Wanted(s, n)' <=> Wanted(s, n)
                      /\ Loaded(n)' = Loaded(n)
                      /\ HostValue(s, n)' = HostValue(s, n)
                      /\ StoredBy(s, n)' <=> StoredBy(s, n)
  BY <1>1 DEF Value, Given, StoredBy, Wanted, Loaded, HostValue, WeightValue, NoValue
<1>3. HostDenoted(s) => HostDenoted(s)'
  BY <1>2 DEF HostDenoted, NoValue
<1>4. ASSUME DeviceDenoted(s), NEW n \in Name, OnDevice(s, n)'
      PROVE  /\ content'[device'[s][n].buf] = device'[s][n].bytes
             /\ device'[s][n].val = Value(s, n)'
             /\ Produced(s, n)' => MayKeep(g', n) /\ StoredBy(s, n)'
             /\ ~Produced(s, n)' =>
                  \/ Given(s, n)'
                  \/ n \in g'.weights /\ \E j \in 1 .. node'[s] : MayPromote(g', j, n)
  <2>1. OnDevice(s, n) /\ device[s][n].buf \in BoundBy(s)
    BY <1>1, <1>4 DEF BoundBy
  <2>2. content'[device[s][n].buf] = content[device[s][n].buf]
    BY <2>1
  <2> QED
    BY <1>1, <1>2, <1>4, <2>1, <2>2 DEF DeviceDenoted
<1>5. DeviceDenoted(s) => DeviceDenoted(s)'
  BY <1>4 DEF DeviceDenoted
<1>6. NowhereLoaded(s) => NowhereLoaded(s)'
  BY <1>1, <1>2 DEF NowhereLoaded, NoValue
<1>7. Answered(s) => Answered(s)'
  <2>1. OutputSet(g) \subseteq Name
    BY SessionType DEF TypeOK
  <2> QED
    BY <1>1, <1>2, <2>1 DEF Answered
<1> QED
  BY <1>1, <1>3, <1>5, <1>6, <1>7 DEF ValueInv

(* A run begins with what was fed.                                          *)
LEMMA ValuesStarted ==
  ASSUME TInv, NEW r \in Run, Start(r)
  PROVE  ValueInv(r)'
<1>1. /\ g' = g /\ pc'[r] = "offer" /\ node'[r] = 1 /\ device'[r] = device[r]
      /\ host'[r] = [n \in Name |-> IF Fed(g, n) THEN InputValue(r, n) ELSE NoValue]
      /\ \A n \in Name : ~OnDevice(r, n)
  BY DEF Start, TInv, TypeOK, Cursor, CursorOf, Fed
<1>2. Env(r)' = Env(r) /\ At(r)' = 0 /\ Env(r)[0] = Seed(r)
  BY <1>1, EnvSame, EnvIs DEF At, TInv
<1>3. ASSUME NEW n \in Name
      PROVE  /\ Value(r, n)' = IF Fed(g, n) THEN InputValue(r, n) ELSE Loaded(n)
             /\ host'[r][n] = IF Fed(g, n) THEN InputValue(r, n) ELSE NoValue
             /\ Fed(g, n) => Given(r, n)'
             /\ Loaded(n)' = Loaded(n)
             /\ ~OnDevice(r, n)'
  <2>1. Value(r, n)' = Seed(r)[n]
    BY <1>2 DEF Value
  <2> QED
    BY <1>1, <2>1 DEF Seed, Given, Fed, Loaded, OnDevice, WeightValue, NoValue
<1>4. \A n : InputValue(r, n) # NoValue
  BY DEF InputValue, NoValue
<1>5. HostDenoted(r)'
  BY <1>3 DEF HostDenoted, NoValue
<1>6. DeviceDenoted(r)'
  BY <1>3 DEF DeviceDenoted
<1>7. NowhereLoaded(r)'
  BY <1>3, <1>4 DEF NowhereLoaded, NoValue
<1> QED
  BY <1>1, <1>5, <1>6, <1>7 DEF ValueInv

(* A run that is over or not begun has no values to keep.                   *)
LEMMA ValuesFailed ==
  ASSUME TInv, NEW r \in Run, Fail(r)
  PROVE  ValueInv(r)'
BY DEF Fail, TInv, TypeOK, ValueInv, Active

(* A read back puts the value the device holds beside it on the host.       *)
LEMMA ValuesReadBack ==
  ASSUME TInv, NEW r \in Run, ValueInv(r), ReadBack(r)
  PROVE  ValueInv(r)'
<1>1. TypeOK /\ node[r] \in Nodes(g) /\ pc[r] = "offer" /\ Active(r)
  BY OfferedNode DEF TInv, ReadBack, OnHost, Active
<1>2. PICK n \in Stranded(r) : host' = [host EXCEPT ![r][n] = ReadDevice(r, n)]
  BY DEF ReadBack
<1>3. UNCHANGED <<g, pc, node, device, content>>
  BY DEF ReadBack, memory
<1>4. n \in Name /\ Produced(r, n) /\ OnDevice(r, n)
  <2>1. \A k \in DOMAIN g.ins[node[r]] : g.ins[node[r]][k] \in Name \cup {NoName}
    BY <1>1, SessionType DEF TypeOK
  <2> QED
    BY <2>1 DEF Stranded, Inputs, Produced
<1>5. host'[r][n] = Value(r, n) /\ Given(r, n)
  <2>1. host'[r][n] = ReadDevice(r, n)
    BY <1>1, <1>2, <1>4 DEF TypeOK
  <2>2. StoredBy(r, n)
    BY <1>1, <1>4 DEF ValueInv, DeviceDenoted
  <2> QED
    BY <1>1, <1>4, <2>1, <2>2, DeviceReads DEF Given
<1>6. \A m \in Name \ {n} : host'[r][m] = host[r][m]
  BY <1>1, <1>2 DEF TypeOK
<1>7. /\ Env(r)' = Env(r) /\ At(r)' = At(r)
      /\ \A m \in Name : /\ OnDevice(r, m)' <=> OnDevice(r, m)
                         /\ Produced(r, m)' <=> Produced(r, m)
                         /\ Value(r, m)' = Value(r, m)
                         /\ StoredBy(r, m)' <=> StoredBy(r, m)
                         /\ Given(r, m)' <=> Given(r, m)
                         /\ Wanted(r, m)' <=> Wanted(r, m)
                         /\ Loaded(m)' = Loaded(m)
  <2>1. Env(r)' = Env(r) /\ At(r)' = At(r)
    BY <1>3, EnvSame DEF At
  <2> QED
    BY <1>3, <2>1 DEF OnDevice, Produced, Value, StoredBy, Given, Wanted, Loaded, WeightValue,
       NoValue
<1>8. HostDenoted(r)'
  BY <1>1, <1>5, <1>6, <1>7 DEF ValueInv, HostDenoted, NoValue
<1>9. DeviceDenoted(r)'
  BY <1>1, <1>3, <1>7 DEF ValueInv, DeviceDenoted
<1>10. NowhereLoaded(r)'
  BY <1>1, <1>4, <1>6, <1>7 DEF ValueInv, NowhereLoaded, NoValue
<1> QED
  BY <1>1, <1>3, <1>8, <1>9, <1>10 DEF ValueInv

(* An operand that is uploaded is what the host holds of it.                *)
LEMMA ValuesPromoted ==
  ASSUME MInv, NEW r \in Run, ValueInv(r), Promote(r)
  PROVE  ValueInv(r)'
<1>1. TypeOK /\ node[r] \in Nodes(g) /\ pc[r] = "offer" /\ Active(r)
  BY PromoteIs DEF MInv, TInv, Active
<1>2. PICK n \in Name, b \in Allocations :
        /\ MayPromote(g, node[r], n)
        /\ Uses(g, node[r], n) # {}
        /\ ~OnDevice(r, n) /\ HostValue(r, n) # NoValue
        /\ device' = [device EXCEPT ![r][n] = Uploaded(b, HostValue(r, n))]
        /\ content' = [content EXCEPT ![b] = HostValue(r, n)]
  BY <1>1, PromoteIs
<1>3. UNCHANGED <<g, pc, node, host>>
  BY DEF Promote
<1>4. b \in Buffer /\ b \notin BoundBy(r)
  BY FreshBuffer
<1>5. /\ \A m \in Name \ {n} : device'[r][m] = device[r][m]
      /\ device'[r][n] = Uploaded(b, HostValue(r, n)) /\ OnDevice(r, n)'
  <2> DEFINE e == Uploaded(b, HostValue(r, n))
  <2>1. /\ e # NoBinding /\ IsBinding(e)
        /\ device' = [device EXCEPT ![r][n] = e]
    BY <1>2, <1>4, EntryIs
  <2> HIDE DEF e
  <2>2. /\ \A m \in Name \ {n} : device'[r][m] = device[r][m]
        /\ device'[r][n] = e /\ OnDevice(r, n)'
    BY ZenonT(40), <1>1, <2>1, EntryPut
  <2> QED
    BY <2>2 DEF e
<1>6. /\ device'[r][n].buf = b /\ device'[r][n].bytes = HostValue(r, n)
      /\ device'[r][n].val = HostValue(r, n) /\ ~Produced(r, n)'
  BY <1>4, <1>5, EntryIs DEF Produced
<1>7. /\ Env(r)' = Env(r) /\ At(r)' = At(r)
      /\ \A m \in Name : /\ Value(r, m)' = Value(r, m)
                         /\ StoredBy(r, m)' <=> StoredBy(r, m)
                         /\ Given(r, m)' <=> Given(r, m)
                         /\ Wanted(r, m)' <=> Wanted(r, m)
                         /\ Loaded(m)' = Loaded(m)
  <2>1. Env(r)' = Env(r) /\ At(r)' = At(r)
    BY <1>3, EnvSame DEF At
  <2> QED
    BY <1>3, <2>1 DEF Value, StoredBy, Given, Wanted, Loaded, WeightValue, NoValue
<1>8. ASSUME NEW m \in Name \ {n}
      PROVE  /\ (OnDevice(r, m)' <=> OnDevice(r, m)) /\ device'[r][m] = device[r][m]
             /\ Produced(r, m)' <=> Produced(r, m)
  <2>1. device'[r][m] = device[r][m]
    BY <1>5
  <2> QED
    BY <2>1 DEF OnDevice, Produced
<1>9. HostValue(r, n) = Value(r, n)
  <2>1. Wanted(r, n)
    <3>1. node[r] \in node[r] .. g.n
      BY <1>1, SessionType DEF TypeOK
    <3> QED
      BY <1>2, <3>1 DEF Wanted
  <2>2. ~Produced(r, n)
    BY <1>2 DEF Produced
  <2> QED
    BY <1>1, <2>1, <2>2, HostReads
<1>10. HostDenoted(r)'
  BY <1>1, <1>3, <1>7 DEF ValueInv, HostDenoted, NoValue
<1>11. ASSUME NEW m \in Name, OnDevice(r, m)'
       PROVE  /\ content'[device'[r][m].buf] = device'[r][m].bytes
              /\ device'[r][m].val = Value(r, m)'
              /\ Produced(r, m)' => MayKeep(g', m) /\ StoredBy(r, m)'
              /\ ~Produced(r, m)' =>
                   \/ Given(r, m)'
                   \/ m \in g'.weights /\ \E j \in 1 .. node'[r] : MayPromote(g', j, m)
  <2>1. CASE m = n
    <3>1. content'[b] = HostValue(r, n)
      BY <1>1, <1>2, <1>4 DEF TypeOK
    <3>2. node[r] \in 1 .. node[r]
      BY <1>1, SessionType DEF TypeOK
    <3>3. Given(r, n) \/ n \in g.weights
      <4>1. host[r][n] # NoValue \/ n \in g.weights
        BY <1>2, NoNameAssumption DEF HostValue
      <4> QED
        BY <1>1, <4>1 DEF ValueInv, HostDenoted
    <3> QED
      BY <1>2, <1>3, <1>6, <1>7, <1>9, <2>1, <3>1, <3>2, <3>3
  <2>2. CASE m # n
    <3>1. OnDevice(r, m) /\ device[r][m].buf \in BoundBy(r)
      BY <1>8, <1>11, <2>2 DEF BoundBy
    <3>2. content'[device[r][m].buf] = content[device[r][m].buf]
      BY <1>1, <1>2, <1>4, <3>1, EntryOf DEF TypeOK
    <3> QED
      BY <1>1, <1>3, <1>7, <1>8, <2>2, <3>1, <3>2 DEF ValueInv, DeviceDenoted
  <2> QED
    BY <2>1, <2>2
<1>12. DeviceDenoted(r)'
  BY <1>11 DEF DeviceDenoted
<1>13. NowhereLoaded(r)'
  <2>1. \A m \in Name : Produced(r, m) => Produced(r, m)'
    BY <1>2, <1>8 DEF Produced
  <2> QED
    BY <1>1, <1>3, <1>7, <2>1 DEF ValueInv, NowhereLoaded, NoValue
<1> QED
  BY <1>1, <1>3, <1>10, <1>12, <1>13 DEF ValueInv

(* Node i is done: what it stores has its value, the rest keeps it.         *)
LEMMA NodeDone ==
  ASSUME TypeOK, NEW r \in Run, node[r] \in Nodes(g), pc[r] = "offer",
         g' = g, pc'[r] = "close", node'[r] = node[r], NEW n \in Name
  PROVE  /\ Env(r)' = Env(r)
         /\ Value(r, n)' = Env(r)[node[r]][n]
         /\ ~Stores(g, node[r], n) => Value(r, n)' = Value(r, n)
         /\ Stores(g, node[r], n) => StoredBy(r, n)' /\ Given(r, n)'
         /\ StoredBy(r, n) => StoredBy(r, n)'
         /\ Given(r, n) => Given(r, n)'
         /\ Wanted(r, n)' <=> Wanted(r, n)
         /\ Loaded(n)' = Loaded(n)
<1>1. Env(r)' = Env(r) /\ At(r) = node[r] - 1 /\ At(r)' = node[r]
  BY EnvSame DEF At
<1>2. node[r] \in Nat /\ node[r] >= 1
  BY SessionType DEF TypeOK
<1>3. Value(r, n)' = Env(r)[node[r]][n] /\ Value(r, n) = Env(r)[node[r] - 1][n]
  BY <1>1 DEF Value
<1>4. ~Stores(g, node[r], n) => Value(r, n)' = Value(r, n)
  BY <1>3, EnvStep DEF Stores
<1>5. \A j \in 1 .. node[r] - 1 : j \in 1 .. node[r]
  BY <1>2
<1>6. node[r] \in 1 .. node[r]
  BY <1>2
<1>7. StoredBy(r, n)' <=> \E j \in 1 .. node[r] : Stores(g, j, n)
  BY <1>1 DEF StoredBy
<1>8. StoredBy(r, n) <=> \E j \in 1 .. node[r] - 1 : Stores(g, j, n)
  BY <1>1 DEF StoredBy
<1>9. Given(r, n)' <=> (Fed(g, n) \/ StoredBy(r, n)')
  BY DEF Given
<1>10. Given(r, n) <=> (Fed(g, n) \/ StoredBy(r, n))
  BY DEF Given
<1>11. (Wanted(r, n)' <=> Wanted(r, n)) /\ Loaded(n)' = Loaded(n)
  BY DEF Wanted, Loaded, WeightValue, NoValue
<1> QED
  BY <1>1, <1>3, <1>4, <1>5, <1>6, <1>7, <1>8, <1>9, <1>10, <1>11

(* What a node stores was not given a value before.                         *)
LEMMA NotYetGiven ==
  ASSUME TypeOK, NEW r \in Run, node[r] \in Nodes(g), pc[r] = "offer",
         GivenOnce(g), NEW n \in Name, Stores(g, node[r], n)
  PROVE  ~Given(r, n)
<1>1. ~Fed(g, n) /\ \A j \in Nodes(g) \ {node[r]} : ~Stores(g, j, n)
  BY DEF GivenOnce
<1>2. \A j \in 1 .. node[r] - 1 : j \in Nodes(g) \ {node[r]}
  BY SessionType DEF TypeOK, Nodes
<1> QED
  BY <1>1, <1>2 DEF Given, StoredBy, At

LEMMA OneStored ==
  ASSUME NEW s \in Sessions, NEW i \in Nodes(s), Len(s.outs[i]) = 1,
         NEW m \in Name, m # s.outs[i][1]
  PROVE  ~Stores(s, i, m)
<1>1. DOMAIN s.outs[i] = 1 .. 1
  BY SessionType
<1>2. ASSUME NEW k \in DOMAIN s.outs[i] PROVE k = 1
  BY <1>1, <1>2
<1> QED
  BY <1>2 DEF Stores, Results

(* The result of a node is left on the device and nowhere else.             *)
LEMMA ValuesComputed ==
  ASSUME TypeOK, NEW r \in Run, ValueInv(r), GivenOnce(g),
         node[r] \in Nodes(g), pc[r] = "offer", 1 \in DOMAIN g.outs[node[r]],
         Len(g.outs[node[r]]) = 1, node[r] \in g.views \cup g.placed,
         NEW n \in Name, n = g.outs[node[r]][1], MayKeep(g, n),
         g' = g, pc'[r] = "close", node'[r] = node[r], host'[r] = host[r],
         \A m \in Name \ {n} : device'[r][m] = device[r][m],
         OnDevice(r, n)', device'[r][n].produced,
         device'[r][n].val = Env(r)[node[r]][n],
         content'[device'[r][n].buf] = device'[r][n].bytes,
         \A m \in Name \ {n} : OnDevice(r, m) =>
           content'[device[r][m].buf] = content[device[r][m].buf]
  PROVE  ValueInv(r)'
<1>1. Active(r) /\ Active(r)'
  BY DEF Active
<1>2. Stores(g, node[r], n)
  BY KeptIsStored DEF Stores
<1>3. \A m \in Name \ {n} : ~Stores(g, node[r], m)
  <2>1. g \in Sessions
    BY DEF TypeOK
  <2> QED
    BY <2>1, OneStored
<1>4. host[r][n] = NoValue
  BY <1>1, <1>2, NotYetGiven DEF ValueInv, HostDenoted
<1>5. Produced(r, n)' /\ StoredBy(r, n)' /\ Value(r, n)' = Env(r)[node[r]][n]
  BY <1>2, NodeDone DEF Produced
<1>6. ASSUME NEW m \in Name \ {n}
      PROVE  /\ device'[r][m] = device[r][m] /\ (OnDevice(r, m)' <=> OnDevice(r, m))
             /\ Produced(r, m)' <=> Produced(r, m)
             /\ Value(r, m)' = Value(r, m)
             /\ StoredBy(r, m) => StoredBy(r, m)'
             /\ Given(r, m) => Given(r, m)'
             /\ Wanted(r, m)' <=> Wanted(r, m)
             /\ Loaded(m)' = Loaded(m)
  <2>1. device'[r][m] = device[r][m]
    OBVIOUS
  <2>2. (OnDevice(r, m)' <=> OnDevice(r, m)) /\ (Produced(r, m)' <=> Produced(r, m))
    BY <2>1 DEF OnDevice, Produced
  <2> QED
    BY <1>3, <2>1, <2>2, NodeDone
<1>7. ASSUME NEW m \in Name, host'[r][m] # NoValue
      PROVE  Given(r, m)' /\ host'[r][m] = Value(r, m)'
  <2>1. m # n /\ host[r][m] # NoValue
    BY <1>4, <1>7
  <2> QED
    BY ZenonT(40), <1>1, <1>6, <2>1 DEF ValueInv, HostDenoted
<1>8. ASSUME NEW m \in Name, OnDevice(r, m)'
      PROVE  /\ content'[device'[r][m].buf] = device'[r][m].bytes
             /\ device'[r][m].val = Value(r, m)'
             /\ Produced(r, m)' => MayKeep(g', m) /\ StoredBy(r, m)'
             /\ ~Produced(r, m)' =>
                  \/ Given(r, m)'
                  \/ m \in g'.weights /\ \E j \in 1 .. node'[r] : MayPromote(g', j, m)
  <2>1. CASE m = n
    BY <1>5, <2>1
  <2>2. CASE m # n
    <3>1. /\ OnDevice(r, m) /\ device'[r][m] = device[r][m]
          /\ (Produced(r, m)' <=> Produced(r, m)) /\ Value(r, m)' = Value(r, m)
          /\ StoredBy(r, m) => StoredBy(r, m)'
          /\ Given(r, m) => Given(r, m)'
      BY <1>6, <1>8, <2>2
    <3>2. /\ content[device[r][m].buf] = device[r][m].bytes
          /\ device[r][m].val = Value(r, m)
          /\ Produced(r, m) => MayKeep(g, m) /\ StoredBy(r, m)
          /\ ~Produced(r, m) =>
               \/ Given(r, m)
               \/ m \in g.weights /\ \E j \in 1 .. node[r] : MayPromote(g, j, m)
      BY <1>1, <3>1 DEF ValueInv, DeviceDenoted
    <3>3. content'[device[r][m].buf] = content[device[r][m].buf]
      BY <2>2, <3>1
    <3> QED
      BY ZenonT(40), <3>1, <3>2, <3>3
  <2> QED
    BY <2>1, <2>2
<1>9. ASSUME NEW m \in Name, Wanted(r, m)', host'[r][m] = NoValue, ~Produced(r, m)'
      PROVE  Value(r, m)' = Loaded(m)'
  <2>1. m # n
    BY <1>5, <1>9
  <2> QED
    BY ZenonT(40), <1>1, <1>6, <1>9, <2>1 DEF ValueInv, NowhereLoaded
<1>10. HostDenoted(r)' /\ DeviceDenoted(r)' /\ NowhereLoaded(r)'
  BY <1>7, <1>8, <1>9 DEF HostDenoted, DeviceDenoted, NowhereLoaded, NoValue
<1> QED
  BY <1>10 DEF ValueInv

(* The results of a node are stored on the host; no entry has their name.   *)
LEMMA ValuesWritten ==
  ASSUME TypeOK, NEW r \in Run, ValueInv(r), GivenOnce(g), HiddenFirst(g),
         node[r] \in Nodes(g), pc[r] = "offer",
         g' = g, pc'[r] = "close", node'[r] = node[r], device'[r] = device[r],
         content' = content,
         \A n \in Name : ~Stores(g, node[r], n) => host'[r][n] = host[r][n],
         \A n \in Name : Stores(g, node[r], n) => host'[r][n] = Env(r)[node[r]][n]
  PROVE  ValueInv(r)'
<1>1. Active(r) /\ Active(r)'
  BY DEF Active
<1>2. \A n \in Name : (OnDevice(r, n)' <=> OnDevice(r, n)) /\ (Produced(r, n)' <=> Produced(r, n))
  BY DEF OnDevice, Produced
<1>3. ASSUME NEW n \in Name, Stores(g, node[r], n) PROVE ~OnDevice(r, n)
  <2> SUFFICES ASSUME OnDevice(r, n) PROVE FALSE
    OBVIOUS
  <2>1. ~Given(r, n)
    BY <1>3, NotYetGiven
  <2>2. n \in g.weights /\ \E j \in 1 .. node[r] : MayPromote(g, j, n)
    BY <1>1, <2>1 DEF ValueInv, DeviceDenoted, Given
  <2> QED
    BY <1>3, <2>2 DEF HiddenFirst
<1>4. ASSUME NEW n \in Name, Stores(g, node[r], n)
      PROVE  host'[r][n] # NoValue /\ Given(r, n)' /\ host'[r][n] = Value(r, n)'
  <2>1. Env(r)[node[r]][n] # NoValue
    <3>1. \A i, k, args, captured : NodeValue(i, k, args, captured) # NoValue
      BY DEF NodeValue, NoValue
    <3> QED
      BY <1>4, <3>1, EnvStep DEF Stores
  <2> QED
    BY <1>4, <2>1, NodeDone
<1>5. ASSUME NEW n \in Name, ~Stores(g, node[r], n)
      PROVE  /\ host'[r][n] = host[r][n] /\ Value(r, n)' = Value(r, n)
             /\ Given(r, n) => Given(r, n)'
             /\ StoredBy(r, n) => StoredBy(r, n)'
             /\ Wanted(r, n)' <=> Wanted(r, n)
             /\ Loaded(n)' = Loaded(n)
  BY <1>5, NodeDone
<1>6. ASSUME NEW n \in Name, host'[r][n] # NoValue
      PROVE  Given(r, n)' /\ host'[r][n] = Value(r, n)'
  <2>1. CASE Stores(g, node[r], n)
    BY <1>4, <2>1
  <2>2. CASE ~Stores(g, node[r], n)
    BY <1>1, <1>5, <1>6, <2>2 DEF ValueInv, HostDenoted
  <2> QED
    BY <2>1, <2>2
<1>7. ASSUME NEW n \in Name, OnDevice(r, n)'
      PROVE  /\ content'[device'[r][n].buf] = device'[r][n].bytes
             /\ device'[r][n].val = Value(r, n)'
             /\ Produced(r, n)' => MayKeep(g', n) /\ StoredBy(r, n)'
             /\ ~Produced(r, n)' =>
                  \/ Given(r, n)'
                  \/ n \in g'.weights /\ \E j \in 1 .. node'[r] : MayPromote(g', j, n)
  <2>1. OnDevice(r, n) /\ ~Stores(g, node[r], n)
    BY <1>2, <1>3, <1>7
  <2> QED
    BY <1>1, <1>2, <1>5, <2>1 DEF ValueInv, DeviceDenoted
<1>8. ASSUME NEW n \in Name, Wanted(r, n)', host'[r][n] = NoValue, ~Produced(r, n)'
      PROVE  Value(r, n)' = Loaded(n)'
  <2>1. ~Stores(g, node[r], n)
    BY <1>4, <1>8
  <2> QED
    BY <1>1, <1>2, <1>5, <1>8, <2>1 DEF ValueInv, NowhereLoaded
<1>9. HostDenoted(r)' /\ DeviceDenoted(r)' /\ NowhereLoaded(r)'
  BY <1>6, <1>7, <1>8 DEF HostDenoted, DeviceDenoted, NowhereLoaded, NoValue
<1> QED
  BY <1>9 DEF ValueInv

(* A node with one output and a result for it stores that.                  *)
LEMMA OnlyResult ==
  ASSUME TypeOK, NEW r \in Run, NEW i \in Nodes(g), i \in g.views \cup g.placed,
         Len(g.outs[i]) = 1, 1 \in DOMAIN g.outs[i], NEW n \in Name, n = g.outs[i][1]
  PROVE  Env(r)[i][n] = NodeValue(i, 1, ArgsIn(Env(r)[i - 1], i), CapturedIn(Env(r)[i - 1], i))
<1> DEFINE R == Results(g, i, n)
<1>1. R = {1}
  <2>1. DOMAIN g.outs[i] = 1 .. 1
    BY SessionType DEF TypeOK
  <2>2. 1 \in R
    BY KeptIsStored
  <2> QED
    BY <2>1, <2>2 DEF Results
<1>2. (CHOOSE k \in R : \A l \in R : l <= k) = 1
  BY <1>1
<1> HIDE DEF R
<1>3. Env(r)[i][n] = NodeValue(i, CHOOSE k \in R : \A l \in R : l <= k,
                               ArgsIn(Env(r)[i - 1], i), CapturedIn(Env(r)[i - 1], i))
  BY <1>1, EnvStep DEF R
<1> QED
  BY <1>2, <1>3

LEMMA ValuesDispatchDevice ==
  ASSUME MInv, NEW r \in Run, ValueInv(r), Unambiguous(g), DispatchDevice(r)
  PROVE  ValueInv(r)'
<1> DEFINE v == KernelResult(r, node[r], 1)
<1>1. TypeOK /\ TInv
  BY DEF MInv, TInv
<1>2. PICK n \in Name :
        /\ n = g.outs[node[r]][1] /\ MayKeep(g, n) /\ 1 \in DOMAIN g.outs[node[r]]
        /\ node[r] \in g.placed /\ node[r] \in Nodes(g) /\ pc[r] = "offer"
        /\ Runnable(r, node[r]) /\ UNCHANGED <<g, node, host>>
        /\ pc' = [pc EXCEPT ![r] = "close"]
  BY <1>1, DispatchDeviceIs
<1>3. PICK b \in Allocations :
        /\ content' = [content EXCEPT ![b] = v]
        /\ device' = [device EXCEPT ![r][n] = Computed(b, v, v)]
  BY <1>1, <1>2, DispatchDeviceIs
<1>4. Len(g.outs[node[r]]) = 1 /\ Offered(r, Accelerators)
  BY DEF DispatchDevice, Keeps, Offered, Accelerators
<1>5. v = NodeValue(node[r], 1, ArgsIn(Env(r)[node[r] - 1], node[r]),
                    CapturedIn(Env(r)[node[r] - 1], node[r]))
  BY <1>1, <1>2, <1>4, KernelComputes DEF Unambiguous
<1>6. v = Env(r)[node[r]][n]
  BY <1>1, <1>2, <1>4, <1>5, OnlyResult
<1> HIDE DEF v
<1>7. b \in Buffer /\ b \notin BoundBy(r)
  BY FreshBuffer
<1>8. /\ \A m \in Name \ {n} : device'[r][m] = device[r][m]
      /\ OnDevice(r, n)' /\ device'[r][n] = Computed(b, v, v)
  <2> DEFINE e == Computed(b, v, v)
  <2>1. /\ e # NoBinding /\ IsBinding(e)
        /\ device' = [device EXCEPT ![r][n] = e]
    BY <1>3, <1>7, EntryIs
  <2> HIDE DEF e
  <2>2. /\ \A m \in Name \ {n} : device'[r][m] = device[r][m]
        /\ device'[r][n] = e /\ OnDevice(r, n)'
    BY ZenonT(40), <1>1, <2>1, EntryPut
  <2> QED
    BY <2>2 DEF e
<1>9. /\ device'[r][n].buf = b /\ device'[r][n].bytes = v /\ device'[r][n].val = v
      /\ device'[r][n].produced
  BY <1>7, <1>8, EntryIs
<1>10. content'[b] = v /\ \A c \in Buffer \ {b} : content'[c] = content[c]
  BY <1>1, <1>3, <1>7 DEF TypeOK
<1>11. ASSUME NEW m \in Name \ {n}, OnDevice(r, m)
       PROVE  content'[device[r][m].buf] = content[device[r][m].buf]
  <2>1. device[r][m].buf \in BoundBy(r) /\ device[r][m].buf \in Buffer
    BY <1>1, <1>11, EntryOf DEF BoundBy
  <2> QED
    BY <1>7, <1>10, <2>1
<1>12. pc'[r] = "close" /\ node'[r] = node[r] /\ host'[r] = host[r] /\ g' = g
  BY <1>1, <1>2 DEF TypeOK
<1>13. GivenOnce(g)
  BY DEF Unambiguous
<1>14. /\ device'[r][n].val = Env(r)[node[r]][n]
       /\ content'[device'[r][n].buf] = device'[r][n].bytes
  BY <1>6, <1>9, <1>10
<1> QED
  BY <1>1, <1>2, <1>4, <1>8, <1>9, <1>11, <1>12, <1>13, <1>14, ValuesComputed

LEMMA ValuesDispatchView ==
  ASSUME MInv, NEW r \in Run, ValueInv(r), Unambiguous(g), DispatchView(r)
  PROVE  ValueInv(r)'
<1> DEFINE v == KernelResult(r, node[r], 1)
<1>1. TypeOK /\ TInv
  BY DEF MInv, TInv
<1>2. PICK n \in Name, m \in Name :
        /\ n = g.outs[node[r]][1] /\ MayKeep(g, n) /\ 1 \in DOMAIN g.outs[node[r]]
        /\ node[r] \in g.views /\ node[r] \in Nodes(g) /\ pc[r] = "offer"
        /\ Runnable(r, node[r]) /\ UNCHANGED <<g, node, host, content>>
        /\ pc' = [pc EXCEPT ![r] = "close"]
        /\ OnDevice(r, m)
        /\ device' = [device EXCEPT ![r][n] = Computed(device[r][m].buf, device[r][m].bytes, v)]
  BY <1>1, DispatchViewIs
<1>4. Len(g.outs[node[r]]) = 1 /\ Offered(r, Accelerators)
  BY DEF DispatchView, Keeps, Offered, Accelerators, Binding
<1>5. v = NodeValue(node[r], 1, ArgsIn(Env(r)[node[r] - 1], node[r]),
                    CapturedIn(Env(r)[node[r] - 1], node[r]))
  BY <1>1, <1>2, <1>4, KernelComputes DEF Unambiguous
<1>6. v = Env(r)[node[r]][n]
  BY <1>1, <1>2, <1>4, <1>5, OnlyResult
<1> HIDE DEF v
<1> DEFINE b == device[r][m].buf
           w == device[r][m].bytes
<1>7. b \in Buffer /\ content[b] = w
  BY <1>1, <1>2, EntryOf DEF ValueInv, DeviceDenoted, Active
<1> HIDE DEF b, w
<1>8. /\ \A l \in Name \ {n} : device'[r][l] = device[r][l]
      /\ OnDevice(r, n)' /\ device'[r][n] = Computed(b, w, v)
  <2> DEFINE e == Computed(b, w, v)
  <2>1. /\ e # NoBinding /\ IsBinding(e)
        /\ device' = [device EXCEPT ![r][n] = e]
    BY <1>2, <1>7, EntryIs DEF b, w
  <2> HIDE DEF e
  <2>2. /\ \A l \in Name \ {n} : device'[r][l] = device[r][l]
        /\ device'[r][n] = e /\ OnDevice(r, n)'
    BY ZenonT(40), <1>1, <2>1, EntryPut
  <2> QED
    BY <2>2 DEF e
<1>9. /\ device'[r][n].buf = b /\ device'[r][n].bytes = w /\ device'[r][n].val = v
      /\ device'[r][n].produced
  BY <1>7, <1>8, EntryIs
<1>10. pc'[r] = "close" /\ node'[r] = node[r] /\ host'[r] = host[r] /\ g' = g
  BY <1>1, <1>2 DEF TypeOK
<1>11. GivenOnce(g)
  BY DEF Unambiguous
<1>12. /\ device'[r][n].val = Env(r)[node[r]][n]
       /\ content'[device'[r][n].buf] = device'[r][n].bytes
       /\ \A l \in Name \ {n} : content'[device[r][l].buf] = content[device[r][l].buf]
  BY <1>2, <1>6, <1>7, <1>9
<1> QED
  BY <1>1, <1>2, <1>4, <1>8, <1>9, <1>10, <1>11, <1>12, ValuesComputed

LEMMA ValuesDispatchHost ==
  ASSUME TInv, NEW r \in Run, ValueInv(r), Unambiguous(g), DispatchHost(r)
  PROVE  ValueInv(r)'
<1> DEFINE i == node[r]
           Last(n) == LastResult(i, n)
<1>1. /\ TypeOK /\ i \in Nodes(g) /\ pc[r] = "offer"
      /\ Offered(r, Accelerators) /\ Runnable(r, i)
  BY OfferedNode DEF TInv, DispatchHost, Offered
<1>2. /\ UNCHANGED <<g, node, device, content>> /\ pc'[r] = "close"
      /\ host' = [host EXCEPT ![r] = [n \in Name |->
           IF Results(g, i, n) = {} THEN host[r][n] ELSE KernelResult(r, i, Last(n))]]
  BY <1>1 DEF DispatchHost, memory, TypeOK
<1>3. ASSUME NEW n \in Name
      PROVE  host'[r][n] = IF Results(g, i, n) = {} THEN host[r][n] ELSE KernelResult(r, i, Last(n))
  BY <1>1, <1>2 DEF TypeOK
<1>4. ASSUME NEW n \in Name, Results(g, i, n) # {} PROVE host'[r][n] = Env(r)[i][n]
  <2> HIDE DEF Last
  <2>1. KernelResult(r, i, Last(n)) =
          NodeValue(i, Last(n), ArgsIn(Env(r)[i - 1], i), CapturedIn(Env(r)[i - 1], i))
    BY <1>1, KernelComputes DEF Unambiguous
  <2>2. Env(r)[i][n] = NodeValue(i, Last(n), ArgsIn(Env(r)[i - 1], i), CapturedIn(Env(r)[i - 1], i))
    BY <1>1, <1>4, EnvStep DEF Last, LastResult
  <2> QED
    BY <1>3, <1>4, <2>1, <2>2
<1>5. /\ \A n \in Name : ~Stores(g, i, n) => host'[r][n] = host[r][n]
      /\ \A n \in Name : Stores(g, i, n) => host'[r][n] = Env(r)[i][n]
  BY <1>3, <1>4 DEF Stores
<1>6. GivenOnce(g) /\ HiddenFirst(g)
  BY DEF Unambiguous
<1> QED
  BY <1>1, <1>2, <1>5, <1>6, ValuesWritten

LEMMA ValuesHostCompute ==
  ASSUME TInv, NEW r \in Run, ValueInv(r), Unambiguous(g), HostCompute(r)
  PROVE  ValueInv(r)'
<1> DEFINE i == node[r]
           Last(n) == LastResult(i, n)
           Result(k) == NodeValue(i, k, [j \in DOMAIN g.ins[i] |-> HostValue(r, g.ins[i][j])],
                                  {<<m, HostValue(r, m)>> : m \in g.caps[i]})
<1>1. TypeOK /\ i \in Nodes(g) /\ pc[r] = "offer" /\ OnHost(r) /\ Stranded(r) = {}
  BY OfferedNode DEF TInv, HostCompute, OnHost
<1>2. UNCHANGED <<g, node, device, content>> /\ pc'[r] = "close"
  BY <1>1 DEF HostCompute, memory, TypeOK
<1>3. host' = [host EXCEPT ![r] = [n \in Name |->
        IF Results(g, i, n) = {} THEN host[r][n] ELSE Result(Last(n))]]
  BY DEF HostCompute
<1>4. ASSUME NEW k
      PROVE  Result(k) = NodeValue(i, k, ArgsIn(Env(r)[i - 1], i), CapturedIn(Env(r)[i - 1], i))
  BY <1>1, HostComputes
<1> HIDE DEF Result
<1>5. ASSUME NEW n \in Name
      PROVE  host'[r][n] = IF Results(g, i, n) = {} THEN host[r][n] ELSE Result(Last(n))
  BY <1>1, <1>3 DEF TypeOK
<1>6. ASSUME NEW n \in Name, Results(g, i, n) # {} PROVE host'[r][n] = Env(r)[i][n]
  <2> HIDE DEF Last
  <2>1. Env(r)[i][n] = NodeValue(i, Last(n), ArgsIn(Env(r)[i - 1], i), CapturedIn(Env(r)[i - 1], i))
    BY <1>1, <1>6, EnvStep DEF Last, LastResult
  <2> QED
    BY <1>4, <1>5, <1>6, <2>1
<1>7. /\ \A n \in Name : ~Stores(g, i, n) => host'[r][n] = host[r][n]
      /\ \A n \in Name : Stores(g, i, n) => host'[r][n] = Env(r)[i][n]
  BY <1>5, <1>6 DEF Stores
<1>8. GivenOnce(g) /\ HiddenFirst(g)
  BY DEF Unambiguous
<1> QED
  BY <1>1, <1>2, <1>7, <1>8, ValuesWritten

(* A node gives up the tensors and the entries nobody needs any more.       *)
LEMMA ValuesClosed ==
  ASSUME TInv, NEW r \in Run, ValueInv(r), Close(r)
  PROVE  ValueInv(r)'
<1> DEFINE i == node[r]
<1>1. /\ TypeOK /\ i \in Nat /\ i >= 1 /\ i <= g.n /\ g.n \in Nat /\ pc[r] = "close"
      /\ Active(r)
  BY SessionType DEF TInv, TypeOK, Cursor, CursorOf, Close, Active
<1>2. /\ g' = g /\ content' = content /\ pc'[r] = "offer" /\ node'[r] = i + 1
      /\ \A n \in Name : host'[r][n] = IF n \in Unreferenced(i) THEN NoValue ELSE host[r][n]
      /\ \A n \in Name :
           device'[r][n] = IF n \in Doomed(r, i) THEN NoBinding ELSE device[r][n]
  BY <1>1 DEF Close, TypeOK
<1>3. Env(r)' = Env(r) /\ At(r)' = At(r)
  BY <1>1, <1>2, EnvSame DEF At
<1>4. ASSUME NEW n \in Name
      PROVE  /\ Value(r, n)' = Value(r, n)
             /\ StoredBy(r, n)' <=> StoredBy(r, n)
             /\ Given(r, n)' <=> Given(r, n)
             /\ Loaded(n)' = Loaded(n)
             /\ OnDevice(r, n)' <=> OnDevice(r, n) /\ n \notin Doomed(r, i)
             /\ Produced(r, n)' <=> Produced(r, n) /\ n \notin Doomed(r, i)
             /\ OnDevice(r, n)' => device'[r][n] = device[r][n]
  <2>1. /\ Value(r, n)' = Value(r, n) /\ (StoredBy(r, n)' <=> StoredBy(r, n))
        /\ (Given(r, n)' <=> Given(r, n)) /\ Loaded(n)' = Loaded(n)
    BY <1>2, <1>3 DEF Value, StoredBy, Given, Loaded, WeightValue, NoValue
  <2>2. device'[r][n] = IF n \in Doomed(r, i) THEN NoBinding ELSE device[r][n]
    BY <1>2
  <2> QED
    BY <2>1, <2>2 DEF OnDevice, Produced
<1>5. ASSUME NEW n \in Name, Wanted(r, n)'
      PROVE  /\ Wanted(r, n) /\ n \notin Unreferenced(i)
             /\ Produced(r, n) => n \notin Doomed(r, i)
  <2>1. n \in OutputSet(g) \/ \E j \in i + 1 .. g.n : Uses(g, j, n) # {}
    BY <1>2, <1>5 DEF Wanted
  <2>2. CASE n \in OutputSet(g)
    <3>1. ~Produced(r, n)
      BY <1>1, <2>2, KeptElsewhere
    <3> QED
      BY <2>2, <3>1 DEF Wanted, Unreferenced
  <2>3. ASSUME NEW j \in i + 1 .. g.n, Uses(g, j, n) # {}
        PROVE  /\ Wanted(r, n) /\ n \notin Unreferenced(i)
               /\ Produced(r, n) => n \notin Doomed(r, i)
    <3>1. j \in i .. g.n /\ j \in Nodes(g) /\ ~(j <= i)
      BY <1>1 DEF Nodes
    <3>2. LastUse(n) # i
      BY <1>1, <2>3, <3>1, LastUseIs
    <3> QED
      BY <2>3, <3>1, <3>2 DEF Wanted, Unreferenced, Doomed
  <2> QED
    BY <2>1, <2>2, <2>3
<1>6. HostDenoted(r)'
  BY <1>1, <1>2, <1>4 DEF ValueInv, HostDenoted, NoValue
<1>7. ASSUME NEW n \in Name, OnDevice(r, n)'
      PROVE  /\ content'[device'[r][n].buf] = device'[r][n].bytes
             /\ device'[r][n].val = Value(r, n)'
             /\ Produced(r, n)' => MayKeep(g', n) /\ StoredBy(r, n)'
             /\ ~Produced(r, n)' =>
                  \/ Given(r, n)'
                  \/ n \in g'.weights /\ \E j \in 1 .. node'[r] : MayPromote(g', j, n)
  <2>1. OnDevice(r, n) /\ device'[r][n] = device[r][n] /\ (Produced(r, n)' <=> Produced(r, n))
    BY <1>4, <1>7
  <2>2. /\ content[device[r][n].buf] = device[r][n].bytes
        /\ device[r][n].val = Value(r, n)
        /\ Produced(r, n) => MayKeep(g, n) /\ StoredBy(r, n)
        /\ ~Produced(r, n) =>
             \/ Given(r, n)
             \/ n \in g.weights /\ \E j \in 1 .. i : MayPromote(g, j, n)
    BY <1>1, <2>1 DEF ValueInv, DeviceDenoted
  <2>3. \A j \in 1 .. i : j \in 1 .. i + 1
    BY <1>1
  <2> QED
    BY <1>2, <1>4, <2>1, <2>2, <2>3
<1>8. ASSUME NEW n \in Name, Wanted(r, n)', host'[r][n] = NoValue, ~Produced(r, n)'
      PROVE  Value(r, n)' = Loaded(n)'
  <2>1. Wanted(r, n) /\ host[r][n] = NoValue /\ ~Produced(r, n)
    BY <1>2, <1>4, <1>5, <1>8
  <2> QED
    BY <1>1, <1>4, <2>1 DEF ValueInv, NowhereLoaded
<1>9. DeviceDenoted(r)' /\ NowhereLoaded(r)'
  BY <1>7, <1>8 DEF DeviceDenoted, NowhereLoaded, NoValue
<1> QED
  BY <1>2, <1>6, <1>9 DEF ValueInv

(* A run answers from the host: its outputs never stay on the device.       *)
LEMMA ValuesFinished ==
  ASSUME TInv, NEW r \in Run, ValueInv(r), Finish(r)
  PROVE  ValueInv(r)'
<1>1. TypeOK /\ pc[r] = "offer" /\ node[r] = g.n + 1 /\ g.n \in Nat /\ Active(r)
  BY SessionType DEF TInv, TypeOK, Finish, Active
<1>2. /\ g' = g /\ pc'[r] = "done"
      /\ \A n \in Name : host'[r][n] = IF n \in OutputSet(g) THEN host[r][n] ELSE NoValue
  BY <1>1 DEF Finish, TypeOK
<1>3. At(r) = g.n /\ Env(r)' = Env(r)
  BY <1>1, <1>2, EnvSame DEF At
<1>4. ASSUME NEW n \in OutputSet(g) PROVE HostValue(r, n)' = Env(r)[g.n][n]
  <2>1. n \in Name
    BY <1>1, SessionType DEF TypeOK
  <2>2. ~Produced(r, n) /\ Wanted(r, n)
    BY <1>1, <2>1, KeptElsewhere DEF Wanted
  <2>3. HostValue(r, n) = Value(r, n)
    BY <1>1, <2>1, <2>2, HostReads
  <2>4. HostValue(r, n)' = HostValue(r, n)
    BY <1>2, <2>1 DEF HostValue, NoValue, WeightValue
  <2> QED
    BY <1>3, <2>3, <2>4 DEF Value
<1>5. Answered(r)'
  BY <1>2, <1>3, <1>4 DEF Answered, OutputSet
<1> QED
  BY <1>2, <1>5 DEF ValueInv, Active

(* What a run writes is written to no buffer an entry is in.                *)
LEMMA NobodysBuffer ==
  ASSUME MInv, NEW r \in Run, Start(r) \/ Reject(r) \/ Step(r) \/ StepError(r)
  PROVE  \A s \in Run \ {r} : \A c \in BoundBy(s) : content'[c] = content[c]
<1>1. TypeOK
  BY DEF MInv, TInv
<1>2. ASSUME NEW b \in Allocations, NEW v, content' = [content EXCEPT ![b] = v],
             NEW s \in Run \ {r}, NEW c \in BoundBy(s)
      PROVE  content'[c] = content[c]
  <2>1. b \notin Elsewhere(r)
    BY FreshBuffer
  <2>2. c # b
    BY <2>1 DEF Elsewhere
  <2>3. c \in Buffer
    BY <1>1, BoundType
  <2> QED
    BY <1>1, <1>2, <2>2, <2>3 DEF TypeOK
<1>3. CASE Promote(r)
  BY <1>1, <1>2, <1>3, PromoteIs
<1>4. CASE DispatchDevice(r)
  <2>1. PICK b \in Allocations : content' = [content EXCEPT ![b] = KernelResult(r, node[r], 1)]
    BY <1>1, <1>4, DispatchDeviceIs
  <2> QED
    BY <1>2, <2>1
<1>5. ASSUME content' = content
      PROVE  \A s \in Run \ {r} : \A c \in BoundBy(s) : content'[c] = content[c]
  BY <1>5
<1>6. CASE Start(r) \/ Reject(r) \/ StepError(r)
  BY <1>5, <1>6 DEF Start, Reject, StepError, DispatchError, ReadBackError, HostError, Fail, memory
<1>7. CASE DispatchView(r) \/ DispatchHost(r) \/ Decline(r) \/ ReadBack(r) \/ HostCompute(r)
  BY <1>5, <1>7 DEF DispatchView, DispatchHost, Decline, ReadBack, HostCompute, memory
<1>8. CASE Reclaim(r) \/ Close(r) \/ Finish(r)
  BY <1>5, <1>8 DEF Reclaim, Close, Finish
<1> QED
  BY <1>3, <1>4, <1>6, <1>7, <1>8 DEF Step

LEMMA AInvStep ==
  ASSUME MInv, AInv, Unambiguous(g), [Next]_vars
  PROVE  AInv'
<1>1. TInv /\ TypeOK /\ \A r \in Run : ValueInv(r)
  BY DEF MInv, TInv, AInv
<1>2. ASSUME NEW r \in Run, Start(r) \/ Reject(r) \/ Step(r) \/ StepError(r)
      PROVE  ValueInv(r)'
  <2>1. CASE Start(r)
    BY <1>1, <2>1, ValuesStarted
  <2>2. CASE Promote(r)
    BY <1>1, <2>2, ValuesPromoted
  <2>3. CASE DispatchDevice(r)
    BY <1>1, <2>3, ValuesDispatchDevice
  <2>4. CASE DispatchView(r)
    BY <1>1, <2>4, ValuesDispatchView
  <2>5. CASE DispatchHost(r)
    BY <1>1, <2>5, ValuesDispatchHost
  <2>6. CASE Decline(r)
    <3>1. /\ g' = g /\ pc'[r] = pc[r] /\ node'[r] = node[r] /\ host'[r] = host[r]
          /\ device'[r] = device[r] /\ content' = content
      BY <2>6 DEF Decline, memory
    <3> QED
      BY <1>1, <3>1, ValuesStay
  <2>7. CASE ReadBack(r)
    BY <1>1, <2>7, ValuesReadBack
  <2>8. CASE HostCompute(r)
    BY <1>1, <2>8, ValuesHostCompute
  <2>9. CASE Close(r)
    BY <1>1, <2>9, ValuesClosed
  <2>10. CASE Finish(r)
    BY <1>1, <2>10, ValuesFinished
  <2>11. CASE Fail(r)
    BY <1>1, <2>11, ValuesFailed
  <2>12. CASE Reclaim(r)
    BY <1>1, <2>12, ReclaimIs, ValuesStay
  <2> QED
    BY <1>2, <2>1, <2>2, <2>3, <2>4, <2>5, <2>6, <2>7, <2>8, <2>9, <2>10, <2>11, <2>12 DEF Step,
       StepError, Reject, DispatchError, ReadBackError, HostError
<1>3. ASSUME NEW s \in Run PROVE ValueInv(s)'
  <2>1. CASE UNCHANGED vars
    BY <1>1, <2>1, ValuesStay DEF vars
  <2>2. CASE Next
    <3>1. PICK r \in Run : Start(r) \/ Reject(r) \/ Step(r) \/ StepError(r)
      BY <2>2 DEF Next
    <3>2. CASE s = r
      BY <1>2, <3>1, <3>2
    <3>3. CASE s # r
      <4>1. /\ g' = g /\ pc'[s] = pc[s] /\ node'[s] = node[s]
            /\ host'[s] = host[s] /\ device'[s] = device[s]
        BY <1>1, <3>1, <3>3, OthersUntouched
      <4>2. \A c \in BoundBy(s) : content'[c] = content[c]
        BY <3>1, <3>3, NobodysBuffer
      <4> QED
        BY <1>1, <4>1, <4>2, ValuesStay
    <3> QED
      BY <3>2, <3>3
  <2> QED
    BY <2>1, <2>2
<1> QED
  BY <1>3 DEF AInv

LEMMA AInvCorrect ==
  ASSUME \A s \in Sessions : Unambiguous(s)
  PROVE  Spec => []AInv
<1>1. Init => AInv
  BY DEF Init, AInv, ValueInv, Active
<1>2. MInv /\ AInv /\ [Next]_vars => AInv'
  <2> SUFFICES ASSUME MInv, AInv, [Next]_vars PROVE AInv'
    OBVIOUS
  <2>1. Unambiguous(g)
    BY DEF MInv, TInv, TypeOK
  <2> QED
    BY <2>1, AInvStep
<1> QED
  BY <1>1, <1>2, MInvCorrect, PTL DEF Spec

-----------------------------------------------------------------------------
(* DeviceRun implements Dataflow.                                           *)

(* The promise's view of the runs.                                          *)
StatusNow == [r \in Run |-> IF Active(r) THEN "running" ELSE pc[r]]
AnswerNow ==
  [r \in Run |-> IF pc[r] # "done" THEN <<>> ELSE [n \in OutputSet(g) |-> HostValue(r, n)]]

(* An answer is the denoted one.                                            *)
LEMMA AnswerIs ==
  ASSUME AInv
  PROVE  AnswerNow = [r \in Run |-> IF pc[r] # "done" THEN <<>>
                                      ELSE [n \in OutputSet(g) |-> Env(r)[g.n][n]]]
<1>1. ASSUME NEW r \in Run, pc[r] = "done"
      PROVE  [n \in OutputSet(g) |-> HostValue(r, n)] = [n \in OutputSet(g) |-> Env(r)[g.n][n]]
  BY <1>1 DEF AInv, ValueInv, Answered
<1> QED
  BY <1>1 DEF AnswerNow

LEMMA PromiseStep ==
  ASSUME TInv, AInv, AInv', [Next]_vars
  PROVE  [Promise!Next]_Promise!vars
<1> DEFINE Deno(r) == [n \in OutputSet(g) |-> Env(r)[g.n][n]]
<1>1. AnswerNow = [r \in Run |-> IF pc[r] # "done" THEN <<>> ELSE Deno(r)]
  BY AnswerIs
<1>2. AnswerNow' = [r \in Run |-> IF pc'[r] # "done" THEN <<>> ELSE Deno(r)']
  <2>1. ASSUME NEW r \in Run, pc'[r] = "done"
        PROVE  [n \in OutputSet(g) |-> HostValue(r, n)]' = Deno(r)'
    BY <2>1 DEF AInv, ValueInv, Answered
  <2> HIDE DEF Deno
  <2> QED
    BY <2>1 DEF AnswerNow
<1>3. CASE UNCHANGED vars
  BY <1>3 DEF vars, Promise!vars, HostValue, OutputSet, NoValue, WeightValue, Active
<1>4. CASE Next
  <2>1. PICK r \in Run : Start(r) \/ Reject(r) \/ Step(r) \/ StepError(r)
    BY <1>4 DEF Next
  <2>2. /\ g' = g /\ \A s \in Run \ {r} : pc'[s] = pc[s]
        /\ pc' \in [Run -> {"idle", "offer", "close", "done", "failed"}]
        /\ \/ pc[r] = "idle" /\ pc'[r] = "offer"
           \/ pc[r] = "offer" /\ pc'[r] = "done"
           \/ pc[r] \in {"idle", "offer"} /\ pc'[r] = "failed"
           \/ Active(r) /\ pc'[r] \in {"offer", "close"}
    BY <2>1, OthersUntouched, StepPhase DEF TInv, Active
  <2>3. \A s \in Run : Deno(s)' = Deno(s)
    <3>1. \A s \in Run : Env(s)' = Env(s)
      BY <2>2, EnvSame
    <3> QED
      BY <2>2, <3>1
  <2> HIDE DEF Deno
  <2>4. ASSUME pc[r] # "done", pc'[r] # "done" PROVE AnswerNow' = AnswerNow
    BY <1>1, <1>2, <2>2, <2>3, <2>4
  <2>5. CASE pc[r] = "idle" /\ pc'[r] = "offer"
    <3>1. StatusNow' = [StatusNow EXCEPT ![r] = "running"] /\ StatusNow[r] = "idle"
      BY <2>2, <2>5 DEF StatusNow, Active
    <3>2. AnswerNow' = AnswerNow
      BY <2>4, <2>5
    <3>3. Promise!Begin(r)
      BY <2>2, <3>1, <3>2 DEF Promise!Begin, StatusNow, AnswerNow
    <3> QED
      BY <3>3 DEF Promise!Next
  <2>6. CASE pc[r] = "offer" /\ pc'[r] = "done"
    <3>1. StatusNow' = [StatusNow EXCEPT ![r] = "done"] /\ StatusNow[r] = "running"
      BY <2>2, <2>6 DEF StatusNow, Active
    <3>2. AnswerNow' = [AnswerNow EXCEPT ![r] = Deno(r)]
      BY <1>1, <1>2, <2>2, <2>3, <2>6
    <3>3. Deno(r) = [n \in OutputSet(g) |-> Promise!Denotation(r)[n]]
      BY EnvIs DEF Deno, TInv
    <3>4. Promise!OutputSet(g) = OutputSet(g)
      BY DEF OutputSet, Promise!OutputSet
    <3>5. Promise!Return(r)
      BY <2>2, <3>1, <3>2, <3>3, <3>4 DEF Promise!Return, StatusNow, AnswerNow
    <3> QED
      BY <3>5 DEF Promise!Next
  <2>7. CASE pc[r] \in {"idle", "offer"} /\ pc'[r] = "failed"
    <3>1. /\ StatusNow' = [StatusNow EXCEPT ![r] = "failed"]
          /\ StatusNow[r] \in {"idle", "running"}
      BY <2>2, <2>7 DEF StatusNow, Active
    <3>2. AnswerNow' = AnswerNow
      BY <2>4, <2>7
    <3>3. Promise!GiveUp(r)
      BY <2>2, <3>1, <3>2 DEF Promise!GiveUp, StatusNow, AnswerNow
    <3> QED
      BY <3>3 DEF Promise!Next
  <2>8. CASE Active(r) /\ pc'[r] \in {"offer", "close"}
    <3>1. StatusNow' = StatusNow
      BY <2>2, <2>8 DEF StatusNow, Active
    <3>2. AnswerNow' = AnswerNow
      BY <2>4, <2>8 DEF Active
    <3> QED
      BY <2>2, <3>1, <3>2 DEF Promise!vars, StatusNow, AnswerNow
  <2> QED
    BY <2>2, <2>5, <2>6, <2>7, <2>8
<1> QED
  BY <1>3, <1>4

(* Where a value lives never shows.  Every run answers with what the graph  *)
(* denotes for its own inputs, or fails: whichever accelerators take or     *)
(* decline its nodes, whatever they keep on the device, promote, view, read *)
(* back or serve from the weight cache, however few buffers there are and   *)
(* whatever the other runs do with them.  What it takes is a session in     *)
(* which a name is given a value once, an initializer is not promoted       *)
(* before a node hides it, and no kernel takes a value that is only on the  *)
(* device for absent.                                                       *)
THEOREM AnswersCorrect ==
  ASSUME \A s \in Sessions : Unambiguous(s)
  PROVE  Spec => AnswersDenotation
<1>1. Init => Promise!Init
  BY DEF Init, Promise!Init, Active
<1>2. TInv /\ AInv /\ AInv' /\ [Next]_vars => [Promise!Next]_Promise!vars
  BY PromiseStep
<1> QED
  BY <1>1, <1>2, TInvCorrect, AInvCorrect, PTL DEF Spec, AnswersDenotation, Promise!Spec
=============================================================================
