----------------------------- MODULE DeviceRun -----------------------------
(***************************************************************************)
(* Session::run and Session::run_gpu_async on a session with accelerators: *)
(* runs of one session that keep intermediate values on the device, sharing *)
(* the device's memory budget, its pool of buffers and its weight cache.   *)
(*                                                                         *)
(* Each node is offered to the accelerators of its chain in turn.  One that *)
(* takes it leaves the result on the device or reads it back to the host;  *)
(* when all have declined, the operands that are only on the device are    *)
(* read back and the node runs on the CPU.                                 *)
(*                                                                         *)
(* Beside what OnnxGraph lists, a session record g has                     *)
(*   chain     node -> accelerators in the order they are tried: "cuda"    *)
(*             and "async" (run_gpu_async's wgpu) bind device values,      *)
(*             "directml" and "wgpu" see the host's tensors only           *)
(*   accepts   node -> input slots its kernel binds on the device          *)
(*   needs     node -> input slots without which its kernel declines       *)
(*   keyed     node -> input slots served from the weight cache            *)
(*   views     nodes whose kernel relabels its first input's buffer        *)
(*   placed    nodes whose kernel leaves its result where it is told to    *)
(*   promotes  nodes for which a host operand is worth uploading           *)
(*   strict    KeepPolicy: every consumer must bind, or any one            *)
(*   resident  whether activations may stay on the device at all           *)
(***************************************************************************)
EXTENDS OnnxGraph

CONSTANTS Run, Sessions,
          Buffer,     \* the device buffers the memory budget has room for
          MaxSpare,   \* the buffers the device pool keeps
          NoBuffer    \* none of them

(* The accelerators, and those whose kernels bind device values.            *)
Binding == {"cuda", "async"}
Accelerators == Binding \cup {"directml", "wgpu"}

IsDeviceSession(s) ==
  /\ IsGraph(s)
  /\ s.chain \in [Nodes(s) -> Seq(Accelerators)]
  /\ s.accepts \in [Nodes(s) -> SUBSET Nat]
  /\ s.needs \in [Nodes(s) -> SUBSET Nat]
  /\ s.keyed \in [Nodes(s) -> SUBSET Nat]
  /\ {s.views, s.placed, s.promotes} \subseteq SUBSET Nodes(s)
  /\ \A i \in s.views \cup s.placed : s.arity[i] >= 1
  /\ \A i \in s.views : s.ins[i] # <<>>
  /\ {s.strict, s.resident} \subseteq BOOLEAN

ASSUME DeviceSessions == \A s \in Sessions : IsDeviceSession(s)
ASSUME BufferAssumption == IsFiniteSet(Buffer) /\ MaxSpare \in Nat
ASSUME NoBufferAssumption == NoBuffer \notin Buffer

VARIABLES g,        \* the session
          pc,       \* pc[r]: what run r does next
          node,     \* node[r]: the node it is at
          tried,    \* tried[r]: accelerators that declined the node
          host,     \* host[r][n]: the tensor the run state holds, or NoValue
          device,   \* device[r][n]: the RunActivations entry, or NoBinding
          content,  \* content[b]: what was last written to buffer b
          live,     \* the buffers the memory budget has accounted for
          spare,    \* the buffers in the device pool
          cached    \* cached[n]: the initializer uploaded for good, or NoValue

vars == <<g, pc, node, tried, host, device, content, live, spare, cached>>
memory == <<content, live, spare>>

(* An entry of RunActivations, if there is one: a buffer, what must be in   *)
(* it for the entry to mean val, and whether a node of the run produced it. *)
NoBinding == [buf |-> NoBuffer, bytes |-> NoValue, val |-> NoValue, produced |-> FALSE]
IsBinding(d) ==
  \/ d = NoBinding
  \/ /\ DOMAIN d = {"buf", "bytes", "val", "produced"}
     /\ d.buf \in Buffer /\ d.produced \in BOOLEAN

Garbage == <<"garbage">>
OnDevice(r, n) == n # NoName /\ device[r][n] # NoBinding
Produced(r, n) == OnDevice(r, n) /\ device[r][n].produced
ReadDevice(r, n) ==
  IF content[device[r][n].buf] = device[r][n].bytes THEN device[r][n].val ELSE Garbage
BoundBy(r) == {device[r][n].buf : n \in {m \in Name : OnDevice(r, m)}}

(* state.get(name).or_else(|| weights.get(name)) *)
HostValue(r, n) ==
  IF n = NoName THEN NoValue
  ELSE IF host[r][n] # NoValue THEN host[r][n]
  ELSE IF n \in g.weights THEN WeightValue(n) ELSE NoValue

Inputs(i) == {g.ins[i][k] : k \in DOMAIN g.ins[i]} \ {NoName}

(* RunActivations::new: the last node that uses a name, as input or capture. *)
LastUse(n) ==
  LET users == {i \in Nodes(g) : Uses(g, i, n) # {}}
  IN IF users = {} THEN 0 ELSE CHOOSE i \in users : \A j \in users : j <= i

ConsumingSlots(s, n) ==
  {p \in UNION {{<<i, k>> : k \in DOMAIN s.ins[i]} : i \in Nodes(s)} : s.ins[p[1]][p[2]] = n}
BindingSlots(s, n) == {p \in ConsumingSlots(s, n) : p[2] \in s.accepts[p[1]]}

(* may_keep: a node output no graph output and no capture needs on the host *)
(* and whose consuming slots satisfy the policy.                            *)
MayKeep(s, n) ==
  /\ s.resident
  /\ n \notin OutputSet(s)
  /\ \A i \in Nodes(s) : n \notin s.caps[i]
  /\ ConsumingSlots(s, n) # {}
  /\ IF s.strict THEN BindingSlots(s, n) = ConsumingSlots(s, n) ELSE BindingSlots(s, n) # {}

-----------------------------------------------------------------------------
TypeOK ==
  /\ g \in Sessions
  /\ pc \in [Run -> {"idle", "offer", "close", "done", "failed"}]
  /\ node \in [Run -> Nat \ {0}]
  /\ tried \in [Run -> Nat]
  /\ DOMAIN host = Run /\ \A r \in Run : DOMAIN host[r] = Name
  /\ DOMAIN device = Run
  /\ \A r \in Run : DOMAIN device[r] = Name /\ \A n \in Name : IsBinding(device[r][n])
  /\ DOMAIN content = Buffer
  /\ live \subseteq Buffer
  /\ spare \subseteq Buffer /\ Cardinality(spare) <= MaxSpare
  /\ \A n \in Name : cached[n] \in {NoValue, WeightValue(n)}

Init ==
  /\ g \in Sessions
  /\ pc = [r \in Run |-> "idle"]
  /\ node = [r \in Run |-> 1]
  /\ tried = [r \in Run |-> 0]
  /\ host = [r \in Run |-> [n \in Name |-> NoValue]]
  /\ device = [r \in Run |-> [n \in Name |-> NoBinding]]
  /\ content = [b \in Buffer |-> NoValue]
  /\ live = {} /\ spare = {}
  /\ cached = [n \in Name |-> NoValue]

Start(r) ==
  /\ pc[r] = "idle"
  /\ pc' = [pc EXCEPT ![r] = "offer"]
  /\ host' = [host EXCEPT ![r] = [n \in Name |->
       IF \E k \in DOMAIN g.inputs : g.inputs[k] = n THEN InputValue(r, n) ELSE NoValue]]
  /\ UNCHANGED <<g, node, tried, device, memory, cached>>

(* `?`, or the caller dropping run_gpu_async's future: the activations are  *)
(* dropped where they stand, which destroys their buffers.                  *)
Fail(r) ==
  /\ pc' = [pc EXCEPT ![r] = "failed"]
  /\ host' = [host EXCEPT ![r] = [n \in Name |-> NoValue]]
  /\ device' = [device EXCEPT ![r] = [n \in Name |-> NoBinding]]
  /\ live' = live \ BoundBy(r)
  /\ UNCHANGED <<g, node, tried, content, spare, cached>>

Reject(r) == pc[r] = "idle" /\ Fail(r)

-----------------------------------------------------------------------------
(* The buffers an allocation may get: one of the pool, reused as it is or   *)
(* evicted to make room, or a new one if the budget admits it.              *)
Allocations == spare \cup (IF live = Buffer THEN {} ELSE {CHOOSE b \in Buffer : b \notin live})

Allocate(b, bytes) ==
  /\ b \in Allocations
  /\ content' = [content EXCEPT ![b] = bytes]
  /\ live' = live \cup {b}

(* Variant: whatever else still refers to the buffer.                       *)
DisposedAlways(r, names, kept) ==
  {device[r][n].buf : n \in {m \in names : OnDevice(r, m)}}

(* dispose of the entries of names, when the entries of kept stay: a buffer *)
(* that a view still refers to is not the pool's to take.                   *)
Disposed(r, names, kept) ==
  {device[r][n].buf : n \in {m \in names : OnDevice(r, m)}}
    \ {device[r][n].buf : n \in {m \in kept : OnDevice(r, m)}}

(* Variant: a pool without a bound.                                          *)
RecycleAll(pool, buffers, accounted) == spare' = pool \cup buffers /\ live' = accounted

(* return_buffer: over its bound in buffers or in bytes the pool destroys   *)
(* some, how many depends on their sizes.                                   *)
Recycle(pool, buffers, accounted) ==
  \E keep \in SUBSET (pool \cup buffers) :
    /\ Cardinality(keep) <= MaxSpare
    /\ spare' = keep
    /\ live' = accounted \ ((pool \cup buffers) \ keep)

-----------------------------------------------------------------------------
Chain(r) == g.chain[node[r]]
Accelerator(r) == Chain(r)[tried[r] + 1]
Offered(r, kinds) ==
  /\ pc[r] = "offer" /\ node[r] <= g.n /\ tried[r] < Len(Chain(r))
  /\ Accelerator(r) \in kinds

(* Variant: an initializer's key whatever hides the initializer.            *)
KeyAlways(r, n) == n \in g.weights

(* initializer_key: the name means the initializer itself, not a fed tensor *)
(* or a node output that hides it.                                          *)
Key(r, n) == n \in g.weights /\ host[r][n] = NoValue /\ ~Produced(r, n)

(* What the kernel of the accelerator at hand sees in input slot k.         *)
KernelArg(r, i, k) ==
  LET n == g.ins[i][k] IN
  IF OnDevice(r, n) /\ k \in g.accepts[i] /\ Accelerator(r) \in Binding
    THEN ReadDevice(r, n)
  ELSE IF k \in g.keyed[i] /\ Key(r, n) /\ cached[n] # NoValue THEN cached[n]
  ELSE HostValue(r, n)

KernelResult(r, i, k) ==
  NodeValue(i, k, [j \in DOMAIN g.ins[i] |-> KernelArg(r, i, j)], {})

Runnable(r, i) ==
  /\ g.caps[i] = {}
  /\ \A k \in g.needs[i] : KernelArg(r, i, k) # NoValue
  /\ i \in g.views /\ Accelerator(r) = "cuda" => OnDevice(r, g.ins[i][1])

Keyed(r, i) ==
  cached' = [n \in Name |->
    IF cached[n] = NoValue /\ Key(r, n) /\ (\E k \in g.keyed[i] \cap DOMAIN g.ins[i] : g.ins[i][k] = n)
      THEN HostValue(r, n) ELSE cached[n]]

OnHost(r) == pc[r] = "offer" /\ node[r] <= g.n /\ tried[r] = Len(Chain(r))

(* Variant: what was read back before is read back again.                    *)
StrandedAgain(r) == {n \in Inputs(node[r]) : Produced(r, n)}

(* The operands that exist only on the device; an initializer that was      *)
(* uploaded still is in the weights.                                        *)
Stranded(r) == {n \in Inputs(node[r]) : host[r][n] = NoValue /\ Produced(r, n)}

(* reclaim_for: an allocation that the budget does not admit, by the kernel  *)
(* at hand or for a read-back, has destroyed idle buffers of the pool, under *)
(* the pool's lock; the buffer it asks for, if it gets one, is a step later. *)
Reclaim(r) ==
  /\ \/ Offered(r, Binding)
     \/ OnHost(r) /\ Stranded(r) # {}
  /\ Recycle(spare, {}, live) /\ spare' # spare
  /\ UNCHANGED <<g, pc, node, tried, host, device, content, cached>>

(* promote_operands_async: beside a resident operand, the one the host holds *)
(* is uploaded, unless it is the larger one or the upload is refused.       *)
Promote(r) ==
  LET i == node[r] IN
  /\ Offered(r, {"async"})
  /\ g.resident /\ i \in g.promotes
  /\ \E k \in g.accepts[i] \cap DOMAIN g.ins[i] : OnDevice(r, g.ins[i][k])
  /\ \E k \in g.accepts[i] \cap DOMAIN g.ins[i] :
       LET n == g.ins[i][k]
           v == HostValue(r, n)
       IN /\ ~OnDevice(r, n) /\ v # NoValue
          /\ \E b \in Allocations :
               /\ Allocate(b, v)
               /\ spare' = spare \ {b}
               /\ device' = [device EXCEPT ![r][n] =
                    [buf |-> b, bytes |-> v, val |-> v, produced |-> FALSE]]
  /\ UNCHANGED <<g, pc, node, tried, host, cached>>

(* The placement a single output that may stay on the device gets.          *)
Keeps(i) == Len(g.outs[i]) = 1 /\ g.outs[i][1] # NoName /\ MayKeep(g, g.outs[i][1])

(* An entry replaced by the result of the node is disposed of.              *)
Displacing(r, n, b, accounted) ==
  Recycle(spare \ {b}, Disposed(r, {n}, Name \ {n}) \ {b}, accounted)

(* The kernel leaves its result in a device buffer of its own.              *)
DispatchDevice(r) ==
  LET i == node[r]
      n == g.outs[i][1]
      v == KernelResult(r, i, 1)
  IN /\ Offered(r, Binding)
     /\ Keeps(i) /\ i \in g.placed \ g.views /\ Runnable(r, i)
     /\ \E b \in Allocations :
          /\ content' = [content EXCEPT ![b] = v]
          /\ device' = [device EXCEPT ![r][n] =
               [buf |-> b, bytes |-> v, val |-> v, produced |-> TRUE]]
          /\ Displacing(r, n, b, live \cup {b})
     /\ Keyed(r, i)
     /\ pc' = [pc EXCEPT ![r] = "close"]
     /\ UNCHANGED <<g, node, tried, host>>

(* CudaDeviceTensor::alias: a view of a resident input, with its buffer.    *)
DispatchView(r) ==
  LET i == node[r]
      n == g.outs[i][1]
      a == device[r][g.ins[i][1]]
  IN /\ Offered(r, {"cuda"})
     /\ Keeps(i) /\ i \in g.views /\ Runnable(r, i)
     /\ device' = [device EXCEPT ![r][n] =
          [buf |-> a.buf, bytes |-> a.bytes, val |-> KernelResult(r, i, 1), produced |-> TRUE]]
     /\ Displacing(r, n, a.buf, live)
     /\ pc' = [pc EXCEPT ![r] = "close"]
     /\ UNCHANGED <<g, node, tried, host, content, cached>>

(* write_node_outputs: of the results under one name the last one stays.    *)
LastResult(i, n) == CHOOSE k \in Results(g, i, n) : \A l \in Results(g, i, n) : l <= k

(* The kernel's results are read back, or were computed on the host's       *)
(* tensors to begin with, and are stored there.                             *)
DispatchHost(r) ==
  LET i == node[r] IN
  /\ Offered(r, Accelerators)
  /\ Accelerator(r) \in Binding => ~Keeps(i) \/ i \notin g.placed
  /\ Runnable(r, i)
  /\ host' = [host EXCEPT ![r] = [n \in Name |->
       IF Results(g, i, n) = {} THEN host[r][n] ELSE KernelResult(r, i, LastResult(i, n))]]
  /\ Keyed(r, i)
  /\ pc' = [pc EXCEPT ![r] = "close"]
  /\ UNCHANGED <<g, node, tried, device, memory>>

(* The gate does not clear the node, the kernel has no arm for it, an       *)
(* allocation is refused, or CUDA or DirectML fails: on to the next one.    *)
Decline(r) ==
  /\ Offered(r, Accelerators)
  /\ tried' = [tried EXCEPT ![r] = @ + 1]
  /\ UNCHANGED <<g, pc, node, host, device, memory, cached>>

(* A wgpu kernel fails, CUDA's shadow verification refutes a result, or the *)
(* result has not the shape this run resolved.                              *)
DispatchError(r) == Offered(r, Accelerators) /\ Fail(r)

-----------------------------------------------------------------------------
ReadBack(r) ==
  /\ OnHost(r)
  /\ \E n \in Stranded(r) : host' = [host EXCEPT ![r][n] = ReadDevice(r, n)]
  /\ UNCHANGED <<g, pc, node, tried, device, memory, cached>>

ReadBackError(r) == OnHost(r) /\ Stranded(r) # {} /\ Fail(r)

HostCompute(r) ==
  LET i == node[r] IN
  /\ OnHost(r) /\ Stranded(r) = {}
  /\ host' = [host EXCEPT ![r] = [n \in Name |->
       IF Results(g, i, n) = {} THEN host[r][n]
       ELSE NodeValue(i, LastResult(i, n), [j \in DOMAIN g.ins[i] |-> HostValue(r, g.ins[i][j])],
                      {<<m, HostValue(r, m)>> : m \in g.caps[i]})]]
  /\ pc' = [pc EXCEPT ![r] = "close"]
  /\ UNCHANGED <<g, node, tried, device, memory, cached>>

HostError(r) == OnHost(r) /\ Stranded(r) = {} /\ Fail(r)

-----------------------------------------------------------------------------
(* decrement_refs_state drops a host tensor with its last use: the counts   *)
(* are exactly the uses to come (RunEngine's RefCountsExact).               *)
Unreferenced(i) ==
  {n \in Name \ (g.weights \cup OutputSet(g)) :
     Uses(g, i, n) # {} /\ \A j \in (i + 1) .. g.n : Uses(g, j, n) = {}}

(* Variant: operands the run uploaded are not released.                      *)
DoomedOutputs(r, i) == {n \in Name : Produced(r, n) /\ LastUse(n) = i}

(* release_after, called after every node wherever it ran.                  *)
Doomed(r, i) == {n \in Name : OnDevice(r, n) /\ LastUse(n) = i}

Close(r) ==
  LET i == node[r]
      doomed == Doomed(r, i)
  IN /\ pc[r] = "close"
     /\ host' = [host EXCEPT ![r] = [n \in Name |->
          IF n \in Unreferenced(i) THEN NoValue ELSE host[r][n]]]
     /\ device' = [device EXCEPT ![r] = [n \in Name |->
          IF n \in doomed THEN NoBinding ELSE device[r][n]]]
     /\ Recycle(spare, Disposed(r, doomed, Name \ doomed), live)
     /\ pc' = [pc EXCEPT ![r] = "offer"]
     /\ node' = [node EXCEPT ![r] = i + 1]
     /\ tried' = [tried EXCEPT ![r] = 0]
     /\ UNCHANGED <<g, content, cached>>

(* The activations are dropped, and take_outputs answers from the host.     *)
Finish(r) ==
  /\ pc[r] = "offer" /\ node[r] = g.n + 1
  /\ \A n \in OutputSet(g) : HostValue(r, n) # NoValue
  /\ pc' = [pc EXCEPT ![r] = "done"]
  /\ host' = [host EXCEPT ![r] = [n \in Name |->
       IF n \in OutputSet(g) THEN host[r][n] ELSE NoValue]]
  /\ device' = [device EXCEPT ![r] = [n \in Name |-> NoBinding]]
  /\ live' = live \ BoundBy(r)
  /\ UNCHANGED <<g, node, tried, content, spare, cached>>

Step(r) ==
  \/ Reclaim(r) \/ Promote(r) \/ DispatchDevice(r) \/ DispatchView(r) \/ DispatchHost(r) \/ Decline(r)
  \/ ReadBack(r) \/ HostCompute(r) \/ Close(r) \/ Finish(r)

StepError(r) == DispatchError(r) \/ ReadBackError(r) \/ HostError(r)

Next == \E r \in Run : Start(r) \/ Reject(r) \/ Step(r) \/ StepError(r)

(* A run that has begun is driven on by its caller; nothing has to fail.    *)
Fairness == \A r \in Run : WF_vars(Step(r))

Spec == Init /\ [][Next]_vars /\ Fairness

-----------------------------------------------------------------------------
(* What sorted ONNX graphs have, and the properties below need of a session. *)

Fed(s, n) == \E k \in DOMAIN s.inputs : s.inputs[k] = n
Stores(s, i, n) == Results(s, i, n) # {}

(* A stored name that is used at all is used by a node to come.             *)
UsedLater(s) == \A i \in Nodes(s) : \A n \in Name :
  Stores(s, i, n) /\ (\E j \in Nodes(s) : Uses(s, j, n) # {})
    => \E j \in i + 1 .. s.n : Uses(s, j, n) # {}

(* A name is given a value once, by the caller or by one node.              *)
GivenOnce(s) == \A i \in Nodes(s) : \A n \in Name :
  Stores(s, i, n) => ~Fed(s, n) /\ \A j \in Nodes(s) \ {i} : ~Stores(s, j, n)

(* A node that stores under the name of an initializer does so before that  *)
(* may be promoted.                                                         *)
MayPromote(s, j, n) ==
  j \in s.promotes /\ \E k \in s.accepts[j] \cap DOMAIN s.ins[j] : s.ins[j][k] = n
HiddenFirst(s) == \A i \in Nodes(s) : \A n \in s.weights :
  Stores(s, i, n) => \A j \in 1 .. i : ~MayPromote(s, j, n)

(* A kernel does not take a value that is on the device only for absent, or *)
(* the initializer it hides for it: it binds the value, or declines.        *)
NoneOverlooked(s) == \A i \in Nodes(s) : \A k \in DOMAIN s.ins[i] :
  LET n == s.ins[i][k] IN
  n # NoName /\ MayKeep(s, n) /\ (\E j \in Nodes(s) : Stores(s, j, n)) =>
    \/ k \in s.accepts[i] /\ \A l \in DOMAIN s.chain[i] : s.chain[i][l] \in Binding
    \/ k \in s.needs[i] /\ n \notin s.weights

Unambiguous(s) == GivenOnce(s) /\ HiddenFirst(s) /\ NoneOverlooked(s)

-----------------------------------------------------------------------------
Active(r) == pc[r] \in {"offer", "close"}

(* No device memory is leaked or handed out twice: what the budget has      *)
(* accounted for is what the pool and the runs hold, a buffer of the pool   *)
(* is nobody's, and a buffer is shared only by the views of one value.  In  *)
(* particular, with no run active the pool holds all of it.                 *)
DeviceMemoryAccounted ==
  /\ live = spare \cup UNION {BoundBy(r) : r \in Run}
  /\ \A r \in Run : spare \cap BoundBy(r) = {}
  /\ \A r, s \in Run : \A m, n \in Name :
       OnDevice(r, m) /\ OnDevice(s, n) /\ device[r][m].buf = device[s][n].buf
         => r = s /\ device[r][m].bytes = device[s][n].bytes

(* The device holds a value for a node to come, never for nobody: buffers   *)
(* go back as early as the graph allows, wherever the consumers ran.        *)
NoDeadDeviceValue ==
  \A r \in Run : Active(r) => \A n \in Name : OnDevice(r, n) =>
    \E i \in node[r] .. g.n : Uses(g, i, n) # {}

(* Where a value lives never shows: whatever was kept on the device,        *)
(* promoted, viewed, cached, declined or read back, and whatever the other  *)
(* runs do with the pooled buffers, a run answers what the graph denotes.   *)
Promise == INSTANCE Dataflow WITH
  status <- [r \in Run |-> IF Active(r) THEN "running" ELSE pc[r]],
  answer <- [r \in Run |-> IF pc[r] # "done" THEN <<>>
                             ELSE [n \in OutputSet(g) |-> HostValue(r, n)]]
AnswersDenotation == Promise!Spec

(* A run that has begun ends, however many accelerators decline its nodes.  *)
EveryRunEnds == \A r \in Run : pc[r] = "offer" ~> pc[r] \in {"done", "failed"}
=============================================================================
