# TLA+ models of oxionnx

oxionnx is an ONNX inference runtime written in Rust. A model file is parsed, its graph is rewritten and put in
order, and the result is a `Session` that any number of threads may run, stream from, cancel and drop. This directory
holds TLA+ specifications of the parts of it that are hard to get right by testing: what happens between two runs that
share buffers, host's or device's, between a worker thread and its waiter, between process exit and a driver, and between
one graph rewriting and the next. Paths below are relative to the repository; the crate of the runtime is `src/`.

- [1. The system](#1-the-system) - components, their state and operations, what is hard about each
- [2. The modules](#2-the-modules) - which module models what, and how it corresponds to the code
- [3. The runs](#3-the-runs) - what TLC checks, with which bounds, and what it shows
- [4. Fairness](#4-fairness)
- [5. Proofs](#5-proofs) - what holds for every value of the constants, and why
- [6. Disagreements with the documentation](#6-disagreements-with-the-documentation)
- [7. What is not modelled](#7-what-is-not-modelled)
- [8. Plan](#8-plan)

## 1. The system

### Components

| component | state | operations | properties that make it correct |
|---|---|---|---|
| session run engine, `src/session/run/` | per run: tensors by name, remaining references by name; per session: plan, weights, pool | `run`, and inside it claim a path per node (in place, output slots, fresh), execute, store outputs, release references, take outputs | every run answers what the graph denotes; no tensor is freed while needed, none is kept when dead; no buffer has two owners |
| `async_run.rs` | one-shot slot (result, taken, waker), `ACTIVE_WORKERS`, `Arc`s of the session | `spawn_run`, `run_async`, `wait`, `poll`, `is_finished`, drop; the worker's publish, notify, wake, unwind | no lost wake-up; one answer per call, also after a panic or when no thread can be had; no leak; the exit hook sees every worker |
| memory pool, `src/memory/types.rs` | free lists by size class, byte counters | acquire, release, clear, compact | lists sorted (binary search depends on it), counters exact, best fit, bounded |
| `gpu_owner.rs` | owner thread, rendezvous channel, `IN_FLIGHT`, exit hook | create, dispose, fallback, panic, process exit | one thread touches contexts; drops are synchronous; exit waits for what is in flight and for no longer than five seconds |
| optimizer, passes before fusion, `src/optimizer/` | nodes and initializers of the graph being loaded | materialise shapes, fold constants, eliminate dead nodes, merge equal nodes | the declared outputs keep their values; nothing random is folded; nothing dead stays; the loop ends |
| fusion passes, `src/optimizer/fusion/` | the same nodes and initializers; per walk: producers, counts of readers, nodes to leave out or put in, names to redirect | seventeen rewrites of a pattern of nodes to one or two others, with folded constants | the fused node computes what the pattern did, whatever shapes and readers there are; nothing that anybody else reads is taken away |
| topological sort, `oxionnx-core/src/graph.rs` | in-degrees, dependents, queue | Kahn's algorithm with a fallback for cycles | producers first, each node once |
| streaming, `src/streaming.rs` | tokens so far, key/value cache, ended or not, token | `next`, cancel, reset | what a cached, positioned, incremental decode yields is what decoding from scratch would; it ends |
| cancellation, `cancellation.rs` | the registry's guards, tokens | bind a token, register an operator, cancel, reset, execute through guards | after cancel no node starts; binding keeps what the registry has; a cancelled run ends |
| run entry: shape cache and io_binding, `session/mod.rs`, `run/entry.rs`, `run/shape_resolution.rs` | four plans of resolved shapes, most recent first; the last plan; symbolic extents; output buffers by name | validate, look up, refresh, infer, store, memoise; bind an output, `run_with_binding` | a run goes by the shapes of its own inputs; the cache holds the plans used last; a buffer holds one run's output in that run's shape |
| gpu_activations, gpu_dispatch | tensors kept on a device during a run, their buffers, the pool and budget of these, initializers uploaded for good | offer a node to its accelerators, keep, view, promote, displace, read back, release after last use | no device value dropped early or kept late, no buffer leaked or owned twice; the choice of backend does not change values |
| gpu_residency; execution_providers; builder, loading, serialize, accessors; mixed_precision; shape inference and cost model; memory_tracker; encryption; wasm; typed_session and benchmark_select | configuration, tables, counters | | |
| oxionnx-core, oxionnx-ops, oxionnx-proto, oxionnx-gpu/-cuda/-directml/-coreml | tensors, kernels, parsers, drivers | | |

### How they interact

- Loading calls the passes and then the sort; the sorted nodes and the plan built from them (`StaticRunPlan`) never
  change afterwards. Everything a run reads from its session is immutable but the pool, the shape cache and the memo
  of the last plan (each behind a mutex of its own), the accelerators' pools and caches, and the operator registry, which
  needs `&mut Session` to change.
- A run keeps its own `RunState`. Two runs of one session meet in the pool only: a buffer one run releases is one that
  another may be handed. With accelerators they meet in the device's pool, its budget and its cache of initializers, too.
- On the way in, a run takes several locks one after the other; other runs go between any two of them.
- Within a run on the parallel path, the nodes of one depth level execute on rayon workers between two serial phases.
- `async_run` moves a clone of the session's `Arc` to a thread per call. Streams call `run_internal` on the caller's.
- A cancellation token reaches operators through guards in the registry, streams through their configuration.
- GPU sessions make and drop their contexts through one owner thread per process; an `atexit` hook reads both that
  thread's count of round trips and `ACTIVE_WORKERS`.

### What is hard

The places where a test would hardly find a mistake are listed with their line in `PROJECT.json` under `hazards`, each
with the properties that cover it. In short: decisions taken serially from counts that siblings have not yet given up
(in-place execution); buffers that move between runs; the order of publish, notify and wake against a client that
looks, sleeps or drops; which thread drops the last `Arc`; a receiver dying between a request and its answer; two
counters read one after the other at exit; one pass meeting what another left, or what it has taken away itself;
values that are on the device only, under names that the host or an initializer has as well; captures of branch bodies, which are
dependencies that appear nowhere in `node.inputs`; lengths subtracted to give positions.

## 2. The modules

    OnnxGraph        the graph and schedule records, uses of names, seeded reference counts
      RunEngine        runs of one session over one pool            (session/run)
        Dataflow         what a run promises: RunEngine implements it
        RunEngineProofs  theorems: types, reference counts, who owns a buffer, how long it is held, and that
                         RunEngine implements Dataflow
      StaticPlan       depth levels and batches of a session         (run/plan.rs, run/scheduling.rs)
      MCRunEngine      small sessions, planned by StaticPlan
    AsyncRun         MCAsyncRun          spawn_run, RunHandle, RunFuture, worker threads
      AsyncRunProofs   theorems
    SizeClassPool    MCSizeClassPool     the pool RunEngine abstracts to a set of buffers
      SizeClassPoolProofs theorems
    GpuOwner         MCGpuOwner          the owner thread and the exit hook
      GpuOwnerProofs   theorems
    Loading          MCLoading           from a parsed graph to the order of its session, composing
      GraphPasses      the rewriting of the graph                  (optimizer/)
        Fusion           the seventeen fusion passes               (optimizer/fusion/)
        OperatorValues   what the operators in them compute        (oxionnx-ops)
      TopologicalSort  the sort                                    (oxionnx-core/src/graph.rs)
    TokenStream      MCTokenStream       the decode loop
      GreedyDecoding   what a stream promises: TokenStream implements it
      TokenStreamProofs theorems
    Cancellation     MCCancellation      tokens and guards
      CancellationProofs theorems
    DeviceRun        MCDeviceRun         runs with accelerators; implements Dataflow, too
      DeviceRunProofs  theorems
    ShapePlans       MCShapePlans        the entry of a run: shapes, caches of them, bound outputs
      ShapePlansProofs theorems

Definitions whose comment begins with "Variant:" are not part of a specification. Each is a plausible bug of the
definition that follows it: with it in place of that definition some property of the module fails, which shows that
the property watches that code.

**RunEngine.** A run is a thread that walks the batches of the schedule. `pc[r]` is the phase it is in, `step[r]` the
batch, `pos[r]` the node a serial phase is at; `tensors[r]` and `refs[r]` are `RunState`'s two maps, `work[r]` what the
serial claim phase decided for the nodes of the batch, `pool` the buffers cached, `content` what is in each buffer.
A batch with `checked = FALSE` is one node that `dispatch_node` handles and `decrement_refs_state` follows, which is
the sequential path, a level of one node, and the control-flow nodes of a level; one with `checked = TRUE` is
the `par_iter` half. `ClaimInplace`, `ClaimSlots`, `ClaimFresh` and `ClaimError` are the choice of path with its guards
and buffer acquisition (`dispatch.rs`); `Compute` and `ComputeError` an operator; `Join` the collect; `Write` and
`WriteError` the stores; `Release` the decrements (`scheduling.rs`); `Finish` and `FinishError` `take_outputs`. Values
are terms: the k-th result of a node is the term of its node, k, arguments and captures, so two runs agree on a value
exactly if they would on any operators. Buffers are named by the allocation that made them, and a recycled buffer keeps
its name, so that overwriting one that somebody still holds changes what he holds. An `?` drops the state and its buffers (`Fail`).

**Dataflow** has no buffers, counts, pool or schedule: a run begins, and then returns `Denotation` or gives up.
`AnswersDenotation` says RunEngine implements it. As the answer is computed from `content` in every later state, too, a
run that overwrites a buffer somebody was already given violates it.

**StaticPlan** gives the schedule as a function of the graph: `NodeDepths`, `DepthGroups` (with the stable sort by
critical-path cost) and the batches in the order both run loops walk them. RunEngine takes any schedule that holds each
node once, which is all the proofs about its memory need; MCRunEngine uses the planned ones, as the answers depend on the
order. How far they do is `KeepsOrder` of OnnxGraph, which `AnswersCorrect` assumes and TLC checks of the planned sessions.

**AsyncRun.** Each call has a client with a style (blocking wait, await, await and poll again, spin on `is_finished`, drop)
and a worker. `Take` is the body under the slot's lock; `Publish`, `Notify` and `Wake` are the three parts of
`complete`, the latter two outside the lock; `DropSlot`, `Leave`, `DropCaptures` are the end of the thread body in the
order Rust drops locals and then captures. `holders` is the set of `Arc`s of the session, `disposer` who dropped the
last. Condition variables and `park` may return for no reason (`Spurious`).

**SizeClassPool.** `Reuse`/`Allocate` are `acquire`, `Release` is `release` with its refusal and eviction, `Clear` and
`Compact` as named. Buffers are capacities (and the length they were last used with, which decides the class they are
returned to); sizes are scaled down. Under RunEngine the pool is a set any fitting buffer may be taken from, so
that its results do not depend on what this module says of which one is.

**GpuOwner.** A user is a session; `place[u]` follows its thread through `create` and `dispose`. The channel is a
rendezvous: a request is either in its sender's hands or being served. `Panic` drops everything the owner thread had.
`Look` is one evaluation of `nothing_pending`. Of its two counters the round trips in
flight are followed one by one; whether an async worker is active is any Boolean at each look, as AsyncRun's calls are not composed with it. `late` records who entered since the last look.

**GraphPasses.** One action per pass in the order `optimize_with_input_shapes` calls them at the graph's `OptLevel`, folding
repeated until nothing folds, each computing its whole result; `Fuse` is the pass of `Fusions` that `stage` names.
`Environment` gives the value of every name after the nodes have run, which is what `Equivalent` compares before and after.

**Fusion.** Each pass walks the nodes in file order with producers and reader counts it found before it began (`Maker`,
`Consumers`, `Fusable`), and notes nodes to leave out, nodes to put in, and names to redirect; new initializers are there
at once (`Walked`). Then the list is rebuilt, each input looked up once (`Rebuilt`). A rule, such as `MatMulAdd` or
`LayerNormalization`, is the set of the at most one rewrite found at a node: its guards are the pass's early exits. `Moments`
is the chain that both normalisations look for. `conv_relu6` is in the pipeline and finds nothing, as `conv_relu` has been there.

**OperatorValues.** A value is a term and a shape. The operators bring results into one form, such that a pattern and the node
that replaces it have the same value exactly if the replacement is right: a `Reshape` keeps the term, transposes
compose, a product distributes over the sum on its left, and a scale and a shift made of the parameters of one
BatchNormalization are that. What a kernel refuses is `Failed`. Numbers are rounded nowhere.

**TopologicalSort.** The counting of in-degrees, then one action per node taken off the queue, then the rest in file order.

**Loading** is `build_from_graph`: the passes of `GraphPasses` (`Optimize`), then `TopologicalSort` (`BeginSort`,
`SortOn`), instantiated on the graph the passes left. What the passes turned into initializers the sort takes
as known. `sorted_nodes` is what the session runs, and `AnswersAsFiled` compares its answers with those of the file as loaded.

**TokenStream.** The model is external: its cache covers a sequence of tokens with positions and its logits are any
function `Greedy` of what it has seen. `Step` is a successful `step`, `StepFails` a failed one, `NextCancelled` the
check between steps; `SetCancelled` is another thread. **GreedyDecoding** has no cache: it yields `Greedy` of the whole sequence.

**Cancellation.** `guards` maps operators to the tokens of their guards, outermost first; lanes execute a chain of nodes,
one of them a `Loop` whose body may go on forever, and look each operator up, pass its guards one by one, and run it.

**DeviceRun.** A run walks the nodes in order (`node[r]`); `tried[r]` says how many accelerators of the node's chain have
declined. `host[r]` is the run state, `device[r]` the map of RunActivations: an entry has a buffer and what must be in the buffer
for the entry to mean its value, so that a buffer that was recycled too early reads as garbage. `live`, `spare` and
`cached` are shared by all runs: the budget, the pool of device buffers, the cache of initializers. `Promote` uploads a host
operand that is worth it; `Reclaim` is an allocation over budget that destroys idle buffers of the pool, whether or not it then succeeds; `DispatchDevice`, `DispatchView` and `DispatchHost` are an accelerator that takes the node and leaves
the result in a buffer, relabels its operand's, or reads it back; `Decline` and `DispatchError` one that does not. When all have declined,
`ReadBack` brings what is `Stranded` on the device to the host and `HostCompute` runs the CPU's kernel. `Close` is
the release of references on the host and of the values at their last use on the device. Whether a buffer of the right size is
to be had, which tier a device is of and whether a tensor is large enough to bother are choices. The predicates from `UsedLater`
to `Unambiguous` say what two of the properties need of a session; MCDeviceRun states which of its sessions have it, in an `ASSUME`.

**ShapePlans.** A caller's steps are those between the locks: `Accept` or `Reject` (validation), `LookupHit` or `LookupMiss`,
`Refresh` with `MemoHit` or `MemoMiss`, `Store`, `Memoize`, `Answer`. `entries` is the cache, `memo` the plan of a recent run,
`binding` the buffers of the caller that uses `run_with_binding`. `Infer` is what inference says, `Actual` what a run would find.
`recency` is history, for the property of the cache.

## 3. The runs

A configuration sets `CHECK_DEADLOCK FALSE` where the system rightly stops: a run is done, a call is answered, a
process has exited. Loading and the entry of runs are checked for deadlock; a built session stays as it is (`Ready`). The pool and cancellation go on as long as somebody calls them. Sizes are distinct states.

| run | instance | shows |
|---|---|---|
| `engine` (135,618) | two runs, twelve sessions: six sequential, five parallel and one without a pool, of two to four nodes | `RefCountsExact`, `HeldWhileNeeded`, `BuffersUnshared`, `AnswersDenotation`, `EveryRunEnds` |
| `async_calls` (553,558) | two calls, any two of four styles: wait, await and poll again, spin on `is_finished`, drop | `NoLostWakeup`, `AnswerOnce`, `EveryWaiterAnswered`, `SessionReleased` |
| `pool` (59,601) | three classes, lists of two, two buffers out, two foreign ones | `FreeListsSound` (lists sorted, bytes exact), `BestFit` |
| `gpu_owner` (147,458) | three users | `InFlightExact`, `ContextsOwned` (one thread, synchronous drops), `ExitGuarded` (the hook covers contexts, round trips are waited for), `NobodyHangs` |
| `loading` (223,433) | 11,751 graphs in three families | `PassesSound` (outputs keep their values, nothing dead stays), `OrderSound` (in-degrees exact, producers first, each node once, only cycles appended), `AnswersAsFiled`, `LoadEnds` |
| `loading_captures` | an `If` whose body captures an intermediate | `CapturesFirst` fails |
| `loading_redirects` | Dropouts, Transposes or Reshapes in a row | `ConsumersRepointed` fails |
| `stream` (1,536) | 160 configurations: prompts of one or two tokens, cache or not, position inputs or not, caps 0 to 5, an end token or none | `CacheOneBehind`, `DecodesGreedily`, `StreamEnds` |
| `cancel` (109,446) | two lanes, two tokens, two nodes, two rebindings | `StopsAtNextNode`, `CancelledRunEnds` |
| `device` (92,366) | two runs, seven sessions of three or four nodes, three device buffers, two of which the pool keeps | `DeviceMemoryAccounted`, `NoDeadDeviceValue`, `AnswersDenotation`, `EveryRunEnds` |
| `device_optional` | a bias computed on the device | `AnswersDenotation` fails |
| `entry` (214,138) | two callers, four sets of input shapes, a cache of two plans, one caller binding buffers of two shapes | `PlanOfItsInputs`, `CacheExact`, `BindingAnswers` |

Each passing run also checks its type invariant. No run uses symmetry, which would be unsound beside liveness.

Why these bounds are enough to be interesting:

- *engine.* Each session was made for a hazard and says so in MCRunEngine: a chain through all paths with a name read
  twice by one node; siblings that could both overwrite their input; a capture against an in-place candidate; elided,
  dead, missing and doubly used outputs; a fed name that is written again; a node that
  declares a name twice; unknown shapes. Two runs are what a pooled
  buffer needs to move from one to another, at any phase of either. More nodes repeat these situations.
- *async.* Calls meet in the session's `Arc`s and in `ACTIVE_WORKERS` only; two show both. There is one waker per slot.
  A client that awaits and polls again does all that one that merely awaits does, which the passing run leaves out.
- *pool.* `MaxPerClass = 2` instead of 32 (`memory/functions.rs:37`): full, one short of full and empty lists all occur. Three
  classes have a first, a middle and an unbounded last one. `MaxLent` bounds the buffers out at a time, since a pool
  is empty of anything they could be.
- *gpu_owner.* Three users: one served, one sending, one who enters late. The counts need no bound, as each user has one context.
- *loading* enumerates graphs: some 1,600 over the operators that folding and merging tell apart, one representative each; some
  8,000 combinations of inputs for the sort, in any order of the file, with cycles, doubled inputs and names defined
  twice; and 2,148 for fusion. Three nodes are a chain of two dependencies, a diamond's two siblings, and a cycle with something
  behind it. The graphs for fusion hold every pattern a pass looks for and its near misses (other axes, ranks, bounds, operand
  orders, shapes unknown), each as it is, with each intermediate exported, and with each read once more, at two levels. Every
  pass but `conv_relu6` rewrites some of them. What they leave out is said at `ForFusion`.
- *stream.* Five steps are several past the first, the one that differs. `MCGreedy` makes the next token depend on every
  token and position seen, so a wrong position or a repeated token changes the answer; it is a stand-in, and the proof
  below is for any function.
- *cancel.* `MaxBind` bounds changes of the registry: two bindings of two tokens give every layering, three add a registration after both.
  The body of the `Loop` is repeated without bound. In the code, a body gives up after a million iterations
  (`loopop_traits.rs`), which nobody who cancels wants to wait for: the model is without that limit, so that `CancelledRunEnds` cannot rest on it.
- *device.* Each session is made for a way a value changes sides and says so in MCDeviceRun: kept, promoted and read
  again, hidden by another value of the name, split from a node of two outputs, captured, viewed, or offered to a chain of
  accelerators of which some see the host only. Three buffers are fewer than two runs want, so that the pool and the budget are at their limits.
- *entry.* `MaxPlans = 2` instead of 4: with four sets of shapes, hits, evictions and promotions of the older plan occur. The
  feeds differ in an input's shape, in an input left out, and in an initializer that is overridden; one disagrees with itself about a
  symbol, which validation refuses.

`TypeOK` is one conjunction per module; the variants show it catches counters below zero, lists above their limit and
lanes in places that do not exist, and device buffers that are spare and not accounted for.

## 4. Fairness

Weak fairness everywhere, and only for threads that the operating system keeps running once they can run:

- `RunEngine`: of each run's own steps. Nobody need start a run. An operator returns, with a result or an error; kernels are loops over data.
- `AsyncRun`: of each client's and each worker's steps. Not of calling, of abandoning a future, of letting go of the
  session, nor of spurious wake-ups, which would hide a lost one.
- `GpuOwner`: of callers that have sent, the owner thread, the hook, and the passage of five seconds. Not of building or
  dropping sessions, of a panic or of exit.
- `DeviceRun`: of each run's own steps, as in `RunEngine`: accelerators and operators return, with a result, an error or a refusal.
- `TokenStream`: of `next` being called; the doc of the stream is about iterating it.
  Nothing is assumed of who sets or resets the token.
- `Cancellation`: of lanes; a token that is raised and left so need not be looked at by fairness but by the guards.

`SizeClassPool` and `ShapePlans` state no liveness. That loading ends is stated without fairness: `LoadEnds` bounds the sweeps
of folding by the nodes they take away and the sort by the nodes it places, every other step takes the next pass, and only a
built session has nothing left to do, which is the check for deadlock. (A fairness condition makes TLC evaluate ENABLED of a
pass, which is one large expression.)

## 5. Proofs

TLAPS checks the following for every value of the constants.

**RunEngineProofs**, from `SessionsAssumption` (graphs are well typed, the schedule holds each node once and no batch is
empty), `NoBufferAssumption` and `NoNameAssumption` (the two "none" values are none of the real ones):

- `TypeCorrect`: `Spec => []TypeOK`. `TypeOK` is not inductive: the serial phases index the batch and the claims by
  `pos` and `step`. The invariant `TInv` adds `Cursor`: while a run is active its batch exists, or it is past the last one in the claim
  phase; `pos` is in the batch; and the claims made so far are, in order, for the nodes of the batch. `StepTInv` has
  one step per action.
- `CountsCorrect`: `Spec => []RefCountsExact`. In every state of every run of every session, the remaining count of a
  name is the number of its uses by nodes whose release is still to come, plus its declarations as a graph output.
  The argument: uses are pairs of a node and an input position, so those of a set of nodes are a finite set that splits when
  a node leaves it (`UsesBySplit`); the cursor moves along the schedule, which holds each node once, so a release
  takes exactly one node out of `Pending` (`NextNode`, `NextBatch`, `ReleasePending`) and everything else none
  (`StepPending`); subtracting the node's uses then keeps the equation, and saturation at zero never bites.
  It is the fact everything about memory rests on: a count of one in `node_can_execute_inplace` means that this
  node is the only one left that reads the name.

- `UnsharedCorrect`: `Spec => []BuffersUnshared`. That no buffer is in two places is not inductive, as a worker may make one
  at any time: what it makes must be in no place yet, also not in the pool, to which a buffer returns with its name. The
  invariant `IInv` therefore follows each buffer from where it is made. `ToCome(r)` are those run r may still make: those of
  the nodes it has yet to claim, and of claims that have yet to be computed. `Unshared` says that the buffers of a run are
  each in one place (`OwnOnce`), and neither in the pool, nor another run's, nor to come in any run (`OwnAlone`). `Handover` is the
  one argument all actions share: what a step makes was to come and is no longer, and everything else it only moves between
  its names, its claims and the pool. `HandedBack` is the special case of steps that give up tensors.
- `NeededHeldCorrect`: `Spec => []NeededTensorsHeld`, the half of `HeldWhileNeeded` that is about safety: what is fed or
  written stays until the last node that uses it has released it, or has claimed it in place. Claiming in place needs
  `CountsCorrect`: a count of one is one use, so no other pending node has any (`ClaimInplaceHeld`). So does freeing, and once a
  batch is released, so is what its nodes claimed (`ReleaseHeld`). That a write does store what its node declared and returned needs
  `ClaimsReady`: slots are there for the outputs that have a name, and a computed claim has as many buffers as its
  operator has results.
- `HeldCorrect`: `Spec => []HeldWhileNeeded`, both halves. The other half is that nothing is held that all its users have
  released, and it needs one thing more of the schedule, `ProducedFirst`: no batch uses a name that a later one stores. A
  tensor stored after its last use was released would stay to the end of the run. TLC checks `ProducedFirst` of the
  sessions of MCRunEngine. `OrderSound` and the levels of StaticPlan are where sessions have it from, but for captures of
  intermediates (section 6).

The second half of RunEngineProofs is about answers. It needs, stated in the theorem, `KeepsOrder`: of two nodes that share a name at least
one of them stores, the schedule keeps the sorted order. What a node stores is there before the batch of a later user, a name
that is still to be read is not stored again before the reader's batch, and of two that store a name the later is written
last. A sequential schedule has it whatever the graph (`SequentialKeepsOrder`). A parallel one has it if a node is deeper than those
before it whose results it uses, and no name is stored twice or after its use (`LevelsKeepOrder`). The depths of StaticPlan are such
for every name but those of initializers, which ONNX lets no node store, and a sorted ONNX graph satisfies the rest, but for captures of
intermediates (section 6). TLC checks `KeepsOrder` of the twelve sessions of MCRunEngine, some of which do store a name twice.

- `AnswersCorrect`: `Spec => AnswersDenotation`, the refinement of Dataflow: `Start` is `Begin`, `Finish` is `Return`, the
  three ways to fail are `GiveUp`, and every other step stutters, answers already given included. `Env(r)` gives every name its value
  after each node in sorted order; that this recursive function exists is shown by a smallest counterexample (`EnvExists`). The invariant
  `AInv` says of a run: what it holds under a name is the value after the last written node that stores it (`HeldDenoted`);
  what a claim took over is what its node is to read, and no other pending node reads it (`TakenBy`); a result that waits to be
  written is the value after its node (`ResultsBy`); an initializer's name that was fed or written is still held, so it does
  not show the initializer again (`WeightsHeld`); and what was answered is denoted (`Answered`).
  The argument: by `KeepsOrder` exactly the nodes before a node have stored what it uses when its batch begins
  (`StoredBefore`), so it reads the value before it (`ReadValue`), `NeededHeldCorrect` being why there is something to read, and
  what it computes is the value after it (`ComputeResults`). From then to the write, and from the write to the last read, nobody overwrites
  the buffer, as an operator writes only into buffers of its own claim and a buffer has one owner (`OwnedKept`, by
  `UnsharedCorrect`). The zip of outputs and results keeps the last result for a name (`StoredIs`), as Dataflow does.

**SizeClassPoolProofs**, from `BoundAssumption` (the bounds of the classes are positive and ascending), `MaxPerClassAssumption` (a list may
hold a buffer) and `SizeAssumption` (types, and no foreign buffer is longer than its capacity):

- `TypeCorrect`, `FreeListsCorrect` (`Spec => []FreeListsSound`) and `BestFitCorrect` (`Spec => BestFit`, an action property). `TypeOK` and
  `FreeListsSound` together are inductive (`IInv`, which `IInvIs` shows to be the two, so the run `pool` checks it). The bytes are sums
  over lists of lists, which the model takes from the fold of the community modules: `SumExists` shows by
  the size of the set that the recursive function the fold stands for exists, `SumTake` that an element may be taken out first whichever it is, and
  `SumJoin`, `SumMoved` and `SumAdded` how sums of unions, of moved elements and of sums relate. A list operation is one of two:
  it takes an element out or puts one in (`Without`), or keeps the elements of some places (`Part`); `ListChanged` is
  then what it means for the bytes of the whole pool. That a binary search finds the place (`BelowIs`) needs the list in
  order, which is what insertion there keeps (`InsertHolds`); so best fit and order depend on each other, and no
  `saturating_sub` ever saturates.

**AsyncRunProofs**, from `CallAssumption` (calls are finitely many):

- `TypeCorrect`, `NoLostWakeupCorrect` and `AnswerOnceCorrect` (`Spec => AnswerOnce`, an action property) from one invariant. Per call,
  `SlotOf` ties the slot to how far worker and client are: it is empty until the worker publishes, and taken once the client has
  got something. `WakerLeft` says that a client that polls has left its waker in a slot it found empty, which is what makes
  `Publish` see it. `ActiveExact` says that `ACTIVE_WORKERS` is the number of workers between entering and leaving, which
  bounds it.

**GpuOwnerProofs**, from `NobodyAssumption` (users are finitely many, "nobody" is none of them):

- `TypeCorrect`, `InFlightCorrect`, `ContextsOwnedCorrect` and `ExitGuardedCorrect`. The invariant adds `Served` (the owner is
  busy with the one user who waits for a reply, with the request that user came with), `Lifetimes` (what a user has at each place of
  `create` and `dispose`) and `Noticed` (once the hook has had a quiet look, whoever is in flight has entered since). That the count
  is exact is also why it never goes below zero: who leaves was in flight.

**ShapePlansProofs**, from the assumptions of ShapePlans (feeds name inputs and initializers, there is room for one plan, no node
writes a fed name, the nodes are a sequence):

- `TypeCorrect`, `PlanOfItsInputsCorrect`, `CacheExactCorrect` and `BindingAnswersCorrect`. `infer_shapes` is recursive over the nodes. That
  its result is defined, and names the shapes it started from, is shown by a smallest counterexample (`LeastNat`, `PartialExists`).
  The invariant says of a run that it holds the plan of its own inputs or none yet, and of the memo that it is the plan of some
  inputs, maybe others than this run's: it is used only if it names the shapes the run was fed, and then it is what inference
  would make of them, since a plan keeps the shapes it started from.
  For the cache the invariant is `Cached`: one entry per key, each the plan of its key, in the order of the history of uses.

**CancellationProofs**, from `ProgramAssumption` (types, and a program has a node):

- `TypeCorrect` and `StopsAtNextNodeCorrect` (`Spec => StopsAtNextNode`, an action property). The invariant: the session's
  token is the outermost guard of every operator in the registry (`Guarded`), and a lane has passed no guard of a token that
  was up when it looked the operator up (`Passed`). Binding again wraps every operator once more, so the latest token is outermost.

**TokenStreamProofs**, from `ConfigsAssumption` (types) and, stated in the theorems, `AnswersTokens`: the model answers with
tokens; and, but for the first, `FromScratch`: no cache is resumed, either.

- `TypeCorrect`: `Spec => []TypeOK`.
- `CacheCorrect`: `Spec => []CacheOneBehind`.
- `DecodingCorrect`: `Spec => DecodesGreedily`, the refinement of GreedyDecoding.
  The invariant `IInv` says that the cache is a function of the tokens (`Covered`): empty at first and without bindings,
  else the sequence without its last token, each at its place. `SeesAll` shows that, in both cases and with
  positions from either side, what the model has seen after a step is the whole sequence at its own positions; so the token
  it chooses is the one decoding from scratch would, and the new cache is again one behind. `FromScratch` is needed: section 6 says what a seeded cache does.

**DeviceRunProofs**, from the assumptions of OnnxGraph and DeviceRun (sessions are well typed: what is viewed or placed has a
result, what is viewed an operand; buffers are finitely many; the "none" values are none of the real ones):

- `TypeCorrect`, from `TInv`: where a run is in its graph, and that one which has not begun holds nothing on the device.
- `MemoryCorrect`: `Spec => []DeviceMemoryAccounted`, which with `TInv` is inductive. The work is in the one step that changes three
  things at once: an allocation takes a buffer from the pool or the budget, what it displaces under its names goes back to the pool unless a view still
  holds it, and a pool that is full destroys what it cannot keep. `AccountIs` and `AccountKept` are that argument once, for any
  step that gives some names of a run new entries; `MemoryDisplaced` and `BoundDropped` say who holds what afterwards.
- `NoDeadCorrect`: `Spec => []NoDeadDeviceValue`, for sessions with `UsedLater`: a stored name that is used at all is used later, as in a sorted graph. `LastUse` is
  a `CHOOSE` over the nodes that use a name; what is on the device is used at or after the run's node, and `Close` drops exactly what was not
  to be used after it (`LastUseIs`, `LiveStep`).
- `AnswersCorrect`: `Spec => AnswersDenotation`, the refinement of Dataflow, for sessions that are `Unambiguous`. `GivenOnce` is ONNX's
  single assignment. The other two say where the code can go wrong: `HiddenFirst` excludes a promoted initializer that a later node's
  result hides on the host only, `NoneOverlooked` an operand on the device only that a kernel takes for absent; both
  are in section 6. The invariant `AInv` says of a run: what it holds on the host or on the device under a name is the
  value after the nodes so far (`HostDenoted`, `DeviceDenoted`), where a device value counts only while its buffer holds the bytes
  it was made with, which `MemoryCorrect` keeps from everybody else; a value still wanted that is neither on the host nor
  produced on the device is what the name had to begin with, an initializer or nothing (`NowhereLoaded`); and answers are denoted (`Answered`). The reading lemmas (`HostReads`,
  `KernelReads`) take an operand from either side, the weight cache or an elided slot to the value that Dataflow uses;
  `KernelComputes` and `HostComputes` take the node's results from there. One `Values...` lemma per action restores the invariant. `Env` is as in RunEngineProofs.

Only model-checked, of what the runs check: loading, and liveness. Of fusion nothing is proved: what a pass
keeps is a statement about walks over lists of nodes, which `Fusion` and `GraphPasses` write as recursive operators, and
the prover does not work in modules that have them. Out of its reach are also liveness under fairness and `ENABLED`. The
library's induction theorems cannot be used, as they take an operator; where a proof needs one it argues by a
smallest counterexample, which is long, and is done for `Infer`, `Denotation` and sums, not for `NodeDepths` or other folds.

## 6. Disagreements with the documentation

Runs that end in a violation show where a sentence of the documentation does not hold; `PROJECT.json` quotes each.

| run, property | what the code does |
|---|---|
| `loading_captures`, `CapturesFirst` | the topological sort does not wait for captures |
| `loading_redirects`, `ConsumersRepointed` | a redirect to a name that the same walk takes away is not followed: two Dropouts in a row, or two cancelling pairs of Transposes or Reshapes, leave a reader of a tensor that nothing makes |
| `device_optional`, `AnswersDenotation` | an optional operand that is on the device only is taken for absent |

Captures again: dead-node elimination (`dead_code.rs:17`) and the redirection of merged nodes (`cse.rs:233`) look at
`node.inputs` alone as well, so they can remove the only producer of a captured name. `TensorUsage`
(`graph_utils.rs:36`), which every fusion asks whether it may take a name away, counts no captures either. RunEngine and
StaticPlan take node orders in which captures come first, and `loading` is checked over graphs whose captures are of inputs and initializers.

Read in the code while modelling, and checked by no run:

- `peak_bytes` of the pool counts what is cached plus the one buffer just allocated (`types.rs:66`), not the buffers that
  are out, where the doc of `PoolStats::peak_bytes` says "cached + in-flight".
- `compact` goes by a fragmentation ratio that only `release` and `compact` update (`types.rs:207`), so after `acquire` or
  `clear` it describes lists that are gone.
- `TokenStream::is_finished` stays false when a stream ends at its cap (`streaming.rs:446`), where its doc names the cap.
- A node that declares fewer outputs than its operator returns runs on the sequential path and fails in a parallel level of two
  or more nodes (`parallel.rs:997`, `dispatch.rs:121`).
- A worker stops counting as active before it drops the `Arc`s it captured (`async_run.rs:386`): the exit hook can see nobody
  active while a worker is about to destroy the session. `SessionReleased` only says that it is released at last.
- Merging removes a node whose outputs include one that the node which stays elides (`cse.rs:215` notes no redirect then), so
  that who reads that output has no producer. The graphs of `loading` have no such pair.
- `run_internal` checks no fed name (`entry.rs:16`). One that is neither an input nor an initializer stays in the memo, and
  `memo_matches_inputs` (`shape_resolution.rs:277`), which is to find out whether the memo was "produced from exactly the input shapes",
  looks only at the inputs and at what the run at hand feeds. A node that reads the name is then planned with a
  shape of an earlier run. `FeedsAssumption` leaves such feeds to the caller's contract.
- A seeded stream takes positions and mask from its prompt and not from the cache it resumes (`streaming.rs:363`).
- `register_op` guards with the token bound last only (`cancellation.rs:439`).
- `dispatch_node` and `write_node_outputs` (`dispatch.rs:422`) store a result in the run state only: a promoted initializer of the
  same name stays bound on the device and is what the next kernel reads (`gpu_activations.rs:345` calls the case handled).
- `fuse_conv_batchnorm` takes a bias that a node computes for none (`conv/batchnorm.rs:123`).
- `fuse_layer_norm` accepts an initializer of any shape as scale and bias (`matmul/layer_norm.rs:315`), which the kernel indexes
  modulo its length.
- A constant for one, or for epsilon, of more dimensions than x is accepted (`const_scalar` looks at the one element), and the
  fused node's result then lacks these dimensions.
- `fuse_add_matmul_to_gemm` checks the rank of x and not that its last dimension is the bias's; `fuse_matmul_add` checks that the
  bias is a vector and not its length. A broadcast over either fails or has another shape in Gemm.
- `fuse_conv_clip_to_conv_relu6` never finds work after `fuse_conv_relu`; `ConvAddRelu` has no kernel in the default registry.
- `infer_shapes` lets an initializer's shape hide that of a tensor fed in its place (`shape_inference/mod.rs:31`), so the plan of a
  run that overrides an initializer with another shape has the default's; `PlanOfItsInputs` says that it is at least the plan of this run.
- `complete()` wakes the waiter before the worker drops its `Arc`s, so the worker can be the one that destroys the
  session; the doc of `_session_keepalive` expects the waiter to be.

## 7. What is not modelled

- *In RunEngine*: accelerators (DeviceRun), mixed precision, profiling, typed sessions. Resolution of shapes is a set of names
  whose shape is known.
- *In DeviceRun*: buffers that live during one kernel only (uploads, staging); sizes of buffers, size gates and tiers of
  devices, which are choices, and so are which idle buffers a pool over its bytes or its count destroys and how many; how many bytes the cache of initializers may take; mixed precision; the host's pool; the
  parallel schedule, whose levels offer nodes to the same accelerators.
- *In ShapePlans*: what a node makes of shapes beyond three rules; poisoned locks; the order in which `run_with_binding` moves
  its outputs. No node writes a name that is fed (`SingleAssignment`).
- *In the pool*: `MemoryPlan`, which only an estimate uses, and what is in a cached buffer.
- *In GraphPasses and Fusion*: how shapes are inferred (they are right where they are known); rounding of folded constants;
  captured intermediates. Where a pass compares epsilon with a bound, it is zero or one.
- *In TokenStream*: `last_position_logits` and `argmax`, which are part of `Greedy`.
- *In Cancellation*: the four forms of executing an operator are one.
- Memory is sequentially consistent. The counters of the code that are read without a lock use orderings at least as strong
  as the models need, or are statistics.
- `memory_tracker.rs` is used by nothing in the repository.
- The executor of control-flow bodies (`oxionnx-ops/src/control_flow`), which runs a graph inside an operator.
- Most of the code by lines is numeric kernels, shaders and drivers for four accelerators, which keep no state from call to call.
  Parsers, kernels, drivers, encodings, wrappers and tables, as `PROJECT.json` says component by component.

## 8. Plan

Done, in this order: the run engine and its promise, its plan, type correctness and counts; asynchronous calls; the
pool; the owner thread; the passes and the sort; streams; cancellation; values on devices; the entry of a run; fusion;
the proofs of section 5.

Next, by what it adds:

1. The executor of control-flow bodies (`oxionnx-ops/src/control_flow`): Loop, Scan and If with scopes, carried values
   and scan outputs, against a reference definition.
2. Captures of intermediates through all passes, once the sort and the reader counts include them.
3. The parallel schedule over accelerators (`run/parallel.rs`).
