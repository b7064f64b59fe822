# rustVX in TLA+

rustVX implements the OpenVX 1.3.1 C interface in Rust: an application creates
data objects, builds graphs of vision nodes, verifies them, and executes them,
directly (`vxProcessGraph`), in the background (`vxScheduleGraph`,
`vxWaitGraph`), with queues of references in front of the graph parameters (the
pipelining extension: `QUEUE_MANUAL` and `QUEUE_AUTO`), or frame after frame
(streaming).  These modules model the threads, locks, condition variables,
flags and counters around the execution of a graph; the verification that
decides in which order and in which waves its nodes run; and the objects the
nodes work on: their reference counts, the memory of images, the contents of
the other data objects, tensor arithmetic, and the registry of kernels.  TLC
checks them on small instances; TLAPS proves the guarantees that matter most for
every value of the constants: those of the concurrent part, of the registry of
kernels, of parameters that follow delays and of user nodes.

Contents: [Inventory](#inventory), [Modules](#modules), [Runs](#runs),
[Where the code and its documentation disagree](#where-the-code-and-its-documentation-disagree),
[Assumptions and bounds](#assumptions-and-bounds), [Fairness](#fairness),
[Proofs](#proofs), [Not modelled](#not-modelled), [Plan](#plan).

## Inventory

All paths are below `src/openvx-core/src/` unless they say otherwise.

| Component | State | Operations | Interacts with | Correct when |
|---|---|---|---|---|
| Event system (`pipelining_api.rs`, `pipelining.rs`) | per context: event queue with mutex and `event_cv`, registrations, enabled flag | enable, disable, register, send, wait or poll, the `notify_*` functions | called by every execution and by `move_refs_to_done`; cleaned up by `vxReleaseGraph` | events leave in order, once; no client sleeps beside an event; disabling takes effect |
| Graph parameter queues (`pipelining_api.rs`) | per graph and parameter: ready, consumed, done, `done_cv` | enqueue, dequeue, check, resolve, move to done | filled and emptied by the application, moved by executions | FIFO, nothing lost or doubled; a reference in use is not handed back; dequeuers are woken |
| QUEUE_AUTO executor (`pipelining_executor.rs`) | thread handle, stop flag, `execution_mutex` | start, stop, poll, execute | polls the queues, executes on the pool | full sets of references, one execution at a time, every set processed |
| Wave execution and thread pool (`pipelining_executor.rs`, `thread_pool.rs`) | the pool's job channel, a result channel per wave, thread-local `REF_SUBSTITUTIONS` | send jobs, receive results, fail | one pool for all graphs | nodes after what they depend on; success means every node ran |
| Execution life cycle (`unified_c_api.rs`) | graph state, verified flag, `active_executions` with `active_mutex` and `active_cv` | verify, process, schedule, wait, `execute_graph_nodes` | spawns threads, shares the count with the executor | the count is the executions in flight; waiters return, neither early nor never |
| Streaming (`pipelining_api.rs`) | enabled flag, stop flag, thread handle | enable, start, loop, stop, release | runs `execute_graph_nodes` per frame | one loop, stop is final, every loop can be stopped |
| Pipeup warm-up (`unified_c_api.rs`) | per node: execution count, node state | skip, warm up, count | every execution, reset by streaming | nodes read valid outputs; results are valid; the warm-up ends |
| Graph verification (`unified_c_api.rs`) | producers, consumers, node order, waves, predecessors | the passes of `vxVerifyGraph` | reads the nodes' parameters and the images' parents; its result is what executions follow | exactly the graphs that can be scheduled pass; order and waves respect the data; virtual images get sizes and formats |
| Node creators and kernel tables (`unified_c_api.rs`, `c_api.rs`) | four tables | `vx*Node`, the dispatcher, `kernel_output_indices`, `register_standard_kernels` | verification and execution | the tables agree on every kernel |
| Delays (`unified_c_api.rs`) | slots, ages, followers, auto-ageing registry | create, age, register, release, re-resolve | aged at the end of executions; parameters follow them | slots rotate; a node sees the slot it names |
| References (`c_api.rs`, `unified_c_api.rs`) | count, type and name registries | retain, release, set a parameter, release of nodes and graphs | everything | an object lives while, and as long as, somebody holds it |
| Kernels and contexts (`c_api.rs`, `unified_c_api.rs`) | registry of kernels, user kernels and their parameters, id counter | create and release a context, get, release, load, allocate an id, add, add a parameter, remove | nodes refer to kernels; verification initialises user nodes | held and built-in kernels are found; parameters are the declared ones; nodes are initialised once |
| Images (`openvx-image/src/c_api.rs`, `unified_c_api.rs`, `vxu_impl.rs`) | data or external pointers, region offsets, mapped patches | create from memory, handles, a value, a region, a channel; map, copy, exchange handles, clone | kernels convert images to their own form and back | every way to the pixels reaches the same bytes |
| Data objects (`c_api_data.rs`, `openvx-buffer`, `unified_c_api.rs`) | contents, mappings | create, copy, map, unmap, grow, truncate | parameters of nodes | they hold what was written last |
| Tensor and scalar kernels (`vxu_impl.rs`) | none | nine kernels | called by the dispatcher | the reference result, wrapped or saturated |
| Graph parameters, replication (`unified_c_api.rs`) | parameter list, replicate flags | add, set, replicate | resolution in `execute_node` | the binding named is the one used |
| Image kernels (`vxu_impl.rs`, `simd_kernels.rs`, `kernel_fast_paths.rs`, `openvx-vision`) | none | pixel arithmetic | called by dispatch | the reference result |

Threads: any number of application threads, one thread per `vxScheduleGraph`,
one `QUEUE_AUTO` executor per graph, one streaming thread per start, the
workers of the global pool.  Shared state lives in global registries behind
mutexes, in the per-graph `VxGraphPipeliningState` and in the per-context
`VxEventSystem`.  The order in which nested locks are taken is always
`GRAPH_PIPELINING`, `parameter_queues`, a queue's lists, then `GRAPHS_DATA`,
then the event system.  The hard behaviours are the steps between two holds of
a lock (check here, act there), the two ways of executing a graph that do not
know of each other, failures that end an execution in the middle, a counter, a
flag and a state that describe the same execution; and, among the data, the
same fact kept in several places by several functions: a reference count in two
registries, the offset of a region in four, a kernel's parameters in four
tables.

## Modules

| Module | Models | Source |
|---|---|---|
| `EventChannel` | abstract: a FIFO of events, each delivered once, waiting clients served | |
| `EventSystem` | the event system; a report is check, look-up and push, each its own step | `pipelining_api.rs` 41-662, 900-1019 |
| `ReferencePipe` | abstract: one FIFO pipe per graph parameter | |
| `ParameterQueues` | the three queues of each parameter, with executor, direct executions and dequeuers | `pipelining_api.rs` 210-350, 1022-1061; `unified_c_api.rs` 2584-2912 |
| `GraphExecution` | states, flags and the count over the life of executions | `unified_c_api.rs` 2319-2810, 5241-5402; `c_api.rs` 1327-1530 |
| `Dataflow` | abstract: in every execution each node runs once, after its dependencies | |
| `WaveExecution` | waves, pool, results, early return, reference substitutions | `pipelining_executor.rs` 98-315; `thread_pool.rs` |
| `Streaming` | enable, start, loop, stop, release, step by step | `pipelining_api.rs` 670-893 |
| `PipeUp` | execution counts, skipping, warm-up frames | `unified_c_api.rs` 2378-2810, 5074-5131 |
| `KernelSignatures` | the four tables of kernel parameters | `unified_c_api.rs` 1098-1208, 3272-5073, 10598-15658; `c_api.rs` 299-411 |
| `GraphVerify` | the passes of `vxVerifyGraph` | `unified_c_api.rs` 787-984, 1029-1856 |
| `Application` | `Careful` and its absence, for the three modules of images, references and kernels | |
| `ImageLayout` | sizes, strides and offsets of image planes | `unified_c_api.rs` 175-401 |
| `ImageMemory` | images, regions and channels as bytes, and every way to them | `openvx-image/src/c_api.rs` 12-2221; `vxu_impl.rs` 346-606 |
| `References` | counts, parameters, delays, initialisation of user nodes | `c_api.rs` 482-920, 1327-1552, 2238-2403; `unified_c_api.rs` 1863-2373, 6414-6898, 9937-10252 |
| `TensorKernels` | tensor and scalar kernels as operators, with reference definitions | `vxu_impl.rs` 11274-13130 |
| `DataObjects` | the other data objects, and the kernels of `TensorKernels` at work on them | `c_api_data.rs`, `openvx-buffer`, `unified_c_api.rs` 8144-9775 |
| `KernelRegistry` | contexts, built-in and user kernels | `c_api.rs` 260-475, 1559-2058; `unified_c_api.rs` 7040-7157, 10367-10404, 12489-12526 |

`MC*` modules give the constants of the runs.  `*Proofs` hold
theorems, the lemmas of a component with it; `ObjectProofs` is about both
`References` and `ImageMemory`, and `GraphExecutionProofs` about `GraphExecution`
and, in its second part, `GraphVerify`, whose names are therefore distinct.  A definition
marked `Fault` in a comment is a plausible mistake in the operation after it;
nothing uses it but the mutants of `PROJECT.json`, which put it in the place of
the operation to see the property fail.

**Granularity.**  A step is what the code does under one hold of a lock, or one
atomic operation.  Where locks nest the outermost hold is the step if nobody
else can see the inside: the batch an enqueue appends is one step, taking a
reference from ready and putting it into consumed are two, with the locks of
the tables held in between (`tables`).  `Condvar::wait` is a step to `asleep`
that gives the mutex up, and waking is a step of its own that may also happen
for no reason; `notify_one` picks any sleeper.  `ImageMemory`, `DataObjects`
and `References` model one application thread, whose calls are steps; `GraphVerify`
is one call, in passes, with the registry locked throughout.

**EventSystem.**  `events`, `enabled`, `registrations` are the fields of
`VxEventSystem`; `emitter[t]` is the local state of a thread inside a
`notify_*` function or `vxSendUserEvent`, `waiter[w]` of one inside
`vxWaitEvent`.  Node events check the flag and then look up; parameter events
look up and then check, as `move_refs_to_done` does it.  User events carry the
value 0: what the application passes is not distinguished.  Node errors are not
emitted: nobody calls `notify_node_error`.  Implements `EventChannel`.

**ParameterQueues.**  A reference is the number of its enqueue call, so
enqueueing an image again is a new number and the order is visible.  `pc`,
`left`, `hand` and `bound` are the local state of an execution: the parameters
it has to resolve, the reference it has in its hand, and what it uses.
`AutoThreads` go through `SeeAllReady` and `execution_mutex`; `DirectThreads`
(QUEUE_MANUAL, `vxProcessGraph`, streaming) take no mutex and, in a queueing mode
(`IsPipelining`), start a turn when any queue is not empty; in Normal mode they
take the queues as they are.  An execution fails at a node of its own thread
(`FailNode`) or at the first failed result of a parallel wave (`FailWave`); the
jobs that such a wave leaves in the pool are a member of `LeftOvers`, which
goes on resolving and using references until `EndLeftOver`, beside the next
execution.  Implements `ReferencePipe`, all this included.

**GraphExecution.**  `state`, `verified`, `active` are the graph's; `guarded`
holds the threads whose `ActiveExecGuard` will decrement; `current` tells
whether the order of nodes is the one verified for the nodes the graph has.
Calls are cut where the code gives up a lock: `Claim`, `ReadMode`,
`CountActive`, `Spawn`; `CompleteNodes`, `auto_age_delays`, `Leave`, `Signal`.

**WaveExecution.**  `jobs` is the pool's channel, `results[g]` the channel of
the current wave; a failed execution drops its end, so a late result goes
nowhere (`Report`).  `subst` is `REF_SUBSTITUTIONS` per thread; the executor
clears its own at the start of an execution, pool threads keep theirs.  `done`
and `failed` are history: who succeeded and who failed in which execution.
Implements `Dataflow`, failed executions and the jobs they leave behind
included.

**Streaming.**  Every statement of start and stop that touches shared state is
a step.  **PipeUp.**  One thread; `valid` is history: the nodes whose output of
the frame is valid, that is, who had valid inputs and reached their depth.  Any
node may fail, before its kernel ran or in it (`NodeFails`), and the callback of
one that succeeded may abandon the graph (`NodeSucceeds`).  Jobs that a failed
wave of the executor leaves in the pool are not in it.

**KernelSignatures and GraphVerify.**  A kernel is its name; for each,
`Creators` gives the order in which its node creator sets the parameters,
`Dispatch` the indices its arm of the dispatcher demands and writes,
`kernel_output_indices` and `IsOutput` what verification takes for outputs, and
`register_standard_kernels` the number.  `GraphVerify` takes a graph (nodes
with parameters) through the passes in the code's order: `Reject`, `Connect`
(one producer and any consumers per object), `ConnectRegions` (parents and
regions consume what is produced for each other), `ConnectLevels` (pyramids and
their levels), `DetectCycle`, `CountInDegree`, then `TakeReady`, an iteration of Kahn's
algorithm over a stack, `ComputeWave` for each node in the order found,
`EndWaves`, and the virtual objects.  What the code lists in vectors, once for each
parameter, are sets of entries with the place of the parameter, because only
their number and what they name is used.  The hash maps of the code are iterated
in any order: the nodes that become ready together enter the stack in any order.
What it computes is what `WaveExecution` (`Deps`, `Waves`) and `PipeUp`
(`Order`, `Preds`) are given as constants with assumptions.

**ImageMemory.**  A byte is `<<who wrote it, where>>`, so that any byte out of
place is visible.  `memory` holds the buffers: those of the library and those of
the application behind handles.  An image keeps what `VxCImage` keeps (pointers,
strides, offsets of its region, mapped patches); `pixels` is the fact the code
does not keep: which rectangle of which plane of which root image it stands
for.  The properties compare what the code's offsets reach with that rectangle.

**References.**  `objects[o].count` is the number in `REFERENCE_COUNTS`, `None`
once it is removed; `live` is whether the memory is still there; `held` is what the
application has to release.  `delay_params` and `level_params` are
`DELAY_NODE_PARAMS` and its counterpart for pyramid levels; `wanted` is history:
what the application asked a parameter to be, an object or a place in a delay.
A pass of `resolve_delay_params_for_graph` gives every parameter its new value
at once (`Follow`), because no parameter is in a registry twice, and the counts
one after the other (`Recount`).  `initialized`, `auto` and `local` are the nodes
with the flag or pointer of that name; `up` and `buffers` are history.  The loop of
`vxVerifyGraph` over user nodes is one step, which ends well (`VerifySucceeds`)
or at a node that fails (`VerifyFails`): `Hook` takes the nodes it came to, those
whose validator accepted and those whose init succeeded.

**DataObjects and TensorKernels.**  An element is one value.  A mapping is what
the library stores (`maps`) and what the application sees (`held`); staged kinds
copy, the others point.  `written` is history: the last value written to each
element by whoever wrote it.  The kernels are applied to whole objects; each is
stated twice, as the code loops over offsets with `broadcast_index` and casts,
and as a definition by coordinates and exact fractions.

**KernelRegistry.**  A kernel is its handle: the built-in ones by their fixed
ids, those made on demand by a generated id, user kernels by the id they were
added under.  Each kernel counts its references itself (`kernels`) and once more
in `REFERENCE_COUNTS` (`counts`).  A release is the decrement and the removal
(`vxReleaseKernel`, `EndRelease`); unloading the test module collects its kernels
and then removes them (`vxUnloadKernels`, `EndUnload`); an allocation is the load, the reset and the
`fetch_add`.

## Runs

| Run | Instance | Shows |
|---|---|---|
| `MCEventSystem` | 2 emitters, 2 waiters, one graph, 3 reports, 2 registrations | `NoLostWakeup`, `LateEventsBounded`; blocked clients are served; implements `EventChannel` with its fairness |
| `MCQueuesAuto` | the executor alone, 2 parameters, 2 dequeuers, 3 references each, kernels succeed | a reference in use is not handed back, nobody sleeps beside done references, executions work on one full set in step, every full set is processed |
| `MCQueuesOverlap` | executor and one direct execution, 2 dequeuers that ask for 0, 1 or 2, 3 references, failures of nodes and of one wave with jobs left in the pool | still FIFO pipes (`ImplementsPipe`); dequeuers served (`BlockedDequeuerServed`) as long as no wave has left jobs behind and nobody asks for 0 |
| `MCExecution` | 2 clients, 2 spawned threads, executor, all modes and calls; the application is `Careful` | the count, the completion signal, one scheduled execution, what a waiter may conclude, removed nodes make the next execution verify, no graph is left in Running, every `vxWaitGraph` returns |
| `MCWaves` | 2 graphs, 2 workers, diamond of four nodes, failures, 2 executions each | dependencies first, success means complete, the queued reference reaches the nodes on the executor's thread, executions return, implements `Dataflow` |
| `MCStreaming` | 1 controlling thread, 1 that only enables and releases, 3 loops | one loop, owned, started on reset counters, finally stopped (`LoopUnderControl`); stop returns, release ends streaming |
| `MCPipeUp` | a source of depth three with three readers, one of depth two and read in its turn; 5 executions of any kind, failures of any node, abandonment | the warm-up is long enough and not too long (`WarmUpIsExact`), readers run on valid inputs and not on a node told that it is in pipeup |
| `MCVerify` | every graph of three nodes out of some forty made by the node creators over two images, an image with a region, a pyramid with a level and two virtual images; and a graph of one node for each of the kernels that have creators | creators, dispatcher and registered numbers agree (`DispatchFindsParameters`); graphs are refused exactly when they cannot be scheduled (`VerifyDecides`); order, waves and predecessors respect the data, regions and levels included (`ScheduleRespectsData`); `VirtualsFollowWriters` |
| `MCImages` | a root image of 4x2 IYUV, 2x2 S16, NV12 or UYVY, from memory, a handle with padded rows, or uniform; two regions or channels of it or of each other; two accesses | every way to the pixels reaches exactly the rectangle (`AccessesAreExact`), maps keep what is written through them (`MapsAreKept`) |
| `MCReferences` | a scalar, an image, a pyramid with a level, a delay of two pyramids with levels, a built-in and a user node with a parameter each | `CountsAreHolders`, `ParametersAsSet`, `InitialisedOnce` |
| `MCDataObjects` | one container of each kind with two mappings, object arrays, and for each kernel operands of each type with values at the ends of their range | `ContentsAsWritten`, `KernelsAreExact` |
| `MCKernels` | 2 threads, 2 contexts one after the other, a built-in kernel, one made on demand, the test module, 2 user kernel ids, 3 allocations | held and built-in kernels are found (`KernelsAreFound`), `ParametersAsDeclared` |

`CHECK_DEADLOCK FALSE` stands where the bounds on executions, threads, calls or
objects end, and the system then stops: waves, streaming, pipeup, images,
references (everything released), data objects and kernels.  The others can
always take a step (an application can poll, sleep and be woken; a verified
graph stays verified), so deadlock is checked there.

## Where the code and its documentation disagree

Nothing here has a run of its own: each is a behaviour of the definitions in the
modules, seen when an assumption of a passing run is dropped, or met while
translating the code.

**Executions.**

* The documentation says that `execution_mutex` "Serializes all executions of
  the same graph" (`docs/pipelining_architecture.md:98`, `:164`).
  `execute_graph_nodes` does not take it (`unified_c_api.rs:2457`): with a
  member in `DirectThreads` `NoRefReturnedInUse` fails, the execution that ends
  first hands back the reference the other is using.
* `ActiveExecGuard` decrements what "vxScheduleGraph" has incremented
  (`unified_c_api.rs:2485`); `vxProcessGraph` in a queueing mode did not, and the
  counter wraps: `ActiveCountsExecutions` fails without `Careful`.
* "remaining nodes in wave are still waited for"
  (`docs/multicore_pipeline_design.md:266`): the first failure returns at once
  (`pipelining_executor.rs:238`), under a comment that says "Wait for all nodes in
  wave" (`:231`), and the other nodes stay in the pool, into the next execution.
  Before it returns, `move_refs_to_done`, which is for "after execution"
  (`pipelining_api.rs:1021`), hands back the references those nodes are using:
  in `MCQueuesAuto` with `MayFail` and a member in `LeftOvers`,
  `NoRefReturnedInUse` fails.  One that has not begun resolves its parameter after the move and notifies nobody; the next
  move has two references for one `notify_one`, and of two dequeuers with a
  `max_refs` of 1 the second sleeps beside a done reference (`NoStrandedDequeuer`
  fails in the same way, and so does `BlockedDequeuerServed` without its premise
  `PoolLeftClear`).  `ImplementsDataflow` and `ImplementsPipe` show what holds all the
  same.
* `vxGraphParameterDequeueDoneRef` accepts a `max_refs` of 0
  (`pipelining_api.rs:331-343`): it blocks until something is done, returns
  nothing, and may have taken the one notification, so that another dequeuer
  stays asleep beside what it left.  `NoStrandedDequeuer` fails with 0 in
  `MaxRefs`, and `BlockedDequeuerServed` without its premise `AllWantRefs`.
* "Check not already streaming" (`pipelining_api.rs:741`): check and store are
  two holds of the lock, and with two `Controllers` two starts both spawn.
* `execute_graph_nodes` takes a turn as soon as *any* queue holds a reference,
  though its comment speaks of "every set of ready refs"
  (`unified_c_api.rs:2584-2594`); hence `OneSetPerExecution` is a property of
  the executor only.
* `vxScheduleGraph` verifies an unverified graph without a claim, and
  verification sets the state: of two such calls the second one's verification
  can overwrite Running (`unified_c_api.rs:5347`, `:2062`).
* In Normal mode the state is Completed before delays are aged
  (`unified_c_api.rs:2799`, `:2807`), so a waiter may return in between;
  what `WaitSeesResults` says of delays it says of the queueing modes only.
* `vxCreateGenericNode` resets the state but leaves the verified flag, the only
  thing an execution looks at (`c_api.rs:1512-1517`).
* `REF_SUBSTITUTIONS` is thread-local: only nodes on the thread that resolved
  the parameter see the substitution, and a pool thread keeps its entries from
  one execution to the next (`unified_c_api.rs:37-42`); `InlineSharersFollow`
  speaks of the executor's thread.
* The second of two concurrent `vxStopGraphStreaming` finds no handle and
  returns while the loop runs (`pipelining_api.rs:868`); a start between a
  stop's signal and the loop's look at it clears the signal, and the stop joins
  a loop that does not end (`:778`, `:830`).
* Only direct readers of a node in pipeup are skipped (`unified_c_api.rs:2402`),
  the `QUEUE_AUTO` executor skips none (`pipelining_executor.rs:191`), and
  streaming marks every node PIPEUP while only nodes of user kernels recover
  (`pipelining_api.rs:770`, `unified_c_api.rs:3224`).  `RunsOnValidInputs`
  leaves the executor's executions out, and the graph of `MCPipeUp` has no node
  behind a skipped reader that does not read the source as well.

**Verification** (`unified_c_api.rs`).

* `kernel_output_indices` disagrees with the dispatcher for `halfscale_gaussian`
  (lists parameter 2, of two), for `mean_stddev` (`vec![2, 3]` next to the
  comment "[input, mean, stddev]", `:1154`) and for `laplacian_pyramid` (writes 2
  as well).  With "halfscale_gaussian" among the `Kernels` of `MCVerify`,
  `ScheduleRespectsData` fails: the node is not known to write its output.
* The producer map holds one producer for each object.  A node that reads a
  region of a parent another node writes, two writers of sibling regions, or a
  node that reads two members of a family is not always ordered (`Plain` in
  `GraphVerify`); neither is a reader of a pyramid whose level was written
  directly.
* Virtual images are resolved before virtual pyramids (`:1696`, `:1770`), so an
  image that depends on a level gets no size; and in node order, so an image
  whose reader was created before its writer takes its format from the reader.
* A parameter other than the first that is missing passes verification and makes
  the execution fail.
* A repeated verification that fails at a user node returns at once (`:1990`):
  the graph is still marked verified, with nodes deinitialised.  A failing
  initialiser loses the buffer allocated for it.

**Images** (`openvx-image/src/c_api.rs`).

* "The offset is stored separately and used during map operations" (`:1970`):
  mapping a region of an image in library memory ignores it and shows the
  parent's corner.
* "When the parent's handles are swapped, the ROI sees the new data" (`:1883`):
  maps look at the root, but `vxCopyImagePatch` and kernels use the pointer the
  region or channel got when it was created.
* The id of a map is the number of open maps plus one (`:1231`, `:1297`): after
  unmapping out of order two maps share an id, and unmapping one writes the
  other's copy back.
* Kernels that read a region behind a handle cut the region out twice, and write
  it with the wrong row length if the application's rows are padded; they refuse
  to write a channel of an image in library memory; they take regions of `U16`,
  `U32`, `S32` and `UYVY` for one byte per pixel.
* `vxCopyImage` and `vxCopyImagePlane` take the write lock on data they hold a
  read lock on (`:1764`): writing never returns.
* `vxCloneImage`, "a deep copy" (`:2106`), copies zeros for images behind
  handles and the first plane of planar ones, and ignores a region's offset.
* A uniform UYVY or YUYV image of odd width leaves its last pixel of each row
  to the next.  Uniform images and channels have no entry in `REFERENCE_COUNTS`.
* Regions keep their parent's address and do not retain it.

**References.**

* `vxReleaseGraph` frees scalars and pyramids whose last holder is a parameter,
  and no other object; `vxRemoveNode` decrements to zero and frees nothing, and
  does not deinitialise; `vxSetParameterByIndex` keeps the last reference of a
  replaced value; `vxSetParameterByReference` neither retains nor releases
  (`c_api.rs:841`, `:1396`, `:2290`, `:2361`).
* Setting a plain object on a parameter that follows a delay leaves it
  following; `vxReleaseDelay` leaves followers and automatic ageing behind.
* Removing a kernel before its nodes are deinitialised means they never are.
* `vxReleaseReference` does nothing to an object without an entry.  The
  release functions of convolutions, matrices, thresholds, distributions,
  remaps, tensors and object arrays unregister it whatever its count, and those
  of distributions and remaps do not free it.
* The first `vxReleaseNode` stores a count of zero, the second wraps it.
* `vxSetObjectArrayItem` releases the old item before it retains the new one.

**Data objects and tensor kernels.**

* Map ids of LUTs and distributions repeat as those of images do
  (`c_api_data.rs:894`, `unified_c_api.rs:8332`).
* Nothing ever writes a remap: its mappings are copies that are dropped.
  `vxCopyTensor` succeeds and copies nothing; `vxCopyTensorPatch` ignores its
  view and its strides.
* Objects created like a pyramid have scale one half, like a threshold are of
  INT8, and lose their being virtual; there are none like a convolution.
* `VX_ROUND_POLICY_TO_NEAREST_EVEN` rounds halves away from zero; table lookup of
  INT8 takes negative values for 128 and more; dividing the least value by -1,
  or broadcasting shapes that do not fit, panics; select copies scalars only.

**Kernels.**

* The ids of built-in kernels, chosen "to ensure they're unique"
  (`c_api.rs:390`), do not depend on the context: a second context takes over the
  kernels "that are always available" (`:300`) of the first, counts included;
  `vxReleaseContext` leaves them registered; and generated ids reach theirs after
  65 536 objects.
* The id of a user kernel is loaded, reset and fetched in three steps: at the
  end of the "valid range" (`unified_c_api.rs:7142`) two threads get ids beyond
  it or the same one, and after 4096 all repeat.  Adding a kernel under an id in
  use replaces the other and keeps its parameters.
* `vxReleaseKernel` decrements and removes under two holds of the lock
  (`c_api.rs:2016`, `:2030`): a kernel got in between is removed all the same, and
  of a user kernel it removes the entry whatever the count.  `vxUnloadKernels`
  collects the kernels of the module and removes them under two holds
  (`:1691`, `:1705`), whatever their counts, with the same gap.
* `vxGetKernelByEnum` does not find user kernels: it makes up a kernel with
  guessed parameters.  User kernels are found from every context.  A library
  that is not registered counts as loaded.

## Assumptions and bounds

What the application may do is a constant of the modules, so that the properties
can be seen to need it: `Careful` in `GraphExecution` (and `Anything`, of
`Application`, for its absence in `ImageMemory`, `References` and
`KernelRegistry`), `DirectThreads`, `Controllers`, the `Kernels` and graphs of
`MCVerify`.

* The schedule mode changes, and nodes are added and removed, when no call is
  in progress on the graph (`Quiet` in `GraphExecution`).
* `Careful`: the application verifies a graph before it schedules it or enqueues
  references, adds no node to a verified graph, and calls `vxProcessGraph` in
  Normal mode, while it does nothing else with the graph.
* `vxVerifyGraph` writes the verified flag and the state one after the other;
  in `GraphExecution` one step.  The steps around it, which the callers take
  under other holds of the locks, are separate.  The executor's look at the mode
  and its start of an execution are one step, `BeginAuto`.
* Graphs have nodes: the early return for an empty graph is left out.
  `Streaming` starts from a verified graph; `pending_executions` is written
  with zero only and left out.
* `MayFail`: nodes fail or not, at any execution.  `MCQueuesAuto` runs without
  failures, because an execution that fails before it has resolved every
  parameter leaves the queues out of step by design of the code; its first two
  properties are proved for failures that leave no jobs in the pool too
  (`WavesComplete`: every wave that fails has one node, or fails with the last
  result), and `MCQueuesOverlap` has failures that do.  `BlockedDequeuerServed`
  speaks of behaviours in which no wave leaves jobs
  (`[]PoolLeftClear`), because a left-over job consumes without notifying; an
  execution that fails alone, beside others, is among them.
* Dequeuers ask for one reference or more where a property is about their waking
  up (`0 \notin MaxRefs`, `[]AllWantRefs`); the pipes are checked with 0.
* `IsPipelining` is TRUE in the runs, where the executor is one of the threads;
  turns in Normal mode, which start on empty queues too, are in the theorems.
* Condition variables wake spuriously; mutexes are not poisoned, because code
  under them does not panic.
* `PipeUp` counts executions per node.  `execute_node` runs a replicated node
  once per replica and the count advances each time; replicas are not modelled.
  `vxVerifyGraph` does not reset the counts, nor does the model.
* `GraphVerify`: graphs come from the node creators, each node a parameter list
  as its creator sets it, with a missing input in one place.
* `ImageMemory`: `MayMap`, `MayCopy`, `MayKernelRead`, `MayKernelWrite`,
  `MayClone`, `MayUnmap` and `MaySwap` name the accesses that the list above says
  go wrong; maps of one image are unmapped last first.
* `References`: what has a guard `Careful(...)` is a call after which the code
  leaks or frees too much: setting, removing or releasing what holds the last
  reference of an object, following a delay that was released, verifying again
  with failure.  Delays' slots and levels have no other names.  The slots of a
  delay have the same number of levels, as `vxCreateDelay` makes them all like
  one exemplar.
* `KernelRegistry`: one context at a time, kernels given back before it is
  released, nobody gets a kernel somebody else is about to remove, by releasing
  or by unloading it, ids do not run out while some are in use.

| Bound | In | Enough because |
|---|---|---|
| `MaxReports`, `MaxRegistrations` | `EventSystem` | three events: more than waiters, with one polled; two registrations of one topic |
| `MaxEnqueued` | `ParameterQueues` | per parameter two executions and a reference more; a batch of two wakes one dequeuer and strands another if it can |
| `MaxExecutions`, `Modulus` | `GraphExecution` | each of two clients and the executor in an execution at once, and one to follow; the modulus is larger than the number of threads, as 2^32 is |
| `LeftOvers` | `ParameterQueues` | one failed wave, whose jobs meet the next execution and a direct one; what a pop after the move does to a pipe does not depend on how many do it |
| `MaxRuns` | `WaveExecution` | a failed execution and the next, which meets its left-over jobs |
| `MaxLoops` | `Streaming` | as many threads as starts that can overlap |
| `MaxCalls` | `PipeUp` | more frames than the largest depth |
| `Length` | `GraphVerify` | three nodes: a cycle through a region and a pyramid, a writer of two readers, a reader of two writers, a chain |
| `Images`, `Roots`, `Accesses` | `ImageMemory` | a region of a region or of a channel; a map with a write by another way inside it |
| `Most`, `Params` | `References` | two references to what can be retained; a parameter for each of two nodes that share objects |
| `Held` | `DataObjects` | two mappings of one object, unmapped in either order |
| `MaxContexts`, `MaxMade`, `MaxIds`, `MaxHeld` | `KernelRegistry` | a context and its successor; more allocations than ids |

## Fairness

Weak fairness of threads that are inside the library: emitters in a report,
dequeuers, waiters and executors in their loops, scheduled threads in an
execution, workers of the pool, streaming threads.  They run on native threads
with nothing to wait for but the locks and conditions the models have, and
kernels return.  The application need not call anything, so no action that
begins a call is fair; `BeginAuto` of `ParameterQueues` is, because the
executor polls for ever, and so are the steps of the jobs that failed waves leave
in the pool, which its workers take in turn.  No node need fail.  Each thread's fairness is one condition on the
disjunction of its steps where they exclude each other.  The modules of data
state safety only.

## Proofs

| Theorem | Says |
|---|---|
| `EventSystemProofs!TypeCorrect` | `Spec => []TypeOK` |
| `EventSystemProofs!NoWakeupLost` | `Spec => []NoLostWakeup`: inductive with the types, by counting: an event added wakes one sleeper if there is one, a client that takes an event was awake or finds none asleep for want of it |
| `EventSystemProofs!LateEventsAreBounded` | `Spec => []LateEventsBounded`: a push moves a thread from `PastCheck` to `late`, and nobody enters `PastCheck` while events are disabled |
| `EventSystemProofs!ChannelStepSimulation` | the safety part of the refinement of `EventChannel` |
| `ParameterQueuesProofs!TypeAndLocksCorrect` | types, and `LockInv`: the locks of the tables are held exactly while a reference is between ready and consumed |
| `ParameterQueuesProofs!QueuesArePipes` | `Spec => ImplementsPipe`, for any number of executions at once, failing or not, and of failed waves that leave jobs in the pool; `LockInv` is what makes `Transit` a single reference |
| `ParameterQueuesProofs!MutexSerializes` | without direct executions (`DirectThreads = {}`) and left-over jobs (`WavesComplete`), one execution at a time, failing or not |
| `ParameterQueuesProofs!AutoKeepsRefs` | under the same two conditions, `[]NoRefReturnedInUse`; `SerializedKeepsRefs` proves it from serialization alone, whoever establishes it, so that a mutex in `execute_graph_nodes` would be enough together with waiting for the jobs of a failed wave |
| `ParameterQueuesProofs!AutoStrandsNobody` | under the same two conditions, if nobody asks for 0 references (`0 \notin MaxRefs`), `[]NoStrandedDequeuer`: an execution owes at most one consumed reference per parameter, so each move has one reference for the one it wakes |
| `ParameterQueuesProofs!OneSetEach` | with one executor (`OneExecutor`) and nodes that succeed, `[]OneSetPerExecution`: `Numbered` says that the references in a pipe have consecutive numbers in its order, `TurnInv` that before an execution all pipes have been popped equally often, and in it those resolved once more than the rest, which are not empty |
| `GraphExecutionProofs!TypeCorrect` | `Spec => []TypeOK`, the width of the counter included |
| `GraphExecutionProofs!ActiveCounts` | if `"process"` is not among the calls, `[]ActiveCountsExecutions`: `CountInv` adds that a thread past `BeginNodes` is guarded exactly in the queueing modes, and that the count stays below the modulus because threads are fewer |
| `GraphExecutionProofs!RunningEnds` | `Spec => []NeverStuckRunning`, whatever calls are mixed: every action that sets Running has a thread that will end it |
| `GraphExecutionProofs!CompletionsAreSignalled` | without `vxProcessGraph`, `[]NoLostCompletion`: with the exact count, the thread that brings it to zero has still to notify |
| `GraphExecutionProofs!ScheduledOnce` | if the application is `Careful` and does not call `vxProcessGraph`, `[]OneScheduledExecution`: `ScheduleInv` adds that the state is Running while an execution is scheduled, and that nothing is claimed during a verification, the other writer of the state |
| `GraphExecutionProofs!WaitersSeeResults` | under the same conditions, `[]WaitSeesResults`: `WaitInv` adds which of the two ways of waiting goes with which mode, so that a count of zero means that no worker is executing |
| `GraphExecutionProofs!VerifiedOrder` | if no nodes are added after verification, `[]NodesInVerifiedOrder`: `OrderInv` adds that everybody past the check of the verified flag works on the verified order |
| `GraphExecutionProofs!ScheduleFollowsData` | `VerifySpec => [](Plain(graph) /\ Classified(graph) => ScheduleRespectsData)`, for any nodes, parameters, regions, pyramids and orders of the maps |
| `GraphExecutionProofs!VerificationDecides` | under the same conditions, `[]VerifyDecides` |
| `StreamingProofs!LoopsAreControlled` | if there is one controlling thread (`OneController`), `[]LoopUnderControl`, for any number of other threads and sessions: `ControlInv` adds that nothing runs and nothing is stored from a start's check to its spawn, and from a stop's join to its return, and that a running graph has a frame in progress |
| `PipeUpProofs!ProcessGraphIsValid` | `Spec => []ProcessedIsValid` (the first part of `WarmUpIsExact`), for any graph, depths and failures: `SteadyInv` adds that in a frame counted as steady every node up to `next` has given valid output |
| `PipeUpProofs!ProcessGraphWarmsUp` | `Spec => []WarmUpIsExact`, that bound included: `FramesInv` adds that the frames so far and the executions still missing (`Cold`) are together no more than all the executions the depths ask for, because each frame of a warm-up performs one that was missing |
| `PipeUpProofs!ReadersRunOnValidInputs` | if nodes that are read are nodes of user kernels, and who reads a reader of a source with a depth reads the source as well (`DirectReaders`), `Spec => RunsOnValidInputs`: `PassedInv` says that what the frame has passed was skipped, or is valid if it was warm |
| `WaveExecutionProofs!TypeCorrect` | `Spec => []TypeOK`, with `Placed`: an executor that is not idle is in a wave of its graph |
| `WaveExecutionProofs!RunsAfterDependencies` | `Spec => []DependenciesFirst`, for any graphs, pool, waves that respect the dependencies, and failures |
| `WaveExecutionProofs!SuccessIsComplete` | `Spec => []SuccessMeansComplete` |
| `WaveExecutionProofs!SharersFollow` | `Spec => []InlineSharersFollow`: `FollowInv` adds that past the wave of the resolver the substitution of the executor's thread is that of its own execution |
| `WaveExecutionProofs!WavesImplementDataflow` | `Spec => ImplementsDataflow`: each step is one of `Dataflow` or changes nothing it sees |
| `KernelRegistryProofs!FoundKernels` | without `Anything`, `Spec => []KernelsAreFound`, for any threads, contexts, identifiers and bounds |
| `KernelRegistryProofs!DeclaredParameters` | under the same condition, `[]ParametersAsDeclared` |
| `ObjectProofs!ParametersFollow` | without `Anything`, `Spec => []ParametersAsSet`, for any delays, pyramids, nodes and parameters |
| `ObjectProofs!InitialisedInTurns` | under the same condition, `[]InitialisedOnce`, for any user nodes, wherever verification fails |
| `ObjectProofs!CountsMatchHolders` | under the same condition, `[]CountsAreHolders`, for any objects, levels, slots, delays, nodes and parameters, delays being aged, graphs and pyramids released in any order |
| `ObjectProofs!MapsKeepTheirCopies` | without `Anything`, `ImageSpec => []MapsAreKept`, for any images, rectangles and number of maps of each |

The invariant of the waves, `WaveInv`, has three parts.  `OnceInv` and
`FreshInv`: a node of an execution is in the queue, on one thread, or over, and
what the execution has not come to has not begun, left-over jobs of failed
executions included.  `DepsInv` and `WavesDone`: what has begun, began after
all it depends on, because the waves before the present one are done.
`ChannelInv`: the channel of a wave holds results of its own nodes, each once,
and the nodes whose success has not been received are at most as many as
remain to be received.  The last part is why counting is enough: when one
result remains, one node at most is missing, and the result is its own.  It
depends on each wave having a channel of its own.

The invariant of verification (`VerificationInv`) is proved for graphs that are
`Plain`, so that the code's one producer for each object says who writes it, and
`Classified`, so that verification takes for outputs what the kernels write; the
disagreements above say what happens to others.  `Linked` says what each pass has
connected: who produces an object, and the entries of producers and consumers,
before and after regions and levels are added (`RegionsLink`, `LevelsLink`).
From then on the argument is about links alone (`SuccessorLink`), and the links
are the data a node must wait for (`BeforeInputs`, `InputsBefore`).  The search
for a cycle is a recursion over a node and the stack above it; `SearchUnfolds`
shows that it ends, by giving what it computes without recursion: whether a
walk comes back to where it has been (`Returns`).  Without a cycle every set of nodes has one that
nobody in it follows, so the nodes can be ranked, and with a rank a walk cannot
come back (`AcyclicRanked`, `RankedAcyclic`).  Kahn's algorithm counts in-degrees by
parameters and takes them off by entries: `FeedsCount` is the bijection between
the two, and `KahnInv` says that an in-degree is the number of inputs from nodes
not yet ordered.  So a node enters the stack once, when its last input is
ordered, and a stack that runs empty leaves no node behind (`AllOrdered`): of the
rest one would follow none of the rest.  `WaveInv` says that the nodes with a wave are a
beginning of the order, each in a later wave than those it follows.  The
bounds of `VerifyAssumption` are those of the model: a region lies in a root image,
a level has no regions.

The invariant of the kernels (`Inv` of `KernelRegistryProofs`) is about counts
and ids at once.  `CountInv`: a kernel in the registry counts at least those who
hold it, a built-in one the registry too; so a release that reads a count of one
is that of the last holder (`ReleaseInv`), what an unloading has collected nobody
holds (`UnloadInv`), and built-in kernels are never removed, nor does a new
context find them gone (`BuiltInv`).  `IdInv`: ids in use or given out
differ and lie below the next one; `ResetInv` excepts the one thread that starts
again, which it does when all are free.  `CountInv` is an inequality because a
kernel of the test module counts the module's own reference as well, until
somebody gives that back.

The invariant of parameters and delays (`TiesInv`) says that the registries and
the history agree: of each node there is, what is registered is what was asked
for last (`RegistryInv`), and what was asked for of a delay is registered, in
the one registry or the other, and the delay has not been released (`WantedInv`);
and the list of the graph has each of its nodes once (`ListInv`).  So the two
passes of `resolve_delay_params_for_graph` find for each parameter one tie or
none (`OneTie`), and the second does not undo the first (`FollowsWanted`).  That
setting an object by reference leaves no tie behind is because what a tie leads
to has no other name (`TiedAreNotNamed`).  For user nodes `Ready` says of each
initialised node what its deinit will need to find, which is why the
buffers freed by a repeated verification are those of the nodes it deinitialises
(`FreedBuffers`).

The invariant of the counts (`CountInv`, with `TiesInv`) is kept by the loops of
`vxReleasePyramid`, `vxReleaseDelay`, `vxReleaseGraph`, `vxRemoveNode` and
`resolve_delay_params_for_graph`, in which every step looks at the count the one
before left.  They are folds over a list or a set, unrolled into one function of
the number of elements done (`FoldInOrder`, `FoldExists`; then `SlotsInTurn`,
`NodesInTurn`, `ExchangesInTurn` and the like), along which the invariant is
carried.  `Sound` is what holds between two elements: every object is counted
as often as the application and the delays not released (`External`) and the
values the parameters have left (`Val`) hold it, plus one for the pyramid it is a
level of, and lives exactly if that is not nothing.  A parameter never gives up
the last reference, which is right only because what a parameter of a careful
application has, or is tied to, is held by somebody else as well (`Anchored`,
`NamedInv`); so `RecountIsSound` takes the ties in any order.  The proof rests on
`OwnersAssumption`: `vxCreatePyramid` and `vxCreateDelay` create levels and slots
for themselves alone.

The invariant of maps (`ImagesInv` and `OpenInv`) says why an id made of the
number of maps is enough while the maps of an image are unmapped newest first:
the maps an image keeps are numbered as they lie, the application holds one map
for each, in that order, and no two have the same copy.  So the newest is the
last one kept, taking it out moves no other, and the next id is free
(`UnmapKeepsMaps`, `MapKeepsMaps`).  Creating images, exchanging handles, copies,
kernels and clones leave the maps alone (`RestKeepsMaps`).

All proofs rest on the named assumptions of the modules (finiteness of the sets
of threads, disjoint names, an order that respects the predecessors), which TLC
evaluates in the runs.  Assumptions in a theorem are the boundary where the
code's guarantee ends: without `DirectThreads = {}`, `WavesComplete`,
`0 \notin MaxRefs`, `OneExecutor`, `~Anything`, `Careful`, `OneController`
or `DirectReaders` the properties fail, in the ways described under the
disagreements, and so they do without `"process" \notin Calls`, if a graph may be
processed in a queueing mode; `"addNode" \notin Calls` excludes stale orders.
`MCExecution` checks the properties of `GraphExecution` for an
application that is `Careful` and does call `vxProcessGraph`, in Normal mode;
the theorems on counting, signalling and waiting exclude that call.

Model-checked only:

* everything under fairness, which the prover cannot do: `BlockedClientServed`,
  `ReadySetsAreProcessed`, `WaitReturns`, `ExecutionsReturn`, `StopReturns`,
  `ReleaseEndsStreaming`, and the fair part of `ImplementsChannel`;
* `VirtualsFollowWriters`, `AccessesAreExact` and the properties of `DataObjects`,
  which speak of what folds over lists compute and of sums over them;
* `DispatchFindsParameters`, which compares tables of constants: `MCVerify` goes
  through all their entries;
* what the graphs outside `Classified` get: those of one node, for each of the
  kernels, are in `MCVerify`.

## Not modelled

* The arithmetic of the image kernels (`vxu_impl.rs` but for the conversions and
  the tensor kernels, `simd_kernels.rs`, `kernel_fast_paths.rs`, the crate
  `openvx-vision`): sequential loops over pixels without state; what could be
  said of them is their result, and TLC cannot enumerate images of a useful
  size.
* Graph parameters outside the queues, and node replication: binding is a table
  look-up, replication a loop that keeps no state.
* `vxSetGraphScheduleConfig` while calls are in progress: the queues are
  replaced under a dequeuer that holds the old ones, and an error in the middle
  of the parameter list leaves the mode set.  `ParameterQueues` starts
  configured.
* A panic in a kernel, which ends its worker of the pool for good.
* Node callbacks that call back into the API under the lock of `NODES`.
* `vxAddParameterToGraph`, `vxReleaseParameter`, names, hints, attributes,
  valid rectangles, the matching tensor kernels, kernel attributes, user
  structures and libraries that register a publishing function: they keep a
  value nobody else decides by.
* The locks of the registries themselves in the modules of data, where one
  thread works.  `KernelRegistry` has two threads and cuts where the locks are
  given up.
* Timestamps, the layout of C structures, logging, and the early types in
  `context.rs`, `reference.rs` and the crate roots.

## Plan

Done: the concurrent core (events, queues, executions, waves, streaming,
pipeup), its abstract specifications and proofs; verification with the tables
of kernels, so that what executions assume of the order and of the waves is
checked and proved where it is computed; and the objects executions work on.

1. `ScheduleConfig`: replacing the queues and the mode while dequeuers,
   enqueuers and executions hold the old ones.  It composes with
   `ParameterQueues`, whose actions would take the queues they work on as a
   parameter.
2. `GraphExecution` and `ParameterQueues` in one module for the turns of
   QUEUE_MANUAL: `execute_graph_nodes` repeats while references are ready, ages
   delays once at the end of all turns, and the executor ages after each
   execution, failed or not.
