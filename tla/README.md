# A TLA+ development of GAN-Swift-GPUSim

GAN-Swift-GPUSim is a trace-driven GPU simulator. `gan-swift-sim/` replays the
instruction and memory traces of a kernel on a model of a GPU and reports cycle
counts; `tracer_nvbit/` records the traces on a real GPU. This directory keeps
TLA+ modules of the simulator's control logic, the TLC configurations that check
them, and TLAPS proofs. `PROJECT.json` lists components, runs, mutants, the source
lines behind every definition, findings, hazards and theorems.

## 1. Inventory

| Component | State | Operations | Module |
|---|---|---|---|
| Workload driver, `main.cpp` | thread slots and their contexts, `next_kernel_index`, progress counters under `g_progress_mutex`, the polling cursor | choose kernels, launch, poll with `pthread_tryjoin_np`, relaunch; worker: announce, open traces, simulate, add results | `Workload`, `WorkloadAbs` |
| Streaming multiprocessor, `gpu.cpp`, `kernel.cpp` | resident blocks, live warps, per-warp scoreboard (`completions`, `pending_request`, `m_pending_mem_request_num`, `pending_inst`), execution units | `sm_cycle`: replies, deletion, units, refill, schedule, issue, retire | `SmCore` |
| Block dispatch, `gpu.cpp` | `block_pointer` shared by all SMs, `block_vec` of each, the loop flag of `gpu_cycle` | `first_spawn_block`, refill, end of the loop | `BlockDispatch` |
| L1, L2, MSHRs, `cache.cpp`, `mem_fetch.*` | bank queues, tag arrays, MSHR tables, miss queues, hit queues; who owns each `mem_fetch` | access, miss, merge, fill, replacement, reply, write-through, deletion | `MemPath`; the tag array: `SectorCache`, `CacheAbs` |
| Interconnect, `crossbar.*` | two routers: input and output buffers, `next_node_id` | `Push`, `Pop`, `RR_Advance` | `Crossbar`, `CrossbarAbs` |
| DRAM channel, `cache.cpp`, `dram.cpp`, `delayqueue.h` | five queues: `m_L2_dram_queue`, latency queue, `mrqq`, `rwq`, return queue, and `m_dram_L2_queue` | `dram_cycle`, `dram_t::cycle`, `scheduler_fifo`; `dram_model_cycle` | `DramChannel`, `FifoPipeline` |
| Occupancy, `gpu.cpp` | none | `max_block_per_sm` and its four limits | `Occupancy`, `BlockDispatch` |
| Dependencies, coalescing, joining of `.sass` and `.mem`, `kernel.cpp`, `trace_reader.cpp` | none beyond their result | `get_inst_dependency`, `read_mem`, `get_mem_inst` | `TraceDecode`, used by `SmCore` |
| Address mapping, `mem_fetch.cpp`, `cache.h` | none | slice and set of an address | not modelled |
| Parsing of traces and configuration | none beyond its result | | not modelled |
| Statistics, heartbeat | counters | stall attribution of `sm_cycle`, `request_nums`; printing | the former in `SmCore` |
| NVBit tracer, `tracer_tool.cu`, `inject_funcs.cu` | region and filter flags, `recv_thread_receiving`, the GPU-to-host channel, per-block buffers, the current trace file | enter and leave a launch, capture, graph launch, push, flush, receive | `Tracer` |
| Trace post-processing | none | | not modelled |
| Vendored NVBit, its examples | | | not modelled |

How they interact. Each worker thread of the driver owns one `gpu` object; kernels
share nothing but the progress counters. Inside a `gpu` everything runs in one
thread: a cycle of `gpu::gpu_cycle` calls, in this order, the memory partitions
(DRAM channels, then L2 slices), `Advance` of the interconnect, and `sm_cycle` of
every SM. The parts talk through queues filled in one cycle and drained in a
later one; concurrency inside a GPU is therefore that of many requests under way,
merged in MSHRs and answered in an order no test fixes. The tracer is a program of
its own, which the simulator meets only through files; there the application's
thread, the GPU and the receiving thread really run side by side.

What is hard, and what makes each component correct:

* driver: lost counter updates, a context reused under its worker, a worker that
  leaves without simulating, termination of the polling loop. Correct when
  counters equal what the workers did, contexts stay owned, the pool is kept full
  and the report comes last and is complete.
* SM: three counters per warp moved at different places decide retirement; a reply
  names a warp that may be gone. Correct when counters equal what is outstanding,
  no reply finds its warp retired, every waiting instruction has a reply under way,
  no instruction issues before those it depends on, exactly the sectors of the trace
  are sent, no cycle is wasted, and the kernel ends.
* trace decoding: two files are joined by counting executions of a pc, and a
  dependency names only the last writer of a register. Correct when the SM
  requests what the traced threads touched and issues in an order that respects
  every register.
* tag array: a fill probes again long after the access that missed, writes of the L2
  take lines on their own, time stamps are set at different places. Correct when a
  block has one line, hits are what is held and the policy's choice is evicted.
* dispatch: two pieces of code take blocks from one pointer; the loop flag is
  collected from SMs at different moments. Correct when every block runs exactly
  once, the loop ends exactly when all have, and no SM is oversubscribed.
* memory path: a write returns from the DRAM while a load of its sector waits; full
  MSHRs; ownership of `mem_fetch` objects. Correct when every request that wants
  a reply gets one, no reply is fatal, and every object is deleted once, by its last
  holder.
* interconnect: arbitration that changes buffers while it reads them, starvation,
  second replies to an SM that has stopped and reads no more. Correct when it is a
  FIFO channel between any two nodes and every packet to a node that still reads waits
  a bounded number of cycles.
* DRAM channel: five queues in series with tests on some pushes and none on others.
  Correct when requests come back in order to their own slice and no assertion
  of `fifo_pipeline::push` fails.
* tracer: the launching thread, the GPU and the receiving thread meet in a doorbell
  and in flags without a lock, and one launch leaves its region to the next. Correct
  when each kernel's file holds its own records, the filter decides what is
  traced, and every callback returns.

## 2. Modules

All modules write one action per stage of the code, in the code's order; a `stage`
variable (and `turn`, the node, slice, SM or slot a loop is at) is the program
counter of `gpu_cycle` and of the functions it calls.

**`Workload`** (`main.cpp`). `Init` covers the three ways to choose kernels: discovery
of the trace directory, a `.g` list, a range. `main` is the main thread
(`LaunchFirst`, `LaunchEnds`, `PollSkips`, `PollJoins`, `SweepEnds`,
`SweepOrLeave`, `CreateFails`), `phase[s]` the worker of slot `s` (`ReadContext`,
`LockStart`, `UnlockStart`, `OpenTraces`, `LockFinish`, `UnlockFinish`,
`SimulatorExits`). A counter update is two steps, a read and a write with the mutex
held between them. `WorkloadAbs` is the promise: kernels are started in order,
each is counted at most once, the report comes last; `Workload` refines it.

**`TraceDecode`** (`kernel.cpp`, `kernel.h`, `trace_reader.cpp`). Operators from the lines of
the two trace files of a warp to the instructions the SM issues: dependencies, the
sectors of an access, the join of the files.

**`SmCore`** (`gpu.cpp`, `kernel.h`). One SM; extends `TraceDecode`. Every warp gets one of a
set of traces, which is decoded, and the memory system answers outstanding
requests in any order within a window of cycles. Three kinds of units are kept: ALU,
load/store, and "dp", which stands for the units that `load_all_subcore_units`
makes one object for all subcores. `verdict` is the counter that `sm_cycle` increases.

**`Occupancy`** (`gpu.cpp`). `max_block_per_sm` in integers; the code divides floats, exactly
so for operands below 2^23. `Fits` is the reference: what n blocks take of an SM
when it is handed out in whole warps and allocation units.

**`BlockDispatch`** (`gpu.cpp`, `gpu.h`). All SMs; extends `Occupancy`. A resident block finishes
in some `sm_cycle` of its SM, a block of which nothing was traced has finished from
the start. `placed` counts how often a block was made resident (a history variable).

**`SectorCache`**, **`CacheAbs`** (`cache.cpp`, `cache.h`). One set of a tag array, line by line, as
the L1 or the L2 uses it. Accesses and fills come in any order, which covers every
schedule of MSHRs and DRAM. `since` is a history variable for what a line's time
stamp should mean. `CacheAbs` knows only the sectors held and the number of ways
that are lost to writes (finding below); it justifies `MemPath`'s abstraction.

**`MemPath`** (`cache.cpp`, `gpu.cpp`). Several SMs, one L2 slice. Latencies are
arbitrary delays, a cache is the set of sectors it holds and a victim is any line,
even when a way seems free (which covers LRU, FIFO and the lost ways of `CacheAbs`),
the DRAM channel is a FIFO - what `DramChannel`'s `InOrder` shows it to be. `deleted`
are the objects that the cycles have deleted; `Destroy` is `~gpu` once `gpu_cycle` has
returned, with requests still in any queue, and puts into `twice` what the destructors
of the L1s, the SMs and the slice delete although it was deleted before. What is inside
the DRAM channel, of which the slice deletes only the two end queues, may be cut off
anywhere.

**`Crossbar`** (`crossbar.cpp`). What the nodes do is kept as free as `MemPath` and
`SmCore` make it: a slice answers a request it holds once, twice (a load answered early,
when a store of its sector returns, is answered again by its own return) or not at
all (a lost atomic), and an SM may stop at the end of any of its cycles, with
replies under way to it. From then on it pops nothing (`gpu.cpp:242-246`). `RR_Advance` is stated declaratively: an input's first
packet moves if its output has room and no node earlier in the round wants the
same output. `Loop` is the code's imperative loop, and `LoopAgrees` compares the
two on every step. `CrossbarAbs` has one FIFO per pair of nodes.

**`DramChannel`**, **`FifoPipeline`** (`cache.cpp`, `dram.cpp`, `delayqueue.h`). The queue
template as operators on sequences, NULL elements included; the channel with
`NumSlices` slices, and the slices' part of `l2_cache_cycle` that meets it. A bank
receives a request and hands it to `rwq` within one `dram_t::cycle`, so it is never
seen busy. `simple_dram_model` chooses between `dram_cycle` and `dram_model_cycle`.

**`Tracer`** (`tracer_tool.cu`, `inject_funcs.cu`, and `channel.hpp` of NVBit). `host` is
where the application's thread is in `enter_kernel_launch`, `leave_kernel_launch` and
the graph and profiler callbacks; `jobs` is what the GPU still has to run, the flush
kernel included; `recv` is where `recv_thread_fun` is. `enter_kernel_launch` is cut
where it sets what the receiver reads: `stop_report` (`EnterDecides`), the file
(`EnterOpens`), the flag (`EnterReturns`). A record is a kernel, a warp and a number,
so that a misplaced one can be told. A kernel that runs without its instrumentation
pushes nothing. Regular expressions are the sets of names they match.

Modules `MC...` only give constants their values (`MCSmCore` the programs,
`MCTracer` the filters). Definitions named `X_Reason` are mutants
of `X` and are used by no specification.

## 3. Runs

| Run | Checks | Instance |
|---|---|---|
| `workload` | `TypeOK`, `ProgressExact`, `ContextOwned`, `ReportComplete`, `PoolKeptFull`, `Refinement`, `EventuallyReported` | 3 kernels, 2 slots, every set of trace files, both fatal faults |
| `sm` | `TypeOK`, `NoOrphanReply`, `Accounting`, `RequestsExact`, `WorkConserving`, `IssueOrdered`, `KernelEnds` | 2 blocks of 2 warps, 2 subcores, room for 1 block, 3 traces; 773,000 states |
| `sm_doc` | `CompleteMeansReleased` is violated | finding 1 |
| `mem` | `TypeOK`, `LoadNeverLost`, `NoReplyFault`, `NoUseAfterDelete` | 4 requests, 2 SMs, 2 sectors, caches and MSHRs of one entry, buffers of one packet; 1.4 million states |
| `mem_atomic` | `AtomicNeverLost` is violated | finding 2 |
| `dram` | `TypeOK`, `ChannelFits`, `InOrder`, `ConstantLatency`, `AllAnswered` | both DRAM models, 2 slices, 4 requests each, a return queue of 1 |
| `dram_doc` | `L2QueueFits` is violated | finding 3 |
| `crossbar` | `RepliesFlow`, `RequestsFlow`, `AllArrive`, `LoopAgrees`, `Implements` | 2 SMs, 2 slices, output buffers of 2; one SM sends 4 packets to one slice, the other 1 to each, one of which is answered twice; 386,000 states |
| `dispatch` | `TypeOK`, `DispatchedOnce`, `EndsWhenDone`, `ResourcesFit`, `GridEnds` | 3 SMs with the limits of `gpu.config`, grids of 1 to 6 blocks, 5 kernels: 0 to 2 resident |
| `cache` | `OneLinePerBlock`, `EvictsOldest`, `Implements` | 3 blocks of 2 sectors, 2 ways, 3 cycles, L1 and L2, LRU and FIFO |
| `tracer` | `FilesExact`, `AskedIsTraced`, `NoClosedWrite`, `LaunchReturns` | 3 kernels of 2 warps and 2 instructions, a channel of 2 records, 3 filters, 2 graph launches; 2 million states |
| `tracer_graph` | `GraphLaunchReturns` is violated | finding 4 |

Why these bounds. Every limit is as small as the code allows so that it is met: one
MSHR entry with two merges (full by entries and full by merges both happen), one
line per cache (every fill evicts), one free slot fewer than kernels (every slot is
reused), a return queue of one, input buffers of one packet, a grid both below and
above the number of SMs and their residency, and a residency of zero (the exit of
`first_spawn_block`), a channel that fills in the middle of a kernel and before the
flush record. One SM sends as many packets to one slice as there are nodes, so that
another could be passed over for a whole round; one request of the other SM is answered twice
and output buffers hold two packets, so that a stopped SM fills its buffer and a
reply to the SM that runs is stuck behind the next one. The tracer needs two kernels for one
to disturb the next, a third to see what is left of a region, two names for a filter
that tells them apart, and a graph that is launched again. Two SMs and two sectors suffice for every merge of two
requests and every race of a write with a load; four requests add one that
evicts or blocks. In `SmCore` each trace has a feature the others lack (several
sectors and threads in one, an overwritten register, a barrier; an atomic and a store
as last instruction; a loop whose load is predicated off the first time, a shared
unit), and room for one block forces the other to be refilled. The cache has one
block more than ways, so that every miss may evict, two sectors for `SECTOR_MISS`, and
cycles enough to order three uses. The five kernels of `dispatch` are limited by
threads, registers, shared memory, nothing, and do not fit at all; all but one need
rounding. `MaxCycles`, `MaxSent`, `LastSend`, `MaxPackets`, `MaxAsking`, `MaxAnswers` (two in the code), `MaxRequests`, `MaxKernels` and
`MaxGraphs` are bounds
of the model, not of the code. In `dram` they end the sending early
enough for the channel to drain; what `dram_doc` shows with a queue of 3 the code
reaches with its limit of 999999.

Fairness. `FairSpec` of `SmCore`, `Crossbar` and `DramChannel` is weak fairness of the
whole step relation: one thread runs the cycle loop and does not stop. In `SmCore`
that suffices because the memory must answer within `MaxLatency`. `Workload` has
weak fairness for the main thread and for each worker (the scheduler), and needs
no strong fairness for the mutex because each holder leaves after one step and
each worker asks twice. `BlockDispatch` adds that a block resident in a running SM
finishes, strongly fair because the step that finishes it is enabled only in its
SM's turn; `SmCore`'s `KernelEnds` is what justifies it. `Tracer` has weak fairness for
the callback under way, for the GPU and for the receiving thread, none for the
application, which may stop launching.

A run that checks liveness beside invariants uses `FairSpec`, whose reachable states
are those of `Spec`. `MemPath` needs no fairness: every step uses up work, so that a
behaviour can only stop, and where it stops `LoadNeverLost`, with the deadlock check,
leaves no load pending; this keeps the symmetry that brings four requests within
reach.

Deadlock is checked in every run but `tracer` and `tracer_graph`; final states have an
explicit stuttering action. The tracer may really stop for ever after a graph launch,
which is finding 4; `LaunchReturns` says that it does not before.

## 4. Findings

1. `sm_doc`: sectors of a load are counted when they are sent (`gpu.cpp:899`), so a load
   is complete as soon as those sent so far are answered although others still wait
   for their bank. `kernel.h:196` says "true if all request release". A load of one sector is not affected.
2. `mem_atomic`: an atomic goes to the DRAM as a write, without MSHR entry; if a load of
   its sector waits when it returns, the load is answered and the atomic dropped
   (`cache.cpp:386`). Its warp waits for ever. In the same situation a store is never
   deleted (`cache.cpp:397`).
3. `dram_doc`: `send_l2_to_dram` (`cache.h:586`) pushes without a test; a channel takes
   one request per cycle for all its slices, and slice 0 only when the others have
   none, so two slices that miss in every cycle overflow its queue and the assertion
   `delayqueue.h:72` ends the process, as `nohup.out:191` recorded.
4. `tracer_graph`: the second `cuGraphLaunch` without a kernel entered in between never
   returns (`tracer_tool.cu:834`): the receiver has cleared its flag on the first one's
   flush record, only `enter_kernel_launch` sets it, and the flush kernel spins on the
   doorbell.

Not runs of their own, but worth knowing:

* A discovered kernel with only one of its two trace files is started and never
  simulated (`main.cpp:279`), while `gan-swift-sim/README.md:131` says that discovery
  runs every kernel with a `.sass` or a `.mem` file. The documented claim does not hold:
  at the end `g_finished_kernels` is smaller than the number of kernels found.
  `ReportComplete` claims of such a workload only that every kernel was handed out and
  started once and that all workers have ended; that all are finished it claims only
  where no file is missing. That no other kernel is left out is `ProgressExact`.
* `leave_kernel_launch` (`tracer_tool.cu:715`) asks with the next kernel's id and this
  kernel's name whether the region stays active, and `enter_kernel_launch` never
  closes it: after a traced kernel whose name matches, the next one in the range is
  traced whatever its name, while `tracer_nvbit/README.md:110` says "*only* if their
  names match". With the filter `1-2@a`, kernels `a` and `b` launched in this order
  are both traced. The documented rule thus does not hold, and no run claims it:
  `AskedIsTraced` states the other half, that every kernel asked for by id and name is
  traced, and that none is whose id is in no range. A captured kernel is never left, so
  its region stays open.
* The destructors may delete a load a second time. A load that the L2 has answered
  early is put into `retired_mem_fetches` while its own read is still in the DRAM
  channel or, if it was released by the second answer to an earlier load of its sector,
  anywhere on the way there. If the kernel ends then, `~streaming_multiprocessor`
  deletes it (`gpu.cpp:637`), and `~l2_data_cache` deletes it again (`cache.cpp:359-381`),
  or `~l1_data_cache` has already when it was in the miss queue. That is undefined
  behaviour at the end of a kernel's simulation, which `MemPath` reaches (`twice` is not
  always empty). No document or comment of the repository speaks of it, so there is no
  claim to refute; `NoUseAfterDelete` bounds it: nothing but such loads, never a write,
  and nothing of the kind while the cycles run.
* A second answer to a load of an SM that has stopped is never popped
  (`gpu.cpp:242-246`). When `out_buffer_limit` of them (512, `gpu.h:51`) have gathered,
  the next one stays at the head of its slice's input buffer and every later reply of
  that slice, to whichever SM, waits behind it. `AllArrive` has to except this
  (`Blocked`), and the run reaches it.
* The pc the tracer writes is an offset within its function (`tracer_tool.cu:418`), and
  functions that the kernel calls are instrumented too (`tracer_tool.cu:315`). Where a
  memory instruction of one and another instruction of the other have the same offset, `.sass`
  counts executions of both and `.mem` those of the first (`trace_reader.cpp:177`,
  `kernel.cpp:102`), and addresses go to the wrong execution or to none; an atomic that
  finds none dereferences a null pointer (`gpu.cpp:969`). `TraceAssumption` leaves such kernels out.
* An L2 write that meets `SECTOR_MISS` (`cache.cpp:496`) is counted as a hit, is found by
  no later access, and takes a way of the set that belongs to no block until it is
  replaced (`AbsWriteWasted` of `CacheAbs`).
* A cycle that issued only instructions without active threads is put down to a stall
  or to an idle scheduler (`gpu.cpp:283`); `WorkConserving` shows that this is the only
  way in which `scheduler_idle_sm_cycles` grows.

## 5. Theorems

Proved by TLAPS for every value of the constants that satisfies the named
assumption of the module. Each proof has one step per action and the same shape:
`Init => Inv`, `Inv /\ [Next]_vars => Inv'`, `Inv =>` the property, combined by PTL.

* `WorkloadProofs` (from `WorkloadAssumption`): `TypeCorrect`, `ProgressIsExact`,
  `ContextIsOwned`, `PoolIsKeptFull`, `ReportIsComplete`,
  `DriverKeepsItsPromise`. The inductive invariant is `TypeOK`, `ActiveInv` (slot flags against thread phases and the thread count),
  `CtxInv` (what a slot's context and its worker's copy hold), `MutexInv` (only the
  holder is between read and write, and what it read is still current), `TraceInv`
  (past the test, a worker's kernel has both files), `PoolInv` and `ProgressExact`.
  Exactness needs `MutexInv`: without it a write could be based on an old read. It
  counts workers by phase, hence the lemmas on cardinalities. The last theorem is the
  refinement of `WorkloadAbs`: `launch_in_slot` is `Begin`, the end of a worker is
  `Finish`, main's last sweep is `Report`, a fault is `Abort`, and every other step
  stutters. `ActiveInv` gives a free slot for a `Begin`, so fewer than the limit run;
  `CtxInv` gives each running kernel one slot, so a `Finish` removes just it.
* `DramChannelProofs` (from `DramAssumption`): `TypeCorrect`, `ChannelNeverFills`,
  `LatencyIsConstant`, `RequestsStayInOrder`. `ChannelFits`
  speaks of lengths at particular stages; `StageInv` bounds every queue at
  every stage, and `Len(rwq) = CL` between cycles follows because a cycle that
  pushes has popped, the return queue being empty at that stage. With the simple
  model the inner queues stay as they were built (`SimpleInv`). The latency needs more
  than bounds: `AgeInv` says that beyond the latency queue a request's age is its
  position, and that in it requests are issued one a cycle, in order, and none is
  overdue. The order then follows from the ages: `NumInv` looks at the requests in
  flight as a set, in which the cycle of its issue tells a request from every other and
  orders those of a slice; a step that moves a request on leaves the set alone, and
  the one a slice gets back is the oldest.
* `CrossbarProofs` (from `CrossbarAssumption`): `RequestsNeverStarve`, `RoutersAreChannels`,
  `RepliesNeverStarve`, `LoopServesFirstInTurn`. For the first, `waited` alone is
  not inductive; `FlowInv` says `waited + Distance(n, next_node_id) < total_nodes`: each
  round that passes a head over moves the start one node nearer to it, and at
  distance 0 it is not passed over. The output buffers of the request network are
  empty when the routers advance because every slice has popped since.
  The second is the refinement of `CrossbarAbs`: a `Push` is a `Send`, a `Pop` a `Deliver`,
  and the round stutters. Its invariant `OrderInv` says that every packet is in a
  buffer of its own route (`PlaceInv`), that none has overtaken another of its route, in a
  buffer or from input to output (`SortedInv`), and that each number between the last
  popped and the last sent is on its way (`CompleteInv`); together they make the head of
  an output buffer the next number. `ChannelIs` shows that the contents of a route's two
  buffers are then exactly those numbers in order.
  The third is about the SMs that run, however many second answers wait for those that
  have stopped. `ReplyInv` repeats `FlowInv` for them: the output buffer of an SM that
  runs is empty when the routers advance, because it has popped since, so that a reply
  to it at the head of an input buffer can only lose to another slice, and
  each lost round brings the start one node nearer.
  The last compares `RR_Advance` with `Loop`, the recursive function that translates
  the code's loop: `After(t, i)` gives the buffers after `i` turns in closed form,
  `TurnIs` shows that it satisfies the loop's equation, and the least turn at which
  another solution would differ (`Least`) shows that it is the only one.
* `BlockDispatchProofs` (from `DispatchAssumption` and `OccupancyAssumption`): `TypeCorrect`,
  `EveryBlockOnce`, `BlocksFit`, `KernelComplete`. `BlocksFit` needs that no SM holds more
  than `max_block_per_sm` blocks, and lemmas on rounding: each limit, multiplied back,
  stays below its resource, and a smaller number of blocks fits where a larger does. `SpawnInv` says which blocks `first_spawn_block` has placed,
  `PlacedInv` that an unfinished placed block is resident somewhere, and `RoundInv`
  that while the flag is false no SM already visited in this round is active:
  later SMs only take blocks from `block_pointer`, which was at its end already.

* `SectorCacheProofs` (from `CacheAssumption`): `BlockHasOneLine`, `OldestIsEvicted` and
  `TagArrayIsACache`, the refinement of `CacheAbs`. The invariant is `RangeInv`,
  `OneLinePerBlock` and `StampInv`: the time stamp that the policy compares is never later
  than now and, for a line in use, is `since`, the moment the policy is about. The
  refinement has one step per action; a write that loses its way (finding below) is
  what needs the abstract count of lost ways.
* `SmCoreProofs` (from `SmAssumption`, `TraceAssumption` and `DecodeAssumption`): every safety
  property of run `sm`, for any traces the tracer writes and any memory that answers
  in any order. `TypeCorrect`, `NoReplyIsOrphaned`, `CountersAgree` come from
  one inductive invariant `Inv`: beside the properties it says that a request on its way
  belongs to an issued instruction (`FlightInv`), that a unit which sends is not free, is
  the only one to send its instruction, and that what it has still to send is not on its way
  (`UnitInv`: without it a counter of a set of requests could miss one), and that only
  loads and atomics wait for an answer (`SlowInv`: what makes a completed store final).
  `IssueIsOrdered` needs `OrderInv`, that of two issued writers of a register the first is
  complete: a dependency names only the last writer, and the chain of writers is
  followed by it. `RequestsAreExact` counts the set `Sent` of sectors that were sent,
  which is in bijection with what the threads touched; it rests on two theorems about
  `TraceDecode`: `JoinIsExact` (each memory instruction takes its own line of `.mem`,
  however often its pc was executed) and `CoalescingIsExact` (every sector of the
  threads once, no other). `SmConservesWork` needs `ScheduleInv`: as long as a cycle has
  issued nothing, the free subcores are all those with a ready unit and no warp passed
  over could have issued.
* `MemPathProofs` (from `MemPathAssumption`): `TypeCorrect`, `RepliesAreExpected`,
  `DeletesAreSafe`, `LoadsAreNeverLost`. The difficulty is that a `mem_fetch` is a pointer that
  several queues may hold at a time. `PlaceInv` says what kind of request a queue holds,
  `OnceInv` that a queue holds a write once, `WriteInv` that a write is in one place of
  its way, so that whoever deletes it is the last to hold it, and `LoadInv` that a load
  is in one place of its own SM, while copies of the pointer travel only as long as the
  load waits in an L1 entry or is in `retired_mem_fetches`, whose members no cycle
  deletes: this is why a second answer of the L2 does no harm before the end.
  `DeletesAreSafe` speaks of the end too: `EndInv` says that what `~gpu` deletes twice is
  a load of `retired_mem_fetches`. When no reply is awaited, every other load was deleted
  in a cycle and is in no queue that the destructors empty (`LoadDeletes`), and a write,
  being in one place of its way, meets one delete (`WriteDeletes`). `WaitInv` and `PendInv` tie the places to the
  scoreboards; `L1EntryInv` and `L2EntryInv` follow the request that opened an entry.
  Atomics are not among the loads: that they may be lost is a finding of section 4.
* `TracerProofs` (from `TracerAssumption`): `AskedAreTraced`, `ClosedFilesStay`,
  `ClosedFilesAreComplete`. The first follows from `RegionInv`, what `active_region` says at each
  point of a launch: on the way in whether the kernel before was traced and the next id
  fits its name, after the decision whether this one is traced. For the second,
  `CleanInv` says that with the current file closed only markers are under way, except that
  the kernels of a graph may report; then the flag is down, nobody receives, and the flush
  kernel waits for ever (finding 4), so that these records never reach a file. For the
  third, `Pipe` follows the records of one warp: the first ones are in the receiver's
  `tb_bufs`, the next in its buffer, the rest in the channel's, each in the order of their
  numbers and none missing. `Gathering` adds where the marker is, always behind the last
  record, so that nothing is left when it is met; `Stored` is the time between the write
  and line 675, and in `Quiet` nothing is under way.

The proof of `JoinIsExact` showed what it needs of a trace: that the instructions of one
pc have one opcode. `TraceAssumption` states it. It holds for a kernel whose device functions are
inlined; section 4 says what happens to others.

Only model-checked: liveness (`EventuallyReported`, `KernelEnds`, `AllAnswered`,
`AllArrive`, `GridEnds`, `LaunchReturns`), out of the prover's reach. Every safety
property of the passing runs, action properties and refinements included, is the
statement of a theorem.

No leaf is near the provers' time limits: each of the eight proof modules is also proved
from nothing with all limits cut to a tenth (`tlapm --cleanfp --stretch 0.1 X.tla`), so
a slower or busier machine does not change the result. A leaf that stops being so is
split, not given more time.

## 6. Not modelled

* Splitting the lines of trace and configuration files, post-processing
  (`post-traces-processing.cpp` sorts and rewrites files) and printing hold no state
  of interest.
* Address mapping (`get_mem_sub_partition_id`, `set_index`): total functions of fixed
  bits. Which slice and set an address falls into changes times, not correctness;
  `MemPath` and `SectorCache` hold for any choice. The hashed index is right for 64
  sets only, which is what `gpu.config` has.
* The DRAM's bank timing, bank groups and FR-FCFS scheduler are in the source but not
  called in what is built.
* Local-memory accesses and TLB latencies of the L1; the `ANALYSIS` build.
* The tracer's statistics file, kernel timing, spinlock fast-forwarding, address
  compression and a second context. Two hazards there have no property: a stride kept
  in an `int` (`tracer_tool.cu:917`) and the lookup of spinlock indices under a kernel
  name that only `enter_kernel_launch` sets (`tracer_tool.cu:1218`).
* The SM and the memory path are not composed in one state space: `SmCore` assumes a
  memory that answers each load and atomic once, in any order. For loads `MemPath`
  checks the safety half of that (`LoadNeverLost`, `NoReplyFault`); for atomics it does
  not hold (finding of run `mem_atomic`), so `KernelEnds` holds only where no atomic's
  answer is lost.
* An atomic without an address dereferences a null pointer (`gpu.cpp:969`) and a barrier
  that writes a register would depend on itself (`kernel.cpp:49`); `TraceAssumption`
  excludes both.
* Vendored code. More than four fifths of the repository's C and C++ lines are NVIDIA's `cuda.h`,
  generated headers, NVBit's core and examples, and backup copies of the tracer
  (`*.bak_20260425_115119`, `others/`); of the program's own 8,400 lines the modules
  cover the control logic.

## 7. Plan

Done, in this order: the driver and its abstract specification; the SM; the memory
path; the DRAM channel; the interconnect and its abstract specification; block
dispatch; the tracer; the tag array and its abstract specification; occupancy; trace
decoding and the SM's statistics; the simple DRAM model. Theorems exist for the driver,
the DRAM channel, the interconnect, block dispatch, the tag array, the SM with the
decoding of its traces, the memory path and the tracer.

What is left: the parts of section 6, as far as they have state or an order of their own
(the hashed set index, address compression in the tracer).
