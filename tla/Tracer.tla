------------------------------- MODULE Tracer -------------------------------
(***************************************************************************)
(* The NVBit tracer (tracer_tool.cu, inject_funcs.cu) for one context: the  *)
(* callbacks that the application's thread enters around every kernel       *)
(* launch, the GPU that runs the instrumented kernel and pushes a record    *)
(* per instruction into the channel, and the receiving thread that sorts    *)
(* the records by warp and writes them to the trace file.                   *)
(*                                                                          *)
(* A kernel launched directly is entered and left.  One that a stream       *)
(* capture or cuGraphAddKernelNode puts into a graph is only entered; it    *)
(* runs when the graph is launched, as often as that happens.               *)
(*                                                                          *)
(* A record is a tuple: the kernel's id, the warp, and the number of the    *)
(* instruction in the warp.  A trace file gives every warp its records.     *)
(***************************************************************************)
EXTENDS Integers, Sequences, FiniteSets

CONSTANTS
  Names,        \* kernel names
  Filters,      \* what DYNAMIC_KERNEL_RANGE may be: sets of ranges
  Warps,
  Insts,        \* instructions a warp executes
  BuffLen,      \* records that fit into the channel's buffer
  MaxKernels,   \* bound: kernels the application launches or captures
  MaxGraphs     \* bound: graph launches

\* end = 0 is an open range; the regular expressions are the names they match.
KernelRange == [start : Nat, end : Nat, names : SUBSET Names]

ASSUME TracerAssumption ==
  /\ Filters \subseteq SUBSET KernelRange
  /\ \A f \in Filters : IsFiniteSet(f)
  /\ {Insts, BuffLen} \subseteq Nat \ {0}
  /\ {MaxKernels, MaxGraphs} \subseteq Nat

VARIABLES
  g_kernel_ranges, active_from_start, terminate_upon_limit,
  host,           \* where the application's thread is in the callbacks
  launch,         \* the launch it is in: [name, captured]
  ctx_kernelid, active_region, stop_report,
  enabled,        \* functions whose instrumentation is switched on
  called,         \* the name of every kernel that was entered
  graph,          \* the captured kernels
  graphs,         \* graph launches so far
  jobs,           \* what the GPU has to do: kernel ids, and the flush kernel
  todo,           \* instructions left to each warp of the kernel at their head
  buff, doorbell, \* the channel
  recv_thread_started, recv_thread_receiving,
  recv,           \* where the receiving thread is
  recv_buffer, tb_bufs,
  ctx_resultsFile,    \* the kernel whose file it is; 0 before the first
  opened, closed,     \* the kernels whose file was opened and closed
  written             \* what is in the files

filters == <<g_kernel_ranges, active_from_start, terminate_upon_limit>>
selection == <<ctx_kernelid, active_region, stop_report, enabled, called>>
gpu == <<jobs, todo>>
channel == <<buff, doorbell>>
receiver == <<recv, recv_buffer, tb_bufs>>
flags == <<recv_thread_started, recv_thread_receiving>>
files == <<ctx_resultsFile, opened, closed, written>>
vars == <<filters, host, launch, selection, graph, graphs, gpu, channel, flags, receiver, files>>

Kernels == 1 .. MaxKernels
NoRecords == [w \in Warps |-> <<>>]

\* The record that flush_channel pushes (cta_id_x = -1), and its second half.
Marker == <<>>
FlushKernel == 0
FlushRings == -1
FlushWaits == -2

Init ==
  /\ g_kernel_ranges \in Filters
  /\ active_from_start \in BOOLEAN
  /\ terminate_upon_limit \in BOOLEAN
  /\ host = "app"
  /\ launch \in [name : Names, captured : {FALSE}]
  /\ ctx_kernelid = 1
  /\ active_region = FALSE
  /\ stop_report = FALSE
  /\ enabled = {}
  /\ called = <<>>
  /\ graph = <<>>
  /\ graphs = 0
  /\ jobs = <<>>
  /\ todo = [w \in Warps |-> Insts]
  /\ buff = <<>> /\ doorbell = FALSE
  /\ recv_thread_started = TRUE /\ recv_thread_receiving = FALSE
  /\ recv = "loop" /\ recv_buffer = <<>> /\ tb_bufs = NoRecords
  /\ ctx_resultsFile = 0
  /\ opened = {} /\ closed = {}
  /\ written = [k \in Kernels |-> NoRecords]
-----------------------------------------------------------------------------
(* Which kernels are traced.                                                *)

InRange(k, r) == k >= r.start /\ (r.end = 0 \/ k <= r.end)

should_trace_kernel(k, name) == \E r \in g_kernel_ranges : InRange(k, r) /\ name \in r.names

\* g_max_kernel_id is 0 when no range has an end.
PastLimit(k) == /\ \E r \in g_kernel_ranges : r.end # 0
                /\ \A r \in g_kernel_ranges : k > r.end
-----------------------------------------------------------------------------
(* The application's thread.                                                *)

\* The application launches a kernel, or puts one into a graph.
Launch(name, captured) ==
  /\ host = "app"
  /\ ctx_kernelid <= MaxKernels
  /\ host' = "enter"
  /\ launch' = [name |-> name, captured |-> captured]
  /\ UNCHANGED <<filters, selection, graph, graphs, gpu, channel, flags, receiver, files>>

\* enter_kernel_launch up to the decision; a launch that is not captured waits
\* for the GPU first.
EnterDecides ==
  /\ host = "enter"
  /\ launch.captured \/ jobs = <<>>
  /\ active_region' = (active_region \/ (active_from_start /\ should_trace_kernel(ctx_kernelid, launch.name)))
  /\ \/ /\ terminate_upon_limit /\ PastLimit(ctx_kernelid)
        /\ host' = "exit"
        /\ UNCHANGED <<stop_report, enabled, called>>
     \/ /\ ~(terminate_upon_limit /\ PastLimit(ctx_kernelid))
        /\ host' = "open"
        /\ stop_report' = ~active_region'
        /\ enabled' = IF active_region' THEN enabled \cup {launch.name} ELSE enabled \ {launch.name}
        /\ called' = Append(called, launch.name)
  /\ UNCHANGED <<filters, launch, ctx_kernelid, graph, graphs, gpu, channel, flags, receiver, files>>

\* The trace file is created and its header written.
EnterOpens ==
  /\ host = "open"
  /\ host' = "receive"
  /\ \/ /\ ~stop_report
        /\ ctx_resultsFile' = ctx_kernelid
        /\ opened' = opened \cup {ctx_kernelid}
     \/ stop_report /\ UNCHANGED <<ctx_resultsFile, opened>>
  /\ UNCHANGED <<filters, launch, selection, graph, graphs, gpu, channel, flags, receiver, closed, written>>

\* A kernel that runs without its instrumentation does nothing to the tracer.
Instrumented(k) == called[k] \in enabled

\* Mutant: the receiver is not told to receive.
EnterReturns_NoReceive ==
  /\ host = "receive"
  /\ ctx_kernelid' = ctx_kernelid + 1
  /\ \/ /\ launch.captured
        /\ graph' = Append(graph, ctx_kernelid)
        /\ host' = "app"
        /\ UNCHANGED jobs
     \/ /\ ~launch.captured
        /\ jobs' = IF Instrumented(ctx_kernelid) THEN <<ctx_kernelid>> ELSE <<>>
        /\ host' = "leave"
        /\ UNCHANGED graph
  /\ UNCHANGED <<filters, launch, active_region, stop_report, enabled, called, graphs, todo, channel,
                 flags, receiver, files>>

\* The last lines of enter_kernel_launch; then the launch itself takes place.
EnterReturns ==
  /\ host = "receive"
  /\ ctx_kernelid' = ctx_kernelid + 1
  /\ recv_thread_receiving' = TRUE
  /\ \/ /\ launch.captured
        /\ graph' = Append(graph, ctx_kernelid)
        /\ host' = "app"
        /\ UNCHANGED jobs
     \/ /\ ~launch.captured
        /\ jobs' = IF Instrumented(ctx_kernelid) THEN <<ctx_kernelid>> ELSE <<>>
        /\ host' = "leave"
        /\ UNCHANGED graph
  /\ UNCHANGED <<filters, launch, active_region, stop_report, enabled, called, graphs, todo, channel,
                 recv_thread_started, receiver, files>>

\* leave_kernel_launch: the GPU is idle; flush_channel is launched.
LeaveFlushes ==
  /\ host = "leave" /\ ~stop_report
  /\ jobs = <<>>
  /\ jobs' = <<FlushKernel>>
  /\ host' = "flush"
  /\ UNCHANGED <<filters, launch, selection, graph, graphs, todo, channel, flags, receiver, files>>

\* Mutant: the thread does not wait for the receiver to finish.
LeaveCloses_NoWait ==
  /\ host = "flush"
  /\ jobs = <<>>
  /\ host' = "left"
  /\ closed' = closed \cup {ctx_resultsFile}
  /\ UNCHANGED <<filters, launch, selection, graph, graphs, gpu, channel, flags, receiver,
                 ctx_resultsFile, opened, written>>

\* The flush kernel has ended and the receiver has seen the marker.
LeaveCloses ==
  /\ host = "flush"
  /\ jobs = <<>>
  /\ ~recv_thread_receiving
  /\ host' = "left"
  /\ closed' = closed \cup {ctx_resultsFile}
  /\ UNCHANGED <<filters, launch, selection, graph, graphs, gpu, channel, flags, receiver,
                 ctx_resultsFile, opened, written>>

\* Mutant: the region is left as it is.
LeaveReturns_KeepsRegion ==
  /\ host = "left" \/ (host = "leave" /\ stop_report)
  /\ host' = "app"
  /\ UNCHANGED <<filters, launch, selection, graph, graphs, gpu, channel, flags, receiver, files>>

\* The end of leave_kernel_launch, all of it for a kernel that is not traced:
\* the id is already that of the next kernel, the name that of this one.
LeaveReturns ==
  /\ host = "left" \/ (host = "leave" /\ stop_report)
  /\ host' = "app"
  /\ active_region' = (active_region /\ (~active_from_start \/ should_trace_kernel(ctx_kernelid, launch.name)))
  /\ UNCHANGED <<filters, launch, ctx_kernelid, stop_report, enabled, called, graph, graphs, gpu,
                 channel, flags, receiver, files>>

\* The exit of cuGraphLaunch: the graph has run, and flush_channel is launched.
GraphLaunch ==
  /\ host = "app"
  /\ graph # <<>> /\ graphs < MaxGraphs
  /\ graphs' = graphs + 1
  /\ jobs' = Append(graph, FlushKernel)
  /\ host' = "graph"
  /\ UNCHANGED <<filters, launch, selection, graph, todo, channel, flags, receiver, files>>

GraphReturns ==
  /\ host = "graph"
  /\ jobs = <<>>
  /\ host' = "app"
  /\ UNCHANGED <<filters, launch, selection, graph, graphs, gpu, channel, flags, receiver, files>>

\* cuProfilerStart and cuProfilerStop.
Profiler ==
  /\ host = "app"
  /\ ~active_from_start
  /\ active_region' = ~active_region
  /\ UNCHANGED <<filters, host, launch, ctx_kernelid, stop_report, enabled, called, graph, graphs,
                 gpu, channel, flags, receiver, files>>

\* nvbit_at_ctx_term: the receiver is told to stop, and joined.
CtxTerm ==
  /\ host = "app"
  /\ recv_thread_started' = FALSE
  /\ host' = "join"
  /\ UNCHANGED <<filters, launch, selection, graph, graphs, gpu, channel, recv_thread_receiving,
                 receiver, files>>

Joined ==
  /\ host = "join" /\ recv = "done"
  /\ host' = "end"
  /\ UNCHANGED <<filters, launch, selection, graph, graphs, gpu, channel, flags, receiver, files>>

Host == \/ EnterDecides \/ EnterOpens \/ EnterReturns
        \/ LeaveFlushes \/ LeaveCloses \/ LeaveReturns
        \/ GraphReturns \/ Joined
-----------------------------------------------------------------------------
(* The GPU.  A push into a full buffer rings the doorbell and waits for the  *)
(* host; a warp cannot push while the doorbell is on.                        *)

Running == jobs # <<>> /\ Head(jobs) > 0
Pushes(w) == Running /\ Instrumented(Head(jobs)) /\ todo[w] > 0

Room == ~doorbell /\ Len(buff) < BuffLen

\* instrument_inst: a record is pushed, unless reporting was switched off.
GpuInstr(w) ==
  /\ Pushes(w)
  /\ \/ ~stop_report /\ Room /\ buff' = Append(buff, <<Head(jobs), w, Insts - todo[w] + 1>>)
     \/ stop_report /\ UNCHANGED buff
  /\ todo' = [todo EXCEPT ![w] = @ - 1]
  /\ UNCHANGED <<filters, host, launch, selection, graph, graphs, jobs, doorbell, flags, receiver, files>>

GpuFull ==
  /\ \/ ~stop_report /\ \E w \in Warps : Pushes(w)
     \/ jobs # <<>> /\ Head(jobs) = FlushKernel
  /\ ~doorbell /\ Len(buff) = BuffLen
  /\ doorbell' = TRUE
  /\ UNCHANGED <<filters, host, launch, selection, graph, graphs, gpu, buff, flags, receiver, files>>

\* The kernel ends.
GpuEnds ==
  /\ Running /\ \A w \in Warps : ~Pushes(w)
  /\ jobs' = Tail(jobs)
  /\ todo' = [w \in Warps |-> Insts]
  /\ UNCHANGED <<filters, host, launch, selection, graph, graphs, channel, flags, receiver, files>>

\* flush_channel: the marker is pushed, the doorbell rung, and the kernel ends
\* when the host has released it.
GpuFlushes ==
  /\ jobs # <<>>
  /\ \/ /\ Head(jobs) = FlushKernel /\ Room
        /\ buff' = Append(buff, Marker)
        /\ jobs' = <<FlushRings>> \o Tail(jobs)
        /\ UNCHANGED doorbell
     \/ /\ Head(jobs) = FlushRings
        /\ doorbell' = TRUE
        /\ jobs' = <<FlushWaits>> \o Tail(jobs)
        /\ UNCHANGED buff
     \/ /\ Head(jobs) = FlushWaits /\ ~doorbell
        /\ jobs' = Tail(jobs)
        /\ UNCHANGED channel
  /\ UNCHANGED <<filters, host, launch, selection, graph, graphs, todo, flags, receiver, files>>

Gpu == (\E w \in Warps : GpuInstr(w)) \/ GpuFull \/ GpuEnds \/ GpuFlushes
-----------------------------------------------------------------------------
(* The receiving thread, recv_thread_fun.                                   *)

\* ChannelHost::recv empties the buffer and releases the doorbell.
Recv ==
  /\ recv = "loop" /\ recv_thread_started
  /\ recv_thread_receiving /\ doorbell
  /\ recv_buffer' = buff
  /\ buff' = <<>> /\ doorbell' = FALSE
  /\ recv' = "records"
  /\ UNCHANGED <<filters, host, launch, selection, graph, graphs, gpu, flags, tb_bufs, files>>

RecvStops ==
  /\ recv = "loop" /\ ~recv_thread_started
  /\ recv' = "done"
  /\ UNCHANGED <<filters, host, launch, selection, graph, graphs, gpu, channel, flags, recv_buffer,
                 tb_bufs, files>>

\* Mutant: a record is added in front of the earlier ones.
Buffered_Front(r) == [tb_bufs EXCEPT ![r[2]] = <<r>> \o @]

Buffered(r) == [tb_bufs EXCEPT ![r[2]] = Append(@, r)]

RecvRecord ==
  /\ recv = "records"
  /\ recv_buffer # <<>> /\ Head(recv_buffer) # Marker
  /\ tb_bufs' = IF stop_report THEN tb_bufs ELSE Buffered(Head(recv_buffer))
  /\ recv_buffer' = Tail(recv_buffer)
  /\ UNCHANGED <<filters, host, launch, selection, graph, graphs, gpu, channel, flags, recv, files>>

\* The buffer is used up without a marker.
RecvNext ==
  /\ recv = "records" /\ recv_buffer = <<>>
  /\ recv' = "loop"
  /\ UNCHANGED <<filters, host, launch, selection, graph, graphs, gpu, channel, flags, recv_buffer,
                 tb_bufs, files>>

\* tb_bufs.clear()
Cleared == NoRecords

\* The marker: what was collected is written to the current file.
RecvWrites ==
  /\ recv = "records"
  /\ recv_buffer # <<>> /\ Head(recv_buffer) = Marker
  /\ \/ /\ ~stop_report
        /\ written' = [k \in Kernels |-> IF k = ctx_resultsFile
                                        THEN [w \in Warps |-> written[k][w] \o tb_bufs[w]]
                                        ELSE written[k]]
     \/ stop_report /\ UNCHANGED written
  /\ tb_bufs' = Cleared
  /\ recv' = "marker"
  /\ UNCHANGED <<filters, host, launch, selection, graph, graphs, gpu, channel, flags, recv_buffer,
                 ctx_resultsFile, opened, closed>>

\* Then the flag is cleared and the rest of the buffer dropped.
RecvQuits ==
  /\ recv = "marker"
  /\ recv_thread_receiving' = FALSE
  /\ recv_buffer' = <<>>
  /\ recv' = "loop"
  /\ UNCHANGED <<filters, host, launch, selection, graph, graphs, gpu, channel, recv_thread_started,
                 tb_bufs, files>>

Receiver == Recv \/ RecvStops \/ RecvRecord \/ RecvNext \/ RecvWrites \/ RecvQuits
-----------------------------------------------------------------------------
\* The process has ended, with or without its last callback.
Ended == host \in {"exit", "end"} /\ UNCHANGED vars

Next ==
  \/ /\ host \notin {"exit", "end"}
     /\ \/ \E name \in Names, captured \in BOOLEAN : Launch(name, captured)
        \/ GraphLaunch \/ Profiler \/ CtxTerm
        \/ Host \/ Gpu \/ Receiver
  \/ Ended

Spec == Init /\ [][Next]_vars
\* Both threads are scheduled and the GPU makes progress; the application need
\* not launch anything.
FairSpec == Spec /\ WF_vars(Host) /\ WF_vars(Gpu) /\ WF_vars(Receiver)
-----------------------------------------------------------------------------
(* Properties.                                                              *)

FullTrace(k) == [w \in Warps |-> [i \in 1 .. Insts |-> <<k, w, i>>]]

\* Until a graph is launched, a trace file that leave_kernel_launch has closed
\* (lines 706-712) holds every record of its own kernel, each warp's in the
\* order of its instructions, and none of another kernel's: what the receiver
\* has to have done when line 675 lets the launch go on.
FilesExact ==
  graphs = 0 => \A k \in Kernels :
    /\ k \in closed => written[k] = FullTrace(k)
    /\ k \notin closed /\ host = "app" => written[k] = NoRecords

\* Graph launches included, the receiver never writes to a file that
\* leave_kernel_launch has closed (ctx_resultsFile keeps the closed FILE *
\* until the next traced kernel, lines 706-712).
NoClosedWrite == [][\A k \in closed : written'[k] = written[k]]_vars

\* As long as no kernel is captured, and tracing is controlled by
\* DYNAMIC_KERNEL_RANGE, every kernel that one of the ranges asks for by id and
\* name is traced, whatever the kernels before it have left of the region
\* (lines 494 and 715), and a kernel whose id no range contains is not.  That
\* it is traced *only* if its name matches (README.md:110 of the tracer) is not
\* what the code does: line 715 leaves the region open for a kernel whose id a
\* range would accept together with the name of the traced kernel before it.
AskedIsTraced ==
  active_from_start /\ graph = <<>> /\ host = "app" =>
    \A k \in 1 .. Len(called) :
      /\ should_trace_kernel(k, called[k]) => k \in opened
      /\ k \in opened => \E r \in g_kernel_ranges : InRange(k, r)

\* Until a graph is launched, a launch and the end of the context always come
\* back to the application: neither the GPU, spinning on the doorbell, nor
\* line 675 waits forever.
LaunchReturns ==
  host \notin {"app", "end", "exit"} /\ graphs = 0 ~> host \in {"app", "end", "exit"}

\* The comment on cuGraphLaunch, lines 825-826: its exit waits until the graph
\* is completed; so it returns.
GraphLaunchReturns == host = "graph" ~> host = "app"
====
