------------------------------ MODULE Workload ------------------------------
(***************************************************************************)
(* The workload driver, gan-swift-sim/main.cpp: the main thread keeps a     *)
(* fixed set of thread slots, starts one worker thread per kernel in a free *)
(* slot, sweeps the slots with pthread_tryjoin_np and reuses a slot as soon *)
(* as its worker has been joined.  A worker reads its kernel id from the    *)
(* slot's context, announces itself under g_progress_mutex, opens the two   *)
(* trace files, simulates, and adds its results to the global counters      *)
(* under the mutex.                                                         *)
(*                                                                          *)
(* The read and the write of a counter are separate steps, the mutex being  *)
(* held between them, so that exclusion is shown rather than assumed.       *)
(* A slot's context holds the position of its kernel in kernel_ids.         *)
(***************************************************************************)
EXTENDS Integers, Sequences, FiniteSets

CONSTANTS
  Ids,           \* kernel ids (a set of integers)
  MAX_CONCURRENT_KERNELS,
  MaxRequests,   \* bound: longest list of kernels given on the command line
  Cycles,        \* Cycles[k]: the gpu_sim_cycles that simulating kernel k takes
  Faults         \* subset of {"create", "simulate"}: what may end the process

ASSUME WorkloadAssumption ==
  /\ Ids \subseteq Int
  /\ IsFiniteSet(Ids)
  /\ MAX_CONCURRENT_KERNELS \in Nat \ {0}
  /\ MaxRequests \in Nat
  /\ Cycles \in [Ids -> Nat]
  /\ Faults \subseteq {"create", "simulate"}

VARIABLES
  sass, mem,     \* the kernels with a .sass file and with a .mem file
  source,        \* how the kernels were chosen: "discover", "g_file" or "range"
  kernel_ids,    \* the requested kernels, in order
  main,          \* main thread: "launch", "poll", "done" or "exit"
  cursor,        \* the slot the sweep is at
  next_kernel_index,
  active_threads,
  active,        \* slot.active
  ctx,           \* slot.ctx.kernel_id, as a position in kernel_ids
  phase,         \* where the slot's worker thread is
  kid,           \* the worker's own copy of the kernel (run_single_kernel)
  mutex,         \* g_progress_mutex: the slot of its holder, 0 when free
  seen,          \* the counters as the mutex holder has read them
  g_started_kernels, g_finished_kernels, g_completed_gpu_cycles

files == <<sass, mem, source, kernel_ids>>
mainVars == <<main, cursor, next_kernel_index, active_threads, active, ctx>>
counters == <<g_started_kernels, g_finished_kernels, g_completed_gpu_cycles>>
vars == <<files, mainVars, phase, kid, mutex, seen, counters>>

Total == Len(kernel_ids)

max_workers == LET w == IF Total < MAX_CONCURRENT_KERNELS
                        THEN Total ELSE MAX_CONCURRENT_KERNELS
               IN  IF w < 1 THEN 1 ELSE w

Slots == 1 .. max_workers

Simulable(n) == kernel_ids[n] \in sass \cap mem

-----------------------------------------------------------------------------
(* The command line.  An empty discovery or .g file exits at once and is   *)
(* left out; an empty range is not refused by the code.                    *)

\* Every id with a .sass or a .mem file, in increasing order (a std::set).
Discovered(ids) ==
  /\ ids \in [1 .. Cardinality(sass \cup mem) -> sass \cup mem]
  /\ \A m, n \in DOMAIN ids : m < n => ids[m] < ids[n]

SomeRequest ==
  \/ /\ source = "discover"
     /\ sass \cup mem # {}
     /\ \E ids \in [1 .. Cardinality(sass \cup mem) -> sass \cup mem] :
           Discovered(ids) /\ kernel_ids = ids
  \/ /\ source = "g_file"
     /\ kernel_ids \in UNION {[1 .. n -> Ids] : n \in 1 .. MaxRequests}
  \/ /\ source = "range"
     /\ \E lo, hi \in Ids :
          /\ lo .. hi \subseteq Ids
          /\ kernel_ids = IF lo <= hi THEN [n \in 1 .. (hi - lo + 1) |-> lo + n - 1] ELSE <<>>

Init ==
  /\ sass \in SUBSET Ids
  /\ mem \in SUBSET Ids
  /\ source \in {"discover", "g_file", "range"}
  /\ SomeRequest
  /\ main = "launch"
  /\ cursor = 1
  /\ next_kernel_index = 0
  /\ active_threads = 0
  /\ active = [s \in Slots |-> FALSE]
  /\ ctx = [s \in Slots |-> 0]
  /\ phase = [s \in Slots |-> "none"]
  /\ kid = [s \in Slots |-> 0]
  /\ mutex = 0
  /\ seen = [s \in Slots |-> <<0, 0, 0>>]
  /\ g_started_kernels = 0
  /\ g_finished_kernels = 0
  /\ g_completed_gpu_cycles = 0
-----------------------------------------------------------------------------
(* The main thread.                                                         *)

launch_in_slot(s, threads) ==
  /\ ctx' = [ctx EXCEPT ![s] = next_kernel_index + 1]
  /\ phase' = [phase EXCEPT ![s] = "created"]
  /\ active' = [active EXCEPT ![s] = TRUE]
  /\ active_threads' = threads + 1
  /\ next_kernel_index' = next_kernel_index + 1

\* Mutant: the bound on the workers is forgotten.
LaunchFirst_Unbounded ==
  /\ main = "launch"
  /\ next_kernel_index < Total
  /\ launch_in_slot(active_threads + 1, active_threads)
  /\ UNCHANGED <<files, main, cursor, kid, mutex, seen, counters>>

\* The first loop: slots[active_threads] takes the next kernel.
LaunchFirst ==
  /\ main = "launch"
  /\ next_kernel_index < Total
  /\ active_threads < max_workers
  /\ launch_in_slot(active_threads + 1, active_threads)
  /\ UNCHANGED <<files, main, cursor, kid, mutex, seen, counters>>

\* Mutant: polling stops when the last kernel has been handed out.
SweepOrLeave_EmptyQueue == main' = IF next_kernel_index < Total THEN "poll" ELSE "done"

\* The condition of the polling loop, evaluated before every sweep.
SweepOrLeave == main' = IF active_threads > 0 THEN "poll" ELSE "done"

LaunchEnds ==
  /\ main = "launch"
  /\ ~(next_kernel_index < Total /\ active_threads < max_workers)
  /\ SweepOrLeave
  /\ UNCHANGED <<files, cursor, next_kernel_index, active_threads, active, ctx,
                 phase, kid, mutex, seen, counters>>

\* Mutant: the sweep does not move past a slot it skips.
PollSkips_StaysPut ==
  /\ main = "poll"
  /\ cursor \in Slots
  /\ ~active[cursor] \/ phase[cursor] # "ended"
  /\ UNCHANGED vars

\* A slot without a worker, or whose worker pthread_tryjoin_np finds running.
PollSkips ==
  /\ main = "poll"
  /\ cursor \in Slots
  /\ ~active[cursor] \/ phase[cursor] # "ended"
  /\ cursor' = cursor + 1
  /\ UNCHANGED <<files, main, next_kernel_index, active_threads, active, ctx,
                 phase, kid, mutex, seen, counters>>

\* Mutant: the context is rewritten before the join has succeeded.
PollJoins_ContextFirst ==
  /\ main = "poll"
  /\ cursor \in Slots
  /\ active[cursor]
  /\ \/ /\ next_kernel_index < Total
        /\ ctx' = [ctx EXCEPT ![cursor] = next_kernel_index + 1]
        /\ \/ /\ phase[cursor] = "ended"
              /\ phase' = [phase EXCEPT ![cursor] = "created"]
              /\ next_kernel_index' = next_kernel_index + 1
           \/ phase[cursor] # "ended" /\ UNCHANGED <<phase, next_kernel_index>>
        /\ UNCHANGED <<active, active_threads>>
     \/ /\ next_kernel_index >= Total
        /\ phase[cursor] = "ended"
        /\ active' = [active EXCEPT ![cursor] = FALSE]
        /\ active_threads' = active_threads - 1
        /\ phase' = [phase EXCEPT ![cursor] = "none"]
        /\ UNCHANGED <<ctx, next_kernel_index>>
  /\ cursor' = cursor + 1
  /\ UNCHANGED <<files, main, kid, mutex, seen, counters>>

\* Mutant: a joined slot is left empty although a kernel waits.
PollJoins_NoRelaunch ==
  /\ main = "poll"
  /\ cursor \in Slots
  /\ active[cursor]
  /\ phase[cursor] = "ended"
  /\ active' = [active EXCEPT ![cursor] = FALSE]
  /\ active_threads' = active_threads - 1
  /\ phase' = [phase EXCEPT ![cursor] = "none"]
  /\ cursor' = cursor + 1
  /\ UNCHANGED <<files, main, ctx, next_kernel_index, kid, mutex, seen, counters>>

\* pthread_tryjoin_np succeeds; the slot takes the next kernel, if any.
PollJoins ==
  /\ main = "poll"
  /\ cursor \in Slots
  /\ active[cursor]
  /\ phase[cursor] = "ended"
  /\ \/ /\ next_kernel_index < Total
        /\ launch_in_slot(cursor, active_threads - 1)
     \/ /\ next_kernel_index >= Total
        /\ active' = [active EXCEPT ![cursor] = FALSE]
        /\ active_threads' = active_threads - 1
        /\ phase' = [phase EXCEPT ![cursor] = "none"]
        /\ UNCHANGED <<ctx, next_kernel_index>>
  /\ cursor' = cursor + 1
  /\ UNCHANGED <<files, main, kid, mutex, seen, counters>>

SweepEnds ==
  /\ main = "poll"
  /\ cursor > max_workers
  /\ cursor' = 1
  /\ SweepOrLeave
  /\ UNCHANGED <<files, next_kernel_index, active_threads, active, ctx,
                 phase, kid, mutex, seen, counters>>

\* pthread_create fails in either loop: exit(-1) ends every thread.
CreateFails ==
  /\ "create" \in Faults
  /\ next_kernel_index < Total
  /\ \/ main = "launch" /\ active_threads < max_workers
     \/ main = "poll" /\ cursor \in Slots /\ active[cursor] /\ phase[cursor] = "ended"
  /\ main' = "exit"
  /\ UNCHANGED <<files, cursor, next_kernel_index, active_threads, active, ctx,
                 phase, kid, mutex, seen, counters>>

Main == LaunchFirst \/ LaunchEnds \/ PollSkips \/ PollJoins \/ SweepEnds
-----------------------------------------------------------------------------
(* A worker thread.                                                         *)

Alive == main \in {"launch", "poll"}

At(s, from, to) == /\ Alive
                   /\ phase[s] = from
                   /\ phase' = [phase EXCEPT ![s] = to]

\* sim_gpu: the kernel id is read from the context the slot still owns.
ReadContext(s) ==
  /\ At(s, "created", "entered")
  /\ kid' = [kid EXCEPT ![s] = ctx[s]]
  /\ UNCHANGED <<files, mainVars, mutex, seen, counters>>

\* Mutant: the progress counters are updated without the mutex.
Lock_WithoutWaiting(s) == mutex' = s
Lock(s) == mutex = 0 /\ mutex' = s
Unlock(s) == mutex' = 0
Forget(s) == seen' = [seen EXCEPT ![s] = <<0, 0, 0>>]

LockStart(s) ==
  /\ At(s, "entered", "starting")
  /\ Lock(s)
  /\ seen' = [seen EXCEPT ![s] = counters]
  /\ UNCHANGED <<files, mainVars, kid, counters>>

UnlockStart(s) ==
  /\ At(s, "starting", "opening")
  /\ Unlock(s)
  /\ g_started_kernels' = seen[s][1] + 1
  /\ Forget(s)
  /\ UNCHANGED <<files, mainVars, kid, g_finished_kernels, g_completed_gpu_cycles>>

\* Mutant: a worker without traces still counts its kernel.
OpenTraces_CountsMissing(s) ==
  /\ \/ /\ At(s, "opening", "simulating")
        /\ Simulable(kid[s])
        /\ UNCHANGED g_finished_kernels
     \/ /\ At(s, "opening", "ended")
        /\ ~Simulable(kid[s])
        /\ g_finished_kernels' = g_finished_kernels + 1
  /\ UNCHANGED <<files, mainVars, kid, mutex, seen, g_started_kernels, g_completed_gpu_cycles>>

\* A missing .mem or .sass file ends the worker with pthread_exit.
OpenTraces(s) ==
  /\ \/ At(s, "opening", "simulating") /\ Simulable(kid[s])
     \/ At(s, "opening", "ended") /\ ~Simulable(kid[s])
  /\ UNCHANGED <<files, mainVars, kid, mutex, seen, counters>>

\* The simulation is over; its results are added under the mutex.
LockFinish(s) ==
  /\ At(s, "simulating", "finishing")
  /\ Lock(s)
  /\ seen' = [seen EXCEPT ![s] = counters]
  /\ UNCHANGED <<files, mainVars, kid, counters>>

UnlockFinish(s) ==
  /\ At(s, "finishing", "ended")
  /\ Unlock(s)
  /\ g_finished_kernels' = seen[s][2] + 1
  /\ g_completed_gpu_cycles' = seen[s][3] + Cycles[kernel_ids[kid[s]]]
  /\ Forget(s)
  /\ UNCHANGED <<files, mainVars, kid, g_started_kernels>>

\* The simulator calls exit(1) (an unschedulable block, a reply nobody waits
\* for): the whole process ends.
SimulatorExits(s) ==
  /\ "simulate" \in Faults
  /\ Alive
  /\ phase[s] = "simulating"
  /\ main' = "exit"
  /\ UNCHANGED <<files, cursor, next_kernel_index, active_threads, active, ctx,
                 phase, kid, mutex, seen, counters>>

Worker(s) == \/ ReadContext(s) \/ LockStart(s) \/ UnlockStart(s)
             \/ OpenTraces(s) \/ LockFinish(s) \/ UnlockFinish(s)

\* The process has ended, with or without a report.
Terminated == ~Alive /\ UNCHANGED vars

Next == \/ Main
        \/ CreateFails
        \/ \E s \in Slots : Worker(s) \/ SimulatorExits(s)
        \/ Terminated

\* Every thread of the process keeps being scheduled, and a simulation ends.
\* A worker takes the mutex twice, so waiting for it ends under weak fairness.
Fairness == /\ WF_vars(Main)
            /\ \A s \in 1 .. MAX_CONCURRENT_KERNELS : WF_vars(s \in Slots /\ Worker(s))

Spec == Init /\ [][Next]_vars
FairSpec == Spec /\ Fairness
-----------------------------------------------------------------------------
(* Properties.                                                              *)

Phases == {"none", "created", "entered", "starting", "opening", "simulating",
           "finishing", "ended"}

TypeOK ==
  /\ sass \subseteq Ids
  /\ mem \subseteq Ids
  /\ source \in {"discover", "g_file", "range"}
  /\ kernel_ids \in Seq(Ids)
  /\ main \in {"launch", "poll", "done", "exit"}
  /\ cursor \in 1 .. (max_workers + 1)
  /\ next_kernel_index \in 0 .. Total
  /\ active_threads \in 0 .. max_workers
  /\ active \in [Slots -> BOOLEAN]
  /\ ctx \in [Slots -> 0 .. Total]
  /\ phase \in [Slots -> Phases]
  /\ kid \in [Slots -> 0 .. Total]
  /\ mutex \in 0 .. max_workers
  /\ seen \in [Slots -> Nat \X Nat \X Nat]
  /\ g_started_kernels \in Nat
  /\ g_finished_kernels \in Nat
  /\ g_completed_gpu_cycles \in Nat

\* The requested kernels whose results must already be in the counters: they
\* were handed to a worker, have both files, and their worker has ended.
Counted == {n \in 1 .. next_kernel_index :
              /\ Simulable(n)
              /\ \A s \in Slots : ctx[s] = n => phase[s] \in {"none", "ended"}}

\* The kernels whose [START] line has been printed.
Begun == {n \in 1 .. next_kernel_index :
            \A s \in Slots : ctx[s] = n => phase[s] \notin {"created", "entered", "starting"}}

\* No increment of the progress counters is lost or made twice, however the
\* workers interleave between reading and writing them (main.cpp:266-334).
ProgressExact == /\ g_started_kernels = Cardinality(Begun)
                 /\ g_finished_kernels = Cardinality(Counted)

\* A slot's context is not rewritten while its worker may still read it, and
\* no kernel is given to two workers (main.cpp:192-225, 255-258).
ContextOwned ==
  \A s \in Slots :
    /\ phase[s] \notin {"none", "created"} => kid[s] = ctx[s]
    /\ \A t \in Slots \ {s} : active[s] /\ active[t] => ctx[s] # ctx[t]

\* The final report is printed only when every requested kernel was handed to a
\* worker, each [START] line is printed exactly once and no worker is left
\* (main.cpp:242-251); when no kernel lacks a file, it counts all of them as
\* finished.  README.md:131-132 promises to run a kernel for which only one of
\* the files is found; such a kernel is started here and not run (main.cpp:279-290).
ReportComplete ==
  main = "done" =>
    /\ next_kernel_index = Total
    /\ \A s \in Slots : phase[s] = "none"
    /\ g_started_kernels = Total
    /\ (\A n \in 1 .. Total : Simulable(n)) => g_finished_kernels = Total

\* While requests are waiting after the first round of launches, a slot is
\* without a worker for no longer than its join: all slots stay active, so
\* the concurrency limit is used in full (main.cpp:205-226).
PoolKeptFull ==
  main = "poll" /\ next_kernel_index < Total => \A s \in Slots : active[s]

\* Every workload is reported, empty ones and ones with missing files included,
\* unless a fault ends the process (main.cpp:210-251).
EventuallyReported == <>(main \in {"done", "exit"})

\* What of the driver's state its user sees.
Requests == [n \in 1 .. Total |-> Simulable(n)]
Busy == {s \in Slots : phase[s] \notin {"none", "ended"}}
Running == {ctx[s] : s \in Busy}
Outcome == CASE main = "done" -> "reported"
             [] main = "exit" -> "aborted"
             [] OTHER -> "working"

Abs == INSTANCE WorkloadAbs WITH
         Width <- MAX_CONCURRENT_KERNELS,
         simulable <- Requests,
         begun <- next_kernel_index,
         running <- Running,
         finished <- g_finished_kernels,
         outcome <- Outcome

\* The detailed driver does what the abstract one promises.
Refinement == Abs!Spec
=============================================================================
