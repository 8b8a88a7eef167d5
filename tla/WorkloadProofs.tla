--------------------------- MODULE WorkloadProofs ---------------------------
(***************************************************************************)
(* Safety of the workload driver for every list of kernels and every limit  *)
(* on the workers.  None of the properties is inductive by itself: Inv adds *)
(* who holds the mutex and what its holder has read, which positions the    *)
(* contexts hold, and how active_threads relates to the slots.              *)
(***************************************************************************)
EXTENDS Workload, TLAPS, FiniteSetTheorems

Starting == {"created", "entered", "starting"}
Locked == {"starting", "finishing"}

\* A slot has a worker exactly while it is active.
ActiveInv == \A s \in Slots : active[s] <=> phase[s] # "none"

\* Contexts hold distinct positions that were handed out.
CtxInv == \A s \in Slots :
            /\ ctx[s] <= next_kernel_index
            /\ phase[s] # "none" => ctx[s] > 0
            /\ phase[s] \notin {"none", "created"} => kid[s] = ctx[s]
            /\ \A t \in Slots : s # t /\ ctx[s] > 0 => ctx[s] # ctx[t]

\* The mutex is held exactly inside the two critical sections, and what its
\* holder has read is still true.
MutexInv == \A s \in Slots :
              /\ mutex = s <=> phase[s] \in Locked
              /\ phase[s] \in Locked => seen[s] = counters

TraceInv == \A s \in Slots : phase[s] \in {"simulating", "finishing"} => Simulable(ctx[s])

\* active_threads counts the active slots; slots are filled in order, and stay
\* full until the requests are used up.
PoolInv ==
  /\ active_threads = Cardinality({s \in Slots : active[s]})
  /\ main = "launch" => /\ next_kernel_index = active_threads
                        /\ \A s \in Slots : active[s] <=> s <= active_threads
  /\ main = "poll" => next_kernel_index = Total \/ \A s \in Slots : active[s]
  /\ main = "done" => next_kernel_index = Total /\ \A s \in Slots : ~active[s]

Inv == TypeOK /\ ActiveInv /\ CtxInv /\ MutexInv /\ TraceInv /\ PoolInv /\ ProgressExact
-----------------------------------------------------------------------------
(* Sizes.                                                                   *)

\* The number of workers is positive and the slots are a finite set of numbers.
LEMMA SlotsFinite ==
  ASSUME kernel_ids \in Seq(Ids)
  PROVE  /\ Total \in Nat
         /\ max_workers \in Nat \ {0}
         /\ max_workers <= MAX_CONCURRENT_KERNELS
         /\ Slots \subseteq Nat \ {0}
         /\ IsFiniteSet(Slots)
         /\ Cardinality(Slots) = max_workers
<1>1. Total \in Nat
  BY DEF Total
<1>2. /\ max_workers \in Nat \ {0}
      /\ max_workers <= MAX_CONCURRENT_KERNELS
  BY <1>1, WorkloadAssumption DEF max_workers
<1>3. IsFiniteSet(Slots) /\ Cardinality(Slots) = max_workers
  BY <1>2, FS_Interval DEF Slots
<1>. QED
  BY <1>1, <1>2, <1>3 DEF Slots

\* A function on 1..n is a sequence.
LEMMA SequenceOfIds ==
  ASSUME NEW n \in Nat, NEW f \in [1 .. n -> Ids]
  PROVE  f \in Seq(Ids)
OBVIOUS

\* The list of requests is a sequence of kernel ids, however it was chosen.
LEMMA RequestType ==
  ASSUME sass \subseteq Ids, mem \subseteq Ids, SomeRequest
  PROVE  kernel_ids \in Seq(Ids)
<1>1. Cardinality(sass \cup mem) \in Nat
  <2>1. IsFiniteSet(sass \cup mem)
    BY WorkloadAssumption, FS_Subset, sass \cup mem \in SUBSET Ids
  <2>. QED
    BY <2>1, FS_CardinalityType
<1>2. CASE kernel_ids \in [1 .. Cardinality(sass \cup mem) -> sass \cup mem]
  <2>1. kernel_ids \in [1 .. Cardinality(sass \cup mem) -> Ids]
    BY <1>2
  <2>. QED
    BY <1>1, <2>1, SequenceOfIds
<1>3. CASE kernel_ids \in UNION {[1 .. n -> Ids] : n \in 1 .. MaxRequests}
  <2>1. PICK n \in 1 .. MaxRequests : kernel_ids \in [1 .. n -> Ids]
    BY <1>3
  <2>2. n \in Nat
    BY WorkloadAssumption
  <2>. QED
    BY <2>1, <2>2
<1>4. CASE \E lo, hi \in Ids :
             /\ lo .. hi \subseteq Ids
             /\ kernel_ids = IF lo <= hi THEN [n \in 1 .. (hi - lo + 1) |-> lo + n - 1] ELSE <<>>
  <2>1. PICK lo, hi \in Ids :
             /\ lo .. hi \subseteq Ids
             /\ kernel_ids = IF lo <= hi THEN [n \in 1 .. (hi - lo + 1) |-> lo + n - 1] ELSE <<>>
    BY <1>4
  <2>2. lo \in Int /\ hi \in Int
    BY WorkloadAssumption
  <2>3. CASE lo <= hi
    <3>1. hi - lo + 1 \in Nat
      BY <2>2, <2>3
    <3>2. \A n \in 1 .. (hi - lo + 1) : lo + n - 1 \in Ids
      BY <2>1, <2>2, <2>3
    <3>3. kernel_ids \in [1 .. (hi - lo + 1) -> Ids]
      BY <2>1, <2>3, <3>2
    <3>. QED
      BY <3>1, <3>3
  <2>4. CASE ~(lo <= hi)
    BY <2>1, <2>4
  <2>. QED
    BY <2>3, <2>4
<1>. QED
  BY <1>2, <1>3, <1>4 DEF SomeRequest
\* Two sets of positions that agree up to n, when neither goes further.
LEMMA SamePositions ==
  ASSUME NEW n \in Nat, NEW A \in SUBSET (1 .. (n + 1)), NEW B \in SUBSET (1 .. n),
         n + 1 \notin A, \A i \in 1 .. n : i \in A <=> i \in B
  PROVE  A = B
<1>1. \A i \in A : i \in B
  BY \A i \in 1 .. (n + 1) : i = n + 1 \/ i \in 1 .. n
<1>. QED
  BY <1>1
-----------------------------------------------------------------------------
\* The initial states satisfy the inductive invariant (main.cpp:162-190).
LEMMA InitInv == Init => Inv
<1>. SUFFICES ASSUME Init PROVE Inv
  OBVIOUS
<1>1. kernel_ids \in Seq(Ids)
  BY RequestType DEF Init
<1>2. /\ Total \in Nat
      /\ max_workers \in Nat \ {0}
      /\ Slots \subseteq Nat \ {0}
  BY <1>1, SlotsFinite
<1>3. TypeOK
  BY <1>1, <1>2 DEF Init, TypeOK, Phases
<1>4. ActiveInv /\ CtxInv /\ MutexInv /\ TraceInv
  BY <1>2 DEF Init, ActiveInv, CtxInv, MutexInv, TraceInv, Locked
<1>5. PoolInv
  <2>1. {s \in Slots : active[s]} = {}
    BY DEF Init
  <2>2. \A s \in Slots : active[s] <=> s <= active_threads
    BY <1>2 DEF Init
  <2>. QED
    BY <2>1, <2>2, FS_EmptySet DEF Init, PoolInv
<1>6. ProgressExact
  <2>1. Begun = {} /\ Counted = {}
    BY DEF Init, Begun, Counted
  <2>. QED
    BY <2>1, FS_EmptySet DEF Init, ProgressExact
<1>. QED
  BY <1>3, <1>4, <1>5, <1>6 DEF Inv
-----------------------------------------------------------------------------
(* Handing a kernel to slot s, from the first loop or after a join.  The     *)
(* slot's previous worker, if any, has ended.                                *)

\* launch_in_slot on a slot without a running worker keeps the parts of the
\* invariant that it touches (main.cpp:192-203).
LEMMA LaunchInv ==
  ASSUME Inv, NEW s \in Slots, NEW threads,
         next_kernel_index < Total,
         phase[s] \in {"none", "ended"},
         launch_in_slot(s, threads),
         UNCHANGED <<files, kid, mutex, seen, counters>>,
         threads + 1 \in 0 .. max_workers
  PROVE  /\ next_kernel_index' \in 0 .. Total
         /\ active' \in [Slots -> BOOLEAN]
         /\ ctx' \in [Slots -> 0 .. Total]
         /\ phase' \in [Slots -> Phases]
         /\ active_threads' \in 0 .. max_workers
         /\ ActiveInv' /\ CtxInv' /\ MutexInv' /\ TraceInv' /\ ProgressExact'
<1>. USE DEF launch_in_slot, files
<1>0. /\ Total \in Nat
      /\ Slots \subseteq Nat \ {0}
      /\ next_kernel_index \in Nat
      /\ Slots' = Slots /\ Total' = Total /\ max_workers' = max_workers
  <2>1. Total \in Nat /\ Slots \subseteq Nat \ {0}
    BY SlotsFinite DEF Inv, TypeOK, Slots, Total
  <2>2. Slots' = Slots /\ Total' = Total /\ max_workers' = max_workers
    BY DEF Slots, max_workers, Total
  <2>3. next_kernel_index \in Nat
    BY <2>1 DEF Inv, TypeOK
  <2>. QED
    BY <2>1, <2>2, <2>3
<1>s. ASSUME NEW n \in Nat PROVE Simulable(n)' <=> Simulable(n)
  BY DEF Simulable
<1>1. /\ next_kernel_index' \in 0 .. Total
      /\ active' \in [Slots -> BOOLEAN]
      /\ ctx' \in [Slots -> 0 .. Total]
      /\ phase' \in [Slots -> Phases]
      /\ active_threads' \in 0 .. max_workers
  <2>1. next_kernel_index + 1 \in 0 .. Total
    BY <1>0
  <2>2. /\ active \in [Slots -> BOOLEAN] /\ ctx \in [Slots -> 0 .. Total]
        /\ phase \in [Slots -> Phases]
    BY DEF Inv, TypeOK
  <2>. QED
    BY <1>0, <2>1, <2>2 DEF Phases
<1>2. \A t \in Slots : ctx[t] \in Nat /\ ctx'[t] = IF t = s THEN next_kernel_index + 1 ELSE ctx[t]
  BY <1>0 DEF Inv, TypeOK
<1>3. \A t \in Slots : phase'[t] = IF t = s THEN "created" ELSE phase[t]
  BY <1>0 DEF Inv, TypeOK
<1>4. next_kernel_index' = next_kernel_index + 1
  OBVIOUS
<1>5. CtxInv
  BY DEF Inv
<1>. HIDE DEF launch_in_slot
<1>a. ActiveInv'
  BY <1>0 DEF Inv, TypeOK, ActiveInv, launch_in_slot
<1>b. CtxInv'
  BY <1>0, <1>2, <1>3, <1>4, <1>5 DEF CtxInv
<1>c. MutexInv'
  BY <1>0, <1>3 DEF Inv, MutexInv, Locked, counters
<1>d. TraceInv'
  BY <1>0, <1>2, <1>3, <1>s DEF Inv, TraceInv
<1>6. Begun' = Begun
  <2>1. \A n \in 1 .. next_kernel_index : n \in Begun' <=> n \in Begun
    BY <1>0, <1>2, <1>3, <1>4, <1>5 DEF CtxInv, Begun
  <2>2. next_kernel_index + 1 \notin Begun'
    BY <1>0, <1>2, <1>3, <1>4 DEF Begun
  <2>3. Begun' \subseteq 1 .. (next_kernel_index + 1) /\ Begun \subseteq 1 .. next_kernel_index
    BY <1>4 DEF Begun
  <2>. QED
    BY <1>0, <2>1, <2>2, <2>3, SamePositions
<1>7. Counted' = Counted
  <2>1. \A n \in 1 .. next_kernel_index : n \in Counted' <=> n \in Counted
    BY <1>0, <1>2, <1>3, <1>4, <1>5, <1>s DEF CtxInv, Counted
  <2>2. next_kernel_index + 1 \notin Counted'
    BY <1>0, <1>2, <1>3, <1>4 DEF Counted
  <2>3. Counted' \subseteq 1 .. (next_kernel_index + 1) /\ Counted \subseteq 1 .. next_kernel_index
    BY <1>4 DEF Counted
  <2>. QED
    BY <1>0, <2>1, <2>2, <2>3, SamePositions
<1>8. ProgressExact'
  BY <1>6, <1>7 DEF Inv, ProgressExact, counters
<1>. QED
  BY <1>1, <1>a, <1>b, <1>c, <1>d, <1>8
-----------------------------------------------------------------------------
(* The command line and the trace files do not change, nor does anything     *)
(* that is computed from them.                                               *)

\* What a step that leaves the request list alone leaves alone too.
LEMMA FilesFixed ==
  ASSUME Inv, UNCHANGED files
  PROVE  /\ Total' = Total /\ max_workers' = max_workers /\ Slots' = Slots
         /\ Total \in Nat /\ max_workers \in Nat \ {0}
         /\ Slots = 1 .. max_workers
         /\ kernel_ids' = kernel_ids
         /\ sass' \subseteq Ids /\ mem' \subseteq Ids
         /\ source' \in {"discover", "g_file", "range"} /\ kernel_ids' \in Seq(Ids)
BY SlotsFinite DEF Inv, TypeOK, files, Total, max_workers, Slots

\* Which requests can be simulated never changes: the files are only read.
LEMMA SimulableFixed ==
  ASSUME UNCHANGED files, NEW n
  PROVE  Simulable(n)' <=> Simulable(n)
BY DEF files, Simulable

\* Begun and Counted only look at the contexts, the phases and the queue.
LEMMA ProgressFixed ==
  ASSUME Inv, UNCHANGED <<files, next_kernel_index, ctx, phase, counters>>
  PROVE  ProgressExact'
<1>1. Begun' = Begun
  BY FilesFixed DEF Begun
<1>2. Counted' = Counted
  BY FilesFixed DEF Counted, Simulable, files
<1>. QED
  BY <1>1, <1>2 DEF Inv, ProgressExact, counters

\* The steps of the main thread that only move the sweep or end the process.
LEMMA QuietInv ==
  ASSUME Inv, UNCHANGED <<files, next_kernel_index, active_threads, active, ctx,
                          phase, kid, mutex, seen, counters>>,
         main' \in {"launch", "poll", "done", "exit"},
         cursor' \in 1 .. (max_workers + 1), PoolInv'
  PROVE  Inv'
<1>1. TypeOK'
  BY FilesFixed DEF Inv, TypeOK, counters
<1>2. ActiveInv' /\ CtxInv'
  BY FilesFixed DEF Inv, ActiveInv, CtxInv
<1>3. MutexInv'
  BY FilesFixed DEF Inv, MutexInv, counters
<1>4. TraceInv'
  BY FilesFixed, SimulableFixed DEF Inv, TraceInv
<1>5. ProgressExact'
  BY ProgressFixed
<1>. QED
  BY <1>1, <1>2, <1>3, <1>4, <1>5 DEF Inv
-----------------------------------------------------------------------------
(* The main thread.                                                         *)

\* Fewer active slots than slots: one is free, and conversely.
LEMMA ActiveCount ==
  ASSUME Inv
  PROVE  /\ IsFiniteSet({s \in Slots : active[s]})
         /\ active_threads = 0 => \A s \in Slots : ~active[s]
         /\ \A s \in Slots : active[s] => active_threads > 0
<1>1. IsFiniteSet({s \in Slots : active[s]})
  BY SlotsFinite, FS_Subset, {s \in Slots : active[s]} \in SUBSET Slots DEF Inv, TypeOK
<1>2. active_threads = 0 <=> {s \in Slots : active[s]} = {}
  BY <1>1, FS_EmptySet DEF Inv, PoolInv
<1>3. active_threads \in Nat
  BY <1>1, FS_CardinalityType DEF Inv, PoolInv
<1>. QED
  BY <1>1, <1>2, <1>3

\* The first loop gives the next kernel to the first unused slot (main.cpp:205-208).
LEMMA LaunchFirstInv ==
  ASSUME Inv, LaunchFirst
  PROVE  Inv'
<1>. DEFINE s == active_threads + 1
<1>. USE DEF LaunchFirst
<1>0. /\ UNCHANGED <<files, kid, mutex, seen, counters>>
      /\ launch_in_slot(s, active_threads)
      /\ main = "launch" /\ main' = main /\ cursor' = cursor
      /\ next_kernel_index < Total /\ active_threads < max_workers
  OBVIOUS
<1>1. active_threads \in Nat /\ s \in Slots /\ s \in 0 .. max_workers
  <2>1. max_workers \in Nat \ {0} /\ Slots = 1 .. max_workers
    BY <1>0, FilesFixed
  <2>2. active_threads \in 0 .. max_workers /\ active_threads < max_workers
    BY <1>0 DEF Inv, TypeOK
  <2>. QED
    BY <2>1, <2>2
<1>2. ~active[s]
  BY <1>0, <1>1 DEF Inv, PoolInv
<1>3. phase[s] = "none"
  BY <1>1, <1>2 DEF Inv, ActiveInv
<1>. HIDE DEF s, LaunchFirst
<1>4. /\ next_kernel_index' \in 0 .. Total
      /\ active' \in [Slots -> BOOLEAN]
      /\ ctx' \in [Slots -> 0 .. Total]
      /\ phase' \in [Slots -> Phases]
      /\ active_threads' \in 0 .. max_workers
      /\ ActiveInv' /\ CtxInv' /\ MutexInv' /\ TraceInv' /\ ProgressExact'
  <2>1. active_threads + 1 \in 0 .. max_workers
    BY <1>1 DEF s
  <2>. QED
    BY <1>0, <1>1, <1>3, <2>1, LaunchInv
<1>5. TypeOK'
  BY <1>0, <1>4, FilesFixed DEF Inv, TypeOK, counters
<1>6. PoolInv'
  <2>1. \A t \in Slots : active'[t] <=> active[t] \/ t = s
    BY <1>0, <1>1 DEF Inv, TypeOK, launch_in_slot
  <2>2. {t \in Slots : active[t]}' = {t \in Slots : active[t]} \cup {s}
    BY <1>0, <1>1, <2>1, FilesFixed
  <2>3. Cardinality({t \in Slots : active[t]}') = active_threads + 1
    BY <1>2, <2>2, ActiveCount, FS_AddElement DEF Inv, PoolInv
  <2>4. active_threads' = active_threads + 1 /\ next_kernel_index' = next_kernel_index + 1
    BY <1>0 DEF launch_in_slot
  <2>5. \A t \in Slots : t \in Nat
    BY <1>0, FilesFixed
  <2>6. \A t \in Slots : active'[t] <=> t <= active_threads + 1
    BY <1>0, <1>1, <2>1, <2>5 DEF Inv, PoolInv, s
  <2>. QED
    BY <1>0, <2>3, <2>4, <2>6, FilesFixed DEF Inv, PoolInv
<1>. QED
  BY <1>4, <1>5, <1>6 DEF Inv

\* Leaving the first loop or ending a sweep.
LEMMA LaunchEndsInv ==
  ASSUME Inv, LaunchEnds
  PROVE  Inv'
<1>. USE DEF LaunchEnds, SweepOrLeave
<1>1. cursor' \in 1 .. (max_workers + 1) /\ main' \in {"launch", "poll", "done", "exit"}
  BY DEF Inv, TypeOK
<1>2. UNCHANGED files /\ next_kernel_index \in 0 .. Total /\ active_threads \in 0 .. max_workers
  BY DEF Inv, TypeOK
<1>3. next_kernel_index = Total \/ active_threads = max_workers
  BY <1>2, FilesFixed DEF Inv, TypeOK
<1>4. active_threads = 0 => next_kernel_index = Total /\ \A s \in Slots : ~active[s]
  BY <1>2, <1>3, ActiveCount, FilesFixed
<1>5. active_threads = max_workers => \A s \in Slots : active[s]
  <2>1. \A s \in Slots : s <= max_workers
    BY <1>2, FilesFixed
  <2>. QED
    BY <2>1 DEF Inv, PoolInv
<1>6. PoolInv'
  <2>1. CASE active_threads > 0
    BY <1>2, <1>3, <1>5, <2>1, FilesFixed DEF Inv, PoolInv
  <2>2. CASE active_threads = 0
    BY <1>2, <1>4, <2>2, FilesFixed DEF Inv, PoolInv
  <2>. QED
    BY <1>2, <2>1, <2>2, FilesFixed
<1>. QED
  BY <1>1, <1>6, QuietInv

\* The end of a sweep over the slots (main.cpp:210, 237-241).
LEMMA SweepEndsInv ==
  ASSUME Inv, SweepEnds
  PROVE  Inv'
<1>. USE DEF SweepEnds, SweepOrLeave
<1>1. UNCHANGED files
  OBVIOUS
<1>2. cursor' \in 1 .. (max_workers + 1) /\ main' \in {"launch", "poll", "done", "exit"}
  BY <1>1, FilesFixed
<1>3. active_threads = 0 => next_kernel_index = Total /\ \A s \in Slots : ~active[s]
  <2>1. 1 \in Slots
    BY <1>1, FilesFixed
  <2>. QED
    BY <2>1, ActiveCount DEF Inv, PoolInv
<1>4. active_threads \in Nat
  BY <1>1, FilesFixed DEF Inv, TypeOK
<1>5. PoolInv'
  <2>1. CASE active_threads > 0
    BY <1>1, <2>1, FilesFixed DEF Inv, PoolInv
  <2>2. CASE active_threads = 0
    BY <1>1, <1>3, <2>2, FilesFixed DEF Inv, PoolInv
  <2>. QED
    BY <1>4, <2>1, <2>2
<1>. QED
  BY <1>2, <1>5, QuietInv

\* The sweep passes over a slot it cannot join (main.cpp:213-217).
LEMMA PollSkipsInv ==
  ASSUME Inv, PollSkips
  PROVE  Inv'
<1>. USE DEF PollSkips
<1>1. cursor' \in 1 .. (max_workers + 1) /\ main' \in {"launch", "poll", "done", "exit"}
  <2>1. cursor \in 1 .. max_workers /\ max_workers \in Nat
    BY FilesFixed
  <2>. QED
    BY <2>1
<1>2. PoolInv'
  BY FilesFixed DEF Inv, PoolInv
<1>. QED
  BY <1>1, <1>2, QuietInv

\* The process exits, from pthread_create or from the simulator.
LEMMA ExitInv ==
  ASSUME Inv, main' = "exit",
         UNCHANGED <<files, cursor, next_kernel_index, active_threads, active, ctx,
                     phase, kid, mutex, seen, counters>>
  PROVE  Inv'
<1>1. cursor' \in 1 .. (max_workers + 1)
  BY DEF Inv, TypeOK
<1>2. PoolInv'
  BY FilesFixed DEF Inv, PoolInv
<1>. QED
  BY <1>1, <1>2, QuietInv

\* A joined slot takes the next kernel: as many slots are active as before.
LEMMA RelaunchInv ==
  ASSUME Inv, main = "poll", cursor \in Slots, active[cursor], phase[cursor] = "ended",
         next_kernel_index < Total, launch_in_slot(cursor, active_threads - 1),
         cursor' = cursor + 1, UNCHANGED <<files, main, kid, mutex, seen, counters>>
  PROVE  Inv'
<1>1. active_threads \in 0 .. max_workers /\ max_workers \in Nat /\ cursor \in 1 .. max_workers
  BY FilesFixed DEF Inv, TypeOK
<1>2. (active_threads - 1) + 1 \in 0 .. max_workers
  BY <1>1
<1>3. /\ next_kernel_index' \in 0 .. Total
      /\ active' \in [Slots -> BOOLEAN]
      /\ ctx' \in [Slots -> 0 .. Total]
      /\ phase' \in [Slots -> Phases]
      /\ active_threads' \in 0 .. max_workers
      /\ ActiveInv' /\ CtxInv' /\ MutexInv' /\ TraceInv' /\ ProgressExact'
  BY <1>2, LaunchInv
<1>4. cursor' \in 1 .. (max_workers + 1)
  BY <1>1
<1>5. TypeOK'
  BY <1>3, <1>4, FilesFixed DEF Inv, TypeOK, counters
<1>6. active' = active
  BY DEF Inv, TypeOK, launch_in_slot
<1>7. active_threads' = active_threads
  BY <1>1 DEF launch_in_slot
<1>8. next_kernel_index # Total
  BY FilesFixed DEF Inv, TypeOK
<1>9. PoolInv'
  BY <1>6, <1>7, <1>8, FilesFixed DEF Inv, PoolInv
<1>. QED
  BY <1>3, <1>5, <1>9 DEF Inv

\* A joined slot is left empty: the requests are used up.
LEMMA EmptySlotInv ==
  ASSUME Inv, main = "poll", cursor \in Slots, active[cursor], phase[cursor] = "ended",
         next_kernel_index >= Total,
         active' = [active EXCEPT ![cursor] = FALSE],
         active_threads' = active_threads - 1,
         phase' = [phase EXCEPT ![cursor] = "none"],
         cursor' = cursor + 1,
         UNCHANGED <<ctx, next_kernel_index, files, main, kid, mutex, seen, counters>>
  PROVE  Inv'
<1>1. /\ active_threads \in 0 .. max_workers /\ active_threads > 0
      /\ max_workers \in Nat /\ cursor \in 1 .. max_workers
  BY FilesFixed, ActiveCount DEF Inv, TypeOK
<1>2. active_threads' \in 0 .. max_workers /\ cursor' \in 1 .. (max_workers + 1)
  BY <1>1
<1>3. TypeOK'
  BY <1>2, FilesFixed DEF Inv, TypeOK, counters, Phases
<1>4. \A t \in Slots : phase'[t] = IF t = cursor THEN "none" ELSE phase[t]
  BY DEF Inv, TypeOK
<1>5. ActiveInv'
  BY FilesFixed DEF Inv, TypeOK, ActiveInv
<1>6. CtxInv'
  BY <1>4, FilesFixed DEF Inv, CtxInv
<1>7. MutexInv'
  BY <1>4, FilesFixed DEF Inv, MutexInv, Locked, counters
<1>8. TraceInv'
  BY <1>4, FilesFixed, SimulableFixed DEF Inv, TraceInv
<1>9. ProgressExact'
  <2>1. Begun' = Begun
    BY <1>4, FilesFixed DEF Begun
  <2>2. Counted' = Counted
    BY <1>4, FilesFixed, SimulableFixed DEF Counted
  <2>. QED
    BY <2>1, <2>2 DEF Inv, ProgressExact, counters
<1>10. PoolInv'
  <2>1. \A t \in Slots : active'[t] <=> active[t] /\ t # cursor
    BY DEF Inv, TypeOK
  <2>2. {t \in Slots : active[t]}' = {t \in Slots : active[t]} \ {cursor}
    BY <2>1, FilesFixed
  <2>3. Cardinality({t \in Slots : active[t]}') = active_threads - 1
    BY <2>2, ActiveCount, FS_RemoveElement DEF Inv, PoolInv
  <2>4. next_kernel_index = Total
    <3>1. next_kernel_index \in 0 .. Total
      BY DEF Inv, TypeOK
    <3>2. Total \in Nat
      BY FilesFixed
    <3>. QED
      BY <3>1, <3>2
  <2>. QED
    BY <2>3, <2>4, FilesFixed DEF Inv, PoolInv
<1>. QED
  BY <1>3, <1>5, <1>6, <1>7, <1>8, <1>9, <1>10 DEF Inv

\* A successful join, whether or not a kernel is waiting (main.cpp:217-226).
LEMMA PollJoinsInv ==
  ASSUME Inv, PollJoins
  PROVE  Inv'
BY RelaunchInv, EmptySlotInv DEF PollJoins
-----------------------------------------------------------------------------
(* A worker thread.                                                         *)

\* What every step of a worker leaves alone.
LEMMA WorkerFrame ==
  ASSUME Inv, NEW s \in Slots, NEW from \in Phases \ {"none"}, NEW to \in Phases \ {"none"},
         At(s, from, to), UNCHANGED <<files, mainVars>>
  PROVE  /\ phase' \in [Slots -> Phases]
         /\ \A t \in Slots : phase'[t] = IF t = s THEN to ELSE phase[t]
         /\ ActiveInv' /\ PoolInv'
         /\ next_kernel_index' = next_kernel_index /\ ctx' = ctx
<1>1. /\ phase' \in [Slots -> Phases]
      /\ \A t \in Slots : phase'[t] = IF t = s THEN to ELSE phase[t]
  BY DEF Inv, TypeOK, At
<1>2. ActiveInv'
  BY <1>1, FilesFixed DEF Inv, ActiveInv, At, mainVars
<1>3. PoolInv'
  BY FilesFixed DEF Inv, PoolInv, mainVars
<1>. QED
  BY <1>1, <1>2, <1>3 DEF mainVars

\* A step outside the critical sections that does not end a counted simulation.
LEMMA FreeStepInv ==
  ASSUME Inv, NEW s \in Slots, NEW from \in Phases \ {"none"}, NEW to \in Phases \ {"none"},
         At(s, from, to), UNCHANGED <<files, mainVars, mutex, seen, counters>>,
         kid' \in [Slots -> 0 .. Total],
         \A t \in Slots : t # s => kid'[t] = kid[t],
         to \notin {"created"}, kid'[s] = ctx[s],
         from \notin Locked, to \notin Locked,
         from \in Starting <=> to \in Starting,
         to = "simulating" => Simulable(ctx[s]),
         to = "ended" => ~Simulable(ctx[s]),
         from # "ended"
  PROVE  Inv'
<1>1. /\ phase' \in [Slots -> Phases]
      /\ \A t \in Slots : phase'[t] = IF t = s THEN to ELSE phase[t]
      /\ ActiveInv' /\ PoolInv'
      /\ next_kernel_index' = next_kernel_index /\ ctx' = ctx
  BY WorkerFrame
<1>2. phase[s] = from
  BY DEF At
<1>3. TypeOK'
  BY <1>1, FilesFixed DEF Inv, TypeOK, counters, mainVars
<1>4. CtxInv'
  BY <1>1, <1>2, FilesFixed DEF Inv, CtxInv
<1>5. MutexInv'
  BY <1>1, <1>2, FilesFixed DEF Inv, MutexInv, counters
<1>6. TraceInv'
  BY <1>1, FilesFixed, SimulableFixed DEF Inv, TraceInv, Locked
<1>7. ProgressExact'
  <2>1. Begun' = Begun
    BY <1>1, <1>2, FilesFixed DEF Begun, Starting
  <2>2. Counted' = Counted
    BY <1>1, <1>2, FilesFixed, SimulableFixed DEF Counted
  <2>. QED
    BY <2>1, <2>2 DEF Inv, ProgressExact, counters
<1>. QED
  BY <1>1, <1>3, <1>4, <1>5, <1>6, <1>7 DEF Inv

\* A worker reads its slot's context (main.cpp:255-258).
LEMMA ReadContextInv ==
  ASSUME Inv, NEW s \in Slots, ReadContext(s)
  PROVE  Inv'
<1>. USE DEF ReadContext
<1>1. /\ kid' \in [Slots -> 0 .. Total]
      /\ \A t \in Slots : t # s => kid'[t] = kid[t]
      /\ kid'[s] = ctx[s]
  BY DEF Inv, TypeOK
<1>. QED
  BY <1>1, FreeStepInv DEF Phases, Starting, Locked

\* A worker opens its trace files, or ends without them (main.cpp:274-290).
LEMMA OpenTracesInv ==
  ASSUME Inv, NEW s \in Slots, OpenTraces(s)
  PROVE  Inv'
<1>. USE DEF OpenTraces
<1>1. kid[s] = ctx[s]
  BY DEF At, Inv, CtxInv
<1>2. /\ kid' \in [Slots -> 0 .. Total]
      /\ \A t \in Slots : t # s => kid'[t] = kid[t]
      /\ kid'[s] = ctx[s]
  BY <1>1 DEF Inv, TypeOK
<1>3. CASE At(s, "opening", "simulating") /\ Simulable(kid[s])
  BY <1>1, <1>2, <1>3, FreeStepInv DEF Phases, Starting, Locked
<1>4. CASE At(s, "opening", "ended") /\ ~Simulable(kid[s])
  BY <1>1, <1>2, <1>4, FreeStepInv DEF Phases, Starting, Locked
<1>. QED
  BY <1>3, <1>4

\* Entering a critical section: the counters are read with the mutex held.
LEMMA LockInv ==
  ASSUME Inv, NEW s \in Slots, NEW from, NEW to,
         \/ from = "entered" /\ to = "starting"
         \/ from = "simulating" /\ to = "finishing",
         At(s, from, to), Lock(s), seen' = [seen EXCEPT ![s] = counters],
         UNCHANGED <<files, mainVars, kid, counters>>
  PROVE  Inv'
<1>0. from \in Phases \ {"none"} /\ to \in Phases \ {"none"}
  BY DEF Phases
<1>1. /\ phase' \in [Slots -> Phases]
      /\ \A t \in Slots : phase'[t] = IF t = s THEN to ELSE phase[t]
      /\ ActiveInv' /\ PoolInv'
      /\ next_kernel_index' = next_kernel_index /\ ctx' = ctx
  BY <1>0, WorkerFrame
<1>2. phase[s] = from
  BY DEF At
<1>3. mutex = 0 /\ mutex' = s
  BY DEF Lock
<1>4. TypeOK'
  <2>1. seen' \in [Slots -> Nat \X Nat \X Nat]
    BY DEF Inv, TypeOK, counters
  <2>2. mutex' \in 0 .. max_workers
    BY <1>3, FilesFixed
  <2>. QED
    BY <1>1, <2>1, <2>2, FilesFixed DEF Inv, TypeOK, counters, mainVars
<1>5. CtxInv'
  BY <1>1, <1>2, FilesFixed DEF Inv, CtxInv
<1>6. MutexInv'
  <2>1. \A t \in Slots : t # 0
    BY FilesFixed
  <2>2. \A t \in Slots : phase[t] \notin Locked
    BY <1>3, <2>1 DEF Inv, MutexInv
  <2>3. counters' = counters /\ seen'[s] = counters
    BY DEF Inv, TypeOK
  <2>4. \A t \in Slots : (phase[t] \in Locked)' <=> t = s
    BY <1>1, <2>2 DEF Locked
  <2>. QED
    BY <1>3, <2>3, <2>4, FilesFixed DEF MutexInv, Locked
<1>7. TraceInv'
  BY <1>1, <1>2, FilesFixed, SimulableFixed DEF Inv, TraceInv
<1>8. ProgressExact'
  <2>1. Begun' = Begun
    BY <1>1, <1>2, FilesFixed DEF Begun
  <2>2. Counted' = Counted
    BY <1>1, <1>2, FilesFixed, SimulableFixed DEF Counted
  <2>. QED
    BY <2>1, <2>2 DEF Inv, ProgressExact, counters
<1>. QED
  BY <1>1, <1>4, <1>5, <1>6, <1>7, <1>8 DEF Inv

\* Leaving a critical section, but for what it writes to the counters.
LEMMA UnlockFrame ==
  ASSUME Inv, NEW s \in Slots, NEW from \in Locked, NEW to,
         \/ from = "starting" /\ to = "opening"
         \/ from = "finishing" /\ to = "ended",
         At(s, from, to), Unlock(s), Forget(s), UNCHANGED <<files, mainVars, kid>>
  PROVE  /\ phase' \in [Slots -> Phases] /\ seen' \in [Slots -> Nat \X Nat \X Nat]
         /\ mutex' \in 0 .. max_workers
         /\ \A t \in Slots : phase'[t] = IF t = s THEN to ELSE phase[t]
         /\ ActiveInv' /\ PoolInv' /\ CtxInv' /\ MutexInv' /\ TraceInv'
         /\ phase[s] = from /\ seen[s] = counters
         /\ ctx[s] \in 1 .. next_kernel_index /\ kid[s] = ctx[s]
         /\ next_kernel_index' = next_kernel_index /\ ctx' = ctx
         /\ \A t \in Slots : t # s => ctx[t] # ctx[s]
<1>0. from \in Phases \ {"none"} /\ to \in Phases \ {"none"}
  BY DEF Phases, Locked
<1>1. /\ phase' \in [Slots -> Phases]
      /\ \A t \in Slots : phase'[t] = IF t = s THEN to ELSE phase[t]
      /\ ActiveInv' /\ PoolInv'
      /\ next_kernel_index' = next_kernel_index /\ ctx' = ctx
  BY <1>0, WorkerFrame
<1>2. phase[s] = from /\ mutex' = 0
  BY DEF At, Unlock
<1>3. mutex = s /\ seen[s] = counters
  BY <1>2 DEF Inv, MutexInv
<1>4. seen' \in [Slots -> Nat \X Nat \X Nat] /\ mutex' \in 0 .. max_workers
  <2>1. seen' \in [Slots -> Nat \X Nat \X Nat]
    BY DEF Inv, TypeOK, Forget
  <2>2. mutex' \in 0 .. max_workers
    BY <1>2, FilesFixed
  <2>. QED
    BY <2>1, <2>2
<1>5. CtxInv'
  BY <1>1, <1>2, FilesFixed DEF Inv, CtxInv, Locked
<1>6. MutexInv'
  <2>1. \A t \in Slots : t # 0
    BY FilesFixed
  <2>2. \A t \in Slots : t # s => phase[t] \notin Locked
    BY <1>3 DEF Inv, MutexInv
  <2>3. \A t \in Slots : (phase[t] \notin Locked)'
    BY <1>1, <2>2 DEF Locked
  <2>. QED
    BY <1>2, <2>1, <2>3, FilesFixed DEF MutexInv, Locked
<1>7. TraceInv'
  BY <1>1, <1>2, FilesFixed, SimulableFixed DEF Inv, TraceInv
<1>8. ctx[s] \in 1 .. next_kernel_index /\ kid[s] = ctx[s]
  <2>1. ctx[s] \in Nat /\ next_kernel_index \in Nat
    BY FilesFixed DEF Inv, TypeOK
  <2>2. ctx[s] <= next_kernel_index /\ ctx[s] > 0 /\ kid[s] = ctx[s]
    BY <1>2 DEF Inv, CtxInv, Locked
  <2>. QED
    BY <2>1, <2>2
<1>9. \A t \in Slots : t # s => ctx[t] # ctx[s]
  BY <1>8, FilesFixed DEF Inv, TypeOK, CtxInv
<1>. QED
  BY <1>1, <1>2, <1>3, <1>4, <1>5, <1>6, <1>7, <1>8, <1>9

\* The sets of positions behind the counters are finite.
LEMMA ProgressFinite ==
  ASSUME Inv
  PROVE  IsFiniteSet(Begun) /\ IsFiniteSet(Counted)
<1>1. next_kernel_index \in Int
  BY SlotsFinite DEF Inv, TypeOK
<1>2. IsFiniteSet(1 .. next_kernel_index)
  BY <1>1, FS_Interval
<1>3. Begun \in SUBSET (1 .. next_kernel_index) /\ Counted \in SUBSET (1 .. next_kernel_index)
  BY DEF Begun, Counted
<1>. QED
  BY <1>2, <1>3, FS_Subset

\* The [START] critical section counts one more begun kernel (main.cpp:266-273).
LEMMA UnlockStartInv ==
  ASSUME Inv, NEW s \in Slots, UnlockStart(s)
  PROVE  Inv'
<1>. USE DEF UnlockStart
<1>0. "starting" \in Locked /\ UNCHANGED <<files, mainVars, kid>>
  BY DEF Locked
<1>1. /\ phase' \in [Slots -> Phases] /\ seen' \in [Slots -> Nat \X Nat \X Nat]
      /\ mutex' \in 0 .. max_workers
      /\ \A t \in Slots : phase'[t] = IF t = s THEN "opening" ELSE phase[t]
      /\ ActiveInv' /\ PoolInv' /\ CtxInv' /\ MutexInv' /\ TraceInv'
      /\ phase[s] = "starting" /\ seen[s] = counters
      /\ ctx[s] \in 1 .. next_kernel_index /\ kid[s] = ctx[s]
      /\ next_kernel_index' = next_kernel_index /\ ctx' = ctx
      /\ \A t \in Slots : t # s => ctx[t] # ctx[s]
  BY <1>0, UnlockFrame
<1>2. g_started_kernels' = g_started_kernels + 1
  BY <1>1 DEF counters
<1>. HIDE DEF UnlockStart
<1>3. TypeOK'
  <2>1. /\ g_started_kernels' \in Nat
        /\ g_finished_kernels' \in Nat /\ g_completed_gpu_cycles' \in Nat
    <3>1. g_started_kernels \in Nat /\ g_finished_kernels \in Nat /\ g_completed_gpu_cycles \in Nat
      BY DEF Inv, TypeOK
    <3>. QED
      BY <1>2, <3>1 DEF UnlockStart
  <2>. QED
    BY <1>0, <1>1, <2>1, FilesFixed DEF Inv, TypeOK, mainVars
<1>4. Begun' = Begun \cup {ctx[s]}
  BY <1>0, <1>1, FilesFixed DEF Begun
<1>5. ctx[s] \notin Begun
  BY <1>1 DEF Begun
<1>6. Counted' = Counted
  BY <1>0, <1>1, FilesFixed, SimulableFixed DEF Counted
<1>7. Cardinality(Begun') = Cardinality(Begun) + 1
  BY <1>4, <1>5, ProgressFinite, FS_AddElement
<1>8. ProgressExact'
  BY <1>2, <1>6, <1>7 DEF Inv, ProgressExact, UnlockStart
<1>. QED
  BY <1>1, <1>3, <1>8 DEF Inv

\* The [DONE] critical section counts one more simulated kernel (main.cpp:310-334).
LEMMA UnlockFinishInv ==
  ASSUME Inv, NEW s \in Slots, UnlockFinish(s)
  PROVE  Inv'
<1>. USE DEF UnlockFinish
<1>0. "finishing" \in Locked /\ UNCHANGED <<files, mainVars, kid>>
  BY DEF Locked
<1>1. /\ phase' \in [Slots -> Phases] /\ seen' \in [Slots -> Nat \X Nat \X Nat]
      /\ mutex' \in 0 .. max_workers
      /\ \A t \in Slots : phase'[t] = IF t = s THEN "ended" ELSE phase[t]
      /\ ActiveInv' /\ PoolInv' /\ CtxInv' /\ MutexInv' /\ TraceInv'
      /\ phase[s] = "finishing" /\ seen[s] = counters
      /\ ctx[s] \in 1 .. next_kernel_index /\ kid[s] = ctx[s]
      /\ next_kernel_index' = next_kernel_index /\ ctx' = ctx
      /\ \A t \in Slots : t # s => ctx[t] # ctx[s]
  BY <1>0, UnlockFrame
<1>2. g_finished_kernels' = g_finished_kernels + 1
  BY <1>1 DEF counters
<1>3. Simulable(ctx[s])
  BY <1>1 DEF Inv, TraceInv
<1>4. g_completed_gpu_cycles' \in Nat
  <2>1. kernel_ids[kid[s]] \in Ids
    BY <1>1, <1>3 DEF Inv, TypeOK, Simulable
  <2>2. Cycles[kernel_ids[kid[s]]] \in Nat
    BY <2>1, WorkloadAssumption
  <2>. QED
    <3>1. seen[s][3] = g_completed_gpu_cycles /\ g_completed_gpu_cycles \in Nat
      BY <1>1 DEF Inv, TypeOK, counters
    <3>. QED
      BY <2>2, <3>1
<1>. HIDE DEF UnlockFinish
<1>5. TypeOK'
  <2>1. g_started_kernels' \in Nat /\ g_finished_kernels' \in Nat
    <3>1. g_started_kernels \in Nat /\ g_finished_kernels \in Nat
      BY DEF Inv, TypeOK
    <3>. QED
      BY <1>2, <3>1 DEF UnlockFinish
  <2>. QED
    BY <1>0, <1>1, <1>4, <2>1, FilesFixed DEF Inv, TypeOK, mainVars
<1>6. Begun' = Begun
  BY <1>0, <1>1, FilesFixed DEF Begun
<1>7. Counted' = Counted \cup {ctx[s]}
  BY <1>0, <1>1, <1>3, FilesFixed, SimulableFixed DEF Counted
<1>8. ctx[s] \notin Counted
  BY <1>1 DEF Counted
<1>9. Cardinality(Counted') = Cardinality(Counted) + 1
  BY <1>7, <1>8, ProgressFinite, FS_AddElement
<1>10. ProgressExact'
  BY <1>2, <1>6, <1>9 DEF Inv, ProgressExact, UnlockFinish
<1>. QED
  BY <1>1, <1>5, <1>10 DEF Inv
-----------------------------------------------------------------------------
\* A step that changes nothing.
LEMMA StutterInv ==
  ASSUME Inv, UNCHANGED vars
  PROVE  Inv'
<1>1. UNCHANGED <<files, next_kernel_index, active_threads, active, ctx,
                  phase, kid, mutex, seen, counters, main, cursor>>
  BY DEF vars, mainVars
<1>2. main' \in {"launch", "poll", "done", "exit"} /\ cursor' \in 1 .. (max_workers + 1)
  BY <1>1 DEF Inv, TypeOK
<1>3. PoolInv'
  BY <1>1, FilesFixed DEF Inv, PoolInv
<1>. QED
  BY <1>1, <1>2, <1>3, QuietInv

\* Every step of every thread keeps the inductive invariant.
LEMMA NextInv == Inv /\ [Next]_vars => Inv'
<1>. SUFFICES ASSUME Inv, [Next]_vars PROVE Inv'
  OBVIOUS
<1>1. CASE Main
  BY <1>1, LaunchFirstInv, LaunchEndsInv, PollSkipsInv, PollJoinsInv, SweepEndsInv DEF Main
<1>2. CASE CreateFails
  BY <1>2, ExitInv DEF CreateFails
<1>3. ASSUME NEW s \in Slots, Worker(s) PROVE Inv'
  <2>1. CASE ReadContext(s)
    BY <2>1, ReadContextInv
  <2>2. CASE LockStart(s)
    BY <2>2, LockInv DEF LockStart
  <2>3. CASE UnlockStart(s)
    BY <2>3, UnlockStartInv
  <2>4. CASE OpenTraces(s)
    BY <2>4, OpenTracesInv
  <2>5. CASE LockFinish(s)
    BY <2>5, LockInv DEF LockFinish
  <2>6. CASE UnlockFinish(s)
    BY <2>6, UnlockFinishInv
  <2>. QED
    BY <1>3, <2>1, <2>2, <2>3, <2>4, <2>5, <2>6 DEF Worker
<1>4. ASSUME NEW s \in Slots, SimulatorExits(s) PROVE Inv'
  BY <1>4, ExitInv DEF SimulatorExits
<1>5. CASE UNCHANGED vars
  BY <1>5, StutterInv
<1>. QED
  BY <1>1, <1>2, <1>3, <1>4, <1>5 DEF Next, Terminated

\* The inductive invariant holds in every reachable state of the driver, for any
\* number of slots and requests.
THEOREM Invariance == Spec => []Inv
BY InitInv, NextInv, PTL DEF Spec
-----------------------------------------------------------------------------
\* Slots, positions and counters stay in range: in particular the driver never
\* has more than max_workers threads and never reads past kernel_ids.
THEOREM TypeCorrect == Spec => []TypeOK
<1>1. Inv => TypeOK
  BY DEF Inv
<1>. QED
  BY <1>1, Invariance, PTL

\* The progress counters are exact in every interleaving of any number of
\* workers (main.cpp:266-334).
THEOREM ProgressIsExact == Spec => []ProgressExact
<1>1. Inv => ProgressExact
  BY DEF Inv
<1>. QED
  BY <1>1, Invariance, PTL

\* A worker's kernel is the one its slot's context holds, and no two active
\* slots have the same (main.cpp:192-225, 255-258).
THEOREM ContextIsOwned == Spec => []ContextOwned
<1>1. Inv => ContextOwned
  <2>. SUFFICES ASSUME Inv, NEW s \in Slots
                PROVE  /\ phase[s] \notin {"none", "created"} => kid[s] = ctx[s]
                       /\ \A t \in Slots \ {s} : active[s] /\ active[t] => ctx[s] # ctx[t]
    BY DEF ContextOwned
  <2>1. phase[s] \notin {"none", "created"} => kid[s] = ctx[s]
    BY DEF Inv, CtxInv
  <2>2. active[s] => ctx[s] > 0
    BY DEF Inv, CtxInv, ActiveInv
  <2>3. \A t \in Slots \ {s} : ctx[s] > 0 => ctx[s] # ctx[t]
    BY DEF Inv, CtxInv
  <2>. QED
    BY <2>1, <2>2, <2>3
<1>. QED
  BY <1>1, Invariance, PTL

\* While requests wait, every slot has a worker (main.cpp:205-226).
THEOREM PoolIsKeptFull == Spec => []PoolKeptFull
<1>1. Inv => PoolKeptFull
  <2>1. Inv => ~(Total < Total)
    BY SlotsFinite DEF Inv, TypeOK, Total
  <2>. QED
    BY <2>1 DEF Inv, PoolInv, PoolKeptFull
<1>. QED
  BY <1>1, Invariance, PTL

\* The final report counts every request as started, and as finished when no
\* request lacks a file (main.cpp:242-251).
THEOREM ReportIsComplete == Spec => []ReportComplete
<1>1. Inv => ReportComplete
  <2>. SUFFICES ASSUME Inv, main = "done"
                PROVE  /\ next_kernel_index = Total
                       /\ \A s \in Slots : phase[s] = "none"
                       /\ g_started_kernels = Total
                       /\ (\A n \in 1 .. Total : Simulable(n)) => g_finished_kernels = Total
    BY DEF ReportComplete
  <2>1. next_kernel_index = Total /\ \A s \in Slots : ~active[s]
    BY DEF Inv, PoolInv
  <2>2. \A s \in Slots : phase[s] = "none"
    BY <2>1 DEF Inv, ActiveInv
  <2>3. Begun = 1 .. Total
    BY <2>1, <2>2 DEF Begun
  <2>4. (\A n \in 1 .. Total : Simulable(n)) => Counted = 1 .. Total
    BY <2>1, <2>2 DEF Counted
  <2>5. Total \in Nat /\ Cardinality(1 .. Total) = Total
    BY SlotsFinite, FS_Interval DEF Inv, TypeOK
  <2>. QED
    BY <2>1, <2>2, <2>3, <2>4, <2>5 DEF Inv, ProgressExact
<1>. QED
  BY <1>1, Invariance, PTL
-----------------------------------------------------------------------------
(* The refinement of WorkloadAbs.                                           *)

\* The requests as the abstract driver sees them do not change.
LEMMA RequestsFixed ==
  ASSUME Inv, UNCHANGED files
  PROVE  /\ Requests' = Requests /\ Requests \in Seq(BOOLEAN) /\ Len(Requests) = Total
         /\ \A n \in 1 .. Total : Requests[n] = Simulable(n)
<1>1. Total' = Total /\ Total \in Nat
  BY FilesFixed
<1>2. \A n \in 1 .. Total : Simulable(n)' = Simulable(n) /\ Simulable(n) \in BOOLEAN
  BY DEF Simulable, files
<1>3. Requests' = Requests /\ Requests \in [1 .. Total -> BOOLEAN]
  BY <1>1, <1>2 DEF Requests
<1>. QED
  BY <1>1, <1>3 DEF Requests

\* The outcome follows main alone.
LEMMA OutcomeIs ==
  /\ main \in {"launch", "poll"} => Outcome = "working"
  /\ main = "done" => Outcome = "reported"
  /\ main = "exit" => Outcome = "aborted"
  /\ main' \in {"launch", "poll"} => Outcome' = "working"
  /\ main' = "done" => Outcome' = "reported"
  /\ main' = "exit" => Outcome' = "aborted"
  /\ main' = main => Outcome' = Outcome
BY Zenon DEF Outcome

\* What a step of one slot does to the kernels running.
LEMMA RunningStep ==
  ASSUME Inv, UNCHANGED files, NEW s \in Slots,
         \A t \in Slots : t # s => phase'[t] = phase[t] /\ ctx'[t] = ctx[t]
  PROVE  /\ s \notin Busy /\ s \in Busy' => Running' = Running \cup {ctx'[s]}
         /\ s \notin Busy /\ s \notin Busy' => Running' = Running
         /\ s \in Busy /\ s \in Busy' /\ ctx'[s] = ctx[s] => Running' = Running
         /\ s \in Busy /\ s \notin Busy' /\ ctx'[s] = ctx[s] =>
              Running' = Running \ {ctx[s]} /\ ctx[s] \in Running
<1>1. Slots' = Slots
  BY FilesFixed
<1>2. \A t \in Slots : t # s => (t \in Busy' <=> t \in Busy) /\ ctx'[t] = ctx[t]
  BY <1>1 DEF Busy
<1>3. Busy \subseteq Slots /\ Busy' \subseteq Slots
  BY <1>1 DEF Busy
<1>4. Running' = {ctx'[t] : t \in Busy'}
  BY DEF Running
<1>5. ASSUME s \notin Busy, s \in Busy' PROVE Running' = Running \cup {ctx'[s]}
  BY <1>2, <1>3, <1>4, <1>5 DEF Running
<1>6. ASSUME s \notin Busy, s \notin Busy' PROVE Running' = Running
  BY <1>2, <1>3, <1>4, <1>6 DEF Running
<1>7. ASSUME s \in Busy, s \in Busy', ctx'[s] = ctx[s] PROVE Running' = Running
  BY <1>2, <1>3, <1>4, <1>7 DEF Running
<1>8. ASSUME s \in Busy, s \notin Busy', ctx'[s] = ctx[s]
      PROVE  Running' = Running \ {ctx[s]} /\ ctx[s] \in Running
  <2>1. \A t \in Busy : t # s => ctx[t] # ctx[s]
    BY <1>3, <1>8 DEF Busy, Inv, CtxInv
  <2>. QED
    BY <1>2, <1>3, <1>4, <1>8, <2>1 DEF Running
<1>. QED
  BY <1>5, <1>6, <1>7, <1>8

\* With a slot to spare fewer kernels run than the limit.
LEMMA RoomToRun ==
  ASSUME Inv, NEW s \in Slots, s \notin Busy
  PROVE  Cardinality(Running) < MAX_CONCURRENT_KERNELS
<1>1. /\ IsFiniteSet(Slots) /\ Cardinality(Slots) = max_workers /\ max_workers \in Nat
      /\ max_workers <= MAX_CONCURRENT_KERNELS /\ MAX_CONCURRENT_KERNELS \in Nat
  BY SlotsFinite, WorkloadAssumption DEF Inv, TypeOK
<1>2. IsFiniteSet(Slots \ {s}) /\ Cardinality(Slots \ {s}) = max_workers - 1
  BY <1>1, FS_RemoveElement
<1>3. Busy \subseteq Slots \ {s}
  BY DEF Busy
<1>4. IsFiniteSet(Busy) /\ Cardinality(Busy) <= max_workers - 1 /\ Cardinality(Busy) \in Nat
  BY <1>2, <1>3, FS_Subset, FS_CardinalityType
<1>5. [t \in Busy |-> ctx[t]] \in Surjection(Busy, Running)
  BY DEF Running, Surjection
<1>6. IsFiniteSet(Running) /\ Cardinality(Running) <= Cardinality(Busy) /\ Cardinality(Running) \in Nat
  BY <1>4, <1>5, FS_Surjection, FS_CardinalityType
<1>. QED
  BY <1>1, <1>4, <1>6

\* A kernel is given to a slot.
LEMMA LaunchMaps ==
  ASSUME Inv, NEW s \in Slots, NEW threads, Alive, main' = main, next_kernel_index < Total,
         phase[s] \in {"none", "ended"}, launch_in_slot(s, threads), UNCHANGED <<files, g_finished_kernels>>
  PROVE  Abs!Begin
<1>1. /\ ctx \in [Slots -> 0 .. Total] /\ phase \in [Slots -> Phases]
      /\ ctx' = [ctx EXCEPT ![s] = next_kernel_index + 1] /\ phase' = [phase EXCEPT ![s] = "created"]
      /\ next_kernel_index' = next_kernel_index + 1
  BY DEF Inv, TypeOK, launch_in_slot
<1>2. /\ \A t \in Slots : t # s => phase'[t] = phase[t] /\ ctx'[t] = ctx[t]
      /\ ctx'[s] = next_kernel_index + 1 /\ phase'[s] = "created"
  BY <1>1
<1>3. s \notin Busy /\ s \in Busy'
  BY <1>2, FilesFixed DEF Busy
<1>4. Running' = Running \cup {next_kernel_index + 1}
  BY <1>2, <1>3, RunningStep
<1>5. Cardinality(Running) < MAX_CONCURRENT_KERNELS
  BY <1>3, RoomToRun
<1>6. Requests' = Requests /\ Len(Requests) = Total
  BY RequestsFixed
<1>7. Outcome = "working" /\ Outcome' = "working"
  BY OutcomeIs DEF Alive
<1>8. next_kernel_index < Len(Requests) /\ UNCHANGED g_finished_kernels
  BY <1>6
<1>9. next_kernel_index' = next_kernel_index + 1
  BY <1>1
<1>10. Abs!Cardinality(Running) = Cardinality(Running)
  BY DEF Abs!Cardinality, Cardinality, Abs!IsFiniteSet, IsFiniteSet
<1>. QED
  BY <1>4, <1>5, <1>6, <1>7, <1>8, <1>9, <1>10 DEF Abs!Begin, Abs!Total

\* A worker's step that neither starts nor ends its kernel.
LEMMA SlotStutters ==
  ASSUME Inv, NEW s \in Slots, NEW from \in Phases, NEW to \in Phases, At(s, from, to),
         from \notin {"none", "ended"} <=> to \notin {"none", "ended"},
         UNCHANGED <<files, mainVars, g_finished_kernels>>
  PROVE  UNCHANGED Abs!vars
<1>1. /\ \A t \in Slots : t # s => phase'[t] = phase[t] /\ ctx'[t] = ctx[t]
      /\ phase[s] = from /\ phase'[s] = to /\ ctx'[s] = ctx[s]
  BY DEF Inv, TypeOK, At, mainVars
<1>2. s \in Busy <=> s \in Busy'
  BY <1>1, FilesFixed DEF Busy
<1>3. Running' = Running
  BY <1>1, <1>2, RunningStep
<1>4. Requests' = Requests
  BY RequestsFixed
<1>5. Outcome' = Outcome
  BY OutcomeIs DEF mainVars
<1>. QED
  BY <1>3, <1>4, <1>5 DEF Abs!vars, mainVars

\* A worker ends: its kernel counts exactly if it could be simulated.
LEMMA FinishMaps ==
  ASSUME Inv, NEW s \in Slots, NEW from \in Phases \ {"none", "ended"}, At(s, from, "ended"),
         UNCHANGED <<files, mainVars>>,
         g_finished_kernels' = IF Simulable(ctx[s]) THEN g_finished_kernels + 1 ELSE g_finished_kernels
  PROVE  Abs!Next
<1>1. /\ \A t \in Slots : t # s => phase'[t] = phase[t] /\ ctx'[t] = ctx[t]
      /\ phase[s] = from /\ phase'[s] = "ended" /\ ctx'[s] = ctx[s]
  BY DEF Inv, TypeOK, At, mainVars
<1>2. s \in Busy /\ s \notin Busy'
  BY <1>1, FilesFixed DEF Busy
<1>3. Running' = Running \ {ctx[s]} /\ ctx[s] \in Running
  BY <1>1, <1>2, RunningStep
<1>4. ctx[s] \in 1 .. Total
  BY <1>1, FilesFixed DEF Inv, TypeOK, CtxInv
<1>5. Requests' = Requests /\ Len(Requests) = Total /\ Requests[ctx[s]] = Simulable(ctx[s])
  BY <1>4, RequestsFixed
<1>6. Outcome = "working" /\ Outcome' = Outcome
  BY OutcomeIs DEF mainVars, At, Alive
<1>7. Abs!Finish(ctx[s])
  BY <1>3, <1>5, <1>6 DEF Abs!Finish, mainVars
<1>. QED
  BY <1>4, <1>5, <1>7 DEF Abs!Next, Abs!Total

\* The main thread moves on, reports or gives up.
LEMMA MainMaps ==
  ASSUME Inv, Inv', Alive, UNCHANGED <<files, next_kernel_index, phase, ctx, g_finished_kernels>>
  PROVE  Abs!Next \/ UNCHANGED Abs!vars
<1>1. Requests' = Requests /\ Len(Requests) = Total /\ Slots' = Slots /\ Total' = Total
  BY RequestsFixed, FilesFixed
<1>2. Running' = Running
  BY <1>1 DEF Running, Busy
<1>3. Outcome = "working"
  BY OutcomeIs DEF Alive
<1>4. main' \in {"launch", "poll", "done", "exit"}
  BY DEF Inv, TypeOK
<1>5. CASE main' \in {"launch", "poll"}
  BY <1>1, <1>2, <1>3, <1>5, OutcomeIs DEF Abs!vars
<1>6. CASE main' = "exit"
  BY <1>1, <1>2, <1>3, <1>6, OutcomeIs DEF Abs!Next, Abs!Abort
<1>7. CASE main' = "done"
  <2>1. next_kernel_index = Total /\ \A s \in Slots : phase[s] = "none"
    BY <1>1, <1>7 DEF Inv, PoolInv, ActiveInv
  <2>2. Running = {}
    BY <2>1 DEF Running, Busy
  <2>. QED
    BY <1>1, <1>2, <1>3, <1>7, <2>1, <2>2, OutcomeIs DEF Abs!Next, Abs!Report, Abs!Total
<1>. QED
  BY <1>4, <1>5, <1>6, <1>7

\* Every step of the driver is a step of the abstract one, or none.
LEMMA NextMaps ==
  ASSUME Inv, Inv', [Next]_vars
  PROVE  Abs!Next \/ UNCHANGED Abs!vars
<1>1. CASE LaunchFirst
  <2>1. active_threads + 1 \in Slots /\ phase[active_threads + 1] = "none"
    <3>1. active_threads < max_workers /\ active_threads \in Nat /\ max_workers \in Nat
      BY <1>1, SlotsFinite DEF LaunchFirst, Inv, TypeOK
    <3>2. active_threads + 1 \in Slots /\ ~(active_threads + 1 <= active_threads)
      BY <3>1 DEF Slots
    <3>3. ~active[active_threads + 1]
      BY <1>1, <3>2 DEF LaunchFirst, Inv, PoolInv
    <3>. QED
      BY <3>2, <3>3 DEF Inv, ActiveInv
  <2>2. Abs!Begin
    BY <1>1, <2>1, LaunchMaps DEF LaunchFirst, Alive, counters
  <2>. QED
    BY <2>2 DEF Abs!Next
<1>2. CASE PollJoins
  <2>1. CASE next_kernel_index < Total
    <3>1. launch_in_slot(cursor, active_threads - 1)
      <4>1. next_kernel_index \in Nat /\ Total \in Nat
        BY SlotsFinite DEF Inv, TypeOK
      <4>2. ~(next_kernel_index >= Total)
        BY <2>1, <4>1
      <4>. QED
        BY <1>2, <4>2 DEF PollJoins
    <3>2. Abs!Begin
      BY <1>2, <2>1, <3>1, LaunchMaps DEF PollJoins, Alive, counters
    <3>. QED
      BY <3>2 DEF Abs!Next
  <2>2. CASE ~(next_kernel_index < Total)
    <3>1. /\ cursor \in Slots /\ phase[cursor] = "ended" /\ phase' = [phase EXCEPT ![cursor] = "none"]
          /\ UNCHANGED <<files, main, ctx, next_kernel_index, g_finished_kernels>>
      BY <1>2, <2>2 DEF PollJoins, counters
    <3>2. phase'[cursor] = "none" /\ \A t \in Slots : t # cursor => phase'[t] = phase[t] /\ ctx'[t] = ctx[t]
      BY <3>1 DEF Inv, TypeOK
    <3>3. cursor \notin Busy
      BY <3>1 DEF Busy
    <3>4. \A s \in Slots : s = cursor => s \notin Busy'
      BY <3>2 DEF Busy
    <3>5. Running' = Running
      BY <3>1, <3>2, <3>3, <3>4, RunningStep
    <3>6. Requests' = Requests /\ Outcome' = Outcome
      BY <3>1, RequestsFixed, OutcomeIs
    <3>. QED
      BY <3>1, <3>5, <3>6 DEF Abs!vars
  <2>. QED
    BY <2>1, <2>2
<1>3. CASE LaunchEnds \/ PollSkips \/ SweepEnds \/ CreateFails \/ \E s \in Slots : SimulatorExits(s)
  <2>1. Alive /\ UNCHANGED <<files, next_kernel_index, phase, ctx, g_finished_kernels>>
    BY <1>3 DEF LaunchEnds, PollSkips, SweepEnds, CreateFails, SimulatorExits, Alive, counters
  <2>. QED
    BY <2>1, MainMaps
<1>4. ASSUME NEW s \in Slots, Worker(s) PROVE Abs!Next \/ UNCHANGED Abs!vars
  <2>1. CASE ReadContext(s)
    BY <2>1, SlotStutters DEF ReadContext, Phases, counters
  <2>2. CASE LockStart(s)
    BY <2>2, SlotStutters DEF LockStart, Phases, counters
  <2>3. CASE UnlockStart(s)
    BY <2>3, SlotStutters DEF UnlockStart, Phases
  <2>4. CASE OpenTraces(s)
    <3>1. kid[s] = ctx[s]
      BY <2>4 DEF OpenTraces, At, Inv, CtxInv
    <3>2. CASE At(s, "opening", "simulating")
      BY <2>4, <3>2, SlotStutters DEF OpenTraces, Phases, counters
    <3>3. CASE At(s, "opening", "ended") /\ ~Simulable(kid[s])
      BY <2>4, <3>1, <3>3, FinishMaps DEF OpenTraces, Phases, counters
    <3>. QED
      BY <2>4, <3>2, <3>3 DEF OpenTraces
  <2>5. CASE LockFinish(s)
    BY <2>5, SlotStutters DEF LockFinish, Phases, counters
  <2>6. CASE UnlockFinish(s)
    <3>1. seen[s] = counters /\ Simulable(ctx[s])
      BY <2>6 DEF UnlockFinish, At, Inv, MutexInv, TraceInv, Locked
    <3>2. g_finished_kernels' = g_finished_kernels + 1
      BY <2>6, <3>1 DEF UnlockFinish, counters
    <3>. QED
      BY <2>6, <3>1, <3>2, FinishMaps DEF UnlockFinish, Phases
  <2>. QED
    BY <1>4, <2>1, <2>2, <2>3, <2>4, <2>5, <2>6 DEF Worker
<1>5. CASE UNCHANGED vars
  <2>1. UNCHANGED <<files, main, next_kernel_index, phase, ctx, g_finished_kernels>>
    BY <1>5 DEF vars, mainVars, counters
  <2>2. Running' = Running
    BY <2>1, FilesFixed DEF Running, Busy
  <2>. QED
    BY <2>1, <2>2, RequestsFixed, OutcomeIs DEF Abs!vars
<1>. QED
  BY <1>1, <1>2, <1>3, <1>4, <1>5 DEF Next, Main, Terminated

\* The driver with its slots, threads, polling and mutex does what WorkloadAbs
\* promises: every request begins once and in order, at most
\* MAX_CONCURRENT_KERNELS run, and the report comes when nothing is left
\* (main.cpp:183-251).
THEOREM DriverKeepsItsPromise == Spec => Refinement
<1>1. Init => Abs!Init
  <2>. SUFFICES ASSUME Init PROVE Abs!Init
    OBVIOUS
  <2>1. Inv
    BY InitInv
  <2>2. Requests \in Seq(BOOLEAN)
    <3>1. Total \in Nat
      BY <2>1, SlotsFinite DEF Inv, TypeOK
    <3>2. Requests \in [1 .. Total -> BOOLEAN]
      BY DEF Requests, Simulable
    <3>. QED
      BY <3>1, <3>2
  <2>3. Running = {}
    BY DEF Init, Running, Busy
  <2>4. Outcome = "working"
    BY OutcomeIs DEF Init
  <2>. QED
    BY <2>2, <2>3, <2>4 DEF Init, Abs!Init
<1>2. Inv /\ Inv' /\ [Next]_vars => [Abs!Next]_(Abs!vars)
  BY NextMaps
<1>. QED
  BY <1>1, <1>2, Invariance, PTL DEF Spec, Refinement, Abs!Spec
=============================================================================
