------------------------------- MODULE SmCore -------------------------------
(***************************************************************************)
(* One streaming multiprocessor, streaming_multiprocessor::sm_cycle of      *)
(* gan-swift-sim/gpu.cpp: resident blocks of warps, the scoreboard of each  *)
(* warp (completions, pending_request, m_pending_mem_request_num,           *)
(* pending_inst), the load/store unit of every subcore that sends one       *)
(* sector a cycle, the replies that release a warp, and the retirement of   *)
(* warps and blocks.                                                        *)
(*                                                                          *)
(* A cycle is a sequence of stages in the order of the code: replies,       *)
(* deletion of finished blocks, load/store units, refill, scheduling.       *)
(* The memory system is external to this module: it may answer an           *)
(* outstanding request in any order, MinLatency to MaxLatency cycles after   *)
(* it was sent.                                                             *)
(* A memory request that needs a reply is a tuple: its warp, instruction,   *)
(* sector number and the cycle it was sent.                                 *)
(***************************************************************************)
EXTENDS TraceDecode

CONSTANTS
  NumBlocks,     \* blocks of the kernel, numbered from 0
  NumWarps,      \* warps per block, numbered from 0
  MaxBlocks,     \* m_max_blocks, the residency limit
  Subcores,      \* number of subcores (4 in the code)
  Traces,        \* what may be traced of a warp: lines of .sass and .mem
  Latency,       \* gpu_isa_latency of "alu", "dp" and "shared"
  Interval,      \* get_issue_interval_cycles of the units "alu", "dp" and "lds"
  MinLatency,    \* the memory answers no sooner (32 cycles, l1_hit_latency)
  MaxLatency,    \* bound: cycles after which the memory must have answered
  MaxCycles      \* bound: cycles simulated

Blocks == 0 .. (NumBlocks - 1)
Warps == Blocks \X (0 .. (NumWarps - 1))
Subs == 1 .. Subcores
INT_MAX == 2147483647

Ops == {"alu", "dp", "shared", "load", "store", "atom"}
UnitKinds == {"alu", "dp", "lds"}

MemOps == {"load", "store", "atom"}
MemInsts(t) == {n \in DOMAIN t.sass : t.sass[n].op \in MemOps}

\* A cycle is an int: simulated time stays below what marks an instruction
\* without an answer.
ASSUME SmAssumption ==
  /\ NumBlocks \in Nat \ {0}
  /\ NumWarps \in Nat \ {0}
  /\ MaxBlocks \in Nat \ {0}
  /\ Subcores \in Nat \ {0}
  /\ MaxCycles \in Nat /\ MaxCycles + 1 < INT_MAX
  /\ \A o \in {"alu", "dp", "shared"} : Latency[o] \in Nat /\ MaxCycles + Latency[o] < INT_MAX
  /\ \A u \in UnitKinds : Interval[u] \in Nat \ {0}
  /\ MinLatency \in Nat \ {0}
  /\ MaxLatency \in Nat /\ MaxLatency >= MinLatency

SassLine == [pc : Nat, op : Ops, dst : SUBSET Nat, src : SUBSET Nat, active : BOOLEAN, fence : BOOLEAN]
MemLine == [pc : Nat, addrs : Seq(Nat)]

\* The memory instructions up to n.
MemRank(t, n) == Cardinality({k \in MemInsts(t) : k <= n})

\* What the tracer writes: one line of .mem for every memory instruction, in the
\* same order, with the addresses of the active threads.  A pc, the offset in a
\* function, is that of one instruction: device functions are inlined.  EXIT and
\* barriers write no register (one that did would depend on itself), and an
\* atomic has an address (the code has no case for one without).
ASSUME TraceAssumption ==
  \A t \in Traces :
    /\ t.sass \in Seq(SassLine)
    /\ t.mem \in Seq(MemLine)
    /\ \A m, n \in DOMAIN t.sass : t.sass[m].pc = t.sass[n].pc => t.sass[m].op = t.sass[n].op
    /\ \A n \in DOMAIN t.sass : t.sass[n].fence => t.sass[n].dst = {}
    /\ Len(t.mem) = Cardinality(MemInsts(t))
    /\ \A n \in MemInsts(t) :
         /\ t.mem[MemRank(t, n)].pc = t.sass[n].pc
         /\ t.mem[MemRank(t, n)].addrs = <<>> <=> ~t.sass[n].active
         /\ t.sass[n].op = "atom" => t.sass[n].active

VARIABLES
  trace,           \* the trace of every warp
  prog,            \* m_insts of every warp, decoded from it
  stage, turn,     \* the stage of the cycle and the subcore or block it is at
  cycles,
  block_pointer,   \* next block of the kernel to be made resident
  block_vec,       \* resident blocks
  warp_vec,        \* the warps that have not retired
  warp_point,      \* number of instructions issued by a warp
  completions,     \* completion time of every issued instruction
  pending_request, \* outstanding sectors of an instruction
  m_pending_mem_request_num,
  pending_inst,
  unit,            \* the instruction a load/store unit is sending: <<warp, n, point>>
  ready,           \* ready_time of the two kinds of unit of a subcore
  busy,            \* m_queue_sm_to_l1_busy
  free_subs,       \* "active" of schedule_warps_in_subcores
  inflight,        \* requests the memory system has still to answer
  request_nums,    \* statistics: sectors that load/store units have sent,
  inst_executed,   \* ... whether the cycle issued, and for any thread,
  verdict,         \* ... and which counter of sm_cycle the cycle went to
  fault            \* which error path of the code was taken

warpVars == <<warp_point, completions, pending_request, m_pending_mem_request_num, pending_inst>>
unitVars == <<unit, ready, busy>>
blockVars == <<block_pointer, block_vec, warp_vec>>
statVars == <<request_nums, inst_executed, verdict>>
kernelVars == <<trace, prog>>
vars == <<kernelVars, stage, turn, cycles, blockVars, warpVars, unitVars, free_subs, inflight, statVars, fault>>

Idle == <<>>
Live(b) == {w \in warp_vec : w[1] = b}
is_active(b) == Live(b) # {}

sm_active == \/ \E b \in block_vec : is_active(b)
             \/ block_pointer < NumBlocks

Lesser(m, n) == IF m < n THEN m ELSE n

Init ==
  /\ trace \in [Warps -> Traces]
  /\ prog = [w \in Warps |-> m_insts(trace[w])]
  /\ stage = "start"
  /\ turn = 0
  /\ cycles = 0
  /\ block_pointer = Lesser(MaxBlocks, NumBlocks)
  /\ block_vec = 0 .. (block_pointer - 1)
  /\ warp_vec = Warps
  /\ warp_point = [w \in Warps |-> 0]
  /\ completions = [w \in Warps |-> <<>>]
  /\ pending_request = [w \in Warps |-> [n \in DOMAIN prog[w] |-> 0]]
  /\ m_pending_mem_request_num = [w \in Warps |-> 0]
  /\ pending_inst = [w \in Warps |-> 0]
  /\ unit = [s \in Subs |-> Idle]
  /\ ready = [s \in Subs |-> [u \in UnitKinds |-> 0]]
  /\ busy = {}
  /\ free_subs = {}
  /\ inflight = {}
  /\ request_nums = 0
  /\ inst_executed = "none"
  /\ verdict = "none"
  /\ fault = "none"
-----------------------------------------------------------------------------
(* Replies.  write_back (hits, from l1_to_sm) and write_back_request_l2     *)
(* (misses) release a request in the same way, but for a request that is    *)
(* not pending: the former ignores it, the latter exits.  The model exits.  *)

StartCycle ==
  /\ stage = "start" /\ fault = "none"
  /\ sm_active
  /\ cycles < MaxCycles
  /\ cycles' = cycles + 1
  /\ busy' = {}
  /\ inst_executed' = "none"
  /\ verdict' = "none"
  /\ stage' = "reply"
  /\ UNCHANGED <<kernelVars, turn, blockVars, warpVars, unit, ready, free_subs, inflight, request_nums, fault>>

\* Mutant: the warp's own count of outstanding sectors is not lowered.
decrease_pending_request_KeepsCount(w, n) ==
  /\ pending_request' = [pending_request EXCEPT ![w][n] = @ - 1]
  /\ completions' = IF pending_request[w][n] = 1
                    THEN [completions EXCEPT ![w][n] = cycles] ELSE completions
  /\ UNCHANGED m_pending_mem_request_num

\* The last outstanding sector of an instruction completes it.
decrease_pending_request(w, n) ==
  /\ pending_request' = [pending_request EXCEPT ![w][n] = @ - 1]
  /\ completions' = IF pending_request[w][n] = 1
                    THEN [completions EXCEPT ![w][n] = cycles] ELSE completions
  /\ m_pending_mem_request_num' = [m_pending_mem_request_num EXCEPT ![w] = @ - 1]

\* What looking up the warp of a reply runs into: get_block exits on an unknown
\* block, get_warp returns null for a retired warp, and a request that is not
\* pending is an error.
LookUp(w, n) == CASE w[1] \notin block_vec -> "get_block"
                  [] w[1] \in block_vec /\ w \notin warp_vec -> "get_warp"
                  [] OTHER -> IF pending_request[w][n] > 0 THEN "none" ELSE "cannot_decrease"

Reply(r) ==
  LET w == r[1] IN
  LET n == r[2] IN
  /\ stage = "reply" /\ fault = "none"
  /\ cycles - r[4] >= MinLatency
  /\ inflight' = inflight \ {r}
  /\ fault' = LookUp(w, n)
  /\ IF fault' = "none"
     THEN decrease_pending_request(w, n)
     ELSE UNCHANGED <<pending_request, completions, m_pending_mem_request_num>>
  /\ UNCHANGED <<kernelVars, stage, turn, cycles, blockVars, warp_point, pending_inst,
                 unitVars, free_subs, statVars>>

\* Mutant: finished blocks are never deleted.
EndReplies_KeepsBlocks ==
  /\ stage = "reply" /\ fault = "none"
  /\ \A r \in inflight : cycles - r[4] < MaxLatency
  /\ stage' = "units"
  /\ turn' = 1
  /\ UNCHANGED <<kernelVars, cycles, blockVars, warpVars, unitVars, free_subs, inflight, statVars, fault>>

\* No more replies in this cycle; del_inactive_block.
EndReplies ==
  /\ stage = "reply" /\ fault = "none"
  /\ \A r \in inflight : cycles - r[4] < MaxLatency
  /\ block_vec' = {b \in block_vec : is_active(b)}
  /\ stage' = "units"
  /\ turn' = 1
  /\ UNCHANGED <<kernelVars, cycles, block_pointer, warp_vec, warpVars, unitVars,
                 free_subs, inflight, statVars, fault>>
-----------------------------------------------------------------------------
(* The load/store units, one sector a cycle each.                           *)

\* l1_bank_hash
Bank(sector) == sector[2]

\* The next sector's bank was taken by an earlier subcore, or nothing to send.
UnitWaits ==
  /\ stage = "units" /\ fault = "none" /\ turn \in Subs
  /\ \/ unit[turn] = Idle
     \/ /\ unit[turn] # Idle
        /\ LET u == unit[turn] IN Bank(prog[u[1]][u[2]].sectors[u[3]]) \in busy
  /\ turn' = turn + 1
  /\ UNCHANGED <<kernelVars, stage, cycles, blockVars, warpVars, unitVars, free_subs, inflight, statVars, fault>>

increase_pending_request(w, n) ==
  /\ pending_request' = [pending_request EXCEPT ![w][n] = @ + 1]
  /\ m_pending_mem_request_num' = [m_pending_mem_request_num EXCEPT ![w] = @ + 1]

\* Mutant: every sector, not the last one, ends the instruction.
UnitSends_EndsEachSector ==
  /\ stage = "units" /\ fault = "none" /\ turn \in Subs
  /\ unit[turn] # Idle
  /\ LET w == unit[turn][1] IN
     LET n == unit[turn][2] IN
     LET point == unit[turn][3] IN
     LET i == prog[w][n] IN
       /\ Bank(i.sectors[point]) \notin busy
       /\ busy' = busy \cup {Bank(i.sectors[point])}
       /\ request_nums' = request_nums + 1
       /\ IF i.op = "load"
          THEN /\ increase_pending_request(w, n)
               /\ inflight' = inflight \cup {<<w, n, point, cycles>>}
          ELSE UNCHANGED <<pending_request, m_pending_mem_request_num, inflight>>
       /\ unit' = [unit EXCEPT ![turn] = IF point < Len(i.sectors) THEN <<w, n, point + 1>> ELSE Idle]
       /\ ready' = [ready EXCEPT ![turn].lds = cycles]
       /\ pending_inst' = [pending_inst EXCEPT ![w] = @ - 1]
  /\ turn' = turn + 1
  /\ UNCHANGED <<kernelVars, stage, cycles, blockVars, warp_point, completions, free_subs, inst_executed, verdict, fault>>

\* A sector is sent; a load waits for its reply, a store does not.  After the
\* last sector the unit is free again.
UnitSends ==
  /\ stage = "units" /\ fault = "none" /\ turn \in Subs
  /\ unit[turn] # Idle
  /\ LET w == unit[turn][1] IN
     LET n == unit[turn][2] IN
     LET point == unit[turn][3] IN
     LET i == prog[w][n] IN
       /\ Bank(i.sectors[point]) \notin busy
       /\ busy' = busy \cup {Bank(i.sectors[point])}
       /\ request_nums' = request_nums + 1
       /\ \/ /\ i.op = "load"
             /\ increase_pending_request(w, n)
             /\ inflight' = inflight \cup {<<w, n, point, cycles>>}
          \/ /\ i.op = "store"
             /\ UNCHANGED <<pending_request, m_pending_mem_request_num, inflight>>
       /\ \/ /\ point < Len(i.sectors)
             /\ unit' = [unit EXCEPT ![turn] = <<w, n, point + 1>>]
             /\ UNCHANGED <<ready, pending_inst>>
          \/ /\ point = Len(i.sectors)
             /\ unit' = [unit EXCEPT ![turn] = Idle]
             /\ ready' = [ready EXCEPT ![turn].lds = cycles]
             /\ pending_inst' = [pending_inst EXCEPT ![w] = @ - 1]
  /\ turn' = turn + 1
  /\ UNCHANGED <<kernelVars, stage, cycles, blockVars, warp_point, completions, free_subs, inst_executed, verdict, fault>>

Ready(s, u) == ready[s][u] <= cycles

\* Mutant: a subcore with a busy unit issues nothing.
FreeSubs_AllUnits == {s \in Subs : \A u \in UnitKinds : Ready(s, u)}

\* "active" of schedule_warps_in_subcores
FreeSubs == {s \in Subs : \E u \in UnitKinds : Ready(s, u)}

\* Blocks are made resident up to the limit; the scheduler's free subcores are
\* those with a unit that is ready.
Refill ==
  /\ stage = "units" /\ fault = "none" /\ turn = Subcores + 1
  /\ LET room == MaxBlocks - Cardinality(block_vec) IN
     LET upto == Lesser(block_pointer + room, NumBlocks) IN
       /\ block_vec' = {b \in Blocks : b \in block_vec \/ b \in block_pointer .. (upto - 1)}
       /\ block_pointer' = upto
  /\ free_subs' = FreeSubs
  /\ stage' = "schedule"
  /\ turn' = 0
  /\ UNCHANGED <<kernelVars, cycles, warp_vec, warpVars, unitVars, inflight, statVars, fault>>
-----------------------------------------------------------------------------
(* schedule_warps_in_subcores: at most one warp of each block issues, on the *)
(* lowest free subcore whose unit is ready; finished warps met on the way    *)
(* retire.                                                                   *)

HasNext(w) == warp_point[w] < Len(prog[w])
NextInst(w) == prog[w][warp_point[w] + 1]
UnitKind(i) == IF i.op \in {"alu", "dp"} THEN i.op ELSE "lds"

check_dependency(w) == \A d \in NextInst(w).deps : completions[w][d] <= cycles

check_unit(w, s) == s \in free_subs /\ Ready(s, UnitKind(NextInst(w)))

Issuable(w) == /\ HasNext(w)
               /\ check_dependency(w)
               /\ \E s \in Subs : check_unit(w, s)

\* Mutant: a warp retires with replies outstanding.
Retirable_IgnoresReplies(w) == ~HasNext(w) /\ pending_inst[w] = 0

Retirable(w) == /\ ~HasNext(w)
                /\ m_pending_mem_request_num[w] = 0
                /\ pending_inst[w] = 0

complete_at(w, t) == completions' = [completions EXCEPT ![w] = Append(@, t)]

\* The unit is busy for its interval.  load_all_subcore_units gives the units
\* that are fewer than subcores, "dp", to all subcores together.
Occupied(s, u) ==
  [c \in Subs |-> IF c = s \/ u = "dp" THEN [ready[c] EXCEPT ![u] = @ + Interval[u]] ELSE ready[c]]

HasAddresses(i) == i.active /\ i.sectors # <<>>

\* Arithmetic and shared-memory instructions, and global accesses without
\* addresses: a fixed latency.
IssueFixed(w, s) ==
  LET i == NextInst(w) IN
  /\ \/ /\ i.op \in {"alu", "dp", "shared"}
        /\ complete_at(w, cycles + Latency[i.op])
     \/ /\ i.op \in {"load", "store"} /\ ~HasAddresses(i)
        /\ complete_at(w, cycles + 1)
  /\ ready' = Occupied(s, UnitKind(i))
  /\ UNCHANGED <<pending_request, m_pending_mem_request_num, pending_inst, unit, inflight>>

\* process_LDG_STG: the instruction occupies the unit until it is all sent.
IssueGlobal(w, s) ==
  LET i == NextInst(w) IN
  /\ i.op \in {"load", "store"} /\ HasAddresses(i)
  /\ complete_at(w, IF i.op = "store" THEN cycles + 1 ELSE INT_MAX)
  /\ ready' = [ready EXCEPT ![s].lds = INT_MAX]
  /\ unit' = [unit EXCEPT ![s] = <<w, warp_point[w] + 1, 1>>]
  /\ pending_inst' = [pending_inst EXCEPT ![w] = @ + 1]
  /\ UNCHANGED <<pending_request, m_pending_mem_request_num, inflight>>

\* process_ATOM_ATOMG: every sector goes out at once and is answered.
IssueAtomic(w, s) ==
  LET i == NextInst(w) IN
  LET n == warp_point[w] + 1 IN
  /\ i.op = "atom"
  /\ complete_at(w, INT_MAX)
  /\ ready' = [ready EXCEPT ![s].lds = @ + 4]
  /\ pending_request' = [pending_request EXCEPT ![w][n] = @ + Len(i.sectors)]
  /\ m_pending_mem_request_num' = [m_pending_mem_request_num EXCEPT ![w] = @ + Len(i.sectors)]
  /\ inflight' = inflight \cup {<<w, n, k, cycles>> : k \in DOMAIN i.sectors}
  /\ UNCHANGED <<pending_inst, unit>>

\* The first issuable warp of the block issues; the finished warps before it
\* retire.
ScheduleIssue ==
  /\ stage = "schedule" /\ fault = "none" /\ turn \in block_vec /\ free_subs # {}
  /\ \E w \in Live(turn), s \in Subs :
       /\ Issuable(w)
       /\ \A v \in Live(turn) : v[2] < w[2] => ~Issuable(v)
       /\ check_unit(w, s)
       /\ \A t \in Subs : t < s => ~check_unit(w, t)
       /\ IssueFixed(w, s) \/ IssueGlobal(w, s) \/ IssueAtomic(w, s)
       /\ warp_point' = [warp_point EXCEPT ![w] = @ + 1]
       /\ inst_executed' = IF NextInst(w).active \/ inst_executed = "threads" THEN "threads" ELSE "masked"
       /\ warp_vec' = {v \in warp_vec : ~(v[1] = turn /\ v[2] < w[2] /\ Retirable(v))}
       /\ free_subs' = free_subs \ {s}
  /\ turn' = turn + 1
  /\ UNCHANGED <<kernelVars, stage, cycles, block_pointer, block_vec, busy, request_nums, verdict, fault>>

\* No warp of the block issues; its finished warps retire.
ScheduleRetire ==
  /\ stage = "schedule" /\ fault = "none" /\ turn \in block_vec /\ free_subs # {}
  /\ \A w \in Live(turn) : ~Issuable(w)
  /\ warp_vec' = {v \in warp_vec : ~(v[1] = turn /\ Retirable(v))}
  /\ turn' = turn + 1
  /\ UNCHANGED <<kernelVars, stage, cycles, block_pointer, block_vec, warpVars, unitVars,
                 free_subs, inflight, statVars, fault>>

\* Not resident, or every subcore has issued.
ScheduleSkip ==
  /\ stage = "schedule" /\ fault = "none" /\ turn \in Blocks
  /\ turn \notin block_vec \/ free_subs = {}
  /\ turn' = turn + 1
  /\ UNCHANGED <<kernelVars, stage, cycles, blockVars, warpVars, unitVars, free_subs, inflight, statVars, fault>>

(* sm_cycle's statistics, taken after scheduling.                           *)

Resident == {w \in warp_vec : w[1] \in block_vec}
Waiting == {w \in Resident : HasNext(w)}

has_pending_memory_warp == \E w \in Resident : m_pending_mem_request_num[w] > 0 \/ pending_inst[w] > 0
has_dependency_stall_warp == \E w \in Waiting : ~check_dependency(w)

Before(v, w) == v[1] < w[1] \/ (v[1] = w[1] /\ v[2] < w[2])
NoUnit(w) == \A s \in Subs : ~Ready(s, UnitKind(NextInst(w)))

\* The first warp whose dependencies are met decides.
has_unit_stall_warp ==
  \E w \in Waiting : /\ check_dependency(w) /\ NoUnit(w)
                     /\ \A v \in Waiting : Before(v, w) => ~check_dependency(v)

\* The counter that is increased; instructions without active threads do not
\* count as issued.
Attributed ==
  CASE inst_executed = "threads" -> "issue_active"
    [] inst_executed # "threads" /\ has_pending_memory_warp -> "memory_stall"
    [] OTHER -> IF has_dependency_stall_warp THEN "dependency_stall"
                ELSE IF has_unit_stall_warp THEN "unit_stall"
                ELSE IF Waiting # {} THEN "scheduler_idle" ELSE "none"

EndCycle ==
  /\ stage = "schedule" /\ fault = "none" /\ turn = NumBlocks
  /\ stage' = "start"
  /\ turn' = 0
  /\ free_subs' = {}
  /\ verdict' = Attributed
  /\ UNCHANGED <<kernelVars, cycles, blockVars, warpVars, unitVars, inflight, request_nums, inst_executed, fault>>

\* The kernel is over, the process has exited, or the bound was reached.
Terminated == /\ \/ fault # "none"
                 \/ stage = "start" /\ (~sm_active \/ cycles = MaxCycles)
              /\ UNCHANGED vars

Step == \/ StartCycle \/ (\E r \in inflight : Reply(r)) \/ EndReplies
        \/ UnitWaits \/ UnitSends \/ Refill
        \/ ScheduleIssue \/ ScheduleRetire \/ ScheduleSkip \/ EndCycle

Next == Step \/ Terminated

Spec == Init /\ [][Next]_vars
\* The simulation loop keeps running.
FairSpec == Spec /\ WF_vars(Step)
-----------------------------------------------------------------------------
(* Properties.                                                              *)

OfWarp(w) == {r \in inflight : r[1] = w}
OfInst(w, n) == {r \in inflight : r[1] = w /\ r[2] = n}
UnitsOf(w) == {s \in Subs : unit[s] # Idle /\ unit[s][1] = w}

\* Sectors of n that were not answered or not even sent.
Unreleased(w, n) ==
  OfInst(w, n) # {} \/ \E s \in Subs : unit[s] # Idle /\ unit[s][1] = w /\ unit[s][2] = n

TypeOK ==
  /\ trace \in [Warps -> Traces]
  /\ stage \in {"start", "reply", "units", "schedule"}
  /\ turn \in Nat
  /\ cycles \in Nat
  /\ block_pointer \in 0 .. NumBlocks
  /\ block_vec \subseteq Blocks
  /\ warp_vec \subseteq Warps
  /\ warp_point \in [Warps -> Nat]
  /\ completions \in [Warps -> Seq(Nat)]
  /\ pending_request \in [Warps -> Seq(Nat)]
  /\ m_pending_mem_request_num \in [Warps -> Nat]
  /\ pending_inst \in [Warps -> Nat]
  /\ \A w \in Warps :
       /\ warp_point[w] <= Len(prog[w])
       /\ Len(completions[w]) = warp_point[w]
       /\ Len(pending_request[w]) = Len(prog[w])
  /\ unit \in [Subs -> {Idle} \cup (Warps \X (Nat \ {0}) \X (Nat \ {0}))]
  /\ ready \in [Subs -> [UnitKinds -> Nat]]
  /\ busy \subseteq 0 .. 3
  /\ free_subs \subseteq Subs
  /\ inflight \subseteq Warps \X (Nat \ {0}) \X (Nat \ {0}) \X Nat
  /\ request_nums \in Nat
  /\ inst_executed \in {"none", "masked", "threads"}
  /\ verdict \in {"none", "issue_active", "memory_stall", "dependency_stall", "unit_stall", "scheduler_idle"}
  /\ fault \in {"none", "get_block", "get_warp", "cannot_decrease"}

\* A reply always finds its block, its warp and a pending request: the exits
\* of get_block and write_back_request_l2 and the null warp of get_warp are
\* never met (gpu.h:206, kernel.h:290, gpu.cpp:440, 460), because a warp that
\* has retired, and a block that was deleted, have issued everything and have
\* no request on its way and no unit working for them (gpu.cpp:320-325, 596-606).
NoOrphanReply ==
  /\ fault = "none"
  /\ \A w \in Warps : OfWarp(w) # {} \/ UnitsOf(w) # {} => w \in warp_vec /\ w[1] \in block_vec
  /\ \A w \in Warps \ warp_vec : ~HasNext(w)

\* The three counters a warp keeps agree with what is really outstanding, and an
\* instruction that is not complete is still being sent or waits for an answer,
\* so that a reply will complete it: no wake-up is lost.
Accounting ==
  \A w \in Warps :
    /\ m_pending_mem_request_num[w] = Cardinality(OfWarp(w))
    /\ pending_inst[w] = Cardinality(UnitsOf(w))
    /\ \A n \in DOMAIN prog[w] : pending_request[w][n] = Cardinality(OfInst(w, n))
    /\ \A n \in 1 .. warp_point[w] : completions[w][n] = INT_MAX => Unreleased(w, n)

\* When an instruction issues, every earlier instruction of the warp, not only
\* the last, that writes a register it reads or writes is marked complete; for
\* EXIT and barriers every earlier one that writes any register.  (That a mark
\* may come too early is what CompleteMeansReleased shows.)
Feeds(i, j) == i.dst \cap (j.dst \cup j.src) # {} \/ (j.fence /\ i.dst # {})

IssueOrdered ==
  [][\A w \in Warps : warp_point'[w] > warp_point[w] =>
       \A m \in 1 .. warp_point[w] : Feeds(prog[w][m], NextInst(w)) => completions[w][m] <= cycles]_vars

\* When the kernel ends, the load/store units have sent every sector that the
\* threads of each load and store touched, and each once: the n-th memory
\* instruction of a warp took the n-th line of its .mem file (loops execute a
\* pc several times), and coalescing lost or doubled nothing (kernel.cpp:102-132).
SectorsTouched(v, n) ==
  {a \div SECTOR_SIZE : a \in ToSet(trace[v].mem[MemRank(trace[v], n)].addrs)}

UnitInsts(v) == {n \in MemInsts(trace[v]) : trace[v].sass[n].op # "atom"}

RequestsExact ==
  warp_vec = {} =>
    request_nums = Cardinality(UNION {UNION {{v} \X {n} \X SectorsTouched(v, n) : n \in UnitInsts(v)} : v \in Warps})

\* A cycle stays empty only if no resident warp could have issued, and a cycle is
\* put down to an idle scheduler (README.md:235) only if it issued instructions
\* that all their threads had predicated off.
WorkConserving ==
  stage = "start" /\ cycles > 0 =>
    /\ inst_executed = "none" => \A w \in Waiting : ~check_dependency(w) \/ NoUnit(w)
    /\ verdict = "scheduler_idle" => inst_executed = "masked"

\* kernel.h:196 says decrease_pending_request is "true if all request release":
\* a load or atomic marked complete has no sector outstanding.
CompleteMeansReleased ==
  \A w \in Warps : \A n \in 1 .. warp_point[w] :
    prog[w][n].op \in {"load", "atom"} /\ completions[w][n] # INT_MAX => ~Unreleased(w, n)

\* Every warp retires and the kernel ends.
KernelEnds == <>(stage = "start" /\ ~sm_active /\ warp_vec = {})
=============================================================================
