---------------------------- MODULE BlockDispatch ----------------------------
(***************************************************************************)
(* The blocks of a kernel and all the SMs of gan-swift-sim (gpu.cpp):       *)
(* gpu::first_spawn_block gives every SM its first blocks in turn, every    *)
(* sm_cycle deletes the finished ones and takes new ones from the shared    *)
(* block_pointer, and gpu_cycle runs until a whole round over the SMs has   *)
(* found none of them active.                                               *)
(*                                                                          *)
(* What happens inside a resident block is SmCore's subject: here it        *)
(* finishes in some sm_cycle of its SM.  A block of which nothing was       *)
(* traced has no warps, and so has finished from the start.                 *)
(***************************************************************************)
EXTENDS Occupancy

CONSTANTS
  NumSMs,       \* sm_num
  MaxGrid,      \* bound: blocks of a kernel
  KernelInfos   \* the kernels that may be launched

ASSUME DispatchAssumption ==
  NumSMs \in Nat \ {0} /\ MaxGrid \in Nat \ {0} /\ KernelInfos \subseteq KernelInfo

SMs == 0 .. (NumSMs - 1)

VARIABLES
  info,           \* m_kernel_info, but for:
  grid,           \* m_grid_size
  m_max_blocks,   \* what max_block_per_sm returned for the kernel
  stage, turn,    \* where gpu_cycle is, and the block or SM its loop is at
  index,          \* of first_spawn_block: the SM to get the next block
  block_pointer,
  block_vec,      \* the resident blocks of every SM
  finished,       \* blocks with no warp left
  sm_active,      \* the flag of gpu_cycle's loop
  placed          \* how often a block was made resident

vars == <<info, grid, m_max_blocks, stage, turn, index, block_pointer, block_vec, finished, sm_active, placed>>

Blocks == 0 .. (grid - 1)

Init ==
  /\ grid \in 1 .. MaxGrid
  /\ info \in KernelInfos
  /\ m_max_blocks = max_block_per_sm(info)
  /\ stage = "spawn"
  /\ turn = 0
  /\ index = 0
  /\ block_pointer = 0
  /\ block_vec = [s \in SMs |-> {}]
  /\ finished \in SUBSET Blocks
  /\ sm_active = TRUE
  /\ placed = [b \in Blocks |-> 0]

\* Mutant: blocks that are still to come do not count.
IsActive_ResidentOnly(vec, pointer, done) == vec \ done # {}

\* The blocks that are not yet finished among those of an SM, or blocks to come.
IsActive(vec, pointer, done) == vec \ done # {} \/ pointer < grid

active_sms == IF grid < NumSMs THEN grid ELSE NumSMs

Turned(i) == (i + 1) % active_sms
-----------------------------------------------------------------------------
\* first_spawn_block, no residency: the process exits.
NoResidency ==
  /\ stage = "spawn" /\ turn = 0
  /\ m_max_blocks <= 0
  /\ stage' = "exit"
  /\ UNCHANGED <<info, grid, m_max_blocks, turn, index, block_pointer, block_vec, finished, sm_active, placed>>

\* One round of first_spawn_block's loop over the blocks; a full SM keeps its
\* place as the next one.
Spawn ==
  /\ stage = "spawn" /\ turn < grid
  /\ m_max_blocks > 0
  /\ \/ /\ Cardinality(block_vec[index]) < m_max_blocks
        /\ block_vec' = [block_vec EXCEPT ![index] = @ \cup {turn}]
        /\ placed' = [placed EXCEPT ![turn] = @ + 1]
        /\ block_pointer' = block_pointer + 1
        /\ index' = Turned(index)
     \/ /\ Cardinality(block_vec[index]) >= m_max_blocks
        /\ UNCHANGED <<block_vec, placed, block_pointer, index>>
  /\ turn' = turn + 1
  /\ UNCHANGED <<info, grid, m_max_blocks, stage, finished, sm_active>>

\* Mutant: the flag is not reset.
StartCycle_KeepsFlag ==
  /\ \/ stage = "spawn" /\ turn = grid
     \/ stage = "cycle" /\ turn = NumSMs
  /\ \/ sm_active /\ stage' = "cycle" /\ turn' = 0 /\ UNCHANGED sm_active
     \/ ~sm_active /\ stage' = "end" /\ UNCHANGED <<sm_active, turn>>
  /\ UNCHANGED <<info, grid, m_max_blocks, index, block_pointer, block_vec, finished, placed>>

\* The head of gpu_cycle's loop.
StartCycle ==
  /\ \/ stage = "spawn" /\ turn = grid
     \/ stage = "cycle" /\ turn = NumSMs
  /\ \/ sm_active /\ sm_active' = FALSE /\ stage' = "cycle" /\ turn' = 0
     \/ ~sm_active /\ stage' = "end" /\ UNCHANGED <<sm_active, turn>>
  /\ UNCHANGED <<info, grid, m_max_blocks, index, block_pointer, block_vec, finished, placed>>

\* sm_cycle returns at once when the SM is not active.
SkipSM ==
  /\ stage = "cycle" /\ turn \in SMs
  /\ ~IsActive(block_vec[turn], block_pointer, finished)
  /\ turn' = turn + 1
  /\ UNCHANGED <<info, grid, m_max_blocks, stage, index, block_pointer, block_vec, finished, sm_active, placed>>

Room(kept) == m_max_blocks - Cardinality(kept)

\* Mutant: the end of the grid is not looked at.
Refilled_NoEnd(room) == IF room <= 0 THEN block_pointer ELSE block_pointer + room

\* block_pointer after blocks were taken for that many free places.
Refilled(room) == IF room <= 0 THEN block_pointer
                  ELSE IF block_pointer + room <= grid THEN block_pointer + room ELSE grid

\* Mutant: the block before block_pointer is taken.
Taken_Previous(upto) == {b \in Blocks : block_pointer - 1 <= b /\ b < upto - 1}

Taken(upto) == {b \in Blocks : block_pointer <= b /\ b < upto}

\* sm_cycle of an active SM: del_inactive_block, blocks from block_pointer on up
\* to the limit, scheduling, in which blocks may finish; then gpu_cycle asks
\* whether the SM is still active.
CycleSM ==
  /\ stage = "cycle" /\ turn \in SMs
  /\ IsActive(block_vec[turn], block_pointer, finished)
  /\ LET kept == block_vec[turn] \ finished IN
     LET upto == Refilled(Room(kept)) IN
     LET new == Taken(upto) IN
       /\ block_pointer' = upto
       /\ block_vec' = [block_vec EXCEPT ![turn] = kept \cup new]
       /\ placed' = [b \in Blocks |-> IF b \in new THEN placed[b] + 1 ELSE placed[b]]
       /\ \E done \in SUBSET ((kept \cup new) \ finished) :
            /\ finished' = finished \cup done
            /\ sm_active' = (sm_active \/ IsActive(kept \cup new, upto, finished'))
  /\ turn' = turn + 1
  /\ UNCHANGED <<info, grid, m_max_blocks, stage, index>>

Ended == stage \in {"end", "exit"} /\ UNCHANGED vars

Step == NoResidency \/ Spawn \/ StartCycle \/ SkipSM \/ CycleSM
Next == Step \/ Ended

Spec == Init /\ [][Next]_vars
\* The loop goes on, and SmCore shows that a resident block finishes.
FairSpec ==
  /\ Spec
  /\ WF_vars(Step)
  /\ \A b \in 0 .. (MaxGrid - 1) : SF_vars(CycleSM /\ b \notin finished /\ b \in finished')
-----------------------------------------------------------------------------
(* Properties.                                                              *)

TypeOK ==
  /\ info \in KernelInfos
  /\ grid \in Nat \ {0}
  /\ m_max_blocks \in Nat
  /\ stage \in {"spawn", "cycle", "end", "exit"}
  /\ turn \in Nat
  /\ index \in 0 .. (active_sms - 1)
  /\ block_pointer \in 0 .. grid
  /\ block_vec \in [SMs -> SUBSET Blocks]
  /\ finished \in SUBSET Blocks
  /\ sm_active \in BOOLEAN
  /\ placed \in [Blocks -> Nat]

\* Whatever SM asks for blocks and whenever, the blocks before block_pointer were
\* made resident exactly once and the others never, and no two SMs share one
\* (gpu.cpp:272-279, 849-861).
DispatchedOnce ==
  /\ \A b \in Blocks : placed[b] = IF b < block_pointer THEN 1 ELSE 0
  /\ \A s, r \in SMs : s # r => block_vec[s] \cap block_vec[r] = {}
  /\ \A s \in SMs : \A b \in block_vec[s] : b < block_pointer

\* gpu_cycle returns only when every block of the grid has run, although each
\* SM is asked at another moment (gpu.cpp:83-104).
EndsWhenDone == stage = "end" => Blocks \subseteq finished /\ block_pointer = grid

\* The blocks an SM holds never need more threads, registers or shared memory than
\* it has, counted in whole warps and allocation units: max_block_per_sm's
\* nested roundings and the refill, which deletes and takes blocks in one cycle,
\* err on the safe side (gpu.cpp:740-799, 272-279).
ResourcesFit == \A s \in SMs : Fits(info, Cardinality(block_vec[s]))

\* The kernel ends.
GridEnds == <>(stage \in {"end", "exit"})
=============================================================================
