------------------------------ MODULE Occupancy ------------------------------
(***************************************************************************)
(* How many blocks of a kernel fit on an SM: max_block_per_sm of            *)
(* gan-swift-sim/gpu.cpp.  The code computes with floats; the operands are  *)
(* integers below 2^23, for which its quotients round to the same integers. *)
(***************************************************************************)
EXTENDS Integers, FiniteSets

CONSTANTS   \* of gpu.config
  warp_size, max_active_threads_per_SM, max_active_blocks_per_SM,
  max_registers_per_SM, max_registers_per_block, register_allocation_size,
  shared_mem_size, smem_allocation_size,
  num_warp_schedulers_per_SM

ASSUME OccupancyAssumption ==
  /\ {warp_size, register_allocation_size, smem_allocation_size, num_warp_schedulers_per_SM,
      max_registers_per_block, max_active_threads_per_SM, max_active_blocks_per_SM} \subseteq Nat \ {0}
  /\ {max_registers_per_SM, shared_mem_size} \subseteq Nat
  /\ warp_size <= max_active_threads_per_SM

\* A kernel as its trace's header describes it.
KernelInfo == [m_block_size : Nat \ {0}, m_shared_mem_bytes : Nat, m_num_registers : Nat]

Lesser(m, n) == IF m < n THEN m ELSE n

\* Mutant: rounded down.
CeilTo_Down(x, s) == s * (x \div s)

\* ceil(x, s) and floor(x, s): x rounded to a multiple of s.
CeilTo(x, s) == s * ((x + s - 1) \div s)
FloorTo(x, s) == s * (x \div s)

allocated_active_warps_per_block(k) == CeilTo(k.m_block_size, warp_size) \div warp_size
allocated_regs_per_warp(k) == CeilTo(k.m_num_registers * warp_size, register_allocation_size)
smem_per_block(k) == CeilTo(k.m_shared_mem_bytes, smem_allocation_size)

max_block_limit_by_regs(k) ==
  IF k.m_num_registers = 0 THEN max_active_blocks_per_SM
  ELSE (FloorTo(max_registers_per_block \div allocated_regs_per_warp(k), num_warp_schedulers_per_SM)
          \div allocated_active_warps_per_block(k))
       * (max_registers_per_SM \div max_registers_per_block)

max_block_limit_by_smem(k) ==
  IF k.m_shared_mem_bytes = 0 THEN max_active_blocks_per_SM
  ELSE shared_mem_size \div smem_per_block(k)

max_block_limit_by_warps(k) ==
  Lesser(max_active_blocks_per_SM,
         (max_active_threads_per_SM \div warp_size) \div allocated_active_warps_per_block(k))

\* max_block_limit_by_others is INT_MAX.
max_block_per_sm(k) ==
  Lesser(Lesser(max_block_limit_by_smem(k), max_block_limit_by_regs(k)), max_block_limit_by_warps(k))

-----------------------------------------------------------------------------
\* The next multiple of s, which is what x things take when they are handed out
\* s at a time.
Whole(x, s) == CHOOSE m \in x .. (x + s - 1) : m % s = 0

\* n resident blocks find the threads, shared memory and registers they take.
Fits(k, n) ==
  LET threads == n * Whole(k.m_block_size, warp_size) IN
    /\ n <= max_active_blocks_per_SM
    /\ threads <= max_active_threads_per_SM
    /\ n * Whole(k.m_shared_mem_bytes, smem_allocation_size) <= shared_mem_size
    /\ (threads \div warp_size) * Whole(k.m_num_registers * warp_size, register_allocation_size)
         <= max_registers_per_SM
=============================================================================
