SPECIFICATION FairSpec
CONSTANTS
  NumSMs = 3
  MaxGrid = 6
  KernelInfos <- MCKernelInfos
  warp_size = 32
  max_active_threads_per_SM = 1536
  max_active_blocks_per_SM = 32
  max_registers_per_SM = 65536
  max_registers_per_block = 65536
  register_allocation_size = 256
  shared_mem_size = 102400
  smem_allocation_size = 256
  num_warp_schedulers_per_SM = 4
INVARIANTS TypeOK DispatchedOnce EndsWhenDone ResourcesFit
PROPERTY GridEnds
