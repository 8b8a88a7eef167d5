------------------------ MODULE BlockDispatchProofs ------------------------
(***************************************************************************)
(* Proofs about block dispatch, for any number of SMs, any grid and any     *)
(* kernel: every block is made resident exactly once, an SM always has the  *)
(* threads, registers and shared memory of its blocks, and gpu_cycle        *)
(* returns only when all of them have finished.  first_spawn_block places   *)
(* blocks by its loop counter and the refill by block_pointer: SpawnInv     *)
(* says why the two agree.  RoundInv is what a round of gpu_cycle over the  *)
(* SMs has established so far.                                              *)
(***************************************************************************)
EXTENDS BlockDispatch, FiniteSetTheorems, TLAPS

\* Blocks are placed in order until the SM in turn is full, and then no more.
SpawnInv == stage = "spawn" => /\ turn <= grid
                               /\ sm_active
                               /\ \/ block_pointer = turn
                                  \/ /\ block_pointer < turn
                                     /\ Cardinality(block_vec[index]) >= m_max_blocks

\* A block that was placed is resident or has finished.
PlacedInv == \A b \in Blocks : b < block_pointer => b \in finished \/ \E s \in SMs : b \in block_vec[s]

\* While the flag is down, the SMs already asked have nothing left to run.
RoundInv ==
  /\ stage = "cycle" => turn <= NumSMs
  /\ stage = "cycle" /\ ~sm_active =>
       /\ \A s \in SMs : s < turn => block_vec[s] \subseteq finished
       /\ turn > 0 => block_pointer = grid
  /\ stage = "end" => block_pointer = grid /\ \A s \in SMs : block_vec[s] \subseteq finished

\* No SM holds more blocks than the occupancy of the kernel.
ResidencyInv ==
  /\ m_max_blocks = max_block_per_sm(info)
  /\ \A s \in SMs : Cardinality(block_vec[s]) <= m_max_blocks

Inv == TypeOK /\ DispatchedOnce /\ SpawnInv /\ PlacedInv /\ RoundInv /\ ResidencyInv
-----------------------------------------------------------------------------
(* Numbers.                                                                 *)

\* Division rounds down.
LEMMA Quotient ==
  ASSUME NEW a \in Nat, NEW b \in Nat \ {0}
  PROVE  a \div b \in Nat /\ b * (a \div b) <= a /\ a < b * (a \div b) + b
OBVIOUS

\* ceil(x, s) of the code gives the multiple of s that x things take.
LEMMA CeilToIsWhole ==
  ASSUME NEW x \in Nat, NEW s \in Nat \ {0}
  PROVE  /\ CeilTo(x, s) = Whole(x, s)
         /\ CeilTo(x, s) \in Nat /\ x <= CeilTo(x, s)
<1>. DEFINE q == (x + s - 1) \div s
<1>1. q \in Nat /\ s * q <= x + s - 1 /\ x + s - 1 < s * q + s
  BY Quotient
<1>2. CeilTo(x, s) = s * q
  BY DEF CeilTo
<1>. HIDE DEF q
<1>3. s * q \in x .. (x + s - 1) /\ s * q \in Nat
  BY <1>1
<1>4. (s * q) % s = 0
  BY <1>1
<1>5. ASSUME NEW m \in x .. (x + s - 1), m % s = 0
      PROVE  m = s * q
  <2>. DEFINE r == m \div s
  <2>1. r \in Nat /\ m = s * r
    BY <1>5
  <2>. HIDE DEF r
  <2>2. CASE r < q
    <3>1. s * (r + 1) <= s * q
      BY <1>1, <2>1, <2>2
    <3>. QED
      BY <1>1, <2>1, <3>1
  <2>3. CASE q < r
    <3>1. s * (q + 1) <= s * r
      BY <1>1, <2>1, <2>3
    <3>. QED
      BY <1>1, <2>1, <3>1
  <2>. QED
    BY <1>1, <2>1, <2>2, <2>3
<1>. QED
  BY <1>2, <1>3, <1>4, <1>5 DEF Whole

\* Products keep the order.
LEMMA TimesMonotone ==
  ASSUME NEW a \in Nat, NEW b \in Nat, NEW c \in Nat, a <= b
  PROVE  a * c <= b * c /\ a * c \in Nat
OBVIOUS

\* A block takes at least one warp, and whole ones (gpu.cpp:746, 786).
LEMMA WarpsOfBlock ==
  ASSUME NEW k \in KernelInfo
  PROVE  /\ allocated_active_warps_per_block(k) \in Nat \ {0}
         /\ Whole(k.m_block_size, warp_size) = warp_size * allocated_active_warps_per_block(k)
<1>. DEFINE size == k.m_block_size
            q == (size + warp_size - 1) \div warp_size
<1>1. size \in Nat \ {0} /\ warp_size \in Nat \ {0}
  BY OccupancyAssumption DEF KernelInfo
<1>2. q \in Nat /\ size + warp_size - 1 < warp_size * q + warp_size
  <2>1. size + warp_size - 1 \in Nat
    BY <1>1
  <2>. QED
    BY <1>1, <2>1, Quotient
<1>3. Whole(size, warp_size) = warp_size * q /\ CeilTo(size, warp_size) = warp_size * q
  BY <1>1, CeilToIsWhole DEF CeilTo
<1>. HIDE DEF q
<1>4. q # 0
  BY <1>1, <1>2
<1>5. (warp_size * q) \div warp_size = q
  BY <1>1, <1>2
<1>. QED
  BY <1>2, <1>3, <1>4, <1>5 DEF allocated_active_warps_per_block

\* Shared memory that is not used takes nothing, and nor do registers.
LEMMA NothingIsWhole ==
  ASSUME NEW s \in Nat \ {0}
  PROVE  Whole(0, s) = 0
<1>1. CeilTo(0, s) = s * ((s - 1) \div s) /\ Whole(0, s) = CeilTo(0, s)
  BY CeilToIsWhole DEF CeilTo
<1>2. (s - 1) \div s = 0
  OBVIOUS
<1>. QED
  BY <1>1, <1>2

\* As many blocks as max_block_per_sm allows fit on an SM (gpu.cpp:741-800): every
\* one of its nested roundings errs on the safe side.
LEMMA ResidencyFits ==
  ASSUME NEW k \in KernelInfo
  PROVE  /\ max_block_per_sm(k) \in Nat
         /\ \A n \in Nat : n <= max_block_per_sm(k) => Fits(k, n)
<1>. DEFINE W == allocated_active_warps_per_block(k)
            R == allocated_regs_per_warp(k)
            S == smem_per_block(k)
            threads == max_active_threads_per_SM
            most == max_active_blocks_per_SM
            file == max_registers_per_SM
            part == max_registers_per_block
            sched == num_warp_schedulers_per_SM
            A == FloorTo(part \div R, sched)
<1>1. /\ {warp_size, threads, most, part, sched, register_allocation_size, smem_allocation_size}
            \subseteq Nat \ {0}
      /\ file \in Nat /\ shared_mem_size \in Nat
      /\ k.m_shared_mem_bytes \in Nat /\ k.m_num_registers \in Nat
      /\ k.m_num_registers * warp_size \in Nat
  BY OccupancyAssumption DEF KernelInfo
<1>2. /\ W \in Nat \ {0}
      /\ Whole(k.m_block_size, warp_size) = warp_size * W
  BY WarpsOfBlock
<1>3. R \in Nat /\ R = Whole(k.m_num_registers * warp_size, register_allocation_size)
      /\ k.m_num_registers * warp_size <= R
  BY <1>1, CeilToIsWhole DEF allocated_regs_per_warp
<1>4. S \in Nat /\ S = Whole(k.m_shared_mem_bytes, smem_allocation_size)
      /\ k.m_shared_mem_bytes <= S
  BY <1>1, CeilToIsWhole DEF smem_per_block
<1>. HIDE DEF W, R, S
\* Threads.
<1>5. /\ max_block_limit_by_warps(k) \in Nat
      /\ max_block_limit_by_warps(k) <= most
      /\ \A n \in Nat : n <= max_block_limit_by_warps(k) => n * (warp_size * W) <= threads
  <2>. DEFINE u == threads \div warp_size
              v == u \div W
  <2>1. u \in Nat /\ warp_size * u <= threads
    BY <1>1, Quotient
  <2>2. v \in Nat /\ W * v <= u
    BY <1>2, <2>1, Quotient
  <2>3. max_block_limit_by_warps(k) = Lesser(most, v)
    BY DEF max_block_limit_by_warps, W
  <2>. HIDE DEF u, v
  <2>4. max_block_limit_by_warps(k) \in Nat /\ max_block_limit_by_warps(k) <= most
        /\ max_block_limit_by_warps(k) <= v
    BY <1>1, <2>2, <2>3 DEF Lesser
  <2>5. ASSUME NEW n \in Nat, n <= v
        PROVE  n * (warp_size * W) <= threads
    <3>1. n * W <= v * W
      BY <1>2, <2>2, <2>5, TimesMonotone
    <3>2. n * W <= u /\ n * W \in Nat
      BY <1>2, <2>1, <2>2, <3>1
    <3>3. (n * W) * warp_size <= u * warp_size
      BY <1>1, <2>1, <3>2, TimesMonotone
    <3>4. n * (warp_size * W) = (n * W) * warp_size
      BY <1>1, <1>2
    <3>5. u * warp_size = warp_size * u
      BY <1>1, <2>1
    <3>. QED
      BY <1>1, <1>2, <2>1, <3>2, <3>3, <3>4, <3>5
  <2>. QED
    BY <2>2, <2>4, <2>5
\* Shared memory.
<1>6. /\ max_block_limit_by_smem(k) \in Nat
      /\ \A n \in Nat : n <= max_block_limit_by_smem(k) => n * S <= shared_mem_size
  <2>1. CASE k.m_shared_mem_bytes = 0
    <3>1. S = 0
      BY <1>1, <1>4, <2>1, NothingIsWhole
    <3>. QED
      BY <1>1, <2>1, <3>1 DEF max_block_limit_by_smem
  <2>2. CASE k.m_shared_mem_bytes # 0
    <3>. DEFINE v == shared_mem_size \div S
    <3>1. S \in Nat \ {0}
      BY <1>1, <1>4, <2>2
    <3>2. v \in Nat /\ S * v <= shared_mem_size
      BY <1>1, <3>1, Quotient
    <3>3. max_block_limit_by_smem(k) = v
      BY <2>2 DEF max_block_limit_by_smem, S
    <3>. HIDE DEF v
    <3>4. ASSUME NEW n \in Nat, n <= v
          PROVE  n * S <= shared_mem_size
      <4>1. n * S <= v * S /\ n * S \in Nat
        BY <3>1, <3>2, <3>4, TimesMonotone
      <4>2. v * S = S * v
        BY <3>1, <3>2
      <4>. QED
        BY <1>1, <3>1, <3>2, <4>1, <4>2
    <3>. QED
      BY <3>2, <3>3, <3>4
  <2>. QED
    BY <2>1, <2>2
\* Registers.
<1>7. /\ max_block_limit_by_regs(k) \in Nat
      /\ \A n \in Nat : n <= max_block_limit_by_regs(k) => (n * W) * R <= file
  <2>1. CASE k.m_num_registers = 0
    <3>1. k.m_num_registers * warp_size = 0
      BY <1>1, <2>1
    <3>2. R = 0
      BY <1>1, <1>3, <3>1, NothingIsWhole
    <3>3. \A n \in Nat : (n * W) * R = 0
      BY <1>2, <3>2
    <3>. QED
      BY <1>1, <2>1, <3>3 DEF max_block_limit_by_regs
  <2>2. CASE k.m_num_registers # 0
    <3>. DEFINE p == part \div R
                t == p \div sched
                d == A \div W
                c == file \div part
    <3>1. R \in Nat \ {0}
      <4>1. k.m_num_registers * warp_size # 0
        BY <1>1, <2>2
      <4>. QED
        BY <1>1, <1>3, <4>1
    <3>2. p \in Nat /\ R * p <= part
      BY <1>1, <3>1, Quotient
    <3>3. t \in Nat /\ sched * t <= p
      BY <1>1, <3>2, Quotient
    <3>4. A = sched * t /\ A \in Nat /\ A <= p
      <4>1. A = sched * t
        BY DEF FloorTo
      <4>. HIDE DEF p, t, A
      <4>. QED
        BY <1>1, <3>2, <3>3, <4>1
    <3>5. max_block_limit_by_regs(k) = d * c
      BY <2>2 DEF max_block_limit_by_regs, W, R
    <3>. HIDE DEF p, t, A
    <3>6. d \in Nat /\ W * d <= A
      BY <1>2, <3>4, Quotient
    <3>7. c \in Nat /\ part * c <= file
      BY <1>1, Quotient
    <3>. HIDE DEF d, c
    <3>8. A * R <= part /\ A * R \in Nat
      <4>1. A * R <= p * R /\ A * R \in Nat
        BY <3>1, <3>2, <3>4, TimesMonotone
      <4>2. p * R = R * p
        BY <3>1, <3>2
      <4>. QED
        BY <1>1, <3>1, <3>2, <4>1, <4>2
    <3>9. (d * W) * R <= part /\ (d * W) * R \in Nat
      <4>1. d * W = W * d /\ d * W \in Nat
        BY <1>2, <3>6
      <4>2. (d * W) * R <= A * R /\ (d * W) * R \in Nat
        BY <3>1, <3>4, <3>6, <4>1, TimesMonotone
      <4>. QED
        BY <1>1, <3>8, <4>2
    <3>10. ((d * W) * R) * c <= file
      <4>1. ((d * W) * R) * c <= part * c /\ ((d * W) * R) * c \in Nat
        BY <1>1, <3>7, <3>9, TimesMonotone
      <4>. QED
        BY <1>1, <3>7, <4>1
    <3>11. ASSUME NEW n \in Nat, n <= d * c
           PROVE  (n * W) * R <= file
      <4>1. d * c \in Nat
        BY <3>6, <3>7
      <4>2. W * R \in Nat
        BY <1>2, <3>1
      <4>3. n * (W * R) <= (d * c) * (W * R)
        BY <3>11, <4>1, <4>2, TimesMonotone
      <4>4. (d * c) * (W * R) = ((d * W) * R) * c
        BY <1>2, <3>1, <3>6, <3>7
      <4>5. (n * W) * R = n * (W * R)
        BY <1>2, <3>1
      <4>. QED
        BY <1>1, <1>2, <3>1, <3>6, <3>7, <3>9, <3>10, <4>1, <4>2, <4>3, <4>4, <4>5
    <3>12. d * c \in Nat
      BY <3>6, <3>7
    <3>. QED
      BY <3>5, <3>11, <3>12
  <2>. QED
    BY <2>1, <2>2
<1>8. /\ max_block_per_sm(k) \in Nat
      /\ max_block_per_sm(k) <= max_block_limit_by_smem(k)
      /\ max_block_per_sm(k) <= max_block_limit_by_regs(k)
      /\ max_block_per_sm(k) <= max_block_limit_by_warps(k)
  BY <1>5, <1>6, <1>7 DEF max_block_per_sm, Lesser
<1>9. ASSUME NEW n \in Nat, n <= max_block_per_sm(k)
      PROVE  Fits(k, n)
  <2>1. /\ n <= most /\ n * (warp_size * W) <= threads
        /\ n * S <= shared_mem_size /\ (n * W) * R <= file
    BY <1>1, <1>5, <1>6, <1>7, <1>8, <1>9
  <2>2. (n * (warp_size * W)) \div warp_size = n * W
    <3>1. n * (warp_size * W) = warp_size * (n * W) /\ n * W \in Nat
      BY <1>1, <1>2
    <3>2. \A x \in Nat : (warp_size * x) \div warp_size = x
      BY <1>1
    <3>. QED
      BY <3>1, <3>2
  <2>. QED
    BY <1>2, <1>3, <1>4, <2>1, <2>2 DEF Fits
<1>. QED
  BY <1>8, <1>9

\* The SMs that first_spawn_block turns over are SMs, and there is one.
LEMMA ActiveSMs ==
  ASSUME grid \in Nat \ {0}
  PROVE  /\ active_sms \in Nat \ {0}
         /\ 0 \in 0 .. (active_sms - 1)
         /\ 0 .. (active_sms - 1) \subseteq SMs
         /\ \A i \in 0 .. (active_sms - 1) : Turned(i) \in 0 .. (active_sms - 1)
<1>1. active_sms \in Nat \ {0} /\ active_sms <= NumSMs
  BY DispatchAssumption DEF active_sms
<1>2. ASSUME NEW n \in Nat \ {0}, NEW i \in 0 .. (n - 1)
      PROVE  (i + 1) % n \in 0 .. (n - 1)
  OBVIOUS
<1>3. \A i \in 0 .. (active_sms - 1) : Turned(i) \in 0 .. (active_sms - 1)
  BY <1>1, <1>2 DEF Turned
<1>4. 0 .. (active_sms - 1) \subseteq SMs /\ 0 \in 0 .. (active_sms - 1)
  BY <1>1, DispatchAssumption DEF SMs
<1>. QED
  BY <1>1, <1>3, <1>4

\* A grid is finite.
LEMMA BlocksFinite ==
  ASSUME grid \in Nat \ {0}, NEW kept \in SUBSET Blocks
  PROVE  IsFiniteSet(kept)
<1>1. IsFiniteSet(Blocks)
  BY FS_Interval DEF Blocks
<1>. QED
  BY <1>1, FS_Subset

\* The number of resident blocks is a number.
LEMMA RoomIsInt ==
  ASSUME grid \in Nat \ {0}, m_max_blocks \in Nat, NEW kept \in SUBSET Blocks
  PROVE  Room(kept) \in Int /\ Cardinality(kept) \in Nat
<1>1. Cardinality(kept) \in Nat
  BY BlocksFinite, FS_CardinalityType
<1>. QED
  BY <1>1 DEF Room

\* block_pointer only grows, and not past the grid (gpu.cpp:272).
LEMMA RefilledRange ==
  ASSUME grid \in Nat \ {0}, block_pointer \in 0 .. grid, NEW room \in Int
  PROVE  Refilled(room) \in 0 .. grid /\ block_pointer <= Refilled(room)
BY DEF Refilled
-----------------------------------------------------------------------------
(* One lemma per action.                                                     *)

\* Before the first block.
LEMMA InitInv == Init => Inv
<1>. SUFFICES ASSUME Init PROVE Inv
  OBVIOUS
<1>1. grid \in Nat \ {0} /\ info \in KernelInfos /\ m_max_blocks = max_block_per_sm(info)
      /\ m_max_blocks \in Nat
  BY DispatchAssumption, ResidencyFits DEF Init
<1>2. TypeOK
  BY <1>1, ActiveSMs DEF Init, TypeOK
<1>3. \A b \in Blocks : ~(b < 0)
  BY <1>1 DEF Blocks
<1>4. DispatchedOnce /\ PlacedInv
  BY <1>1, <1>3 DEF Init, DispatchedOnce, PlacedInv
<1>5. SpawnInv /\ RoundInv
  BY <1>1 DEF Init, SpawnInv, RoundInv
<1>6. ResidencyInv
  <2>1. \A s \in SMs : block_vec[s] = {}
    BY DEF Init
  <2>2. Cardinality({}) = 0
    BY FS_EmptySet
  <2>. QED
    BY <1>1, <2>1, <2>2 DEF ResidencyInv
<1>. QED
  BY <1>2, <1>4, <1>5, <1>6 DEF Inv

\* The process exits (gpu.cpp:831-841).
LEMMA NoResidencyInv == Inv /\ NoResidency => Inv'
BY DEF Inv, NoResidency, TypeOK, DispatchedOnce, SpawnInv, PlacedInv, RoundInv, ResidencyInv,
  Blocks, active_sms

\* first_spawn_block's loop (gpu.cpp:849-861): the block placed is the one that
\* block_pointer names.
LEMMA SpawnStepInv == Inv /\ Spawn => Inv'
<1>. SUFFICES ASSUME Inv, Spawn PROVE Inv'
  OBVIOUS
<1>1. /\ grid \in Nat \ {0} /\ turn \in Nat /\ block_pointer \in 0 .. grid /\ m_max_blocks \in Nat
      /\ index \in 0 .. (active_sms - 1) /\ index \in SMs
      /\ block_vec \in [SMs -> SUBSET Blocks] /\ placed \in [Blocks -> Nat]
  BY ActiveSMs DEF Inv, TypeOK
<1>2. /\ stage = "spawn" /\ stage' = "spawn" /\ turn < grid /\ turn' = turn + 1
      /\ UNCHANGED <<info, grid, m_max_blocks, finished, sm_active>>
      /\ Blocks' = Blocks /\ active_sms' = active_sms
  BY DEF Spawn, Blocks, active_sms
<1>3. turn \in Blocks
  BY <1>1, <1>2 DEF Blocks
<1>4. block_vec[index] \in SUBSET Blocks /\ Cardinality(block_vec[index]) \in Nat
  <2>1. block_vec[index] \in SUBSET Blocks
    BY <1>1
  <2>. QED
    BY <1>1, <2>1, RoomIsInt
<1>5. CASE Cardinality(block_vec[index]) < m_max_blocks
  <2>1. /\ block_vec' = [block_vec EXCEPT ![index] = block_vec[index] \cup {turn}]
        /\ placed' = [placed EXCEPT ![turn] = placed[turn] + 1]
        /\ block_pointer' = block_pointer + 1
        /\ index' = Turned(index)
    BY <1>1, <1>4, <1>5 DEF Spawn
  <2>2. block_pointer = turn
    BY <1>1, <1>2, <1>4, <1>5 DEF Inv, SpawnInv
  <2>3. index' \in 0 .. (active_sms - 1)
    BY <1>1, <2>1, ActiveSMs
  <2>4. block_vec' \in [SMs -> SUBSET Blocks]
    BY <1>1, <1>3, <2>1
  <2>5. placed' \in [Blocks -> Nat]
    BY <1>1, <1>3, <2>1
  <2>6. block_pointer' \in 0 .. grid /\ turn' \in Nat /\ turn' <= grid
    BY <1>1, <1>2, <2>1, <2>2
  <2>7. TypeOK'
    BY <1>2, <2>3, <2>4, <2>5, <2>6 DEF Inv, TypeOK
  <2>8. \A b \in Blocks : placed'[b] = IF b < block_pointer' THEN 1 ELSE 0
    <3>1. \A b \in Blocks : b < turn + 1 <=> b < turn \/ b = turn
      BY <1>1 DEF Blocks
    <3>2. placed[turn] = 0
      BY <1>1, <1>3, <2>2 DEF Inv, DispatchedOnce
    <3>. QED
      BY <1>1, <1>3, <2>1, <2>2, <3>1, <3>2 DEF Inv, DispatchedOnce
  <2>9. \A s \in SMs : turn \notin block_vec[s]
    BY <1>1, <2>2 DEF Inv, DispatchedOnce
  <2>10. \A s, r \in SMs : s # r => block_vec'[s] \cap block_vec'[r] = {}
    BY <1>1, <2>1, <2>9 DEF Inv, DispatchedOnce
  <2>11. \A s \in SMs : \A b \in block_vec'[s] : b < block_pointer'
    <3>. SUFFICES ASSUME NEW s \in SMs, NEW b \in block_vec'[s] PROVE b < block_pointer'
      OBVIOUS
    <3>1. b \in block_vec[s] \/ b = turn
      BY <1>1, <2>1
    <3>2. CASE b \in block_vec[s]
      <4>1. b < block_pointer /\ b \in Blocks
        BY <1>1, <3>2 DEF Inv, DispatchedOnce
      <4>. QED
        BY <1>1, <2>1, <4>1 DEF Blocks
    <3>3. CASE b = turn
      BY <1>1, <2>1, <2>2, <3>3
    <3>. QED
      BY <3>1, <3>2, <3>3
  <2>12. PlacedInv'
    <3>1. \A b \in Blocks : b < turn + 1 => b < turn \/ b = turn
      BY <1>1 DEF Blocks
    <3>2. turn \in block_vec'[index]
      BY <1>1, <2>1
    <3>3. \A s \in SMs : block_vec[s] \subseteq block_vec'[s]
      BY <1>1, <2>1
    <3>. QED
      BY <1>1, <1>2, <2>1, <2>2, <3>1, <3>2, <3>3 DEF Inv, PlacedInv
  <2>13. SpawnInv' /\ RoundInv'
    BY <1>2, <2>1, <2>2, <2>6 DEF Inv, SpawnInv, RoundInv
  <2>14. ResidencyInv'
    <3>1. IsFiniteSet(block_vec[index])
      BY <1>1, <1>4, BlocksFinite
    <3>2. Cardinality(block_vec'[index]) = Cardinality(block_vec[index]) + 1
      BY <1>1, <2>1, <2>9, <3>1, FS_AddElement
    <3>3. Cardinality(block_vec'[index]) <= m_max_blocks
      BY <1>1, <1>4, <1>5, <3>2
    <3>4. \A s \in SMs : s # index => block_vec'[s] = block_vec[s]
      BY <1>1, <2>1
    <3>. QED
      BY <1>2, <3>3, <3>4 DEF Inv, ResidencyInv
  <2>. QED
    BY <1>2, <2>7, <2>8, <2>10, <2>11, <2>12, <2>13, <2>14 DEF Inv, DispatchedOnce
<1>6. CASE ~(Cardinality(block_vec[index]) < m_max_blocks)
  <2>1. UNCHANGED <<block_vec, placed, block_pointer, index>>
    BY <1>6 DEF Spawn
  <2>2. Cardinality(block_vec[index]) >= m_max_blocks
    BY <1>1, <1>4, <1>6
  <2>3. TypeOK'
    BY <1>1, <1>2, <2>1 DEF Inv, TypeOK
  <2>4. DispatchedOnce' /\ PlacedInv' /\ ResidencyInv'
    BY <1>2, <2>1 DEF Inv, DispatchedOnce, PlacedInv, ResidencyInv
  <2>5. turn' <= grid /\ block_pointer < turn'
    BY <1>1, <1>2 DEF Inv, SpawnInv
  <2>6. SpawnInv' /\ RoundInv'
    BY <1>2, <2>1, <2>2, <2>5 DEF Inv, SpawnInv, RoundInv
  <2>. QED
    BY <2>3, <2>4, <2>6 DEF Inv
<1>. QED
  BY <1>5, <1>6

\* The head of the loop (gpu.cpp:83): the flag is down only after a whole round.
LEMMA StartCycleInv == Inv /\ StartCycle => Inv'
<1>. SUFFICES ASSUME Inv, StartCycle PROVE Inv'
  OBVIOUS
<1>1. /\ UNCHANGED <<info, grid, m_max_blocks, index, block_pointer, block_vec, finished, placed>>
      /\ Blocks' = Blocks /\ active_sms' = active_sms
  BY DEF StartCycle, Blocks, active_sms
<1>2. DispatchedOnce' /\ PlacedInv' /\ ResidencyInv'
  BY <1>1 DEF Inv, DispatchedOnce, PlacedInv, ResidencyInv
<1>3. \A s \in SMs : s < NumSMs /\ ~(s < 0)
  BY DispatchAssumption DEF SMs
<1>4. CASE sm_active
  <2>1. sm_active' = FALSE /\ stage' = "cycle" /\ turn' = 0
    BY <1>4 DEF StartCycle
  <2>2. TypeOK'
    BY <1>1, <2>1 DEF Inv, TypeOK
  <2>3. SpawnInv' /\ RoundInv'
    BY <1>3, <2>1, DispatchAssumption DEF SpawnInv, RoundInv
  <2>. QED
    BY <1>2, <2>2, <2>3 DEF Inv
<1>5. CASE ~sm_active
  <2>1. stage' = "end" /\ sm_active' = sm_active /\ turn' = turn
    BY <1>5 DEF StartCycle
  <2>2. stage = "cycle" /\ turn = NumSMs
    BY <1>5 DEF StartCycle, Inv, SpawnInv
  <2>3. TypeOK'
    BY <1>1, <2>1 DEF Inv, TypeOK
  <2>4. block_pointer = grid /\ \A s \in SMs : block_vec[s] \subseteq finished
    BY <1>3, <1>5, <2>2, DispatchAssumption DEF Inv, RoundInv
  <2>5. SpawnInv' /\ RoundInv'
    BY <1>1, <2>1, <2>4 DEF SpawnInv, RoundInv
  <2>. QED
    BY <1>2, <2>3, <2>5 DEF Inv
<1>. QED
  BY <1>4, <1>5

\* An inactive SM (gpu.cpp:242-246) has nothing left to run.
LEMMA SkipSMInv == Inv /\ SkipSM => Inv'
<1>. SUFFICES ASSUME Inv, SkipSM PROVE Inv'
  OBVIOUS
<1>1. /\ stage = "cycle" /\ stage' = "cycle" /\ turn \in SMs /\ turn' = turn + 1
      /\ UNCHANGED <<info, grid, m_max_blocks, index, block_pointer, block_vec, finished, sm_active, placed>>
      /\ Blocks' = Blocks /\ active_sms' = active_sms
  BY DEF SkipSM, Blocks, active_sms
<1>2. TypeOK'
  BY <1>1 DEF Inv, TypeOK
<1>3. DispatchedOnce' /\ PlacedInv' /\ ResidencyInv'
  BY <1>1 DEF Inv, DispatchedOnce, PlacedInv, ResidencyInv
<1>4. block_vec[turn] \subseteq finished /\ block_pointer = grid
  <2>1. block_vec[turn] \ finished = {} /\ ~(block_pointer < grid)
    BY DEF SkipSM, IsActive
  <2>2. block_pointer \in 0 .. grid /\ grid \in Nat
    BY DEF Inv, TypeOK
  <2>. QED
    BY <2>1, <2>2
<1>5. turn' <= NumSMs /\ \A s \in SMs : s < turn' => s < turn \/ s = turn
  BY <1>1, DispatchAssumption DEF SMs
<1>6. SpawnInv' /\ RoundInv'
  BY <1>1, <1>4, <1>5 DEF Inv, SpawnInv, RoundInv
<1>. QED
  BY <1>2, <1>3, <1>6 DEF Inv

\* sm_cycle (gpu.cpp:262, 272-279): the blocks taken are those from block_pointer
\* on, which no SM has had.
LEMMA CycleSMInv == Inv /\ CycleSM => Inv'
<1>. SUFFICES ASSUME Inv, CycleSM PROVE Inv'
  OBVIOUS
<1>. DEFINE kept == block_vec[turn] \ finished
            upto == Refilled(Room(kept))
            new == Taken(upto)
<1>1. /\ grid \in Nat \ {0} /\ turn \in SMs /\ turn \in Nat /\ m_max_blocks \in Nat
      /\ block_pointer \in 0 .. grid /\ block_vec \in [SMs -> SUBSET Blocks]
      /\ placed \in [Blocks -> Nat] /\ finished \in SUBSET Blocks /\ sm_active \in BOOLEAN
  BY DEF Inv, TypeOK, CycleSM
<1>2. /\ stage = "cycle" /\ stage' = "cycle" /\ turn' = turn + 1
      /\ UNCHANGED <<info, grid, m_max_blocks, index>>
      /\ Blocks' = Blocks /\ active_sms' = active_sms
  BY DEF CycleSM, Blocks, active_sms
<1>3. /\ block_pointer' = upto
      /\ block_vec' = [block_vec EXCEPT ![turn] = kept \cup new]
      /\ placed' = [b \in Blocks |-> IF b \in new THEN placed[b] + 1 ELSE placed[b]]
  BY DEF CycleSM
<1>4. PICK done \in SUBSET ((kept \cup new) \ finished) :
        /\ finished' = finished \cup done
        /\ sm_active' = (sm_active \/ IsActive(kept \cup new, upto, finished'))
  BY DEF CycleSM
<1>5. upto \in 0 .. grid /\ block_pointer <= upto
  <2>1. kept \in SUBSET Blocks
    BY <1>1
  <2>. HIDE DEF kept
  <2>2. Room(kept) \in Int
    BY <1>1, <2>1, RoomIsInt
  <2>. QED
    BY <1>1, <2>2, RefilledRange
<1>6. /\ kept \subseteq block_vec[turn] /\ kept \cap finished = {}
      /\ block_vec[turn] \subseteq kept \cup finished
      /\ new = {b \in Blocks : block_pointer <= b /\ b < upto}
  BY DEF Taken
<1>. HIDE DEF kept, upto, new
<1>7. new \subseteq Blocks /\ kept \subseteq Blocks
  BY <1>1, <1>6
<1>8. TypeOK'
  <2>1. block_vec' \in [SMs -> SUBSET Blocks]
    BY <1>1, <1>3, <1>7
  <2>2. placed' \in [Blocks -> Nat]
    BY <1>1, <1>3
  <2>3. finished' \in SUBSET Blocks
    BY <1>1, <1>4, <1>7
  <2>4. sm_active' \in BOOLEAN
    BY <1>4
  <2>5. turn' \in Nat
    BY <1>1, <1>2
  <2>. QED
    BY <1>2, <1>3, <1>5, <2>1, <2>2, <2>3, <2>4, <2>5 DEF Inv, TypeOK
<1>9. \A b \in Blocks : placed'[b] = IF b < block_pointer' THEN 1 ELSE 0
  <2>. SUFFICES ASSUME NEW b \in Blocks PROVE placed'[b] = IF b < upto THEN 1 ELSE 0
    BY <1>3
  <2>1. b \in Nat
    BY DEF Blocks
  <2>2. placed[b] = IF b < block_pointer THEN 1 ELSE 0
    BY DEF Inv, DispatchedOnce
  <2>3. placed'[b] = IF b \in new THEN placed[b] + 1 ELSE placed[b]
    BY <1>3
  <2>4. b \in new <=> block_pointer <= b /\ b < upto
    BY <1>6
  <2>. QED
    BY <1>1, <1>5, <2>1, <2>2, <2>3, <2>4
<1>10. \A s \in SMs : new \cap block_vec[s] = {}
  <2>. SUFFICES ASSUME NEW s \in SMs, NEW b \in new, b \in block_vec[s] PROVE FALSE
    OBVIOUS
  <2>1. b < block_pointer
    BY DEF Inv, DispatchedOnce
  <2>2. block_pointer <= b /\ b \in Nat
    BY <1>6, <1>7 DEF Blocks
  <2>. QED
    BY <1>1, <2>1, <2>2
<1>11. \A s, r \in SMs : s # r => block_vec'[s] \cap block_vec'[r] = {}
  BY <1>1, <1>3, <1>6, <1>10 DEF Inv, DispatchedOnce
<1>12. \A s \in SMs : \A b \in block_vec'[s] : b < block_pointer'
  <2>. SUFFICES ASSUME NEW s \in SMs, NEW b \in block_vec'[s] PROVE b < upto
    BY <1>3
  <2>1. b \in block_vec[s] \/ b \in new
    BY <1>1, <1>3, <1>6
  <2>2. CASE b \in block_vec[s]
    <3>1. b < block_pointer /\ b \in Blocks
      BY <1>1, <2>2 DEF Inv, DispatchedOnce
    <3>. QED
      BY <1>1, <1>5, <3>1 DEF Blocks
  <2>3. CASE b \in new
    BY <1>6, <2>3
  <2>. QED
    BY <2>1, <2>2, <2>3
<1>13. PlacedInv'
  <2>. SUFFICES ASSUME NEW b \in Blocks, b < upto
                PROVE  b \in finished' \/ \E s \in SMs : b \in block_vec'[s]
    BY <1>2, <1>3 DEF PlacedInv
  <2>1. b \in Nat
    BY DEF Blocks
  <2>2. CASE b < block_pointer
    <3>1. b \in finished \/ \E s \in SMs : b \in block_vec[s]
      BY <2>2 DEF Inv, PlacedInv
    <3>2. ASSUME NEW s \in SMs, b \in block_vec[s]
          PROVE  b \in finished \/ b \in block_vec'[s]
      BY <1>1, <1>3, <1>6, <3>2
    <3>. QED
      BY <1>4, <3>1, <3>2
  <2>3. CASE block_pointer <= b
    <3>1. b \in block_vec'[turn]
      BY <1>1, <1>3, <1>6, <2>3
    <3>. QED
      BY <1>1, <3>1
  <2>. QED
    BY <1>1, <2>1, <2>2, <2>3
<1>14. RoundInv'
  <2>1. turn' <= NumSMs /\ \A s \in SMs : s < turn' => s < turn \/ s = turn
    BY <1>1, <1>2, DispatchAssumption DEF SMs
  <2>2. ASSUME ~sm_active'
        PROVE  /\ \A s \in SMs : s < turn' => block_vec'[s] \subseteq finished'
               /\ block_pointer' = grid
    <3>1. ~sm_active /\ ~IsActive(kept \cup new, upto, finished')
      BY <1>4, <2>2
    <3>2. kept \cup new \subseteq finished' /\ ~(upto < grid)
      BY <3>1 DEF IsActive
    <3>3. block_vec'[turn] \subseteq finished'
      BY <1>1, <1>3, <3>2
    <3>4. \A s \in SMs : s < turn => block_vec[s] \subseteq finished
      BY <1>2, <3>1 DEF Inv, RoundInv
    <3>5. \A s \in SMs : s # turn => block_vec'[s] = block_vec[s]
      BY <1>1, <1>3
    <3>6. finished \subseteq finished'
      BY <1>4
    <3>7. \A s \in SMs : s < turn' => block_vec'[s] \subseteq finished'
      BY <2>1, <3>3, <3>4, <3>5, <3>6
    <3>8. block_pointer' = grid
      BY <1>1, <1>3, <1>5, <3>2
    <3>. QED
      BY <3>7, <3>8
  <2>. QED
    BY <1>2, <2>1, <2>2 DEF RoundInv
<1>15. SpawnInv'
  BY <1>2 DEF SpawnInv
<1>16. DispatchedOnce'
  BY <1>2, <1>9, <1>11, <1>12 DEF DispatchedOnce
<1>17. ResidencyInv'
  <2>1. Cardinality(block_vec'[turn]) <= m_max_blocks
    <3>1. IsFiniteSet(kept) /\ IsFiniteSet(new)
      BY <1>1, <1>7, BlocksFinite
    <3>2. Cardinality(kept) \in Nat /\ Cardinality(kept) <= Cardinality(block_vec[turn])
          /\ Cardinality(block_vec[turn]) \in Nat
      <4>1. IsFiniteSet(block_vec[turn])
        BY <1>1, BlocksFinite
      <4>. QED
        BY <1>6, <3>1, <4>1, FS_Subset, FS_CardinalityType
    <3>3. Cardinality(kept) <= m_max_blocks
      BY <1>1, <3>2 DEF Inv, ResidencyInv
    <3>4. new = block_pointer .. (upto - 1)
      BY <1>1, <1>5, <1>6 DEF Blocks
    <3>5. Cardinality(new) = upto - block_pointer
      BY <1>1, <1>5, <3>4, FS_Interval
    <3>6. upto - block_pointer <= m_max_blocks - Cardinality(kept)
      BY <1>1, <1>5, <3>2, <3>3 DEF Refilled, Room, upto
    <3>7. Cardinality(kept \cup new) <= Cardinality(kept) + Cardinality(new)
      <4>1. IsFiniteSet(kept \cap new)
        BY <3>1, FS_Subset
      <4>2. Cardinality(kept \cap new) \in Nat
        BY <4>1, FS_CardinalityType
      <4>3. Cardinality(new) \in Nat
        BY <3>1, FS_CardinalityType
      <4>4. Cardinality(kept \cup new)
              = Cardinality(kept) + Cardinality(new) - Cardinality(kept \cap new)
        BY <3>1, FS_Union
      <4>. QED
        BY <3>2, <4>2, <4>3, <4>4
    <3>8. block_vec'[turn] = kept \cup new
      BY <1>1, <1>3
    <3>9. Cardinality(kept \cup new) \in Nat
      BY <3>1, FS_Union, FS_CardinalityType
    <3>. QED
      BY <1>1, <1>5, <3>2, <3>3, <3>5, <3>6, <3>7, <3>8, <3>9
  <2>2. \A s \in SMs : s # turn => block_vec'[s] = block_vec[s]
    BY <1>1, <1>3
  <2>. QED
    BY <1>2, <2>1, <2>2 DEF Inv, ResidencyInv
<1>. QED
  BY <1>8, <1>13, <1>14, <1>15, <1>16, <1>17 DEF Inv

\* Inv is inductive.
LEMMA NextInv == Inv /\ [Next]_vars => Inv'
<1>. SUFFICES ASSUME Inv, [Next]_vars PROVE Inv'
  OBVIOUS
<1>1. CASE NoResidency
  BY <1>1, NoResidencyInv
<1>2. CASE Spawn
  BY <1>2, SpawnStepInv
<1>3. CASE StartCycle
  BY <1>3, StartCycleInv
<1>4. CASE SkipSM
  BY <1>4, SkipSMInv
<1>5. CASE CycleSM
  BY <1>5, CycleSMInv
<1>6. CASE UNCHANGED vars
  BY <1>6 DEF vars, Inv, TypeOK, DispatchedOnce, SpawnInv, PlacedInv, RoundInv, ResidencyInv,
       Blocks, active_sms
<1>. QED
  BY <1>1, <1>2, <1>3, <1>4, <1>5, <1>6 DEF Next, Step, Ended
-----------------------------------------------------------------------------
\* Every variable keeps its type: block_pointer never passes the end of the grid,
\* and first_spawn_block never indexes past the SMs.
THEOREM TypeCorrect == Spec => []TypeOK
<1>1. Inv => TypeOK
  BY DEF Inv
<1>. QED
  BY <1>1, InitInv, NextInv, PTL DEF Spec

\* Every block is made resident exactly once, on one SM.
THEOREM EveryBlockOnce == Spec => []DispatchedOnce
<1>1. Inv => DispatchedOnce
  BY DEF Inv
<1>. QED
  BY <1>1, InitInv, NextInv, PTL DEF Spec

\* For any configuration and any kernel, the blocks an SM holds fit on it.
THEOREM BlocksFit == Spec => []ResourcesFit
<1>1. Inv => ResourcesFit
  <2>. SUFFICES ASSUME Inv, NEW s \in SMs PROVE Fits(info, Cardinality(block_vec[s]))
    BY DEF ResourcesFit
  <2>1. info \in KernelInfo /\ grid \in Nat \ {0} /\ block_vec[s] \in SUBSET Blocks
    BY DispatchAssumption DEF Inv, TypeOK
  <2>2. Cardinality(block_vec[s]) \in Nat
    BY <2>1, BlocksFinite, FS_CardinalityType
  <2>3. Cardinality(block_vec[s]) <= max_block_per_sm(info)
    BY DEF Inv, ResidencyInv
  <2>. QED
    BY <2>1, <2>2, <2>3, ResidencyFits
<1>. QED
  BY <1>1, InitInv, NextInv, PTL DEF Spec

\* gpu_cycle returns only when the whole grid has been dispatched and finished.
THEOREM KernelComplete == Spec => []EndsWhenDone
<1>1. Inv => EndsWhenDone
  <2>. SUFFICES ASSUME Inv, stage = "end" PROVE Blocks \subseteq finished /\ block_pointer = grid
    BY DEF EndsWhenDone
  <2>1. block_pointer = grid /\ \A s \in SMs : block_vec[s] \subseteq finished
    BY DEF Inv, RoundInv
  <2>2. \A b \in Blocks : b < grid
    BY DEF Blocks, Inv, TypeOK
  <2>3. Blocks \subseteq finished
    BY <2>1, <2>2 DEF Inv, PlacedInv
  <2>. QED
    BY <2>1, <2>3
<1>. QED
  BY <1>1, InitInv, NextInv, PTL DEF Spec
=============================================================================
