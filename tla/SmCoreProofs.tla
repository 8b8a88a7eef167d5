---------------------------- MODULE SmCoreProofs ----------------------------
(***************************************************************************)
(* Proofs about one SM, for any kernel, any traces that the tracer writes,  *)
(* any number of subcores and any behaviour of the memory system.           *)
(***************************************************************************)
EXTENDS SmCore, FiniteSetTheorems, WellFoundedInduction, TLAPS

ProgInv == trace \in [Warps -> Traces] /\ prog = [w \in Warps |-> m_insts(trace[w])]

\* A request on its way belongs to an instruction that was issued.
FlightInv ==
  /\ IsFiniteSet(inflight)
  /\ \A r \in inflight : r[2] \in 1 .. warp_point[r[1]]

\* A unit that is sending is not free, sends sectors of an issued load or store
\* and is the only one to send them; what it has still to send is not on its way.
UnitInv ==
  \A s \in Subs : unit[s] # Idle =>
    LET w == unit[s][1] IN
    LET n == unit[s][2] IN
      /\ n \in 1 .. warp_point[w]
      /\ prog[w][n].op \in {"load", "store"}
      /\ unit[s][3] \in 1 .. Len(prog[w][n].sectors)
      /\ ready[s].lds = INT_MAX
      /\ \A r \in inflight : r[1] = w /\ r[2] = n => r[3] < unit[s][3]
      /\ \A c \in Subs : unit[c] # Idle /\ unit[c][1] = w /\ unit[c][2] = n => c = s

\* Only loads and atomics wait for an answer.
SlowInv ==
  \A w \in Warps : \A n \in 1 .. warp_point[w] :
    completions[w][n] = INT_MAX => prog[w][n].op \in {"load", "atom"}

TimeInv == cycles <= MaxCycles

RoomInv == Cardinality(block_vec) <= MaxBlocks

Inv == /\ TypeOK /\ ProgInv /\ TimeInv /\ RoomInv
       /\ FlightInv /\ UnitInv /\ SlowInv /\ Accounting /\ NoOrphanReply

\* Of two issued instructions that write the same register the first is marked
\* complete.
OrderInv ==
  \A w \in Warps : \A m, n \in 1 .. warp_point[w] :
    m < n /\ prog[w][m].dst \cap prog[w][n].dst # {} => completions[w][m] <= cycles

\* The sectors that load/store units have sent.
Sent == {x \in Warps \X Nat \X Nat :
           /\ x[2] \in 1 .. warp_point[x[1]]
           /\ prog[x[1]][x[2]].op \in {"load", "store"}
           /\ x[3] \in 1 .. Len(prog[x[1]][x[2]].sectors)
           /\ \A s \in Subs : unit[s] # Idle /\ unit[s][1] = x[1] /\ unit[s][2] = x[2] => x[3] < unit[s][3]}

SentInv == IsFiniteSet(Sent) /\ request_nums = Cardinality(Sent)

\* As long as the cycle has issued nothing, no warp that was looked at can issue.
ScheduleInv ==
  stage = "schedule" /\ inst_executed = "none" =>
    /\ free_subs = FreeSubs
    /\ \A w \in Waiting : w[1] < turn => ~check_dependency(w) \/ NoUnit(w)

-----------------------------------------------------------------------------
(* Numbers and counting.                                                    *)

LEMMA LeastNumber ==
  ASSUME NEW S \in SUBSET Nat, S # {}
  PROVE  /\ Min(S) \in S
         /\ \A y \in S : Min(S) <= y
<1>1. PICK x \in S : \A y \in S : ~(<<y, x>> \in OpToRel(<, Nat))
  BY NatLessThanWellFounded, WFMin
<1>2. \A y \in S : x <= y
  <2>1. \A y \in S : ~(y < x)
    BY <1>1 DEF OpToRel
  <2>. QED
    BY <2>1
<1>. QED
  BY <1>2 DEF Min

LEMMA GreatestNumber ==
  ASSUME NEW n \in Nat, NEW S \in SUBSET (0 .. n), S # {}
  PROVE  /\ Max(S) \in S
         /\ \A y \in S : Max(S) >= y
<1>. DEFINE D == {n - y : y \in S}
<1>1. D \in SUBSET Nat /\ D # {}
  <2>1. \A y \in S : n - y \in Nat
    OBVIOUS
  <2>. QED
    BY <2>1
<1>. HIDE DEF D
<1>2. Min(D) \in D /\ \A d \in D : Min(D) <= d
  BY <1>1, LeastNumber
<1>3. PICK x \in S : Min(D) = n - x
  BY <1>2 DEF D
<1>4. \A y \in S : x >= y
  <2>1. \A y \in S : n - x <= n - y
    BY <1>2, <1>3 DEF D
  <2>. QED
    BY <2>1
<1>. QED
  BY <1>4 DEF Max

\* How many members of S are not greater than k.
Rank(S, k) == Cardinality({j \in S : j <= k})

\* Counting the members of a set of numbers in their order numbers them from 1
\* to the size of the set.
LEMMA RankCounts ==
  ASSUME NEW n \in Nat, NEW S \in SUBSET (1 .. n)
  PROVE  /\ IsFiniteSet(S) /\ Cardinality(S) \in Nat
         /\ \A k \in S : Rank(S, k) \in 1 .. Cardinality(S)
         /\ \A k, l \in S : k < l => Rank(S, k) < Rank(S, l)
         /\ \A i \in 1 .. Cardinality(S) : \E k \in S : Rank(S, k) = i
<1>. DEFINE Upto(k) == {j \in S : j <= k}
            N == Cardinality(S)
<1>1. IsFiniteSet(S) /\ N \in Nat
  <2>1. IsFiniteSet(1 .. n)
    BY FS_Interval
  <2>. QED
    BY <2>1, FS_Subset, FS_CardinalityType
<1>2. \A k \in S : IsFiniteSet(Upto(k)) /\ Cardinality(Upto(k)) \in Nat /\ Cardinality(Upto(k)) <= N
  <2>. TAKE k \in S
  <2>1. Upto(k) \in SUBSET S
    OBVIOUS
  <2>. HIDE DEF Upto
  <2>. QED
    BY <1>1, <2>1, FS_Subset, FS_CardinalityType
<1>3. \A k \in S : Cardinality(Upto(k)) # 0
  <2>. TAKE k \in S
  <2>1. k \in Upto(k)
    OBVIOUS
  <2>. HIDE DEF Upto
  <2>. QED
    BY <1>2, <2>1, FS_EmptySet
<1>4. \A k, l \in S : k < l => Cardinality(Upto(k)) < Cardinality(Upto(l))
  <2>. SUFFICES ASSUME NEW k \in S, NEW l \in S, k < l
                PROVE  Cardinality(Upto(k)) < Cardinality(Upto(l))
    OBVIOUS
  <2>0. \A j \in S : j <= k => j <= l
    OBVIOUS
  <2>1. Upto(k) \in SUBSET Upto(l) /\ l \in Upto(l) /\ l \notin Upto(k)
    <3>1. Upto(k) \in SUBSET Upto(l)
      BY <2>0
    <3>2. l <= l /\ ~(l <= k)
      OBVIOUS
    <3>. QED
      BY <3>1, <3>2
  <2>2. Upto(k) # Upto(l)
    BY <2>1
  <2>. HIDE DEF Upto
  <2>3. IsFiniteSet(Upto(l)) /\ Cardinality(Upto(l)) \in Nat /\ Cardinality(Upto(k)) \in Nat
    BY <1>2
  <2>4. Cardinality(Upto(k)) <= Cardinality(Upto(l)) /\ Cardinality(Upto(k)) # Cardinality(Upto(l))
    BY <2>1, <2>2, <2>3, FS_Subset
  <2>. QED
    BY <2>3, <2>4
<1>5. \A i \in 1 .. N : \E k \in S : Cardinality(Upto(k)) = i
  <2>. DEFINE f == [k \in S |-> Cardinality(Upto(k))]
  <2>. HIDE DEF Upto
  <2>1. f \in [S -> 1 .. N]
    <3>1. \A k \in S : Cardinality(Upto(k)) \in 1 .. N
      BY <1>1, <1>2, <1>3
    <3>. QED
      BY <3>1
  <2>2. f \in Injection(S, 1 .. N)
    <3>1. \A k, l \in S : f[k] = f[l] => k = l
      <4>1. \A k, l \in S : k < l => f[k] < f[l]
        BY <1>4
      <4>2. \A k \in S : k \in Nat /\ f[k] \in Nat
        BY <2>1
      <4>. HIDE DEF f
      <4>. QED
        BY <4>1, <4>2
    <3>. QED
      BY <2>1, <3>1 DEF Injection, IsInjective
  <2>3. IsFiniteSet(1 .. N) /\ Cardinality(1 .. N) = N
    BY <1>1, FS_Interval
  <2>4. f \in Surjection(S, 1 .. N)
    BY <2>2, <2>3, FS_Injection
  <2>. QED
    BY <2>4 DEF Surjection
<1>. QED
  BY <1>1, <1>2, <1>3, <1>4, <1>5 DEF Rank
-----------------------------------------------------------------------------
(* The two trace files.                                                     *)

\* Memory instructions are numbered 1 to Len(t.mem) in their order.
LEMMA MemRankCounts ==
  ASSUME NEW t \in Traces
  PROVE  /\ Len(t.sass) \in Nat /\ DOMAIN t.sass = 1 .. Len(t.sass)
         /\ Len(t.mem) \in Nat /\ DOMAIN t.mem = 1 .. Len(t.mem)
         /\ MemInsts(t) \in SUBSET (1 .. Len(t.sass))
         /\ \A k \in MemInsts(t) : MemRank(t, k) \in 1 .. Len(t.mem)
         /\ \A k, l \in MemInsts(t) : k < l => MemRank(t, k) < MemRank(t, l)
         /\ \A i \in 1 .. Len(t.mem) : \E k \in MemInsts(t) : MemRank(t, k) = i
<1>1. /\ Len(t.sass) \in Nat /\ DOMAIN t.sass = 1 .. Len(t.sass)
      /\ Len(t.mem) \in Nat /\ DOMAIN t.mem = 1 .. Len(t.mem)
      /\ Len(t.mem) = Cardinality(MemInsts(t))
  BY TraceAssumption
<1>2. MemInsts(t) \in SUBSET (1 .. Len(t.sass))
  BY <1>1 DEF MemInsts
<1>3. \A k : MemRank(t, k) = Rank(MemInsts(t), k)
  BY DEF MemRank, Rank
<1>4. /\ \A k \in MemInsts(t) : Rank(MemInsts(t), k) \in 1 .. Cardinality(MemInsts(t))
      /\ \A k, l \in MemInsts(t) : k < l => Rank(MemInsts(t), k) < Rank(MemInsts(t), l)
      /\ \A i \in 1 .. Cardinality(MemInsts(t)) : \E k \in MemInsts(t) : Rank(MemInsts(t), k) = i
  BY <1>1, <1>2, RankCounts
<1>. QED
  BY <1>1, <1>2, <1>3, <1>4

\* Both readers count the executions of a pc alike.
LEMMA SameIndex ==
  ASSUME NEW t \in Traces, NEW n \in MemInsts(t)
  PROVE  pc_index(t.mem, MemRank(t, n)) = pc_index(t.sass, n)
<1>. DEFINE r(k) == MemRank(t, k)
            A == {m \in 1 .. (n - 1) : t.sass[m].pc = t.sass[n].pc}
            B == {k \in 1 .. (r(n) - 1) : t.mem[k].pc = t.mem[r(n)].pc}
            f == [m \in A |-> r(m)]
<1>1. /\ MemInsts(t) \in SUBSET (1 .. Len(t.sass)) /\ Len(t.sass) \in Nat /\ Len(t.mem) \in Nat
      /\ DOMAIN t.sass = 1 .. Len(t.sass)
      /\ \A k \in MemInsts(t) : r(k) \in 1 .. Len(t.mem)
      /\ \A k, l \in MemInsts(t) : k < l => r(k) < r(l)
      /\ \A i \in 1 .. Len(t.mem) : \E k \in MemInsts(t) : r(k) = i
  BY MemRankCounts
<1>2. \A k \in MemInsts(t) : t.mem[r(k)].pc = t.sass[k].pc
  BY TraceAssumption
<1>. HIDE DEF r
<1>3. A \in SUBSET MemInsts(t)
  <2>1. \A m \in A : m \in DOMAIN t.sass
    BY <1>1
  <2>2. \A m \in A : t.sass[m].op = t.sass[n].op
    <3>1. n \in DOMAIN t.sass
      BY <1>1
    <3>. QED
      BY <2>1, <3>1, TraceAssumption
  <2>. QED
    BY <2>1, <2>2 DEF MemInsts
<1>4. \A m \in A : r(m) \in B
  <2>. TAKE m \in A
  <2>1. m \in MemInsts(t) /\ m < n /\ t.sass[m].pc = t.sass[n].pc
    <3>1. m \in MemInsts(t) /\ t.sass[m].pc = t.sass[n].pc /\ m \in 1 .. (n - 1)
      BY <1>3
    <3>2. n \in Nat
      BY <1>1
    <3>. QED
      BY <3>1, <3>2
  <2>2. r(m) < r(n) /\ r(m) \in 1 .. Len(t.mem) /\ r(n) \in 1 .. Len(t.mem)
    <3>1. \A k \in MemInsts(t) : r(k) \in 1 .. Len(t.mem)
      BY <1>1
    <3>2. \A k, l \in MemInsts(t) : k < l => r(k) < r(l)
      BY <1>1
    <3>. QED
      BY <2>1, <3>1, <3>2
  <2>3. t.mem[r(m)].pc = t.mem[r(n)].pc
    BY <1>2, <2>1
  <2>4. r(m) \in 1 .. (r(n) - 1)
    BY <2>2
  <2>. QED
    BY <2>3, <2>4
<1>5. \A k \in B : \E m \in A : r(m) = k
  <2>. TAKE k \in B
  <2>1. k \in 1 .. Len(t.mem) /\ k < r(n)
    BY <1>1
  <2>2. PICK m \in MemInsts(t) : r(m) = k
    BY <1>1, <2>1
  <2>3. m < n
    <3>1. m \in Nat /\ n \in Nat /\ r(m) \in Nat /\ r(n) \in Nat
      BY <1>1
    <3>. QED
      BY <1>1, <2>1, <2>2, <3>1
  <2>4. t.sass[m].pc = t.sass[n].pc
    BY <1>2, <2>2
  <2>5. m \in 1 .. (n - 1)
    BY <1>1, <2>3
  <2>. QED
    BY <2>2, <2>4, <2>5
<1>6. \A k, l \in A : r(k) = r(l) => k = l
  <2>. SUFFICES ASSUME NEW k \in A, NEW l \in A, r(k) = r(l)
                PROVE  k = l
    OBVIOUS
  <2>1. k \in MemInsts(t) /\ l \in MemInsts(t)
    BY <1>3
  <2>2. k \in Nat /\ l \in Nat /\ r(k) \in Nat /\ r(l) \in Nat
    BY <1>1, <2>1
  <2>. QED
    BY <1>1, <2>1, <2>2
<1>7. IsFiniteSet(A)
  <2>1. A \in SUBSET (1 .. n)
    BY <1>1
  <2>2. IsFiniteSet(1 .. n)
    <3>1. n \in Int
      BY <1>1
    <3>. QED
      BY <3>1, FS_Interval
  <2>. HIDE DEF A
  <2>. QED
    BY <2>1, <2>2, FS_Subset
<1>8. f \in Bijection(A, B)
  <2>1. f \in [A -> B]
    BY <1>4
  <2>2. f \in Injection(A, B)
    BY <1>6, <2>1 DEF Injection, IsInjective
  <2>3. f \in Surjection(A, B)
    BY <1>5, <2>1 DEF Surjection
  <2>. QED
    BY <2>2, <2>3 DEF Bijection
<1>9. Cardinality(B) = Cardinality(A)
  <2>. HIDE DEF A, B, f
  <2>. QED
    BY <1>7, <1>8, FS_Bijection DEF ExistsBijection
<1>. QED
  BY <1>9 DEF pc_index, r

\* Every execution of a pc has a greater index than the ones before.
LEMMA IndexGrows ==
  ASSUME NEW t \in Traces, NEW m \in DOMAIN t.sass, NEW n \in DOMAIN t.sass,
         m < n, t.sass[m].pc = t.sass[n].pc
  PROVE  pc_index(t.sass, m) # pc_index(t.sass, n)
<1>. DEFINE A(k) == {j \in 1 .. (k - 1) : t.sass[j].pc = t.sass[k].pc}
<1>1. m \in Nat /\ n \in Nat /\ m \in 1 .. (n - 1)
  BY MemRankCounts
<1>2. m \in A(n) /\ m \notin A(m) /\ A(m) \in SUBSET A(n)
  BY <1>1
<1>3. IsFiniteSet(A(n))
  <2>1. A(n) \in SUBSET (1 .. n) /\ n \in Int
    BY <1>1
  <2>. HIDE DEF A
  <2>. QED
    BY <2>1, FS_Interval, FS_Subset
<1>4. Cardinality(A(m)) # Cardinality(A(n))
  <2>. HIDE DEF A
  <2>1. A(m) # A(n)
    BY <1>2
  <2>. QED
    BY <1>2, <1>3, <2>1, FS_Subset
<1>. QED
  BY <1>4 DEF pc_index

\* Every memory instruction, whichever execution of its pc in a loop and whether
\* or not earlier ones were predicated off, takes its own line of the .mem file.
THEOREM JoinIsExact ==
  ASSUME NEW t \in Traces, NEW n \in MemInsts(t)
  PROVE  get_mem_inst(t.mem, t.sass[n].pc, pc_index(t.sass, n)) = MemRank(t, n)
<1>. DEFINE i == pc_index(t.sass, n)
            found == {k \in DOMAIN t.mem : t.mem[k].pc = t.sass[n].pc /\ pc_index(t.mem, k) = i}
<1>1. MemRank(t, n) \in found
  <2>1. MemRank(t, n) \in DOMAIN t.mem
    BY MemRankCounts
  <2>2. t.mem[MemRank(t, n)].pc = t.sass[n].pc
    BY TraceAssumption
  <2>3. pc_index(t.mem, MemRank(t, n)) = i
    BY SameIndex
  <2>. QED
    BY <2>1, <2>2, <2>3
<1>2. ASSUME NEW k \in found
      PROVE  k = MemRank(t, n)
  <2>1. PICK m \in MemInsts(t) : MemRank(t, m) = k
    BY MemRankCounts
  <2>2. t.mem[k].pc = t.sass[m].pc
    BY <2>1, TraceAssumption
  <2>3. pc_index(t.sass, m) = i /\ t.sass[m].pc = t.sass[n].pc
    BY <2>1, <2>2, SameIndex
  <2>4. m \in DOMAIN t.sass /\ n \in DOMAIN t.sass /\ m \in Nat /\ n \in Nat
    BY MemRankCounts
  <2>5. ~(m < n) /\ ~(n < m)
    BY <2>3, <2>4, IndexGrows
  <2>. QED
    BY <2>1, <2>4, <2>5
<1>3. found \in SUBSET Nat /\ found # {}
  BY <1>1, MemRankCounts
<1>4. Min(found) \in found
  <2>. HIDE DEF found
  <2>. QED
    BY <1>3, LeastNumber
<1>5. Min(found) = MemRank(t, n)
  BY <1>2, <1>4
<1>. QED
  BY <1>3, <1>5 DEF get_mem_inst
-----------------------------------------------------------------------------
(* Coalescing.                                                              *)

LEMMA Division ==
  ASSUME NEW a \in Nat, NEW b \in Nat \ {0}
  PROVE  a = b * (a \div b) + (a % b) /\ a % b \in 0 .. (b - 1) /\ a \div b \in Nat
  OBVIOUS

LEMMA DivisionUnique ==
  ASSUME NEW b \in Nat \ {0}, NEW q \in Nat, NEW p \in Nat,
         NEW r \in 0 .. (b - 1), NEW s \in 0 .. (b - 1), b * q + r = b * p + s
  PROVE  q = p /\ r = s
  OBVIOUS

\* The number of a sector is made of the number of its line and its place in it.
LEMMA SectorNumber ==
  ASSUME NEW a \in Nat, NEW k \in {1, 2, 4}, LineSize = k * SECTOR_SIZE
  PROVE  /\ (a % LineSize) \div SECTOR_SIZE \in 0 .. (k - 1)
         /\ a \div LineSize \in Nat
         /\ a - (a % LineSize) = LineSize * (a \div LineSize)
         /\ a \div SECTOR_SIZE = k * (a \div LineSize) + ((a % LineSize) \div SECTOR_SIZE)
<1>. DEFINE S == SECTOR_SIZE
            L == LineSize
            Q == a \div L
            R == a % L
            P == R \div S
            T == R % S
<1>1. S \in Nat \ {0} /\ L \in Nat \ {0} /\ L = k * S
  BY DecodeAssumption
<1>. HIDE DEF S, L
<1>2. a = L * Q + R /\ R \in 0 .. (L - 1) /\ Q \in Nat
  BY <1>1, Division
<1>3. R \in Nat
  BY <1>1, <1>2
<1>. HIDE DEF Q, R
<1>4. R = S * P + T /\ T \in 0 .. (S - 1) /\ P \in Nat
  BY <1>1, <1>3, Division
<1>. HIDE DEF P, T
<1>5. P \in 0 .. (k - 1)
  <2>1. S * P + T < k * S
    BY <1>1, <1>2, <1>4
  <2>. QED
    BY <1>1, <1>4, <2>1
<1>6. a \div S \in Nat /\ a % S \in 0 .. (S - 1) /\ a = S * (a \div S) + (a % S)
  BY <1>1, Division
<1>7. k * Q + P \in Nat /\ a = S * (k * Q + P) + T
  <2>1. k * Q + P \in Nat
    BY <1>2, <1>4
  <2>2. L * Q = S * (k * Q)
    BY <1>1, <1>2
  <2>3. S * (k * Q + P) = S * (k * Q) + S * P
    BY <1>1, <1>2, <1>4
  <2>4. S * P \in Nat /\ S * (k * Q) \in Nat /\ T \in Nat
    BY <1>1, <1>2, <1>4
  <2>. QED
    BY <1>2, <1>4, <2>1, <2>2, <2>3, <2>4
<1>8. a \div S = k * Q + P
  <2>. DEFINE X == a \div S
              Y == a % S
              Z == k * Q + P
  <2>1. X \in Nat /\ Y \in 0 .. (S - 1) /\ Z \in Nat /\ S * X + Y = S * Z + T
    BY <1>6, <1>7
  <2>. HIDE DEF X, Y, Z
  <2>2. X = Z
    BY <1>1, <1>4, <2>1, DivisionUnique
  <2>. QED
    BY <2>2 DEF X, Z
<1>9. a - R = L * Q
  BY <1>1, <1>2, <1>3
<1>. QED
  BY <1>2, <1>5, <1>8, <1>9 DEF S, L, Q, R, P

\* A sector is a line's address and one of at most four places in it, and two
\* addresses have the same sector if dividing them by its size says so.
LEMMA SectorFacts ==
  /\ \A a \in Nat : SectorOf(a) \in Nat \X (0 .. 3)
  /\ \A a, b \in Nat : SectorOf(a) = SectorOf(b) <=> a \div SECTOR_SIZE = b \div SECTOR_SIZE
<1>1. PICK k \in {1, 2, 4} : LineSize = k * SECTOR_SIZE
  BY DecodeAssumption
<1>. DEFINE Q(a) == a \div LineSize
            P(a) == (a % LineSize) \div SECTOR_SIZE
<1>2. \A a \in Nat : /\ P(a) \in 0 .. (k - 1)
                     /\ Q(a) \in Nat
                     /\ SectorOf(a) = <<LineSize * Q(a), P(a)>>
                     /\ a \div SECTOR_SIZE = k * Q(a) + P(a)
  BY <1>1, SectorNumber DEF SectorOf
<1>3. LineSize \in Nat \ {0}
  BY DecodeAssumption
<1>. HIDE DEF Q, P
<1>4. \A a \in Nat : SectorOf(a) \in Nat \X (0 .. 3)
  <2>. TAKE a \in Nat
  <2>1. LineSize * Q(a) \in Nat /\ P(a) \in 0 .. 3
    <3>1. Q(a) \in Nat /\ P(a) \in 0 .. (k - 1)
      BY <1>2
    <3>2. P(a) \in 0 .. 3
      BY <3>1
    <3>. QED
      BY <1>3, <3>1, <3>2
  <2>. QED
    BY <1>2, <2>1
<1>5. ASSUME NEW a \in Nat, NEW b \in Nat
      PROVE  SectorOf(a) = SectorOf(b) <=> a \div SECTOR_SIZE = b \div SECTOR_SIZE
  <2>0. Q(a) \in Nat /\ Q(b) \in Nat /\ P(a) \in 0 .. (k - 1) /\ P(b) \in 0 .. (k - 1)
    BY <1>2
  <2>1. LineSize * Q(a) = LineSize * Q(b) => Q(a) = Q(b)
    BY <1>3, <2>0
  <2>2. SectorOf(a) = SectorOf(b) <=> Q(a) = Q(b) /\ P(a) = P(b)
    <3>1. SectorOf(a) = <<LineSize * Q(a), P(a)>> /\ SectorOf(b) = <<LineSize * Q(b), P(b)>>
      BY <1>2
    <3>2. <<LineSize * Q(a), P(a)>> = <<LineSize * Q(b), P(b)>>
            <=> LineSize * Q(a) = LineSize * Q(b) /\ P(a) = P(b)
      OBVIOUS
    <3>3. Q(a) = Q(b) => LineSize * Q(a) = LineSize * Q(b)
      OBVIOUS
    <3>. QED
      BY <2>1, <3>1, <3>2, <3>3, Zenon
  <2>3. k * Q(a) + P(a) = k * Q(b) + P(b) => Q(a) = Q(b) /\ P(a) = P(b)
    <3>1. k \in Nat \ {0}
      OBVIOUS
    <3>. QED
      BY <2>0, <3>1, DivisionUnique
  <2>. QED
    BY <1>2, <2>2, <2>3
<1>. QED
  BY <1>4, <1>5

\* Coalescing keeps every sector that a thread touches and keeps it once.
THEOREM CoalescingIsExact ==
  ASSUME NEW addrs \in Seq(Nat)
  PROVE  LET c == m_coalesced_address(addrs) IN
         /\ c \in Seq(Nat \X (0 .. 3))
         /\ \A i \in DOMAIN c : \E k \in DOMAIN addrs : c[i] = SectorOf(addrs[k])
         /\ \A k \in DOMAIN addrs : \E i \in DOMAIN c : c[i] = SectorOf(addrs[k])
         /\ \A i, j \in DOMAIN c : c[i] = c[j] => i = j
<1>. DEFINE F == FirstTouch(addrs)
            N == Cardinality(F)
            c == m_coalesced_address(addrs)
            nth(i) == CHOOSE k \in F : Cardinality({j \in F : j <= k}) = i
<1>1. Len(addrs) \in Nat /\ DOMAIN addrs = 1 .. Len(addrs) /\ \A k \in DOMAIN addrs : addrs[k] \in Nat
  OBVIOUS
<1>2. F \in SUBSET (1 .. Len(addrs))
  BY <1>1 DEF FirstTouch
<1>3. c = [i \in 1 .. N |-> SectorOf(addrs[nth(i)])]
  BY DEF m_coalesced_address
<1>4. N \in Nat /\ (\A k \in F : Rank(F, k) \in 1 .. N) /\ (\A k, l \in F : k < l => Rank(F, k) < Rank(F, l))
                /\ \A i \in 1 .. N : \E k \in F : Rank(F, k) = i
  <2>. HIDE DEF F
  <2>. QED
    BY <1>1, <1>2, RankCounts
<1>5. \A i \in 1 .. N : nth(i) \in F /\ Rank(F, nth(i)) = i
  <2>. TAKE i \in 1 .. N
  <2>1. \E k \in F : Cardinality({j \in F : j <= k}) = i
    BY <1>4 DEF Rank
  <2>2. nth(i) \in F /\ Cardinality({j \in F : j <= nth(i)}) = i
    <3>. HIDE DEF F
    <3>. QED
      BY <2>1, Zenon
  <2>. QED
    BY <2>2 DEF Rank
<1>. HIDE DEF nth, N
<1>6. DOMAIN c = 1 .. N /\ \A i \in 1 .. N : c[i] = SectorOf(addrs[nth(i)])
  BY <1>3
<1>7. \A i \in 1 .. N : nth(i) \in 1 .. Len(addrs) /\ c[i] \in Nat \X (0 .. 3)
  <2>. TAKE i \in 1 .. N
  <2>1. nth(i) \in 1 .. Len(addrs)
    BY <1>2, <1>5
  <2>. HIDE DEF F, c
  <2>. QED
    BY <1>1, <1>6, <2>1, SectorFacts
<1>8. c \in Seq(Nat \X (0 .. 3))
  <2>1. c \in [1 .. N -> Nat \X (0 .. 3)]
    BY <1>3, <1>6, <1>7
  <2>. HIDE DEF c
  <2>. QED
    BY <1>4, <2>1
<1>9. \A k \in DOMAIN addrs : \E i \in DOMAIN c : c[i] = SectorOf(addrs[k])
  <2>. TAKE k \in DOMAIN addrs
  <2>. DEFINE Same == {j \in DOMAIN addrs : SectorOf(addrs[j]) = SectorOf(addrs[k])}
              m == Min(Same)
  <2>1. Same \in SUBSET Nat /\ Same # {}
    BY <1>1
  <2>2. m \in Same /\ \A j \in Same : m <= j
    <3>. HIDE DEF Same
    <3>. QED
      BY <2>1, LeastNumber
  <2>. HIDE DEF m
  <2>3. m \in F
    <3>1. m \in DOMAIN addrs /\ m \in 1 .. Len(addrs) /\ SectorOf(addrs[m]) = SectorOf(addrs[k])
      BY <1>1, <2>2
    <3>2. ASSUME NEW j \in 1 .. (m - 1)
          PROVE  SectorOf(addrs[j]) # SectorOf(addrs[m])
      <4>1. j \in DOMAIN addrs /\ ~(m <= j)
        BY <1>1, <3>1
      <4>. QED
        BY <2>2, <3>1, <4>1
    <3>. QED
      BY <3>1, <3>2 DEF FirstTouch
  <2>4. Rank(F, m) \in 1 .. N
    BY <1>4, <2>3
  <2>5. nth(Rank(F, m)) = m
    <3>. DEFINE p == nth(Rank(F, m))
    <3>1. p \in F /\ Rank(F, p) = Rank(F, m)
      BY <1>5, <2>4
    <3>2. p \in Nat /\ m \in Nat /\ Rank(F, m) \in Nat
      BY <1>2, <2>3, <2>4, <3>1
    <3>. HIDE DEF p, F
    <3>3. ~(p < m) /\ ~(m < p)
      BY <1>4, <2>3, <3>1, <3>2
    <3>. QED
      BY <3>2, <3>3 DEF p
  <2>6. c[Rank(F, m)] = SectorOf(addrs[k])
    BY <1>6, <2>2, <2>4, <2>5
  <2>. QED
    BY <1>6, <2>4, <2>6
<1>10. \A i, j \in DOMAIN c : c[i] = c[j] => i = j
  <2>. SUFFICES ASSUME NEW i \in 1 .. N, NEW j \in 1 .. N, c[i] = c[j], nth(i) # nth(j)
                PROVE  FALSE
    BY <1>5, <1>6
  <2>1. SectorOf(addrs[nth(i)]) = SectorOf(addrs[nth(j)])
    BY <1>6
  <2>2. nth(i) \in F /\ nth(j) \in F /\ nth(i) \in 1 .. Len(addrs) /\ nth(j) \in 1 .. Len(addrs)
    BY <1>5, <1>7
  <2>3. nth(i) \in 1 .. (nth(j) - 1) \/ nth(j) \in 1 .. (nth(i) - 1)
    BY <1>1, <2>2
  <2>. QED
    BY <2>1, <2>2, <2>3 DEF FirstTouch
<1>11. \A i \in DOMAIN c : \E k \in DOMAIN addrs : c[i] = SectorOf(addrs[k])
  BY <1>1, <1>6, <1>7
<1>. QED
  BY <1>8, <1>9, <1>10, <1>11
-----------------------------------------------------------------------------
(* Instructions as the SM sees them.                                        *)

Sector == Nat \X (0 .. 3)

\* The instructions of a warp are those of its trace; a memory instruction has
\* the sectors of its own line.
LEMMA ProgFacts ==
  ASSUME ProgInv, NEW w \in Warps
  PROVE  /\ trace[w] \in Traces
         /\ DOMAIN prog[w] = DOMAIN trace[w].sass
         /\ Len(prog[w]) \in Nat /\ DOMAIN prog[w] = 1 .. Len(prog[w])
         /\ \A n \in DOMAIN prog[w] :
              /\ prog[w][n] = Inst(trace[w], n)
              /\ prog[w][n].op = trace[w].sass[n].op
              /\ prog[w][n].op \in Ops
              /\ prog[w][n].active \in BOOLEAN
              /\ prog[w][n].sectors \in Seq(Sector)
              /\ n \in MemInsts(trace[w]) =>
                   prog[w][n].sectors = m_coalesced_address(trace[w].mem[MemRank(trace[w], n)].addrs)
              /\ prog[w][n].op = "atom" => prog[w][n].sectors # <<>>
              /\ n \in MemInsts(trace[w]) /\ ~prog[w][n].active => prog[w][n].sectors = <<>>
<1>. DEFINE t == trace[w]
            addr(n) == get_mem_inst(t.mem, t.sass[n].pc, pc_index(t.sass, n))
<1>1. t \in Traces /\ prog[w] = m_insts(t)
  BY DEF ProgInv
<1>. HIDE DEF t
<1>2. t.sass \in Seq(SassLine) /\ t.mem \in Seq(MemLine)
  BY <1>1, TraceAssumption
<1>3. prog[w] = [n \in DOMAIN t.sass |-> Inst(t, n)]
  BY <1>1 DEF m_insts
<1>4. DOMAIN prog[w] = DOMAIN t.sass /\ \A n \in DOMAIN t.sass : prog[w][n] = Inst(t, n)
  BY <1>3
<1>5. Len(t.sass) \in Nat /\ DOMAIN t.sass = 1 .. Len(t.sass)
  BY <1>2
<1>6. prog[w] \in Seq({Inst(t, n) : n \in DOMAIN t.sass})
  BY <1>3, <1>5
<1>7. Len(prog[w]) \in Nat /\ DOMAIN prog[w] = 1 .. Len(prog[w])
  BY <1>6
<1>8. ASSUME NEW n \in DOMAIN t.sass
      PROVE  /\ Inst(t, n).op = t.sass[n].op
             /\ Inst(t, n).active = t.sass[n].active
             /\ Inst(t, n).sectors = IF addr(n) = 0 THEN <<>> ELSE m_coalesced_address(t.mem[addr(n)].addrs)
             /\ t.sass[n] \in SassLine
             /\ t.sass[n].op \in Ops /\ t.sass[n].active \in BOOLEAN
  <2>1. t.sass[n] \in SassLine
    BY <1>2
  <2>. QED
    BY <2>1 DEF Inst, SassLine
<1>9. ASSUME NEW n \in DOMAIN t.sass
      PROVE  Inst(t, n).sectors \in Seq(Sector)
  <2>1. addr(n) # 0 => addr(n) \in DOMAIN t.mem
    <3>. DEFINE found == {k \in DOMAIN t.mem : t.mem[k].pc = t.sass[n].pc /\ pc_index(t.mem, k) = pc_index(t.sass, n)}
    <3>1. addr(n) = IF found = {} THEN 0 ELSE Min(found)
      BY DEF get_mem_inst
    <3>2. found \in SUBSET Nat /\ found \in SUBSET DOMAIN t.mem
      BY <1>2
    <3>. HIDE DEF found
    <3>3. found # {} => Min(found) \in found
      BY <3>2, LeastNumber
    <3>. QED
      BY <3>1, <3>2, <3>3
  <2>. HIDE DEF addr
  <2>2. addr(n) # 0 => t.mem[addr(n)].addrs \in Seq(Nat)
    <3>1. addr(n) # 0 => t.mem[addr(n)] \in MemLine
      BY <1>2, <2>1
    <3>. QED
      BY <3>1 DEF MemLine
  <2>3. addr(n) # 0 => m_coalesced_address(t.mem[addr(n)].addrs) \in Seq(Sector)
    BY <2>2, CoalescingIsExact DEF Sector
  <2>4. <<>> \in Seq(Sector)
    OBVIOUS
  <2>5. Inst(t, n).sectors = IF addr(n) = 0 THEN <<>> ELSE m_coalesced_address(t.mem[addr(n)].addrs)
    BY <1>8 DEF addr
  <2>. QED
    BY <2>3, <2>4, <2>5, Zenon
<1>10. ASSUME NEW n \in MemInsts(t)
       PROVE  /\ Inst(t, n).sectors = m_coalesced_address(t.mem[MemRank(t, n)].addrs)
              /\ t.mem[MemRank(t, n)].addrs \in Seq(Nat)
  <2>1. addr(n) = MemRank(t, n)
    BY <1>1, JoinIsExact
  <2>2. MemRank(t, n) \in DOMAIN t.mem /\ MemRank(t, n) # 0 /\ n \in DOMAIN t.sass
    BY <1>1, MemRankCounts
  <2>3. t.mem[MemRank(t, n)] \in MemLine
    BY <1>2, <2>2
  <2>. QED
    BY <1>8, <2>1, <2>2, <2>3 DEF MemLine
<1>11. ASSUME NEW n \in DOMAIN t.sass, t.sass[n].op = "atom"
       PROVE  Inst(t, n).sectors # <<>>
  <2>. DEFINE addrs == t.mem[MemRank(t, n)].addrs
  <2>1. n \in MemInsts(t)
    BY <1>11 DEF MemInsts, MemOps
  <2>2. addrs # <<>>
    BY <1>1, <1>11, <2>1, TraceAssumption
  <2>3. addrs \in Seq(Nat) /\ Inst(t, n).sectors = m_coalesced_address(addrs)
    BY <1>10, <2>1
  <2>. HIDE DEF addrs
  <2>4. 1 \in DOMAIN addrs
    BY <2>2, <2>3
  <2>5. \E i \in DOMAIN m_coalesced_address(addrs) : TRUE
    BY <2>3, <2>4, CoalescingIsExact
  <2>. QED
    BY <2>3, <2>5
<1>12. ASSUME NEW n \in MemInsts(t), ~t.sass[n].active
       PROVE  Inst(t, n).sectors = <<>>
  <2>1. Inst(t, n).sectors = m_coalesced_address(<<>>)
    BY <1>1, <1>10, <1>12, TraceAssumption
  <2>2. m_coalesced_address(<<>>) \in Seq(Nat \X (0 .. 3)) /\ \A i \in DOMAIN m_coalesced_address(<<>>) : FALSE
    <3>1. <<>> \in Seq(Nat) /\ DOMAIN <<>> = {}
      OBVIOUS
    <3>. QED
      BY <3>1, CoalescingIsExact
  <2>. DEFINE c == m_coalesced_address(<<>>)
  <2>3. c \in Seq(Nat \X (0 .. 3)) /\ \A i \in DOMAIN c : FALSE
    BY <2>2
  <2>. HIDE DEF c
  <2>4. Len(c) \in Nat /\ ~(1 \in DOMAIN c) /\ DOMAIN c = 1 .. Len(c)
    BY <2>3
  <2>5. Len(c) = 0
    BY <2>4
  <2>6. c = <<>>
    BY <2>3, <2>5
  <2>. QED
    BY <2>1, <2>6 DEF c
<1>. QED
  BY <1>1, <1>4, <1>7, <1>8, <1>9, <1>10, <1>11, <1>12 DEF t
-----------------------------------------------------------------------------
(* What is outstanding.                                                     *)

LEMMA OutstandingFinite ==
  ASSUME FlightInv
  PROVE  \A w : /\ IsFiniteSet(OfWarp(w)) /\ Cardinality(OfWarp(w)) \in Nat
                /\ IsFiniteSet(UnitsOf(w)) /\ Cardinality(UnitsOf(w)) \in Nat
                /\ \A n : IsFiniteSet(OfInst(w, n)) /\ Cardinality(OfInst(w, n)) \in Nat
<1>1. IsFiniteSet(inflight) /\ IsFiniteSet(Subs)
  BY SmAssumption, FS_Interval DEF FlightInv, Subs
<1>2. \A w : OfWarp(w) \in SUBSET inflight /\ UnitsOf(w) \in SUBSET Subs /\ \A n : OfInst(w, n) \in SUBSET inflight
  BY DEF OfWarp, OfInst, UnitsOf
<1>. QED
  BY <1>1, <1>2, FS_Subset, FS_CardinalityType

\* A warp that something is outstanding for does not retire.
LEMMA OutstandingStays ==
  ASSUME Inv, NEW w \in Warps, OfWarp(w) # {} \/ UnitsOf(w) # {}
  PROVE  w \in warp_vec /\ w[1] \in block_vec /\ ~Retirable(w)
<1>1. Cardinality(OfWarp(w)) # 0 \/ Cardinality(UnitsOf(w)) # 0
  BY OutstandingFinite, FS_EmptySet DEF Inv
<1>. QED
  BY <1>1 DEF Inv, Accounting, NoOrphanReply, Retirable
-----------------------------------------------------------------------------
(* Steps that leave the instructions and requests alone.                    *)

memVars == <<kernelVars, warpVars, unit, ready, inflight>>

LEMMA MemFrame ==
  ASSUME Inv, UNCHANGED memVars
  PROVE  /\ ProgInv' /\ FlightInv' /\ UnitInv' /\ SlowInv' /\ Accounting'
         /\ \A w \in Warps : OfWarp(w)' = OfWarp(w) /\ UnitsOf(w)' = UnitsOf(w) /\ HasNext(w)' = HasNext(w)
<1>. USE DEF memVars, kernelVars, warpVars
<1>1. ProgInv' /\ FlightInv' /\ UnitInv' /\ SlowInv'
  <2>1. ProgInv'
    BY DEF Inv, ProgInv
  <2>2. FlightInv'
    BY DEF Inv, FlightInv
  <2>3. UnitInv'
    BY DEF Inv, UnitInv
  <2>4. SlowInv'
    BY DEF Inv, SlowInv
  <2>. QED
    BY <2>1, <2>2, <2>3, <2>4
<1>2. Accounting'
  <2>1. \A w : OfWarp(w)' = OfWarp(w) /\ UnitsOf(w)' = UnitsOf(w)
    BY DEF OfWarp, UnitsOf
  <2>2. \A w, n : OfInst(w, n)' = OfInst(w, n) /\ Unreleased(w, n)' = Unreleased(w, n)
    BY DEF OfInst, Unreleased
  <2>. QED
    BY <2>1, <2>2 DEF Inv, Accounting
<1>3. \A w \in Warps : OfWarp(w)' = OfWarp(w) /\ UnitsOf(w)' = UnitsOf(w) /\ HasNext(w)' = HasNext(w)
  BY DEF OfWarp, UnitsOf, HasNext
<1>. QED
  BY <1>1, <1>2, <1>3

\* A warp may go if nothing is outstanding for it; what is left of a block may
\* go if it has no warps.
LEMMA ResidencyStep ==
  ASSUME Inv, UNCHANGED memVars, fault' = fault,
         warp_vec' \in SUBSET warp_vec,
         \A w \in warp_vec \ warp_vec' : Retirable(w),
         \A b \in block_vec \ block_vec' : ~is_active(b)
  PROVE  NoOrphanReply'
<1>1. /\ \A w \in Warps : OfWarp(w)' = OfWarp(w) /\ UnitsOf(w)' = UnitsOf(w) /\ HasNext(w)' = HasNext(w)
      /\ TypeOK /\ NoOrphanReply /\ Accounting /\ FlightInv
  BY MemFrame DEF Inv
<1>2. ASSUME NEW w \in Warps, OfWarp(w) # {} \/ UnitsOf(w) # {}
      PROVE  w \in warp_vec' /\ w[1] \in block_vec'
  <2>1. w \in warp_vec /\ w[1] \in block_vec /\ ~Retirable(w)
    BY <1>2, OutstandingStays
  <2>2. is_active(w[1])
    BY <2>1 DEF is_active, Live
  <2>. QED
    BY <2>1, <2>2
<1>3. ASSUME NEW w \in Warps \ warp_vec'
      PROVE  ~HasNext(w)
  BY <1>1 DEF NoOrphanReply, Retirable
<1>4. fault' = "none"
  BY <1>1 DEF NoOrphanReply
<1>5. \A w \in Warps : OfWarp(w)' # {} \/ UnitsOf(w)' # {} => w \in warp_vec' /\ w[1] \in block_vec'
  BY <1>1, <1>2
<1>6. \A w \in Warps \ warp_vec' : ~HasNext(w)'
  BY <1>1, <1>3
<1>. QED
  BY <1>4, <1>5, <1>6 DEF NoOrphanReply

\* Refill keeps to the limit.
LEMMA RefillRoom ==
  ASSUME TypeOK, RoomInv, Refill
  PROVE  RoomInv' /\ block_pointer' \in 0 .. NumBlocks
<1>. DEFINE n == Cardinality(block_vec)
            upto == Lesser(block_pointer + (MaxBlocks - n), NumBlocks)
            I == block_pointer .. (upto - 1)
<1>1. block_vec' = {b \in Blocks : b \in block_vec \/ b \in I} /\ block_pointer' = upto
  BY DEF Refill
<1>2. IsFiniteSet(block_vec) /\ n \in Nat /\ n <= MaxBlocks
  <2>1. IsFiniteSet(Blocks)
    BY SmAssumption, FS_Interval DEF Blocks
  <2>. QED
    BY <2>1, FS_Subset, FS_CardinalityType DEF TypeOK, RoomInv
<1>. HIDE DEF n
<1>3. upto \in 0 .. NumBlocks /\ upto - block_pointer <= MaxBlocks - n /\ block_pointer \in Nat
  BY <1>2, SmAssumption DEF Lesser, TypeOK
<1>. HIDE DEF upto
<1>4. IsFiniteSet(I) /\ Cardinality(I) \in Nat /\ Cardinality(I) <= MaxBlocks - n
  <2>1. block_pointer \in Int /\ upto - 1 \in Int
    BY <1>3
  <2>2. IsFiniteSet(I) /\ Cardinality(I) = IF block_pointer > upto - 1 THEN 0 ELSE (upto - 1) - block_pointer + 1
    BY <2>1, FS_Interval
  <2>. QED
    BY <1>2, <1>3, <2>2, SmAssumption
<1>. HIDE DEF I
<1>5. IsFiniteSet(block_vec \cup I) /\ Cardinality(block_vec \cup I) <= MaxBlocks
  <2>1. IsFiniteSet(block_vec \cup I) /\ Cardinality(block_vec \cup I) = n + Cardinality(I) - Cardinality(block_vec \cap I)
    BY <1>2, <1>4, FS_Union DEF n
  <2>2. Cardinality(block_vec \cap I) \in Nat
    BY <1>2, FS_Intersection, FS_CardinalityType
  <2>. QED
    BY <1>2, <1>4, <2>1, <2>2, SmAssumption
<1>6. block_vec' \in SUBSET (block_vec \cup I)
  BY <1>1
<1>7. Cardinality(block_vec') <= Cardinality(block_vec \cup I) /\ Cardinality(block_vec') \in Nat
      /\ Cardinality(block_vec \cup I) \in Nat
  BY <1>5, <1>6, FS_Subset, FS_CardinalityType
<1>. QED
  BY <1>1, <1>3, <1>5, <1>7, SmAssumption DEF RoomInv

\* The steps that neither send, issue nor answer.
LEMMA QuietSteps ==
  ASSUME Inv, StartCycle \/ EndReplies \/ UnitWaits \/ Refill \/ ScheduleRetire \/ ScheduleSkip
              \/ EndCycle \/ UNCHANGED vars
  PROVE  Inv'
<1>. USE DEF kernelVars, blockVars, warpVars, unitVars, statVars
<1>0. TypeOK /\ TimeInv /\ RoomInv
  BY DEF Inv
<1>1. UNCHANGED memVars /\ fault' = fault
  BY DEF StartCycle, EndReplies, UnitWaits, Refill, ScheduleRetire, ScheduleSkip, EndCycle, vars, memVars
<1>2. TypeOK'
  <2>1. CASE StartCycle
    <3>1. cycles' \in Nat /\ busy' \subseteq 0 .. 3
      BY <1>0, <2>1 DEF StartCycle, TypeOK
    <3>. QED
      BY <1>0, <2>1, <3>1 DEF StartCycle, TypeOK
  <2>2. CASE EndReplies
    BY <1>0, <2>2 DEF EndReplies, TypeOK
  <2>3. CASE UnitWaits
    <3>1. turn' \in Nat
      <4>1. turn' = turn + 1
        BY <2>3 DEF UnitWaits
      <4>2. turn \in Nat
        BY <1>0 DEF TypeOK
      <4>. QED
        BY <4>1, <4>2
    <3>. QED
      BY <1>0, <2>3, <3>1 DEF UnitWaits, TypeOK
  <2>4. CASE Refill
    <3>1. block_pointer' \in 0 .. NumBlocks
      BY <1>0, <2>4, RefillRoom
    <3>2. block_vec' \subseteq Blocks /\ free_subs' \subseteq Subs
      BY <2>4 DEF Refill, FreeSubs
    <3>. QED
      BY <1>0, <2>4, <3>1, <3>2 DEF Refill, TypeOK
  <2>5. CASE ScheduleRetire
    <3>1. warp_vec' \subseteq Warps /\ turn' \in Nat
      BY <1>0, <2>5 DEF ScheduleRetire, TypeOK
    <3>. QED
      BY <1>0, <2>5, <3>1 DEF ScheduleRetire, TypeOK
  <2>6. CASE ScheduleSkip
    <3>1. turn' \in Nat
      BY <1>0, <2>6 DEF ScheduleSkip, TypeOK
    <3>. QED
      BY <1>0, <2>6, <3>1 DEF ScheduleSkip, TypeOK
  <2>7. CASE EndCycle
    BY <1>0, <2>7 DEF EndCycle, TypeOK, Attributed
  <2>8. CASE UNCHANGED vars
    BY <1>0, <2>8 DEF vars, TypeOK
  <2>. QED
    BY <2>1, <2>2, <2>3, <2>4, <2>5, <2>6, <2>7, <2>8
<1>3. TimeInv'
  <2>1. cycles' = cycles \/ (cycles < MaxCycles /\ cycles' = cycles + 1)
    BY DEF StartCycle, EndReplies, UnitWaits, Refill, ScheduleRetire, ScheduleSkip, EndCycle, vars
  <2>2. cycles \in Nat /\ MaxCycles \in Nat /\ cycles <= MaxCycles
    BY <1>0, SmAssumption DEF TypeOK, TimeInv
  <2>. QED
    BY <2>1, <2>2 DEF TimeInv
<1>4. ProgInv' /\ FlightInv' /\ UnitInv' /\ SlowInv' /\ Accounting'
  BY <1>1, MemFrame
<1>5. NoOrphanReply'
  <2>1. /\ warp_vec' \in SUBSET warp_vec
        /\ \A w \in warp_vec \ warp_vec' : Retirable(w)
    BY DEF StartCycle, EndReplies, UnitWaits, Refill, ScheduleRetire, ScheduleSkip, EndCycle, vars
  <2>2. \A b \in block_vec \ block_vec' : ~is_active(b)
    BY <1>0 DEF TypeOK, StartCycle, EndReplies, UnitWaits, Refill, ScheduleRetire, ScheduleSkip, EndCycle, vars
  <2>. QED
    BY <1>1, <2>1, <2>2, ResidencyStep
<1>6. RoomInv'
  <2>1. CASE Refill
    BY <1>0, <2>1, RefillRoom
  <2>2. CASE EndReplies
    <3>1. block_vec' \in SUBSET block_vec
      BY <2>2 DEF EndReplies
    <3>2. IsFiniteSet(Blocks)
      BY SmAssumption, FS_Interval DEF Blocks
    <3>3. IsFiniteSet(block_vec) /\ Cardinality(block_vec) \in Nat
      BY <1>0, <3>2, FS_Subset, FS_CardinalityType DEF TypeOK
    <3>4. Cardinality(block_vec') \in Nat /\ Cardinality(block_vec') <= Cardinality(block_vec)
      BY <3>1, <3>3, FS_Subset, FS_CardinalityType
    <3>. QED
      BY <1>0, <3>3, <3>4, SmAssumption DEF RoomInv
  <2>3. block_vec' = block_vec \/ Refill \/ EndReplies
    BY DEF StartCycle, UnitWaits, ScheduleRetire, ScheduleSkip, EndCycle, vars
  <2>. QED
    BY <1>0, <2>1, <2>2, <2>3 DEF RoomInv
<1>. QED
  BY <1>2, <1>3, <1>4, <1>5, <1>6 DEF Inv
-----------------------------------------------------------------------------
(* Replies.                                                                 *)

LEMMA SeqUpdate ==
  ASSUME NEW q \in Seq(Nat), NEW n \in 1 .. Len(q), NEW x \in Nat
  PROVE  [q EXCEPT ![n] = x] \in Seq(Nat) /\ Len([q EXCEPT ![n] = x]) = Len(q)
<1>1. [q EXCEPT ![n] = x] \in [1 .. Len(q) -> Nat]
  OBVIOUS
<1>. QED
  BY <1>1

\* Where a request and the instruction it belongs to are.
LEMMA RequestFacts ==
  ASSUME Inv, NEW r \in inflight
  PROVE  /\ r[1] \in Warps /\ r[2] \in 1 .. Len(prog[r[1]]) /\ r[2] \in 1 .. warp_point[r[1]]
         /\ DOMAIN prog[r[1]] = 1 .. Len(prog[r[1]])
         /\ r[1] \in warp_vec /\ r[1][1] \in block_vec
         /\ r \in OfWarp(r[1]) /\ r \in OfInst(r[1], r[2])
         /\ pending_request[r[1]][r[2]] \in Nat \ {0}
         /\ m_pending_mem_request_num[r[1]] \in Nat \ {0}
<1>. DEFINE w == r[1]
            n == r[2]
<1>1. w \in Warps /\ n \in 1 .. warp_point[w]
  BY DEF Inv, TypeOK, FlightInv
<1>2. Len(prog[w]) \in Nat /\ DOMAIN prog[w] = 1 .. Len(prog[w])
  BY <1>1, ProgFacts DEF Inv
<1>3. n \in 1 .. Len(prog[w])
  BY <1>1, <1>2 DEF Inv, TypeOK
<1>4. r \in OfWarp(w) /\ r \in OfInst(w, n)
  BY DEF OfWarp, OfInst
<1>5. w \in warp_vec /\ w[1] \in block_vec
  BY <1>1, <1>4 DEF Inv, NoOrphanReply
<1>. HIDE DEF w, n
<1>6. Cardinality(OfWarp(w)) \in Nat \ {0} /\ Cardinality(OfInst(w, n)) \in Nat \ {0}
  BY <1>4, OutstandingFinite, FS_EmptySet DEF Inv
<1>7. pending_request[w][n] \in Nat \ {0} /\ m_pending_mem_request_num[w] \in Nat \ {0}
  BY <1>1, <1>2, <1>3, <1>6 DEF Inv, Accounting
<1>. QED
  BY <1>1, <1>2, <1>3, <1>4, <1>5, <1>7 DEF w, n

\* A reply is found a home, and the counters go down with it.
LEMMA ReplyStep ==
  ASSUME Inv, NEW r \in inflight, Reply(r)
  PROVE  Inv'
<1>. DEFINE w == r[1]
            n == r[2]
<1>0. TypeOK /\ ProgInv /\ FlightInv /\ UnitInv /\ SlowInv /\ Accounting /\ NoOrphanReply
  BY DEF Inv
<1>1. /\ w \in Warps /\ n \in 1 .. Len(prog[w]) /\ n \in 1 .. warp_point[w]
      /\ DOMAIN prog[w] = 1 .. Len(prog[w])
      /\ w \in warp_vec /\ w[1] \in block_vec
      /\ r \in OfWarp(w) /\ r \in OfInst(w, n)
      /\ pending_request[w][n] \in Nat \ {0}
      /\ m_pending_mem_request_num[w] \in Nat \ {0}
  BY RequestFacts
<1>2. fault' = LookUp(w, n) /\ inflight' = inflight \ {r}
      /\ (fault' = "none" => decrease_pending_request(w, n))
      /\ UNCHANGED <<kernelVars, stage, turn, cycles, blockVars, warp_point, pending_inst,
                     unitVars, free_subs, statVars>>
  BY DEF Reply
<1>. HIDE DEF w, n
<1>3. fault' = "none"
  <2>1. pending_request[w][n] > 0
    BY <1>1
  <2>. QED
    BY <1>1, <1>2, <2>1, Zenon DEF LookUp
<1>4. /\ pending_request' = [pending_request EXCEPT ![w][n] = pending_request[w][n] - 1]
      /\ completions' = IF pending_request[w][n] = 1
                        THEN [completions EXCEPT ![w][n] = cycles] ELSE completions
      /\ m_pending_mem_request_num' = [m_pending_mem_request_num EXCEPT ![w] = m_pending_mem_request_num[w] - 1]
      /\ UNCHANGED <<trace, prog, stage, turn, cycles, block_pointer, block_vec, warp_vec, warp_point, pending_inst,
                     unit, ready, busy, free_subs, request_nums, inst_executed, verdict>>
  BY <1>2, <1>3 DEF decrease_pending_request, kernelVars, blockVars, unitVars, statVars
<1>. DEFINE x == pending_request[w][n] - 1
            y == m_pending_mem_request_num[w] - 1
<1>4x. x \in Nat /\ y \in Nat
  BY <1>1
<1>4y. \A v \in Warps : /\ pending_request'[v] = (IF v = w THEN [pending_request[w] EXCEPT ![n] = x] ELSE pending_request[v])
                       /\ m_pending_mem_request_num'[v] = (IF v = w THEN y ELSE m_pending_mem_request_num[v])
                       /\ completions'[v] = (IF v = w /\ pending_request[w][n] = 1
                                             THEN [completions[w] EXCEPT ![n] = cycles] ELSE completions[v])
  BY <1>0, <1>4 DEF TypeOK
<1>4z. \A q \in Seq(Nat) : \A z : \A k \in 1 .. Len(q) : [q EXCEPT ![n] = z][k] = IF k = n THEN z ELSE q[k]
  OBVIOUS
<1>5. TypeOK'
  <2>1. pending_request' \in [Warps -> Seq(Nat)] /\ \A v \in Warps : Len(pending_request'[v]) = Len(prog[v])
    <3>0. pending_request[w] \in Seq(Nat) /\ n \in 1 .. Len(pending_request[w])
      BY <1>0, <1>1 DEF TypeOK
    <3>. HIDE DEF x
    <3>1. /\ [pending_request[w] EXCEPT ![n] = x] \in Seq(Nat)
          /\ Len([pending_request[w] EXCEPT ![n] = x]) = Len(pending_request[w])
      BY <1>4x, <3>0, SeqUpdate
    <3>2. pending_request' = [pending_request EXCEPT ![w] = [pending_request[w] EXCEPT ![n] = x]]
      BY <1>0, <1>4 DEF TypeOK, x
    <3>. QED
      BY <1>0, <1>1, <3>1, <3>2 DEF TypeOK
  <2>2. completions' \in [Warps -> Seq(Nat)] /\ \A v \in Warps : Len(completions'[v]) = warp_point[v]
    <3>1. /\ [completions[w] EXCEPT ![n] = cycles] \in Seq(Nat)
          /\ Len([completions[w] EXCEPT ![n] = cycles]) = Len(completions[w])
      <4>1. completions[w] \in Seq(Nat) /\ n \in 1 .. Len(completions[w]) /\ cycles \in Nat
        BY <1>0, <1>1 DEF TypeOK
      <4>. QED
        BY <4>1, SeqUpdate
    <3>. QED
      BY <1>0, <1>1, <1>4, <3>1 DEF TypeOK
  <2>3. m_pending_mem_request_num' \in [Warps -> Nat]
    <3>. HIDE DEF y
    <3>1. m_pending_mem_request_num' = [m_pending_mem_request_num EXCEPT ![w] = y]
      BY <1>4 DEF y
    <3>. QED
      BY <1>0, <1>1, <1>4x, <3>1 DEF TypeOK
  <2>4. inflight' \subseteq Warps \X (Nat \ {0}) \X (Nat \ {0}) \X Nat
    BY <1>0, <1>2 DEF TypeOK
  <2>. QED
    BY <1>0, <1>3, <1>4, <2>1, <2>2, <2>3, <2>4 DEF TypeOK
<1>6. ProgInv' /\ TimeInv' /\ RoomInv'
  BY <1>0, <1>4 DEF Inv, ProgInv, TimeInv, RoomInv
<1>7. FlightInv'
  BY <1>0, <1>2, <1>4, FS_RemoveElement DEF FlightInv
<1>8. UnitInv'
  BY <1>0, <1>2, <1>4 DEF UnitInv
<1>9. cycles # INT_MAX
  BY <1>0, SmAssumption DEF Inv, TimeInv, TypeOK, INT_MAX
<1>10. \A v \in Warps : \A k \in 1 .. warp_point[v] :
         completions'[v][k] = INT_MAX => completions[v][k] = INT_MAX /\ (v = w /\ k = n => pending_request[w][n] # 1)
  <2>. SUFFICES ASSUME NEW v \in Warps, NEW k \in 1 .. warp_point[v], completions'[v][k] = INT_MAX
                PROVE  completions[v][k] = INT_MAX /\ (v = w /\ k = n => pending_request[w][n] # 1)
    OBVIOUS
  <2>1. completions[v] \in Seq(Nat) /\ k \in 1 .. Len(completions[v])
    BY <1>0 DEF TypeOK
  <2>2. CASE v = w /\ pending_request[w][n] = 1
    <3>1. completions'[v] = [completions[w] EXCEPT ![n] = cycles]
      BY <1>4y, <2>2
    <3>2. completions'[v][k] = IF k = n THEN cycles ELSE completions[v][k]
      BY <1>4z, <2>1, <2>2, <3>1
    <3>. QED
      BY <1>9, <3>2
  <2>3. CASE ~(v = w /\ pending_request[w][n] = 1)
    BY <1>4y, <2>3
  <2>. QED
    BY <2>2, <2>3
<1>11. SlowInv'
  BY <1>0, <1>4, <1>10 DEF SlowInv
<1>12. \A v : OfWarp(v)' = (IF v = w THEN OfWarp(w) \ {r} ELSE OfWarp(v)) /\ UnitsOf(v)' = UnitsOf(v)
  BY <1>2, <1>4 DEF OfWarp, UnitsOf, w
<1>13. \A v, k : OfInst(v, k)' = IF v = w /\ k = n THEN OfInst(w, n) \ {r} ELSE OfInst(v, k)
  BY <1>2 DEF OfInst, w, n
<1>14. /\ Cardinality(OfWarp(w) \ {r}) = Cardinality(OfWarp(w)) - 1
       /\ Cardinality(OfInst(w, n) \ {r}) = Cardinality(OfInst(w, n)) - 1
  BY <1>0, <1>1, OutstandingFinite, FS_RemoveElement
<1>15. Accounting'
  <2>1. ASSUME NEW v \in Warps
        PROVE  m_pending_mem_request_num'[v] = Cardinality(OfWarp(v)') /\ pending_inst'[v] = Cardinality(UnitsOf(v)')
    BY <1>0, <1>1, <1>4, <1>12, <1>14 DEF TypeOK, Accounting
  <2>2. ASSUME NEW v \in Warps, NEW k \in DOMAIN prog'[v]
        PROVE  pending_request'[v][k] = Cardinality(OfInst(v, k)')
    <3>1. pending_request[v][k] = Cardinality(OfInst(v, k)) /\ k \in DOMAIN prog[v]
      BY <1>0, <1>4, <2>2 DEF Accounting
    <3>0. pending_request'[v][k] = IF v = w /\ k = n THEN x ELSE pending_request[v][k]
      <4>1. pending_request[v] \in Seq(Nat) /\ k \in 1 .. Len(pending_request[v])
        BY <1>0, <3>1, ProgFacts DEF TypeOK
      <4>. HIDE DEF x
      <4>. QED
        BY <1>4y, <1>4z, <4>1
    <3>2. CASE v = w /\ k = n
      BY <1>13, <1>14, <3>0, <3>1, <3>2
    <3>3. CASE ~(v = w /\ k = n)
      <4>1. pending_request'[v][k] = pending_request[v][k]
        BY <3>0, <3>3
      <4>. QED
        BY <1>13, <3>1, <3>3, <4>1
    <3>. QED
      BY <3>2, <3>3
  <2>3. ASSUME NEW v \in Warps, NEW k \in 1 .. warp_point'[v], completions'[v][k] = INT_MAX
        PROVE  Unreleased(v, k)'
    <3>1. Unreleased(v, k) /\ (v = w /\ k = n => pending_request[w][n] # 1)
      BY <1>0, <1>4, <1>10, <2>3 DEF Accounting
    <3>2. CASE v = w /\ k = n
      <4>1. Cardinality(OfInst(w, n)) = pending_request[w][n]
        BY <1>0, <1>1 DEF Accounting
      <4>2. Cardinality(OfInst(w, n) \ {r}) # 0
        BY <1>1, <1>14, <3>1, <3>2, <4>1
      <4>3. OfInst(v, k)' # {}
        BY <1>13, <3>2, <4>2, FS_EmptySet
      <4>. QED
        BY <4>3 DEF Unreleased
    <3>3. CASE ~(v = w /\ k = n)
      BY <1>4, <1>13, <3>1, <3>3 DEF Unreleased
    <3>. QED
      BY <3>2, <3>3
  <2>. QED
    BY <2>1, <2>2, <2>3 DEF Accounting
<1>16. NoOrphanReply'
  <2>1. \A v \in Warps : OfWarp(v)' # {} \/ UnitsOf(v)' # {} => v \in warp_vec' /\ v[1] \in block_vec'
    BY <1>0, <1>1, <1>4, <1>12 DEF NoOrphanReply
  <2>2. \A v \in Warps \ warp_vec' : ~HasNext(v)'
    BY <1>0, <1>4 DEF NoOrphanReply, HasNext
  <2>. QED
    BY <1>3, <2>1, <2>2 DEF NoOrphanReply
<1>. QED
  BY <1>5, <1>6, <1>7, <1>8, <1>11, <1>15, <1>16 DEF Inv
-----------------------------------------------------------------------------
(* The load/store units.                                                    *)

\* What a unit that is not idle is doing.
LEMMA UnitFacts ==
  ASSUME Inv, NEW s \in Subs, unit[s] # Idle
  PROVE  LET w == unit[s][1] IN
         LET n == unit[s][2] IN
         LET p == unit[s][3] IN
         /\ unit[s] = <<w, n, p>>
         /\ w \in Warps /\ n \in Nat \ {0} /\ p \in Nat \ {0}
         /\ n \in 1 .. warp_point[w] /\ n \in 1 .. Len(prog[w]) /\ DOMAIN prog[w] = 1 .. Len(prog[w])
         /\ prog[w][n].op \in {"load", "store"}
         /\ prog[w][n].sectors \in Seq(Sector)
         /\ p \in 1 .. Len(prog[w][n].sectors)
         /\ ready[s].lds = INT_MAX
         /\ \A r \in inflight : r[1] = w /\ r[2] = n => r[3] < p
         /\ \A c \in Subs : unit[c] # Idle /\ unit[c][1] = w /\ unit[c][2] = n => c = s
         /\ w \in warp_vec /\ w[1] \in block_vec
         /\ s \in UnitsOf(w)
         /\ pending_inst[w] \in Nat \ {0}
<1>. DEFINE w == unit[s][1]
            n == unit[s][2]
            p == unit[s][3]
<1>1. unit[s] \in Warps \X (Nat \ {0}) \X (Nat \ {0})
  BY DEF Inv, TypeOK
<1>2. unit[s] = <<w, n, p>> /\ w \in Warps /\ n \in Nat \ {0} /\ p \in Nat \ {0}
  BY <1>1
<1>3. /\ n \in 1 .. warp_point[w]
      /\ prog[w][n].op \in {"load", "store"}
      /\ p \in 1 .. Len(prog[w][n].sectors)
      /\ ready[s].lds = INT_MAX
      /\ \A r \in inflight : r[1] = w /\ r[2] = n => r[3] < p
      /\ \A c \in Subs : unit[c] # Idle /\ unit[c][1] = w /\ unit[c][2] = n => c = s
  BY DEF Inv, UnitInv
<1>4. s \in UnitsOf(w)
  BY DEF UnitsOf
<1>. HIDE DEF w, n, p
<1>5. Len(prog[w]) \in Nat /\ DOMAIN prog[w] = 1 .. Len(prog[w]) /\ n \in 1 .. Len(prog[w])
  <2>1. Len(prog[w]) \in Nat /\ DOMAIN prog[w] = 1 .. Len(prog[w])
    BY <1>2, ProgFacts DEF Inv
  <2>. QED
    BY <1>2, <1>3, <2>1 DEF Inv, TypeOK
<1>6. prog[w][n].sectors \in Seq(Sector)
  BY <1>2, <1>5, ProgFacts DEF Inv
<1>7. w \in warp_vec /\ w[1] \in block_vec
  BY <1>2, <1>4 DEF Inv, NoOrphanReply
<1>8. pending_inst[w] \in Nat \ {0}
  <2>1. Cardinality(UnitsOf(w)) \in Nat \ {0}
    BY <1>4, OutstandingFinite, FS_EmptySet DEF Inv
  <2>. QED
    BY <1>2, <2>1 DEF Inv, Accounting
<1>. QED
  BY <1>2, <1>3, <1>4, <1>5, <1>6, <1>7, <1>8 DEF w, n, p

\* A request is added to the ones on their way.
LEMMA SendCounts ==
  ASSUME Inv, NEW w \in Warps, NEW n \in 1 .. Len(prog[w]), NEW p, NEW q, q = <<w, n, p, cycles>>,
         q \notin inflight, inflight' = inflight \cup {q},
         increase_pending_request(w, n), prog' = prog
  PROVE  /\ pending_request' \in [Warps -> Seq(Nat)] /\ m_pending_mem_request_num' \in [Warps -> Nat]
         /\ \A v \in Warps : Len(pending_request'[v]) = Len(prog[v])
         /\ \A v \in Warps : m_pending_mem_request_num'[v] = Cardinality(OfWarp(v)')
         /\ \A v \in Warps : \A k \in DOMAIN prog[v] : pending_request'[v][k] = Cardinality(OfInst(v, k)')
<1>. DEFINE x == pending_request[w][n] + 1
            y == m_pending_mem_request_num[w] + 1
<1>0. TypeOK /\ ProgInv /\ Accounting /\ FlightInv
  BY DEF Inv
<1>1. DOMAIN prog[w] = 1 .. Len(prog[w]) /\ pending_request[w] \in Seq(Nat)
      /\ n \in 1 .. Len(pending_request[w]) /\ pending_request[w][n] \in Nat
  <2>1. DOMAIN prog[w] = 1 .. Len(prog[w])
    BY <1>0, ProgFacts
  <2>2. pending_request[w] \in Seq(Nat) /\ Len(pending_request[w]) = Len(prog[w])
    BY <1>0 DEF TypeOK
  <2>. QED
    BY <2>1, <2>2
<1>2. x \in Nat /\ y \in Nat
  <2>1. m_pending_mem_request_num[w] \in Nat
    BY <1>0 DEF TypeOK
  <2>2. pending_request[w][n] \in Nat
    BY <1>1
  <2>3. \A k \in Nat : k + 1 \in Nat
    OBVIOUS
  <2>. QED
    BY <2>1, <2>2, <2>3, Zenon
<1>3. /\ pending_request' = [pending_request EXCEPT ![w] = [pending_request[w] EXCEPT ![n] = x]]
      /\ m_pending_mem_request_num' = [m_pending_mem_request_num EXCEPT ![w] = y]
  BY <1>0 DEF increase_pending_request, TypeOK
<1>. HIDE DEF x, y
<1>4. /\ [pending_request[w] EXCEPT ![n] = x] \in Seq(Nat)
      /\ Len([pending_request[w] EXCEPT ![n] = x]) = Len(pending_request[w])
  BY <1>1, <1>2, SeqUpdate
<1>5. /\ pending_request' \in [Warps -> Seq(Nat)] /\ m_pending_mem_request_num' \in [Warps -> Nat]
      /\ \A v \in Warps : Len(pending_request'[v]) = Len(prog[v])
  BY <1>0, <1>2, <1>3, <1>4 DEF TypeOK
<1>6. q[1] = w /\ q[2] = n
  OBVIOUS
<1>7. \A v : OfWarp(v)' = IF v = w THEN OfWarp(w) \cup {q} ELSE OfWarp(v)
  BY <1>6 DEF OfWarp
<1>8. \A v, k : OfInst(v, k)' = IF v = w /\ k = n THEN OfInst(w, n) \cup {q} ELSE OfInst(v, k)
  BY <1>6 DEF OfInst
<1>9. q \notin OfWarp(w) /\ q \notin OfInst(w, n)
  BY DEF OfWarp, OfInst
<1>10. /\ Cardinality(OfWarp(w) \cup {q}) = Cardinality(OfWarp(w)) + 1
       /\ Cardinality(OfInst(w, n) \cup {q}) = Cardinality(OfInst(w, n)) + 1
  BY <1>0, <1>9, OutstandingFinite, FS_AddElement
<1>11. Cardinality(OfWarp(w)) + 1 = y /\ Cardinality(OfInst(w, n)) + 1 = x
  BY <1>0, <1>1 DEF Accounting, x, y
<1>12. ASSUME NEW v \in Warps
       PROVE  m_pending_mem_request_num'[v] = Cardinality(OfWarp(v)')
  <2>1. m_pending_mem_request_num'[v] = IF v = w THEN y ELSE m_pending_mem_request_num[v]
    BY <1>0, <1>3 DEF TypeOK
  <2>2. m_pending_mem_request_num[v] = Cardinality(OfWarp(v))
    BY <1>0 DEF Accounting
  <2>. QED
    BY <1>7, <1>10, <1>11, <2>1, <2>2
<1>13. ASSUME NEW v \in Warps, NEW k \in DOMAIN prog[v]
       PROVE  pending_request'[v][k] = Cardinality(OfInst(v, k)')
  <2>1. pending_request'[v][k] = IF v = w /\ k = n THEN x ELSE pending_request[v][k]
    <3>1. pending_request[v] \in Seq(Nat) /\ k \in 1 .. Len(pending_request[v])
      BY <1>0, ProgFacts DEF TypeOK
    <3>2. pending_request'[v] = IF v = w THEN [pending_request[w] EXCEPT ![n] = x] ELSE pending_request[v]
      BY <1>0, <1>3 DEF TypeOK
    <3>3. v = w => [pending_request[w] EXCEPT ![n] = x][k] = IF k = n THEN x ELSE pending_request[w][k]
      BY <3>1
    <3>. QED
      BY <3>2, <3>3
  <2>2. pending_request[v][k] = Cardinality(OfInst(v, k))
    BY <1>0 DEF Accounting
  <2>. QED
    BY <1>8, <1>10, <1>11, <2>1, <2>2
<1>. QED
  BY <1>5, <1>12, <1>13

\* A unit sends a sector, and stops after the last one.
LEMMA UnitSendsStep ==
  ASSUME Inv, UnitSends
  PROVE  Inv'
<1>. DEFINE s == turn
            w == unit[s][1]
            n == unit[s][2]
            p == unit[s][3]
            i == prog[w][n]
            q == <<w, n, p, cycles>>
            load == i.op = "load"
            last == p = Len(i.sectors)
<1>0. TypeOK /\ ProgInv /\ FlightInv /\ UnitInv /\ SlowInv /\ Accounting /\ NoOrphanReply
  BY DEF Inv
<1>1. s \in Subs /\ unit[s] # Idle /\ fault = "none" /\ fault' = fault
      /\ UNCHANGED <<trace, prog, stage, cycles, block_pointer, block_vec, warp_vec, warp_point, completions,
                     free_subs, inst_executed, verdict>>
      /\ busy' = busy \cup {Bank(i.sectors[p])} /\ request_nums' = request_nums + 1 /\ turn' = turn + 1
  BY DEF UnitSends, kernelVars, blockVars
<1>2. /\ (load => increase_pending_request(w, n) /\ inflight' = inflight \cup {q})
      /\ (~load => UNCHANGED <<pending_request, m_pending_mem_request_num, inflight>>)
      /\ (~last => unit' = [unit EXCEPT ![s] = <<w, n, p + 1>>] /\ UNCHANGED <<ready, pending_inst>>)
      /\ (last => /\ unit' = [unit EXCEPT ![s] = Idle]
                  /\ ready' = [ready EXCEPT ![s].lds = cycles]
                  /\ pending_inst' = [pending_inst EXCEPT ![w] = pending_inst[w] - 1])
  <2>1. /\ \/ load /\ increase_pending_request(w, n) /\ inflight' = inflight \cup {q}
           \/ i.op = "store" /\ UNCHANGED <<pending_request, m_pending_mem_request_num, inflight>>
    BY DEF UnitSends
  <2>2. \/ p < Len(i.sectors) /\ unit' = [unit EXCEPT ![s] = <<w, n, p + 1>>] /\ UNCHANGED <<ready, pending_inst>>
        \/ /\ last
           /\ unit' = [unit EXCEPT ![s] = Idle]
           /\ ready' = [ready EXCEPT ![s].lds = cycles]
           /\ pending_inst' = [pending_inst EXCEPT ![w] = pending_inst[w] - 1]
    BY DEF UnitSends
  <2>3. p < Len(i.sectors) => ~last
    <3>1. p \in Nat /\ p \in 1 .. Len(i.sectors) /\ i.sectors \in Seq(Sector)
      BY <1>1, UnitFacts
    <3>. HIDE DEF p, i
    <3>2. Len(i.sectors) \in Nat
      BY <3>1
    <3>. QED
      BY <3>1, <3>2 DEF last
  <2>. QED
    BY <2>1, <2>2, <2>3
<1>3. /\ unit[s] = <<w, n, p>>
      /\ w \in Warps /\ n \in Nat \ {0} /\ p \in Nat \ {0}
      /\ n \in 1 .. warp_point[w] /\ n \in 1 .. Len(prog[w]) /\ DOMAIN prog[w] = 1 .. Len(prog[w])
      /\ i.op \in {"load", "store"}
      /\ i.sectors \in Seq(Sector)
      /\ p \in 1 .. Len(i.sectors)
      /\ \A r \in inflight : r[1] = w /\ r[2] = n => r[3] < p
      /\ \A c \in Subs : unit[c] # Idle /\ unit[c][1] = w /\ unit[c][2] = n => c = s
      /\ w \in warp_vec /\ w[1] \in block_vec
      /\ s \in UnitsOf(w)
      /\ pending_inst[w] \in Nat \ {0}
  BY <1>1, UnitFacts
<1>4. q \notin inflight
  <2>1. q[1] = w /\ q[2] = n /\ q[3] = p
    OBVIOUS
  <2>2. p \in Nat /\ \A r \in inflight : r[1] = w /\ r[2] = n => r[3] < p
    BY <1>3
  <2>. HIDE DEF w, n, p, q
  <2>. QED
    BY <2>1, <2>2
<1>5. cycles \in Nat /\ cycles # INT_MAX
  BY <1>0, SmAssumption DEF Inv, TimeInv, TypeOK, INT_MAX
<1>6. /\ pending_request' \in [Warps -> Seq(Nat)] /\ m_pending_mem_request_num' \in [Warps -> Nat]
      /\ \A v \in Warps : Len(pending_request'[v]) = Len(prog[v])
      /\ \A v \in Warps : m_pending_mem_request_num'[v] = Cardinality(OfWarp(v)')
      /\ \A v \in Warps : \A k \in DOMAIN prog[v] : pending_request'[v][k] = Cardinality(OfInst(v, k)')
  <2>1. CASE load
    <3>. HIDE DEF s, w, n, p, q
    <3>. QED
      BY <1>1, <1>2, <1>3, <1>4, <2>1, SendCounts DEF q
  <2>2. CASE ~load
    <3>1. \A v, k : OfWarp(v)' = OfWarp(v) /\ OfInst(v, k)' = OfInst(v, k)
      BY <1>2, <2>2 DEF OfWarp, OfInst
    <3>2. UNCHANGED <<pending_request, m_pending_mem_request_num>>
      BY <1>2, <2>2
    <3>. QED
      BY <1>0, <3>1, <3>2 DEF TypeOK, Accounting
  <2>. QED
    BY <2>1, <2>2
<1>7. inflight' = inflight \cup (IF load THEN {q} ELSE {})
  BY <1>2
<1>. HIDE DEF s, w, n, p, i, q, load, last
<1>8. \A c \in Subs : unit'[c] = IF c = s THEN IF last THEN Idle ELSE <<w, n, p + 1>> ELSE unit[c]
  BY <1>0, <1>1, <1>2 DEF TypeOK
<1>9. \A c \in Subs : c # s => ready'[c] = ready[c]
  BY <1>0, <1>2 DEF TypeOK
<1>10. TypeOK'
  <2>1. busy' \subseteq 0 .. 3
    <3>1. i.sectors[p] \in Sector
      BY <1>3
    <3>2. Bank(i.sectors[p]) \in 0 .. 3
      BY <3>1 DEF Sector, Bank
    <3>. QED
      BY <1>0, <1>1, <3>2 DEF TypeOK
  <2>2. pending_inst' \in [Warps -> Nat]
    <3>1. pending_inst[w] - 1 \in Nat
      BY <1>3
    <3>2. pending_inst \in [Warps -> Nat]
      BY <1>0 DEF TypeOK
    <3>3. \/ pending_inst' = pending_inst
          \/ pending_inst' = [pending_inst EXCEPT ![w] = pending_inst[w] - 1]
      BY <1>2
    <3>. QED
      BY <3>1, <3>2, <3>3
  <2>3. unit' \in [Subs -> {Idle} \cup (Warps \X (Nat \ {0}) \X (Nat \ {0}))]
    <3>1. <<w, n, p + 1>> \in Warps \X (Nat \ {0}) \X (Nat \ {0})
      BY <1>3
    <3>. QED
      BY <1>0, <1>2, <3>1 DEF TypeOK
  <2>4. ready' \in [Subs -> [UnitKinds -> Nat]]
    <3>1. ready[s] \in [UnitKinds -> Nat]
      BY <1>0, <1>1 DEF TypeOK
    <3>2. [ready[s] EXCEPT !["lds"] = cycles] \in [UnitKinds -> Nat]
      BY <1>5, <3>1
    <3>3. last => ready' = [ready EXCEPT ![s] = [ready[s] EXCEPT !["lds"] = cycles]]
      BY <1>2
    <3>. QED
      BY <1>0, <1>2, <3>2, <3>3 DEF TypeOK
  <2>5. inflight' \subseteq Warps \X (Nat \ {0}) \X (Nat \ {0}) \X Nat
    <3>1. q \in Warps \X (Nat \ {0}) \X (Nat \ {0}) \X Nat
      BY <1>3, <1>5 DEF q
    <3>. QED
      BY <1>0, <1>7, <3>1 DEF TypeOK
  <2>6. turn' \in Nat /\ request_nums' \in Nat
    BY <1>0, <1>1 DEF TypeOK
  <2>. QED
    BY <1>0, <1>1, <1>6, <2>1, <2>2, <2>3, <2>4, <2>5, <2>6 DEF TypeOK
<1>11. ProgInv' /\ TimeInv' /\ RoomInv' /\ SlowInv'
  BY <1>0, <1>1 DEF Inv, ProgInv, TimeInv, RoomInv, SlowInv
<1>12. \A r \in inflight' : r \in inflight \/ (r = q /\ load)
  BY <1>7
<1>13. q[1] = w /\ q[2] = n /\ q[3] = p
  BY DEF q
<1>14. FlightInv'
  <2>1. IsFiniteSet(inflight')
    <3>1. IsFiniteSet(inflight)
      BY <1>0 DEF FlightInv
    <3>2. IsFiniteSet(inflight \cup {q})
      BY <3>1, FS_AddElement
    <3>. QED
      BY <1>7, <3>1, <3>2
  <2>2. \A r \in inflight' : r[2] \in 1 .. warp_point[r[1]]
    BY <1>0, <1>3, <1>12, <1>13 DEF FlightInv
  <2>. QED
    BY <1>1, <2>1, <2>2 DEF FlightInv
<1>15. UnitInv'
  <2>. SUFFICES ASSUME NEW c \in Subs, unit'[c] # Idle
                PROVE  /\ unit'[c][2] \in 1 .. warp_point[unit'[c][1]]
                       /\ prog[unit'[c][1]][unit'[c][2]].op \in {"load", "store"}
                       /\ unit'[c][3] \in 1 .. Len(prog[unit'[c][1]][unit'[c][2]].sectors)
                       /\ ready'[c].lds = INT_MAX
                       /\ \A r \in inflight' : r[1] = unit'[c][1] /\ r[2] = unit'[c][2] => r[3] < unit'[c][3]
                       /\ \A d \in Subs : unit'[d] # Idle /\ unit'[d][1] = unit'[c][1] /\ unit'[d][2] = unit'[c][2] => d = c
    BY <1>1 DEF UnitInv
  <2>1. \A d \in Subs : unit'[d] # Idle =>
          unit[d] # Idle /\ unit'[d][1] = unit[d][1] /\ unit'[d][2] = unit[d][2]
    BY <1>1, <1>3, <1>8
  <2>2. \A d \in Subs : unit'[d] # Idle /\ unit'[d][1] = unit'[c][1] /\ unit'[d][2] = unit'[c][2] => d = c
    BY <1>0, <2>1 DEF UnitInv
  <2>3. CASE c = s
    <3>1. ~last /\ unit'[c] = <<w, n, p + 1>>
      BY <1>1, <1>8, <2>3
    <3>2. p + 1 \in 1 .. Len(i.sectors)
      BY <1>3, <3>1 DEF last
    <3>3. ready'[c] = ready[s] /\ ready[s].lds = INT_MAX
      BY <1>0, <1>1, <1>2, <2>3, <3>1 DEF UnitInv
    <3>4. ASSUME NEW r \in inflight', r[1] = w, r[2] = n
          PROVE  r[3] < p + 1
      <4>1. CASE r \in inflight
        <5>1. r[3] < p /\ r[3] \in Nat
          BY <1>0, <1>3, <3>4, <4>1 DEF TypeOK
        <5>. QED
          BY <1>3, <5>1
      <4>2. CASE r = q
        BY <1>3, <1>13, <4>2
      <4>. QED
        BY <1>12, <4>1, <4>2
    <3>. QED
      BY <1>3, <2>2, <3>1, <3>2, <3>3, <3>4 DEF i
  <2>4. CASE c # s
    <3>1. unit'[c] = unit[c] /\ ready'[c] = ready[c]
      BY <1>8, <1>9, <2>4
    <3>2. ~(unit[c][1] = w /\ unit[c][2] = n)
      BY <1>3, <2>4, <3>1
    <3>3. \A r \in inflight' : r[1] = unit[c][1] /\ r[2] = unit[c][2] => r \in inflight
      BY <1>12, <1>13, <3>2
    <3>. QED
      BY <1>0, <2>2, <3>1, <3>3 DEF UnitInv
  <2>. QED
    BY <2>3, <2>4
<1>16. \A v : UnitsOf(v)' = IF v = w /\ last THEN UnitsOf(w) \ {s} ELSE UnitsOf(v)
  <2>1. \A v : \A c \in Subs : unit'[c] # Idle /\ unit'[c][1] = v <=>
                                 unit[c] # Idle /\ unit[c][1] = v /\ ~(c = s /\ last)
    BY <1>1, <1>3, <1>8 DEF Idle
  <2>2. \A c \in Subs : c = s => unit[c][1] = w
    BY DEF w
  <2>. QED
    BY <1>1, <2>1, <2>2 DEF UnitsOf
<1>17. \A v \in Warps : pending_inst'[v] = Cardinality(UnitsOf(v)')
  <2>. TAKE v \in Warps
  <2>1. pending_inst[v] = Cardinality(UnitsOf(v)) /\ pending_inst[v] \in Nat
    BY <1>0 DEF Accounting, TypeOK
  <2>2. CASE v = w /\ last
    <3>1. Cardinality(UnitsOf(w) \ {s}) = Cardinality(UnitsOf(w)) - 1
      BY <1>0, <1>3, OutstandingFinite, FS_RemoveElement
    <3>2. pending_inst'[v] = pending_inst[w] - 1
      BY <1>0, <1>2, <1>3, <2>2 DEF TypeOK
    <3>. QED
      BY <1>16, <2>1, <2>2, <3>1, <3>2
  <2>3. CASE ~(v = w /\ last)
    <3>1. pending_inst'[v] = pending_inst[v]
      BY <1>0, <1>2, <2>3 DEF TypeOK
    <3>. QED
      BY <1>16, <2>1, <2>3, <3>1
  <2>. QED
    BY <2>2, <2>3
<1>18. ASSUME NEW v \in Warps, NEW k \in 1 .. warp_point[v], completions[v][k] = INT_MAX
       PROVE  Unreleased(v, k)'
  <2>1. Unreleased(v, k) /\ prog[v][k].op \in {"load", "atom"}
    BY <1>0, <1>18 DEF Accounting, SlowInv
  <2>2. CASE OfInst(v, k) # {}
    <3>1. OfInst(v, k)' # {}
      BY <1>7, <2>2 DEF OfInst
    <3>. QED
      BY <3>1 DEF Unreleased
  <2>3. CASE OfInst(v, k) = {}
    <3>1. PICK c \in Subs : unit[c] # Idle /\ unit[c][1] = v /\ unit[c][2] = k
      BY <2>1, <2>3 DEF Unreleased
    <3>2. CASE c # s \/ ~last
      <4>1. unit'[c] # Idle /\ unit'[c][1] = v /\ unit'[c][2] = k
        BY <1>1, <1>3, <1>8, <3>1, <3>2 DEF Idle
      <4>. QED
        BY <4>1 DEF Unreleased
    <3>3. CASE c = s /\ last
      <4>1. v = w /\ k = n
        BY <3>1, <3>3 DEF w, n
      <4>2. load
        BY <1>3, <2>1, <4>1 DEF load, i
      <4>3. q \in OfInst(v, k)'
        BY <1>7, <1>13, <4>1, <4>2 DEF OfInst
      <4>. QED
        BY <4>3 DEF Unreleased
    <3>. QED
      BY <3>2, <3>3
  <2>. QED
    BY <2>2, <2>3
<1>19. Accounting'
  BY <1>1, <1>6, <1>17, <1>18 DEF Accounting
<1>20. NoOrphanReply'
  <2>1. ASSUME NEW v \in Warps, OfWarp(v)' # {} \/ UnitsOf(v)' # {}
        PROVE  v \in warp_vec /\ v[1] \in block_vec
    <3>1. v = w \/ OfWarp(v) # {} \/ UnitsOf(v) # {}
      BY <1>12, <1>13, <1>16, <2>1 DEF OfWarp
    <3>. QED
      BY <1>0, <1>3, <3>1 DEF NoOrphanReply
  <2>2. \A v \in Warps \ warp_vec' : ~HasNext(v)'
    BY <1>0, <1>1 DEF NoOrphanReply, HasNext
  <2>. QED
    BY <1>1, <2>1, <2>2 DEF NoOrphanReply
<1>. QED
  BY <1>10, <1>11, <1>14, <1>15, <1>19, <1>20 DEF Inv
-----------------------------------------------------------------------------
(* Issuing.                                                                 *)

\* What the issue of a warp's next instruction does whatever the instruction is;
\* it will be complete at t.
Issues(w, s, t) ==
  /\ w \in Live(turn) /\ turn \in block_vec /\ fault = "none"
  /\ s \in Subs /\ HasNext(w) /\ check_dependency(w) /\ check_unit(w, s)
  /\ complete_at(w, t)
  /\ warp_point' = [warp_point EXCEPT ![w] = @ + 1]
  /\ inst_executed' \in {"masked", "threads"}
  /\ warp_vec' = {v \in warp_vec : ~(v[1] = turn /\ v[2] < w[2] /\ Retirable(v))}
  /\ free_subs' = free_subs \ {s}
  /\ turn' = turn + 1
  /\ UNCHANGED <<kernelVars, stage, cycles, block_pointer, block_vec, busy, request_nums, verdict, fault>>

LEMMA IssueFacts ==
  ASSUME Inv, NEW w, NEW s, NEW t \in Nat, Issues(w, s, t)
  PROVE  LET n == warp_point[w] + 1 IN
         /\ w \in Warps /\ w \in warp_vec' /\ w[1] \in block_vec
         /\ n \in 1 .. Len(prog[w]) /\ n \in 1 .. warp_point'[w]
         /\ DOMAIN prog[w] = 1 .. Len(prog[w]) /\ NextInst(w) = prog[w][n]
         /\ UnitKind(NextInst(w)) = "lds" => unit[s] = Idle
         /\ OfInst(w, n) = {}
         /\ \A c \in Subs : unit[c] # Idle => ~(unit[c][1] = w /\ unit[c][2] = n)
         /\ warp_point' \in [Warps -> Nat] /\ completions' \in [Warps -> Seq(Nat)]
         /\ \A v \in Warps : warp_point'[v] <= Len(prog[v]) /\ Len(completions'[v]) = warp_point'[v]
                             /\ \A k \in 1 .. warp_point[v] : k \in 1 .. warp_point'[v]
         /\ \A v \in Warps : \A k \in 1 .. warp_point'[v] :
              \/ v = w /\ k = n /\ completions'[v][k] = t
              \/ ~(v = w /\ k = n) /\ k \in 1 .. warp_point[v] /\ completions'[v][k] = completions[v][k]
         /\ \A v \in Warps : OfWarp(v) # {} \/ UnitsOf(v) # {} => v \in warp_vec' /\ v[1] \in block_vec'
         /\ \A v \in Warps \ warp_vec' : ~HasNext(v)'
<1>. DEFINE n == warp_point[w] + 1
<1>0. TypeOK /\ ProgInv /\ FlightInv /\ UnitInv /\ NoOrphanReply
  BY DEF Inv
<1>1. w \in Warps /\ w \in warp_vec /\ w[1] \in block_vec /\ warp_point[w] \in Nat
  BY <1>0 DEF Issues, Live, TypeOK
<1>2. Len(prog[w]) \in Nat /\ DOMAIN prog[w] = 1 .. Len(prog[w])
  BY <1>0, <1>1, ProgFacts
<1>3. n \in 1 .. Len(prog[w]) /\ n \in Nat /\ NextInst(w) = prog[w][n]
  BY <1>1, <1>2 DEF Issues, HasNext, NextInst
<1>4. UnitKind(NextInst(w)) = "lds" => unit[s] = Idle
  <2>1. s \in Subs /\ Ready(s, UnitKind(NextInst(w)))
    BY DEF Issues, check_unit
  <2>2. cycles < INT_MAX /\ cycles \in Nat
    BY SmAssumption DEF Inv, TimeInv, TypeOK, INT_MAX
  <2>. QED
    BY <1>0, <2>1, <2>2 DEF Ready, UnitInv, INT_MAX
<1>5. OfInst(w, n) = {}
  <2>1. \A r \in inflight : r[1] = w => r[2] # n
    BY <1>0, <1>1 DEF FlightInv
  <2>. QED
    BY <2>1 DEF OfInst
<1>6. \A c \in Subs : unit[c] # Idle => ~(unit[c][1] = w /\ unit[c][2] = n)
  BY <1>0, <1>1 DEF UnitInv
<1>7. warp_point' = [warp_point EXCEPT ![w] = n] /\ completions' = [completions EXCEPT ![w] = Append(completions[w], t)]
  BY DEF Issues, complete_at
<1>. HIDE DEF n
<1>8. warp_point' \in [Warps -> Nat] /\ completions' \in [Warps -> Seq(Nat)]
  <2>1. warp_point \in [Warps -> Nat] /\ completions \in [Warps -> Seq(Nat)]
    BY <1>0 DEF TypeOK
  <2>2. n \in Nat /\ Append(completions[w], t) \in Seq(Nat)
    BY <1>1, <1>3, <2>1
  <2>. QED
    BY <1>7, <2>1, <2>2
<1>9. \A v \in Warps : /\ warp_point'[v] = (IF v = w THEN n ELSE warp_point[v])
                       /\ completions'[v] = (IF v = w THEN Append(completions[w], t) ELSE completions[v])
  BY <1>0, <1>7 DEF TypeOK
<1>10. completions[w] \in Seq(Nat) /\ Len(completions[w]) = warp_point[w]
  BY <1>0, <1>1 DEF TypeOK
<1>11. /\ Len(Append(completions[w], t)) = n
       /\ Append(completions[w], t)[n] = t
       /\ \A k \in 1 .. warp_point[w] : Append(completions[w], t)[k] = completions[w][k]
  BY <1>1, <1>10 DEF n
<1>12. ASSUME NEW v \in Warps
       PROVE  warp_point'[v] <= Len(prog[v]) /\ Len(completions'[v]) = warp_point'[v]
              /\ \A k \in 1 .. warp_point[v] : k \in 1 .. warp_point'[v]
  <2>1. CASE v = w
    <3>1. \A k \in 1 .. warp_point[w] : k \in 1 .. n
      BY <1>1 DEF n
    <3>2. n <= Len(prog[w])
      BY <1>2, <1>3
    <3>. QED
      BY <1>9, <1>11, <2>1, <3>1, <3>2
  <2>2. CASE v # w
    BY <1>0, <1>9, <2>2 DEF TypeOK
  <2>. QED
    BY <2>1, <2>2
<1>13. ASSUME NEW v \in Warps, NEW k \in 1 .. warp_point'[v]
       PROVE  \/ v = w /\ k = n /\ completions'[v][k] = t
              \/ ~(v = w /\ k = n) /\ k \in 1 .. warp_point[v] /\ completions'[v][k] = completions[v][k]
  <2>1. CASE v = w
    <3>1. k = n \/ k \in 1 .. warp_point[w]
      BY <1>1, <1>9, <2>1 DEF n
    <3>2. n \notin 1 .. warp_point[w]
      BY <1>1 DEF n
    <3>. QED
      BY <1>9, <1>11, <2>1, <3>1, <3>2
  <2>2. CASE v # w
    BY <1>9, <2>2
  <2>. QED
    BY <2>1, <2>2
<1>14. warp_vec' = {v \in warp_vec : ~(v[1] = turn /\ v[2] < w[2] /\ Retirable(v))} /\ block_vec' = block_vec
       /\ prog' = prog
  BY DEF Issues, kernelVars
<1>15. w \in warp_vec'
  <2>1. ~Retirable(w)
    BY DEF Issues, Retirable
  <2>. QED
    BY <1>1, <1>14, <2>1
<1>16. \A v \in Warps : OfWarp(v) # {} \/ UnitsOf(v) # {} => v \in warp_vec' /\ v[1] \in block_vec'
  BY <1>14, OutstandingStays
<1>17. ASSUME NEW v \in Warps \ warp_vec'
       PROVE  ~HasNext(v)'
  <2>1. v # w /\ ~HasNext(v)
    BY <1>0, <1>14, <1>15 DEF NoOrphanReply, Retirable
  <2>2. warp_point'[v] = warp_point[v]
    BY <1>9, <2>1
  <2>. QED
    BY <1>14, <2>1, <2>2 DEF HasNext
<1>18. n \in 1 .. warp_point'[w]
  BY <1>1, <1>3, <1>9
<1>. QED
  BY <1>1, <1>2, <1>3, <1>4, <1>5, <1>6, <1>8, <1>12, <1>13, <1>15, <1>16, <1>17, <1>18 DEF n

\* The counters agree with what is outstanding.
CountInv ==
  \A v \in Warps : /\ m_pending_mem_request_num[v] = Cardinality(OfWarp(v))
                   /\ pending_inst[v] = Cardinality(UnitsOf(v))
                   /\ \A k \in DOMAIN prog[v] : pending_request[v][k] = Cardinality(OfInst(v, k))

MemTypes ==
  /\ pending_request \in [Warps -> Seq(Nat)]
  /\ \A v \in Warps : Len(pending_request[v]) = Len(prog[v])
  /\ m_pending_mem_request_num \in [Warps -> Nat]
  /\ pending_inst \in [Warps -> Nat]
  /\ unit \in [Subs -> {Idle} \cup (Warps \X (Nat \ {0}) \X (Nat \ {0}))]
  /\ ready \in [Subs -> [UnitKinds -> Nat]]
  /\ inflight \subseteq Warps \X (Nat \ {0}) \X (Nat \ {0}) \X Nat

\* An issue preserves the invariant if it starts what an instruction that is to
\* be answered waits for, and keeps the counters right.
LEMMA IssueKeeps ==
  ASSUME Inv, NEW w, NEW s, NEW t \in Nat, Issues(w, s, t), NEW n, n = warp_point[w] + 1,
         MemTypes', FlightInv', UnitInv', CountInv',
         t = INT_MAX => prog[w][n].op \in {"load", "atom"} /\ Unreleased(w, n)',
         \A v, k : Unreleased(v, k) => Unreleased(v, k)',
         \A v : /\ OfWarp(v)' # {} => v = w \/ OfWarp(v) # {}
                /\ UnitsOf(v)' # {} => v = w \/ UnitsOf(v) # {}
  PROVE  Inv'
<1>0. TypeOK /\ ProgInv /\ TimeInv /\ RoomInv /\ SlowInv /\ Accounting /\ NoOrphanReply
  BY DEF Inv
<1>1. /\ w \in Warps /\ w \in warp_vec' /\ w[1] \in block_vec
      /\ n \in 1 .. Len(prog[w]) /\ n \in 1 .. warp_point'[w]
      /\ warp_point' \in [Warps -> Nat] /\ completions' \in [Warps -> Seq(Nat)]
      /\ \A v \in Warps : warp_point'[v] <= Len(prog[v]) /\ Len(completions'[v]) = warp_point'[v]
      /\ \A v \in Warps : \A k \in 1 .. warp_point'[v] :
           \/ v = w /\ k = n /\ completions'[v][k] = t
           \/ ~(v = w /\ k = n) /\ k \in 1 .. warp_point[v] /\ completions'[v][k] = completions[v][k]
      /\ \A v \in Warps : OfWarp(v) # {} \/ UnitsOf(v) # {} => v \in warp_vec' /\ v[1] \in block_vec'
      /\ \A v \in Warps \ warp_vec' : ~HasNext(v)'
  BY IssueFacts
<1>2. UNCHANGED <<trace, prog, stage, cycles, block_pointer, block_vec, busy, request_nums, verdict, fault>>
      /\ warp_vec' \subseteq warp_vec /\ free_subs' \subseteq free_subs /\ turn' = turn + 1
      /\ inst_executed' \in {"masked", "threads"}
  BY DEF Issues, kernelVars
<1>3. TypeOK'
  <2>1. turn' \in Nat
    BY <1>0, <1>2 DEF TypeOK
  <2>2. /\ pending_request' \in [Warps -> Seq(Nat)]
        /\ \A v \in Warps : Len(pending_request'[v]) = Len(prog[v])
        /\ m_pending_mem_request_num' \in [Warps -> Nat]
        /\ pending_inst' \in [Warps -> Nat]
        /\ unit' \in [Subs -> {Idle} \cup (Warps \X (Nat \ {0}) \X (Nat \ {0}))]
        /\ ready' \in [Subs -> [UnitKinds -> Nat]]
        /\ inflight' \subseteq Warps \X (Nat \ {0}) \X (Nat \ {0}) \X Nat
    BY <1>2 DEF MemTypes
  <2>. QED
    BY <1>0, <1>1, <1>2, <2>1, <2>2 DEF TypeOK
<1>4. ProgInv' /\ TimeInv' /\ RoomInv'
  BY <1>0, <1>2 DEF ProgInv, TimeInv, RoomInv
<1>5. SlowInv'
  <2>. SUFFICES ASSUME NEW v \in Warps, NEW k \in 1 .. warp_point'[v], completions'[v][k] = INT_MAX
                PROVE  prog[v][k].op \in {"load", "atom"}
    BY <1>2 DEF SlowInv
  <2>1. CASE v = w /\ k = n
    <3>1. t = INT_MAX
      BY <1>1, <2>1
    <3>. QED
      BY <2>1, <3>1
  <2>2. CASE ~(v = w /\ k = n)
    <3>1. k \in 1 .. warp_point[v] /\ completions[v][k] = INT_MAX
      BY <1>1, <2>2
    <3>. QED
      BY <1>0, <3>1 DEF SlowInv
  <2>. QED
    BY <2>1, <2>2
<1>6. Accounting'
  <2>1. ASSUME NEW v \in Warps, NEW k \in 1 .. warp_point'[v], completions'[v][k] = INT_MAX
        PROVE  Unreleased(v, k)'
    <3>1. CASE v = w /\ k = n
      BY <1>1, <2>1, <3>1
    <3>2. CASE ~(v = w /\ k = n)
      <4>1. k \in 1 .. warp_point[v] /\ completions[v][k] = INT_MAX
        BY <1>1, <2>1, <3>2
      <4>2. Unreleased(v, k)
        BY <1>0, <4>1 DEF Accounting
      <4>. QED
        BY <4>2
    <3>. QED
      BY <3>1, <3>2
  <2>. QED
    BY <2>1 DEF Accounting, CountInv
<1>7. NoOrphanReply'
  BY <1>0, <1>1, <1>2 DEF NoOrphanReply
<1>. QED
  BY <1>3, <1>4, <1>5, <1>6, <1>7 DEF Inv

\* An instruction with a fixed latency.
LEMMA IssueFixedStep ==
  ASSUME Inv, NEW w, NEW s, NEW t \in Nat, Issues(w, s, t), t # INT_MAX,
         ready' = Occupied(s, UnitKind(NextInst(w))),
         UNCHANGED <<pending_request, m_pending_mem_request_num, pending_inst, unit, inflight>>
  PROVE  Inv'
<1>. DEFINE u == UnitKind(NextInst(w))
<1>0. TypeOK /\ FlightInv /\ UnitInv /\ Accounting
  BY DEF Inv
<1>1. /\ u = "lds" => unit[s] = Idle
      /\ \A v \in Warps : \A k \in 1 .. warp_point[v] : k \in 1 .. warp_point'[v]
  BY IssueFacts
<1>2. prog' = prog
  BY DEF Issues, kernelVars
<1>3. u \in UnitKinds
  <2>1. w \in Warps /\ NextInst(w) = prog[w][warp_point[w] + 1] /\ warp_point[w] + 1 \in DOMAIN prog[w]
    BY IssueFacts
  <2>2. NextInst(w).op \in Ops
    BY <2>1, ProgFacts DEF Inv
  <2>. QED
    BY <2>2 DEF UnitKind, UnitKinds, Ops
<1>. HIDE DEF u
<1>4. ready' \in [Subs -> [UnitKinds -> Nat]] /\ \A c \in Subs : ready'[c].lds = ready[c].lds \/ (u = "lds" /\ c = s)
  <2>1. ready' = [c \in Subs |-> IF c = s \/ u = "dp" THEN [ready[c] EXCEPT ![u] = @ + Interval[u]] ELSE ready[c]]
    BY DEF Occupied, u
  <2>2. ASSUME NEW c \in Subs
        PROVE  /\ [ready[c] EXCEPT ![u] = @ + Interval[u]] \in [UnitKinds -> Nat]
               /\ u # "lds" => [ready[c] EXCEPT ![u] = @ + Interval[u]].lds = ready[c].lds
    <3>1. ready[c] \in [UnitKinds -> Nat] /\ Interval[u] \in Nat
      BY <1>0, <1>3, SmAssumption DEF TypeOK
    <3>2. ready[c][u] + Interval[u] \in Nat
      BY <1>3, <3>1
    <3>3. "lds" \in UnitKinds
      BY DEF UnitKinds
    <3>. QED
      BY <1>3, <3>1, <3>2, <3>3
  <2>3. \A c \in Subs : ready[c] \in [UnitKinds -> Nat]
    BY <1>0 DEF TypeOK
  <2>. QED
    BY <2>1, <2>2, <2>3
<1>5. \A v, k : OfWarp(v)' = OfWarp(v) /\ UnitsOf(v)' = UnitsOf(v) /\ OfInst(v, k)' = OfInst(v, k)
                /\ Unreleased(v, k)' = Unreleased(v, k)
  BY DEF OfWarp, UnitsOf, OfInst, Unreleased
<1>6. MemTypes' /\ CountInv'
  BY <1>0, <1>2, <1>4, <1>5 DEF MemTypes, CountInv, TypeOK, Accounting
<1>7. FlightInv'
  BY <1>0, <1>1 DEF FlightInv, TypeOK
<1>8. UnitInv'
  <2>. SUFFICES ASSUME NEW c \in Subs, unit[c] # Idle
                PROVE  /\ unit[c][2] \in 1 .. warp_point'[unit[c][1]]
                       /\ ready'[c].lds = INT_MAX
    BY <1>0, <1>2 DEF UnitInv
  <2>1. unit[c][1] \in Warps /\ unit[c][2] \in 1 .. warp_point[unit[c][1]] /\ ready[c].lds = INT_MAX
    BY UnitFacts
  <2>. QED
    BY <1>1, <1>4, <2>1
<1>. QED
  BY <1>5, <1>6, <1>7, <1>8, IssueKeeps

\* A load or store with addresses takes the unit.
LEMMA IssueGlobalStep ==
  ASSUME Inv, NEW w, NEW s, NEW t \in Nat, Issues(w, s, t), IssueGlobal(w, s),
         t = INT_MAX => NextInst(w).op = "load"
  PROVE  Inv'
<1>0. TypeOK /\ FlightInv /\ UnitInv /\ Accounting
  BY DEF Inv
<1>. DEFINE n == warp_point[w] + 1
            i == prog[w][n]
<1>1. /\ w \in Warps /\ n \in 1 .. Len(prog[w]) /\ n \in 1 .. warp_point'[w]
      /\ DOMAIN prog[w] = 1 .. Len(prog[w]) /\ NextInst(w) = i
      /\ UnitKind(NextInst(w)) = "lds" => unit[s] = Idle
      /\ OfInst(w, n) = {}
      /\ \A c \in Subs : unit[c] # Idle => ~(unit[c][1] = w /\ unit[c][2] = n)
      /\ \A v \in Warps : \A k \in 1 .. warp_point[v] : k \in 1 .. warp_point'[v]
  BY IssueFacts
<1>2. prog' = prog /\ s \in Subs
  BY DEF Issues, kernelVars
<1>3. /\ i.op \in {"load", "store"} /\ i.sectors # <<>>
      /\ ready' = [ready EXCEPT ![s].lds = INT_MAX]
      /\ unit' = [unit EXCEPT ![s] = <<w, n, 1>>]
      /\ pending_inst' = [pending_inst EXCEPT ![w] = pending_inst[w] + 1]
      /\ UNCHANGED <<pending_request, m_pending_mem_request_num, inflight>>
  BY <1>1 DEF IssueGlobal, HasAddresses
<1>4. unit[s] = Idle
  BY <1>1, <1>3 DEF UnitKind
<1>5. i.sectors \in Seq(Sector)
  BY <1>1, ProgFacts DEF Inv
<1>6. PICK m : m = n
  OBVIOUS
<1>. HIDE DEF n, i
<1>7. \A c \in Subs : unit'[c] = IF c = s THEN <<w, m, 1>> ELSE unit[c]
  BY <1>0, <1>3, <1>6 DEF TypeOK
<1>8. ready' \in [Subs -> [UnitKinds -> Nat]] /\ ready'[s].lds = INT_MAX /\ \A c \in Subs : c # s => ready'[c] = ready[c]
  <2>1. ready[s] \in [UnitKinds -> Nat] /\ INT_MAX \in Nat /\ "lds" \in UnitKinds
    BY <1>0, <1>2 DEF TypeOK, INT_MAX, UnitKinds
  <2>2. [ready[s] EXCEPT !["lds"] = INT_MAX] \in [UnitKinds -> Nat] /\ [ready[s] EXCEPT !["lds"] = INT_MAX]["lds"] = INT_MAX
    BY <2>1
  <2>3. ready' = [ready EXCEPT ![s] = [ready[s] EXCEPT !["lds"] = INT_MAX]]
    BY <1>3
  <2>. QED
    BY <1>0, <1>2, <2>2, <2>3 DEF TypeOK
<1>9. \A v, k : OfWarp(v)' = OfWarp(v) /\ OfInst(v, k)' = OfInst(v, k)
  BY <1>3 DEF OfWarp, OfInst
<1>10. \A v : UnitsOf(v)' = IF v = w THEN UnitsOf(w) \cup {s} ELSE UnitsOf(v)
  <2>1. \A v : \A c \in Subs : unit'[c] # Idle /\ unit'[c][1] = v <=>
                                 (unit[c] # Idle /\ unit[c][1] = v) \/ (c = s /\ v = w)
    BY <1>2, <1>4, <1>7 DEF Idle
  <2>. QED
    BY <1>2, <2>1 DEF UnitsOf
<1>11. \A v \in Warps : pending_inst'[v] = Cardinality(UnitsOf(v)')
  <2>. TAKE v \in Warps
  <2>1. pending_inst[v] = Cardinality(UnitsOf(v)) /\ pending_inst[v] \in Nat
    BY <1>0 DEF Accounting, TypeOK
  <2>2. CASE v = w
    <3>1. s \notin UnitsOf(w)
      BY <1>4 DEF UnitsOf
    <3>2. Cardinality(UnitsOf(w) \cup {s}) = Cardinality(UnitsOf(w)) + 1
      BY <1>0, <3>1, OutstandingFinite, FS_AddElement
    <3>3. pending_inst'[v] = pending_inst[w] + 1
      BY <1>0, <1>1, <1>3, <2>2 DEF TypeOK
    <3>. QED
      BY <1>10, <2>1, <2>2, <3>2, <3>3
  <2>3. CASE v # w
    BY <1>0, <1>3, <1>10, <2>1, <2>3 DEF TypeOK
  <2>. QED
    BY <2>2, <2>3
<1>12. CountInv'
  BY <1>0, <1>2, <1>3, <1>9, <1>11 DEF CountInv, Accounting
<1>13. MemTypes'
  <2>1. pending_inst' \in [Warps -> Nat]
    <3>1. pending_inst \in [Warps -> Nat]
      BY <1>0 DEF TypeOK
    <3>2. pending_inst[w] + 1 \in Nat
      BY <1>1, <3>1
    <3>. QED
      BY <1>3, <3>1, <3>2
  <2>2. unit' \in [Subs -> {Idle} \cup (Warps \X (Nat \ {0}) \X (Nat \ {0}))]
    <3>1. <<w, n, 1>> \in Warps \X (Nat \ {0}) \X (Nat \ {0})
      BY <1>1
    <3>. QED
      BY <1>0, <1>3, <3>1 DEF TypeOK
  <2>. QED
    BY <1>0, <1>2, <1>3, <1>8, <2>1, <2>2 DEF MemTypes, TypeOK
<1>14. FlightInv'
  BY <1>0, <1>1, <1>3 DEF FlightInv, TypeOK
<1>15. UnitInv'
  <2>. SUFFICES ASSUME NEW c \in Subs, unit'[c] # Idle
                PROVE  /\ unit'[c][2] \in 1 .. warp_point'[unit'[c][1]]
                       /\ prog[unit'[c][1]][unit'[c][2]].op \in {"load", "store"}
                       /\ unit'[c][3] \in 1 .. Len(prog[unit'[c][1]][unit'[c][2]].sectors)
                       /\ ready'[c].lds = INT_MAX
                       /\ \A r \in inflight : r[1] = unit'[c][1] /\ r[2] = unit'[c][2] => r[3] < unit'[c][3]
                       /\ \A d \in Subs : unit'[d] # Idle /\ unit'[d][1] = unit'[c][1] /\ unit'[d][2] = unit'[c][2] => d = c
    BY <1>2, <1>3 DEF UnitInv
  <2>1. CASE c = s
    <3>1. unit'[c] = <<w, n, 1>>
      BY <1>6, <1>7, <2>1
    <3>2. 1 \in 1 .. Len(i.sectors)
      BY <1>3, <1>5
    <3>3. \A r \in inflight : ~(r[1] = w /\ r[2] = n)
      BY <1>1 DEF OfInst
    <3>. QED
      BY <1>1, <1>3, <1>6, <1>7, <1>8, <2>1, <3>1, <3>2, <3>3 DEF i
  <2>2. CASE c # s
    <3>1. unit'[c] = unit[c] /\ ready'[c] = ready[c]
      BY <1>7, <1>8, <2>2
    <3>2. unit[c][1] \in Warps /\ unit[c][2] \in 1 .. warp_point[unit[c][1]]
      BY <3>1, UnitFacts
    <3>3. ~(unit[c][1] = w /\ unit[c][2] = n)
      BY <1>1, <3>1
    <3>4. \A d \in Subs : unit'[d] # Idle /\ unit'[d][1] = unit[c][1] /\ unit'[d][2] = unit[c][2] => d = c
      BY <1>0, <1>6, <1>7, <3>1, <3>3 DEF UnitInv
    <3>. QED
      BY <1>0, <1>1, <3>1, <3>2, <3>4 DEF UnitInv
  <2>. QED
    BY <2>1, <2>2
<1>16. Unreleased(w, m)'
  <2>1. unit'[s] # Idle /\ unit'[s][1] = w /\ unit'[s][2] = m
    BY <1>2, <1>7 DEF Idle
  <2>. QED
    BY <1>2, <2>1 DEF Unreleased
<1>17. \A v, k : Unreleased(v, k) => Unreleased(v, k)'
  <2>1. \A c \in Subs : unit[c] # Idle => unit'[c] = unit[c]
    BY <1>4, <1>7
  <2>. QED
    BY <1>9, <2>1 DEF Unreleased
<1>18. t = INT_MAX => prog[w][m].op \in {"load", "atom"} /\ Unreleased(w, m)'
  BY <1>1, <1>6, <1>16 DEF i
<1>19. m = warp_point[w] + 1
  BY <1>6 DEF n
<1>. QED
  BY <1>9, <1>10, <1>12, <1>13, <1>14, <1>15, <1>17, <1>18, <1>19, IssueKeeps

\* An atomic sends all its sectors at once.
LEMMA IssueAtomicStep ==
  ASSUME Inv, NEW w, NEW s, Issues(w, s, INT_MAX), IssueAtomic(w, s)
  PROVE  Inv'
<1>0. TypeOK /\ FlightInv /\ UnitInv /\ Accounting
  BY DEF Inv
<1>. DEFINE n == warp_point[w] + 1
            i == prog[w][n]
            L == Len(i.sectors)
            N == {<<w, n, k, cycles>> : k \in DOMAIN i.sectors}
            x == pending_request[w][n] + L
            y == m_pending_mem_request_num[w] + L
<1>i. INT_MAX \in Nat
  BY DEF INT_MAX
<1>1. /\ w \in Warps /\ n \in 1 .. Len(prog[w]) /\ n \in 1 .. warp_point'[w]
      /\ DOMAIN prog[w] = 1 .. Len(prog[w]) /\ NextInst(w) = i
      /\ UnitKind(NextInst(w)) = "lds" => unit[s] = Idle
      /\ OfInst(w, n) = {}
      /\ \A c \in Subs : unit[c] # Idle => ~(unit[c][1] = w /\ unit[c][2] = n)
      /\ \A v \in Warps : \A k \in 1 .. warp_point[v] : k \in 1 .. warp_point'[v]
  BY <1>i, IssueFacts
<1>2. prog' = prog /\ s \in Subs
  BY DEF Issues, kernelVars
<1>3. /\ i.op = "atom"
      /\ ready' = [ready EXCEPT ![s].lds = @ + 4]
      /\ pending_request' = [pending_request EXCEPT ![w] = [pending_request[w] EXCEPT ![n] = x]]
      /\ m_pending_mem_request_num' = [m_pending_mem_request_num EXCEPT ![w] = y]
      /\ inflight' = inflight \cup N
      /\ UNCHANGED <<pending_inst, unit>>
  BY <1>0, <1>1 DEF IssueAtomic, TypeOK
<1>4. unit[s] = Idle
  BY <1>1, <1>3 DEF UnitKind
<1>5. i.sectors \in Seq(Sector) /\ i.sectors # <<>>
  BY <1>1, <1>3, ProgFacts DEF Inv
<1>6. L \in Nat \ {0} /\ DOMAIN i.sectors = 1 .. L
  BY <1>5
<1>7. cycles \in Nat /\ n \in Nat \ {0}
  BY <1>0, <1>1 DEF TypeOK
<1>8. PICK m : m = n
  OBVIOUS
<1>. HIDE DEF n, i, L
<1>9. IsFiniteSet(N) /\ Cardinality(N) = L
  <2>. DEFINE f == [k \in 1 .. L |-> <<w, n, k, cycles>>]
  <2>1. N = {<<w, n, k, cycles>> : k \in 1 .. L}
    BY <1>6
  <2>2. f \in [1 .. L -> N]
    BY <2>1
  <2>3. f \in Injection(1 .. L, N)
    BY <2>2 DEF Injection, IsInjective
  <2>4. f \in Surjection(1 .. L, N)
    BY <2>1, <2>2 DEF Surjection
  <2>5. f \in Bijection(1 .. L, N)
    BY <2>3, <2>4 DEF Bijection
  <2>. HIDE DEF f, N
  <2>6. IsFiniteSet(1 .. L) /\ Cardinality(1 .. L) = L
    BY <1>6, FS_Interval
  <2>. QED
    BY <2>5, <2>6, FS_Bijection DEF ExistsBijection
<1>10. \A r \in N : r[1] = w /\ r[2] = n /\ r \in Warps \X (Nat \ {0}) \X (Nat \ {0}) \X Nat
  <2>1. \A k \in DOMAIN i.sectors : k \in Nat \ {0}
    BY <1>6
  <2>. QED
    BY <1>1, <1>7, <2>1
<1>. HIDE DEF N
<1>11. \A v : OfWarp(v)' = (IF v = w THEN OfWarp(w) \cup N ELSE OfWarp(v)) /\ UnitsOf(v)' = UnitsOf(v)
  BY <1>3, <1>10 DEF OfWarp, UnitsOf
<1>12. \A v, k : OfInst(v, k)' = IF v = w /\ k = n THEN N ELSE OfInst(v, k)
  BY <1>1, <1>3, <1>10 DEF OfInst
<1>13. Cardinality(OfWarp(w) \cup N) = y /\ y \in Nat
  <2>1. OfWarp(w) \cap N = {}
    BY <1>1, <1>10 DEF OfWarp, OfInst
  <2>2. IsFiniteSet(OfWarp(w)) /\ Cardinality(OfWarp(w)) = m_pending_mem_request_num[w]
        /\ m_pending_mem_request_num[w] \in Nat
    BY <1>0, <1>1, OutstandingFinite DEF Accounting, TypeOK
  <2>3. Cardinality(OfWarp(w) \cup N) = Cardinality(OfWarp(w)) + Cardinality(N) - Cardinality(OfWarp(w) \cap N)
    BY <1>9, <2>2, FS_Union
  <2>4. Cardinality(OfWarp(w) \cap N) = 0
    BY <2>1, FS_EmptySet, Zenon
  <2>. QED
    BY <1>6, <1>9, <2>2, <2>3, <2>4
<1>14. x = L
  <2>1. pending_request[w][n] = Cardinality(OfInst(w, n))
    BY <1>0, <1>1 DEF Accounting
  <2>2. Cardinality(OfInst(w, n)) = 0
    BY <1>1, FS_EmptySet
  <2>. QED
    BY <1>6, <2>1, <2>2
<1>. HIDE DEF x, y
<1>15. /\ [pending_request[w] EXCEPT ![n] = x] \in Seq(Nat)
       /\ Len([pending_request[w] EXCEPT ![n] = x]) = Len(pending_request[w])
  <2>1. pending_request[w] \in Seq(Nat) /\ n \in 1 .. Len(pending_request[w]) /\ x \in Nat
    BY <1>0, <1>1, <1>6, <1>14 DEF TypeOK
  <2>. QED
    BY <2>1, SeqUpdate
<1>16. \A v \in Warps : /\ pending_request'[v] = (IF v = w THEN [pending_request[w] EXCEPT ![n] = x] ELSE pending_request[v])
                        /\ m_pending_mem_request_num'[v] = (IF v = w THEN y ELSE m_pending_mem_request_num[v])
  BY <1>0, <1>3 DEF TypeOK
<1>17. CountInv'
  <2>1. ASSUME NEW v \in Warps
        PROVE  m_pending_mem_request_num'[v] = Cardinality(OfWarp(v)') /\ pending_inst'[v] = Cardinality(UnitsOf(v)')
    BY <1>0, <1>3, <1>11, <1>13, <1>16 DEF Accounting
  <2>2. ASSUME NEW v \in Warps, NEW k \in DOMAIN prog[v]
        PROVE  pending_request'[v][k] = Cardinality(OfInst(v, k)')
    <3>1. pending_request'[v][k] = IF v = w /\ k = n THEN x ELSE pending_request[v][k]
      <4>1. pending_request[v] \in Seq(Nat) /\ k \in 1 .. Len(pending_request[v])
        BY <1>0, ProgFacts DEF TypeOK, Inv
      <4>2. v = w => [pending_request[w] EXCEPT ![n] = x][k] = IF k = n THEN x ELSE pending_request[w][k]
        BY <4>1
      <4>. QED
        BY <1>16, <4>2
    <3>2. pending_request[v][k] = Cardinality(OfInst(v, k))
      BY <1>0 DEF Accounting
    <3>. QED
      BY <1>9, <1>12, <1>14, <3>1, <3>2
  <2>. QED
    BY <1>2, <2>1, <2>2 DEF CountInv
<1>18. ready' \in [Subs -> [UnitKinds -> Nat]] /\ \A c \in Subs : c # s => ready'[c] = ready[c]
  <2>1. ready[s] \in [UnitKinds -> Nat] /\ "lds" \in UnitKinds
    BY <1>0, <1>2 DEF TypeOK, UnitKinds
  <2>2. ready[s]["lds"] + 4 \in Nat
    BY <2>1
  <2>3. [ready[s] EXCEPT !["lds"] = ready[s]["lds"] + 4] \in [UnitKinds -> Nat]
    BY <2>1, <2>2
  <2>4. ready' = [ready EXCEPT ![s] = [ready[s] EXCEPT !["lds"] = ready[s]["lds"] + 4]]
    BY <1>0, <1>2, <1>3 DEF TypeOK
  <2>. QED
    BY <1>0, <1>2, <2>3, <2>4 DEF TypeOK
<1>19. MemTypes'
  <2>1. pending_request' \in [Warps -> Seq(Nat)] /\ \A v \in Warps : Len(pending_request'[v]) = Len(prog'[v])
    BY <1>0, <1>2, <1>3, <1>15, <1>16 DEF TypeOK
  <2>2. m_pending_mem_request_num' \in [Warps -> Nat]
    BY <1>0, <1>3, <1>13 DEF TypeOK
  <2>3. inflight' \subseteq Warps \X (Nat \ {0}) \X (Nat \ {0}) \X Nat
    BY <1>0, <1>3, <1>10 DEF TypeOK
  <2>. QED
    BY <1>0, <1>3, <1>18, <2>1, <2>2, <2>3 DEF MemTypes, TypeOK
<1>20. FlightInv'
  <2>1. IsFiniteSet(inflight')
    BY <1>0, <1>3, <1>9, FS_Union DEF FlightInv
  <2>2. \A r \in inflight' : r[2] \in 1 .. warp_point'[r[1]]
    <3>1. \A r \in inflight : r[1] \in Warps /\ r[2] \in 1 .. warp_point[r[1]]
      BY <1>0 DEF FlightInv, TypeOK
    <3>. QED
      BY <1>1, <1>3, <1>10, <3>1
  <2>. QED
    BY <2>1, <2>2 DEF FlightInv
<1>21. UnitInv'
  <2>. SUFFICES ASSUME NEW c \in Subs, unit[c] # Idle
                PROVE  /\ unit[c][2] \in 1 .. warp_point'[unit[c][1]]
                       /\ ready'[c].lds = INT_MAX
                       /\ \A r \in inflight' : r[1] = unit[c][1] /\ r[2] = unit[c][2] => r[3] < unit[c][3]
    BY <1>0, <1>2, <1>3 DEF UnitInv
  <2>1. unit[c][1] \in Warps /\ unit[c][2] \in 1 .. warp_point[unit[c][1]] /\ ready[c].lds = INT_MAX
        /\ \A r \in inflight : r[1] = unit[c][1] /\ r[2] = unit[c][2] => r[3] < unit[c][3]
    BY UnitFacts
  <2>2. c # s /\ ~(unit[c][1] = w /\ unit[c][2] = n)
    BY <1>1, <1>4
  <2>3. ready'[c] = ready[c]
    BY <1>18, <2>2
  <2>4. \A r \in inflight' : r[1] = unit[c][1] /\ r[2] = unit[c][2] => r \in inflight
    BY <1>3, <1>10, <2>2
  <2>. QED
    BY <1>1, <2>1, <2>3, <2>4
<1>22. OfInst(w, m)' # {}
  <2>1. N # {}
    BY <1>6, <1>9, FS_EmptySet
  <2>. QED
    BY <1>8, <1>12, <2>1
<1>23. prog[w][m].op \in {"load", "atom"} /\ Unreleased(w, m)'
  BY <1>3, <1>8, <1>22 DEF Unreleased, i
<1>24. \A v, k : Unreleased(v, k) => Unreleased(v, k)'
  BY <1>1, <1>3, <1>12 DEF Unreleased
<1>25. m = warp_point[w] + 1
  BY <1>8 DEF n
<1>. QED
  BY <1>i, <1>11, <1>17, <1>19, <1>20, <1>21, <1>23, <1>24, <1>25, IssueKeeps

\* A scheduling step that issues is one of the three kinds.
LEMMA ScheduleIssueKinds ==
  ASSUME Inv, ScheduleIssue
  PROVE  \E w, s : \E t \in Nat :
           /\ Issues(w, s, t)
           /\ \A v \in Live(turn) : v[2] < w[2] => ~Issuable(v)
           /\ \/ /\ t # INT_MAX
                 /\ ready' = Occupied(s, UnitKind(NextInst(w)))
                 /\ UNCHANGED <<pending_request, m_pending_mem_request_num, pending_inst, unit, inflight>>
                 /\ NextInst(w).op \in {"load", "store"} => ~HasAddresses(NextInst(w))
              \/ IssueGlobal(w, s) /\ (t = INT_MAX => NextInst(w).op = "load")
              \/ IssueAtomic(w, s) /\ t = INT_MAX
<1>1. PICK w \in Live(turn), s \in Subs :
        /\ Issuable(w)
        /\ \A v \in Live(turn) : v[2] < w[2] => ~Issuable(v)
        /\ check_unit(w, s)
        /\ IssueFixed(w, s) \/ IssueGlobal(w, s) \/ IssueAtomic(w, s)
        /\ warp_point' = [warp_point EXCEPT ![w] = @ + 1]
        /\ inst_executed' = IF NextInst(w).active \/ inst_executed = "threads" THEN "threads" ELSE "masked"
        /\ warp_vec' = {v \in warp_vec : ~(v[1] = turn /\ v[2] < w[2] /\ Retirable(v))}
        /\ free_subs' = free_subs \ {s}
  BY DEF ScheduleIssue
<1>2. \A t : complete_at(w, t) => Issues(w, s, t)
  BY <1>1 DEF ScheduleIssue, Issues, Issuable
<1>3. cycles \in Nat /\ cycles <= MaxCycles
  BY DEF Inv, TypeOK, TimeInv
<1>. DEFINE i == NextInst(w)
<1>4. CASE IssueFixed(w, s)
  <2>1. CASE i.op \in {"alu", "dp", "shared"} /\ complete_at(w, cycles + Latency[i.op])
    <3>1. cycles + Latency[i.op] \in Nat /\ cycles + Latency[i.op] # INT_MAX
      BY <1>3, <2>1, SmAssumption DEF INT_MAX
    <3>. QED
      BY <1>1, <1>2, <1>4, <2>1, <3>1 DEF IssueFixed
  <2>2. CASE i.op \in {"load", "store"} /\ ~HasAddresses(i) /\ complete_at(w, cycles + 1)
    <3>1. cycles + 1 \in Nat /\ cycles + 1 # INT_MAX
      BY <1>3, SmAssumption DEF INT_MAX
    <3>. QED
      BY <1>1, <1>2, <1>4, <2>2, <3>1 DEF IssueFixed
  <2>. QED
    BY <1>4, <2>1, <2>2 DEF IssueFixed
<1>5. CASE IssueGlobal(w, s)
  <2>1. cycles + 1 \in Nat /\ cycles + 1 # INT_MAX /\ INT_MAX \in Nat
    BY <1>3, SmAssumption DEF INT_MAX
  <2>2. i.op \in {"load", "store"} /\ complete_at(w, IF i.op = "store" THEN cycles + 1 ELSE INT_MAX)
    BY <1>5 DEF IssueGlobal
  <2>3. CASE i.op = "store"
    <3>1. complete_at(w, cycles + 1)
      BY <2>2, <2>3
    <3>. QED
      BY <1>1, <1>2, <1>5, <2>1, <3>1
  <2>4. CASE i.op = "load"
    <3>1. complete_at(w, INT_MAX)
      BY <2>2, <2>4
    <3>. QED
      BY <1>1, <1>2, <1>5, <2>1, <2>4, <3>1
  <2>. QED
    BY <2>2, <2>3, <2>4
<1>6. CASE IssueAtomic(w, s)
  <2>1. complete_at(w, INT_MAX) /\ INT_MAX \in Nat
    BY <1>6 DEF IssueAtomic, INT_MAX
  <2>. QED
    BY <1>1, <1>2, <1>6, <2>1
<1>. QED
  BY <1>1, <1>4, <1>5, <1>6

LEMMA ScheduleIssueStep ==
  ASSUME Inv, ScheduleIssue
  PROVE  Inv'
BY ScheduleIssueKinds, IssueFixedStep, IssueGlobalStep, IssueAtomicStep
-----------------------------------------------------------------------------
(* The invariant and what follows from it.                                  *)

LEMMA InvInit ==
  ASSUME Init
  PROVE  Inv
<1>. USE DEF Init
<1>1. ProgInv
  BY DEF ProgInv
<1>2. \A w \in Warps : Len(prog[w]) \in Nat /\ DOMAIN prog[w] = 1 .. Len(prog[w])
  BY <1>1, ProgFacts
<1>3. block_pointer \in 0 .. NumBlocks /\ block_pointer <= MaxBlocks /\ block_vec = 0 .. (block_pointer - 1)
  BY SmAssumption DEF Lesser
<1>4. TypeOK
  <2>1. \A w \in Warps : [n \in DOMAIN prog[w] |-> 0] \in Seq(Nat) /\ Len([n \in DOMAIN prog[w] |-> 0]) = Len(prog[w])
    <3>. TAKE w \in Warps
    <3>1. [n \in DOMAIN prog[w] |-> 0] \in [1 .. Len(prog[w]) -> Nat]
      BY <1>2
    <3>. QED
      BY <1>2, <3>1
  <2>2. block_vec \subseteq Blocks
    BY <1>3, SmAssumption DEF Blocks
  <2>3. pending_request \in [Warps -> Seq(Nat)] /\ \A w \in Warps : Len(pending_request[w]) = Len(prog[w])
    BY <2>1
  <2>4. completions \in [Warps -> Seq(Nat)] /\ \A w \in Warps : Len(completions[w]) = warp_point[w]
    <3>1. <<>> \in Seq(Nat) /\ Len(<<>>) = 0
      OBVIOUS
    <3>. QED
      BY <3>1
  <2>. QED
    BY <1>2, <1>3, <2>2, <2>3, <2>4, SmAssumption DEF TypeOK
<1>5. RoomInv /\ TimeInv
  <2>. DEFINE last == block_pointer - 1
  <2>1. last \in Int /\ block_vec = 0 .. last
    BY <1>3
  <2>. HIDE DEF last
  <2>2. Cardinality(0 .. last) = IF 0 > last THEN 0 ELSE last - 0 + 1
    BY <2>1, FS_Interval
  <2>3. Cardinality(block_vec) <= MaxBlocks
    BY <1>3, <2>1, <2>2, SmAssumption DEF last
  <2>. QED
    BY <2>3, SmAssumption DEF RoomInv, TimeInv
<1>6. FlightInv /\ UnitInv /\ SlowInv
  BY FS_EmptySet DEF FlightInv, UnitInv, SlowInv
<1>7. Accounting
  <2>1. \A w, n : OfWarp(w) = {} /\ UnitsOf(w) = {} /\ OfInst(w, n) = {}
    BY DEF OfWarp, UnitsOf, OfInst
  <2>2. \A w \in Warps : \A n \in DOMAIN prog[w] : pending_request[w][n] = 0
    OBVIOUS
  <2>3. \A w \in Warps : 1 .. warp_point[w] = {}
    OBVIOUS
  <2>. QED
    BY <2>1, <2>2, <2>3, FS_EmptySet DEF Accounting
<1>8. NoOrphanReply
  BY DEF NoOrphanReply, OfWarp, UnitsOf
<1>. QED
  BY <1>1, <1>4, <1>5, <1>6, <1>7, <1>8 DEF Inv

LEMMA InvNext ==
  ASSUME Inv, [Next]_vars
  PROVE  Inv'
<1>1. CASE \E r \in inflight : Reply(r)
  BY <1>1, ReplyStep
<1>2. CASE UnitSends
  BY <1>2, UnitSendsStep
<1>3. CASE ScheduleIssue
  BY <1>3, ScheduleIssueStep
<1>4. CASE StartCycle \/ EndReplies \/ UnitWaits \/ Refill \/ ScheduleRetire \/ ScheduleSkip
           \/ EndCycle \/ UNCHANGED vars
  BY <1>4, QuietSteps
<1>. QED
  BY <1>1, <1>2, <1>3, <1>4 DEF Next, Step, Terminated

\* What an SM keeps of its warps, its units and the requests on their way fits
\* together at every step of a cycle.
THEOREM InvAlways == Spec => []Inv
<1>1. Init => Inv
  BY InvInit
<1>2. Inv /\ [Next]_vars => Inv'
  BY InvNext
<1>. QED
  BY <1>1, <1>2, PTL DEF Spec

\* Instruction counters, queues and statistics of the SM stay in range: no
\* counter of outstanding requests falls below zero (kernel.h:188-204).
THEOREM TypeCorrect == Spec => []TypeOK
<1>1. Inv => TypeOK
  BY DEF Inv
<1>. QED
  BY <1>1, InvAlways, PTL

\* Whatever the memory system does, a reply always finds its block, its warp and
\* a pending request: none of the error exits of get_block, get_warp and
\* write_back_request_l2 is met.
THEOREM NoReplyIsOrphaned == Spec => []NoOrphanReply
<1>1. Inv => NoOrphanReply
  BY DEF Inv
<1>. QED
  BY <1>1, InvAlways, PTL

\* The three counters of a warp agree with what is outstanding, and no wake-up
\* is lost.
THEOREM CountersAgree == Spec => []Accounting
<1>1. Inv => Accounting
  BY DEF Inv
<1>. QED
  BY <1>1, InvAlways, PTL
-----------------------------------------------------------------------------
(* Dependencies.                                                            *)

\* An instruction depends on the last of the earlier writers of a register that
\* it reads or writes, and a fence on those of every register.
LEMMA LastWriterIsDep ==
  ASSUME ProgInv, NEW w \in Warps, NEW j \in DOMAIN prog[w], NEW m \in 1 .. (j - 1), NEW r \in prog[w][m].dst,
         r \in prog[w][j].dst \cup prog[w][j].src \/ prog[w][j].fence
  PROVE  \E l \in prog[w][j].deps : l \in m .. (j - 1) /\ r \in prog[w][l].dst
<1>. DEFINE t == trace[w]
            sass == t.sass
<1>1. t \in Traces /\ DOMAIN prog[w] = DOMAIN sass /\ Len(prog[w]) \in Nat /\ DOMAIN prog[w] = 1 .. Len(prog[w])
      /\ \A n \in DOMAIN prog[w] : prog[w][n] = Inst(t, n)
  BY ProgFacts
<1>. HIDE DEF t
<1>2. \A n \in DOMAIN prog[w] : /\ prog[w][n].dst = sass[n].dst /\ prog[w][n].src = sass[n].src
                                /\ prog[w][n].fence = sass[n].fence
                                /\ prog[w][n].deps = get_inst_dependency(sass, n)
  <2>. TAKE n \in DOMAIN prog[w]
  <2>1. /\ Inst(t, n).dst = sass[n].dst /\ Inst(t, n).src = sass[n].src
        /\ Inst(t, n).fence = sass[n].fence
        /\ Inst(t, n).deps = get_inst_dependency(sass, n)
    BY DEF Inst
  <2>. QED
    BY <1>1, <2>1
<1>3. j \in Nat /\ m \in Nat /\ m \in DOMAIN prog[w] /\ j - 1 \in Nat
  BY <1>1
<1>. DEFINE W(n) == {k \in 1 .. n : r \in sass[k].dst}
<1>4. ASSUME NEW n \in {j - 1, j}, j \notin W(n)
      PROVE  /\ LastWriter(sass, n, r) \in m .. (j - 1)
             /\ r \in prog[w][LastWriter(sass, n, r)].dst
             /\ r \in Written(sass, n)
  <2>1. n \in Nat /\ m \in 1 .. n /\ 1 .. n \in SUBSET (0 .. n)
    BY <1>3, <1>4
  <2>2. m \in W(n)
    BY <1>2, <1>3, <2>1
  <2>3. W(n) \in SUBSET (0 .. n) /\ W(n) # {}
    BY <2>1, <2>2
  <2>4. Max(W(n)) \in W(n) /\ \A k \in W(n) : Max(W(n)) >= k
    <3>. HIDE DEF W
    <3>. QED
      BY <2>1, <2>3, GreatestNumber
  <2>5. LastWriter(sass, n, r) = Max(W(n))
    BY DEF LastWriter
  <2>. DEFINE l == Max(W(n))
  <2>6. l \in 1 .. n /\ r \in sass[l].dst /\ l >= m /\ l # j
    BY <1>4, <2>2, <2>4
  <2>. HIDE DEF l
  <2>7. l \in m .. (j - 1) /\ l \in DOMAIN prog[w]
    <3>1. l \in m .. (j - 1)
      BY <1>3, <1>4, <2>6
    <3>. QED
      BY <1>1, <1>3, <3>1
  <2>8. r \in Written(sass, n)
    BY <2>6 DEF Written
  <2>. QED
    BY <1>2, <2>5, <2>6, <2>7, <2>8 DEF l
<1>5. CASE r \in prog[w][j].dst \cup prog[w][j].src
  <2>1. j \notin W(j - 1)
    BY <1>3
  <2>. DEFINE l == LastWriter(sass, j - 1, r)
  <2>2. l \in m .. (j - 1) /\ r \in prog[w][l].dst /\ r \in Written(sass, j - 1)
    BY <1>4, <2>1
  <2>3. r \in sass[j].dst \cup sass[j].src
    BY <1>2, <1>5
  <2>4. l \in prog[w][j].deps
    BY <1>2, <2>2, <2>3 DEF get_inst_dependency, LastWriters
  <2>. QED
    BY <2>2, <2>4
<1>6. CASE prog[w][j].fence
  <2>1. sass[j].fence /\ sass[j].dst = {}
    BY <1>1, <1>2, <1>6, TraceAssumption
  <2>2. j \notin W(j)
    BY <2>1
  <2>. DEFINE l == LastWriter(sass, j, r)
  <2>3. l \in m .. (j - 1) /\ r \in prog[w][l].dst /\ r \in Written(sass, j)
    BY <1>4, <2>2
  <2>4. l \in prog[w][j].deps
    BY <1>2, <2>1, <2>3 DEF get_inst_dependency, LastWriters
  <2>. QED
    BY <2>3, <2>4
<1>. QED
  BY <1>5, <1>6

\* With the last writers all earlier writers are complete.
LEMMA DependenciesSuffice ==
  ASSUME Inv, OrderInv, NEW w \in Warps, HasNext(w), check_dependency(w), NEW m \in 1 .. warp_point[w],
         Feeds(prog[w][m], NextInst(w))
  PROVE  completions[w][m] <= cycles
<1>. DEFINE j == warp_point[w] + 1
<1>1. warp_point[w] \in Nat /\ Len(prog[w]) \in Nat /\ DOMAIN prog[w] = 1 .. Len(prog[w])
  BY ProgFacts DEF Inv, TypeOK
<1>2. j \in DOMAIN prog[w] /\ m \in 1 .. (j - 1) /\ NextInst(w) = prog[w][j] /\ j - 1 = warp_point[w]
  BY <1>1 DEF HasNext, NextInst
<1>. HIDE DEF j
<1>3. PICK r \in prog[w][m].dst : r \in prog[w][j].dst \cup prog[w][j].src \/ prog[w][j].fence
  BY <1>2 DEF Feeds
<1>4. PICK l \in prog[w][j].deps : l \in m .. (j - 1) /\ r \in prog[w][l].dst
  BY <1>2, <1>3, LastWriterIsDep DEF Inv
<1>5. completions[w][l] <= cycles
  BY <1>2, <1>4 DEF check_dependency
<1>6. CASE l = m
  BY <1>5, <1>6
<1>7. CASE l # m
  <2>1. l \in 1 .. warp_point[w] /\ m < l
    BY <1>1, <1>2, <1>4, <1>7
  <2>2. prog[w][m].dst \cap prog[w][l].dst # {}
    BY <1>3, <1>4
  <2>. QED
    BY <2>1, <2>2 DEF OrderInv
<1>. QED
  BY <1>6, <1>7

LEMMA OrderNext ==
  ASSUME Inv, Inv', OrderInv, [Next]_vars
  PROVE  OrderInv'
<1>0. TypeOK /\ ProgInv /\ TimeInv
  BY DEF Inv
<1>1. CASE UNCHANGED <<prog, warp_point, completions>> /\ cycles' >= cycles /\ cycles' \in Nat
  <2>. SUFFICES ASSUME NEW w \in Warps, NEW m \in 1 .. warp_point[w], NEW n \in 1 .. warp_point[w],
                       m < n, prog[w][m].dst \cap prog[w][n].dst # {}
                PROVE  completions[w][m] <= cycles'
    BY <1>1 DEF OrderInv
  <2>1. completions[w][m] <= cycles
    BY DEF OrderInv
  <2>2. completions[w][m] \in Nat /\ cycles \in Nat
    <3>1. /\ completions[w] \in Seq(Nat) /\ Len(completions[w]) = warp_point[w]
          /\ cycles \in Nat
      BY <1>0 DEF TypeOK
    <3>. QED
      BY <3>1
  <2>. QED
    BY <1>1, <2>1, <2>2
<1>2. ASSUME NEW r \in inflight, Reply(r)
      PROVE  OrderInv'
  <2>1. /\ UNCHANGED <<prog, warp_point, cycles>>
        /\ completions' = completions \/ completions' = [completions EXCEPT ![r[1]][r[2]] = cycles]
    BY <1>2 DEF Reply, decrease_pending_request, kernelVars
  <2>2. r[1] \in Warps /\ r[2] \in 1 .. warp_point[r[1]]
    BY RequestFacts
  <2>3. ASSUME NEW w \in Warps, NEW m \in 1 .. warp_point[w]
        PROVE  completions'[w][m] = completions[w][m] \/ completions'[w][m] = cycles
    <3>1. completions[w] \in Seq(Nat) /\ m \in 1 .. Len(completions[w])
      BY <1>0 DEF TypeOK
    <3>2. CASE completions' = [completions EXCEPT ![r[1]][r[2]] = cycles]
      <4>1. completions'[w] = IF w = r[1] THEN [completions[w] EXCEPT ![r[2]] = cycles] ELSE completions[w]
        BY <1>0, <2>2, <3>2 DEF TypeOK
      <4>2. [completions[w] EXCEPT ![r[2]] = cycles][m] = IF m = r[2] THEN cycles ELSE completions[w][m]
        BY <3>1
      <4>. QED
        BY <4>1, <4>2
    <3>. QED
      BY <2>1, <3>2
  <2>4. cycles <= cycles
    BY <1>0 DEF TypeOK
  <2>. QED
    BY <2>1, <2>3, <2>4 DEF OrderInv
<1>3. CASE ScheduleIssue
  <2>0. PICK w, s : \E t \in Nat : Issues(w, s, t)
    BY <1>3, ScheduleIssueKinds
  <2>1. PICK t \in Nat : Issues(w, s, t)
    BY <2>0
  <2>. DEFINE n == warp_point[w] + 1
  <2>2. /\ w \in Warps /\ NextInst(w) = prog[w][n] /\ warp_point[w] \in Nat
        /\ \A v \in Warps : \A k \in 1 .. warp_point'[v] :
             \/ v = w /\ k = n
             \/ ~(v = w /\ k = n) /\ k \in 1 .. warp_point[v] /\ completions'[v][k] = completions[v][k]
    <3>1. /\ w \in Warps /\ NextInst(w) = prog[w][n]
          /\ \A v \in Warps : \A k \in 1 .. warp_point'[v] :
               \/ v = w /\ k = n /\ completions'[v][k] = t
               \/ ~(v = w /\ k = n) /\ k \in 1 .. warp_point[v] /\ completions'[v][k] = completions[v][k]
      BY <2>1, IssueFacts
    <3>2. warp_point[w] \in Nat
      BY <1>0, <3>1 DEF TypeOK
    <3>. HIDE DEF n
    <3>. QED
      BY <3>1, <3>2
  <2>3. prog' = prog /\ cycles' = cycles /\ HasNext(w) /\ check_dependency(w)
    BY <2>1 DEF Issues, kernelVars
  <2>4. ASSUME NEW v \in Warps, NEW m \in 1 .. warp_point'[v], NEW k \in 1 .. warp_point'[v],
               m < k, prog[v][m].dst \cap prog[v][k].dst # {}
        PROVE  completions'[v][m] <= cycles
    <3>0. \A l \in 1 .. warp_point[w] : l < n
      BY <2>2
    <3>. HIDE DEF n
    <3>1. CASE v = w /\ k = n
      <4>1. m # n
        BY <1>0, <2>4, <3>1 DEF TypeOK
      <4>2. m \in 1 .. warp_point[w] /\ completions'[v][m] = completions[w][m]
        BY <2>2, <3>1, <4>1
      <4>3. Feeds(prog[w][m], NextInst(w))
        BY <2>2, <2>4, <3>1 DEF Feeds
      <4>. QED
        BY <2>2, <2>3, <4>2, <4>3, DependenciesSuffice
    <3>2. CASE ~(v = w /\ k = n)
      <4>1. k \in 1 .. warp_point[v]
        BY <2>2, <3>2
      <4>2. ~(v = w /\ m = n)
        <5>. SUFFICES ASSUME v = w, m = n
                      PROVE  FALSE
          OBVIOUS
        <5>1. k < n /\ n < k
          BY <2>4, <3>0, <4>1
        <5>2. k \in Int /\ n \in Int
          BY <2>2 DEF n
        <5>. QED
          BY <5>1, <5>2
      <4>3. m \in 1 .. warp_point[v] /\ completions'[v][m] = completions[v][m]
        BY <2>2, <4>2
      <4>. QED
        BY <2>4, <4>1, <4>3 DEF OrderInv
    <3>. QED
      BY <3>1, <3>2
  <2>. QED
    BY <2>3, <2>4 DEF OrderInv
<1>4. CASE StartCycle \/ EndReplies \/ UnitWaits \/ UnitSends \/ Refill \/ ScheduleRetire \/ ScheduleSkip
           \/ EndCycle \/ UNCHANGED vars
  <2>1. UNCHANGED <<prog, warp_point, completions>> /\ (cycles' = cycles \/ cycles' = cycles + 1)
    BY <1>4 DEF StartCycle, EndReplies, UnitWaits, UnitSends, Refill, ScheduleRetire, ScheduleSkip, EndCycle,
                vars, kernelVars, warpVars
  <2>2. cycles' >= cycles /\ cycles' \in Nat
    BY <1>0, <2>1 DEF TypeOK
  <2>. QED
    BY <1>1, <2>1, <2>2
<1>. QED
  BY <1>2, <1>3, <1>4 DEF Next, Step, Terminated

\* No instruction issues before everything it depends on, through any register
\* and any chain of writers, is marked complete.
THEOREM IssueIsOrdered == Spec => IssueOrdered
<1>1. Init => OrderInv
  <2>. SUFFICES ASSUME Init
                PROVE  OrderInv
    OBVIOUS
  <2>1. \A w \in Warps : 1 .. warp_point[w] = {}
    BY DEF Init
  <2>. QED
    BY <2>1 DEF OrderInv
<1>2. Inv /\ Inv' /\ OrderInv /\ [Next]_vars => OrderInv'
  BY OrderNext
<1>. DEFINE Ordered == \A w \in Warps : warp_point'[w] > warp_point[w] =>
              \A m \in 1 .. warp_point[w] : Feeds(prog[w][m], NextInst(w)) => completions[w][m] <= cycles
<1>3. ASSUME Inv, OrderInv, Next
      PROVE  Ordered
  <2>. SUFFICES ASSUME NEW w \in Warps, warp_point'[w] > warp_point[w], NEW m \in 1 .. warp_point[w],
                       Feeds(prog[w][m], NextInst(w))
                PROVE  completions[w][m] <= cycles
    OBVIOUS
  <2>1. warp_point' # warp_point
    <3>1. warp_point[w] \in Nat
      BY <1>3 DEF Inv, TypeOK
    <3>. QED
      BY <3>1
  <2>2. ScheduleIssue
    BY <1>3, <2>1 DEF Next, Step, Terminated, StartCycle, Reply, EndReplies, UnitWaits, UnitSends, Refill,
                      ScheduleRetire, ScheduleSkip, EndCycle, vars, kernelVars, warpVars
  <2>3. PICK v, s : \E t \in Nat : Issues(v, s, t)
    BY <1>3, <2>2, ScheduleIssueKinds
  <2>4. v = w /\ HasNext(w) /\ check_dependency(w)
    <3>1. warp_point' = [warp_point EXCEPT ![v] = @ + 1] /\ HasNext(v) /\ check_dependency(v)
      BY <2>3 DEF Issues
    <3>2. warp_point \in [Warps -> Nat] /\ ~(warp_point[w] > warp_point[w])
      BY <1>3 DEF Inv, TypeOK
    <3>3. v = w
      BY <3>1, <3>2
    <3>. QED
      BY <3>1, <3>3
  <2>. QED
    BY <1>3, <2>4, DependenciesSuffice
<1>4. Inv /\ OrderInv /\ [Next]_vars => [Ordered]_vars
  BY <1>3
<1>. QED
  BY <1>1, <1>2, <1>4, InvAlways, PTL DEF Spec, IssueOrdered
-----------------------------------------------------------------------------
(* The number of requests.                                                  *)

LEMMA SentNext ==
  ASSUME Inv, SentInv, [Next]_vars
  PROVE  SentInv'
<1>0. TypeOK /\ ProgInv /\ UnitInv
  BY DEF Inv
<1>1. CASE UNCHANGED <<prog, warp_point, unit, request_nums>>
  <2>1. Sent' = Sent
    BY <1>1 DEF Sent
  <2>. QED
    BY <1>1, <2>1 DEF SentInv
<1>2. CASE UnitSends
  <2>. DEFINE s == turn
              w == unit[s][1]
              n == unit[s][2]
              p == unit[s][3]
              i == prog[w][n]
              last == p = Len(i.sectors)
              x == <<w, n, p>>
  <2>1. s \in Subs /\ unit[s] # Idle /\ prog' = prog /\ warp_point' = warp_point /\ request_nums' = request_nums + 1
    BY <1>2 DEF UnitSends, kernelVars
  <2>2. /\ unit[s] = <<w, n, p>>
        /\ w \in Warps /\ n \in Nat \ {0} /\ p \in Nat \ {0}
        /\ n \in 1 .. warp_point[w]
        /\ i.op \in {"load", "store"}
        /\ i.sectors \in Seq(Sector) /\ p \in 1 .. Len(i.sectors)
        /\ \A c \in Subs : unit[c] # Idle /\ unit[c][1] = w /\ unit[c][2] = n => c = s
    BY <2>1, UnitFacts
  <2>3. \/ ~last /\ unit' = [unit EXCEPT ![s] = <<w, n, p + 1>>]
        \/ last /\ unit' = [unit EXCEPT ![s] = Idle]
    <3>1. \/ p < Len(i.sectors) /\ unit' = [unit EXCEPT ![s] = <<w, n, p + 1>>]
          \/ last /\ unit' = [unit EXCEPT ![s] = Idle]
      BY <1>2 DEF UnitSends
    <3>2. p < Len(i.sectors) => ~last
      <4>1. p \in Nat /\ i.sectors \in Seq(Sector)
        BY <2>2
      <4>. HIDE DEF p, i
      <4>2. Len(i.sectors) \in Nat
        BY <4>1
      <4>. QED
        BY <4>1, <4>2 DEF last
    <3>. QED
      BY <3>1, <3>2
  <2>. HIDE DEF s, w, n, p, i, last, x
  <2>4. \A c \in Subs : unit'[c] = IF c = s THEN IF last THEN Idle ELSE <<w, n, p + 1>> ELSE unit[c]
    BY <1>0, <2>1, <2>3 DEF TypeOK
  <2>5. x \notin Sent /\ x \in Warps \X Nat \X Nat /\ x[1] = w /\ x[2] = n /\ x[3] = p
    <3>1. x \in Warps \X Nat \X Nat /\ x[1] = w /\ x[2] = n /\ x[3] = p
      BY <2>2 DEF x
    <3>2. ~(p < p)
      BY <2>2
    <3>. QED
      BY <2>1, <2>2, <3>1, <3>2 DEF Sent
  <2>6. ASSUME NEW y \in Warps \X Nat \X Nat, y[1] = w, y[2] = n
        PROVE  (\A c \in Subs : unit'[c] # Idle /\ unit'[c][1] = y[1] /\ unit'[c][2] = y[2] => y[3] < unit'[c][3])
                 /\ y[3] \in 1 .. Len(i.sectors)
               <=> y[3] \in 1 .. p
    <3>1. \A c \in Subs : c # s => ~(unit'[c] # Idle /\ unit'[c][1] = w /\ unit'[c][2] = n)
      BY <2>2, <2>4
    <3>2. CASE last
      <4>1. \A c \in Subs : ~(unit'[c] # Idle /\ unit'[c][1] = w /\ unit'[c][2] = n)
        BY <2>4, <3>1, <3>2
      <4>. QED
        BY <2>6, <3>2, <4>1 DEF last
    <3>3. CASE ~last
      <4>1. unit'[s] = <<w, n, p + 1>> /\ unit'[s] # Idle
        <5>1. unit'[s] = <<w, n, p + 1>>
          BY <2>1, <2>4, <3>3
        <5>. QED
          BY <5>1 DEF Idle
      <4>2. (\A c \in Subs : unit'[c] # Idle /\ unit'[c][1] = y[1] /\ unit'[c][2] = y[2] => y[3] < unit'[c][3])
            <=> y[3] < p + 1
        BY <2>1, <2>6, <3>1, <4>1
      <4>3. y[3] \in Nat
        OBVIOUS
      <4>. QED
        BY <2>2, <4>2, <4>3
    <3>. QED
      BY <3>2, <3>3
  <2>7. ASSUME NEW y \in Warps \X Nat \X Nat, y[1] = w, y[2] = n
        PROVE  y \in Sent <=> y[3] \in 1 .. (p - 1)
    <3>1. (\A c \in Subs : unit[c] # Idle /\ unit[c][1] = w /\ unit[c][2] = n => y[3] < unit[c][3]) <=> y[3] < p
      BY <2>1, <2>2 DEF w, n, p
    <3>2. y[3] \in Nat
      OBVIOUS
    <3>3. y \in Sent <=> y[3] \in 1 .. Len(i.sectors) /\ y[3] < p
      BY <2>2, <2>7, <3>1 DEF Sent, i
    <3>. QED
      BY <2>2, <3>2, <3>3
  <2>8. Sent' = Sent \cup {x}
    <3>1. ASSUME NEW y \in Warps \X Nat \X Nat
          PROVE  y \in Sent' <=> y \in Sent \cup {x}
      <4>1. CASE y[1] = w /\ y[2] = n
        <5>1. y \in Sent' <=> y[3] \in 1 .. p
          BY <2>1, <2>2, <2>6, <4>1 DEF Sent, i
        <5>2. y \in Sent <=> y[3] \in 1 .. (p - 1)
          BY <2>7, <4>1
        <5>3. y = x <=> y[3] = p
          BY <2>5, <4>1 DEF x
        <5>4. y[3] \in Nat
          OBVIOUS
        <5>5. y[3] \in 1 .. p <=> y[3] \in 1 .. (p - 1) \/ y[3] = p
          BY <2>2, <5>4
        <5>. QED
          BY <5>1, <5>2, <5>3, <5>5
      <4>2. CASE ~(y[1] = w /\ y[2] = n)
        <5>1. \A c \in Subs : unit'[c] # Idle /\ unit'[c][1] = y[1] /\ unit'[c][2] = y[2] <=>
                              unit[c] # Idle /\ unit[c][1] = y[1] /\ unit[c][2] = y[2]
          BY <2>1, <2>2, <2>4, <4>2
        <5>2. \A c \in Subs : unit'[c] # Idle /\ unit'[c][1] = y[1] /\ unit'[c][2] = y[2] => unit'[c] = unit[c]
          BY <2>1, <2>2, <2>4, <4>2
        <5>3. y \in Sent' <=> y \in Sent
          BY <2>1, <5>1, <5>2 DEF Sent
        <5>4. y # x
          BY <2>5, <4>2
        <5>. QED
          BY <5>3, <5>4
      <4>. QED
        BY <4>1, <4>2
    <3>2. Sent' \subseteq Warps \X Nat \X Nat /\ Sent \cup {x} \subseteq Warps \X Nat \X Nat
      BY <2>5 DEF Sent
    <3>. QED
      BY <3>1, <3>2
  <2>9. IsFiniteSet(Sent \cup {x}) /\ Cardinality(Sent \cup {x}) = Cardinality(Sent) + 1
    BY <2>5, FS_AddElement DEF SentInv
  <2>. QED
    BY <2>1, <2>8, <2>9 DEF SentInv
<1>3. CASE ScheduleIssue
  <2>1. PICK w, s : \E t \in Nat :
          /\ Issues(w, s, t)
          /\ \/ unit' = unit /\ (NextInst(w).op \in {"load", "store"} => ~HasAddresses(NextInst(w)))
             \/ IssueGlobal(w, s)
             \/ IssueAtomic(w, s)
    BY <1>3, ScheduleIssueKinds
  <2>. DEFINE n == warp_point[w] + 1
              i == prog[w][n]
  <2>2. /\ w \in Warps /\ n \in 1 .. Len(prog[w]) /\ DOMAIN prog[w] = 1 .. Len(prog[w])
        /\ NextInst(w) = i
        /\ UnitKind(NextInst(w)) = "lds" => unit[s] = Idle
        /\ \A c \in Subs : unit[c] # Idle => ~(unit[c][1] = w /\ unit[c][2] = n)
    BY <2>1, IssueFacts
  <2>3. /\ s \in Subs /\ prog' = prog /\ request_nums' = request_nums
        /\ warp_point' = [warp_point EXCEPT ![w] = @ + 1]
    BY <2>1 DEF Issues, kernelVars
  <2>4. i.sectors \in Seq(Sector) /\ (i.op \in {"load", "store"} /\ ~i.active => i.sectors = <<>>)
    <3>1. i.op = trace[w].sass[n].op /\ n \in DOMAIN trace[w].sass
      BY <1>0, <2>2, ProgFacts
    <3>2. i.op \in {"load", "store"} => n \in MemInsts(trace[w])
      BY <3>1 DEF MemInsts, MemOps
    <3>. QED
      BY <1>0, <2>2, <3>2, ProgFacts
  <2>5. \/ /\ unit' = unit
           /\ i.op \in {"load", "store"} => i.sectors = <<>>
        \/ /\ unit[s] = Idle
           /\ unit' = [unit EXCEPT ![s] = <<w, n, 1>>]
    <3>1. CASE unit' = unit /\ (NextInst(w).op \in {"load", "store"} => ~HasAddresses(NextInst(w)))
      BY <2>2, <2>4, <3>1 DEF HasAddresses
    <3>2. CASE IssueGlobal(w, s)
      <4>1. unit' = [unit EXCEPT ![s] = <<w, n, 1>>] /\ NextInst(w).op \in {"load", "store"}
        BY <3>2 DEF IssueGlobal
      <4>. QED
        BY <2>2, <4>1 DEF UnitKind
    <3>3. CASE IssueAtomic(w, s)
      BY <2>2, <3>3 DEF IssueAtomic
    <3>. QED
      BY <2>1, <3>1, <3>2, <3>3
  <2>6. ASSUME NEW v \in Warps
        PROVE  /\ warp_point[v] \in Nat
               /\ warp_point'[v] = IF v = w THEN n ELSE warp_point[v]
    BY <1>0, <2>3 DEF TypeOK
  <2>7. n \in Nat /\ w \in Warps /\ n = warp_point[w] + 1 /\ unit \in [Subs -> {Idle} \cup (Warps \X (Nat \ {0}) \X (Nat \ {0}))]
    BY <1>0, <2>2, <2>6 DEF TypeOK
  <2>. HIDE DEF n, i
  <2>8. ASSUME NEW y \in Warps \X Nat \X Nat
        PROVE  y \in Sent' <=> y \in Sent
    <3>0. y[1] \in Warps /\ y[2] \in Nat /\ y[3] \in Nat
      OBVIOUS
    <3>1. CASE y[1] = w /\ y[2] = n
      <4>1. y \notin Sent
        <5>1. ~(n \in 1 .. warp_point[w])
          BY <2>6, <2>7
        <5>. QED
          BY <3>1, <5>1 DEF Sent
      <4>2. y \notin Sent'
        <5>1. CASE i.op \in {"load", "store"} => i.sectors = <<>>
          <6>1. i.sectors = <<>> => ~(y[3] \in 1 .. Len(i.sectors))
            BY <3>0
          <6>. QED
            BY <2>3, <3>1, <5>1, <6>1 DEF Sent, i
        <5>2. CASE unit' = [unit EXCEPT ![s] = <<w, n, 1>>]
          <6>1. unit'[s] = <<w, n, 1>> /\ unit'[s] # Idle
            BY <2>3, <2>7, <5>2 DEF Idle
          <6>2. y \in Sent' => y[3] < 1 /\ y[3] \in 1 .. Len(i.sectors)
            BY <2>3, <3>1, <6>1 DEF Sent, i
          <6>. QED
            BY <2>4, <3>0, <6>2
        <5>. QED
          BY <2>5, <5>1, <5>2
      <4>. QED
        BY <4>1, <4>2
    <3>2. CASE ~(y[1] = w /\ y[2] = n)
      <4>1. y[2] \in 1 .. warp_point'[y[1]] <=> y[2] \in 1 .. warp_point[y[1]]
        BY <2>6, <2>7, <3>0, <3>2
      <4>2. \A c \in Subs : \/ unit'[c] = unit[c]
                            \/ unit[c] = Idle /\ unit'[c] = <<w, n, 1>>
        BY <2>3, <2>5, <2>7
      <4>3. \A c \in Subs : (unit'[c] # Idle /\ unit'[c][1] = y[1] /\ unit'[c][2] = y[2] => y[3] < unit'[c][3]) <=>
                            (unit[c] # Idle /\ unit[c][1] = y[1] /\ unit[c][2] = y[2] => y[3] < unit[c][3])
        BY <3>2, <4>2
      <4>. QED
        BY <2>3, <4>1, <4>3 DEF Sent
    <3>. QED
      BY <3>1, <3>2
  <2>9. Sent' = Sent
    <3>1. Sent' \subseteq Warps \X Nat \X Nat /\ Sent \subseteq Warps \X Nat \X Nat
      BY DEF Sent
    <3>. QED
      BY <2>8, <3>1
  <2>. QED
    BY <2>3, <2>9 DEF SentInv
<1>4. CASE StartCycle \/ (\E r \in inflight : Reply(r)) \/ EndReplies \/ UnitWaits \/ Refill \/ ScheduleRetire
           \/ ScheduleSkip \/ EndCycle \/ UNCHANGED vars
  <2>1. UNCHANGED <<prog, warp_point, unit, request_nums>>
    BY <1>4 DEF StartCycle, Reply, EndReplies, UnitWaits, Refill, ScheduleRetire, ScheduleSkip, EndCycle,
                vars, kernelVars, warpVars, unitVars, statVars
  <2>. QED
    BY <1>1, <2>1
<1>. QED
  BY <1>2, <1>3, <1>4 DEF Next, Step, Terminated

\* The k-th sector of a memory instruction is the q-th of memory.
SectorIs(w, n, k, q) ==
  \E a \in ToSet(trace[w].mem[MemRank(trace[w], n)].addrs) :
    SectorOf(a) = prog[w][n].sectors[k] /\ q = a \div SECTOR_SIZE

\* The sectors of an instruction are those its threads touched, one for one.
LEMMA SectorsAreTouched ==
  ASSUME ProgInv, NEW w \in Warps, NEW n \in MemInsts(trace[w])
  PROVE  /\ \A k \in DOMAIN prog[w][n].sectors : \E q \in SectorsTouched(w, n) : SectorIs(w, n, k, q)
         /\ \A q \in SectorsTouched(w, n) : \E k \in DOMAIN prog[w][n].sectors : SectorIs(w, n, k, q)
         /\ \A k, q, r : SectorIs(w, n, k, q) /\ SectorIs(w, n, k, r) => q = r
         /\ \A q : \A j, k \in DOMAIN prog[w][n].sectors : SectorIs(w, n, j, q) /\ SectorIs(w, n, k, q) => j = k
<1>. DEFINE addrs == trace[w].mem[MemRank(trace[w], n)].addrs
            c == prog[w][n].sectors
<1>1. trace[w] \in Traces /\ n \in DOMAIN prog[w]
  BY ProgFacts DEF MemInsts
<1>2. addrs \in Seq(Nat)
  <2>1. MemRank(trace[w], n) \in DOMAIN trace[w].mem
    BY <1>1, MemRankCounts
  <2>2. trace[w].mem \in Seq(MemLine)
    BY <1>1, TraceAssumption
  <2>3. trace[w].mem[MemRank(trace[w], n)] \in MemLine
    BY <2>1, <2>2
  <2>. QED
    BY <2>3 DEF MemLine
<1>3. c = m_coalesced_address(addrs)
  BY <1>1, ProgFacts
<1>4. /\ SectorsTouched(w, n) = {a \div SECTOR_SIZE : a \in ToSet(addrs)}
      /\ \A k, q : SectorIs(w, n, k, q) <=> \E a \in ToSet(addrs) : SectorOf(a) = c[k] /\ q = a \div SECTOR_SIZE
  BY DEF SectorsTouched, SectorIs
<1>. HIDE DEF addrs, c
<1>5. /\ \A i \in DOMAIN c : \E k \in DOMAIN addrs : c[i] = SectorOf(addrs[k])
      /\ \A k \in DOMAIN addrs : \E i \in DOMAIN c : c[i] = SectorOf(addrs[k])
      /\ \A i, j \in DOMAIN c : c[i] = c[j] => i = j
  BY <1>2, <1>3, CoalescingIsExact
<1>6. ToSet(addrs) \in SUBSET Nat
  BY <1>2 DEF ToSet
<1>7. /\ \A i \in DOMAIN c : \E a \in ToSet(addrs) : c[i] = SectorOf(a)
      /\ \A a \in ToSet(addrs) : \E i \in DOMAIN c : c[i] = SectorOf(a)
  BY <1>5 DEF ToSet
<1>8. ASSUME NEW k \in DOMAIN c
      PROVE  \E q \in SectorsTouched(w, n) : SectorIs(w, n, k, q)
  <2>1. PICK a \in ToSet(addrs) : c[k] = SectorOf(a)
    BY <1>7
  <2>2. a \div SECTOR_SIZE \in SectorsTouched(w, n)
    BY <1>4
  <2>3. SectorIs(w, n, k, a \div SECTOR_SIZE)
    BY <1>4, <2>1
  <2>. QED
    BY <2>2, <2>3
<1>9. \A q \in SectorsTouched(w, n) : \E k \in DOMAIN c : SectorIs(w, n, k, q)
  BY <1>4, <1>7
<1>10. \A k, q, r : SectorIs(w, n, k, q) /\ SectorIs(w, n, k, r) => q = r
  BY <1>4, <1>6, SectorFacts
<1>11. \A q : \A j, k \in DOMAIN c : SectorIs(w, n, j, q) /\ SectorIs(w, n, k, q) => j = k
  BY <1>4, <1>5, <1>6, SectorFacts
<1>. QED
  BY <1>8, <1>9, <1>10, <1>11 DEF c

\* What is counted when the last warp has retired.
LEMMA AllIsSent ==
  ASSUME Inv, warp_vec = {}
  PROVE  \A x : x \in Sent <=> /\ x \in Warps \X Nat \X Nat
                               /\ x[2] \in UnitInsts(x[1])
                               /\ x[3] \in DOMAIN prog[x[1]][x[2]].sectors
<1>0. TypeOK /\ ProgInv /\ NoOrphanReply
  BY DEF Inv
<1>1. \A s \in Subs : unit[s] = Idle
  BY UnitFacts
<1>2. SUFFICES ASSUME NEW x \in Warps \X Nat \X Nat
               PROVE  x \in Sent <=> x[2] \in UnitInsts(x[1]) /\ x[3] \in DOMAIN prog[x[1]][x[2]].sectors
  BY DEF Sent
<1>. DEFINE w == x[1]
            n == x[2]
<1>3. w \in Warps /\ n \in Nat
  OBVIOUS
<1>. HIDE DEF w, n
<1>4. /\ DOMAIN prog[w] = DOMAIN trace[w].sass
      /\ Len(prog[w]) \in Nat /\ DOMAIN prog[w] = 1 .. Len(prog[w])
      /\ n \in DOMAIN prog[w] => /\ prog[w][n].op = trace[w].sass[n].op
                                 /\ prog[w][n].op \in Ops
                                 /\ prog[w][n].sectors \in Seq(Sector)
  BY <1>0, <1>3, ProgFacts
<1>5. warp_point[w] = Len(prog[w])
  <2>1. ~HasNext(w) /\ warp_point[w] \in Nat /\ warp_point[w] <= Len(prog[w])
    BY <1>0, <1>3 DEF NoOrphanReply, TypeOK
  <2>. QED
    BY <1>4, <2>1 DEF HasNext
<1>6. n \in UnitInsts(w) <=> n \in DOMAIN prog[w] /\ prog[w][n].op \in {"load", "store"}
  BY <1>4 DEF UnitInsts, MemInsts, MemOps
<1>7. n \in DOMAIN prog[w] => DOMAIN prog[w][n].sectors = 1 .. Len(prog[w][n].sectors)
  BY <1>4
<1>8. x \in Sent <=> /\ n \in 1 .. warp_point[w]
                     /\ prog[w][n].op \in {"load", "store"}
                     /\ x[3] \in 1 .. Len(prog[w][n].sectors)
  BY <1>1 DEF Sent, w, n
<1>. QED
  BY <1>4, <1>5, <1>6, <1>7, <1>8 DEF w, n

LEMMA SentIsTouched ==
  ASSUME Inv, SentInv, warp_vec = {}
  PROVE  Cardinality(Sent) =
           Cardinality(UNION {UNION {{v} \X {n} \X SectorsTouched(v, n) : n \in UnitInsts(v)} : v \in Warps})
<1>. DEFINE T == UNION {UNION {{v} \X {n} \X SectorsTouched(v, n) : n \in UnitInsts(v)} : v \in Warps}
            num(x) == CHOOSE q \in SectorsTouched(x[1], x[2]) : SectorIs(x[1], x[2], x[3], q)
            f == [x \in Sent |-> <<x[1], x[2], num(x)>>]
<1>0. ProgInv
  BY DEF Inv
<1>1. ASSUME NEW x \in Sent
      PROVE  /\ x[1] \in Warps /\ x[2] \in UnitInsts(x[1]) /\ x[2] \in MemInsts(trace[x[1]])
             /\ x[3] \in DOMAIN prog[x[1]][x[2]].sectors
             /\ x = <<x[1], x[2], x[3]>>
    BY AllIsSent DEF UnitInsts
<1>2. ASSUME NEW x \in Sent
      PROVE  num(x) \in SectorsTouched(x[1], x[2]) /\ SectorIs(x[1], x[2], x[3], num(x))
  <2>1. \E q \in SectorsTouched(x[1], x[2]) : SectorIs(x[1], x[2], x[3], q)
    BY <1>0, <1>1, SectorsAreTouched
  <2>. QED
    BY <2>1
<1>. HIDE DEF num
<1>3. \A x \in Sent : f[x] = <<x[1], x[2], num(x)>> /\ f[x][1] = x[1] /\ f[x][2] = x[2] /\ f[x][3] = num(x)
  OBVIOUS
<1>4. f \in [Sent -> T]
  <2>1. ASSUME NEW x \in Sent
        PROVE  <<x[1], x[2], num(x)>> \in T
    <3>1. <<x[1], x[2], num(x)>> \in {x[1]} \X {x[2]} \X SectorsTouched(x[1], x[2])
      BY <1>2
    <3>. QED
      BY <1>1, <3>1
  <2>. QED
    BY <2>1
<1>5. ASSUME NEW x \in Sent, NEW y \in Sent, f[x] = f[y]
      PROVE  x = y
  <2>1. x[1] = y[1] /\ x[2] = y[2] /\ num(x) = num(y)
    BY <1>3, <1>5
  <2>2. x[3] = y[3]
    BY <1>0, <1>1, <1>2, <2>1, SectorsAreTouched
  <2>. QED
    BY <1>1, <2>1, <2>2
<1>6. ASSUME NEW y \in T
      PROVE  \E x \in Sent : f[x] = y
  <2>0. PICK v \in Warps : \E n \in UnitInsts(v) : y \in {v} \X {n} \X SectorsTouched(v, n)
    OBVIOUS
  <2>1. PICK n \in UnitInsts(v) : y \in {v} \X {n} \X SectorsTouched(v, n)
    BY <2>0
  <2>2. y = <<v, n, y[3]>> /\ y[3] \in SectorsTouched(v, n) /\ n \in MemInsts(trace[v])
    BY <2>1 DEF UnitInsts
  <2>3. PICK k \in DOMAIN prog[v][n].sectors : SectorIs(v, n, k, y[3])
    BY <1>0, <2>2, SectorsAreTouched
  <2>. DEFINE x == <<v, n, k>>
  <2>4. n \in DOMAIN prog[v] /\ n \in Nat /\ k \in Nat
    <3>1. n \in DOMAIN prog[v] /\ n \in Nat
      BY <1>0, <2>2, ProgFacts DEF MemInsts
    <3>2. prog[v][n].sectors \in Seq(Sector)
      BY <1>0, <3>1, ProgFacts
    <3>. QED
      BY <3>1, <3>2
  <2>5. x \in Sent /\ x[1] = v /\ x[2] = n /\ x[3] = k
    BY <2>1, <2>4, AllIsSent
  <2>. HIDE DEF x
  <2>6. num(x) = y[3]
    <3>1. SectorIs(v, n, k, num(x))
      BY <1>2, <2>5
    <3>. QED
      BY <1>0, <2>2, <2>3, <3>1, SectorsAreTouched
  <2>7. f[x] = y
    BY <1>3, <2>2, <2>5, <2>6
  <2>. QED
    BY <2>5, <2>7
<1>. HIDE DEF f, T
<1>7. ExistsBijection(Sent, T)
  <2>1. f \in Injection(Sent, T)
    BY <1>4, <1>5 DEF Injection, IsInjective
  <2>2. f \in Surjection(Sent, T)
    BY <1>4, <1>6 DEF Surjection
  <2>. QED
    BY <2>1, <2>2 DEF ExistsBijection, Bijection
<1>. QED
  BY <1>7, FS_Bijection DEF SentInv, T

\* A kernel that ends has sent exactly the sectors that the threads of its loads
\* and stores touched, whatever they were and however often units had to wait
\* for a bank.
THEOREM RequestsAreExact == Spec => []RequestsExact
<1>1. Init => SentInv
  <2>. SUFFICES ASSUME Init
                PROVE  SentInv
    OBVIOUS
  <2>1. \A w \in Warps : 1 .. warp_point[w] = {}
    BY DEF Init
  <2>2. Sent = {}
    BY <2>1 DEF Sent
  <2>. QED
    BY <2>2, FS_EmptySet DEF SentInv, Init
<1>2. Inv /\ SentInv /\ [Next]_vars => SentInv'
  BY SentNext
<1>3. Inv /\ SentInv => RequestsExact
  BY SentIsTouched DEF SentInv, RequestsExact
<1>. QED
  BY <1>1, <1>2, <1>3, InvAlways, PTL DEF Spec
-----------------------------------------------------------------------------
(* What a cycle is put down to.                                             *)

\* Of the warps that still have instructions one comes first.
LEMMA FirstWaiting ==
  ASSUME TypeOK, Waiting # {}
  PROVE  \E w \in Waiting : \A v \in Waiting : ~Before(v, w)
<1>. DEFINE B == {v[1] : v \in Waiting}
            b == Min(B)
            C == {v[2] : v \in {u \in Waiting : u[1] = b}}
            c == Min(C)
<1>1. \A v \in Waiting : v[1] \in Nat /\ v[2] \in Nat
  <2>1. Waiting \subseteq Warps
    BY DEF Waiting, Resident, TypeOK
  <2>2. \A v \in Warps : v[1] \in Nat /\ v[2] \in Nat
    BY SmAssumption DEF Warps, Blocks
  <2>. QED
    BY <2>1, <2>2
<1>2. B \in SUBSET Nat /\ B # {}
  BY <1>1
<1>. HIDE DEF B
<1>3. b \in B /\ \A y \in B : b <= y
  BY <1>2, LeastNumber
<1>. HIDE DEF b
<1>4. C \in SUBSET Nat /\ C # {}
  BY <1>1, <1>3 DEF B
<1>. HIDE DEF C
<1>5. c \in C /\ \A y \in C : c <= y
  BY <1>4, LeastNumber
<1>. HIDE DEF c
<1>6. PICK w \in Waiting : w[1] = b /\ w[2] = c
  BY <1>5 DEF C
<1>7. ASSUME NEW v \in Waiting
      PROVE  ~Before(v, w)
  <2>1. b <= v[1] /\ v[1] \in Nat /\ v[2] \in Nat /\ b \in Nat /\ c \in Nat
    BY <1>1, <1>3, <1>6 DEF B
  <2>2. v[1] = b => c <= v[2]
    BY <1>5 DEF C
  <2>. QED
    BY <1>6, <2>1, <2>2 DEF Before
<1>. QED
  BY <1>7

\* A warp that the scheduler passed over while no subcore had been taken could
\* not have issued.
LEMMA PassedOver ==
  ASSUME Inv, free_subs = FreeSubs, NEW w \in Waiting, ~Issuable(w) \/ free_subs = {}
  PROVE  ~check_dependency(w) \/ NoUnit(w)
<1>1. HasNext(w)
  BY DEF Waiting
<1>2. UnitKind(NextInst(w)) \in UnitKinds
  BY DEF UnitKind, UnitKinds
<1>3. \A s \in Subs : Ready(s, UnitKind(NextInst(w))) => s \in free_subs
  BY <1>2 DEF FreeSubs
<1>. QED
  BY <1>1, <1>3 DEF Issuable, check_unit, NoUnit

LEMMA ScheduleNext ==
  ASSUME Inv, ScheduleInv, [Next]_vars
  PROVE  ScheduleInv'
<1>0. TypeOK
  BY DEF Inv
<1>w. \A w \in Waiting : w[1] \in Nat
  BY <1>0, SmAssumption DEF Waiting, Resident, TypeOK, Warps, Blocks
<1>1. CASE StartCycle \/ (\E r \in inflight : Reply(r)) \/ EndReplies \/ UnitWaits \/ UnitSends \/ EndCycle
  <2>1. stage' # "schedule"
    BY <1>1 DEF StartCycle, Reply, EndReplies, UnitWaits, UnitSends, EndCycle
  <2>. QED
    BY <2>1 DEF ScheduleInv
<1>2. CASE Refill
  <2>1. free_subs' = FreeSubs /\ turn' = 0 /\ UNCHANGED <<ready, cycles, warp_vec, prog, warp_point>>
    BY <1>2 DEF Refill, unitVars, kernelVars, warpVars
  <2>2. FreeSubs' = FreeSubs
    BY <2>1 DEF FreeSubs, Ready
  <2>3. \A w \in Waiting' : ~(w[1] < 0)
    BY <1>0, <2>1, SmAssumption DEF Waiting, Resident, TypeOK, Warps, Blocks
  <2>. QED
    BY <2>1, <2>2, <2>3 DEF ScheduleInv
<1>3. CASE ScheduleIssue
  <2>1. inst_executed' # "none"
    BY <1>3, ScheduleIssueKinds DEF Issues
  <2>. QED
    BY <2>1 DEF ScheduleInv
<1>4. CASE ScheduleRetire \/ ScheduleSkip
  <2>1. /\ stage = "schedule" /\ turn \in Nat /\ turn' = turn + 1
        /\ UNCHANGED <<prog, stage, cycles, block_vec, warp_point, completions, ready, free_subs, inst_executed>>
        /\ warp_vec' \subseteq warp_vec
    BY <1>0, <1>4 DEF ScheduleRetire, ScheduleSkip, blockVars, warpVars, unitVars, kernelVars, statVars, TypeOK
  <2>2. SUFFICES ASSUME inst_executed = "none", NEW w \in Waiting', w[1] < turn + 1
                 PROVE  free_subs' = FreeSubs' /\ (~check_dependency(w)' \/ NoUnit(w)')
    <3>1. SUFFICES ASSUME inst_executed = "none"
                   PROVE  free_subs' = FreeSubs'
                          /\ \A w \in Waiting' : w[1] < turn' => ~check_dependency(w)' \/ NoUnit(w)'
      BY <2>1 DEF ScheduleInv
    <3>2. free_subs' = FreeSubs'
      BY <2>1, <3>1 DEF ScheduleInv, FreeSubs, Ready
    <3>. QED
      BY <2>1, <2>2, <3>1, <3>2
  <2>3. free_subs = FreeSubs /\ free_subs' = FreeSubs'
    BY <2>1, <2>2 DEF ScheduleInv, FreeSubs, Ready
  <2>4. /\ w \in Waiting
        /\ check_dependency(w)' <=> check_dependency(w)
        /\ NoUnit(w)' <=> NoUnit(w)
    BY <2>1 DEF Waiting, Resident, HasNext, check_dependency, NoUnit, NextInst, Ready
  <2>5. ~check_dependency(w) \/ NoUnit(w)
    <3>1. CASE w[1] < turn
      BY <2>1, <2>2, <2>4, <3>1 DEF ScheduleInv
    <3>2. CASE ~(w[1] < turn)
      <4>1. w[1] = turn
        BY <1>w, <2>1, <2>2, <2>4, <3>2
      <4>2. w \in Live(turn) /\ turn \in block_vec
        BY <2>4, <4>1 DEF Live, Waiting, Resident
      <4>3. ~Issuable(w) \/ free_subs = {}
        BY <1>4, <4>2 DEF ScheduleRetire, ScheduleSkip
      <4>. QED
        BY <2>3, <2>4, <4>3, PassedOver
    <3>. QED
      BY <3>1, <3>2
  <2>. QED
    BY <2>3, <2>4, <2>5
<1>5. CASE UNCHANGED vars
  BY <1>5 DEF vars, blockVars, warpVars, unitVars, kernelVars, statVars, ScheduleInv, FreeSubs, Ready, Waiting,
              Resident, HasNext, check_dependency, NoUnit, NextInst
<1>. QED
  BY <1>1, <1>2, <1>3, <1>4, <1>5 DEF Next, Step, Terminated

\* What the counters say of the warps when nothing issued.
LEMMA IdleIsMasked ==
  ASSUME Inv, \A w \in Waiting : ~check_dependency(w) \/ NoUnit(w), inst_executed = "none"
  PROVE  Attributed # "scheduler_idle"
<1>1. SUFFICES ASSUME ~has_dependency_stall_warp, Waiting # {}
               PROVE  has_unit_stall_warp
  <2>1. \/ Attributed = "issue_active" \/ Attributed = "memory_stall"
        \/ Attributed = IF has_dependency_stall_warp THEN "dependency_stall"
                        ELSE IF has_unit_stall_warp THEN "unit_stall"
                        ELSE IF Waiting # {} THEN "scheduler_idle" ELSE "none"
    BY Zenon DEF Attributed
  <2>. QED
    BY <1>1, <2>1
<1>2. \A w \in Waiting : check_dependency(w) /\ NoUnit(w)
  BY <1>1 DEF has_dependency_stall_warp
<1>3. PICK w \in Waiting : \A v \in Waiting : ~Before(v, w)
  BY <1>1, FirstWaiting DEF Inv
<1>. QED
  BY <1>2, <1>3 DEF has_unit_stall_warp

LEMMA WorkNext ==
  ASSUME Inv, ScheduleInv, WorkConserving, [Next]_vars
  PROVE  WorkConserving'
<1>0. TypeOK
  BY DEF Inv
<1>1. CASE EndCycle
  <2>1. /\ stage = "schedule" /\ turn = NumBlocks /\ verdict' = Attributed
        /\ UNCHANGED <<prog, cycles, block_vec, warp_vec, warp_point, completions, ready, inst_executed>>
    BY <1>1 DEF EndCycle, blockVars, warpVars, unitVars, kernelVars
  <2>2. /\ Waiting' = Waiting
        /\ \A w : (check_dependency(w)' <=> check_dependency(w)) /\ (NoUnit(w)' <=> NoUnit(w))
    BY <2>1 DEF Waiting, Resident, HasNext, check_dependency, NoUnit, NextInst, Ready
  <2>3. \A w \in Waiting : w[1] < turn
    BY <1>0, <2>1, SmAssumption DEF Waiting, Resident, TypeOK, Warps, Blocks
  <2>4. inst_executed = "none" => \A w \in Waiting : ~check_dependency(w) \/ NoUnit(w)
    BY <2>1, <2>3 DEF ScheduleInv
  <2>5. verdict' = "scheduler_idle" => inst_executed = "masked"
    <3>1. inst_executed = "threads" => Attributed = "issue_active"
      BY Zenon DEF Attributed
    <3>2. inst_executed = "none" => Attributed # "scheduler_idle"
      BY <2>4, IdleIsMasked
    <3>. QED
      BY <1>0, <2>1, <3>1, <3>2 DEF TypeOK
  <2>. QED
    BY <2>1, <2>2, <2>4, <2>5 DEF WorkConserving
<1>2. CASE StartCycle \/ (\E r \in inflight : Reply(r)) \/ EndReplies \/ UnitWaits \/ UnitSends \/ Refill
           \/ ScheduleIssue \/ ScheduleRetire \/ ScheduleSkip
  <2>1. stage' # "start"
    BY <1>2 DEF StartCycle, Reply, EndReplies, UnitWaits, UnitSends, Refill, ScheduleIssue, ScheduleRetire,
                ScheduleSkip
  <2>. QED
    BY <2>1 DEF WorkConserving
<1>3. CASE UNCHANGED vars
  BY <1>3 DEF vars, blockVars, warpVars, unitVars, kernelVars, statVars, WorkConserving, Ready, Waiting,
              Resident, HasNext, check_dependency, NoUnit, NextInst
<1>. QED
  BY <1>1, <1>2, <1>3 DEF Next, Step, Terminated

\* A cycle stays empty only if no resident warp could have issued, and is put
\* down to an idle scheduler only if what it issued was masked.
THEOREM SmConservesWork == Spec => []WorkConserving
<1>1. Init => ScheduleInv /\ WorkConserving
  BY DEF Init, ScheduleInv, WorkConserving
<1>2. Inv /\ ScheduleInv /\ [Next]_vars => ScheduleInv'
  BY ScheduleNext
<1>3. Inv /\ ScheduleInv /\ WorkConserving /\ [Next]_vars => WorkConserving'
  BY WorkNext
<1>. QED
  BY <1>1, <1>2, <1>3, InvAlways, PTL DEF Spec
=============================================================================
