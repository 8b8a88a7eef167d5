----------------------------- MODULE TraceDecode -----------------------------
(***************************************************************************)
(* How gan-swift-sim turns the trace of a warp into the instructions the SM *)
(* issues (trace_reader.cpp, kernel.cpp).                                   *)
(*                                                                          *)
(* The .sass file has a line for every instruction executed, the .mem file  *)
(* one for every memory instruction with the addresses of its threads.      *)
(* The two are joined by the program counter and by how often it was seen   *)
(* before in each file, addresses are coalesced into sectors, and register  *)
(* names become dependencies on earlier instructions.  Block and warp       *)
(* numbers are left out: every table of the readers is kept per warp.       *)
(***************************************************************************)
EXTENDS Integers, Sequences, FiniteSets, FiniteSetsExt, SequencesExt

CONSTANTS
  LineSize,     \* l1_cache_line_size
  SECTOR_SIZE

ASSUME DecodeAssumption ==
  /\ SECTOR_SIZE \in Nat \ {0}
  /\ LineSize \in {SECTOR_SIZE, 2 * SECTOR_SIZE, 4 * SECTOR_SIZE}
-----------------------------------------------------------------------------
(* Registers.                                                               *)

Written(sass, n) == UNION {sass[m].dst : m \in 1 .. n}

\* dependency_map after the first n instructions: the last writer of a register.
LastWriter(sass, n, r) == Max({m \in 1 .. n : r \in sass[m].dst})

LastWriters(sass, n, regs) == {LastWriter(sass, n, r) : r \in regs \cap Written(sass, n)}

\* Mutant: the register an instruction overwrites does not count.
get_inst_dependency_SourcesOnly(sass, n) ==
  LastWriters(sass, n - 1, sass[n].src)
    \cup IF sass[n].fence THEN LastWriters(sass, n, Written(sass, n)) ELSE {}

\* EXIT and the barriers ("fence") wait for the last writer of every register;
\* dependency_map is up to date with the instruction itself by then.
get_inst_dependency(sass, n) ==
  LastWriters(sass, n - 1, sass[n].dst \cup sass[n].src)
    \cup IF sass[n].fence THEN LastWriters(sass, n, Written(sass, n)) ELSE {}
-----------------------------------------------------------------------------
(* Addresses.                                                               *)

\* How often the pc of line n came before, in either file.
pc_index(file, n) == Cardinality({m \in 1 .. (n - 1) : file[m].pc = file[n].pc})

\* Mutant: executions of one pc are not told apart.
get_mem_inst_FirstOfPc(mem, pc, index) == SelectInSeq(mem, LAMBDA l : l.pc = pc)

\* The first line of the pc with that index; 0 if there is none.
get_mem_inst(mem, pc, index) ==
  LET found == {k \in DOMAIN mem : mem[k].pc = pc /\ pc_index(mem, k) = index} IN
    IF found = {} THEN 0 ELSE Min(found)

\* Cache line and sector within it.
SectorOf(a) == <<a - (a % LineSize), (a % LineSize) \div SECTOR_SIZE>>

\* The threads whose sector no thread before them touches.
FirstTouch(addrs) ==
  {k \in DOMAIN addrs : \A j \in 1 .. (k - 1) : SectorOf(addrs[j]) # SectorOf(addrs[k])}

\* Every sector once, in the order of the threads.
m_coalesced_address(addrs) ==
  LET nth(i) == CHOOSE k \in FirstTouch(addrs) : Cardinality({j \in FirstTouch(addrs) : j <= k}) = i IN
    [i \in 1 .. Cardinality(FirstTouch(addrs)) |-> SectorOf(addrs[nth(i)])]

Inst(t, n) ==
  LET line == t.sass[n] IN
  LET k == get_mem_inst(t.mem, line.pc, pc_index(t.sass, n)) IN
    [op |-> line.op, active |-> line.active, dst |-> line.dst, src |-> line.src, fence |-> line.fence,
     deps |-> get_inst_dependency(t.sass, n),
     sectors |-> IF k = 0 THEN <<>> ELSE m_coalesced_address(t.mem[k].addrs)]

m_insts(t) == [n \in DOMAIN t.sass |-> Inst(t, n)]
=============================================================================
