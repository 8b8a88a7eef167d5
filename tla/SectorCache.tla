----------------------------- MODULE SectorCache -----------------------------
(***************************************************************************)
(* One set of a tag array of gan-swift-sim (tag_array and                   *)
(* sector_cache_block of cache.h, cache.cpp), as the L1 or as the L2 uses   *)
(* it: probe, access, fill, replacement by LRU or FIFO, and the writes that *)
(* the two cache_access functions make on their own.                        *)
(*                                                                          *)
(* Sets do not interfere: set_index is a function of the address.  A fill   *)
(* comes some time after the access that missed and probes again, since     *)
(* other accesses and fills come between; MSHRs and DRAM, which decide      *)
(* when, are MemPath's subject: here a fill may come at any time, for a     *)
(* sector that an earlier access may have asked for, once or several times  *)
(* (a miss does not change the set).  Of the time stamps of a line only the *)
(* one that the replacement policy compares is kept.  Block 0 is the tag of *)
(* a line that was never allocated; no traced address lies in it.           *)
(***************************************************************************)
EXTENDS Integers, FiniteSets, FiniteSetsExt

CONSTANTS
  Blocks,    \* block addresses that fall into the set
  Sectors,   \* sector numbers of a block (0 to 3 in the code)
  Assoc,     \* m_assoc
  MaxTime    \* bound: the last cycle

ASSUME CacheAssumption ==
  /\ Blocks \subseteq Nat \ {0} /\ IsFiniteSet(Blocks)
  /\ IsFiniteSet(Sectors)
  /\ Assoc \in Nat \ {0}
  /\ MaxTime \in Nat

Ways == 1 .. Assoc

VARIABLES
  level,    \* "L1" or "L2"
  policy,   \* m_replacement_policy
  lines,    \* m_lines of the set: tag, m_status of the sectors, time stamp
  time,
  answer,   \* what cache_access returned last
  since     \* history: when a block was used last (LRU) or came in (FIFO)

vars == <<level, policy, lines, time, answer, since>>
-----------------------------------------------------------------------------
(* sector_cache_block                                                       *)

NoSector == [s \in Sectors |-> "INVALID"]

\* Mutant: the sectors of the former block are kept.
allocate_KeepsSectors(l, b, s) == [tag |-> b, stamp |-> time, status |-> [l.status EXCEPT ![s] = "RESERVED"]]

\* allocate_line: init() and one reserved sector.
allocate(l, b, s) == [tag |-> b, stamp |-> time, status |-> [NoSector EXCEPT ![s] = "RESERVED"]]

\* Mutant: a use does not count.
set_last_access_time_Ignored(l) == l

set_last_access_time(l) == IF policy = "LRU" THEN [l EXCEPT !.stamp = time] ELSE l

allocate_sector(l, s) == set_last_access_time([l EXCEPT !.status[s] = "RESERVED"])

set_status(l, s, state) == [l EXCEPT !.status[s] = state]

is_invalid_line(l) == \A s \in Sectors : l.status[s] = "INVALID"
is_reserved_line(l) == \E s \in Sectors : l.status[s] = "RESERVED"
-----------------------------------------------------------------------------
(* tag_array                                                                *)

Idle == {w \in Ways : is_invalid_line(lines[w])}
Matching(b) == {w \in Ways \ Idle : lines[w].tag = b}
Unreserved == {w \in Ways : ~is_reserved_line(lines[w])}

\* The last idle line, else the first of the oldest lines.
Victim ==
  LET valid == Unreserved \ Idle IN
    IF Unreserved \cap Idle # {} THEN Max(Unreserved \cap Idle)
    ELSE Min({w \in valid : \A v \in valid : lines[w].stamp <= lines[v].stamp})

\* Mutant: a line that has the block without the sector is not recognised.
tag_array_probe_SectorsOnly(b, s) ==
  LET hits == {w \in Matching(b) : lines[w].status[s] # "INVALID"} IN
    IF hits # {} THEN [status |-> "HIT", way |-> Min(hits)] ELSE [status |-> "MISS", way |-> Victim]

\* Status and line: the first line with the tag decides.
tag_array_probe(b, s) ==
  IF Matching(b) # {}
  THEN LET w == Min(Matching(b)) IN
       [status |-> CASE lines[w].status[s] = "RESERVED" -> "HIT_RESERVED"
                     [] lines[w].status[s] = "INVALID" -> "SECTOR_MISS"
                     [] OTHER -> "HIT",
        way |-> w]
  ELSE IF Unreserved = {} THEN [status |-> "RESERVATION_FAIL", way |-> 0]
  ELSE [status |-> "MISS", way |-> Victim]

\* The line that tag_array_fill leaves in place of l.
filled(l, status, b, s) ==
  set_status(CASE status = "MISS" -> allocate(l, b, s)
               [] status = "SECTOR_MISS" -> allocate_sector(l, s)
               [] OTHER -> l, s, "VALID")
-----------------------------------------------------------------------------
Init ==
  /\ level \in {"L1", "L2"}
  /\ policy \in {"LRU", "FIFO"}
  /\ lines = [w \in Ways |-> [tag |-> 0, stamp |-> 0, status |-> NoSector]]
  /\ time = 0
  /\ answer = "none"
  /\ since = [b \in Blocks |-> 0]

Known(b) == Matching(b) # {}
Used(b) == since' = IF policy = "LRU" \/ ~Known(b) THEN [since EXCEPT ![b] = time] ELSE since

\* cache_access of a load, in either cache: only a hit touches the line.
Read(b, s) ==
  LET p == tag_array_probe(b, s) IN
  /\ \/ /\ p.status = "HIT"
        /\ lines' = [lines EXCEPT ![p.way] = set_last_access_time(@)]
        /\ Used(b)
        /\ answer' = "HIT"
     \/ /\ p.status \in {"MISS", "SECTOR_MISS"}
        /\ answer' = "MISS"
        /\ UNCHANGED <<lines, since>>
  /\ UNCHANGED <<level, policy, time>>

\* cache_access of a global write in the L1: a hit marks the sector and is no
\* use of the line, a miss does nothing.
L1Write(b, s) ==
  LET p == tag_array_probe(b, s) IN
  /\ level = "L1"
  /\ \/ /\ p.status = "HIT"
        /\ lines' = [lines EXCEPT ![p.way] = set_status(@, s, "MODIFIED")]
        /\ answer' = "HIT"
     \/ /\ p.status \in {"MISS", "SECTOR_MISS"}
        /\ answer' = "MISS"
        /\ UNCHANGED lines
  /\ UNCHANGED <<level, policy, time, since>>

L2WriteHit(b, s) ==
  LET p == tag_array_probe(b, s) IN
  /\ level = "L2" /\ p.status = "HIT"
  /\ lines' = [lines EXCEPT ![p.way] = set_status(set_last_access_time(@), s, "MODIFIED")]
  /\ Used(b)
  /\ answer' = "HIT"
  /\ UNCHANGED <<level, policy, time>>

\* The line an L2 write that missed prepares, by what the probe said.
Prepared(l, status, b, s) ==
  IF status = "MISS" THEN allocate(l, b, s) ELSE allocate_sector(l, s)

\* An L2 write that misses takes the first idle line, and counts as a hit.  After
\* a SECTOR_MISS that line's tag is not set: another line has the block.
L2WriteIdle(b, s) ==
  LET p == tag_array_probe(b, s) IN
  /\ level = "L2" /\ p.status \in {"MISS", "SECTOR_MISS"} /\ Idle # {}
  /\ lines' = [lines EXCEPT ![Min(Idle)] =
                 set_last_access_time(set_status(Prepared(@, p.status, b, s), s, "MODIFIED"))]
  /\ IF p.status = "MISS" THEN Used(b) ELSE UNCHANGED since
  /\ answer' = "HIT"
  /\ UNCHANGED <<level, policy, time>>

L2WriteMiss(b, s) ==
  LET p == tag_array_probe(b, s) IN
  /\ level = "L2" /\ p.status \in {"MISS", "SECTOR_MISS"} /\ Idle = {}
  /\ answer' = "MISS"
  /\ UNCHANGED <<level, policy, lines, time, since>>

\* cache_fill, for a request that missed some time ago.
Fill(b, s) ==
  LET p == tag_array_probe(b, s) IN
  /\ p.status # "RESERVATION_FAIL"
  /\ lines' = [lines EXCEPT ![p.way] = filled(@, p.status, b, s)]
  /\ IF p.status = "HIT" THEN UNCHANGED since ELSE Used(b)
  /\ UNCHANGED <<level, policy, time, answer>>

Tick ==
  /\ time < MaxTime
  /\ time' = time + 1
  /\ UNCHANGED <<level, policy, lines, answer, since>>

Next ==
  \/ \E b \in Blocks, s \in Sectors :
       \/ Read(b, s) \/ L1Write(b, s)
       \/ L2WriteHit(b, s) \/ L2WriteIdle(b, s) \/ L2WriteMiss(b, s)
       \/ Fill(b, s)
  \/ Tick

Spec == Init /\ [][Next]_vars
-----------------------------------------------------------------------------
(* Properties.                                                              *)

Line == [tag : Blocks \cup {0}, stamp : 0 .. time,
         status : [Sectors -> {"INVALID", "VALID", "MODIFIED"}]]

\* Whatever comes between an access and its fill, and however many fills come for
\* one sector, a block has at most one line; idle lines are those without a
\* block; a line with sectors but no block is the trace of an L2 write that met
\* a SECTOR_MISS, never of a fill (cache.cpp:487-501).  And no sector stays
\* RESERVED after the operation that allocated it, so neither HIT_RESERVED nor
\* RESERVATION_FAIL comes out of a probe, and the index that tag_array_fill
\* would then use uninitialised is never used (cache.cpp:115, 154, 188).
OneLinePerBlock ==
  /\ lines \in [Ways -> Line]
  /\ \A v, w \in Ways : v # w /\ lines[v].tag = lines[w].tag => lines[v].tag = 0
  /\ \A w \in Idle : lines[w].tag = 0
  /\ \A w \in Ways \ Idle : lines[w].tag = 0 =>
       level = "L2" /\ \A s \in Sectors : lines[w].status[s] # "VALID"

\* Replacement honours its policy over the whole history: the block that loses
\* its line was, of all blocks present, the longest without a use that counts
\* (LRU) or the first to come (FIFO); lines that writes left without a block do
\* not disturb the order (cache.cpp:133-161).
EvictsOldest ==
  [][\A v \in Blocks : Known(v) /\ ~Known(v)' =>
       \A b \in Blocks : Known(b) /\ Known(b)' => since[v] <= since[b]]_vars

\* The set is a cache of sectors as CacheAbs describes it: hits are exactly the
\* sectors held, at most one block leaves and only for want of room.
Wasted == {w \in Ways \ Idle : lines[w].tag = 0}
Held == {k \in Blocks \X Sectors :
           \E w \in Ways : lines[w].tag = k[1] /\ lines[w].status[k[2]] # "INVALID"}

Cache == INSTANCE CacheAbs WITH held <- Held, waste <- Cardinality(Wasted)

\* The refinement: CacheAbs!AbsSpec of the tag array.
Implements == Cache!AbsSpec
=============================================================================
