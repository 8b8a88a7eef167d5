------------------------------ MODULE CacheAbs ------------------------------
(***************************************************************************)
(* What one set of a tag array of gan-swift-sim (cache.cpp) promises to the *)
(* rest of the simulator: it holds sectors of at most Assoc blocks, answers *)
(* HIT exactly for those it holds, and gives up at most one block at a time *)
(* and only for want of room.  A write to a new sector of a block that the  *)
(* L2 already holds is answered HIT without being kept; it costs a way of   *)
(* the set (waste) until replacement reclaims it.                           *)
(***************************************************************************)
EXTENDS Integers, FiniteSets

CONSTANTS Blocks, Sectors, Assoc

VARIABLES
  level,   \* "L1" or "L2"
  held,    \* the sectors that are found: pairs of a block and a sector
  waste,   \* ways in use that belong to no block
  answer   \* what the last access was answered

absVars == <<level, held, waste, answer>>

Known == {k[1] : k \in held}
Room == Cardinality(Known) + waste < Assoc

AbsInit == level \in {"L1", "L2"} /\ held = {} /\ waste = 0 /\ answer = "none"

\* A sector that is held is a hit, of a read and of a write.
AbsHit(b, s) ==
  /\ <<b, s>> \in held
  /\ answer' = "HIT"
  /\ UNCHANGED <<level, held, waste>>

AbsMiss(b, s) ==
  /\ <<b, s>> \notin held
  /\ answer' = "MISS"
  /\ UNCHANGED <<level, held, waste>>

\* The L2 keeps a written block if it has room and did not know the block.
AbsWriteAllocates(b, s) ==
  /\ level = "L2" /\ b \notin Known /\ Room
  /\ held' = held \cup {<<b, s>>}
  /\ answer' = "HIT"
  /\ UNCHANGED <<level, waste>>

AbsWriteWasted(b, s) ==
  /\ level = "L2" /\ b \in Known /\ <<b, s>> \notin held /\ Room
  /\ waste' = waste + 1
  /\ answer' = "HIT"
  /\ UNCHANGED <<level, held>>

Without(v) == {k \in held : k[1] # v}

\* A sector comes in; a new block takes a free way or one that something else
\* has.
AbsFill(b, s) ==
  /\ \/ /\ b \in Known \/ Room
        /\ held' = held \cup {<<b, s>>}
        /\ UNCHANGED waste
     \/ /\ b \notin Known /\ ~Room /\ waste > 0
        /\ held' = held \cup {<<b, s>>}
        /\ waste' = waste - 1
     \/ /\ b \notin Known /\ ~Room
        /\ \E v \in Known : held' = Without(v) \cup {<<b, s>>}
        /\ UNCHANGED waste
  /\ UNCHANGED <<level, answer>>

AbsNext == \E b \in Blocks, s \in Sectors :
  \/ AbsHit(b, s) \/ AbsMiss(b, s)
  \/ AbsWriteAllocates(b, s) \/ AbsWriteWasted(b, s)
  \/ AbsFill(b, s)

AbsSpec == AbsInit /\ [][AbsNext]_absVars
=============================================================================
