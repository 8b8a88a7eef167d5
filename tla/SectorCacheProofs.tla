------------------------- MODULE SectorCacheProofs -------------------------
(***************************************************************************)
(* Proofs about one set of a tag array, for any associativity, any blocks   *)
(* and sectors, both replacement policies and both caches.                  *)
(*                                                                          *)
(* OneLinePerBlock is inductive once the ranges of the other variables are  *)
(* added.  The order of replacement needs StampInv: the stamp of a block's  *)
(* line is when the block was last used (LRU) or came in (FIFO).            *)
(***************************************************************************)
EXTENDS SectorCache, FiniteSetTheorems, WellFoundedInduction, TLAPS

RangeInv ==
  /\ level \in {"L1", "L2"}
  /\ policy \in {"LRU", "FIFO"}
  /\ time \in Nat
  /\ since \in [Blocks -> Nat]

StampInv == \A w \in Ways : lines[w].tag # 0 => since[lines[w].tag] = lines[w].stamp

Inv == RangeInv /\ OneLinePerBlock /\ StampInv
-----------------------------------------------------------------------------
(* Least and greatest numbers.                                              *)

LEMMA LeastNumber ==
  ASSUME NEW S \in SUBSET Nat, S # {}
  PROVE  /\ Min(S) \in S
         /\ \A y \in S : Min(S) <= y
<1>1. PICK x \in S : \A y \in S : ~(<<y, x>> \in OpToRel(<, Nat))
  BY NatLessThanWellFounded, WFMin
<1>2. \A y \in S : x <= y
  <2>1. \A y \in S : ~(y < x)
    BY <1>1 DEF OpToRel
  <2>. QED
    BY <2>1
<1>. QED
  BY <1>2 DEF Min

LEMMA GreatestNumber ==
  ASSUME NEW n \in Nat, NEW S \in SUBSET (0 .. n), S # {}
  PROVE  /\ Max(S) \in S
         /\ \A y \in S : Max(S) >= y
<1>. DEFINE D == {n - y : y \in S}
<1>1. D \in SUBSET Nat /\ D # {}
  <2>1. \A y \in S : n - y \in Nat
    OBVIOUS
  <2>. QED
    BY <2>1
<1>. HIDE DEF D
<1>2. Min(D) \in D /\ \A d \in D : Min(D) <= d
  BY <1>1, LeastNumber
<1>3. PICK x \in S : Min(D) = n - x
  BY <1>2 DEF D
<1>4. \A y \in S : x >= y
  <2>1. \A y \in S : n - x <= n - y
    BY <1>2, <1>3 DEF D
  <2>. QED
    BY <2>1
<1>. QED
  BY <1>4 DEF Max
-----------------------------------------------------------------------------
(* What a probe says.                                                       *)

\* No sector is RESERVED between operations, so every line can be replaced.
LEMMA NothingReserved ==
  ASSUME OneLinePerBlock
  PROVE  Unreserved = Ways
<1>1. \A w \in Ways, s \in Sectors : lines[w].status[s] \in {"INVALID", "VALID", "MODIFIED"}
  BY DEF OneLinePerBlock, Line
<1>. QED
  BY <1>1 DEF Unreserved, is_reserved_line

\* The line that is given up: an idle one if there is one, else one with the
\* least stamp.
LEMMA VictimIsOldest ==
  ASSUME RangeInv, OneLinePerBlock
  PROVE  /\ Victim \in Ways
         /\ Idle # {} => Victim \in Idle
         /\ Idle = {} => \A v \in Ways : lines[Victim].stamp <= lines[v].stamp
<1>1. Ways \in SUBSET (0 .. Assoc) /\ Ways \in SUBSET Nat /\ Ways # {} /\ Assoc \in Nat
  BY CacheAssumption DEF Ways
<1>2. Unreserved = Ways /\ Idle \in SUBSET Ways
  BY NothingReserved DEF Idle
<1>3. CASE Idle # {}
  <2>1. Unreserved \cap Idle = Idle /\ Idle \in SUBSET (0 .. Assoc)
    BY <1>1, <1>2
  <2>2. Victim = Max(Idle)
    BY <1>3, <2>1 DEF Victim
  <2>3. Max(Idle) \in Idle
    BY <1>1, <1>3, <2>1, GreatestNumber
  <2>. QED
    BY <1>2, <1>3, <2>2, <2>3
<1>4. CASE Idle = {}
  <2>. DEFINE stamps == {lines[w].stamp : w \in Ways}
              oldest == {w \in Ways : \A v \in Ways : lines[w].stamp <= lines[v].stamp}
  <2>1. \A w \in Ways : lines[w].stamp \in Nat
    BY DEF OneLinePerBlock, Line, RangeInv
  <2>2. Min(stamps) \in stamps /\ \A y \in stamps : Min(stamps) <= y
    <3>1. stamps \in SUBSET Nat /\ stamps # {}
      BY <1>1, <2>1
    <3>. HIDE DEF stamps
    <3>. QED
      BY <3>1, LeastNumber
  <2>3. PICK w \in Ways : lines[w].stamp = Min(stamps)
    BY <2>2
  <2>4. w \in oldest
    BY <2>2, <2>3
  <2>5. oldest \in SUBSET Nat /\ oldest # {}
    BY <1>1, <2>4
  <2>6. Victim = Min(oldest)
    <3>1. Unreserved \cap Idle = {} /\ Unreserved \ Idle = Ways
      BY <1>2, <1>4
    <3>. QED
      BY <3>1 DEF Victim
  <2>7. Min(oldest) \in oldest
    <3>. HIDE DEF oldest
    <3>. QED
      BY <2>5, LeastNumber
  <2>. QED
    BY <1>4, <2>6, <2>7
<1>. QED
  BY <1>3, <1>4

\* The status and the line of a probe (tag_array_probe, cache.cpp:94-161).
LEMMA Probe ==
  ASSUME RangeInv, OneLinePerBlock, NEW b \in Blocks, NEW s \in Sectors,
         NEW p, p = tag_array_probe(b, s)
  PROVE  /\ p.way \in Ways
         /\ \/ /\ p.status = "HIT" /\ Known(b)
               /\ lines[p.way].tag = b /\ lines[p.way].status[s] # "INVALID"
            \/ /\ p.status = "SECTOR_MISS" /\ Known(b)
               /\ lines[p.way].tag = b /\ lines[p.way].status[s] = "INVALID"
               /\ p.way \notin Idle
            \/ /\ p.status = "MISS" /\ ~Known(b)
               /\ p.way = Victim
               /\ \A w \in Ways : lines[w].tag # b
<1>1. Ways \in SUBSET Nat /\ Ways # {}
  BY CacheAssumption DEF Ways
<1>2. \A w \in Ways : lines[w].status[s] \in {"INVALID", "VALID", "MODIFIED"}
  BY DEF OneLinePerBlock, Line
<1>3. CASE Matching(b) # {}
  <2>1. Min(Matching(b)) \in Matching(b)
    <3>1. Matching(b) \in SUBSET Nat
      BY <1>1 DEF Matching
    <3>. QED
      BY <1>3, <3>1, LeastNumber
  <2>2. PICK w \in Matching(b) : w = Min(Matching(b))
    BY <2>1
  <2>3. w \in Ways \ Idle /\ lines[w].tag = b
    BY <2>2 DEF Matching
  <2>4. p = [status |-> CASE lines[w].status[s] = "RESERVED" -> "HIT_RESERVED"
                         [] lines[w].status[s] = "INVALID" -> "SECTOR_MISS"
                         [] OTHER -> "HIT",
             way |-> w]
    BY <1>3, <2>2 DEF tag_array_probe
  <2>5. p.way = w /\ p.status = IF lines[w].status[s] = "INVALID" THEN "SECTOR_MISS" ELSE "HIT"
    BY <1>2, <2>3, <2>4
  <2>. QED
    BY <1>3, <2>3, <2>5 DEF Known
<1>4. CASE Matching(b) = {}
  <2>1. Unreserved # {} /\ Victim \in Ways
    BY <1>1, NothingReserved, VictimIsOldest
  <2>2. p = [status |-> "MISS", way |-> Victim]
    BY <1>4, <2>1 DEF tag_array_probe
  <2>3. \A w \in Ways : lines[w].tag # b
    BY <1>4, CacheAssumption DEF Matching, OneLinePerBlock
  <2>. QED
    BY <1>4, <2>1, <2>2, <2>3 DEF Known
<1>. QED
  BY <1>3, <1>4
-----------------------------------------------------------------------------
(* What an operation makes of the line it changes.                          *)

AnyLine == [tag : Blocks \cup {0}, stamp : 0 .. time,
            status : [Sectors -> {"INVALID", "RESERVED", "VALID", "MODIFIED"}]]

\* set_status, set_last_access_time and allocate_line, field by field.
MarksOnly(l, s, x) ==
  /\ set_status(l, s, x) \in AnyLine
  /\ set_status(l, s, x).tag = l.tag /\ set_status(l, s, x).stamp = l.stamp
  /\ set_status(l, s, x).status[s] = x
  /\ \A t \in Sectors \ {s} : set_status(l, s, x).status[t] = l.status[t]

LEMMA Marking ==
  ASSUME NEW l \in AnyLine, NEW s \in Sectors
  PROVE  MarksOnly(l, s, "RESERVED") /\ MarksOnly(l, s, "VALID") /\ MarksOnly(l, s, "MODIFIED")
BY DEF AnyLine, set_status, MarksOnly

LEMMA Using ==
  ASSUME RangeInv, NEW l \in AnyLine
  PROVE  /\ set_last_access_time(l) \in AnyLine
         /\ set_last_access_time(l).tag = l.tag
         /\ set_last_access_time(l).status = l.status
         /\ set_last_access_time(l).stamp = IF policy = "LRU" THEN time ELSE l.stamp
<1>1. time \in 0 .. time
  BY DEF RangeInv
<1>. QED
  BY <1>1 DEF AnyLine, set_last_access_time

LEMMA Allocating ==
  ASSUME RangeInv, NEW l, NEW b \in Blocks, NEW s \in Sectors
  PROVE  /\ allocate(l, b, s) \in AnyLine
         /\ allocate(l, b, s).tag = b /\ allocate(l, b, s).stamp = time
         /\ allocate(l, b, s).status[s] = "RESERVED"
         /\ \A t \in Sectors \ {s} : allocate(l, b, s).status[t] = "INVALID"
<1>1. NoSector \in [Sectors -> {"INVALID", "RESERVED", "VALID", "MODIFIED"}]
  BY DEF NoSector
<1>2. time \in 0 .. time
  BY DEF RangeInv
<1>. QED
  BY <1>1, <1>2 DEF AnyLine, allocate, NoSector

\* A line without a RESERVED sector is one that may stay.
LEMMA Settled ==
  ASSUME NEW l \in AnyLine, \A t \in Sectors : l.status[t] # "RESERVED"
  PROVE  l \in Line
BY DEF AnyLine, Line
-----------------------------------------------------------------------------
(* The four ways in which an operation changes the set.                     *)

\* Line w becomes another line, and nothing else changes but the history.
Replaced(w) ==
  /\ w \in Ways
  /\ lines'[w] \in Line
  /\ lines' = [lines EXCEPT ![w] = lines'[w]]
  /\ UNCHANGED <<level, policy, time>>

\* The history notes for block b what the stamp of its line says.
Dated(b, w) ==
  /\ since' \in [Blocks -> Nat]
  /\ since'[b] = lines'[w].stamp
  /\ \A c \in Blocks \ {b} : since'[c] = since[c]

SameSector(w, t) == lines'[w].status[t] = "INVALID" <=> lines[w].status[t] = "INVALID"

\* The block's line is found with its sector, and keeps its sectors.
Touches(b, s, w) ==
  /\ Replaced(w) /\ Dated(b, w)
  /\ lines[w].tag = b /\ lines'[w].tag = b
  /\ lines[w].status[s] # "INVALID"
  /\ \A t \in Sectors : SameSector(w, t)

\* The block's line gets a sector.
Extends(b, s, w) ==
  /\ Replaced(w) /\ Dated(b, w)
  /\ lines[w].tag = b /\ lines'[w].tag = b
  /\ lines'[w].status[s] # "INVALID"
  /\ \A t \in Sectors \ {s} : SameSector(w, t)

\* A block without a line gets an idle line or the victim, with one sector.
Takes(b, s, w) ==
  /\ Replaced(w) /\ Dated(b, w)
  /\ w \in Idle \cup {Victim}
  /\ ~Known(b) /\ \A v \in Ways : lines[v].tag # b
  /\ lines'[w].tag = b
  /\ \A t \in Sectors : lines'[w].status[t] # "INVALID" <=> t = s

\* An idle line gets a sector and no block.
Wastes(b, s, w) ==
  /\ Replaced(w) /\ level = "L2"
  /\ w \in Idle
  /\ lines'[w].tag = 0
  /\ lines'[w].status[s] = "MODIFIED"
  /\ \A t \in Sectors \ {s} : lines'[w].status[t] = "INVALID"
  /\ UNCHANGED since

Changes(b, s, w) == Touches(b, s, w) \/ Extends(b, s, w) \/ Takes(b, s, w) \/ Wastes(b, s, w)

\* Every line is one that may be changed.
LEMMA LinesTyped ==
  ASSUME RangeInv, OneLinePerBlock, NEW w \in Ways
  PROVE  lines[w] \in AnyLine /\ lines[w] \in Line
BY DEF OneLinePerBlock, Line, AnyLine

\* The line that takes the place of line w.
LEMMA Replacing ==
  ASSUME RangeInv, OneLinePerBlock, NEW w \in Ways, NEW n \in AnyLine,
         \A t \in Sectors : n.status[t] # "RESERVED",
         lines' = [lines EXCEPT ![w] = n],
         UNCHANGED <<level, policy, time>>
  PROVE  Replaced(w) /\ lines'[w] = n
<1>1. lines'[w] = n
  BY DEF OneLinePerBlock
<1>2. n \in Line
  BY Settled
<1>. QED
  BY <1>1, <1>2 DEF Replaced

\* A use is noted for a block with a line, whatever the policy.
LEMMA UseIsDated ==
  ASSUME RangeInv, OneLinePerBlock, StampInv, NEW b \in Blocks, NEW w \in Ways, Used(b),
         \/ lines[w].tag = b /\ Known(b) /\ lines'[w].stamp = IF policy = "LRU" THEN time ELSE lines[w].stamp
         \/ ~Known(b) /\ lines'[w].stamp = time
  PROVE  Dated(b, w)
<1>1. Known(b) /\ lines[w].tag = b => since[b] = lines[w].stamp
  BY CacheAssumption DEF StampInv
<1>. QED
  BY <1>1 DEF Dated, Used, RangeInv

\* A block that is neither used nor moved keeps its date.
LEMMA DateIsKept ==
  ASSUME RangeInv, StampInv, NEW b \in Blocks, NEW w \in Ways, UNCHANGED since,
         lines[w].tag = b, lines'[w].stamp = lines[w].stamp
  PROVE  Dated(b, w)
<1>1. since[b] = lines[w].stamp
  BY CacheAssumption DEF StampInv
<1>. QED
  BY <1>1 DEF Dated, RangeInv

\* A read that hits uses the line.
LEMMA ReadHits ==
  ASSUME Inv, NEW b \in Blocks, NEW s \in Sectors, Read(b, s),
         tag_array_probe(b, s).status = "HIT"
  PROVE  answer' = "HIT" /\ \E w \in Ways : Touches(b, s, w)
<1>1. PICK w \in Ways : /\ w = tag_array_probe(b, s).way /\ Known(b)
                        /\ lines[w].tag = b /\ lines[w].status[s] # "INVALID"
  BY Probe DEF Inv
<1>2. /\ lines' = [lines EXCEPT ![w] = set_last_access_time(lines[w])]
      /\ Used(b) /\ answer' = "HIT" /\ UNCHANGED <<level, policy, time>>
  BY <1>1 DEF Read
<1>. DEFINE n == set_last_access_time(lines[w])
<1>3. lines[w] \in AnyLine /\ lines[w] \in Line
  BY LinesTyped DEF Inv
<1>4. /\ n \in AnyLine /\ n.tag = b /\ n.status = lines[w].status
      /\ n.stamp = IF policy = "LRU" THEN time ELSE lines[w].stamp
  BY <1>1, <1>3, Using DEF Inv
<1>. HIDE DEF n
<1>5. \A t \in Sectors : n.status[t] # "RESERVED"
  BY <1>3, <1>4 DEF Line
<1>6. Replaced(w) /\ lines'[w] = n
  BY <1>2, <1>4, <1>5, Replacing DEF Inv, n
<1>7. Dated(b, w)
  BY <1>1, <1>2, <1>4, <1>6, UseIsDated DEF Inv
<1>8. \A t \in Sectors : SameSector(w, t)
  BY <1>1, <1>4, <1>6 DEF SameSector
<1>. QED
  BY <1>1, <1>2, <1>4, <1>6, <1>7, <1>8 DEF Touches

\* A write that hits in the L1 only marks the sector.
LEMMA L1WriteHits ==
  ASSUME Inv, NEW b \in Blocks, NEW s \in Sectors, L1Write(b, s),
         tag_array_probe(b, s).status = "HIT"
  PROVE  answer' = "HIT" /\ \E w \in Ways : Touches(b, s, w)
<1>1. PICK w \in Ways : /\ w = tag_array_probe(b, s).way
                        /\ lines[w].tag = b /\ lines[w].status[s] # "INVALID"
  BY Probe DEF Inv
<1>2. /\ lines' = [lines EXCEPT ![w] = set_status(lines[w], s, "MODIFIED")]
      /\ answer' = "HIT" /\ UNCHANGED <<level, policy, time, since>>
  BY <1>1 DEF L1Write
<1>. DEFINE n == set_status(lines[w], s, "MODIFIED")
<1>3. lines[w] \in AnyLine /\ lines[w] \in Line
  BY LinesTyped DEF Inv
<1>4. /\ n \in AnyLine /\ n.tag = b /\ n.stamp = lines[w].stamp
      /\ n.status[s] = "MODIFIED" /\ \A t \in Sectors \ {s} : n.status[t] = lines[w].status[t]
  <2>1. MarksOnly(lines[w], s, "MODIFIED")
    BY <1>3, Marking
  <2>. QED
    BY <1>1, <2>1 DEF MarksOnly
<1>. HIDE DEF n
<1>5. \A t \in Sectors : n.status[t] # "RESERVED"
  BY <1>3, <1>4 DEF Line
<1>6. Replaced(w) /\ lines'[w] = n
  BY <1>2, <1>4, <1>5, Replacing DEF Inv, n
<1>7. Dated(b, w)
  BY <1>1, <1>2, <1>4, <1>6, DateIsKept DEF Inv
<1>. QED
  BY <1>1, <1>2, <1>4, <1>6, <1>7 DEF Touches, SameSector

\* One that hits in the L2 marks it and uses the line.
LEMMA L2WriteHits ==
  ASSUME Inv, NEW b \in Blocks, NEW s \in Sectors, L2WriteHit(b, s)
  PROVE  answer' = "HIT" /\ \E w \in Ways : Touches(b, s, w)
<1>1. PICK w \in Ways : /\ w = tag_array_probe(b, s).way /\ Known(b)
                        /\ lines[w].tag = b /\ lines[w].status[s] # "INVALID"
  BY Probe DEF Inv, L2WriteHit
<1>. DEFINE u == set_last_access_time(lines[w])
            n == set_status(u, s, "MODIFIED")
<1>2. /\ lines' = [lines EXCEPT ![w] = n]
      /\ Used(b) /\ answer' = "HIT" /\ UNCHANGED <<level, policy, time>>
  BY <1>1 DEF L2WriteHit
<1>3. lines[w] \in AnyLine /\ lines[w] \in Line
  BY LinesTyped DEF Inv
<1>4. /\ u \in AnyLine /\ u.tag = b /\ u.status = lines[w].status
      /\ u.stamp = IF policy = "LRU" THEN time ELSE lines[w].stamp
  BY <1>1, <1>3, Using DEF Inv
<1>. HIDE DEF u
<1>5. /\ n \in AnyLine /\ n.tag = b /\ n.stamp = u.stamp
      /\ n.status[s] = "MODIFIED" /\ \A t \in Sectors \ {s} : n.status[t] = lines[w].status[t]
  <2>1. MarksOnly(u, s, "MODIFIED")
    BY <1>4, Marking
  <2>. QED
    BY <1>4, <2>1 DEF MarksOnly
<1>. HIDE DEF n
<1>6. \A t \in Sectors : n.status[t] # "RESERVED"
  BY <1>3, <1>5 DEF Line
<1>7. Replaced(w) /\ lines'[w] = n
  BY <1>2, <1>5, <1>6, Replacing DEF Inv
<1>8. Dated(b, w)
  BY <1>1, <1>2, <1>4, <1>5, <1>7, UseIsDated DEF Inv
<1>. QED
  BY <1>1, <1>2, <1>5, <1>7, <1>8 DEF Touches, SameSector

\* One that misses takes an idle line, for its block or for nothing.
LEMMA L2WriteTakesIdle ==
  ASSUME Inv, NEW b \in Blocks, NEW s \in Sectors, L2WriteIdle(b, s)
  PROVE  /\ answer' = "HIT" /\ level = "L2"
         /\ \E w \in Idle : \/ Takes(b, s, w)
                            \/ Wastes(b, s, w) /\ tag_array_probe(b, s).status = "SECTOR_MISS"
<1>. DEFINE p == tag_array_probe(b, s)
<1>1. Idle \in SUBSET Nat /\ Idle # {} /\ Idle \subseteq Ways
  BY DEF L2WriteIdle, Idle, Ways
<1>2. PICK w \in Idle : w = Min(Idle)
  BY <1>1, LeastNumber
<1>. DEFINE q == Prepared(lines[w], p.status, b, s)
            m == set_status(q, s, "MODIFIED")
            n == set_last_access_time(m)
<1>3. /\ lines' = [lines EXCEPT ![w] = n]
      /\ answer' = "HIT" /\ level = "L2" /\ UNCHANGED <<level, policy, time>>
      /\ p.status \in {"MISS", "SECTOR_MISS"}
      /\ IF p.status = "MISS" THEN Used(b) ELSE UNCHANGED since
  BY <1>2 DEF L2WriteIdle
<1>4. /\ w \in Ways /\ lines[w] \in AnyLine /\ lines[w].tag = 0
      /\ \A t \in Sectors : lines[w].status[t] = "INVALID"
  BY <1>1, <1>2, LinesTyped DEF Inv, Idle, is_invalid_line, OneLinePerBlock
<1>5. CASE p.status = "MISS"
  <2>1. q = allocate(lines[w], b, s)
    BY <1>5 DEF Prepared
  <2>2. /\ q \in AnyLine /\ q.tag = b /\ q.stamp = time
        /\ \A t \in Sectors \ {s} : q.status[t] = "INVALID"
    BY <2>1, Allocating DEF Inv
  <2>. HIDE DEF q
  <2>3. /\ m \in AnyLine /\ m.tag = b /\ m.stamp = time /\ m.status[s] = "MODIFIED"
        /\ \A t \in Sectors \ {s} : m.status[t] = "INVALID"
    <3>1. MarksOnly(q, s, "MODIFIED")
      BY <2>2, Marking
    <3>. QED
      BY <2>2, <3>1 DEF MarksOnly
  <2>. HIDE DEF m
  <2>4. /\ n \in AnyLine /\ n.tag = b /\ n.stamp = time /\ n.status[s] = "MODIFIED"
        /\ \A t \in Sectors \ {s} : n.status[t] = "INVALID"
    BY <2>3, Using DEF Inv
  <2>. HIDE DEF n
  <2>5. \A t \in Sectors : n.status[t] # "RESERVED"
    BY <2>4
  <2>6. Replaced(w) /\ lines'[w] = n
    BY <1>3, <1>4, <2>4, <2>5, Replacing DEF Inv
  <2>7. ~Known(b) /\ \A v \in Ways : lines[v].tag # b
    BY <1>5, Probe DEF Inv
  <2>8. Dated(b, w)
    BY <1>3, <1>4, <1>5, <2>4, <2>6, <2>7, UseIsDated DEF Inv
  <2>. QED
    BY <1>3, <2>4, <2>6, <2>7, <2>8 DEF Takes
<1>6. CASE p.status = "SECTOR_MISS"
  <2>1. q = set_last_access_time(set_status(lines[w], s, "RESERVED"))
    BY <1>6 DEF Prepared, allocate_sector, set_status
  <2>2. /\ q \in AnyLine /\ q.tag = 0
        /\ \A t \in Sectors \ {s} : q.status[t] = "INVALID"
    <3>. DEFINE r == set_status(lines[w], s, "RESERVED")
    <3>1. MarksOnly(lines[w], s, "RESERVED")
      BY <1>4, Marking
    <3>2. r \in AnyLine /\ r.tag = 0 /\ \A t \in Sectors \ {s} : r.status[t] = "INVALID"
      BY <1>4, <3>1 DEF MarksOnly
    <3>. HIDE DEF r
    <3>. QED
      BY <2>1, <3>2, Using DEF Inv, r
  <2>. HIDE DEF q
  <2>3. /\ m \in AnyLine /\ m.tag = 0 /\ m.status[s] = "MODIFIED"
        /\ \A t \in Sectors \ {s} : m.status[t] = "INVALID"
    <3>1. MarksOnly(q, s, "MODIFIED")
      BY <2>2, Marking
    <3>. QED
      BY <2>2, <3>1 DEF MarksOnly
  <2>. HIDE DEF m
  <2>4. /\ n \in AnyLine /\ n.tag = 0 /\ n.status[s] = "MODIFIED"
        /\ \A t \in Sectors \ {s} : n.status[t] = "INVALID"
    BY <2>3, Using DEF Inv
  <2>. HIDE DEF n
  <2>5. \A t \in Sectors : n.status[t] # "RESERVED"
    BY <2>4
  <2>6. Replaced(w) /\ lines'[w] = n
    BY <1>3, <1>4, <2>4, <2>5, Replacing DEF Inv
  <2>. QED
    BY <1>3, <1>6, <2>4, <2>6 DEF Wastes
<1>. QED
  BY <1>3, <1>5, <1>6

\* A fill puts its sector into the block's line, or into the line it takes.
LEMMA FillPlaces ==
  ASSUME Inv, NEW b \in Blocks, NEW s \in Sectors, Fill(b, s)
  PROVE  /\ UNCHANGED answer
         /\ \/ \E w \in Ways : Touches(b, s, w) \/ Extends(b, s, w)
            \/ Takes(b, s, Victim)
<1>. DEFINE p == tag_array_probe(b, s)
<1>1. PICK w \in Ways : w = p.way
  BY Probe DEF Inv
<1>. DEFINE n == filled(lines[w], p.status, b, s)
<1>2. /\ lines' = [lines EXCEPT ![w] = n]
      /\ IF p.status = "HIT" THEN UNCHANGED since ELSE Used(b)
      /\ UNCHANGED <<level, policy, time, answer>>
  BY <1>1 DEF Fill
<1>3. lines[w] \in AnyLine /\ lines[w] \in Line
  BY LinesTyped DEF Inv
<1>4. CASE p.status = "HIT"
  <2>1. lines[w].tag = b /\ lines[w].status[s] # "INVALID"
    BY <1>1, <1>4, Probe DEF Inv
  <2>2. n = set_status(lines[w], s, "VALID")
    BY <1>4 DEF filled
  <2>3. /\ n \in AnyLine /\ n.tag = b /\ n.stamp = lines[w].stamp /\ n.status[s] = "VALID"
        /\ \A t \in Sectors \ {s} : n.status[t] = lines[w].status[t]
    <3>1. MarksOnly(lines[w], s, "VALID")
      BY <1>3, Marking
    <3>. QED
      BY <2>1, <2>2, <3>1 DEF MarksOnly
  <2>. HIDE DEF n
  <2>4. \A t \in Sectors : n.status[t] # "RESERVED"
    BY <1>3, <2>3 DEF Line
  <2>5. Replaced(w) /\ lines'[w] = n
    BY <1>2, <2>3, <2>4, Replacing DEF Inv
  <2>6. Dated(b, w)
    BY <1>2, <1>4, <2>1, <2>3, <2>5, DateIsKept DEF Inv
  <2>. QED
    BY <1>2, <2>1, <2>3, <2>5, <2>6 DEF Touches, SameSector
<1>5. CASE p.status = "SECTOR_MISS"
  <2>. DEFINE m == set_last_access_time(set_status(lines[w], s, "RESERVED"))
  <2>1. lines[w].tag = b /\ Known(b)
    BY <1>1, <1>5, Probe DEF Inv
  <2>2. n = set_status(m, s, "VALID")
    BY <1>5 DEF filled, allocate_sector, set_status
  <2>3. /\ m \in AnyLine /\ m.tag = b
        /\ m.stamp = IF policy = "LRU" THEN time ELSE lines[w].stamp
        /\ \A t \in Sectors \ {s} : m.status[t] = lines[w].status[t]
    <3>. DEFINE r == set_status(lines[w], s, "RESERVED")
    <3>1. MarksOnly(lines[w], s, "RESERVED")
      BY <1>3, Marking
    <3>2. /\ r \in AnyLine /\ r.tag = b /\ r.stamp = lines[w].stamp
          /\ \A t \in Sectors \ {s} : r.status[t] = lines[w].status[t]
      BY <2>1, <3>1 DEF MarksOnly
    <3>. HIDE DEF r
    <3>. QED
      BY <3>2, Using DEF Inv, r
  <2>. HIDE DEF m
  <2>4. /\ n \in AnyLine /\ n.tag = b /\ n.stamp = m.stamp /\ n.status[s] = "VALID"
        /\ \A t \in Sectors \ {s} : n.status[t] = lines[w].status[t]
    <3>1. MarksOnly(m, s, "VALID")
      BY <2>3, Marking
    <3>. QED
      BY <2>2, <2>3, <3>1 DEF MarksOnly
  <2>. HIDE DEF n
  <2>5. \A t \in Sectors : n.status[t] # "RESERVED"
    BY <1>3, <2>4 DEF Line
  <2>6. Replaced(w) /\ lines'[w] = n
    BY <1>2, <2>4, <2>5, Replacing DEF Inv
  <2>7. Dated(b, w)
    BY <1>2, <1>5, <2>1, <2>3, <2>4, <2>6, UseIsDated DEF Inv
  <2>. QED
    BY <1>2, <2>1, <2>4, <2>6, <2>7 DEF Extends, SameSector
<1>6. CASE p.status = "MISS"
  <2>. DEFINE m == allocate(lines[w], b, s)
  <2>1. w = Victim /\ ~Known(b) /\ \A v \in Ways : lines[v].tag # b
    BY <1>1, <1>6, Probe DEF Inv
  <2>2. n = set_status(m, s, "VALID")
    BY <1>6 DEF filled
  <2>3. /\ m \in AnyLine /\ m.tag = b /\ m.stamp = time
        /\ \A t \in Sectors \ {s} : m.status[t] = "INVALID"
    BY Allocating DEF Inv
  <2>. HIDE DEF m
  <2>4. /\ n \in AnyLine /\ n.tag = b /\ n.stamp = time /\ n.status[s] = "VALID"
        /\ \A t \in Sectors \ {s} : n.status[t] = "INVALID"
    <3>1. MarksOnly(m, s, "VALID")
      BY <2>3, Marking
    <3>. QED
      BY <2>2, <2>3, <3>1 DEF MarksOnly
  <2>. HIDE DEF n
  <2>5. \A t \in Sectors : n.status[t] # "RESERVED"
    BY <2>4
  <2>6. Replaced(w) /\ lines'[w] = n
    BY <1>2, <2>4, <2>5, Replacing DEF Inv
  <2>7. Dated(b, w)
    BY <1>2, <1>6, <2>1, <2>4, <2>6, UseIsDated DEF Inv
  <2>. QED
    BY <1>2, <2>1, <2>4, <2>6, <2>7 DEF Takes
<1>7. p.status \in {"HIT", "SECTOR_MISS", "MISS"}
  BY Probe DEF Inv
<1>. QED
  BY <1>4, <1>5, <1>6, <1>7
-----------------------------------------------------------------------------
(* The invariant.                                                           *)

\* Nothing but the clock and the last answer.
Rests == /\ UNCHANGED <<level, policy, lines, since>>
         /\ time' \in Nat /\ time <= time'

LEMMA StepKinds ==
  ASSUME Inv, [Next]_vars
  PROVE  Rests \/ \E b \in Blocks, s \in Sectors, w \in Ways : Changes(b, s, w)
<1>0. UNCHANGED <<level, policy, lines, time, since>> => Rests
  BY DEF Rests, Inv, RangeInv
<1>1. ASSUME NEW b \in Blocks, NEW s \in Sectors, Read(b, s)
      PROVE  Rests \/ \E w \in Ways : Changes(b, s, w)
  BY <1>0, <1>1, ReadHits DEF Read, Changes
<1>2. ASSUME NEW b \in Blocks, NEW s \in Sectors, L1Write(b, s)
      PROVE  Rests \/ \E w \in Ways : Changes(b, s, w)
  BY <1>0, <1>2, L1WriteHits DEF L1Write, Changes
<1>3. ASSUME NEW b \in Blocks, NEW s \in Sectors, L2WriteHit(b, s)
      PROVE  \E w \in Ways : Changes(b, s, w)
  BY <1>3, L2WriteHits DEF Changes
<1>4. ASSUME NEW b \in Blocks, NEW s \in Sectors, L2WriteIdle(b, s)
      PROVE  \E w \in Ways : Changes(b, s, w)
  BY <1>4, L2WriteTakesIdle DEF Changes, Idle
<1>5. ASSUME NEW b \in Blocks, NEW s \in Sectors, L2WriteMiss(b, s)
      PROVE  Rests
  BY <1>0, <1>5 DEF L2WriteMiss
<1>6. ASSUME NEW b \in Blocks, NEW s \in Sectors, Fill(b, s)
      PROVE  \E w \in Ways : Changes(b, s, w)
  BY <1>6, FillPlaces, VictimIsOldest DEF Changes, Inv
<1>7. CASE Tick
  BY <1>7 DEF Tick, Rests, Inv, RangeInv
<1>8. CASE UNCHANGED vars
  BY <1>0, <1>8 DEF vars
<1>. QED
  BY <1>1, <1>2, <1>3, <1>4, <1>5, <1>6, <1>7, <1>8 DEF Next

LEMMA ChangeKeepsLines ==
  ASSUME Inv, NEW b \in Blocks, NEW s \in Sectors, NEW w \in Ways, Changes(b, s, w)
  PROVE  OneLinePerBlock'
<1>1. /\ Replaced(w) /\ b # 0 /\ b \in Nat
      /\ lines \in [Ways -> Line]
  BY CacheAssumption DEF Changes, Touches, Extends, Takes, Wastes, Inv, OneLinePerBlock
<1>2. /\ lines' = [lines EXCEPT ![w] = lines'[w]]
      /\ lines'[w] \in Line /\ Line' = Line /\ level' = level
      /\ \A v \in Ways \ {w} : lines'[v] = lines[v]
  BY <1>1 DEF Replaced, Line
<1>3. (lines \in [Ways -> Line])'
  BY <1>1, <1>2
<1>4. ASSUME NEW v \in Ways, v # w, lines'[w].tag # 0
      PROVE  lines[v].tag # lines'[w].tag
  BY <1>1, <1>4 DEF Changes, Touches, Extends, Takes, Wastes, Inv, OneLinePerBlock
<1>5. \A u, v \in Ways : u # v /\ lines'[u].tag = lines'[v].tag => lines'[u].tag = 0
  <2>. SUFFICES ASSUME NEW u \in Ways, NEW v \in Ways, u # v, lines'[u].tag = lines'[v].tag
                PROVE  lines'[u].tag = 0
    OBVIOUS
  <2>1. CASE u # w /\ v # w
    BY <1>2, <2>1 DEF Inv, OneLinePerBlock
  <2>2. CASE u = w
    BY <1>2, <1>4, <2>2
  <2>3. CASE v = w
    BY <1>2, <1>4, <2>3
  <2>. QED
    BY <2>1, <2>2, <2>3
<1>6. \A v \in Ways \ {w} : v \in Idle' <=> v \in Idle
  BY <1>2 DEF Idle, is_invalid_line
<1>7. /\ w \notin Idle'
      /\ lines'[w].tag = 0 => level = "L2" /\ \A t \in Sectors : lines'[w].status[t] # "VALID"
  <2>1. \E t \in Sectors : lines'[w].status[t] # "INVALID"
    BY DEF Changes, Touches, Extends, Takes, Wastes, SameSector
  <2>2. lines'[w].tag = 0 => Wastes(b, s, w)
    BY <1>1 DEF Changes, Touches, Extends, Takes
  <2>3. Wastes(b, s, w) => level = "L2" /\ \A t \in Sectors : lines'[w].status[t] # "VALID"
    BY DEF Wastes
  <2>. QED
    BY <2>1, <2>2, <2>3 DEF Idle, is_invalid_line
<1>8. \A v \in Idle' : lines'[v].tag = 0
  <2>1. Idle' \subseteq Ways
    BY DEF Idle, Ways
  <2>. QED
    BY <1>2, <1>6, <1>7, <2>1 DEF Inv, OneLinePerBlock
<1>9. \A v \in Ways \ Idle' : lines'[v].tag = 0 =>
        level' = "L2" /\ \A t \in Sectors : lines'[v].status[t] # "VALID"
  BY <1>2, <1>6, <1>7 DEF Inv, OneLinePerBlock
<1>. QED
  BY <1>3, <1>5, <1>8, <1>9 DEF OneLinePerBlock, Ways

LEMMA ChangeKeepsInv ==
  ASSUME Inv, NEW b \in Blocks, NEW s \in Sectors, NEW w \in Ways, Changes(b, s, w)
  PROVE  Inv'
<1>1. OneLinePerBlock'
  BY ChangeKeepsLines
<1>2. Replaced(w) /\ b # 0
  BY CacheAssumption DEF Changes, Touches, Extends, Takes, Wastes
<1>3. RangeInv'
  BY <1>2 DEF Changes, Touches, Extends, Takes, Wastes, Dated, Replaced, Inv, RangeInv
<1>4. StampInv'
  <2>. SUFFICES ASSUME NEW v \in Ways, lines'[v].tag # 0
                PROVE  since'[lines'[v].tag] = lines'[v].stamp
    BY DEF StampInv, Ways
  <2>1. CASE v = w
    <3>1. lines'[w].tag = b /\ Dated(b, w)
      BY <2>1 DEF Changes, Touches, Extends, Takes, Wastes
    <3>. QED
      BY <2>1, <3>1 DEF Dated
  <2>2. CASE v # w
    <3>1. lines'[v] = lines[v]
      BY <2>2 DEF Inv, OneLinePerBlock, Changes, Touches, Extends, Takes, Wastes, Replaced
    <3>2. lines[v].tag \in Blocks /\ since[lines[v].tag] = lines[v].stamp
      BY <3>1 DEF Inv, StampInv, OneLinePerBlock, Line
    <3>3. UNCHANGED since \/ (Dated(b, w) /\ lines[v].tag # b)
      BY <1>2, <2>2 DEF Changes, Touches, Extends, Takes, Wastes, Inv, OneLinePerBlock
    <3>. QED
      BY <3>1, <3>2, <3>3 DEF Dated
  <2>. QED
    BY <2>1, <2>2
<1>. QED
  BY <1>1, <1>3, <1>4 DEF Inv

LEMMA InitInv == Init => Inv
<1>. SUFFICES ASSUME Init PROVE Inv
  OBVIOUS
<1>1. RangeInv
  BY DEF Init, RangeInv
<1>2. \A w \in Ways : lines[w] = [tag |-> 0, stamp |-> 0, status |-> NoSector]
  BY DEF Init
<1>3. Idle = Ways
  BY <1>2 DEF Idle, is_invalid_line, NoSector
<1>4. [tag |-> 0, stamp |-> 0, status |-> NoSector] \in Line
  BY <1>1 DEF Line, NoSector, RangeInv
<1>5. lines \in [Ways -> Line]
  BY <1>4 DEF Init
<1>6. OneLinePerBlock
  BY <1>2, <1>3, <1>5 DEF OneLinePerBlock
<1>. QED
  BY <1>1, <1>2, <1>6 DEF Inv, StampInv

LEMMA NextInv == Inv /\ [Next]_vars => Inv'
<1>. SUFFICES ASSUME Inv, [Next]_vars PROVE Inv'
  OBVIOUS
<1>1. CASE Rests
  <2>1. Line \subseteq Line'
    BY <1>1 DEF Rests, Line, Inv, RangeInv
  <2>2. OneLinePerBlock'
    BY <1>1, <2>1 DEF Rests, Inv, OneLinePerBlock, Idle, is_invalid_line, Ways
  <2>. QED
    BY <1>1, <2>2 DEF Rests, Inv, RangeInv, StampInv, Ways
<1>2. CASE \E b \in Blocks, s \in Sectors, w \in Ways : Changes(b, s, w)
  BY <1>2, ChangeKeepsInv
<1>. QED
  BY <1>1, <1>2, StepKinds

LEMMA Invariance == Spec => []Inv
BY InitInv, NextInv, PTL DEF Spec

\* Whatever comes between an access and its fill, a block has at most one line,
\* no sector stays RESERVED, and the lines without a block are those that L2
\* writes have left (cache.cpp:133-161, 187-203, 487-501).
THEOREM BlockHasOneLine == Spec => []OneLinePerBlock
BY Invariance, PTL DEF Inv
-----------------------------------------------------------------------------
(* Replacement.                                                             *)

\* A block that loses its line was the victim, and no line was idle.
LEMMA LosesAsVictim ==
  ASSUME Inv, [Next]_vars, NEW v \in Blocks, Known(v), ~Known(v)'
  PROVE  Idle = {} /\ lines[Victim].tag = v
<1>1. PICK x \in Ways \ Idle : lines[x].tag = v
  BY DEF Known, Matching
<1>2. ~Rests
  BY DEF Rests, Known, Matching, Idle, is_invalid_line, Ways
<1>3. PICK b \in Blocks, s \in Sectors, w \in Ways : Changes(b, s, w)
  BY <1>2, StepKinds
<1>4. x = w
  <2>1. SUFFICES ASSUME x # w PROVE FALSE
    OBVIOUS
  <2>2. lines'[x] = lines[x]
    BY <1>3, <2>1 DEF Changes, Touches, Extends, Takes, Wastes, Replaced, Inv, OneLinePerBlock
  <2>3. x \notin Idle'
    BY <1>1, <2>2 DEF Idle, is_invalid_line
  <2>. QED
    BY <1>1, <2>2, <2>3 DEF Known, Matching, Ways
<1>5. ~Wastes(b, s, w)
  BY <1>1, <1>4 DEF Wastes
<1>6. ~(Touches(b, s, w) \/ Extends(b, s, w))
  <2>1. SUFFICES ASSUME Touches(b, s, w) \/ Extends(b, s, w) PROVE FALSE
    OBVIOUS
  <2>2. lines'[w].tag = v /\ \E t \in Sectors : lines'[w].status[t] # "INVALID"
    BY <1>1, <1>4, <2>1 DEF Touches, Extends, SameSector
  <2>3. w \notin Idle'
    BY <2>2 DEF Idle, is_invalid_line
  <2>. QED
    BY <2>2, <2>3 DEF Known, Matching, Ways
<1>7. Takes(b, s, w)
  BY <1>3, <1>5, <1>6 DEF Changes
<1>8. w = Victim /\ w \notin Idle
  BY <1>1, <1>4, <1>7 DEF Takes
<1>. QED
  BY <1>1, <1>4, <1>8, VictimIsOldest DEF Inv

\* The block that loses its line was the longest without a use that counts, or
\* the first to come: StampInv carries the history to the stamps that the
\* code compares (cache.cpp:133-161).
THEOREM OldestIsEvicted == Spec => EvictsOldest
<1>1. Inv /\ [Next]_vars =>
        [\A v \in Blocks : Known(v) /\ ~Known(v)' =>
           \A b \in Blocks : Known(b) /\ Known(b)' => since[v] <= since[b]]_vars
  <2>. SUFFICES ASSUME Inv, [Next]_vars, NEW v \in Blocks, Known(v), ~Known(v)',
                       NEW b \in Blocks, Known(b)
                PROVE  since[v] <= since[b]
    OBVIOUS
  <2>1. Idle = {} /\ lines[Victim].tag = v /\ Victim \in Ways
    BY LosesAsVictim, VictimIsOldest DEF Inv
  <2>2. PICK y \in Ways : lines[y].tag = b
    BY DEF Known, Matching
  <2>3. lines[Victim].stamp <= lines[y].stamp
    BY <2>1, VictimIsOldest DEF Inv
  <2>4. since[v] = lines[Victim].stamp /\ since[b] = lines[y].stamp
    BY <2>1, <2>2, CacheAssumption DEF Inv, StampInv
  <2>. QED
    BY <2>3, <2>4
<1>. QED
  BY <1>1, Invariance, PTL DEF Spec, EvictsOldest
-----------------------------------------------------------------------------
(* The refinement of CacheAbs.                                              *)

Has(w, k) == lines[w].tag = k[1] /\ lines[w].status[k[2]] # "INVALID"
Owned == {w \in Ways \ Idle : lines[w].tag # 0}

LEMMA HeldHas ==
  ASSUME NEW k \in Blocks \X Sectors
  PROVE  /\ k \in Held <=> \E w \in Ways : Has(w, k)
         /\ k \in Held' <=> \E w \in Ways : Has(w, k)'
BY DEF Held, Has, Ways

\* A block is known to the abstract cache if a line has it.
LEMMA KnownIsHeld ==
  ASSUME Inv
  PROVE  /\ \A b \in Blocks : b \in Cache!Known <=> Known(b)
         /\ Cache!Known = {lines[w].tag : w \in Owned}
         /\ Cache!Known \subseteq Blocks
<1>1. \A w \in Ways : lines[w].tag \in Blocks \cup {0}
  BY DEF Inv, OneLinePerBlock, Line
<1>2. ASSUME NEW w \in Owned
      PROVE  lines[w].tag \in Blocks /\ lines[w].tag \in Cache!Known
  <2>1. lines[w].tag \in Blocks /\ w \in Ways
    BY <1>1 DEF Owned
  <2>2. PICK s \in Sectors : lines[w].status[s] # "INVALID"
    BY DEF Owned, Idle, is_invalid_line
  <2>. DEFINE k == <<lines[w].tag, s>>
  <2>3. k \in Held
    BY <2>1, <2>2 DEF Held
  <2>4. k[1] = lines[w].tag
    OBVIOUS
  <2>. QED
    BY <2>1, <2>3, <2>4 DEF Cache!Known
<1>3. ASSUME NEW b \in Cache!Known
      PROVE  b \in Blocks /\ \E w \in Owned : lines[w].tag = b
  <2>1. PICK k \in Held : b = k[1]
    BY DEF Cache!Known
  <2>2. b \in Blocks /\ k[2] \in Sectors
    BY <2>1 DEF Held
  <2>3. PICK w \in Ways : lines[w].tag = b /\ lines[w].status[k[2]] # "INVALID"
    BY <2>1 DEF Held
  <2>. QED
    BY <2>2, <2>3, CacheAssumption DEF Owned, Idle, is_invalid_line
<1>4. \A b \in Blocks : Known(b) <=> \E w \in Owned : lines[w].tag = b
  BY CacheAssumption DEF Known, Matching, Owned
<1>. QED
  BY <1>2, <1>3, <1>4

\* Both modules count in the same way.
LEMMA SameCount == \A S : Cache!Cardinality(S) = Cardinality(S)
BY DEF Cache!Cardinality, Cardinality, Cache!IsFiniteSet, IsFiniteSet

\* There is room as long as a line is idle.
LEMMA RoomIsIdle ==
  ASSUME Inv
  PROVE  /\ Cache!Room <=> Idle # {}
         /\ IsFiniteSet(Wasted) /\ Cardinality(Wasted) \in Nat
<1>1. IsFiniteSet(Ways) /\ Cardinality(Ways) = Assoc /\ Assoc \in Nat
  BY CacheAssumption, FS_Interval DEF Ways
<1>2. /\ Idle \in SUBSET Ways /\ Wasted \in SUBSET Ways /\ Owned \in SUBSET Ways
      /\ Owned \cap Wasted = {} /\ Owned \cup Wasted = Ways \ Idle
  BY DEF Idle, Wasted, Owned
<1>3. IsFiniteSet(Idle) /\ IsFiniteSet(Wasted) /\ IsFiniteSet(Owned)
  BY <1>1, <1>2, FS_Subset
<1>4. Cardinality(Idle) \in Nat /\ Cardinality(Wasted) \in Nat /\ Cardinality(Owned) \in Nat
  BY <1>3, FS_CardinalityType
<1>5. Cardinality(Owned) + Cardinality(Wasted) = Cardinality(Ways \ Idle)
  <2>1. /\ Cardinality(Owned \cup Wasted)
             = Cardinality(Owned) + Cardinality(Wasted) - Cardinality(Owned \cap Wasted)
        /\ Cardinality({}) = 0
    BY <1>3, FS_Union, FS_EmptySet
  <2>2. Cardinality(Owned \cup Wasted) = Cardinality(Ways \ Idle)
    BY <1>2, Zenon
  <2>3. Cardinality(Owned \cap Wasted) = 0
    BY <1>2, <2>1, Zenon
  <2>. QED
    BY <1>4, <2>1, <2>2, <2>3
<1>6. Cardinality(Ways \ Idle) = Assoc - Cardinality(Idle)
  <2>1. Ways \cap Idle = Idle
    BY <1>2
  <2>. QED
    BY <1>1, <2>1, FS_Difference
<1>7. Cardinality(Cache!Known) = Cardinality(Owned)
  <2>. DEFINE f == [w \in Owned |-> lines[w].tag]
  <2>1. Cache!Known = {lines[w].tag : w \in Owned}
    BY KnownIsHeld
  <2>2. \A v, w \in Owned : lines[v].tag = lines[w].tag => v = w
    BY DEF Inv, OneLinePerBlock, Owned
  <2>3. f \in Bijection(Owned, Cache!Known)
    <3>1. f \in [Owned -> Cache!Known]
      BY <2>1
    <3>2. f \in Injection(Owned, Cache!Known)
      BY <2>2, <3>1 DEF Injection, IsInjective
    <3>3. f \in Surjection(Owned, Cache!Known)
      BY <2>1, <3>1 DEF Surjection
    <3>. QED
      BY <3>2, <3>3 DEF Bijection
  <2>4. ExistsBijection(Owned, Cache!Known)
    BY <2>3 DEF ExistsBijection
  <2>. QED
    BY <1>3, <2>4, FS_Bijection
<1>8. Cardinality(Idle) = 0 <=> Idle = {}
  BY <1>3, FS_EmptySet
<1>. QED
  BY <1>1, <1>3, <1>4, <1>5, <1>6, <1>7, <1>8, SameCount DEF Cache!Room

\* What the lines other than w hold stays.
LEMMA OthersKeep ==
  ASSUME Inv, NEW w \in Ways, Replaced(w), NEW v \in Ways \ {w}
  PROVE  /\ lines'[v] = lines[v]
         /\ v \in Idle' <=> v \in Idle
         /\ v \in Wasted' <=> v \in Wasted
         /\ \A k \in Blocks \X Sectors : Has(v, k)' <=> Has(v, k)
<1>1. lines'[v] = lines[v]
  BY DEF Replaced, Inv, OneLinePerBlock
<1>. QED
  BY <1>1 DEF Idle, is_invalid_line, Wasted, Has, Ways

\* A use changes nothing that the abstract cache knows of.
LEMMA TouchMaps ==
  ASSUME Inv, NEW b \in Blocks, NEW s \in Sectors, NEW w \in Ways, Touches(b, s, w)
  PROVE  <<b, s>> \in Held /\ Held' = Held /\ Wasted' = Wasted
<1>1. Replaced(w) /\ b # 0
  BY CacheAssumption DEF Touches
<1>2. \A k \in Blocks \X Sectors : Has(w, k)' <=> Has(w, k)
  BY DEF Touches, SameSector, Has
<1>3. \A k \in Blocks \X Sectors : k \in Held' <=> k \in Held
  BY <1>1, <1>2, OthersKeep, HeldHas
<1>4. Held' = Held
  BY <1>3 DEF Held
<1>5. w \notin Wasted /\ w \notin Wasted'
  BY <1>1 DEF Touches, Wasted
<1>6. Wasted' = Wasted
  <2>1. Wasted' \subseteq Ways /\ Wasted \subseteq Ways
    BY DEF Wasted, Ways
  <2>. QED
    BY <1>1, <1>5, <2>1, OthersKeep
<1>7. <<b, s>> \in Held
  BY DEF Held, Touches
<1>. QED
  BY <1>4, <1>6, <1>7

\* A sector that comes to a block's line is added.
LEMMA ExtendMaps ==
  ASSUME Inv, NEW b \in Blocks, NEW s \in Sectors, NEW w \in Ways, Extends(b, s, w)
  PROVE  Held' = Held \cup {<<b, s>>} /\ Wasted' = Wasted
<1>1. Replaced(w) /\ b # 0
  BY CacheAssumption DEF Extends
<1>2. \A k \in Blocks \X Sectors : Has(w, k)' <=> Has(w, k) \/ k = <<b, s>>
  BY DEF Extends, SameSector, Has
<1>3. \A k \in Blocks \X Sectors : k \in Held' <=> k \in Held \/ k = <<b, s>>
  BY <1>1, <1>2, OthersKeep, HeldHas
<1>4. Held' = Held \cup {<<b, s>>}
  <2>1. Held' \subseteq Blocks \X Sectors /\ Held \subseteq Blocks \X Sectors /\ <<b, s>> \in Blocks \X Sectors
    BY DEF Held
  <2>. QED
    BY <1>3, <2>1
<1>5. w \notin Wasted /\ w \notin Wasted'
  BY <1>1 DEF Extends, Wasted
<1>6. Wasted' = Wasted
  <2>1. Wasted' \subseteq Ways /\ Wasted \subseteq Ways
    BY DEF Wasted, Ways
  <2>. QED
    BY <1>1, <1>5, <2>1, OthersKeep
<1>. QED
  BY <1>4, <1>6

\* A block that takes a line replaces what the line held.
LEMMA TakeMaps ==
  ASSUME Inv, NEW b \in Blocks, NEW s \in Sectors, NEW w \in Ways, Takes(b, s, w)
  PROVE  /\ Held' = {k \in Held : k[1] # lines[w].tag} \cup {<<b, s>>}
         /\ Wasted' = Wasted \ {w}
         /\ w \in Idle => Held' = Held \cup {<<b, s>>} /\ w \notin Wasted
         /\ w \notin Idle /\ lines[w].tag = 0 => Held' = Held \cup {<<b, s>>} /\ w \in Wasted
         /\ w \notin Idle /\ lines[w].tag # 0 => lines[w].tag \in Cache!Known /\ w \notin Wasted
<1>1. Replaced(w) /\ b # 0
  BY CacheAssumption DEF Takes
<1>2. \A k \in Blocks \X Sectors : Has(w, k)' <=> k = <<b, s>>
  BY DEF Takes, Has
<1>3. ASSUME NEW k \in Blocks \X Sectors
      PROVE  (\E v \in Ways \ {w} : Has(v, k)) <=> k \in Held /\ k[1] # lines[w].tag
  <2>1. \A v \in Ways \ {w} : lines[v].tag = lines[w].tag => lines[v].tag = 0
    BY DEF Inv, OneLinePerBlock
  <2>2. k[1] # 0
    BY CacheAssumption
  <2>. QED
    BY <2>1, <2>2, HeldHas DEF Has
<1>4. \A k \in Blocks \X Sectors :
        k \in Held' <=> (k \in Held /\ k[1] # lines[w].tag) \/ k = <<b, s>>
  BY <1>1, <1>2, <1>3, OthersKeep, HeldHas
<1>5. Held' \subseteq Blocks \X Sectors /\ Held \subseteq Blocks \X Sectors /\ <<b, s>> \in Blocks \X Sectors
  BY DEF Held
<1>6. Held' = {k \in Held : k[1] # lines[w].tag} \cup {<<b, s>>}
  BY <1>4, <1>5
<1>7. Wasted' = Wasted \ {w}
  <2>1. w \notin Wasted' /\ Wasted' \subseteq Ways /\ Wasted \subseteq Ways
    BY <1>1 DEF Takes, Wasted, Ways
  <2>. QED
    BY <1>1, <2>1, OthersKeep
<1>8. lines[w].tag = 0 => Held' = Held \cup {<<b, s>>}
  <2>1. \A k \in Held : k[1] # 0
    BY <1>5, CacheAssumption
  <2>. QED
    BY <1>6, <2>1
<1>9. w \in Idle => lines[w].tag = 0 /\ w \notin Wasted
  BY DEF Inv, OneLinePerBlock, Wasted
<1>10. w \notin Idle /\ lines[w].tag = 0 => w \in Wasted
  BY DEF Wasted
<1>11. w \notin Idle /\ lines[w].tag # 0 => lines[w].tag \in Cache!Known /\ w \notin Wasted
  BY KnownIsHeld DEF Owned, Wasted
<1>. QED
  BY <1>6, <1>7, <1>8, <1>9, <1>10, <1>11

\* A write without a block costs an idle line.
LEMMA WasteMaps ==
  ASSUME Inv, NEW b \in Blocks, NEW s \in Sectors, NEW w \in Ways, Wastes(b, s, w)
  PROVE  Held' = Held /\ Wasted' = Wasted \cup {w} /\ w \notin Wasted
<1>1. Replaced(w) /\ lines[w].tag = 0 /\ lines'[w].tag = 0
  BY DEF Wastes, Inv, OneLinePerBlock
<1>2. \A k \in Blocks \X Sectors : ~Has(w, k)' /\ ~Has(w, k)
  <2>1. \A k \in Blocks \X Sectors : k[1] # 0
    BY CacheAssumption
  <2>. QED
    BY <1>1, <2>1 DEF Has
<1>3. \A k \in Blocks \X Sectors : k \in Held' <=> k \in Held
  BY <1>1, <1>2, OthersKeep, HeldHas
<1>4. Held' = Held
  BY <1>3 DEF Held
<1>5. w \notin Wasted /\ w \in Wasted'
  BY <1>1 DEF Wastes, Wasted, Idle, is_invalid_line, Ways
<1>6. Wasted' = Wasted \cup {w}
  <2>1. Wasted' \subseteq Ways /\ Wasted \subseteq Ways
    BY DEF Wasted, Ways
  <2>. QED
    BY <1>1, <1>5, <2>1, OthersKeep
<1>. QED
  BY <1>4, <1>5, <1>6

\* A probe says what the abstract cache holds.
LEMMA ProbeIsHeld ==
  ASSUME Inv, NEW b \in Blocks, NEW s \in Sectors
  PROVE  tag_array_probe(b, s).status \in {"MISS", "SECTOR_MISS"} => <<b, s>> \notin Held
<1>. DEFINE p == tag_array_probe(b, s)
            k == <<b, s>>
<1>. SUFFICES ASSUME p.status \in {"MISS", "SECTOR_MISS"}, k \in Held PROVE FALSE
  OBVIOUS
<1>1. PICK w \in Ways : lines[w].tag = b /\ lines[w].status[s] # "INVALID"
  BY DEF Held
<1>2. p.status = "SECTOR_MISS" /\ p.way \in Ways /\ lines[p.way].tag = b /\ lines[p.way].status[s] = "INVALID"
  BY <1>1, Probe DEF Inv
<1>3. w = p.way
  BY <1>1, <1>2, CacheAssumption DEF Inv, OneLinePerBlock
<1>. QED
  BY <1>1, <1>2, <1>3

LEMMA MissMaps ==
  ASSUME Inv, NEW b \in Blocks, NEW s \in Sectors,
         tag_array_probe(b, s).status \in {"MISS", "SECTOR_MISS"},
         answer' = "MISS", UNCHANGED <<level, lines>>
  PROVE  Cache!AbsMiss(b, s)
<1>1. Held' = Held /\ Wasted' = Wasted
  BY DEF Held, Wasted, Idle, is_invalid_line, Ways
<1>. QED
  BY <1>1, ProbeIsHeld DEF Cache!AbsMiss

LEMMA HitMaps ==
  ASSUME Inv, NEW b \in Blocks, NEW s \in Sectors, NEW w \in Ways, Touches(b, s, w), answer' = "HIT"
  PROVE  Cache!AbsHit(b, s)
<1>1. UNCHANGED level
  BY DEF Touches, Replaced
<1>. QED
  BY <1>1, TouchMaps DEF Cache!AbsHit

LEMMA WriteIdleMaps ==
  ASSUME Inv, NEW b \in Blocks, NEW s \in Sectors, L2WriteIdle(b, s)
  PROVE  Cache!AbsWriteAllocates(b, s) \/ Cache!AbsWriteWasted(b, s)
<1>1. PICK w \in Idle : \/ Takes(b, s, w)
                        \/ Wastes(b, s, w) /\ tag_array_probe(b, s).status = "SECTOR_MISS"
  BY L2WriteTakesIdle
<1>2. answer' = "HIT" /\ level = "L2" /\ w \in Ways /\ Cache!Room
  BY L2WriteTakesIdle, RoomIsIdle DEF Idle
<1>3. CASE Takes(b, s, w)
  <2>1. UNCHANGED level /\ b \notin Cache!Known
    BY <1>3, KnownIsHeld DEF Takes, Replaced
  <2>2. Held' = Held \cup {<<b, s>>} /\ Wasted' = Wasted
    BY <1>2, <1>3, TakeMaps
  <2>. QED
    BY <1>2, <2>1, <2>2 DEF Cache!AbsWriteAllocates
<1>4. CASE Wastes(b, s, w) /\ tag_array_probe(b, s).status = "SECTOR_MISS"
  <2>1. UNCHANGED level /\ b \in Cache!Known /\ <<b, s>> \notin Held
    BY <1>4, KnownIsHeld, Probe, ProbeIsHeld DEF Wastes, Replaced, Inv
  <2>2. Held' = Held /\ Wasted' = Wasted \cup {w} /\ w \notin Wasted
    BY <1>2, <1>4, WasteMaps
  <2>3. Cardinality(Wasted \cup {w}) = Cardinality(Wasted) + 1
    BY <2>2, RoomIsIdle, FS_AddElement
  <2>. QED
    BY <1>2, <2>1, <2>2, <2>3 DEF Cache!AbsWriteWasted
<1>. QED
  BY <1>1, <1>3, <1>4

LEMMA FillMaps ==
  ASSUME Inv, NEW b \in Blocks, NEW s \in Sectors, Fill(b, s)
  PROVE  Cache!AbsFill(b, s)
<1>1. UNCHANGED <<level, answer>>
  BY DEF Fill
<1>2. ASSUME NEW w \in Ways, Touches(b, s, w)
      PROVE  Cache!AbsFill(b, s)
  <2>1. Held' = Held /\ Wasted' = Wasted /\ <<b, s>> \in Held
    BY <1>2, TouchMaps
  <2>2. b \in Cache!Known
    <3>1. <<b, s>>[1] = b
      OBVIOUS
    <3>. QED
      BY <2>1, <3>1 DEF Cache!Known
  <2>3. Held' = Held \cup {<<b, s>>}
    BY <2>1
  <2>. QED
    BY <1>1, <2>1, <2>2, <2>3 DEF Cache!AbsFill
<1>3. ASSUME NEW w \in Ways, Extends(b, s, w)
      PROVE  Cache!AbsFill(b, s)
  <2>1. Held' = Held \cup {<<b, s>>} /\ Wasted' = Wasted
    BY <1>3, ExtendMaps
  <2>2. CASE b \in Cache!Known
    BY <1>1, <2>1, <2>2 DEF Cache!AbsFill
  <2>3. CASE b \notin Cache!Known
    <3>1. w \in Idle
      BY <1>3, <2>3, KnownIsHeld DEF Known, Matching, Extends
    <3>2. Cache!Room
      BY <3>1, RoomIsIdle
    <3>. QED
      BY <1>1, <2>1, <3>2 DEF Cache!AbsFill
  <2>. QED
    BY <2>2, <2>3
<1>4. CASE Takes(b, s, Victim)
  <2>. DEFINE v == lines[Victim].tag
  <2>1. Victim \in Ways /\ b \notin Cache!Known
    BY <1>4, KnownIsHeld, VictimIsOldest DEF Takes, Inv
  <2>2. CASE Victim \in Idle
    <3>1. Cache!Room
      BY <2>2, RoomIsIdle
    <3>2. Held' = Held \cup {<<b, s>>} /\ Wasted' = Wasted
      BY <1>4, <2>1, <2>2, TakeMaps
    <3>. QED
      BY <1>1, <3>1, <3>2 DEF Cache!AbsFill
  <2>3. CASE Victim \notin Idle /\ v = 0
    <3>1. ~Cache!Room
      BY <2>3, RoomIsIdle, VictimIsOldest DEF Inv
    <3>2. Held' = Held \cup {<<b, s>>} /\ Wasted' = Wasted \ {Victim} /\ Victim \in Wasted
      BY <1>4, <2>1, <2>3, TakeMaps
    <3>3. /\ Cardinality(Wasted \ {Victim}) = Cardinality(Wasted) - 1
          /\ Cardinality(Wasted \ {Victim}) \in Nat /\ Cardinality(Wasted) \in Nat
      BY <3>2, RoomIsIdle, FS_RemoveElement, FS_CardinalityType
    <3>4. Cardinality(Wasted) > 0
      BY <3>3
    <3>. QED
      BY <1>1, <2>1, <3>1, <3>2, <3>3, <3>4 DEF Cache!AbsFill
  <2>4. CASE Victim \notin Idle /\ v # 0
    <3>1. ~Cache!Room
      BY <2>4, RoomIsIdle, VictimIsOldest DEF Inv
    <3>2. /\ Held' = Cache!Without(v) \cup {<<b, s>>}
          /\ v \in Cache!Known /\ Wasted' = Wasted
      BY <1>4, <2>1, <2>4, TakeMaps DEF Cache!Without
    <3>. QED
      BY <1>1, <2>1, <3>1, <3>2 DEF Cache!AbsFill
  <2>. QED
    BY <2>2, <2>3, <2>4
<1>. QED
  BY <1>2, <1>3, <1>4, FillPlaces

\* The tag array is the cache that CacheAbs promises to the rest of the
\* simulator: a hit is exactly a sector it holds, and it gives up at most one
\* block at a time and only for want of room (cache.cpp:94-216, 470-507).
THEOREM TagArrayIsACache == Spec => Implements
<1>1. Init => Cache!AbsInit
  <2>. SUFFICES ASSUME Init PROVE Cache!AbsInit
    OBVIOUS
  <2>1. \A w \in Ways : lines[w] = [tag |-> 0, stamp |-> 0, status |-> NoSector]
    BY DEF Init
  <2>2. Held = {}
    BY <2>1, CacheAssumption DEF Held
  <2>3. Wasted = {}
    BY <2>1 DEF Wasted, Idle, is_invalid_line, NoSector
  <2>. QED
    BY <2>2, <2>3, FS_EmptySet DEF Init, Cache!AbsInit
<1>2. Inv /\ [Next]_vars => [Cache!AbsNext]_(Cache!absVars)
  <2>. SUFFICES ASSUME Inv, [Next]_vars PROVE Cache!AbsNext \/ UNCHANGED Cache!absVars
    OBVIOUS
  <2>1. ASSUME NEW b \in Blocks, NEW s \in Sectors, Read(b, s)
        PROVE  Cache!AbsNext
    BY <2>1, ReadHits, HitMaps, MissMaps DEF Read, Cache!AbsNext
  <2>2. ASSUME NEW b \in Blocks, NEW s \in Sectors, L1Write(b, s)
        PROVE  Cache!AbsNext
    BY <2>2, L1WriteHits, HitMaps, MissMaps DEF L1Write, Cache!AbsNext
  <2>3. ASSUME NEW b \in Blocks, NEW s \in Sectors, L2WriteHit(b, s)
        PROVE  Cache!AbsNext
    BY <2>3, L2WriteHits, HitMaps DEF Cache!AbsNext
  <2>4. ASSUME NEW b \in Blocks, NEW s \in Sectors, L2WriteIdle(b, s)
        PROVE  Cache!AbsNext
    BY <2>4, WriteIdleMaps DEF Cache!AbsNext
  <2>5. ASSUME NEW b \in Blocks, NEW s \in Sectors, L2WriteMiss(b, s)
        PROVE  Cache!AbsNext
    BY <2>5, MissMaps DEF L2WriteMiss, Cache!AbsNext
  <2>6. ASSUME NEW b \in Blocks, NEW s \in Sectors, Fill(b, s)
        PROVE  Cache!AbsNext
    BY <2>6, FillMaps DEF Cache!AbsNext
  <2>7. UNCHANGED <<level, lines, answer>> => UNCHANGED Cache!absVars
    BY DEF Cache!absVars, Held, Wasted, Idle, is_invalid_line, Ways
  <2>8. Tick \/ UNCHANGED vars => UNCHANGED Cache!absVars
    BY <2>7 DEF Tick, vars
  <2>. QED
    BY <2>1, <2>2, <2>3, <2>4, <2>5, <2>6, <2>8 DEF Next
<1>. QED
  BY <1>1, <1>2, Invariance, PTL DEF Spec, Implements, Cache!AbsSpec
=============================================================================
