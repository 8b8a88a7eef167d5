------------------------------ MODULE MemPath ------------------------------
(***************************************************************************)
(* The path of a memory request from an SM to one L2 slice of gan-swift-sim  *)
(* (cache.cpp, gpu.cpp): bank queue, L1 with its MSHRs and miss queue,      *)
(* interconnect, L2 with its MSHRs, DRAM, and back to the scoreboard.       *)
(*                                                                          *)
(* Latencies are abstracted: each stage takes its next request whenever it  *)
(* likes, in the order its queue keeps.  The DRAM channel (latency queue,   *)
(* mrqq, rwq, return queue) is one FIFO, as scheduler_fifo leaves it.  A    *)
(* cache is the set of sectors it holds, as CacheAbs describes it for the   *)
(* tag array, with one sector per block; a victim is any block, which       *)
(* covers LRU and FIFO replacement.                                         *)
(*                                                                          *)
(* A mem_fetch is a pair of a request and the role it plays: "load",        *)
(* "store" and "atom" are the request itself, "wt" is the copy that the L1  *)
(* makes of a write that hits (WRITE_THROUGH_L2).                           *)
(***************************************************************************)
EXTENDS Integers, Sequences, FiniteSets, SequencesExt

CONSTANTS
  SMs,
  Reqs,           \* the requests the SMs will send
  Sectors,        \* sector addresses; each has an L1 bank of its own
  L1Lines, L2Lines,
  L1Entries, L1Merge,   \* m_mshr_entries and m_mshr_max_merge
  L2Entries, L2Merge,
  InBufferLimit   \* of an SM's port on the interconnect's request network

ASSUME MemPathAssumption ==
  /\ IsFiniteSet(SMs) /\ IsFiniteSet(Reqs) /\ IsFiniteSet(Sectors)
  /\ {L1Lines, L2Lines, L1Entries, L1Merge, L2Entries, L2Merge, InBufferLimit} \subseteq Nat \ {0}

VARIABLES
  sm, kind, addr, \* of every request
  unsent,         \* requests the SMs have still to send
  pending,        \* loads and atomics a scoreboard waits for
  sm_to_l1,       \* bank queues, for every SM; so are the next six
  l1, l1_mshr,    \* sectors in the L1; requests waiting in an MSHR entry
  miss_queue,
  l1_to_sm,       \* hits on their way back
  up, down,       \* the interconnect, requests and replies
  l1_to_l2,       \* m_l1_to_l2 of the slice
  l2, l2_mshr,
  l2_to_sms,      \* L2 hits on their way back
  dram,           \* from m_L2_dram_queue to m_dram_L2_queue
  deleted,        \* mem_fetch objects that the cycles have deleted
  retired,        \* retired_mem_fetches: deleted with the SM
  fault,          \* "cannot decrease" exit of write_back_request_l2
  destroyed,      \* ~gpu has run
  twice           \* mem_fetch objects that were deleted more than once by then

l1Vars == <<sm_to_l1, l1, l1_mshr, miss_queue, l1_to_sm>>
l2Vars == <<l1_to_l2, l2, l2_mshr, l2_to_sms, dram>>
endVars == <<destroyed, twice>>
vars == <<sm, kind, addr, unsent, pending, l1Vars, up, down, l2Vars, deleted, retired, fault, endVars>>

Fetches == Reqs \X {"load", "store", "atom", "wt"}
Self(r) == <<r, kind[r]>>
Req(m) == m[1]
Home(m) == sm[m[1]]
Sector(m) == addr[m[1]]
is_write(m) == m[2] # "load"
needs_reply(m) == m[2] \in {"load", "atom"}

Init ==
  /\ sm \in [Reqs -> SMs]
  /\ kind \in [Reqs -> {"load", "store", "atom"}]
  /\ addr \in [Reqs -> Sectors]
  /\ unsent = Reqs
  /\ pending = {}
  /\ sm_to_l1 = [c \in SMs |-> [a \in Sectors |-> <<>>]]
  /\ l1 = [c \in SMs |-> {}]
  /\ l1_mshr = [c \in SMs |-> [a \in Sectors |-> <<>>]]
  /\ miss_queue = [c \in SMs |-> <<>>]
  /\ l1_to_sm = [c \in SMs |-> <<>>]
  /\ up = [c \in SMs |-> <<>>]
  /\ down = [c \in SMs |-> <<>>]
  /\ l1_to_l2 = <<>>
  /\ l2 = {}
  /\ l2_mshr = [a \in Sectors |-> <<>>]
  /\ l2_to_sms = {}
  /\ dram = <<>>
  /\ deleted = {} /\ retired = {}
  /\ fault = FALSE
  /\ destroyed = FALSE /\ twice = {}
-----------------------------------------------------------------------------
(* mshr_table and the tag array.                                            *)

probe(mshr, a) == mshr[a] # <<>>

\* Mutant: one request too many is merged, or one entry too many opened.
full_OffByOne(mshr, a, entries, merge) ==
  IF probe(mshr, a)
  THEN Len(mshr[a]) > merge
  ELSE Cardinality({b \in Sectors : probe(mshr, b)}) > entries

full(mshr, a, entries, merge) ==
  IF probe(mshr, a)
  THEN Len(mshr[a]) >= merge
  ELSE Cardinality({b \in Sectors : probe(mshr, b)}) >= entries

\* The caches that result from filling sector a: the line is one that is free,
\* or another block's, even if fewer than "lines" blocks are found, since L2
\* writes may have left lines without a block (CacheAbs).
Filled(cache, a, lines) ==
  IF a \in cache THEN {cache}
  ELSE {(cache \ {v}) \cup {a} : v \in cache}
         \cup (IF Cardinality(cache) < lines THEN {cache \cup {a}} ELSE {})
-----------------------------------------------------------------------------
(* The SM side, on SM c.                                                    *)

\* unit_cycle or process_ATOM_ATOMG: the request enters its bank queue, and
\* the scoreboard waits if it will be answered.
Send(r) ==
  /\ r \in unsent
  /\ unsent' = unsent \ {r}
  /\ pending' = IF needs_reply(Self(r)) THEN pending \cup {r} ELSE pending
  /\ sm_to_l1' = [sm_to_l1 EXCEPT ![sm[r]][addr[r]] = Append(@, Self(r))]
  /\ UNCHANGED <<sm, kind, addr, l1, l1_mshr, miss_queue, l1_to_sm, up, down, l2Vars,
                 deleted, retired, fault>>

\* Mutant: a write that hits is deleted although its reply is queued.
L1WriteHit_DeletesAlways(c, a, m) ==
  /\ is_write(m) /\ a \in l1[c]
  /\ miss_queue' = [miss_queue EXCEPT ![c] = Append(@, <<Req(m), "wt">>)]
  /\ l1_to_sm' = IF needs_reply(m) THEN [l1_to_sm EXCEPT ![c] = Append(@, m)] ELSE l1_to_sm
  /\ deleted' = deleted \cup {m}
  /\ UNCHANGED l1_mshr

\* Mutant: the request itself is written through, not a copy of it.
L1WriteHit_WithoutCopy(c, a, m) ==
  /\ is_write(m) /\ a \in l1[c]
  /\ miss_queue' = [miss_queue EXCEPT ![c] = Append(@, m)]
  /\ l1_to_sm' = IF needs_reply(m) THEN [l1_to_sm EXCEPT ![c] = Append(@, m)] ELSE l1_to_sm
  /\ UNCHANGED <<l1_mshr, deleted>>

L1WriteHit(c, a, m) ==
  /\ is_write(m) /\ a \in l1[c]
  /\ miss_queue' = [miss_queue EXCEPT ![c] = Append(@, <<Req(m), "wt">>)]
  /\ l1_to_sm' = IF needs_reply(m) THEN [l1_to_sm EXCEPT ![c] = Append(@, m)] ELSE l1_to_sm
  /\ deleted' = IF needs_reply(m) THEN deleted ELSE deleted \cup {m}
  /\ UNCHANGED l1_mshr

L1WriteMiss(c, a, m) ==
  /\ is_write(m) /\ a \notin l1[c]
  /\ miss_queue' = [miss_queue EXCEPT ![c] = Append(@, m)]
  /\ UNCHANGED <<l1_mshr, l1_to_sm, deleted>>

L1ReadHit(c, a, m) ==
  /\ ~is_write(m) /\ a \in l1[c]
  /\ l1_to_sm' = [l1_to_sm EXCEPT ![c] = Append(@, m)]
  /\ UNCHANGED <<l1_mshr, miss_queue, deleted>>

\* Mutant: the MSHR is probed after the request was added to it.
L1ReadMiss_ProbesLate(c, a, m) ==
  /\ ~is_write(m) /\ a \notin l1[c]
  /\ ~full(l1_mshr[c], a, L1Entries, L1Merge)
  /\ l1_mshr' = [l1_mshr EXCEPT ![c][a] = Append(@, m)]
  /\ UNCHANGED <<miss_queue, l1_to_sm, deleted>>

\* RESERVATION_FAIL leaves the request at the head of its bank queue.
L1ReadMiss(c, a, m) ==
  /\ ~is_write(m) /\ a \notin l1[c]
  /\ ~full(l1_mshr[c], a, L1Entries, L1Merge)
  /\ l1_mshr' = [l1_mshr EXCEPT ![c][a] = Append(@, m)]
  /\ miss_queue' = IF probe(l1_mshr[c], a) THEN miss_queue
                   ELSE [miss_queue EXCEPT ![c] = Append(@, m)]
  /\ UNCHANGED <<l1_to_sm, deleted>>

\* l1_cache_cycle and cache_access for the head of one bank.
L1Access(c, a) ==
  /\ sm_to_l1[c][a] # <<>>
  /\ LET m == Head(sm_to_l1[c][a]) IN
       \/ L1WriteHit(c, a, m) \/ L1WriteMiss(c, a, m)
       \/ L1ReadHit(c, a, m) \/ L1ReadMiss(c, a, m)
  /\ sm_to_l1' = [sm_to_l1 EXCEPT ![c][a] = Tail(@)]
  /\ UNCHANGED <<sm, kind, addr, unsent, pending, l1, up, down, l2Vars, retired, fault>>

\* m_miss_queue_cycle
SendMiss(c) ==
  /\ miss_queue[c] # <<>>
  /\ Len(up[c]) < InBufferLimit
  /\ up' = [up EXCEPT ![c] = Append(@, Head(miss_queue[c]))]
  /\ miss_queue' = [miss_queue EXCEPT ![c] = Tail(@)]
  /\ UNCHANGED <<sm, kind, addr, unsent, pending, sm_to_l1, l1, l1_mshr, l1_to_sm, down,
                 l2Vars, deleted, retired, fault>>

\* write_back: a hit releases its request, if it is still pending.
WriteBack(c) ==
  /\ l1_to_sm[c] # <<>>
  /\ LET m == Head(l1_to_sm[c]) IN
       /\ pending' = pending \ {Req(m)}
       /\ deleted' = deleted \cup {m}
  /\ l1_to_sm' = [l1_to_sm EXCEPT ![c] = Tail(@)]
  /\ UNCHANGED <<sm, kind, addr, unsent, sm_to_l1, l1, l1_mshr, miss_queue, up, down, l2Vars,
                 retired, fault>>

\* write_back_request_l2 for a load: everything that waits in the MSHR entry is
\* released and the sector is filled.
ReadReply(c) ==
  /\ down[c] # <<>> /\ ~is_write(Head(down[c]))
  /\ LET a == Sector(Head(down[c])) IN
     LET waiting == ToSet(l1_mshr[c][a]) IN
       /\ pending' = pending \ {Req(m) : m \in waiting}
       /\ fault' = \E m \in waiting : Req(m) \notin pending
       /\ retired' = retired \cup waiting
       /\ l1_mshr' = [l1_mshr EXCEPT ![c][a] = <<>>]
       /\ IF waiting = {} THEN UNCHANGED l1
          ELSE \E lines \in Filled(l1[c], a, L1Lines) : l1' = [l1 EXCEPT ![c] = lines]
  /\ down' = [down EXCEPT ![c] = Tail(@)]
  /\ UNCHANGED <<sm, kind, addr, unsent, sm_to_l1, miss_queue, l1_to_sm, up, l2Vars, deleted>>

\* The same for an atomic, which no MSHR entry holds.
AtomicReply(c) ==
  /\ down[c] # <<>> /\ is_write(Head(down[c]))
  /\ LET m == Head(down[c]) IN
       /\ pending' = pending \ {Req(m)}
       /\ fault' = (Req(m) \notin pending)
       /\ deleted' = deleted \cup {m}
  /\ down' = [down EXCEPT ![c] = Tail(@)]
  /\ UNCHANGED <<sm, kind, addr, unsent, l1Vars, up, l2Vars, retired>>
-----------------------------------------------------------------------------
(* The L2 side, l2_cache_cycle.                                             *)

\* A request leaves the interconnect, from any SM's port.
L2Receive(c) ==
  /\ up[c] # <<>>
  /\ l1_to_l2' = Append(l1_to_l2, Head(up[c]))
  /\ up' = [up EXCEPT ![c] = Tail(@)]
  /\ UNCHANGED <<sm, kind, addr, unsent, pending, l1Vars, down, l2, l2_mshr, l2_to_sms, dram,
                 deleted, retired, fault>>

\* A write that hits is done; an atomic is answered.
L2WriteHit(a, m) ==
  /\ is_write(m) /\ a \in l2
  /\ l2_to_sms' = IF needs_reply(m) THEN l2_to_sms \cup {m} ELSE l2_to_sms
  /\ deleted' = IF needs_reply(m) THEN deleted ELSE deleted \cup {m}
  /\ UNCHANGED <<l2, l2_mshr, dram>>

\* A write that misses takes an idle line if there is one (on a SECTOR_MISS that
\* line keeps its old tag, so the sector is still not found); in either case it
\* goes to the DRAM without an MSHR entry, unless it is a write-through copy.
L2WriteMiss(a, m) ==
  /\ is_write(m) /\ a \notin l2
  /\ l2' \in {l2} \cup (IF Cardinality(l2) < L2Lines THEN {l2 \cup {a}} ELSE {})
  /\ dram' = IF m[2] = "wt" THEN dram ELSE Append(dram, m)
  /\ deleted' = IF m[2] = "wt" THEN deleted \cup {m} ELSE deleted
  /\ UNCHANGED <<l2_mshr, l2_to_sms>>

L2ReadHit(a, m) ==
  /\ ~is_write(m) /\ a \in l2
  /\ l2_to_sms' = l2_to_sms \cup {m}
  /\ UNCHANGED <<l2, l2_mshr, dram, deleted>>

L2ReadMiss(a, m) ==
  /\ ~is_write(m) /\ a \notin l2
  /\ ~full(l2_mshr, a, L2Entries, L2Merge)
  /\ l2_mshr' = [l2_mshr EXCEPT ![a] = Append(@, m)]
  /\ dram' = IF probe(l2_mshr, a) THEN dram ELSE Append(dram, m)
  /\ UNCHANGED <<l2, l2_to_sms, deleted>>

L2Access ==
  /\ l1_to_l2 # <<>>
  /\ LET m == Head(l1_to_l2) IN
     LET a == Sector(m) IN
       L2WriteHit(a, m) \/ L2WriteMiss(a, m) \/ L2ReadHit(a, m) \/ L2ReadMiss(a, m)
  /\ l1_to_l2' = Tail(l1_to_l2)
  /\ UNCHANGED <<sm, kind, addr, unsent, pending, l1Vars, up, down, retired, fault>>

\* A hit leaves the L2; the three delay queues let hits overtake each other.
L2HitReply(m) ==
  /\ m \in l2_to_sms
  /\ l2_to_sms' = l2_to_sms \ {m}
  /\ down' = [down EXCEPT ![Home(m)] = Append(@, m)]
  /\ UNCHANGED <<sm, kind, addr, unsent, pending, l1Vars, up, l1_to_l2, l2, l2_mshr, dram,
                 deleted, retired, fault>>

\* The replies to one SM, in order.
RepliesTo(c, replies) ==
  LET mine == {i \in DOMAIN replies : Home(replies[i]) = c} IN
  LET nth(k) == CHOOSE i \in mine : Cardinality({j \in mine : j <= i}) = k IN
    [k \in 1 .. Cardinality(mine) |-> replies[nth(k)]]

\* Each SM is sent its replies behind those already on their way.
Answer(replies) == down' = [c \in SMs |-> down[c] \o RepliesTo(c, replies)]

\* return_l2_miss_to_sms: the sector is filled; whatever waits in the MSHR
\* entry is answered, and the returned request itself only if nothing waits.
DramReturn ==
  /\ dram # <<>>
  /\ LET m == Head(dram) IN
     LET a == Sector(m) IN
       /\ l2' \in Filled(l2, a, L2Lines)
       /\ l2_mshr' = [l2_mshr EXCEPT ![a] = <<>>]
       /\ Answer(IF probe(l2_mshr, a) THEN l2_mshr[a]
                 ELSE IF needs_reply(m) THEN <<m>> ELSE <<>>)
       /\ deleted' = IF ~probe(l2_mshr, a) /\ ~needs_reply(m) THEN deleted \cup {m} ELSE deleted
  /\ dram' = Tail(dram)
  /\ UNCHANGED <<sm, kind, addr, unsent, pending, l1Vars, up, l1_to_l2, l2_to_sms, retired, fault>>
-----------------------------------------------------------------------------
Memory == \/ \E c \in SMs : \/ \E a \in Sectors : L1Access(c, a)
                            \/ SendMiss(c) \/ WriteBack(c) \/ ReadReply(c) \/ AtomicReply(c)
                            \/ L2Receive(c)
          \/ L2Access \/ DramReturn
          \/ \E m \in l2_to_sms : L2HitReply(m)

At(q, m) == {k \in DOMAIN q : q[k] = m}

\* The deletes that m meets: in a cycle, in ~l1_data_cache, in
\* ~streaming_multiprocessor and in ~l2_data_cache.  Of "dram" the latter owns the two
\* ends, m_dram_L2_queue and m_L2_dram_queue; what is between them, in the
\* crossbar or in an MSHR entry is not deleted.
Deletes(m, first, last) ==
  {<<"cycle">> : x \in deleted \cap {m}}
  \cup (UNION {(UNION {{<<"bank", c, a, k>> : k \in At(sm_to_l1[c][a], m)} : a \in Sectors})
               \cup {<<"miss", c, k>> : k \in At(miss_queue[c], m)}
               \cup {<<"hit", c, k>> : k \in At(l1_to_sm[c], m)} : c \in SMs})
  \cup {<<"retired">> : x \in retired \cap {m}}
  \cup {<<"l2_in", k>> : k \in At(l1_to_l2, m)}
  \cup {<<"l2_out">> : x \in l2_to_sms \cap {m}}
  \cup {<<"dram", k>> : k \in At(dram, m) \ ((first + 1) .. last)}

\* ~gpu, when gpu_cycle has returned: no block waits for a reply any more, but
\* stores, and loads that were released by another reply, may be anywhere.
Destroy ==
  /\ unsent = {} /\ pending = {}
  /\ \E first, last \in 0 .. Len(dram) :
       twice' = {m \in Fetches : \E x, y \in Deletes(m, first, last) : x # y}
  /\ destroyed' = TRUE
  /\ UNCHANGED <<sm, kind, addr, unsent, pending, l1Vars, up, down, l2Vars, deleted, retired, fault>>

\* Nothing is left to send or to do.
Quiet == /\ unsent = {}
         /\ \A c \in SMs : /\ \A a \in Sectors : sm_to_l1[c][a] = <<>>
                           /\ {miss_queue[c], l1_to_sm[c], up[c], down[c]} = {<<>>}
         /\ l1_to_l2 = <<>> /\ dram = <<>> /\ l2_to_sms = {}

\* The process exits on a fault.
Terminated == (Quiet \/ fault \/ destroyed) /\ UNCHANGED vars

Step == (\E r \in Reqs : Send(r)) \/ Memory

Next == \/ ~fault /\ ~destroyed /\ ((Step /\ UNCHANGED endVars) \/ Destroy)
        \/ Terminated

Spec == Init /\ [][Next]_vars
-----------------------------------------------------------------------------
(* Properties.                                                              *)

\* The MSHRs, the request buffers and the caches stay within
\* their limits.
WithinLimits ==
  /\ \A c \in SMs : /\ \A a \in Sectors : Len(l1_mshr[c][a]) <= L1Merge
                    /\ Cardinality({a \in Sectors : probe(l1_mshr[c], a)}) <= L1Entries
                    /\ Len(up[c]) <= InBufferLimit
                    /\ Cardinality(l1[c]) <= L1Lines
  /\ \A a \in Sectors : Len(l2_mshr[a]) <= L2Merge
  /\ Cardinality({a \in Sectors : probe(l2_mshr, a)}) <= L2Entries
  /\ Cardinality(l2) <= L2Lines

\* Types, and every table and buffer within its limit, in the cycles.
CyclesOK ==
  /\ sm \in [Reqs -> SMs]
  /\ kind \in [Reqs -> {"load", "store", "atom"}]
  /\ addr \in [Reqs -> Sectors]
  /\ unsent \subseteq Reqs /\ pending \subseteq Reqs
  /\ sm_to_l1 \in [SMs -> [Sectors -> Seq(Fetches)]]
  /\ l1 \in [SMs -> SUBSET Sectors] /\ l2 \in SUBSET Sectors
  /\ l1_mshr \in [SMs -> [Sectors -> Seq(Fetches)]]
  /\ l2_mshr \in [Sectors -> Seq(Fetches)]
  /\ \A q \in {miss_queue, l1_to_sm, up, down} : q \in [SMs -> Seq(Fetches)]
  /\ {l1_to_l2, dram} \subseteq Seq(Fetches)
  /\ l2_to_sms \subseteq Fetches
  /\ deleted \subseteq Fetches /\ retired \subseteq Fetches
  /\ fault \in BOOLEAN
  /\ WithinLimits

\* The same, and the types of what ~gpu changes.
TypeOK == CyclesOK /\ destroyed \in BOOLEAN /\ twice \subseteq Fetches

\* Where the mem_fetches of SM c may be on their way, beyond its L1.
Travelling(c) == ToSet(miss_queue[c]) \cup ToSet(up[c]) \cup ToSet(l1_to_l2)
                 \cup ToSet(dram) \cup l2_to_sms \cup ToSet(down[c])
Held(c) == Travelling(c) \cup ToSet(l1_to_sm[c])
           \cup UNION {ToSet(sm_to_l1[c][a]) \cup ToSet(l1_mshr[c][a]) \cup ToSet(l2_mshr[a]) :
                         a \in Sectors}

\* A load the scoreboard waits for is on its way to the L1, on its way back, or
\* in an L1 MSHR entry for which a load of the same SM and sector is still out:
\* stores and atomics that answer an L2 MSHR entry early, duplicate answers and
\* merging with other SMs never strand it, however small MSHRs and buffers
\* are: when nothing more can happen, no load waits.  And an L2 MSHR entry has its own read
\* in the DRAM, so that a return will drain it.
LoadNeverLost ==
  /\ \A r \in pending : kind[r] = "load" =>
       \/ Self(r) \in ToSet(sm_to_l1[sm[r]][addr[r]]) \cup ToSet(l1_to_sm[sm[r]])
       \/ /\ Self(r) \in ToSet(l1_mshr[sm[r]][addr[r]])
          /\ \E q \in Reqs :
               /\ kind[q] = "load" /\ addr[q] = addr[r] /\ sm[q] = sm[r]
               /\ Self(q) \in Travelling(sm[r]) \cup ToSet(l2_mshr[addr[r]])
  /\ \A a \in Sectors : probe(l2_mshr, a) => Head(l2_mshr[a]) \in ToSet(dram)

\* write_back_request_l2 never meets its "cannot decrease" exits (gpu.cpp:440,
\* 460), although the L2 may answer a load twice.
NoReplyFault == ~fault

\* In the cycles a mem_fetch is deleted at most once and not while a queue still
\* holds it.  The destructors (gpu.cpp:635-639, cache.h:517-531, cache.cpp:359-381)
\* delete no write again, and of the loads only such as are in
\* retired_mem_fetches while a copy of their pointer is still under way.
NoUseAfterDelete ==
  /\ \A c \in SMs : deleted \cap (Held(c) \cup retired) = {}
  /\ twice \subseteq {m \in retired : ~is_write(m)}

\* gpu.cpp:972 comments the access type of an atomic as "//read".  A read is
\* never lost; this states the same of an atomic the scoreboard waits for.
AtomicNeverLost ==
  \A r \in pending : kind[r] = "atom" => Self(r) \in Held(sm[r])
============================================================================
