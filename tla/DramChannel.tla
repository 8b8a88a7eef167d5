----------------------------- MODULE DramChannel -----------------------------
(***************************************************************************)
(* One DRAM channel of gan-swift-sim and the L2 slices it serves:           *)
(* memory_partition::dram_cycle (cache.cpp), dram_t::cycle and              *)
(* scheduler_fifo (dram.cpp).  A request goes from the slice's              *)
(* m_L2_dram_queue to the latency queue, to mrqq, through a bank to the     *)
(* delay line rwq, to the return queue and to the slice's m_dram_L2_queue.  *)
(*                                                                          *)
(* A cycle is a sequence of stages in the order of the code: return, DRAM   *)
(* cycle, issue, latency queue, then l2_cache_cycle of every slice, which   *)
(* takes one returned request and may send a new one.  A bank is given a    *)
(* request and hands it to rwq within the same dram_t::cycle, so it is      *)
(* never seen busy and has no variable.  With simple_dram_model the latency *)
(* queue stands for the whole DRAM (dram_model_cycle): its head goes        *)
(* straight back to its slice.                                              *)
(*                                                                          *)
(* A request is a tuple: the slice it comes from, its number among the      *)
(* requests of that slice, the cycle it was issued to the channel, l2_id.   *)
(***************************************************************************)
EXTENDS FifoPipeline

CONSTANTS
  NumSlices,     \* m_n_sub_partition_per_memory_channel (2)
  CL,            \* length of the delay line rwq
  MissLatency,   \* l2_miss_latency
  ReturnSize,    \* gpgpu_dram_return_queue_size
  QueueLen,      \* limit of m_L2_dram_queue and m_dram_L2_queue (999999)
  MaxSent,       \* bound: requests a slice may send
  LastSend,      \* bound: cycle after which no request is sent
  MaxCycles      \* bound: cycles simulated

ASSUME DramAssumption ==
  /\ {NumSlices, CL, ReturnSize, QueueLen} \subseteq Nat \ {0}
  /\ {MissLatency, MaxSent, LastSend, MaxCycles} \subseteq Nat

Slices == 0 .. (NumSlices - 1)
MrqqLen == 2

VARIABLES
  simple_dram_model,   \* which of the two models is configured
  last_issued_partition,
  stage, turn,         \* the stage of the cycle, and the slice it is at
  cycles,
  L2_dram,             \* m_L2_dram_queue of every slice
  dram_latency_queue,  \* pairs of a request and its ready_cycle
  mrqq, rwq, returnq,
  dram_L2,             \* m_dram_L2_queue of every slice
  sent, answered,      \* how many requests a slice has sent and got back
  fault                \* the queue whose push assertion failed

queues == <<L2_dram, dram_latency_queue, mrqq, rwq, returnq, dram_L2>>
model == <<simple_dram_model, last_issued_partition>>
vars == <<model, stage, turn, cycles, queues, sent, answered, fault>>

From(r) == r[1]
Number(r) == r[2]
IssuedAt(r) == r[3]
l2_id(r) == r[4]

Init ==
  /\ simple_dram_model \in BOOLEAN
  /\ last_issued_partition = 0
  /\ stage = "return"
  /\ turn = 0
  /\ cycles = 1
  /\ L2_dram = [s \in Slices |-> <<>>]
  /\ dram_latency_queue = <<>>
  /\ mrqq = <<>>
  /\ rwq = fifo_pipeline(CL)
  /\ returnq = <<>>
  /\ dram_L2 = [s \in Slices |-> <<>>]
  /\ sent = [s \in Slices |-> 0]
  /\ answered = [s \in Slices |-> 0]
  /\ fault = "none"

At(from, to) == stage = from /\ fault = "none" /\ stage' = to
-----------------------------------------------------------------------------
HeadReturns == /\ returnq # <<>>
               /\ ~full(dram_L2[l2_id(Head(returnq))], QueueLen)

\* The head of the return queue goes to the slice named by its l2_id, if that
\* slice's queue has room.
Return ==
  /\ ~simple_dram_model /\ At("return", "cycle")
  /\ \/ /\ HeadReturns
        /\ dram_L2' = [dram_L2 EXCEPT ![l2_id(Head(returnq))] = push(@, Head(returnq), 0)]
        /\ returnq' = pop(returnq, 0)
     \/ ~HeadReturns /\ UNCHANGED <<dram_L2, returnq>>
  /\ UNCHANGED <<model, turn, cycles, L2_dram, dram_latency_queue, mrqq, rwq, sent, answered, fault>>

\* rwq after dram_t::cycle has taken its head, which it does unless the return
\* queue is full.
Drained == IF full(returnq, ReturnSize) THEN rwq ELSE pop(rwq, CL)

\* Mutant: an empty position of the delay line is returned too.
Cycle_ReturnsNull ==
  /\ ~simple_dram_model /\ At("cycle", "issue")
  /\ returnq' = IF full(returnq, ReturnSize) THEN returnq ELSE push(returnq, top(rwq), 0)
  /\ \/ mrqq = <<>> /\ rwq' = Drained /\ UNCHANGED mrqq
     \/ mrqq # <<>> /\ rwq' = push(Drained, top(mrqq), CL) /\ mrqq' = pop(mrqq, 0)
  /\ UNCHANGED <<model, turn, cycles, L2_dram, dram_latency_queue, dram_L2, sent, answered, fault>>

\* dram_t::cycle: the head of the delay line, if it is a request, goes to the
\* return queue; scheduler_fifo moves the head of mrqq to its bank and the bank
\* to the delay line.
Cycle ==
  /\ ~simple_dram_model /\ At("cycle", "issue")
  /\ returnq' = IF full(returnq, ReturnSize) \/ top(rwq) = Null THEN returnq
                ELSE push(returnq, top(rwq), 0)
  /\ \/ /\ mrqq = <<>>
        /\ rwq' = Drained
        /\ UNCHANGED <<mrqq, fault>>
     \/ /\ mrqq # <<>>
        /\ rwq' = push(Drained, top(mrqq), CL)
        /\ mrqq' = pop(mrqq, 0)
        /\ fault' = IF full(Drained, CL + 1) THEN "rwq" ELSE "none"
  /\ UNCHANGED <<model, turn, cycles, L2_dram, dram_latency_queue, dram_L2, sent, answered>>

\* Mutant: the last request of a queue is left in it.
can_issue_to_dram_KeepsLast(s) == Len(L2_dram[s]) > 1 /\ ~full(dram_L2[s], QueueLen)

can_issue_to_dram(s) == L2_dram[s] # <<>> /\ ~full(dram_L2[s], QueueLen)

\* The slices are tried in turn, beginning after last_issued_partition; dram_cycle
\* never assigns it, so there the order is always 1, 2, ..., 0.
Rank(s) == (s - last_issued_partition - 1) % NumSlices
FirstReady(s) == can_issue_to_dram(s) /\ \A t \in Slices : Rank(t) < Rank(s) => ~can_issue_to_dram(t)

\* Mutant: the request is marked with the wrong slice.
TakeRequest_OtherSlice ==
  \/ /\ ~full(mrqq, MrqqLen)
     /\ \E s \in Slices :
          /\ FirstReady(s)
          /\ LET r == Head(L2_dram[s]) IN
               dram_latency_queue' =
                 Append(dram_latency_queue, <<<<From(r), Number(r), cycles, 0>>, cycles + MissLatency>>)
          /\ L2_dram' = [L2_dram EXCEPT ![s] = pop(@, 0)]
  \/ /\ full(mrqq, MrqqLen) \/ \A s \in Slices : ~can_issue_to_dram(s)
     /\ UNCHANGED <<dram_latency_queue, L2_dram>>

\* One request is taken from the first slice that has one, unless mrqq is full.
TakeRequest ==
  \/ /\ ~full(mrqq, MrqqLen)
     /\ \E s \in Slices :
          /\ FirstReady(s)
          /\ LET r == Head(L2_dram[s]) IN
               dram_latency_queue' =
                 Append(dram_latency_queue, <<<<From(r), Number(r), cycles, s>>, cycles + MissLatency>>)
          /\ L2_dram' = [L2_dram EXCEPT ![s] = pop(@, 0)]
  \/ /\ full(mrqq, MrqqLen) \/ \A s \in Slices : ~can_issue_to_dram(s)
     /\ UNCHANGED <<dram_latency_queue, L2_dram>>

Issue ==
  /\ ~simple_dram_model /\ At("issue", "latency")
  /\ TakeRequest
  /\ UNCHANGED <<model, turn, cycles, mrqq, rwq, returnq, dram_L2, sent, answered, fault>>

\* The latency queue is a list: its head waits for its ready_cycle and for mrqq.
HeadReady == /\ dram_latency_queue # <<>>
             /\ cycles >= Head(dram_latency_queue)[2]
             /\ ~full(mrqq, MrqqLen)

Latency ==
  /\ ~simple_dram_model /\ At("latency", "l2")
  /\ \/ /\ HeadReady
        /\ mrqq' = push(mrqq, Head(dram_latency_queue)[1], 0)
        /\ dram_latency_queue' = Tail(dram_latency_queue)
     \/ ~HeadReady /\ UNCHANGED <<mrqq, dram_latency_queue>>
  /\ turn' = 0
  /\ UNCHANGED <<model, cycles, L2_dram, rwq, returnq, dram_L2, sent, answered, fault>>

\* dram_model_cycle: the head of the latency queue goes back to its slice when it
\* is ready and the slice's queue has room.
SimpleReady == /\ dram_latency_queue # <<>>
               /\ cycles >= Head(dram_latency_queue)[2]
               /\ ~full(dram_L2[l2_id(Head(dram_latency_queue)[1])], QueueLen)

SimpleReturn ==
  /\ simple_dram_model /\ At("return", "issue")
  /\ \/ /\ SimpleReady
        /\ LET r == Head(dram_latency_queue)[1] IN
             dram_L2' = [dram_L2 EXCEPT ![l2_id(r)] = push(@, r, 0)]
        /\ dram_latency_queue' = Tail(dram_latency_queue)
     \/ ~SimpleReady /\ UNCHANGED <<dram_L2, dram_latency_queue>>
  /\ UNCHANGED <<model, turn, cycles, L2_dram, mrqq, rwq, returnq, sent, answered, fault>>

\* The slice the loop ended at, served or not, is the last to be tried next time.
SimpleIssue ==
  /\ simple_dram_model /\ At("issue", "l2")
  /\ TakeRequest
  /\ \/ \E s \in Slices : FirstReady(s) /\ last_issued_partition' = s
     \/ (\A s \in Slices : ~FirstReady(s)) /\ UNCHANGED last_issued_partition
  /\ turn' = 0
  /\ UNCHANGED <<simple_dram_model, cycles, mrqq, rwq, returnq, dram_L2, sent, answered, fault>>

\* The part of l2_cache_cycle that meets the channel: one returned request is
\* taken, and at most one is sent, with no test of the queue's length.
L2Cycle ==
  /\ stage = "l2" /\ fault = "none" /\ turn \in Slices
  /\ dram_L2' = [dram_L2 EXCEPT ![turn] = pop(@, 0)]
  /\ answered' = [answered EXCEPT ![turn] = IF dram_L2[turn] = <<>> THEN @ ELSE @ + 1]
  /\ \/ /\ sent[turn] < MaxSent
        /\ cycles <= LastSend
        /\ sent' = [sent EXCEPT ![turn] = @ + 1]
        /\ L2_dram' = [L2_dram EXCEPT ![turn] = push(@, <<turn, sent[turn] + 1, 0, 0>>, 0)]
        /\ fault' = IF full(L2_dram[turn], QueueLen) THEN "L2_dram" ELSE "none"
     \/ UNCHANGED <<sent, L2_dram, fault>>
  /\ turn' = turn + 1
  /\ UNCHANGED <<model, stage, cycles, dram_latency_queue, mrqq, rwq, returnq>>

NextCycle ==
  /\ At("l2", "return")
  /\ turn = NumSlices
  /\ cycles < MaxCycles
  /\ cycles' = cycles + 1
  /\ UNCHANGED <<model, turn, queues, sent, answered, fault>>

\* An assertion has ended the process, or the bound was reached.
Terminated == /\ fault # "none" \/ (stage = "l2" /\ turn = NumSlices /\ cycles = MaxCycles)
              /\ UNCHANGED vars

Step == \/ Return \/ Cycle \/ Issue \/ Latency
        \/ SimpleReturn \/ SimpleIssue
        \/ L2Cycle \/ NextCycle
Next == Step \/ Terminated

Spec == Init /\ [][Next]_vars
\* memory_partition_cycle is called in every cycle of the simulation.
FairSpec == Spec /\ WF_vars(Step)
-----------------------------------------------------------------------------
(* Properties.                                                              *)

Request == Slices \X (Nat \ {0}) \X Nat \X Slices

TypeOK ==
  /\ simple_dram_model \in BOOLEAN
  /\ last_issued_partition \in Slices
  /\ stage \in {"return", "cycle", "issue", "latency", "l2"}
  /\ turn \in 0 .. NumSlices
  /\ cycles \in Nat \ {0}
  /\ L2_dram \in [Slices -> Seq(Request)]
  /\ dram_latency_queue \in Seq(Request \X Nat)
  /\ mrqq \in Seq(Request)
  /\ rwq \in Seq(Request \cup {Null})
  /\ returnq \in Seq(Request)
  /\ dram_L2 \in [Slices -> Seq(Request)]
  /\ sent \in [Slices -> Nat]
  /\ answered \in [Slices -> Nat]
  /\ fault \in {"none", "rwq", "L2_dram"}

\* None of the channel's own queues ever overflows or even fills up: rwq stays
\* at its minimum length, so neither its assertion (delayqueue.h:72) nor the
\* full() tests of dram_cycle and dram_t::cycle are ever met, however many
\* requests the slices send.
ChannelFits ==
  /\ fault # "rwq"
  /\ Len(rwq) = CL
  /\ Len(mrqq) < MrqqLen
  /\ Len(returnq) <= ReturnSize
  /\ stage # "return" => Len(returnq) <= 1 /\ \A s \in Slices : Len(dram_L2[s]) <= 1
  /\ stage = "cycle" => Len(returnq) = 0

Waiting == [i \in 1 .. Len(dram_latency_queue) |-> dram_latency_queue[i][1]]

\* Everything between the slice and its answers, the oldest first: the shared
\* queues hold the requests of the other slices too, and rwq its empty positions.
Pipeline(s) == dram_L2[s] \o returnq \o rwq \o mrqq \o Waiting \o L2_dram[s]

Of(s, q) == {i \in DOMAIN q : q[i] # Null /\ From(q[i]) = s}
Numbers(s, q) == {Number(q[i]) : i \in Of(s, q)}
Ascending(s, q) == \A i, j \in Of(s, q) : i < j => Number(q[i]) < Number(q[j])

\* No request is lost, duplicated, overtaken or returned to another slice, on
\* its way through five queues (cache.cpp:582-627, 668-712, dram.cpp:85-225).
InOrder ==
  \A s \in Slices :
    /\ Numbers(s, Pipeline(s)) = (answered[s] + 1) .. sent[s]
    /\ Ascending(s, Pipeline(s))
    /\ Of(s, dram_L2[s]) = DOMAIN dram_L2[s]

\* From its issue a request takes exactly MissLatency + CL + 2 cycles, in the
\* simple model MissLatency (and at least 1): queues, banks and the other slice's
\* traffic never delay it.
Delay == CASE ~simple_dram_model -> MissLatency + CL + 2
           [] simple_dram_model /\ MissLatency > 0 -> MissLatency
           [] OTHER -> 1

ConstantLatency ==
  \A s \in Slices : \A i \in 1 .. Len(dram_L2[s]) : cycles = IssuedAt(dram_L2[s][i]) + Delay

\* delayqueue.h:72 asserts that a queue has room for what is pushed; the L2
\* pushes to its queue without asking (cache.h:586).
L2QueueFits == fault # "L2_dram"

\* Every request is answered, those of the slice that is always tried last too.
AllAnswered == \A s \in Slices : \A n \in 1 .. MaxSent : (sent[s] >= n) ~> (answered[s] >= n)
=============================================================================
