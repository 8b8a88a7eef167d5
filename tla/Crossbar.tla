------------------------------ MODULE Crossbar ------------------------------
(***************************************************************************)
(* The interconnect of gan-swift-sim (crossbar.cpp) between the L1 caches   *)
(* of the SMs and the L2 slices: two xbar_routers, one for requests and one *)
(* for replies, each with an input and an output buffer per node and a      *)
(* round-robin arbiter.                                                     *)
(*                                                                          *)
(* A cycle of gpu::gpu_cycle is a sequence of stages: every L2 slice pushes *)
(* the replies it has ready and pops one request, both routers advance,     *)
(* every active SM pops one reply and pushes at most one request.  When no  *)
(* SM is active any more the loop ends.  What an L2 slice does with a       *)
(* request, and when an SM stops, belongs to MemPath and SmCore.  Here a    *)
(* slice answers what it holds when it likes, once, twice or not at all:    *)
(* return_l2_miss_to_sms answers a load early when a store of its sector    *)
(* comes back, answers it again when its own read does, and may forget an   *)
(* atomic.  An SM may stop at the end of any of its cycles, with replies    *)
(* under way: one that is answered twice releases what it waits for early.  *)
(*                                                                          *)
(* A packet is a tuple: source, output_deviceID, its number among the       *)
(* packets of that source and output, and whether it asks for a reply.      *)
(***************************************************************************)
EXTENDS Integers, Sequences, FiniteSets

CONSTANTS
  NShader,      \* n_shader, number of SMs
  NMem,         \* n_mem, number of L2 slices
  InLimit,      \* in_buffer_limit
  OutLimit,     \* out_buffer_limit
  MaxPackets,   \* bound: packets each SM may send to each slice
  MaxAsking,    \* bound: how many of them, the first ones, may ask for a reply
  MaxAnswers    \* bound: answers the slice may give such a request (in the code two)

ASSUME CrossbarAssumption ==
  /\ {NShader, NMem, InLimit, OutLimit} \subseteq Nat \ {0}
  /\ {MaxPackets, MaxAnswers} \subseteq [(0 .. (NShader - 1)) \X (NShader .. (NShader + NMem - 1)) -> Nat]
  /\ MaxAsking \in Nat

total_nodes == NShader + NMem
Nodes == 0 .. (total_nodes - 1)
Shaders == 0 .. (NShader - 1)
Mems == NShader .. (total_nodes - 1)

REQ_NET == 0
REPLY_NET == 1
Nets == {REQ_NET, REPLY_NET}

VARIABLES
  stage, turn,    \* the stage of the cycle, and the node it is at
  in_buffers, out_buffers, next_node_id,   \* of every router
  active,         \* the SMs that still run
  held,           \* requests at an L2 slice, each with the answers it may still get
  sent, got,      \* number of the last packet sent and popped, for every pair
  waited          \* cycles an input buffer's head has been passed over

buffers == <<in_buffers, out_buffers, next_node_id>>
vars == <<stage, turn, buffers, active, held, sent, got, waited>>

Source(p) == p[1]
output_deviceID(p) == p[2]
Number(p) == p[3]
WantsReply(p) == p[4]

Init ==
  /\ stage = "mem"
  /\ turn = NShader
  /\ in_buffers = [t \in Nets |-> [n \in Nodes |-> <<>>]]
  /\ out_buffers = [t \in Nets |-> [n \in Nodes |-> <<>>]]
  /\ next_node_id = [t \in Nets |-> 0]
  /\ active = Shaders
  /\ held = [m \in Mems |-> {}]
  /\ sent = [p \in Nodes \X Nodes |-> 0]
  /\ got = [p \in Nodes \X Nodes |-> 0]
  /\ waited = [t \in Nets |-> [n \in Nodes |-> 0]]
-----------------------------------------------------------------------------
(* LocalInterconnect: which router, and xbar_router's buffers.              *)

PushNet(n) == IF n < NShader THEN REQ_NET ELSE REPLY_NET
PopNet(n) == IF n < NShader THEN REPLY_NET ELSE REQ_NET

HasBuffer(n) == Len(in_buffers[PushNet(n)][n]) + 1 <= InLimit

Push(n, d, wants) ==
  /\ in_buffers' = [in_buffers EXCEPT ![PushNet(n)][n] = Append(@, <<n, d, sent[<<n, d>>] + 1, wants>>)]
  /\ sent' = [sent EXCEPT ![<<n, d>>] = @ + 1]

Arrived(n) == out_buffers[PopNet(n)][n]

Pop(n) ==
  LET p == Head(Arrived(n)) IN
  /\ out_buffers' = [out_buffers EXCEPT ![PopNet(n)][n] = Tail(@)]
  /\ got' = [got EXCEPT ![<<Source(p), n>>] = Number(p)]
-----------------------------------------------------------------------------
(* xbar_router::RR_Advance.  Its loop visits the nodes in the order of       *)
(* Distance; a node's first packet moves if its output has room and no node  *)
(* visited earlier has used that output.                                     *)

\* Mutant: room is asked of all output buffers.
Has_Buffer_Out_OfAll(t, o) == \A n \in Nodes : Len(out_buffers[t][n]) + 1 <= OutLimit

Has_Buffer_Out(t, o) == Len(out_buffers[t][o]) + 1 <= OutLimit

\* Mutant: the nodes are visited in the order of their numbers.
Distance_FromZero(n, from) == n

Distance(n, from) == IF n >= from THEN n - from ELSE n + total_nodes - from

Wants(t, n, o) == in_buffers[t][n] # <<>> /\ output_deviceID(Head(in_buffers[t][n])) = o

Moves(t, n, o) ==
  /\ Wants(t, n, o)
  /\ Has_Buffer_Out(t, o)
  /\ \A m \in Nodes : Wants(t, m, o) => Distance(n, next_node_id[t]) <= Distance(m, next_node_id[t])

Leaves(t, n) == \E o \in Nodes : Moves(t, n, o)
Winner(t, o) == CHOOSE n \in Nodes : Moves(t, n, o)

\* Mutant: a packet that loses the arbitration is popped too.
InAfter_PopsLosers(t, n) == IF in_buffers[t][n] = <<>> THEN <<>> ELSE Tail(in_buffers[t][n])

InAfter(t, n) == IF Leaves(t, n) THEN Tail(in_buffers[t][n]) ELSE in_buffers[t][n]

OutAfter(t, o) == IF \E n \in Nodes : Moves(t, n, o)
                  THEN Append(out_buffers[t][o], Head(in_buffers[t][Winner(t, o)]))
                  ELSE out_buffers[t][o]

\* Counted up to total_nodes.
WaitedAfter(t, n) == IF in_buffers[t][n] = <<>> \/ Leaves(t, n) THEN 0
                     ELSE IF waited[t][n] < total_nodes THEN waited[t][n] + 1 ELSE total_nodes

\* Mutant: the arbiter always starts at node 0.
RR_Advance_FixedStart ==
  /\ in_buffers' = [t \in Nets |-> [n \in Nodes |-> InAfter(t, n)]]
  /\ out_buffers' = [t \in Nets |-> [o \in Nodes |-> OutAfter(t, o)]]
  /\ waited' = [t \in Nets |-> [n \in Nodes |-> WaitedAfter(t, n)]]
  /\ UNCHANGED next_node_id

\* Mutant: a packet that moves stays in its input buffer.
RR_Advance_KeepsPacket ==
  /\ out_buffers' = [t \in Nets |-> [o \in Nodes |-> OutAfter(t, o)]]
  /\ waited' = [t \in Nets |-> [n \in Nodes |-> WaitedAfter(t, n)]]
  /\ next_node_id' = [t \in Nets |-> (next_node_id[t] + 1) % total_nodes]
  /\ UNCHANGED in_buffers

RR_Advance ==
  /\ in_buffers' = [t \in Nets |-> [n \in Nodes |-> InAfter(t, n)]]
  /\ out_buffers' = [t \in Nets |-> [o \in Nodes |-> OutAfter(t, o)]]
  /\ waited' = [t \in Nets |-> [n \in Nodes |-> WaitedAfter(t, n)]]
  /\ next_node_id' = [t \in Nets |-> (next_node_id[t] + 1) % total_nodes]

\* Both routers advance once a cycle.
Advance ==
  /\ stage = "advance"
  /\ RR_Advance
  /\ stage' = "pop"
  /\ turn' = 0
  /\ UNCHANGED <<active, held, sent, got>>
-----------------------------------------------------------------------------
(* The nodes.                                                               *)

\* A slice pushes a reply, without asking for room; it may push several in one
\* cycle (the merged requests of an MSHR entry), and two for one request.
L2Reply ==
  /\ stage = "mem" /\ turn \in Mems
  /\ \E h \in held[turn] :
       /\ h[2] > 0
       /\ Push(turn, Source(h[1]), FALSE)
       /\ held' = [held EXCEPT ![turn] = (@ \ {h}) \cup {<<h[1], h[2] - 1>>}]
  /\ UNCHANGED <<stage, turn, out_buffers, next_node_id, active, got, waited>>

\* A slice pops one request, whether or not it can serve it now.
L2Pop ==
  /\ stage = "mem" /\ turn \in Mems
  /\ \/ /\ Arrived(turn) # <<>>
        /\ Pop(turn)
        /\ LET p == Head(Arrived(turn)) IN
             held' = IF WantsReply(p)
                     THEN [held EXCEPT ![turn] = @ \cup {<<p, MaxAnswers[<<Source(p), turn>>]>>}]
                     ELSE held
     \/ /\ Arrived(turn) = <<>>
        /\ UNCHANGED <<out_buffers, got, held>>
  /\ \/ turn < total_nodes - 1 /\ turn' = turn + 1 /\ UNCHANGED stage
     \/ turn = total_nodes - 1 /\ stage' = "advance" /\ UNCHANGED turn
  /\ UNCHANGED <<in_buffers, next_node_id, active, sent, waited>>

\* sm_cycle of an active SM pops one reply; that of another SM does nothing.
SMPop ==
  /\ stage = "pop" /\ turn \in Shaders
  /\ \/ /\ turn \in active /\ Arrived(turn) # <<>>
        /\ Pop(turn)
     \/ /\ turn \notin active \/ Arrived(turn) = <<>>
        /\ UNCHANGED <<out_buffers, got>>
  /\ stage' = "push"
  /\ UNCHANGED <<turn, in_buffers, next_node_id, active, held, sent, waited>>

\* del_inactive_block, after the misses were pushed, may delete the SM's last
\* block.  Then the next SM; after the last one a new cycle, if some SM is active.
SMDone ==
  /\ active' \in {active, active \ {turn}}
  /\ \/ turn < NShader - 1 /\ stage' = "pop" /\ turn' = turn + 1
     \/ turn = NShader - 1 /\ active' # {} /\ stage' = "mem" /\ turn' = NShader
     \/ turn = NShader - 1 /\ active' = {} /\ stage' = "ended" /\ UNCHANGED turn

\* m_miss_queue_cycle: the next miss is pushed if the input buffer has room.
SMPush ==
  /\ stage = "push" /\ turn \in active
  /\ HasBuffer(turn)
  /\ \E d \in Mems, wants \in BOOLEAN :
       /\ sent[<<turn, d>>] < MaxPackets[<<turn, d>>]
       /\ wants => sent[<<turn, d>>] < MaxAsking
       /\ Push(turn, d, wants)
  /\ SMDone
  /\ UNCHANGED <<out_buffers, next_node_id, held, got, waited>>

\* No miss to push, or no room for it.
SMIdle ==
  /\ stage = "push" /\ turn \in Shaders
  /\ SMDone
  /\ UNCHANGED <<buffers, held, sent, got, waited>>

\* gpu_cycle has returned.
Ended == stage = "ended" /\ UNCHANGED vars

Step == L2Reply \/ L2Pop \/ Advance \/ SMPop \/ SMPush \/ SMIdle
Next == Step \/ Ended

Spec == Init /\ [][Next]_vars
\* gpu_cycle calls the stages in every round of its loop.
FairSpec == Spec /\ WF_vars(Step)
-----------------------------------------------------------------------------
(* Properties.                                                              *)

\* Source, destination, number and whether a reply is wanted.
Packet == Nodes \X Nodes \X Nat \X BOOLEAN

\* What RR_Advance's loop (crossbar.cpp:97-116) computes, node after node.
Visit(t, x, n) ==
  IF x.in[n] = <<>> THEN x
  ELSE LET o == output_deviceID(Head(x.in[n])) IN
       IF Len(x.out[o]) + 1 <= OutLimit /\ o \notin x.issued
       THEN [in |-> [x.in EXCEPT ![n] = Tail(@)],
             out |-> [x.out EXCEPT ![o] = Append(@, Head(x.in[n]))],
             issued |-> x.issued \cup {o}]
       ELSE x

Loop(t) ==
  LET x[i \in 0 .. total_nodes] ==
        IF i = 0 THEN [in |-> in_buffers[t], out |-> out_buffers[t], issued |-> {}]
        ELSE Visit(t, x[i - 1], (i - 1 + next_node_id[t]) % total_nodes)
  IN x[total_nodes]

\* The loop, which changes the buffers while it reads them, serves every output
\* at most once and gives it to the first node in turn (crossbar.cpp:97-116).
LoopAgrees ==
  [][stage = "advance" => \A t \in Nets : /\ in_buffers'[t] = Loop(t).in
                                          /\ out_buffers'[t] = Loop(t).out]_vars

\* Requests are never held up by a slice, which pops one in every cycle, so that
\* out_buffer_limit is not met (crossbar.cpp:104), nor starved by the other SMs: the
\* first packet of an input buffer is passed over in fewer than total_nodes
\* cycles, whatever the other nodes send (crossbar.cpp:98, 117).
RequestsFlow == \A n \in Nodes : /\ Len(out_buffers[REQ_NET][n]) <= 1
                                 /\ waited[REQ_NET][n] < total_nodes

Destined(m, s) == in_buffers[REPLY_NET][m] # <<>> /\ output_deviceID(Head(in_buffers[REPLY_NET][m])) = s

\* The same for the replies to an SM that runs: no other SM, running or stopped
\* with replies left in its buffer (gpu.cpp:242-246), delays the first reply of a
\* slice's buffer by more than the turns of the other slices.
RepliesFlow ==
  \A s \in active : /\ Len(out_buffers[REPLY_NET][s]) <= 1
                    /\ \A m \in Mems : Destined(m, s) => waited[REPLY_NET][m] < total_nodes

Routes == (Shaders \X Mems) \cup (Mems \X Shaders)
Route(p) == <<Source(p), output_deviceID(p)>>

\* What the two buffers of route r hold, the oldest first, and the numbers of the
\* packets of that route among it.
OnTheWay(r) == out_buffers[PushNet(r[1])][r[2]] \o in_buffers[PushNet(r[1])][r[1]]
channel == [r \in Routes |->
  LET way == OnTheWay(r) IN
  LET places == {i \in 1 .. Len(way) : Route(way[i]) = r} IN
  LET nth(k) == CHOOSE i \in places : Cardinality({j \in places : j <= i}) = k IN
    [k \in 1 .. Cardinality(places) |-> Number(way[nth(k)])]]

\* The interconnect is a FIFO channel from every SM to every slice and back.
Channels == INSTANCE CrossbarAbs WITH
              sent <- [p \in Routes |-> sent[p]], got <- [p \in Routes |-> got[p]]
Implements == Channels!Spec

\* The slice's first reply is for a stopped SM whose output buffer is full.
Blocked(m) == \E s \in Shaders \ active : Destined(m, s) /\ ~Has_Buffer_Out(REPLY_NET, s)

\* As the senders fall silent at last, every request arrives, and every reply
\* to an SM that runs, unless the loop ends first, or the slice's replies are stuck
\* behind one for an SM that stopped and left out_buffer_limit replies unread
\* (crossbar.cpp:91-125, gpu.cpp:242-246).
AllArrive ==
  <>[](stage = "ended" \/ \A r \in Routes :
         got[r] = sent[r] \/ (r[1] \in Mems /\ (r[2] \notin active \/ Blocked(r[1]))))
=============================================================================
