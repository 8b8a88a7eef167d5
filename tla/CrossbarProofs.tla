--------------------------- MODULE CrossbarProofs ---------------------------
(***************************************************************************)
(* Proofs about the two routers, for any number of SMs and slices and any    *)
(* buffer limits.  Requests: the output buffers never exert back-pressure    *)
(* and no SM is starved, which depends on the stage of the cycle and on      *)
(* where the arbiter stands (FlowInv).  Both routers are FIFO channels       *)
(* (OrderInv).  Replies: the same as for requests, but only for the SMs that *)
(* still run, since one that has stopped pops nothing (ReplyInv).  And the   *)
(* code's arbitration loop does what RR_Advance says, by the least turn at   *)
(* which they would differ.                                                  *)
(***************************************************************************)
EXTENDS Crossbar, FiniteSetTheorems, FunctionTheorems, SequenceTheorems, WellFoundedInduction, TLAPS

\* The requests at a slice.
Holds(m) == {h[1] : h \in held[m]}

TypeInv ==
  /\ stage \in {"mem", "advance", "pop", "push", "ended"}
  /\ turn \in Nodes
  /\ in_buffers \in [Nets -> [Nodes -> Seq(Packet)]]
  /\ out_buffers \in [Nets -> [Nodes -> Seq(Packet)]]
  /\ next_node_id \in [Nets -> Nodes]
  /\ active \subseteq Shaders
  /\ held = [m \in Mems |-> held[m]]
  /\ \A m \in Mems : Holds(m) \subseteq Packet
  /\ sent \in [Nodes \X Nodes -> Nat]
  /\ waited \in [Nets -> [Nodes -> Nat]]

\* Requests go to the slices only; a slice has emptied its output buffer when
\* its turn is over; and a packet that has waited is that much closer to being
\* the arbiter's first choice.
FlowInv ==
  /\ stage = "mem" => turn \in Mems
  /\ stage \in {"pop", "push"} => turn \in Shaders
  /\ \A n \in Nodes : \A i \in 1 .. Len(in_buffers[REQ_NET][n]) :
       output_deviceID(in_buffers[REQ_NET][n][i]) \in Mems
  /\ \A n \in Shaders : out_buffers[REQ_NET][n] = <<>>
  /\ \A n \in Nodes : Len(out_buffers[REQ_NET][n]) <= 1
  /\ stage = "mem" => \A n \in Nodes : n < turn => out_buffers[REQ_NET][n] = <<>>
  /\ stage = "advance" => \A n \in Nodes : out_buffers[REQ_NET][n] = <<>>
  /\ \A n \in Nodes : waited[REQ_NET][n] + Distance(n, next_node_id[REQ_NET]) < total_nodes

Inv == TypeInv /\ FlowInv
-----------------------------------------------------------------------------
(* The nodes and the round.                                                 *)

\* The nodes are the SMs followed by the slices.
LEMMA NodeFacts ==
  /\ total_nodes \in Nat \ {0} /\ NShader \in Nat \ {0} /\ OutLimit \in Nat \ {0}
  /\ Shaders \subseteq Nodes /\ Mems \subseteq Nodes
  /\ Nodes \subseteq Nat
  /\ \A n \in Nodes : n < total_nodes
  /\ \A n \in Shaders : n < NShader /\ n \notin Mems /\ PushNet(n) = REQ_NET /\ PopNet(n) = REPLY_NET
  /\ \A n \in Mems : ~(n < NShader) /\ PushNet(n) = REPLY_NET /\ PopNet(n) = REQ_NET
  /\ \A n \in Nodes : n \in Shaders \/ n \in Mems
  /\ NShader \in Mems /\ 0 \in Shaders
  /\ REQ_NET \in Nets /\ REPLY_NET \in Nets /\ REQ_NET # REPLY_NET
BY CrossbarAssumption DEF total_nodes, Nodes, Shaders, Mems, PushNet, PopNet, REQ_NET, REPLY_NET, Nets

\* A node is fewer than total_nodes places behind the start of the round.
LEMMA DistanceRange ==
  ASSUME NEW n \in Nodes, NEW k \in Nodes
  PROVE  Distance(n, k) \in Nat /\ Distance(n, k) < total_nodes
BY CrossbarAssumption DEF Distance, Nodes, total_nodes

\* The next start of the round.
LEMMA NextStart ==
  ASSUME NEW k \in Nodes
  PROVE  (k + 1) % total_nodes = IF k + 1 = total_nodes THEN 0 ELSE k + 1
BY NodeFacts DEF Nodes

\* When the start moves on, every other node comes one place closer
\* (crossbar.cpp:117).
LEMMA DistanceShrinks ==
  ASSUME NEW n \in Nodes, NEW k \in Nodes, Distance(n, k) # 0
  PROVE  /\ (k + 1) % total_nodes \in Nodes
         /\ Distance(n, (k + 1) % total_nodes) = Distance(n, k) - 1
<1>1. (k + 1) % total_nodes = IF k + 1 = total_nodes THEN 0 ELSE k + 1
  BY NextStart
<1>2. total_nodes \in Nat \ {0}
  BY NodeFacts
<1>. QED
  BY <1>1, <1>2 DEF Distance, Nodes
-----------------------------------------------------------------------------
(* Push and Pop.                                                            *)

\* Push appends one packet to one buffer (crossbar.cpp:60-63, 178-191).
LEMMA PushFacts ==
  ASSUME TypeInv, NEW n \in Nodes, NEW d \in Nodes, NEW wants \in BOOLEAN, Push(n, d, wants)
  PROVE  /\ in_buffers' \in [Nets -> [Nodes -> Seq(Packet)]]
         /\ sent' \in [Nodes \X Nodes -> Nat]
         /\ in_buffers'[PushNet(n)][n]
              = Append(in_buffers[PushNet(n)][n], <<n, d, sent[<<n, d>>] + 1, wants>>)
         /\ \A t \in Nets, m \in Nodes : t # PushNet(n) \/ m # n => in_buffers'[t][m] = in_buffers[t][m]
<1>. DEFINE p == <<n, d, sent[<<n, d>>] + 1, wants>>
<1>1. PushNet(n) \in Nets
  BY DEF PushNet, Nets
<1>2. sent[<<n, d>>] \in Nat
  BY DEF TypeInv
<1>3. p \in Packet
  BY <1>2 DEF Packet
<1>4. /\ in_buffers' = [in_buffers EXCEPT ![PushNet(n)][n] = Append(in_buffers[PushNet(n)][n], p)]
      /\ sent' = [sent EXCEPT ![<<n, d>>] = sent[<<n, d>>] + 1]
  BY DEF Push
<1>. HIDE DEF p
<1>5. /\ in_buffers \in [Nets -> [Nodes -> Seq(Packet)]]
      /\ sent \in [Nodes \X Nodes -> Nat]
  BY DEF TypeInv
<1>6. Append(in_buffers[PushNet(n)][n], p) \in Seq(Packet)
  BY <1>1, <1>3, <1>5
<1>7. in_buffers' \in [Nets -> [Nodes -> Seq(Packet)]]
  BY <1>1, <1>4, <1>5, <1>6
<1>8. sent' \in [Nodes \X Nodes -> Nat]
  BY <1>2, <1>4, <1>5
<1>9. in_buffers'[PushNet(n)][n] = Append(in_buffers[PushNet(n)][n], p)
  BY <1>1, <1>4, <1>5
<1>10. ASSUME NEW t \in Nets, NEW m \in Nodes, t # PushNet(n) \/ m # n
       PROVE  in_buffers'[t][m] = in_buffers[t][m]
  BY <1>1, <1>4, <1>5, <1>10
<1>. QED
  BY <1>7, <1>8, <1>9, <1>10 DEF p

\* Pop removes the first packet of one buffer (crossbar.cpp:65-72, 193-199).
LEMMA PopFacts ==
  ASSUME TypeInv, NEW n \in Nodes, Arrived(n) # <<>>, Pop(n)
  PROVE  /\ out_buffers' \in [Nets -> [Nodes -> Seq(Packet)]]
         /\ Head(Arrived(n)) \in Packet
         /\ out_buffers'[PopNet(n)][n] = Tail(out_buffers[PopNet(n)][n])
         /\ \A t \in Nets, m \in Nodes : t # PopNet(n) \/ m # n => out_buffers'[t][m] = out_buffers[t][m]
<1>1. PopNet(n) \in Nets
  BY DEF PopNet, Nets
<1>2. out_buffers \in [Nets -> [Nodes -> Seq(Packet)]]
  BY DEF TypeInv
<1>3. out_buffers' = [out_buffers EXCEPT ![PopNet(n)][n] = Tail(out_buffers[PopNet(n)][n])]
  BY DEF Pop
<1>4. out_buffers[PopNet(n)][n] \in Seq(Packet) /\ out_buffers[PopNet(n)][n] # <<>>
  BY <1>1, <1>2 DEF Arrived
<1>5. Head(Arrived(n)) \in Packet /\ Tail(out_buffers[PopNet(n)][n]) \in Seq(Packet)
  BY <1>4, HeadTailProperties DEF Arrived
<1>6. out_buffers' \in [Nets -> [Nodes -> Seq(Packet)]]
  BY <1>1, <1>2, <1>3, <1>5
<1>7. out_buffers'[PopNet(n)][n] = Tail(out_buffers[PopNet(n)][n])
  BY <1>1, <1>2, <1>3
<1>8. ASSUME NEW t \in Nets, NEW m \in Nodes, t # PopNet(n) \/ m # n
      PROVE  out_buffers'[t][m] = out_buffers[t][m]
  BY <1>1, <1>2, <1>3, <1>8
<1>. QED
  BY <1>5, <1>6, <1>7, <1>8
-----------------------------------------------------------------------------
(* One lemma per action.                                                     *)

\* The first state: empty buffers, nobody has waited.
LEMMA InitInv == Init => Inv
<1>. SUFFICES ASSUME Init PROVE Inv
  OBVIOUS
<1>1. TypeInv
  BY NodeFacts DEF Init, TypeInv, Holds
<1>2. \A n \in Nodes : waited[REQ_NET][n] = 0 /\ next_node_id[REQ_NET] = 0
  BY NodeFacts DEF Init
<1>3. \A n \in Nodes : waited[REQ_NET][n] + Distance(n, next_node_id[REQ_NET]) < total_nodes
  BY <1>2, NodeFacts, DistanceRange
<1>4. \A n \in Nodes : in_buffers[REQ_NET][n] = <<>> /\ out_buffers[REQ_NET][n] = <<>>
  BY NodeFacts DEF Init
<1>5. FlowInv
  BY <1>3, <1>4, NodeFacts DEF Init, FlowInv
<1>. QED
  BY <1>1, <1>5 DEF Inv

\* A reply leaves the request at its slice, with one answer fewer to come.
LEMMA HeldAfterReply ==
  ASSUME held = [m \in Mems |-> held[m]], turn \in Mems, NEW h \in held[turn],
         held' = [held EXCEPT ![turn] = (held[turn] \ {h}) \cup {<<h[1], h[2] - 1>>}]
  PROVE  \A m \in Mems : Holds(m)' \subseteq Holds(m)
<1>1. \A m \in Mems : held'[m] = IF m = turn THEN (held[turn] \ {h}) \cup {<<h[1], h[2] - 1>>} ELSE held[m]
  OBVIOUS
<1>2. \A m \in Mems : \A x \in held'[m] : \E y \in held[m] : x[1] = y[1]
  BY <1>1
<1>. QED
  BY <1>2 DEF Holds

\* A reply (cache.cpp:391, 400, 423) touches the other network only.
LEMMA L2ReplyInv == Inv /\ L2Reply => Inv'
<1>. SUFFICES ASSUME Inv, L2Reply PROVE Inv'
  OBVIOUS
<1>1. turn \in Mems /\ turn \in Nodes
  BY NodeFacts DEF L2Reply
<1>2. PICK h \in held[turn] : /\ Push(turn, Source(h[1]), FALSE)
                              /\ held' = [held EXCEPT ![turn] = (held[turn] \ {h}) \cup {<<h[1], h[2] - 1>>}]
  BY DEF L2Reply
<1>. DEFINE p == h[1]
<1>3. p \in Packet
  BY <1>1, <1>2 DEF Inv, TypeInv, Holds
<1>4. Source(p) \in Nodes
  BY <1>3 DEF Packet, Source
<1>5. /\ in_buffers' \in [Nets -> [Nodes -> Seq(Packet)]]
      /\ sent' \in [Nodes \X Nodes -> Nat]
      /\ \A t \in Nets, m \in Nodes : t # PushNet(turn) \/ m # turn => in_buffers'[t][m] = in_buffers[t][m]
  BY <1>1, <1>2, <1>4, PushFacts DEF Inv
<1>6. \A n \in Nodes : in_buffers'[REQ_NET][n] = in_buffers[REQ_NET][n]
  BY <1>1, <1>5, NodeFacts
<1>7. TypeInv'
  <2>1. held = [m \in Mems |-> held[m]] /\ \A m \in Mems : Holds(m) \subseteq Packet
    BY DEF Inv, TypeInv
  <2>2. held' = [m \in Mems |-> held'[m]]
    BY <1>1, <1>2, <2>1
  <2>3. \A m \in Mems : Holds(m)' \subseteq Holds(m)
    BY <1>1, <1>2, <2>1, HeldAfterReply
  <2>. QED
    BY <1>5, <2>1, <2>2, <2>3 DEF Inv, TypeInv, L2Reply
<1>8. FlowInv'
  BY <1>6 DEF Inv, FlowInv, L2Reply
<1>. QED
  BY <1>7, <1>8 DEF Inv

\* A sequence of at most one element is empty after a Pop.
LEMMA TailOfOne ==
  ASSUME NEW q \in Seq(Packet), q # <<>>, Len(q) <= 1
  PROVE  Tail(q) = <<>>
<1>1. Len(q) \in Nat \ {0}
  BY EmptySeq
<1>2. Len(Tail(q)) = Len(q) - 1 /\ Tail(q) \in Seq(Packet)
  BY HeadTailProperties
<1>3. \A k \in Nat \ {0} : k <= 1 => k - 1 = 0
  OBVIOUS
<1>4. Len(Tail(q)) = 0
  BY <1>1, <1>2, <1>3
<1>. QED
  BY <1>2, <1>4, EmptySeq

\* A slice keeps the request it has popped if that asks for a reply.
HoldsToo(p) ==
  held' = IF WantsReply(p) THEN [held EXCEPT ![turn] = held[turn] \cup {<<p, MaxAnswers[<<Source(p), turn>>]>>}]
          ELSE held

LEMMA HeldAfterPop ==
  ASSUME held = [m \in Mems |-> held[m]], turn \in Mems, NEW p, HoldsToo(p)
  PROVE  /\ held' = [m \in Mems |-> held'[m]]
         /\ \A m \in Mems : \A x \in Holds(m)' : x \in Holds(m) \/ (m = turn /\ x = p)
<1>1. held' = [m \in Mems |-> held'[m]]
  BY DEF HoldsToo
<1>2. \A m \in Mems : \A x \in held'[m] : x \in held[m] \/ (m = turn /\ x[1] = p)
  <2>. DEFINE a == MaxAnswers[<<Source(p), turn>>]
  <2>1. held' = held \/ held' = [held EXCEPT ![turn] = held[turn] \cup {<<p, a>>}]
    BY DEF HoldsToo
  <2>. HIDE DEF a
  <2>2. <<p, a>>[1] = p
    OBVIOUS
  <2>. QED
    BY <2>1, <2>2
<1>. QED
  BY <1>1, <1>2 DEF Holds

\* l2_cache_cycle (cache.cpp:435): the slice whose turn it is empties its buffer.
LEMMA L2PopInv == Inv /\ L2Pop => Inv'
<1>. SUFFICES ASSUME Inv, L2Pop PROVE Inv'
  OBVIOUS
<1>1. turn \in Mems /\ turn \in Nodes /\ stage = "mem"
  BY NodeFacts DEF L2Pop
<1>2. PopNet(turn) = REQ_NET /\ Arrived(turn) = out_buffers[REQ_NET][turn]
  BY <1>1, NodeFacts DEF Arrived
<1>3. /\ out_buffers' \in [Nets -> [Nodes -> Seq(Packet)]]
      /\ held' = [m \in Mems |-> held'[m]] /\ \A m \in Mems : Holds(m)' \subseteq Packet
      /\ out_buffers'[REQ_NET][turn] = <<>>
      /\ \A m \in Nodes : m # turn => out_buffers'[REQ_NET][m] = out_buffers[REQ_NET][m]
  <2>1. CASE Arrived(turn) = <<>>
    <3>1. out_buffers' = out_buffers /\ held' = held
      BY <2>1 DEF L2Pop
    <3>. QED
      BY <1>2, <2>1, <3>1 DEF Inv, TypeInv, Holds
  <2>2. CASE Arrived(turn) # <<>>
    <3>1. Pop(turn) /\ HoldsToo(Head(Arrived(turn)))
      BY <2>2 DEF L2Pop, HoldsToo
    <3>2. /\ out_buffers' \in [Nets -> [Nodes -> Seq(Packet)]]
          /\ Head(Arrived(turn)) \in Packet
          /\ out_buffers'[PopNet(turn)][turn] = Tail(out_buffers[PopNet(turn)][turn])
          /\ \A t \in Nets, m \in Nodes :
               t # PopNet(turn) \/ m # turn => out_buffers'[t][m] = out_buffers[t][m]
      BY <1>1, <2>2, <3>1, PopFacts DEF Inv
    <3>3. out_buffers[REQ_NET][turn] \in Seq(Packet) /\ Len(out_buffers[REQ_NET][turn]) <= 1
      BY <1>1, NodeFacts DEF Inv, TypeInv, FlowInv
    <3>4. out_buffers'[REQ_NET][turn] = <<>>
      BY <1>2, <2>2, <3>2, <3>3, TailOfOne
    <3>5. held' = [m \in Mems |-> held'[m]] /\ \A m \in Mems : Holds(m)' \subseteq Packet
      <4>1. held = [m \in Mems |-> held[m]] /\ \A m \in Mems : Holds(m) \subseteq Packet
        BY DEF Inv, TypeInv
      <4>. QED
        BY <1>1, <3>1, <3>2, <4>1, HeldAfterPop
    <3>. QED
      BY <1>2, <3>2, <3>4, <3>5, NodeFacts
  <2>. QED
    BY <2>1, <2>2
<1>4. \/ turn < total_nodes - 1 /\ turn' = turn + 1 /\ stage' = "mem"
      \/ turn = total_nodes - 1 /\ turn' = turn /\ stage' = "advance"
  BY <1>1 DEF L2Pop
<1>5. turn' \in Mems
  BY <1>1, <1>4, CrossbarAssumption DEF Mems, total_nodes
<1>6. TypeInv'
  BY <1>3, <1>4, <1>5, NodeFacts DEF Inv, TypeInv, L2Pop
<1>7. \A n \in Nodes : n < turn => out_buffers'[REQ_NET][n] = <<>>
  <2>1. \A n \in Nodes : n < turn => n # turn
    BY <1>1, NodeFacts
  <2>. QED
    BY <1>1, <1>3, <2>1 DEF Inv, FlowInv
<1>8. stage' = "mem" => \A n \in Nodes : n < turn' => out_buffers'[REQ_NET][n] = <<>>
  <2>1. \A n \in Nodes : n < turn + 1 => n < turn \/ n = turn
    BY <1>1 DEF Nodes
  <2>. QED
    BY <1>3, <1>4, <1>7, <2>1
<1>9. stage' = "advance" => \A n \in Nodes : out_buffers'[REQ_NET][n] = <<>>
  <2>1. turn = total_nodes - 1 => \A n \in Nodes : n < turn \/ n = turn
    BY <1>1, NodeFacts DEF Nodes
  <2>. QED
    BY <1>3, <1>4, <1>7, <2>1
<1>10. /\ \A n \in Shaders : out_buffers'[REQ_NET][n] = <<>>
       /\ \A n \in Nodes : Len(out_buffers'[REQ_NET][n]) <= 1
  <2>1. \A n \in Shaders : n # turn /\ n \in Nodes
    BY <1>1, NodeFacts
  <2>2. Len(<<>>) = 0
    BY EmptySeq
  <2>3. ASSUME NEW n \in Nodes PROVE Len(out_buffers'[REQ_NET][n]) <= 1
    <3>1. CASE n = turn
      BY <1>3, <2>2, <3>1
    <3>2. CASE n # turn
      BY <1>3, <3>2 DEF Inv, FlowInv
    <3>. QED
      BY <3>1, <3>2
  <2>. QED
    BY <1>3, <2>1, <2>3 DEF Inv, FlowInv
<1>11. UNCHANGED <<in_buffers, next_node_id, waited>> /\ stage' \notin {"pop", "push"}
  BY <1>4 DEF L2Pop
<1>12. FlowInv'
  BY <1>5, <1>8, <1>9, <1>10, <1>11 DEF Inv, FlowInv
<1>. QED
  BY <1>6, <1>12 DEF Inv

\* A round leaves at most one packet in an output buffer that was empty.
LEMMA RoundFills ==
  ASSUME TypeInv, RR_Advance, NEW t \in Nets, NEW n \in Nodes, out_buffers[t][n] = <<>>
  PROVE  Len(out_buffers'[t][n]) <= 1
<1>1. out_buffers'[t][n] = OutAfter(t, n)
  BY DEF RR_Advance
<1>2. CASE \E m \in Nodes : Moves(t, m, n)
  <2>1. Winner(t, n) \in Nodes /\ Moves(t, Winner(t, n), n)
    BY <1>2 DEF Winner
  <2>2. Head(in_buffers[t][Winner(t, n)]) \in Packet
    <3>1. in_buffers[t][Winner(t, n)] # <<>>
      BY <2>1 DEF Moves, Wants
    <3>. QED
      BY <2>1, <3>1, HeadTailProperties DEF TypeInv
  <2>3. OutAfter(t, n) = Append(<<>>, Head(in_buffers[t][Winner(t, n)]))
    BY <1>2 DEF OutAfter
  <2>. QED
    BY <1>1, <2>2, <2>3, AppendProperties, EmptySeq
<1>3. CASE ~\E m \in Nodes : Moves(t, m, n)
  BY <1>1, <1>3, EmptySeq DEF OutAfter
<1>. QED
  BY <1>2, <1>3

\* A round serves the node it starts at if the output its packet wants is empty, and
\* the others that it passes over come one place closer (crossbar.cpp:97-117).
LEMMA RoundWaits ==
  ASSUME TypeInv, RR_Advance, NEW t \in Nets, NEW n \in Nodes,
         in_buffers[t][n] # <<>> /\ ~Leaves(t, n) =>
           /\ out_buffers[t][output_deviceID(Head(in_buffers[t][n]))] = <<>>
           /\ waited[t][n] + Distance(n, next_node_id[t]) < total_nodes
  PROVE  waited'[t][n] + Distance(n, next_node_id'[t]) < total_nodes
<1>. DEFINE k == next_node_id[t]
            w == waited[t][n]
<1>1. /\ waited'[t][n] = WaitedAfter(t, n)
      /\ next_node_id'[t] = (k + 1) % total_nodes
  BY DEF RR_Advance
<1>2. k \in Nodes /\ w \in Nat /\ (k + 1) % total_nodes \in Nodes
  <2>1. k \in Nodes /\ w \in Nat
    BY DEF TypeInv
  <2>. HIDE DEF k, w
  <2>2. (k + 1) % total_nodes \in Nodes
    BY <2>1, NextStart, NodeFacts DEF Nodes
  <2>. QED
    BY <2>1, <2>2
<1>3. CASE in_buffers[t][n] = <<>> \/ Leaves(t, n)
  <2>1. waited'[t][n] = 0
    BY <1>1, <1>3 DEF WaitedAfter
  <2>2. Distance(n, next_node_id'[t]) \in Nat /\ Distance(n, next_node_id'[t]) < total_nodes
    BY <1>1, <1>2, DistanceRange
  <2>. QED
    BY <2>1, <2>2
<1>4. CASE ~(in_buffers[t][n] = <<>> \/ Leaves(t, n))
  <2>1. w + Distance(n, k) < total_nodes /\ Distance(n, k) \in Nat /\ total_nodes \in Nat
    BY <1>2, <1>4, DistanceRange, NodeFacts
  <2>2. w < total_nodes
    <3>. HIDE DEF w, k
    <3>. QED
      BY <1>2, <2>1
  <2>3. waited'[t][n] = w + 1
    BY <1>1, <1>4, <2>2 DEF WaitedAfter
  <2>4. Distance(n, k) # 0
    <3>. SUFFICES ASSUME Distance(n, k) = 0 PROVE FALSE
      OBVIOUS
    <3>. DEFINE o == output_deviceID(Head(in_buffers[t][n]))
    <3>1. o \in Nodes /\ Wants(t, n, o)
      <4>1. Head(in_buffers[t][n]) \in Packet
        BY <1>4, HeadTailProperties DEF TypeInv
      <4>. QED
        BY <1>4, <4>1 DEF Wants, Packet, output_deviceID
    <3>2. Has_Buffer_Out(t, o)
      <4>1. Len(out_buffers[t][o]) = 0
        BY <1>4, EmptySeq
      <4>. QED
        BY <4>1, NodeFacts DEF Has_Buffer_Out
    <3>3. \A m \in Nodes : 0 <= Distance(m, k)
      BY <1>2, DistanceRange
    <3>4. Moves(t, n, o)
      BY <3>1, <3>2, <3>3 DEF Moves
    <3>. QED
      BY <1>4, <3>1, <3>4 DEF Leaves
  <2>5. Distance(n, (k + 1) % total_nodes) = Distance(n, k) - 1
    BY <1>2, <2>4, DistanceShrinks
  <2>6. waited'[t][n] + Distance(n, next_node_id'[t]) = (w + 1) + (Distance(n, k) - 1)
    BY <1>1, <2>3, <2>5
  <2>. HIDE DEF k, w
  <2>7. (w + 1) + (Distance(n, k) - 1) < total_nodes
    BY <1>2, <2>1
  <2>. QED
    BY <2>6, <2>7
<1>. QED
  BY <1>3, <1>4

\* RR_Advance (crossbar.cpp:91-125).  Every output has room, so the node at the
\* start of the round is served; the others that are not come one place closer.
LEMMA AdvanceInv == Inv /\ Advance => Inv'
<1>. SUFFICES ASSUME Inv, Advance PROVE Inv'
  OBVIOUS
<1>1. stage = "advance" /\ stage' = "pop" /\ turn' = 0
  BY DEF Advance
<1>2. /\ in_buffers' = [t \in Nets |-> [n \in Nodes |-> InAfter(t, n)]]
      /\ out_buffers' = [t \in Nets |-> [o \in Nodes |-> OutAfter(t, o)]]
      /\ waited' = [t \in Nets |-> [n \in Nodes |-> WaitedAfter(t, n)]]
      /\ next_node_id' = [t \in Nets |-> (next_node_id[t] + 1) % total_nodes]
  BY DEF Advance, RR_Advance
<1>3. /\ in_buffers \in [Nets -> [Nodes -> Seq(Packet)]]
      /\ out_buffers \in [Nets -> [Nodes -> Seq(Packet)]]
      /\ next_node_id \in [Nets -> Nodes]
      /\ waited \in [Nets -> [Nodes -> Nat]]
  BY DEF Inv, TypeInv
<1>4. ASSUME NEW t \in Nets, NEW n \in Nodes, in_buffers[t][n] # <<>>
      PROVE  /\ Head(in_buffers[t][n]) \in Packet
             /\ Tail(in_buffers[t][n]) \in Seq(Packet)
  BY <1>3, <1>4, HeadTailProperties
<1>5. ASSUME NEW t \in Nets, NEW n \in Nodes
      PROVE  InAfter(t, n) \in Seq(Packet) /\ WaitedAfter(t, n) \in Nat
  <2>1. Leaves(t, n) => in_buffers[t][n] # <<>>
    BY DEF Leaves, Moves, Wants
  <2>2. total_nodes \in Nat
    BY NodeFacts
  <2>. QED
    BY <1>3, <1>4, <2>1, <2>2 DEF InAfter, WaitedAfter
<1>6. ASSUME NEW t \in Nets, NEW o \in Nodes
      PROVE  OutAfter(t, o) \in Seq(Packet)
  <2>1. CASE \E n \in Nodes : Moves(t, n, o)
    <3>1. Winner(t, o) \in Nodes /\ Moves(t, Winner(t, o), o)
      BY <2>1 DEF Winner
    <3>2. Head(in_buffers[t][Winner(t, o)]) \in Packet
      BY <1>4, <3>1 DEF Moves, Wants
    <3>3. OutAfter(t, o) = Append(out_buffers[t][o], Head(in_buffers[t][Winner(t, o)]))
      BY <2>1 DEF OutAfter
    <3>4. out_buffers[t][o] \in Seq(Packet)
      BY <1>3
    <3>. QED
      BY <3>2, <3>3, <3>4, AppendProperties, EmptySeq
  <2>2. CASE ~\E n \in Nodes : Moves(t, n, o)
    BY <1>3, <2>2, EmptySeq DEF OutAfter
  <2>. QED
    BY <2>1, <2>2
<1>7. next_node_id' \in [Nets -> Nodes]
  <2>1. ASSUME NEW t \in Nets PROVE (next_node_id[t] + 1) % total_nodes \in Nodes
    <3>1. next_node_id[t] \in Nodes
      BY <1>3
    <3>. QED
      BY <3>1, NextStart, NodeFacts DEF Nodes
  <2>. QED
    BY <1>2, <2>1
<1>8. TypeInv'
  <2>1. in_buffers' \in [Nets -> [Nodes -> Seq(Packet)]] /\ waited' \in [Nets -> [Nodes -> Nat]]
    BY <1>2, <1>5
  <2>2. out_buffers' \in [Nets -> [Nodes -> Seq(Packet)]]
    BY <1>2, <1>6
  <2>. QED
    BY <1>1, <1>7, <2>1, <2>2, NodeFacts DEF Inv, TypeInv, Advance, Holds
<1>9. ASSUME NEW n \in Nodes
      PROVE  /\ in_buffers'[REQ_NET][n] = InAfter(REQ_NET, n)
             /\ out_buffers'[REQ_NET][n] = OutAfter(REQ_NET, n)
             /\ waited'[REQ_NET][n] = WaitedAfter(REQ_NET, n)
             /\ next_node_id'[REQ_NET] = (next_node_id[REQ_NET] + 1) % total_nodes
  BY <1>2, NodeFacts
<1>10. ASSUME NEW n \in Nodes, NEW i \in 1 .. Len(in_buffers'[REQ_NET][n])
       PROVE  output_deviceID(in_buffers'[REQ_NET][n][i]) \in Mems
  <2>. DEFINE q == in_buffers[REQ_NET][n]
  <2>1. q \in Seq(Packet) /\ \A k \in 1 .. Len(q) : output_deviceID(q[k]) \in Mems
    BY <1>3, NodeFacts DEF Inv, FlowInv
  <2>2. CASE Leaves(REQ_NET, n)
    <3>1. in_buffers'[REQ_NET][n] = Tail(q) /\ q # <<>>
      BY <1>9, <2>2 DEF InAfter, Leaves, Moves, Wants
    <3>. HIDE DEF q
    <3>2. Len(Tail(q)) = Len(q) - 1 /\ \A k \in 1 .. Len(Tail(q)) : Tail(q)[k] = q[k + 1]
      BY <2>1, <3>1, HeadTailProperties
    <3>3. Len(q) \in Nat /\ i \in 1 .. Len(Tail(q)) /\ i + 1 \in 1 .. Len(q)
      BY <1>10, <2>1, <3>1, <3>2, LenProperties
    <3>. QED
      BY <2>1, <3>1, <3>2, <3>3
  <2>3. CASE ~Leaves(REQ_NET, n)
    <3>1. in_buffers'[REQ_NET][n] = q
      BY <1>9, <2>3 DEF InAfter
    <3>. HIDE DEF q
    <3>. QED
      BY <1>10, <2>1, <3>1
  <2>. QED
    BY <2>2, <2>3
<1>11. ASSUME NEW n \in Nodes PROVE out_buffers[REQ_NET][n] = <<>>
  BY <1>1 DEF Inv, FlowInv
<1>12. ASSUME NEW n \in Nodes, in_buffers[REQ_NET][n] # <<>>
       PROVE  output_deviceID(Head(in_buffers[REQ_NET][n])) \in Mems
  <2>. DEFINE q == in_buffers[REQ_NET][n]
  <2>1. q \in Seq(Packet) /\ q # <<>> /\ \A k \in 1 .. Len(q) : output_deviceID(q[k]) \in Mems
    BY <1>3, <1>12, NodeFacts DEF Inv, FlowInv
  <2>. HIDE DEF q
  <2>2. Len(q) \in Nat \ {0} /\ Head(q) = q[1]
    BY <2>1, EmptySeq
  <2>3. 1 \in 1 .. Len(q)
    BY <2>2
  <2>4. output_deviceID(Head(q)) \in Mems
    BY <2>1, <2>2, <2>3
  <2>. QED
    BY <2>4 DEF q
<1>13. \A o \in Shaders : out_buffers'[REQ_NET][o] = <<>>
  <2>. SUFFICES ASSUME NEW o \in Shaders PROVE out_buffers'[REQ_NET][o] = <<>>
    OBVIOUS
  <2>1. o \in Nodes /\ o \notin Mems
    BY NodeFacts
  <2>2. ~\E n \in Nodes : Moves(REQ_NET, n, o)
    BY <1>12, <2>1 DEF Moves, Wants
  <2>. QED
    BY <1>9, <1>11, <2>1, <2>2 DEF OutAfter
<1>14. \A n \in Nodes : Len(out_buffers'[REQ_NET][n]) <= 1
  BY <1>11, RoundFills, NodeFacts DEF Inv, Advance
<1>15. \A n \in Nodes : waited'[REQ_NET][n] + Distance(n, next_node_id'[REQ_NET]) < total_nodes
  BY <1>11, <1>12, RoundWaits, NodeFacts DEF Inv, FlowInv, Advance
<1>16. FlowInv'
  BY <1>1, <1>10, <1>13, <1>14, <1>15, NodeFacts DEF FlowInv
<1>. QED
  BY <1>8, <1>16 DEF Inv

\* sm_cycle (gpu.cpp:251) pops from the other network.
LEMMA SMPopInv == Inv /\ SMPop => Inv'
<1>. SUFFICES ASSUME Inv, SMPop PROVE Inv'
  OBVIOUS
<1>1. turn \in Shaders /\ turn \in Nodes /\ stage' = "push" /\ turn' = turn
  BY NodeFacts DEF SMPop
<1>2. /\ out_buffers' \in [Nets -> [Nodes -> Seq(Packet)]]
      /\ \A m \in Nodes : out_buffers'[REQ_NET][m] = out_buffers[REQ_NET][m]
  <2>1. CASE turn \in active /\ Arrived(turn) # <<>>
    <3>1. Pop(turn)
      BY <2>1 DEF SMPop
    <3>. QED
      BY <1>1, <2>1, <3>1, PopFacts, NodeFacts DEF Inv
  <2>2. CASE ~(turn \in active /\ Arrived(turn) # <<>>)
    <3>1. out_buffers' = out_buffers
      BY <2>2 DEF SMPop
    <3>. QED
      BY <3>1 DEF Inv, TypeInv
  <2>. QED
    BY <2>1, <2>2
<1>3. TypeInv'
  BY <1>1, <1>2 DEF Inv, TypeInv, SMPop, Holds
<1>4. FlowInv'
  BY <1>1, <1>2, NodeFacts DEF Inv, FlowInv, SMPop
<1>. QED
  BY <1>3, <1>4 DEF Inv

\* Where the cycle goes after an SM (gpu.cpp:83, 96-103).
LEMMA SMDoneFacts ==
  ASSUME turn \in Shaders, SMDone
  PROVE  /\ turn' \in Nodes /\ stage' \in {"pop", "mem", "ended"}
         /\ stage' = "pop" => turn' \in Shaders
         /\ stage' = "mem" => turn' = NShader
         /\ active' \subseteq active
<1>1. turn < NShader - 1 => turn + 1 \in Shaders
  BY CrossbarAssumption DEF Shaders
<1>. QED
  BY <1>1, NodeFacts DEF SMDone

\* An SM that pushes nothing leaves the network alone.
LEMMA SMQuietInv ==
  ASSUME Inv, turn \in Shaders, SMDone, UNCHANGED <<buffers, held, sent, waited>>
  PROVE  Inv'
<1>1. UNCHANGED <<in_buffers, out_buffers, next_node_id, held, sent, waited>>
  BY DEF buffers
<1>2. TypeInv'
  BY <1>1, SMDoneFacts DEF Inv, TypeInv, Holds
<1>3. \A n \in Nodes : n < NShader => n \in Shaders
  BY NodeFacts
<1>4. FlowInv'
  BY <1>1, <1>3, SMDoneFacts, NodeFacts DEF Inv, FlowInv
<1>. QED
  BY <1>2, <1>4 DEF Inv

\* m_miss_queue_cycle (cache.cpp:340-352): the request is for a slice.
LEMMA SMPushInv == Inv /\ SMPush => Inv'
<1>. SUFFICES ASSUME Inv, SMPush PROVE Inv'
  OBVIOUS
<1>1. turn \in Shaders /\ turn \in Nodes /\ SMDone /\ PushNet(turn) = REQ_NET
  BY NodeFacts DEF SMPush, Inv, TypeInv
<1>2. PICK d \in Mems, wants \in BOOLEAN : Push(turn, d, wants)
  BY DEF SMPush
<1>. DEFINE p == <<turn, d, sent[<<turn, d>>] + 1, wants>>
<1>3. /\ in_buffers' \in [Nets -> [Nodes -> Seq(Packet)]]
      /\ sent' \in [Nodes \X Nodes -> Nat]
      /\ in_buffers'[REQ_NET][turn] = Append(in_buffers[REQ_NET][turn], p)
      /\ \A n \in Nodes : n # turn => in_buffers'[REQ_NET][n] = in_buffers[REQ_NET][n]
  <2>1. d \in Nodes
    BY <1>2, NodeFacts
  <2>2. /\ in_buffers' \in [Nets -> [Nodes -> Seq(Packet)]]
        /\ sent' \in [Nodes \X Nodes -> Nat]
        /\ in_buffers'[PushNet(turn)][turn] = Append(in_buffers[PushNet(turn)][turn], p)
        /\ \A t \in Nets, m \in Nodes : t # PushNet(turn) \/ m # turn => in_buffers'[t][m] = in_buffers[t][m]
    BY <1>1, <1>2, <2>1, PushFacts DEF Inv
  <2>. HIDE DEF p
  <2>. QED
    BY <1>1, <2>2, NodeFacts
<1>4. output_deviceID(p) = d
  BY DEF output_deviceID
<1>. HIDE DEF p
<1>5. TypeInv'
  BY <1>1, <1>3, SMDoneFacts DEF Inv, TypeInv, SMPush, Holds
<1>6. ASSUME NEW n \in Nodes, NEW i \in 1 .. Len(in_buffers'[REQ_NET][n])
      PROVE  output_deviceID(in_buffers'[REQ_NET][n][i]) \in Mems
  <2>. DEFINE q == in_buffers[REQ_NET][n]
  <2>1. q \in Seq(Packet) /\ \A k \in 1 .. Len(q) : output_deviceID(q[k]) \in Mems
    BY NodeFacts DEF Inv, FlowInv, TypeInv
  <2>2. CASE n = turn
    <3>1. in_buffers'[REQ_NET][n] = Append(q, p)
      BY <1>3, <2>2
    <3>. HIDE DEF q
    <3>2. Append(q, p)[i] = IF i <= Len(q) THEN q[i] ELSE p
      BY <1>6, <2>1, <3>1
    <3>3. i <= Len(q) => i \in 1 .. Len(q)
      BY <1>6, <2>1, <3>1
    <3>. QED
      BY <1>2, <1>4, <2>1, <3>1, <3>2, <3>3
  <2>3. CASE n # turn
    <3>1. in_buffers'[REQ_NET][n] = q
      BY <1>3, <2>3
    <3>. HIDE DEF q
    <3>. QED
      BY <1>6, <2>1, <3>1
  <2>. QED
    BY <2>2, <2>3
<1>7. \A n \in Nodes : n < NShader => n \in Shaders
  BY NodeFacts
<1>8. FlowInv'
  BY <1>1, <1>6, <1>7, SMDoneFacts, NodeFacts DEF Inv, FlowInv, SMPush
<1>. QED
  BY <1>5, <1>8 DEF Inv

\* FlowInv holds in every step.
LEMMA NextInv == Inv /\ [Next]_vars => Inv'
<1>. SUFFICES ASSUME Inv, [Next]_vars PROVE Inv'
  OBVIOUS
<1>1. CASE L2Reply
  BY <1>1, L2ReplyInv
<1>2. CASE L2Pop
  BY <1>2, L2PopInv
<1>3. CASE Advance
  BY <1>3, AdvanceInv
<1>4. CASE SMPop
  BY <1>4, SMPopInv
<1>5. CASE SMPush
  BY <1>5, SMPushInv
<1>6. CASE SMIdle
  BY <1>6, SMQuietInv DEF SMIdle, Inv, TypeInv
<1>7. CASE UNCHANGED vars
  BY <1>7 DEF vars, buffers, Inv, TypeInv, FlowInv, Holds
<1>. QED
  BY <1>1, <1>2, <1>3, <1>4, <1>5, <1>6, <1>7 DEF Next, Step, Ended
-----------------------------------------------------------------------------
\* For any number of SMs and slices, any limits and any traffic: an L2 slice never
\* holds up the request network, and a request at the head of its input buffer is
\* passed over fewer than total_nodes times.
THEOREM RequestsNeverStarve == Spec => []RequestsFlow
<1>1. Inv => RequestsFlow
  <2>. SUFFICES ASSUME Inv, NEW n \in Nodes
                PROVE  Len(out_buffers[REQ_NET][n]) <= 1 /\ waited[REQ_NET][n] < total_nodes
    BY DEF RequestsFlow
  <2>1. waited[REQ_NET][n] \in Nat /\ next_node_id[REQ_NET] \in Nodes
    BY NodeFacts DEF Inv, TypeInv
  <2>2. Distance(n, next_node_id[REQ_NET]) \in Nat
    BY <2>1, DistanceRange
  <2>3. waited[REQ_NET][n] + Distance(n, next_node_id[REQ_NET]) < total_nodes
    BY DEF Inv, FlowInv
  <2>4. waited[REQ_NET][n] < total_nodes
    BY <2>1, <2>2, <2>3, NodeFacts
  <2>. QED
    BY <2>4 DEF Inv, FlowInv
<1>. QED
  BY <1>1, InitInv, NextInv, PTL DEF Spec
-----------------------------------------------------------------------------
(* The order on a route.                                                     *)

Elems(q) == {q[i] : i \in 1 .. Len(q)}

\* The packets of a route in q are in the order of their numbers.
Sorted(q) == \A i, j \in 1 .. Len(q) : i < j /\ Route(q[i]) = Route(q[j]) => Number(q[i]) < Number(q[j])

\* On every route, the packets in a are older than those in b.
Precedes(a, b) == \A x \in Elems(a), y \in Elems(b) : Route(x) = Route(y) => Number(x) < Number(y)

\* Network t is the one of p's route, and p was sent and not yet popped.
Fits(p, t) == /\ Route(p) \in Routes
              /\ PushNet(Source(p)) = t
              /\ got[Route(p)] < Number(p)
              /\ Number(p) <= sent[Route(p)]

InNet(t) == UNION {Elems(in_buffers[t][n]) \cup Elems(out_buffers[t][n]) : n \in Nodes}
UnderWay == UNION {InNet(t) : t \in Nets}

\* Every packet is in the buffers of its own route.
PlaceInv == \A t \in Nets, n \in Nodes :
  /\ \A p \in Elems(in_buffers[t][n]) : Fits(p, t) /\ Source(p) = n
  /\ \A p \in Elems(out_buffers[t][n]) : Fits(p, t) /\ output_deviceID(p) = n

\* No packet overtakes another of its route, in a buffer or from one to the next.
SortedInv == \A t \in Nets, n \in Nodes :
  /\ Sorted(in_buffers[t][n]) /\ Sorted(out_buffers[t][n])
  /\ \A d \in Nodes : Precedes(out_buffers[t][d], in_buffers[t][n])

\* Nothing that was sent and not popped is lost.
CompleteInv == \A r \in Routes :
  /\ got[r] <= sent[r]
  /\ \A k \in (got[r] + 1) .. sent[r] : \E p \in UnderWay : Route(p) = r /\ Number(p) = k

\* What a slice holds came from an SM.
HeldInv == \A m \in Mems : \A p \in Holds(m) : Source(p) \in Shaders

OrderInv ==
  /\ got \in [Nodes \X Nodes -> Nat]
  /\ PlaceInv /\ SortedInv /\ CompleteInv /\ HeldInv

\* What a buffer holds after a push.
LEMMA ElemsAppend ==
  ASSUME NEW q \in Seq(Packet), NEW p \in Packet
  PROVE  Elems(Append(q, p)) = Elems(q) \cup {p}
<1>1. /\ Len(q) \in Nat /\ Len(Append(q, p)) = Len(q) + 1
      /\ \A i \in 1 .. Len(q) : Append(q, p)[i] = q[i]
      /\ Append(q, p)[Len(q) + 1] = p
  BY AppendProperties, LenProperties
<1>2. 1 .. (Len(q) + 1) = (1 .. Len(q)) \cup {Len(q) + 1}
  BY <1>1
<1>. QED
  BY <1>1, <1>2 DEF Elems

\* Its head, and what is behind it.
LEMMA ElemsTail ==
  ASSUME NEW q \in Seq(Packet), q # <<>>
  PROVE  Head(q) \in Packet /\ Tail(q) \in Seq(Packet) /\ Elems(q) = {Head(q)} \cup Elems(Tail(q))
<1>1. /\ Len(q) \in Nat \ {0} /\ Head(q) \in Packet /\ Head(q) = q[1] /\ Tail(q) \in Seq(Packet)
      /\ Len(Tail(q)) = Len(q) - 1 /\ \A i \in 1 .. Len(Tail(q)) : Tail(q)[i] = q[i + 1]
  BY HeadTailProperties, EmptySeq
<1>2. ASSUME NEW i \in 1 .. Len(q) PROVE i = 1 \/ (i - 1 \in 1 .. Len(Tail(q)) /\ q[i] = Tail(q)[i - 1])
  <2>1. i # 1 => i - 1 \in 1 .. Len(Tail(q)) /\ (i - 1) + 1 = i
    BY <1>1
  <2>. QED
    BY <1>1, <2>1
<1>3. \A i \in 1 .. Len(Tail(q)) : i + 1 \in 1 .. Len(q)
  BY <1>1
<1>4. 1 \in 1 .. Len(q)
  BY <1>1
<1>5. Elems(q) \subseteq {Head(q)} \cup Elems(Tail(q))
  BY <1>1, <1>2 DEF Elems
<1>6. {Head(q)} \cup Elems(Tail(q)) \subseteq Elems(q)
  BY <1>1, <1>3, <1>4 DEF Elems
<1>. QED
  BY <1>1, <1>5, <1>6

\* A buffer holds packets.
LEMMA ElemsType ==
  ASSUME NEW q \in Seq(Packet)
  PROVE  Elems(q) \subseteq Packet /\ (q = <<>> <=> Elems(q) = {})
<1>1. Len(q) \in Nat /\ (q = <<>> <=> Len(q) = 0) /\ \A i \in 1 .. Len(q) : q[i] \in Packet
  BY EmptySeq, ElementOfSeq, LenProperties
<1>2. Len(q) # 0 => 1 \in 1 .. Len(q)
  BY <1>1
<1>3. Len(q) = 0 => 1 .. Len(q) = {}
  OBVIOUS
<1>. QED
  BY <1>1, <1>2, <1>3 DEF Elems

\* A packet younger than the others of its route keeps a buffer sorted.
LEMMA SortedAppend ==
  ASSUME NEW q \in Seq(Packet), NEW p \in Packet, Sorted(q),
         \A x \in Elems(q) : Route(x) = Route(p) => Number(x) < Number(p)
  PROVE  Sorted(Append(q, p))
<1>1. /\ Len(q) \in Nat /\ Len(Append(q, p)) = Len(q) + 1
      /\ \A i \in 1 .. Len(q) : Append(q, p)[i] = q[i]
      /\ Append(q, p)[Len(q) + 1] = p
  BY AppendProperties, LenProperties
<1>. SUFFICES ASSUME NEW i \in 1 .. (Len(q) + 1), NEW j \in 1 .. (Len(q) + 1), i < j,
                     Route(Append(q, p)[i]) = Route(Append(q, p)[j])
              PROVE  Number(Append(q, p)[i]) < Number(Append(q, p)[j])
  BY <1>1 DEF Sorted
<1>2. i \in 1 .. Len(q) /\ (j = Len(q) + 1 \/ j \in 1 .. Len(q))
  BY <1>1
<1>3. CASE j = Len(q) + 1
  <2>1. q[i] \in Elems(q)
    BY <1>2 DEF Elems
  <2>. QED
    BY <1>1, <1>2, <1>3, <2>1
<1>4. CASE j \in 1 .. Len(q)
  BY <1>1, <1>2, <1>4 DEF Sorted
<1>. QED
  BY <1>2, <1>3, <1>4

\* The head is the oldest of its route, and what is behind it stays sorted.
LEMMA SortedTail ==
  ASSUME NEW q \in Seq(Packet), q # <<>>, Sorted(q)
  PROVE  /\ Sorted(Tail(q))
         /\ \A x \in Elems(Tail(q)) : Route(x) = Route(Head(q)) => Number(Head(q)) < Number(x)
<1>1. /\ Len(q) \in Nat \ {0} /\ Head(q) = q[1]
      /\ Len(Tail(q)) = Len(q) - 1 /\ \A i \in 1 .. Len(Tail(q)) : Tail(q)[i] = q[i + 1]
  BY HeadTailProperties, EmptySeq
<1>2. \A i \in 1 .. Len(Tail(q)) : i + 1 \in 1 .. Len(q) /\ 1 < i + 1
  BY <1>1
<1>3. \A i, j \in 1 .. Len(Tail(q)) : i < j => i + 1 < j + 1
  BY <1>1
<1>4. 1 \in 1 .. Len(q)
  BY <1>1
<1>5. Sorted(Tail(q))
  BY <1>1, <1>2, <1>3 DEF Sorted
<1>6. ASSUME NEW i \in 1 .. Len(Tail(q)), Route(Tail(q)[i]) = Route(Head(q)) PROVE Number(Head(q)) < Number(Tail(q)[i])
  BY <1>1, <1>2, <1>4, <1>6 DEF Sorted
<1>. QED
  BY <1>5, <1>6 DEF Elems

\* Where a packet that is under way is.
LEMMA UnderWayIs ==
  /\ \A p : p \in UnderWay <=>
       \E t \in Nets, n \in Nodes : p \in Elems(in_buffers[t][n]) \/ p \in Elems(out_buffers[t][n])
  /\ \A p : p \in UnderWay' <=>
       \E t \in Nets, n \in Nodes : p \in Elems(in_buffers'[t][n]) \/ p \in Elems(out_buffers'[t][n])
<1>1. \A t \in Nets : \A p :
        /\ p \in InNet(t) <=> \E n \in Nodes : p \in Elems(in_buffers[t][n]) \/ p \in Elems(out_buffers[t][n])
        /\ p \in InNet(t)' <=> \E n \in Nodes : p \in Elems(in_buffers'[t][n]) \/ p \in Elems(out_buffers'[t][n])
  BY DEF InNet, Elems
<1>2. \A p : /\ p \in UnderWay <=> \E t \in Nets : p \in InNet(t)
             /\ p \in UnderWay' <=> \E t \in Nets : p \in InNet(t)'
  BY DEF UnderWay
<1>. QED
  BY <1>1, <1>2

\* Both are parts of it.
LEMMA BuffersUnderWay ==
  ASSUME NEW t \in Nets, NEW n \in Nodes
  PROVE  Elems(in_buffers[t][n]) \subseteq UnderWay /\ Elems(out_buffers[t][n]) \subseteq UnderWay
BY UnderWayIs

\* The two ends of a route, and its network.
LEMMA RouteFacts ==
  /\ Routes \subseteq Nodes \X Nodes
  /\ \A s \in Shaders, m \in Mems : <<s, m>> \in Routes /\ <<m, s>> \in Routes
  /\ \A s, d : <<s, d>> \in Routes => \/ s \in Shaders /\ d \in Mems /\ PushNet(s) = REQ_NET
                                      \/ s \in Mems /\ d \in Shaders /\ PushNet(s) = REPLY_NET
BY NodeFacts DEF Routes

\* The parts of a packet.
LEMMA PacketFacts ==
  /\ \A p \in Packet : /\ Source(p) \in Nodes /\ output_deviceID(p) \in Nodes /\ Number(p) \in Nat
                       /\ Route(p) = <<Source(p), output_deviceID(p)>>
                       /\ Route(p) \in Nodes \X Nodes
                       /\ WantsReply(p) \in BOOLEAN
  /\ \A n \in Nodes, d \in Nodes, k \in Nat, w \in BOOLEAN :
       LET p == <<n, d, k, w>> IN
       /\ p \in Packet /\ Source(p) = n /\ output_deviceID(p) = d /\ Number(p) = k
       /\ WantsReply(p) = w /\ Route(p) = <<n, d>>
BY DEF Packet, Source, output_deviceID, Number, WantsReply, Route

\* Two nodes are at different places of the round, so one of them wins an output.
LEMMA OneWinner ==
  ASSUME TypeInv, NEW t \in Nets, NEW n \in Nodes, NEW m \in Nodes, NEW o, Moves(t, n, o), Moves(t, m, o)
  PROVE  n = m
<1>1. next_node_id[t] \in Nodes
  BY DEF TypeInv
<1>2. /\ Distance(n, next_node_id[t]) <= Distance(m, next_node_id[t])
      /\ Distance(m, next_node_id[t]) <= Distance(n, next_node_id[t])
  BY DEF Moves
<1>. QED
  BY <1>1, <1>2, NodeFacts DEF Distance, Nodes

\* RR_Advance takes the head of an input buffer to the output it is for, or leaves
\* the buffer alone (crossbar.cpp:97-116).
LEMMA RoundFacts ==
  ASSUME TypeInv, RR_Advance, NEW t \in Nets, NEW n \in Nodes
  PROVE  /\ \/ in_buffers'[t][n] = in_buffers[t][n]
            \/ /\ in_buffers[t][n] # <<>> /\ in_buffers'[t][n] = Tail(in_buffers[t][n])
               /\ LET o == output_deviceID(Head(in_buffers[t][n])) IN
                  o \in Nodes /\ out_buffers'[t][o] = Append(out_buffers[t][o], Head(in_buffers[t][n]))
         /\ \/ out_buffers'[t][n] = out_buffers[t][n]
            \/ \E w \in Nodes :
                 /\ in_buffers[t][w] # <<>> /\ in_buffers'[t][w] = Tail(in_buffers[t][w])
                 /\ output_deviceID(Head(in_buffers[t][w])) = n
                 /\ out_buffers'[t][n] = Append(out_buffers[t][n], Head(in_buffers[t][w]))
<1>1. \A m \in Nodes : /\ in_buffers'[t][m] = InAfter(t, m)
                       /\ out_buffers'[t][m] = OutAfter(t, m)
  BY DEF RR_Advance
<1>2. ASSUME NEW m \in Nodes, NEW o \in Nodes, Moves(t, m, o)
      PROVE  /\ in_buffers[t][m] # <<>> /\ in_buffers'[t][m] = Tail(in_buffers[t][m])
             /\ output_deviceID(Head(in_buffers[t][m])) = o
             /\ out_buffers'[t][o] = Append(out_buffers[t][o], Head(in_buffers[t][m]))
  <2>1. in_buffers[t][m] # <<>> /\ output_deviceID(Head(in_buffers[t][m])) = o
    BY <1>2 DEF Moves, Wants
  <2>2. in_buffers'[t][m] = Tail(in_buffers[t][m])
    BY <1>1, <1>2 DEF InAfter, Leaves
  <2>3. Winner(t, o) \in Nodes /\ Moves(t, Winner(t, o), o)
    BY <1>2 DEF Winner
  <2>4. Winner(t, o) = m
    BY <1>2, <2>3, OneWinner
  <2>. QED
    BY <1>1, <1>2, <2>1, <2>2, <2>4 DEF OutAfter
<1>3. \/ in_buffers'[t][n] = in_buffers[t][n]
      \/ /\ in_buffers[t][n] # <<>> /\ in_buffers'[t][n] = Tail(in_buffers[t][n])
         /\ LET o == output_deviceID(Head(in_buffers[t][n])) IN
            o \in Nodes /\ out_buffers'[t][o] = Append(out_buffers[t][o], Head(in_buffers[t][n]))
  <2>1. CASE ~Leaves(t, n)
    BY <1>1, <2>1 DEF InAfter
  <2>2. CASE Leaves(t, n)
    <3>1. PICK o \in Nodes : Moves(t, n, o)
      BY <2>2 DEF Leaves
    <3>. QED
      BY <1>2, <3>1
  <2>. QED
    BY <2>1, <2>2
<1>4. CASE ~\E w \in Nodes : Moves(t, w, n)
  BY <1>1, <1>3, <1>4 DEF OutAfter
<1>5. CASE \E w \in Nodes : Moves(t, w, n)
  <2>1. PICK w \in Nodes : Moves(t, w, n)
    BY <1>5
  <2>. QED
    BY <1>2, <1>3, <2>1
<1>. QED
  BY <1>4, <1>5
-----------------------------------------------------------------------------
(* OrderInv, one lemma per way the buffers change.                           *)

\* The round moves packets, and loses or makes none.
LEMMA AdvanceMoves ==
  ASSUME TypeInv, RR_Advance
  PROVE  UnderWay' = UnderWay
<1>. DEFINE In(t, n) == in_buffers[t][n]
            Out(t, n) == out_buffers[t][n]
<1>1. \A t \in Nets, n \in Nodes : In(t, n) \in Seq(Packet) /\ Out(t, n) \in Seq(Packet)
  BY DEF TypeInv
<1>2. \A p : p \in UnderWay' <=> \E t \in Nets, n \in Nodes : p \in Elems(In(t, n)') \/ p \in Elems(Out(t, n)')
  BY UnderWayIs
<1>3. ASSUME NEW t \in Nets, NEW n \in Nodes
      PROVE  Elems(In(t, n)') \cup Elems(Out(t, n)') \subseteq UnderWay
  <2>1. Elems(In(t, n)') \subseteq Elems(In(t, n))
    BY <1>1, RoundFacts, ElemsTail
  <2>2. CASE Out(t, n)' = Out(t, n)
    BY <2>1, <2>2, BuffersUnderWay
  <2>3. CASE \E w \in Nodes : In(t, w) # <<>> /\ Out(t, n)' = Append(Out(t, n), Head(In(t, w)))
    <3>1. PICK w \in Nodes : In(t, w) # <<>> /\ Out(t, n)' = Append(Out(t, n), Head(In(t, w)))
      BY <2>3
    <3>2. Head(In(t, w)) \in Elems(In(t, w)) /\ Head(In(t, w)) \in Packet
      BY <1>1, <3>1, ElemsTail
    <3>3. Elems(Out(t, n)') = Elems(Out(t, n)) \cup {Head(In(t, w))}
      BY <1>1, <3>1, <3>2, ElemsAppend
    <3>. QED
      BY <2>1, <3>2, <3>3, BuffersUnderWay
  <2>. QED
    BY <2>2, <2>3, RoundFacts
<1>4. ASSUME NEW t \in Nets, NEW n \in Nodes
      PROVE  Elems(Out(t, n)) \subseteq Elems(Out(t, n)')
  <2>1. CASE Out(t, n)' = Out(t, n)
    BY <2>1
  <2>2. CASE \E w \in Nodes : In(t, w) # <<>> /\ Out(t, n)' = Append(Out(t, n), Head(In(t, w)))
    BY <1>1, <2>2, ElemsAppend, ElemsTail
  <2>. QED
    BY <2>1, <2>2, RoundFacts
<1>5. ASSUME NEW t \in Nets, NEW n \in Nodes
      PROVE  Elems(In(t, n)) \cup Elems(Out(t, n)) \subseteq UnderWay'
  <2>1. CASE In(t, n)' = In(t, n)
    BY <1>2, <1>4, <2>1
  <2>2. CASE In(t, n) # <<>> /\ In(t, n)' = Tail(In(t, n))
             /\ \E o \in Nodes : Out(t, o)' = Append(Out(t, o), Head(In(t, n)))
    <3>1. PICK o \in Nodes : Out(t, o)' = Append(Out(t, o), Head(In(t, n)))
      BY <2>2
    <3>2. Head(In(t, n)) \in Packet /\ Elems(In(t, n)) = {Head(In(t, n))} \cup Elems(In(t, n)')
      BY <1>1, <2>2, ElemsTail
    <3>3. Head(In(t, n)) \in Elems(Out(t, o)')
      BY <1>1, <3>1, <3>2, ElemsAppend
    <3>. QED
      BY <1>2, <1>4, <3>2, <3>3
  <2>. QED
    BY <2>1, <2>2, RoundFacts
<1>6. UnderWay' \subseteq UnderWay
  BY <1>2, <1>3
<1>7. UnderWay \subseteq UnderWay'
  BY <1>5, UnderWayIs
<1>. QED
  BY <1>6, <1>7

\* RR_Advance keeps the order: a packet joins the end of its output, and the ones
\* of its route that are there left its input before (crossbar.cpp:97-116).
LEMMA AdvanceOrder ==
  ASSUME TypeInv, OrderInv, Advance
  PROVE  OrderInv'
<1>1. RR_Advance /\ UNCHANGED <<got, sent, held>>
  BY DEF Advance
<1>2. \A p, t : Fits(p, t)' <=> Fits(p, t)
  BY <1>1 DEF Fits
<1>. DEFINE In(t, n) == in_buffers[t][n]
            Out(t, n) == out_buffers[t][n]
<1>3. \A t \in Nets, n \in Nodes : In(t, n) \in Seq(Packet) /\ Out(t, n) \in Seq(Packet)
  BY DEF TypeInv
<1>4. ASSUME NEW t \in Nets, NEW n \in Nodes
      PROVE  /\ \A p \in Elems(In(t, n)) : Fits(p, t) /\ Source(p) = n
             /\ \A p \in Elems(Out(t, n)) : Fits(p, t) /\ output_deviceID(p) = n
             /\ Sorted(In(t, n)) /\ Sorted(Out(t, n))
             /\ \A d \in Nodes : Precedes(Out(t, d), In(t, n))
  BY DEF OrderInv, PlaceInv, SortedInv
<1>5. ASSUME NEW t \in Nets, NEW n \in Nodes
      PROVE  Elems(In(t, n)') \subseteq Elems(In(t, n)) /\ Sorted(In(t, n)')
  <2>1. \/ In(t, n)' = In(t, n)
        \/ In(t, n) # <<>> /\ In(t, n)' = Tail(In(t, n))
    BY <1>1, RoundFacts
  <2>2. In(t, n) \in Seq(Packet) /\ Sorted(In(t, n))
    BY <1>3, <1>4
  <2>. HIDE DEF In
  <2>3. CASE In(t, n) # <<>> /\ In(t, n)' = Tail(In(t, n))
    <3>1. Elems(In(t, n)) = {Head(In(t, n))} \cup Elems(Tail(In(t, n)))
      BY <2>2, <2>3, ElemsTail
    <3>2. Sorted(Tail(In(t, n)))
      BY <2>2, <2>3, SortedTail
    <3>. QED
      BY <2>3, <3>1, <3>2
  <2>. QED
    BY <2>1, <2>2, <2>3
<1>6. ASSUME NEW t \in Nets, NEW o \in Nodes
      PROVE  \/ Out(t, o)' = Out(t, o)
             \/ \E w \in Nodes :
                  /\ In(t, w) # <<>> /\ In(t, w)' = Tail(In(t, w)) /\ output_deviceID(Head(In(t, w))) = o
                  /\ Head(In(t, w)) \in Packet /\ Head(In(t, w)) \in Elems(In(t, w))
                  /\ Out(t, o)' = Append(Out(t, o), Head(In(t, w)))
                  /\ Elems(Out(t, o)') = Elems(Out(t, o)) \cup {Head(In(t, w))}
  <2>1. \A w \in Nodes : In(t, w) # <<>> =>
          /\ Head(In(t, w)) \in Packet /\ Head(In(t, w)) \in Elems(In(t, w))
          /\ Elems(Append(Out(t, o), Head(In(t, w)))) = Elems(Out(t, o)) \cup {Head(In(t, w))}
    BY <1>3, ElemsTail, ElemsAppend
  <2>2. CASE Out(t, o)' = Out(t, o)
    BY <2>2
  <2>3. ASSUME NEW w \in Nodes, In(t, w) # <<>>, In(t, w)' = Tail(In(t, w)),
               output_deviceID(Head(In(t, w))) = o, Out(t, o)' = Append(Out(t, o), Head(In(t, w)))
        PROVE  Elems(Out(t, o)') = Elems(Out(t, o)) \cup {Head(In(t, w))}
    BY <2>1, <2>3
  <2>4. \/ Out(t, o)' = Out(t, o)
        \/ \E w \in Nodes : /\ In(t, w) # <<>> /\ In(t, w)' = Tail(In(t, w))
                             /\ output_deviceID(Head(In(t, w))) = o
                             /\ Out(t, o)' = Append(Out(t, o), Head(In(t, w)))
    BY <1>1, RoundFacts
  <2>. HIDE DEF In, Out
  <2>. QED
    BY <2>1, <2>2, <2>3, <2>4
<1>. HIDE DEF In, Out
<1>7. ASSUME NEW t \in Nets, NEW n \in Nodes
      PROVE  /\ \A p \in Elems(In(t, n)') : Fits(p, t) /\ Source(p) = n
             /\ \A p \in Elems(Out(t, n)') : Fits(p, t) /\ output_deviceID(p) = n
  BY <1>4, <1>5, <1>6
<1>8. ASSUME NEW t \in Nets, NEW n \in Nodes PROVE Sorted(Out(t, n)')
  <2>1. CASE Out(t, n)' = Out(t, n)
    BY <1>4, <2>1
  <2>2. ASSUME NEW w \in Nodes, Head(In(t, w)) \in Packet, Head(In(t, w)) \in Elems(In(t, w)),
               Out(t, n)' = Append(Out(t, n), Head(In(t, w)))
        PROVE  Sorted(Out(t, n)')
    <3>1. \A x \in Elems(Out(t, n)) : Route(x) = Route(Head(In(t, w))) => Number(x) < Number(Head(In(t, w)))
      BY <1>4, <2>2 DEF Precedes
    <3>. QED
      BY <1>3, <1>4, <2>2, <3>1, SortedAppend
  <2>. QED
    BY <1>6, <2>1, <2>2
<1>9. ASSUME NEW t \in Nets, NEW n \in Nodes, NEW d \in Nodes PROVE Precedes(Out(t, d)', In(t, n)')
  <2>. SUFFICES ASSUME NEW x \in Elems(Out(t, d)'), NEW y \in Elems(In(t, n)'), Route(x) = Route(y)
                PROVE  Number(x) < Number(y)
    BY DEF Precedes
  <2>1. CASE x \in Elems(Out(t, d))
    BY <1>4, <1>5, <2>1 DEF Precedes
  <2>2. CASE x \notin Elems(Out(t, d))
    <3>1. PICK w \in Nodes : /\ In(t, w) # <<>> /\ In(t, w)' = Tail(In(t, w))
                             /\ Head(In(t, w)) \in Elems(In(t, w)) /\ x = Head(In(t, w))
      BY <1>6, <2>2
    <3>2. Source(x) = w /\ Source(y) = n
      BY <1>4, <1>7, <3>1
    <3>3. w = n
      BY <3>2 DEF Route
    <3>. QED
      BY <1>3, <1>4, <3>1, <3>3, SortedTail
  <2>. QED
    BY <2>1, <2>2
<1>10. PlaceInv'
  BY <1>2, <1>7 DEF PlaceInv, In, Out
<1>11. SortedInv'
  BY <1>5, <1>8, <1>9 DEF SortedInv, In, Out
<1>12. CompleteInv' /\ HeldInv'
  BY <1>1, AdvanceMoves DEF OrderInv, CompleteInv, HeldInv, Holds
<1>. QED
  BY <1>1, <1>10, <1>11, <1>12 DEF OrderInv

\* A new packet is the youngest of its route (crossbar.cpp:178-191).
LEMMA PushOrder ==
  ASSUME TypeInv, OrderInv, NEW n \in Nodes, NEW d \in Nodes, <<n, d>> \in Routes, NEW wants \in BOOLEAN,
         Push(n, d, wants), UNCHANGED <<out_buffers, got>>, \A m \in Mems : Holds(m)' \subseteq Holds(m),
         NEW p, p = <<n, d, sent[<<n, d>>] + 1, wants>>
  PROVE  /\ OrderInv'
         /\ p \notin UnderWay /\ UnderWay' = UnderWay \cup {p}
<1>. DEFINE r == <<n, d>>
<1>1. /\ r \in Nodes \X Nodes /\ sent[r] \in Nat /\ got[r] \in Nat /\ p \in Packet
      /\ Source(p) = n /\ output_deviceID(p) = d /\ Number(p) = sent[r] + 1 /\ Route(p) = r
  <2>1. r \in Nodes \X Nodes /\ sent[r] \in Nat /\ got[r] \in Nat
    BY DEF TypeInv, OrderInv
  <2>. QED
    BY <2>1, PacketFacts
<1>2. sent' = [sent EXCEPT ![r] = sent[r] + 1]
  BY DEF Push
<1>. HIDE DEF r
<1>3. sent'[r] = sent[r] + 1 /\ \A x \in Nodes \X Nodes : x # r => sent'[x] = sent[x]
  BY <1>1, <1>2 DEF TypeInv
<1>4. PushNet(n) \in Nets
  BY DEF PushNet, Nets
<1>. DEFINE t0 == PushNet(n)
            In(t, m) == in_buffers[t][m]
            Out(t, m) == out_buffers[t][m]
<1>5. /\ In(t0, n)' = Append(In(t0, n), p)
      /\ \A t \in Nets, m \in Nodes : t # t0 \/ m # n => In(t, m)' = In(t, m)
      /\ \A t \in Nets, m \in Nodes : Out(t, m)' = Out(t, m)
  BY PushFacts
<1>6. \A t \in Nets, m \in Nodes : In(t, m) \in Seq(Packet) /\ Out(t, m) \in Seq(Packet)
  BY DEF TypeInv
<1>7. ASSUME NEW t \in Nets, NEW m \in Nodes
      PROVE  /\ \A x \in Elems(In(t, m)) : Fits(x, t) /\ Source(x) = m /\ x \in Packet
             /\ \A x \in Elems(Out(t, m)) : Fits(x, t) /\ output_deviceID(x) = m /\ x \in Packet
             /\ Sorted(In(t, m)) /\ Sorted(Out(t, m))
             /\ \A o \in Nodes : Precedes(Out(t, o), In(t, m))
  BY <1>6, ElemsType DEF OrderInv, PlaceInv, SortedInv
<1>8. Elems(In(t0, n)') = Elems(In(t0, n)) \cup {p}
  BY <1>1, <1>4, <1>5, <1>6, ElemsAppend
<1>. HIDE DEF In, Out, t0
<1>9. ASSUME NEW x \in Packet, NEW t, Fits(x, t) PROVE Fits(x, t)' /\ (Route(x) = r => Number(x) < Number(p))
  <2>1. Route(x) \in Nodes \X Nodes /\ Number(x) \in Nat
    BY PacketFacts
  <2>2. sent[Route(x)] \in Nat /\ sent[Route(x)] <= sent'[Route(x)] /\ sent'[Route(x)] \in Nat
    <3>1. sent[Route(x)] \in Nat
      BY <2>1 DEF TypeInv
    <3>. QED
      BY <1>1, <1>3, <2>1, <3>1
  <2>3. got'[Route(x)] = got[Route(x)]
    OBVIOUS
  <2>4. Number(x) <= sent[Route(x)] /\ got[Route(x)] < Number(x)
    BY <1>9 DEF Fits
  <2>5. Number(x) <= sent'[Route(x)]
    BY <2>1, <2>2, <2>4
  <2>6. Route(x) = r => Number(x) < Number(p)
    BY <1>1, <2>1, <2>4
  <2>. QED
    BY <1>9, <2>3, <2>4, <2>5, <2>6 DEF Fits
<1>10. Fits(p, t0)'
  <2>1. Route(p) \in Routes /\ PushNet(Source(p)) = t0
    BY <1>1 DEF t0, r
  <2>2. got[r] < Number(p) /\ Number(p) <= sent'[r]
    <3>1. got[r] <= sent[r]
      BY <1>1 DEF OrderInv, CompleteInv, r
    <3>. QED
      BY <1>1, <1>3, <3>1
  <2>. QED
    BY <1>1, <2>1, <2>2 DEF Fits
<1>11. ASSUME NEW t \in Nets, NEW m \in Nodes
       PROVE  Elems(In(t, m)') = Elems(In(t, m)) \/ (t = t0 /\ m = n /\ Elems(In(t, m)') = Elems(In(t, m)) \cup {p})
  BY <1>5, <1>8
<1>12. ASSUME NEW t \in Nets, NEW m \in Nodes
       PROVE  /\ \A x \in Elems(In(t, m)') : Fits(x, t)' /\ Source(x) = m
              /\ \A x \in Elems(Out(t, m)') : Fits(x, t)' /\ output_deviceID(x) = m
  <2>1. \A x \in Elems(Out(t, m)) : Fits(x, t)' /\ output_deviceID(x) = m
    BY <1>7, <1>9
  <2>2. \A x \in Elems(In(t, m)) : Fits(x, t)' /\ Source(x) = m
    BY <1>7, <1>9
  <2>3. t = t0 /\ m = n => Fits(p, t)' /\ Source(p) = m
    BY <1>1, <1>10
  <2>4. Out(t, m)' = Out(t, m)
    BY <1>5
  <2>. QED
    BY <1>11, <2>1, <2>2, <2>3, <2>4
<1>13. ASSUME NEW t \in Nets, NEW m \in Nodes PROVE Sorted(In(t, m)') /\ Sorted(Out(t, m)')
  <2>1. \A x \in Elems(In(t0, n)) : Route(x) = Route(p) => Number(x) < Number(p)
    BY <1>1, <1>4, <1>7, <1>9 DEF t0
  <2>2. Sorted(Append(In(t0, n), p))
    BY <1>1, <1>4, <1>6, <1>7, <2>1, SortedAppend DEF t0
  <2>. QED
    BY <1>5, <1>7, <2>2
<1>14. ASSUME NEW t \in Nets, NEW m \in Nodes, NEW o \in Nodes PROVE Precedes(Out(t, o)', In(t, m)')
  <2>. SUFFICES ASSUME NEW x \in Elems(Out(t, o)), NEW y \in Elems(In(t, m)'), Route(x) = Route(y)
                PROVE  Number(x) < Number(y)
    BY <1>5 DEF Precedes
  <2>1. CASE y \in Elems(In(t, m))
    BY <1>7, <2>1 DEF Precedes
  <2>2. CASE y = p
    BY <1>1, <1>7, <1>9, <2>2
  <2>. QED
    BY <1>11, <2>1, <2>2
<1>15. UnderWay' = UnderWay \cup {p}
  <2>1. \A x : x \in UnderWay' <=> \E t \in Nets, m \in Nodes : x \in Elems(In(t, m)') \/ x \in Elems(Out(t, m)')
    BY UnderWayIs DEF In, Out
  <2>2. \A x : x \in UnderWay <=> \E t \in Nets, m \in Nodes : x \in Elems(In(t, m)) \/ x \in Elems(Out(t, m))
    BY UnderWayIs DEF In, Out
  <2>3. p \in UnderWay'
    BY <1>4, <1>8, <2>1 DEF t0
  <2>4. UnderWay \subseteq UnderWay'
    BY <1>5, <1>11, <2>1, <2>2
  <2>5. UnderWay' \subseteq UnderWay \cup {p}
    BY <1>5, <1>11, <2>1, <2>2
  <2>. QED
    BY <2>3, <2>4, <2>5
<1>16. p \notin UnderWay
  <2>1. \A x \in UnderWay : x \in Packet /\ \E t \in Nets : Fits(x, t)
    BY <1>7, UnderWayIs DEF In, Out
  <2>2. ~(Number(p) < Number(p))
    BY <1>1
  <2>. QED
    BY <1>1, <1>9, <2>1, <2>2
<1>17. PlaceInv'
  BY <1>12 DEF PlaceInv, In, Out
<1>18. SortedInv'
  BY <1>13, <1>14 DEF SortedInv, In, Out
<1>19. CompleteInv'
  <2>. SUFFICES ASSUME NEW x \in Routes
                PROVE  /\ got[x] <= sent'[x]
                       /\ \A k \in (got[x] + 1) .. sent'[x] : \E y \in UnderWay' : Route(y) = x /\ Number(y) = k
    BY DEF CompleteInv
  <2>1. /\ got[x] <= sent[x] /\ x \in Nodes \X Nodes
        /\ \A k \in (got[x] + 1) .. sent[x] : \E y \in UnderWay : Route(y) = x /\ Number(y) = k
    BY RouteFacts DEF OrderInv, CompleteInv
  <2>2. CASE x = r
    <3>1. \A k \in (got[x] + 1) .. sent'[x] : k \in (got[x] + 1) .. sent[x] \/ k = Number(p)
      BY <1>1, <1>3, <2>2
    <3>2. got[x] <= sent'[x]
      BY <1>1, <1>3, <2>1, <2>2
    <3>. QED
      BY <1>1, <1>15, <2>1, <2>2, <3>1, <3>2
  <2>3. CASE x # r
    BY <1>3, <1>15, <2>1, <2>3
  <2>. QED
    BY <2>2, <2>3
<1>20. HeldInv'
  BY DEF OrderInv, HeldInv
<1>. QED
  BY <1>15, <1>16, <1>17, <1>18, <1>19, <1>20 DEF OrderInv

\* The packet that is popped is the next one of its route: every older one would be
\* before it in its output buffer or already popped (crossbar.cpp:65-72, 193-199).
LEMMA PopOrder ==
  ASSUME TypeInv, OrderInv, NEW n \in Nodes, Arrived(n) # <<>>, Pop(n), UNCHANGED <<in_buffers, sent>>,
         NEW h, h = Head(Arrived(n)),
         \A m \in Mems : \A x \in Holds(m)' : x \in Holds(m) \/ (m = n /\ x = h)
  PROVE  /\ OrderInv'
         /\ h \in Packet /\ Fits(h, PopNet(n)) /\ output_deviceID(h) = n
         /\ got' = [got EXCEPT ![Route(h)] = got[Route(h)] + 1]
         /\ h \in UnderWay /\ UnderWay' = UnderWay \ {h}
<1>. DEFINE t0 == PopNet(n)
            In(t, m) == in_buffers[t][m]
            Out(t, m) == out_buffers[t][m]
            r == Route(h)
<1>1. t0 \in Nets
  BY DEF PopNet, Nets
<1>2. \A t \in Nets, m \in Nodes : In(t, m) \in Seq(Packet) /\ Out(t, m) \in Seq(Packet)
  BY DEF TypeInv
<1>3. ASSUME NEW t \in Nets, NEW m \in Nodes
      PROVE  /\ \A x \in Elems(In(t, m)) : Fits(x, t) /\ Source(x) = m /\ x \in Packet
             /\ \A x \in Elems(Out(t, m)) : Fits(x, t) /\ output_deviceID(x) = m /\ x \in Packet
             /\ Sorted(In(t, m)) /\ Sorted(Out(t, m))
             /\ \A o \in Nodes : Precedes(Out(t, o), In(t, m))
  BY <1>2, ElemsType DEF OrderInv, PlaceInv, SortedInv
<1>4. /\ Out(t0, n) # <<>> /\ h = Head(Out(t0, n)) /\ Out(t0, n)' = Tail(Out(t0, n))
      /\ \A t \in Nets, m \in Nodes : t # t0 \/ m # n => Out(t, m)' = Out(t, m)
      /\ \A t \in Nets, m \in Nodes : In(t, m)' = In(t, m)
  BY PopFacts DEF Arrived
<1>5. /\ h \in Packet /\ Elems(Out(t0, n)) = {h} \cup Elems(Out(t0, n)') /\ Sorted(Out(t0, n)')
      /\ \A x \in Elems(Out(t0, n)') : Route(x) = r => Number(h) < Number(x)
  <2>. DEFINE o == Out(t0, n)
  <2>1. /\ o \in Seq(Packet) /\ Sorted(o) /\ o # <<>> /\ h = Head(o) /\ Out(t0, n)' = Tail(o)
    BY <1>1, <1>2, <1>3, <1>4
  <2>. HIDE DEF o
  <2>2. Head(o) \in Packet /\ Elems(o) = {Head(o)} \cup Elems(Tail(o))
    BY <2>1, ElemsTail
  <2>3. Sorted(Tail(o)) /\ \A x \in Elems(Tail(o)) : Route(x) = Route(Head(o)) => Number(Head(o)) < Number(x)
    BY <2>1, SortedTail
  <2>. QED
    BY <2>1, <2>2, <2>3 DEF o
<1>6. Fits(h, t0) /\ output_deviceID(h) = n
  BY <1>1, <1>3, <1>5
<1>7. /\ r \in Nodes \X Nodes /\ r \in Routes /\ r = <<Source(h), n>> /\ Number(h) \in Nat
      /\ got[r] \in Nat /\ sent[r] \in Nat /\ got[r] < Number(h) /\ Number(h) <= sent[r]
  BY <1>5, <1>6, PacketFacts DEF Fits, TypeInv, OrderInv
<1>8. got' = [got EXCEPT ![r] = Number(h)]
  BY <1>7 DEF Pop
<1>9. \A x \in UnderWay : x \in Packet /\ \E t \in Nets, m \in Nodes : x \in Elems(In(t, m)) \/ x \in Elems(Out(t, m))
  BY <1>3, UnderWayIs
<1>. HIDE DEF In, Out, t0, r
<1>10. ASSUME NEW x, NEW t \in Nets, NEW m \in Nodes, Route(x) = r,
              x \in Elems(In(t, m)) \/ x \in Elems(Out(t, m)), x # h
       PROVE  Number(h) < Number(x)
  <2>1. Fits(x, t) /\ Source(x) = Source(h) /\ output_deviceID(x) = n
    BY <1>3, <1>7, <1>10 DEF Route
  <2>2. t = t0
    BY <1>6, <2>1 DEF Fits
  <2>3. CASE x \in Elems(In(t, m))
    <3>1. h \in Elems(Out(t0, n))
      BY <1>5
    <3>. QED
      BY <1>3, <1>10, <2>2, <2>3, <3>1 DEF Precedes, r
  <2>4. CASE x \in Elems(Out(t, m))
    <3>1. m = n
      BY <1>3, <2>1, <2>4
    <3>. QED
      BY <1>5, <1>10, <2>2, <2>4, <3>1
  <2>. QED
    BY <1>10, <2>3, <2>4
<1>11. Number(h) = got[r] + 1
  <2>1. got[r] + 1 \in (got[r] + 1) .. sent[r]
    BY <1>7
  <2>2. PICK x \in UnderWay : Route(x) = r /\ Number(x) = got[r] + 1
    BY <1>7, <2>1 DEF OrderInv, CompleteInv
  <2>3. x # h => Number(h) < Number(x)
    BY <1>9, <1>10, <2>2
  <2>. QED
    BY <1>7, <2>2, <2>3
<1>12. got'[r] = Number(h) /\ (\A x \in Nodes \X Nodes : x # r => got'[x] = got[x]) /\ got' \in [Nodes \X Nodes -> Nat]
  BY <1>7, <1>8 DEF OrderInv
<1>13. ASSUME NEW x \in Packet, NEW t, Fits(x, t), Route(x) = r => Number(h) < Number(x) PROVE Fits(x, t)'
  <2>1. got'[Route(x)] < Number(x)
    BY <1>12, <1>13, PacketFacts DEF Fits
  <2>. QED
    BY <1>13, <2>1 DEF Fits
<1>14. ASSUME NEW t \in Nets, NEW m \in Nodes
       PROVE  /\ Elems(Out(t, m)') \subseteq Elems(Out(t, m))
              /\ \A x \in Elems(Out(t, m)') : Route(x) = r => Number(h) < Number(x)
              /\ Sorted(Out(t, m)')
  <2>1. CASE t = t0 /\ m = n
    BY <1>5, <2>1
  <2>2. CASE t # t0 \/ m # n
    <3>1. Out(t, m)' = Out(t, m) /\ Sorted(Out(t, m))
      BY <1>3, <1>4, <2>2
    <3>2. ASSUME NEW x \in Elems(Out(t, m)), Route(x) = r PROVE x # h
      BY <1>3, <1>6, <2>2, <3>2 DEF Fits
    <3>. QED
      BY <1>10, <3>1, <3>2
  <2>. QED
    BY <2>1, <2>2
<1>15. ASSUME NEW t \in Nets, NEW m \in Nodes, NEW x \in Elems(In(t, m)), Route(x) = r PROVE Number(h) < Number(x)
  <2>1. t = t0
    <3>1. PushNet(Source(x)) = t /\ PushNet(Source(h)) = t0
      BY <1>3, <1>6, <1>15 DEF Fits
    <3>2. Source(x) = Source(h)
      BY <1>7, <1>15 DEF Route
    <3>. QED
      BY <3>1, <3>2
  <2>2. h \in Elems(Out(t0, n))
    BY <1>5
  <2>. QED
    BY <1>3, <1>15, <2>1, <2>2 DEF Precedes, r
<1>16. PlaceInv'
  <2>. SUFFICES ASSUME NEW t \in Nets, NEW m \in Nodes
                PROVE  /\ \A x \in Elems(In(t, m)') : Fits(x, t)' /\ Source(x) = m
                       /\ \A x \in Elems(Out(t, m)') : Fits(x, t)' /\ output_deviceID(x) = m
    BY DEF PlaceInv, In, Out
  <2>1. \A x \in Elems(In(t, m)) : Fits(x, t)' /\ Source(x) = m
    BY <1>3, <1>13, <1>15
  <2>2. \A x \in Elems(Out(t, m)') : Fits(x, t)' /\ output_deviceID(x) = m
    BY <1>3, <1>13, <1>14
  <2>3. In(t, m)' = In(t, m)
    BY <1>4
  <2>. QED
    BY <2>1, <2>2, <2>3
<1>17. SortedInv'
  <2>1. ASSUME NEW t \in Nets, NEW m \in Nodes
        PROVE  /\ Sorted(In(t, m)') /\ Sorted(Out(t, m)')
               /\ \A d \in Nodes : Precedes(Out(t, d)', In(t, m)')
    <3>1. In(t, m)' = In(t, m)
      BY <1>4
    <3>. QED
      BY <1>3, <1>14, <3>1 DEF Precedes
  <2>. QED
    BY <2>1 DEF SortedInv, In, Out
<1>18. h \in UnderWay /\ UnderWay' = UnderWay \ {h}
  <2>1. \A x : x \in UnderWay' <=> \E t \in Nets, m \in Nodes : x \in Elems(In(t, m)') \/ x \in Elems(Out(t, m)')
    BY UnderWayIs DEF In, Out
  <2>2. \A x : x \in UnderWay <=> \E t \in Nets, m \in Nodes : x \in Elems(In(t, m)) \/ x \in Elems(Out(t, m))
    BY UnderWayIs DEF In, Out
  <2>3. h \in UnderWay
    BY <1>1, <1>5, <2>2
  <2>4. UnderWay' \subseteq UnderWay
    BY <1>4, <1>14, <2>1, <2>2
  <2>5. h \notin UnderWay'
    <3>1. ~(Number(h) < Number(h))
      BY <1>7
    <3>. QED
      BY <1>4, <1>14, <1>15, <2>1, <3>1 DEF r
  <2>6. ASSUME NEW x \in UnderWay, x # h PROVE x \in UnderWay'
    <3>1. PICK t \in Nets, m \in Nodes : x \in Elems(In(t, m)) \/ x \in Elems(Out(t, m))
      BY <2>2
    <3>2. In(t, m)' = In(t, m) /\ (x \in Elems(Out(t, m)) => x \in Elems(Out(t, m)'))
      <4>1. CASE t = t0 /\ m = n
        BY <1>4, <1>5, <2>6, <4>1
      <4>2. CASE t # t0 \/ m # n
        BY <1>4, <4>2
      <4>. QED
        BY <4>1, <4>2
    <3>. QED
      BY <2>1, <3>1, <3>2
  <2>. QED
    BY <2>3, <2>4, <2>5, <2>6
<1>19. CompleteInv'
  <2>. SUFFICES ASSUME NEW x \in Routes
                PROVE  /\ got'[x] <= sent[x]
                       /\ \A k \in (got'[x] + 1) .. sent[x] : \E y \in UnderWay' : Route(y) = x /\ Number(y) = k
    BY DEF CompleteInv
  <2>1. /\ got[x] <= sent[x] /\ x \in Nodes \X Nodes
        /\ \A k \in (got[x] + 1) .. sent[x] : \E y \in UnderWay : Route(y) = x /\ Number(y) = k
    BY RouteFacts DEF OrderInv, CompleteInv
  <2>2. CASE x = r
    <3>1. \A k \in (got'[x] + 1) .. sent[x] : k \in (got[x] + 1) .. sent[x] /\ k # Number(h)
      BY <1>7, <1>11, <1>12, <2>2
    <3>2. got'[x] <= sent[x]
      BY <1>7, <1>12, <2>2
    <3>. QED
      BY <1>18, <2>1, <3>1, <3>2
  <2>3. CASE x # r
    <3>1. got'[x] = got[x]
      BY <1>12, <2>1, <2>3
    <3>2. \A y : Route(y) = x => y # h
      BY <2>3 DEF r
    <3>. QED
      BY <1>18, <2>1, <3>1, <3>2
  <2>. QED
    BY <2>2, <2>3
<1>20. HeldInv'
  <2>1. n \in Mems => Source(h) \in Shaders
    BY <1>7, RouteFacts, NodeFacts
  <2>. QED
    BY <2>1 DEF OrderInv, HeldInv
<1>21. got' = [got EXCEPT ![Route(h)] = got[Route(h)] + 1]
  BY <1>8, <1>11 DEF r
<1>22. OrderInv'
  BY <1>12, <1>16, <1>17, <1>19, <1>20 DEF OrderInv
<1>. QED
  BY <1>5, <1>6, <1>18, <1>21, <1>22 DEF t0
-----------------------------------------------------------------------------
(* What each action does to the routes.                                      *)

\* A packet is sent on route r; the next one of route r is popped.
Sends(r) == sent' = [sent EXCEPT ![r] = sent[r] + 1] /\ got' = got
Delivers(r) == got[r] < sent[r] /\ got' = [got EXCEPT ![r] = got[r] + 1] /\ sent' = sent
Moved == (\E r \in Routes : Sends(r)) \/ (\E r \in Routes : Delivers(r)) \/ UNCHANGED <<sent, got>>

LEMMA OrderInit == Init => OrderInv
<1>. SUFFICES ASSUME Init PROVE OrderInv
  OBVIOUS
<1>1. \A t \in Nets, n \in Nodes : in_buffers[t][n] = <<>> /\ out_buffers[t][n] = <<>>
  BY DEF Init
<1>2. Elems(<<>>) = {} /\ Sorted(<<>>)
  BY DEF Elems, Sorted
<1>3. PlaceInv
  BY <1>1, <1>2 DEF PlaceInv
<1>4. SortedInv
  BY <1>1, <1>2 DEF SortedInv, Precedes
<1>5. \A r \in Routes : r \in Nodes \X Nodes /\ got[r] = 0 /\ sent[r] = 0
  BY RouteFacts DEF Init
<1>6. CompleteInv
  BY <1>5 DEF CompleteInv
<1>7. HeldInv /\ got \in [Nodes \X Nodes -> Nat]
  BY DEF Init, HeldInv, Holds
<1>. QED
  BY <1>3, <1>4, <1>6, <1>7 DEF OrderInv

\* A slice answers what it holds.
LEMMA L2ReplySends ==
  ASSUME Inv, OrderInv, L2Reply
  PROVE  OrderInv' /\ \E r \in Routes : Sends(r)
<1>1. turn \in Mems /\ turn \in Nodes /\ UNCHANGED <<out_buffers, got>>
  BY NodeFacts DEF L2Reply
<1>2. PICK h \in held[turn] : /\ Push(turn, Source(h[1]), FALSE)
                              /\ held' = [held EXCEPT ![turn] = (held[turn] \ {h}) \cup {<<h[1], h[2] - 1>>}]
  BY DEF L2Reply
<1>. DEFINE s == Source(h[1])
<1>3. s \in Shaders /\ s \in Nodes
  BY <1>1, <1>2, NodeFacts DEF OrderInv, HeldInv, Holds
<1>4. <<turn, s>> \in Routes
  BY <1>1, <1>3, RouteFacts
<1>5. \A m \in Mems : Holds(m)' \subseteq Holds(m)
  BY <1>1, <1>2, HeldAfterReply DEF Inv, TypeInv
<1>. HIDE DEF s
<1>6. Push(turn, s, FALSE)
  BY <1>2 DEF s
<1>7. OrderInv'
  BY <1>1, <1>3, <1>4, <1>5, <1>6, PushOrder DEF Inv
<1>8. Sends(<<turn, s>>)
  BY <1>1, <1>6 DEF Push, Sends
<1>. QED
  BY <1>4, <1>7, <1>8

\* The packet a node pops is the next one of its route.
LEMMA PopDelivers ==
  ASSUME Inv, OrderInv, NEW n \in Nodes, Arrived(n) # <<>>, Pop(n), UNCHANGED <<in_buffers, sent>>,
         \A m \in Mems : \A x \in Holds(m)' : x \in Holds(m) \/ (m = n /\ x = Head(Arrived(n)))
  PROVE  OrderInv' /\ \E r \in Routes : Delivers(r)
<1>. DEFINE h == Head(Arrived(n))
<1>1. /\ OrderInv'
      /\ h \in Packet /\ Fits(h, PopNet(n)) /\ output_deviceID(h) = n
      /\ got' = [got EXCEPT ![Route(h)] = got[Route(h)] + 1]
  BY PopOrder DEF Inv
<1>. HIDE DEF h
<1>2. Route(h) \in Routes /\ Route(h) \in Nodes \X Nodes /\ Number(h) \in Nat
      /\ got[Route(h)] < Number(h) /\ Number(h) <= sent[Route(h)]
  BY <1>1, PacketFacts DEF Fits
<1>3. got[Route(h)] \in Nat /\ sent[Route(h)] \in Nat
  BY <1>2 DEF OrderInv, Inv, TypeInv
<1>4. Delivers(Route(h))
  BY <1>1, <1>2, <1>3 DEF Delivers
<1>. QED
  BY <1>1, <1>2, <1>4

\* Nothing moves.
LEMMA QuietOrder ==
  ASSUME OrderInv, UNCHANGED <<in_buffers, out_buffers, held, sent, got>>
  PROVE  OrderInv'
<1>1. UnderWay' = UnderWay
  BY DEF UnderWay, InNet
<1>. QED
  BY <1>1 DEF OrderInv, PlaceInv, Fits, SortedInv, CompleteInv, HeldInv, Holds

\* A slice pops a request, or finds none.
LEMMA L2PopDelivers ==
  ASSUME Inv, OrderInv, L2Pop
  PROVE  OrderInv' /\ (UNCHANGED <<sent, got>> \/ \E r \in Routes : Delivers(r))
<1>1. turn \in Mems /\ turn \in Nodes /\ UNCHANGED <<in_buffers, sent>>
  BY NodeFacts DEF L2Pop
<1>2. CASE Arrived(turn) = <<>>
  BY <1>1, <1>2, QuietOrder DEF L2Pop
<1>3. CASE Arrived(turn) # <<>>
  <2>1. Pop(turn) /\ HoldsToo(Head(Arrived(turn)))
    BY <1>3 DEF L2Pop, HoldsToo
  <2>2. \A m \in Mems : \A x \in Holds(m)' : x \in Holds(m) \/ (m = turn /\ x = Head(Arrived(turn)))
    BY <1>1, <2>1, HeldAfterPop DEF Inv, TypeInv
  <2>. QED
    BY <1>1, <1>3, <2>1, <2>2, PopDelivers
<1>. QED
  BY <1>2, <1>3

\* An active SM pops a reply, or finds none.
LEMMA SMPopDelivers ==
  ASSUME Inv, OrderInv, SMPop
  PROVE  OrderInv' /\ (UNCHANGED <<sent, got>> \/ \E r \in Routes : Delivers(r))
<1>1. turn \in Shaders /\ turn \in Nodes /\ UNCHANGED <<in_buffers, sent, held>>
  BY NodeFacts DEF SMPop
<1>2. CASE turn \notin active \/ Arrived(turn) = <<>>
  BY <1>1, <1>2, QuietOrder DEF SMPop
<1>3. CASE turn \in active /\ Arrived(turn) # <<>>
  <2>1. Pop(turn) /\ \A m \in Mems : Holds(m)' = Holds(m)
    BY <1>1, <1>3 DEF SMPop, Holds
  <2>. QED
    BY <1>1, <1>3, <2>1, PopDelivers
<1>. QED
  BY <1>2, <1>3

\* An SM sends a request.
LEMMA SMPushSends ==
  ASSUME Inv, OrderInv, SMPush
  PROVE  OrderInv' /\ \E r \in Routes : Sends(r)
<1>1. turn \in Shaders /\ turn \in Nodes /\ UNCHANGED <<out_buffers, got, held>>
  BY NodeFacts DEF SMPush, Inv, TypeInv
<1>2. PICK d \in Mems, wants \in BOOLEAN : Push(turn, d, wants)
  BY DEF SMPush
<1>3. d \in Nodes /\ <<turn, d>> \in Routes /\ \A m \in Mems : Holds(m)' = Holds(m)
  BY <1>1, RouteFacts, NodeFacts DEF Holds
<1>4. OrderInv'
  BY <1>1, <1>2, <1>3, PushOrder DEF Inv
<1>5. Sends(<<turn, d>>)
  BY <1>1, <1>2 DEF Push, Sends
<1>. QED
  BY <1>3, <1>4, <1>5

\* OrderInv holds in every step, which sends one packet, delivers one or neither.
LEMMA OrderNext == Inv /\ OrderInv /\ [Next]_vars => OrderInv' /\ Moved
<1>. SUFFICES ASSUME Inv, OrderInv, [Next]_vars PROVE OrderInv' /\ Moved
  OBVIOUS
<1>1. CASE L2Reply
  BY <1>1, L2ReplySends DEF Moved
<1>2. CASE L2Pop
  BY <1>2, L2PopDelivers DEF Moved
<1>3. CASE Advance
  BY <1>3, AdvanceOrder DEF Inv, Advance, Moved
<1>4. CASE SMPop
  BY <1>4, SMPopDelivers DEF Moved
<1>5. CASE SMPush
  BY <1>5, SMPushSends DEF Moved
<1>6. CASE SMIdle \/ UNCHANGED vars
  <2>1. UNCHANGED <<in_buffers, out_buffers, held, sent, got>>
    BY <1>6 DEF SMIdle, vars, buffers
  <2>. QED
    BY <2>1, QuietOrder DEF Moved
<1>. QED
  BY <1>1, <1>2, <1>3, <1>4, <1>5, <1>6 DEF Next, Step, Ended
-----------------------------------------------------------------------------
(* The refinement of CrossbarAbs.                                            *)

\* The packets of a route in both its buffers.
LEMMA ElemsConcat ==
  ASSUME NEW a \in Seq(Packet), NEW b \in Seq(Packet)
  PROVE  Elems(a \o b) = Elems(a) \cup Elems(b)
<1>1. /\ Len(a) \in Nat /\ Len(b) \in Nat /\ Len(a \o b) = Len(a) + Len(b)
      /\ \A i \in 1 .. Len(a) : (a \o b)[i] = a[i]
      /\ \A i \in 1 .. Len(b) : (a \o b)[Len(a) + i] = b[i]
  BY LenProperties, ConcatProperties
<1>2. \A i \in 1 .. Len(a) : i \in 1 .. Len(a \o b)
  BY <1>1
<1>3. \A i \in 1 .. Len(b) : Len(a) + i \in 1 .. Len(a \o b)
  BY <1>1
<1>4. \A i \in 1 .. Len(a \o b) : i \notin 1 .. Len(a) => i - Len(a) \in 1 .. Len(b) /\ Len(a) + (i - Len(a)) = i
  BY <1>1
<1>5. Elems(a) \cup Elems(b) \subseteq Elems(a \o b)
  BY <1>1, <1>2, <1>3 DEF Elems
<1>6. ASSUME NEW i \in 1 .. Len(a \o b) PROVE (a \o b)[i] \in Elems(a) \cup Elems(b)
  <2>1. CASE i \in 1 .. Len(a)
    BY <1>1, <2>1 DEF Elems
  <2>2. CASE i \notin 1 .. Len(a)
    BY <1>1, <1>4, <2>2 DEF Elems
  <2>. QED
    BY <2>1, <2>2
<1>7. Elems(a \o b) \subseteq Elems(a) \cup Elems(b)
  BY <1>6 DEF Elems
<1>. QED
  BY <1>5, <1>7

\* They are sorted from the one to the other.
LEMMA SortedConcat ==
  ASSUME NEW a \in Seq(Packet), NEW b \in Seq(Packet), Sorted(a), Sorted(b), Precedes(a, b)
  PROVE  Sorted(a \o b)
<1>. DEFINE q == a \o b
<1>1. /\ Len(a) \in Nat /\ Len(b) \in Nat /\ Len(q) = Len(a) + Len(b)
      /\ \A i \in 1 .. Len(a) : q[i] = a[i]
      /\ \A i \in 1 .. Len(b) : q[Len(a) + i] = b[i]
  BY LenProperties, ConcatProperties
<1>. HIDE DEF q
<1>2. SUFFICES ASSUME NEW i \in 1 .. Len(q), NEW j \in 1 .. Len(q), i < j, Route(q[i]) = Route(q[j])
               PROVE  Number(q[i]) < Number(q[j])
  BY DEF Sorted, q
<1>3. ASSUME NEW k \in 1 .. Len(q), k \notin 1 .. Len(a)
      PROVE  k - Len(a) \in 1 .. Len(b) /\ q[k] = b[k - Len(a)]
  <2>1. k - Len(a) \in 1 .. Len(b) /\ Len(a) + (k - Len(a)) = k
    BY <1>1, <1>3
  <2>. QED
    BY <1>1, <2>1
<1>4. CASE j \in 1 .. Len(a)
  <2>1. i \in 1 .. Len(a)
    BY <1>1, <1>2, <1>4
  <2>. QED
    BY <1>1, <1>2, <1>4, <2>1 DEF Sorted
<1>5. CASE i \in 1 .. Len(a) /\ j \notin 1 .. Len(a)
  <2>1. q[i] \in Elems(a) /\ q[j] \in Elems(b)
    BY <1>1, <1>3, <1>5 DEF Elems
  <2>. QED
    BY <1>2, <2>1 DEF Precedes
<1>6. CASE i \notin 1 .. Len(a) /\ j \notin 1 .. Len(a)
  <2>1. /\ i - Len(a) \in 1 .. Len(b) /\ q[i] = b[i - Len(a)]
        /\ j - Len(a) \in 1 .. Len(b) /\ q[j] = b[j - Len(a)]
    BY <1>3, <1>6
  <2>2. i - Len(a) < j - Len(a)
    BY <1>1, <1>2
  <2>. QED
    BY <1>2, <2>1, <2>2 DEF Sorted
<1>. QED
  BY <1>4, <1>5, <1>6

Window(g, s) == [k \in 1 .. (s - g) |-> g + k]

\* What is on the way on a route: the numbers after the last one popped, up to the
\* last one sent, in order.
LEMMA ChannelIs ==
  ASSUME TypeInv, OrderInv, NEW r \in Routes
  PROVE  channel[r] = Window(got[r], sent[r]) /\ got[r] \in Nat /\ sent[r] \in Nat /\ got[r] <= sent[r]
<1>. DEFINE s == r[1]
            d == r[2]
            t == PushNet(r[1])
            q == OnTheWay(r)
            I == {i \in 1 .. Len(q) : Route(q[i]) = r}
            Upto(i) == {j \in I : j <= i}
            Place(k) == CHOOSE i \in I : Cardinality(Upto(i)) = k
            g == got[r]
            z == sent[r]
<1>1. r = <<s, d>> /\ s \in Nodes /\ d \in Nodes /\ t \in Nets /\ r \in Nodes \X Nodes
  BY RouteFacts DEF PushNet, Nets
<1>2. out_buffers[t][d] \in Seq(Packet) /\ in_buffers[t][s] \in Seq(Packet) /\ g \in Nat /\ z \in Nat
  BY <1>1 DEF TypeInv, OrderInv
<1>3. /\ q \in Seq(Packet) /\ Len(q) \in Nat /\ Sorted(q)
      /\ Elems(q) = Elems(out_buffers[t][d]) \cup Elems(in_buffers[t][s])
  <2>1. q = out_buffers[t][d] \o in_buffers[t][s]
    BY DEF OnTheWay
  <2>2. Sorted(out_buffers[t][d]) /\ Sorted(in_buffers[t][s]) /\ Precedes(out_buffers[t][d], in_buffers[t][s])
    BY <1>1 DEF OrderInv, SortedInv
  <2>3. q \in Seq(Packet) /\ Len(q) \in Nat
    BY <1>2, <2>1, ConcatProperties, LenProperties
  <2>4. Sorted(q)
    BY <1>2, <2>1, <2>2, SortedConcat
  <2>5. Elems(q) = Elems(out_buffers[t][d]) \cup Elems(in_buffers[t][s])
    BY <1>2, <2>1, ElemsConcat
  <2>. QED
    BY <2>3, <2>4, <2>5
<1>4. \A x \in Elems(q) : Route(x) = r => x \in Packet /\ g < Number(x) /\ Number(x) <= z
  BY <1>1, <1>2, <1>3, ElemsType DEF OrderInv, PlaceInv, Fits
<1>5. ASSUME NEW k \in (g + 1) .. z PROVE \E x \in Elems(q) : Route(x) = r /\ Number(x) = k
  <2>1. PICK x \in UnderWay : Route(x) = r /\ Number(x) = k
    BY <1>5 DEF OrderInv, CompleteInv
  <2>2. PICK u \in Nets, n \in Nodes : x \in Elems(in_buffers[u][n]) \/ x \in Elems(out_buffers[u][n])
    BY <2>1, UnderWayIs
  <2>3. Source(x) = s /\ output_deviceID(x) = d
    BY <1>1, <2>1 DEF Route
  <2>4. x \in Elems(in_buffers[t][s]) \/ x \in Elems(out_buffers[t][d])
    BY <2>2, <2>3 DEF OrderInv, PlaceInv, Fits
  <2>. QED
    BY <1>3, <2>1, <2>4
<1>6. g <= z
  BY DEF OrderInv, CompleteInv
<1>7. I = {i \in 1 .. Len(q) : Route(q[i]) = r} /\ \A i : Upto(i) = {j \in I : j <= i}
  OBVIOUS
<1>8. channel[r] = [k \in 1 .. Cardinality(I) |-> Number(q[Place(k)])]
  BY DEF channel
<1>9. \A k : Place(k) = CHOOSE i \in I : Cardinality(Upto(i)) = k
  OBVIOUS
<1>. HIDE DEF q, I, g, z, s, d, t, Upto, Place
<1>10. \A i \in I : Number(q[i]) \in (g + 1) .. z /\ i \in Nat
  <2>1. \A i \in I : q[i] \in Elems(q) /\ Route(q[i]) = r /\ i \in Nat
    BY <1>3, <1>7 DEF Elems
  <2>2. \A i \in I : g < Number(q[i]) /\ Number(q[i]) <= z /\ Number(q[i]) \in Nat
    BY <1>4, <2>1, PacketFacts
  <2>. QED
    BY <1>2, <2>1, <2>2
<1>11. \A k \in (g + 1) .. z : \E i \in I : Number(q[i]) = k
  BY <1>5, <1>7 DEF Elems
<1>12. \A i, j \in I : i < j => Number(q[i]) < Number(q[j])
  BY <1>3, <1>7 DEF Sorted
<1>13. \A i, j \in I : Number(q[i]) = Number(q[j]) => i = j
  <2>1. \A i, j \in I : i = j \/ i < j \/ j < i
    BY <1>10
  <2>2. \A k \in (g + 1) .. z : ~(k < k)
    BY <1>2
  <2>. QED
    BY <1>10, <1>12, <2>1, <2>2
<1>14. ASSUME NEW e \in Int, g <= e, e <= z, NEW J, J = {j \in I : Number(q[j]) <= e}
       PROVE  IsFiniteSet(J) /\ Cardinality(J) = e - g
  <2>. DEFINE f == [j \in J |-> Number(q[j])]
  <2>1. f \in [J -> (g + 1) .. e]
    BY <1>2, <1>10, <1>14
  <2>2. \A k \in (g + 1) .. e : \E j \in J : f[j] = k
    BY <1>2, <1>11, <1>14
  <2>3. \A i, j \in J : f[i] = f[j] => i = j
    BY <1>13, <1>14
  <2>4. f \in Bijection(J, (g + 1) .. e)
    <3>. HIDE DEF f
    <3>. QED
      BY <2>1, <2>2, <2>3 DEF Bijection, Injection, Surjection, IsInjective
  <2>5. IsFiniteSet((g + 1) .. e) /\ Cardinality((g + 1) .. e) = e - g
    <3>1. g + 1 \in Int /\ (IF g + 1 > e THEN 0 ELSE e - (g + 1) + 1) = e - g
      BY <1>2, <1>14
    <3>. QED
      BY <3>1, FS_Interval
  <2>6. ExistsBijection((g + 1) .. e, J)
    BY <2>4, Fun_ExistsBijSymmetric DEF ExistsBijection
  <2>. QED
    BY <2>5, <2>6, FS_Bijection
<1>15. Cardinality(I) = z - g
  <2>1. I = {j \in I : Number(q[j]) <= z}
    BY <1>2, <1>10
  <2>. QED
    BY <1>2, <1>6, <1>14, <2>1
<1>16. ASSUME NEW i \in I PROVE Cardinality(Upto(i)) = Number(q[i]) - g
  <2>1. Number(q[i]) \in Int /\ g <= Number(q[i]) /\ Number(q[i]) <= z
    BY <1>2, <1>10
  <2>2. \A j \in I : j <= i <=> Number(q[j]) <= Number(q[i])
    <3>1. \A j \in I : Number(q[j]) \in Int /\ Number(q[i]) \in Int /\ (j < i \/ j = i \/ i < j) /\ j \in Nat /\ i \in Nat
      BY <1>2, <1>10
    <3>. QED
      BY <1>12, <3>1
  <2>3. Upto(i) = {j \in I : Number(q[j]) <= Number(q[i])}
    BY <1>7, <2>2
  <2>. QED
    BY <1>14, <2>1, <2>3
<1>17. ASSUME NEW k \in 1 .. (z - g) PROVE Number(q[Place(k)]) = g + k
  <2>1. PICK i \in I : Number(q[i]) = g + k
    BY <1>2, <1>11
  <2>2. Cardinality(Upto(i)) = k
    BY <1>2, <1>16, <2>1
  <2>3. Place(k) \in I /\ Cardinality(Upto(Place(k))) = k
    BY <1>9, <2>2
  <2>4. Number(q[Place(k)]) - g = k /\ Number(q[Place(k)]) \in Int
    BY <1>2, <1>10, <1>16, <2>3
  <2>. QED
    BY <1>2, <2>4
<1>18. channel[r] = Window(g, z)
  BY <1>8, <1>15, <1>17 DEF Window
<1>. QED
  BY <1>2, <1>6, <1>18 DEF g, z

\* How a route's numbers change when one is sent, and when the first is taken.
LEMMA WindowFacts ==
  ASSUME NEW g \in Nat, NEW s \in Nat, g <= s
  PROVE  /\ Window(g, s + 1) = Append(Window(g, s), s + 1)
         /\ g < s => /\ Window(g, s) # <<>> /\ Head(Window(g, s)) = g + 1
                     /\ Window(g + 1, s) = Tail(Window(g, s))
<1>. DEFINE w == Window(g, s)
<1>1. w \in Seq(Nat) /\ Len(w) = s - g /\ \A k \in 1 .. (s - g) : w[k] = g + k
  BY DEF Window
<1>2. Window(g, s + 1) = Append(w, s + 1)
  BY DEF Window
<1>3. ASSUME g < s
      PROVE  /\ w # <<>> /\ Head(w) = g + 1
             /\ Window(g + 1, s) = Tail(w)
  <2>1. w # <<>> /\ Head(w) = g + 1
    BY <1>1, <1>3
  <2>2. /\ Tail(w) \in Seq(Nat) /\ Len(Tail(w)) = s - g - 1
        /\ \A k \in 1 .. (s - g - 1) : Tail(w)[k] = g + 1 + k
    BY <1>1, <1>3
  <2>3. /\ Window(g + 1, s) \in Seq(Nat) /\ Len(Window(g + 1, s)) = s - g - 1
        /\ \A k \in 1 .. (s - g - 1) : Window(g + 1, s)[k] = g + 1 + k
    BY <1>3 DEF Window
  <2>. HIDE DEF w
  <2>4. Window(g + 1, s) = Tail(w)
    <3>. DEFINE u == Window(g + 1, s)
                v == Tail(w)
    <3>1. u \in Seq(Nat) /\ v \in Seq(Nat) /\ Len(u) = Len(v)
      BY <2>2, <2>3
    <3>2. \A k \in 1 .. Len(u) : u[k] = v[k]
      BY <2>2, <2>3
    <3>. HIDE DEF u, v
    <3>3. u = v
      BY <3>1, <3>2, SeqEqual
    <3>. QED
      BY <3>3 DEF u, v
  <2>. QED
    BY <2>1, <2>4
<1>. QED
  BY <1>2, <1>3

\* The channels are what was sent and not popped.
ChannelInv == channel = [r \in Routes |-> Window(got[r], sent[r])]

LEMMA ChannelsAre == TypeInv /\ OrderInv => ChannelInv
BY ChannelIs DEF channel, ChannelInv

\* A step sends on one channel, delivers from one or changes none.
LEMMA ChannelStep ==
  ASSUME TypeInv, OrderInv, ChannelInv, ChannelInv', Moved
  PROVE  Channels!Next \/ UNCHANGED <<channel, [p \in Routes |-> sent[p]], [p \in Routes |-> got[p]]>>
<1>. DEFINE S == [p \in Routes |-> sent[p]]
            G == [p \in Routes |-> got[p]]
<1>1. \A r \in Routes : r \in Nodes \X Nodes /\ got[r] \in Nat /\ sent[r] \in Nat /\ got[r] <= sent[r]
  BY RouteFacts DEF TypeInv, OrderInv, CompleteInv
<1>2. sent \in [Nodes \X Nodes -> Nat] /\ got \in [Nodes \X Nodes -> Nat]
  BY DEF TypeInv, OrderInv
<1>3. /\ channel = [r \in Routes |-> Window(got[r], sent[r])]
      /\ channel' = [r \in Routes |-> Window(got'[r], sent'[r])]
  BY DEF ChannelInv
<1>4. ASSUME NEW r \in Routes, Sends(r) PROVE Channels!Next
  <2>1. got' = got /\ sent'[r] = sent[r] + 1 /\ \A x \in Routes : x # r => sent'[x] = sent[x]
    BY <1>1, <1>2, <1>4 DEF Sends
  <2>2. S' = [S EXCEPT ![r] = S[r] + 1] /\ G' = G
    BY <2>1
  <2>3. Window(got'[r], sent'[r]) = Append(Window(got[r], sent[r]), sent[r] + 1)
    BY <1>1, <2>1, WindowFacts
  <2>4. channel' = [channel EXCEPT ![r] = Append(channel[r], S[r] + 1)]
    BY <1>3, <2>1, <2>3
  <2>. QED
    BY <2>2, <2>4 DEF Channels!Next, Channels!Send
<1>5. ASSUME NEW r \in Routes, Delivers(r) PROVE Channels!Next
  <2>1. sent' = sent /\ got'[r] = got[r] + 1 /\ got[r] < sent[r] /\ \A x \in Routes : x # r => got'[x] = got[x]
    BY <1>1, <1>2, <1>5 DEF Delivers
  <2>2. /\ channel[r] # <<>> /\ Head(channel[r]) = got[r] + 1
        /\ Window(got'[r], sent'[r]) = Tail(channel[r])
    BY <1>1, <1>3, <2>1, WindowFacts
  <2>3. G' = [G EXCEPT ![r] = Head(channel[r])] /\ S' = S
    BY <2>1, <2>2
  <2>4. channel' = [channel EXCEPT ![r] = Tail(channel[r])]
    BY <1>3, <2>1, <2>2
  <2>. QED
    BY <2>2, <2>3, <2>4 DEF Channels!Next, Channels!Deliver
<1>6. ASSUME UNCHANGED <<sent, got>> PROVE UNCHANGED <<channel, S, G>>
  BY <1>3, <1>6
<1>. QED
  BY <1>4, <1>5, <1>6 DEF Moved

\* For any number of SMs and slices, any limits and any traffic, the two routers are
\* FIFO channels between every SM and every slice: what a node pops is the next
\* packet of its route, and no step loses, doubles or reorders one
\* (crossbar.cpp:60-125).
THEOREM RoutersAreChannels == Spec => Implements
<1>1. Init => Channels!Init
  <2>. SUFFICES ASSUME Init PROVE Channels!Init
    OBVIOUS
  <2>1. TypeInv /\ OrderInv
    BY InitInv, OrderInit DEF Inv
  <2>2. \A r \in Routes : r \in Nodes \X Nodes /\ got[r] = 0 /\ sent[r] = 0
    BY RouteFacts DEF Init
  <2>3. Window(0, 0) = <<>>
    BY DEF Window
  <2>4. channel = [r \in Routes |-> <<>>]
    BY <2>1, <2>2, <2>3, ChannelsAre DEF ChannelInv
  <2>. QED
    BY <2>2, <2>4 DEF Channels!Init
<1>2. Inv /\ OrderInv /\ [Next]_vars => OrderInv' /\ Moved
  BY OrderNext
<1>3. Inv => TypeInv
  BY DEF Inv
<1>4. TypeInv /\ OrderInv /\ ChannelInv /\ ChannelInv' /\ Moved
        => [Channels!Next]_<<channel, [p \in Routes |-> sent[p]], [p \in Routes |-> got[p]]>>
  BY ChannelStep
<1>. QED
  BY <1>1, <1>2, <1>3, <1>4, InitInv, NextInv, OrderInit, ChannelsAre, PTL DEF Spec, Implements, Channels!Spec
-----------------------------------------------------------------------------
(* The reply network.                                                        *)

\* An SM that runs has emptied its output buffer when its turn is over, and a reply
\* to it that has waited is that much closer to being the arbiter's first choice.
ReplyInv ==
  /\ \A s \in active : Len(out_buffers[REPLY_NET][s]) <= 1
  /\ stage \in {"mem", "advance"} => \A s \in active : out_buffers[REPLY_NET][s] = <<>>
  /\ stage \in {"pop", "push"} => \A s \in active : s < turn => out_buffers[REPLY_NET][s] = <<>>
  /\ stage = "push" => (turn \in active => out_buffers[REPLY_NET][turn] = <<>>)
  /\ \A m \in Mems : in_buffers[REPLY_NET][m] = <<>> => waited[REPLY_NET][m] = 0
  /\ \A m \in Mems, s \in active :
       Destined(m, s) => waited[REPLY_NET][m] + Distance(m, next_node_id[REPLY_NET]) < total_nodes

LEMMA ReplyInit == Init => ReplyInv
<1>. SUFFICES ASSUME Init PROVE ReplyInv
  OBVIOUS
<1>1. /\ \A n \in Nodes : /\ out_buffers[REPLY_NET][n] = <<>> /\ in_buffers[REPLY_NET][n] = <<>>
                          /\ waited[REPLY_NET][n] = 0
      /\ active \subseteq Nodes /\ Mems \subseteq Nodes /\ stage = "mem"
  BY NodeFacts DEF Init
<1>2. Len(<<>>) <= 1
  BY EmptySeq
<1>. QED
  BY <1>1, <1>2 DEF ReplyInv, Destined

\* A reply that is pushed goes behind the others of its slice; the first one has
\* waited for nothing (cache.cpp:391, 400, 423).
LEMMA L2ReplyReply ==
  ASSUME Inv, ReplyInv, L2Reply
  PROVE  ReplyInv'
<1>1. turn \in Mems /\ turn \in Nodes /\ PushNet(turn) = REPLY_NET
      /\ UNCHANGED <<stage, turn, out_buffers, next_node_id, active, waited>>
  BY NodeFacts DEF L2Reply
<1>2. PICK h \in held[turn] : Push(turn, Source(h[1]), FALSE)
  BY DEF L2Reply
<1>3. h[1] \in Packet /\ Source(h[1]) \in Nodes
  <2>1. h[1] \in Packet
    BY <1>1, <1>2 DEF Inv, TypeInv, Holds
  <2>. QED
    BY <2>1 DEF Packet, Source
<1>. DEFINE p == <<turn, Source(h[1]), sent[<<turn, Source(h[1])>>] + 1, FALSE>>
            q == in_buffers[REPLY_NET][turn]
<1>4. /\ in_buffers'[REPLY_NET][turn] = Append(q, p)
      /\ \A m \in Nodes : m # turn => in_buffers'[REPLY_NET][m] = in_buffers[REPLY_NET][m]
  <2>1. /\ in_buffers'[PushNet(turn)][turn] = Append(in_buffers[PushNet(turn)][turn], p)
        /\ \A t \in Nets, m \in Nodes : t # PushNet(turn) \/ m # turn => in_buffers'[t][m] = in_buffers[t][m]
    BY <1>1, <1>2, <1>3, PushFacts DEF Inv
  <2>. HIDE DEF p
  <2>. QED
    BY <1>1, <2>1, NodeFacts
<1>5. q \in Seq(Packet) /\ p \in Packet
  <2>1. q \in Seq(Packet)
    BY <1>1, NodeFacts DEF Inv, TypeInv
  <2>2. sent[<<turn, Source(h[1])>>] \in Nat
    BY <1>1, <1>3 DEF Inv, TypeInv
  <2>3. p \in Packet
    <3>1. ASSUME NEW a \in Nodes, NEW b \in Nodes, NEW k \in Nat PROVE <<a, b, k + 1, FALSE>> \in Packet
      <4>1. k + 1 \in Nat /\ FALSE \in BOOLEAN
        OBVIOUS
      <4>. QED
        BY <4>1, PacketFacts
    <3>. QED
      BY <1>1, <1>3, <2>2, <3>1
  <2>. QED
    BY <2>1, <2>3
<1>. HIDE DEF p
<1>6. Append(q, p) # <<>> /\ (q # <<>> => Head(Append(q, p)) = Head(q))
  <2>. HIDE DEF q
  <2>1. Append(q, p) \in Seq(Packet) /\ Len(Append(q, p)) = Len(q) + 1 /\ Len(q) \in Nat
    BY <1>5, AppendProperties, LenProperties
  <2>2. Append(q, p) # <<>>
    BY <2>1, EmptySeq
  <2>3. ASSUME q # <<>> PROVE Append(q, p)[1] = q[1]
    <3>1. 1 \in 1 .. Len(q)
      BY <1>5, <2>1, <2>3, EmptySeq
    <3>. QED
      BY <1>5, <3>1, AppendProperties
  <2>4. Head(Append(q, p)) = Append(q, p)[1] /\ (q # <<>> => Head(q) = q[1])
    BY <1>5, <2>1, <2>2, HeadTailProperties
  <2>. QED
    BY <2>2, <2>3, <2>4
<1>7. \A m \in Mems : in_buffers'[REPLY_NET][m] = <<>> => waited'[REPLY_NET][m] = 0
  BY <1>1, <1>4, <1>6, NodeFacts DEF ReplyInv
<1>8. ASSUME NEW m \in Mems, NEW s \in active, Destined(m, s)'
      PROVE  waited[REPLY_NET][m] + Distance(m, next_node_id[REPLY_NET]) < total_nodes
  <2>1. CASE m # turn
    <3>1. Destined(m, s)
      BY <1>4, <1>8, <2>1, NodeFacts DEF Destined
    <3>. QED
      BY <3>1 DEF ReplyInv
  <2>2. CASE m = turn /\ q # <<>>
    <3>1. Destined(m, s)
      BY <1>4, <1>6, <1>8, <2>2 DEF Destined
    <3>. QED
      BY <3>1 DEF ReplyInv
  <2>3. CASE m = turn /\ q = <<>>
    <3>1. waited[REPLY_NET][m] = 0 /\ next_node_id[REPLY_NET] \in Nodes /\ m \in Nodes
      BY <1>1, <2>3, NodeFacts DEF ReplyInv, Inv, TypeInv
    <3>2. Distance(m, next_node_id[REPLY_NET]) \in Nat /\ Distance(m, next_node_id[REPLY_NET]) < total_nodes
      BY <3>1, DistanceRange
    <3>. QED
      BY <3>1, <3>2
  <2>. QED
    BY <2>1, <2>2, <2>3
<1>9. \A m \in Mems, s \in active' :
        Destined(m, s)' => waited'[REPLY_NET][m] + Distance(m, next_node_id'[REPLY_NET]) < total_nodes
  BY <1>1, <1>8
<1>10. /\ \A s \in active' : Len(out_buffers'[REPLY_NET][s]) <= 1
       /\ stage' \in {"mem", "advance"} => \A s \in active' : out_buffers'[REPLY_NET][s] = <<>>
       /\ stage' \in {"pop", "push"} => \A s \in active' : s < turn' => out_buffers'[REPLY_NET][s] = <<>>
       /\ stage' = "push" => (turn' \in active' => out_buffers'[REPLY_NET][turn'] = <<>>)
  BY <1>1 DEF ReplyInv
<1>. QED
  BY <1>7, <1>9, <1>10 DEF ReplyInv

\* A round serves the SMs that run, whose output buffers are empty (crossbar.cpp:91-125).
LEMMA AdvanceReply ==
  ASSUME Inv, ReplyInv, Advance
  PROVE  ReplyInv'
<1>1. stage = "advance" /\ stage' = "pop" /\ turn' = 0 /\ RR_Advance /\ active' = active /\ TypeInv
  BY DEF Advance, Inv
<1>2. active \subseteq Nodes /\ Mems \subseteq Nodes /\ \A s \in active : out_buffers[REPLY_NET][s] = <<>>
  BY <1>1, NodeFacts DEF ReplyInv, TypeInv
<1>3. \A s \in active : Len(out_buffers'[REPLY_NET][s]) <= 1
  BY <1>1, <1>2, RoundFills, NodeFacts
<1>4. ASSUME NEW m \in Mems
      PROVE  /\ in_buffers'[REPLY_NET][m] = InAfter(REPLY_NET, m)
             /\ waited'[REPLY_NET][m] = WaitedAfter(REPLY_NET, m)
  BY <1>1, <1>2, NodeFacts DEF RR_Advance
<1>5. ASSUME NEW m \in Mems, in_buffers'[REPLY_NET][m] = <<>> PROVE waited'[REPLY_NET][m] = 0
  BY <1>4, <1>5 DEF InAfter, WaitedAfter
<1>6. ASSUME NEW m \in Mems, NEW s \in active, Destined(m, s)'
      PROVE  waited'[REPLY_NET][m] + Distance(m, next_node_id'[REPLY_NET]) < total_nodes
  <2>1. ASSUME in_buffers[REPLY_NET][m] # <<>>, ~Leaves(REPLY_NET, m)
        PROVE  /\ out_buffers[REPLY_NET][output_deviceID(Head(in_buffers[REPLY_NET][m]))] = <<>>
               /\ waited[REPLY_NET][m] + Distance(m, next_node_id[REPLY_NET]) < total_nodes
    <3>1. Destined(m, s)
      BY <1>4, <1>6, <2>1 DEF Destined, InAfter
    <3>. QED
      BY <1>2, <3>1 DEF Destined, ReplyInv
  <2>. QED
    BY <1>1, <1>2, <2>1, RoundWaits, NodeFacts
<1>7. \A s \in active : ~(s < 0)
  BY <1>2, NodeFacts DEF Nodes
<1>. QED
  BY <1>1, <1>3, <1>5, <1>6, <1>7 DEF ReplyInv

\* sm_cycle empties the output buffer of an active SM whose turn it is (gpu.cpp:251).
LEMMA SMPopReply ==
  ASSUME Inv, ReplyInv, SMPop
  PROVE  ReplyInv'
<1>1. /\ turn \in Shaders /\ turn \in Nodes /\ stage = "pop" /\ stage' = "push"
      /\ UNCHANGED <<turn, waited, next_node_id, in_buffers, active>>
      /\ PopNet(turn) = REPLY_NET /\ Arrived(turn) = out_buffers[REPLY_NET][turn]
      /\ active \subseteq Nodes
  BY NodeFacts DEF SMPop, Arrived, Inv, TypeInv
<1>2. /\ turn \in active => out_buffers'[REPLY_NET][turn] = <<>>
      /\ \A n \in Nodes : n # turn => out_buffers'[REPLY_NET][n] = out_buffers[REPLY_NET][n]
  <2>1. CASE turn \notin active \/ Arrived(turn) = <<>>
    BY <1>1, <2>1 DEF SMPop
  <2>2. CASE turn \in active /\ Arrived(turn) # <<>>
    <3>1. Pop(turn)
      BY <2>2 DEF SMPop
    <3>2. /\ out_buffers'[REPLY_NET][turn] = Tail(out_buffers[REPLY_NET][turn])
          /\ \A n \in Nodes : n # turn => out_buffers'[REPLY_NET][n] = out_buffers[REPLY_NET][n]
      BY <1>1, <2>2, <3>1, PopFacts, NodeFacts DEF Inv
    <3>3. out_buffers[REPLY_NET][turn] \in Seq(Packet) /\ Len(out_buffers[REPLY_NET][turn]) <= 1
      BY <1>1, <2>2, NodeFacts DEF Inv, TypeInv, ReplyInv
    <3>. QED
      BY <1>1, <2>2, <3>2, <3>3, TailOfOne
  <2>. QED
    BY <2>1, <2>2
<1>3. \A n \in Nodes : n < turn => n # turn
  BY <1>1, NodeFacts
<1>4. \A n \in active : Len(out_buffers'[REPLY_NET][n]) <= 1
  <2>1. Len(<<>>) <= 1
    BY EmptySeq
  <2>. QED
    BY <1>1, <1>2, <2>1 DEF ReplyInv
<1>5. \A n \in active : n < turn => out_buffers'[REPLY_NET][n] = <<>>
  BY <1>1, <1>2, <1>3 DEF ReplyInv
<1>. QED
  BY <1>1, <1>2, <1>4, <1>5 DEF ReplyInv, Destined

\* When the last SM has had its turn the output buffers of those that run are empty.
LEMMA SMDoneReply ==
  ASSUME Inv, ReplyInv, stage = "push", SMDone, UNCHANGED <<out_buffers, next_node_id, waited>>,
         \A m \in Mems : in_buffers'[REPLY_NET][m] = in_buffers[REPLY_NET][m]
  PROVE  ReplyInv'
<1>1. turn \in Shaders /\ turn \in Nodes /\ turn \in Nat /\ active' \subseteq active /\ active \subseteq Shaders
  BY NodeFacts, SMDoneFacts DEF Inv, FlowInv, TypeInv
<1>2. \A n \in active : n < turn \/ n = turn => out_buffers[REPLY_NET][n] = <<>>
  BY DEF ReplyInv
<1>3. /\ \A m \in Mems : in_buffers'[REPLY_NET][m] = <<>> => waited'[REPLY_NET][m] = 0
      /\ \A m \in Mems, s \in active' :
           Destined(m, s)' => waited'[REPLY_NET][m] + Distance(m, next_node_id'[REPLY_NET]) < total_nodes
      /\ \A s \in active' : Len(out_buffers'[REPLY_NET][s]) <= 1
  BY <1>1 DEF ReplyInv, Destined
<1>4. CASE turn < NShader - 1 /\ stage' = "pop" /\ turn' = turn + 1
  <2>1. \A n \in Shaders : n < turn + 1 => n < turn \/ n = turn
    BY <1>1 DEF Shaders
  <2>2. \A s \in active' : s < turn' => out_buffers'[REPLY_NET][s] = <<>>
    BY <1>1, <1>2, <1>4, <2>1
  <2>. QED
    BY <1>3, <1>4, <2>2 DEF ReplyInv
<1>5. CASE turn = NShader - 1 /\ stage' \in {"mem", "ended"}
  <2>1. \A n \in Shaders : n < turn \/ n = turn
    BY <1>1, <1>5 DEF Shaders
  <2>2. \A s \in active' : out_buffers'[REPLY_NET][s] = <<>>
    BY <1>1, <1>2, <2>1
  <2>. QED
    BY <1>3, <1>5, <2>2 DEF ReplyInv
<1>. QED
  BY <1>4, <1>5 DEF SMDone

\* The SMs that run are served, whichever others have stopped.
LEMMA ReplyNext == Inv /\ ReplyInv /\ [Next]_vars => ReplyInv'
<1>. SUFFICES ASSUME Inv, ReplyInv, [Next]_vars PROVE ReplyInv'
  OBVIOUS
<1>1. CASE L2Reply
  BY <1>1, L2ReplyReply
<1>2. CASE L2Pop
  <2>1. turn \in Mems /\ turn \in Nodes /\ stage = "mem" /\ stage' \in {"mem", "advance"}
        /\ UNCHANGED <<next_node_id, waited, in_buffers, active>> /\ PopNet(turn) = REQ_NET
    BY <1>2, NodeFacts DEF L2Pop
  <2>2. \A n \in Nodes : out_buffers'[REPLY_NET][n] = out_buffers[REPLY_NET][n]
    <3>1. CASE Arrived(turn) = <<>>
      BY <1>2, <3>1 DEF L2Pop
    <3>2. CASE Arrived(turn) # <<>>
      <4>1. Pop(turn)
        BY <1>2, <3>2 DEF L2Pop
      <4>. QED
        BY <2>1, <3>2, <4>1, PopFacts, NodeFacts DEF Inv
    <3>. QED
      BY <3>1, <3>2
  <2>3. active \subseteq Nodes
    BY NodeFacts DEF Inv, TypeInv
  <2>. QED
    BY <2>1, <2>2, <2>3 DEF ReplyInv, Destined
<1>3. CASE Advance
  BY <1>3, AdvanceReply
<1>4. CASE SMPop
  BY <1>4, SMPopReply
<1>5. CASE SMPush
  <2>1. turn \in Shaders /\ turn \in Nodes /\ PushNet(turn) = REQ_NET
    BY <1>5, NodeFacts DEF SMPush, Inv, TypeInv
  <2>2. PICK d \in Mems, wants \in BOOLEAN : Push(turn, d, wants)
    BY <1>5 DEF SMPush
  <2>3. \A m \in Mems : in_buffers'[REPLY_NET][m] = in_buffers[REPLY_NET][m]
    <3>1. in_buffers \in [Nets -> [Nodes -> Seq(Packet)]]
      BY DEF Inv, TypeInv
    <3>2. PICK q : in_buffers' = [in_buffers EXCEPT ![REQ_NET][turn] = q]
      BY <2>1, <2>2 DEF Push
    <3>. QED
      BY <3>1, <3>2, NodeFacts
  <2>. QED
    BY <1>5, <2>3, SMDoneReply DEF SMPush
<1>6. CASE SMIdle
  BY <1>6, SMDoneReply DEF SMIdle, buffers
<1>7. CASE UNCHANGED vars
  BY <1>7 DEF vars, buffers, ReplyInv, Destined
<1>. QED
  BY <1>1, <1>2, <1>3, <1>4, <1>5, <1>6, <1>7 DEF Next, Step, Ended

\* For any number of SMs and slices, any limits, any traffic and any number of answers
\* to a request: the replies to an SM that runs are not held up by the SMs that have
\* stopped and left theirs unread (gpu.cpp:242-246), and the first one of a slice's
\* buffer is passed over fewer than total_nodes times (crossbar.cpp:98, 117).
THEOREM RepliesNeverStarve == Spec => []RepliesFlow
<1>1. Inv /\ ReplyInv => RepliesFlow
  <2>. SUFFICES ASSUME Inv, ReplyInv PROVE RepliesFlow
    OBVIOUS
  <2>1. ASSUME NEW m \in Mems, NEW s \in active, Destined(m, s) PROVE waited[REPLY_NET][m] < total_nodes
    <3>1. waited[REPLY_NET][m] \in Nat /\ next_node_id[REPLY_NET] \in Nodes /\ m \in Nodes
      BY NodeFacts DEF Inv, TypeInv
    <3>2. Distance(m, next_node_id[REPLY_NET]) \in Nat
      BY <3>1, DistanceRange
    <3>3. waited[REPLY_NET][m] + Distance(m, next_node_id[REPLY_NET]) < total_nodes
      BY <2>1 DEF ReplyInv
    <3>. QED
      BY <3>1, <3>2, <3>3, NodeFacts
  <2>. QED
    BY <2>1 DEF RepliesFlow, ReplyInv
<1>. QED
  BY <1>1, InitInv, NextInv, ReplyInit, ReplyNext, PTL DEF Spec
-----------------------------------------------------------------------------
(* The loop of RR_Advance.                                                   *)

\* A set of numbers has a least one.
LEMMA Least ==
  ASSUME NEW T, T \subseteq Nat, T # {}
  PROVE  \E n \in T : \A m \in T : n <= m
<1>1. PICK n \in T : \A m \in T : ~(<<m, n>> \in OpToRel(<, Nat))
  BY WFMin, NatLessThanWellFounded
<1>2. \A m \in T : m < n => <<m, n>> \in OpToRel(<, Nat)
  BY DEF OpToRel
<1>3. \A m \in T : ~(m < n)
  BY <1>1, <1>2
<1>4. \A m \in T : m \in Nat /\ n \in Nat
  OBVIOUS
<1>5. \A m \in T : n <= m
  BY <1>3, <1>4
<1>. QED
  BY <1>5

\* Whom the loop visits in its turn i.
LEMMA VisitOrder ==
  ASSUME NEW k \in Nodes, NEW i \in 1 .. total_nodes
  PROVE  /\ (i - 1 + k) % total_nodes \in Nodes
         /\ Distance((i - 1 + k) % total_nodes, k) = i - 1
         /\ \A n \in Nodes : Distance(n, k) = i - 1 => n = (i - 1 + k) % total_nodes
<1>. DEFINE N == total_nodes
<1>1. N \in Nat \ {0} /\ k \in 0 .. (N - 1) /\ i \in 1 .. N
  BY NodeFacts DEF Nodes
<1>2. (i - 1 + k) % N = IF i - 1 + k < N THEN i - 1 + k ELSE i - 1 + k - N
  <2>. HIDE DEF N
  <2>1. CASE i - 1 + k < N
    BY <1>1, <2>1
  <2>2. CASE ~(i - 1 + k < N)
    <3>1. i - 1 + k = N + (i - 1 + k - N) /\ i - 1 + k - N \in 0 .. (N - 1)
      BY <1>1, <2>2
    <3>. QED
      BY <1>1, <2>2, <3>1
  <2>. QED
    BY <2>1, <2>2
<1>. QED
  BY <1>1, <1>2 DEF Distance, Nodes

\* A node that the loop has visited after i turns, and an output it has used.
Visited(t, n, i) == Distance(n, next_node_id[t]) < i
Used(t, o, i) == \E n \in Nodes : Visited(t, n, i) /\ Moves(t, n, o)

\* What the loop has made of the buffers after i turns.
After(t, i) ==
  [in |-> [n \in Nodes |-> IF Visited(t, n, i) /\ Leaves(t, n) THEN Tail(in_buffers[t][n]) ELSE in_buffers[t][n]],
   out |-> [o \in Nodes |-> IF Used(t, o, i) THEN Append(out_buffers[t][o], Head(in_buffers[t][Winner(t, o)]))
                            ELSE out_buffers[t][o]],
   issued |-> {o \in Nodes : Used(t, o, i)}]

\* An output with room that some node wants is taken by the first of them.
LEMMA FirstMoves ==
  ASSUME TypeInv, NEW t \in Nets, NEW o, NEW n \in Nodes, Wants(t, n, o), Has_Buffer_Out(t, o)
  PROVE  \E m \in Nodes : Moves(t, m, o) /\ Distance(m, next_node_id[t]) <= Distance(n, next_node_id[t])
<1>. DEFINE k == next_node_id[t]
            T == {Distance(m, k) : m \in {x \in Nodes : Wants(t, x, o)}}
<1>1. k \in Nodes
  BY DEF TypeInv
<1>2. T \subseteq Nat /\ Distance(n, k) \in T
  BY <1>1, DistanceRange
<1>3. PICK e \in T : \A f \in T : e <= f
  BY <1>2, Least
<1>4. PICK m \in Nodes : Wants(t, m, o) /\ e = Distance(m, k)
  BY <1>3
<1>5. \A x \in Nodes : Wants(t, x, o) => Distance(m, k) <= Distance(x, k)
  BY <1>3, <1>4
<1>. QED
  BY <1>4, <1>5 DEF Moves

\* Turn i serves the node it visits exactly when that node wins its output.
LEMMA TurnIs ==
  ASSUME TypeInv, NEW t \in Nets, NEW i \in 1 .. total_nodes
  PROVE  After(t, i) = Visit(t, After(t, i - 1), (i - 1 + next_node_id[t]) % total_nodes)
<1>. DEFINE k == next_node_id[t]
            n == (i - 1 + k) % total_nodes
            x == After(t, i - 1)
            q == in_buffers[t][n]
            o == output_deviceID(Head(q))
<1>1. k \in Nodes /\ i \in Nat /\ total_nodes \in Nat
  BY NodeFacts DEF TypeInv
<1>2. /\ n \in Nodes /\ Distance(n, k) = i - 1
      /\ \A m \in Nodes : Distance(m, k) = i - 1 => m = n
  BY <1>1, VisitOrder
<1>3. \A m \in Nodes : /\ Visited(t, m, i) <=> Visited(t, m, i - 1) \/ m = n
                       /\ ~Visited(t, n, i - 1)
  <2>1. \A m \in Nodes : Distance(m, k) \in Nat
    BY <1>1, DistanceRange
  <2>2. \A a \in Nat : (a < i <=> a < i - 1 \/ a = i - 1) /\ ~(i - 1 < i - 1)
    BY <1>1
  <2>. QED
    BY <1>2, <2>1, <2>2 DEF Visited
<1>4. /\ in_buffers[t] \in [Nodes -> Seq(Packet)] /\ out_buffers[t] \in [Nodes -> Seq(Packet)]
      /\ q \in Seq(Packet)
  BY <1>2 DEF TypeInv
<1>. HIDE DEF k, n
<1>5. /\ x.in = [m \in Nodes |-> IF Visited(t, m, i - 1) /\ Leaves(t, m) THEN Tail(in_buffers[t][m]) ELSE in_buffers[t][m]]
      /\ x.out = [d \in Nodes |-> IF Used(t, d, i - 1) THEN Append(out_buffers[t][d], Head(in_buffers[t][Winner(t, d)]))
                                  ELSE out_buffers[t][d]]
      /\ x.issued = {d \in Nodes : Used(t, d, i - 1)}
      /\ x = [in |-> x.in, out |-> x.out, issued |-> x.issued]
  BY DEF After
<1>6. x.in[n] = q
  BY <1>2, <1>3, <1>5
<1>7. \A d : Used(t, d, i) <=> Used(t, d, i - 1) \/ Moves(t, n, d)
  BY <1>2, <1>3 DEF Used
<1>8. ASSUME NEW d, Moves(t, n, d) PROVE ~Used(t, d, i - 1) /\ q # <<>> /\ d = o
  <2>1. q # <<>> /\ d = o
    BY <1>8 DEF Moves, Wants
  <2>2. ~Used(t, d, i - 1)
    BY <1>2, <1>3, <1>8, OneWinner DEF Used
  <2>. QED
    BY <2>1, <2>2
<1>9. q # <<>> => o \in Nodes
  <2>1. q # <<>> => Head(q) \in Packet
    BY <1>4, HeadTailProperties
  <2>. QED
    BY <2>1, PacketFacts
<1>10. Visit(t, x, n) = IF q = <<>> THEN x
                        ELSE IF Len(x.out[o]) + 1 <= OutLimit /\ o \notin x.issued
                             THEN [in |-> [x.in EXCEPT ![n] = Tail(q)],
                                   out |-> [x.out EXCEPT ![o] = Append(x.out[o], Head(q))],
                                   issued |-> x.issued \cup {o}]
                             ELSE x
  BY <1>6 DEF Visit
<1>. HIDE DEF x, q, o
<1>11. CASE ~Leaves(t, n)
  <2>1. \A d \in Nodes : ~Moves(t, n, d)
    BY <1>11 DEF Leaves
  <2>2. After(t, i) = x
    <3>1. \A d \in Nodes : Used(t, d, i) <=> Used(t, d, i - 1)
      BY <1>7, <2>1
    <3>2. \A m \in Nodes : Visited(t, m, i) /\ Leaves(t, m) <=> Visited(t, m, i - 1) /\ Leaves(t, m)
      BY <1>3, <1>11
    <3>. QED
      BY <3>1, <3>2 DEF After, x
  <2>3. ASSUME q # <<>>, Len(x.out[o]) + 1 <= OutLimit, o \notin x.issued PROVE FALSE
    <3>1. o \in Nodes /\ ~Used(t, o, i - 1)
      BY <1>5, <1>9, <2>3
    <3>2. x.out[o] = out_buffers[t][o]
      BY <1>5, <3>1
    <3>3. Has_Buffer_Out(t, o) /\ Wants(t, n, o)
      BY <2>3, <3>2 DEF Has_Buffer_Out, Wants, q, o
    <3>4. PICK m \in Nodes : Moves(t, m, o) /\ Distance(m, k) <= Distance(n, k)
      BY <1>2, <3>3, FirstMoves DEF k
    <3>5. m # n
      BY <2>1, <3>1, <3>4
    <3>6. Distance(m, k) \in Nat /\ Distance(m, k) # i - 1 /\ Distance(m, k) <= i - 1
      BY <1>1, <1>2, <3>4, <3>5, DistanceRange
    <3>7. Distance(m, k) < i - 1
      BY <1>1, <3>6
    <3>8. Visited(t, m, i - 1)
      BY <3>7 DEF Visited, k
    <3>. QED
      BY <3>1, <3>4, <3>8 DEF Used
  <2>4. Visit(t, x, n) = x
    BY <1>10, <2>3
  <2>. QED
    BY <2>2, <2>4 DEF x, n, k
<1>12. CASE Leaves(t, n)
  <2>1. o \in Nodes /\ Moves(t, n, o) /\ q # <<>> /\ ~Used(t, o, i - 1)
    BY <1>8, <1>12 DEF Leaves
  <2>2. Winner(t, o) = n
    <3>1. Winner(t, o) \in Nodes /\ Moves(t, Winner(t, o), o)
      BY <1>2, <2>1 DEF Winner
    <3>. QED
      BY <1>2, <2>1, <3>1, OneWinner
  <2>3. x.out[o] = out_buffers[t][o] /\ o \notin x.issued /\ Len(x.out[o]) + 1 <= OutLimit
    BY <1>5, <2>1 DEF Moves, Has_Buffer_Out
  <2>4. Visit(t, x, n) = [in |-> [x.in EXCEPT ![n] = Tail(q)],
                          out |-> [x.out EXCEPT ![o] = Append(x.out[o], Head(q))],
                          issued |-> x.issued \cup {o}]
    BY <1>10, <2>1, <2>3
  <2>. DEFINE a == [m \in Nodes |-> IF Visited(t, m, i) /\ Leaves(t, m) THEN Tail(in_buffers[t][m]) ELSE in_buffers[t][m]]
              b == [d \in Nodes |-> IF Used(t, d, i) THEN Append(out_buffers[t][d], Head(in_buffers[t][Winner(t, d)]))
                                    ELSE out_buffers[t][d]]
              c == {d \in Nodes : Used(t, d, i)}
  <2>5. [x.in EXCEPT ![n] = Tail(q)] = a
    <3>1. \A m \in Nodes : m # n => (Visited(t, m, i) <=> Visited(t, m, i - 1))
      BY <1>3
    <3>2. Visited(t, n, i)
      BY <1>2, <1>3
    <3>. QED
      BY <1>2, <1>5, <1>12, <3>1, <3>2 DEF q
  <2>6. \A d \in Nodes : d # o => (Used(t, d, i) <=> Used(t, d, i - 1))
    BY <1>7, <1>8
  <2>7. Used(t, o, i)
    BY <1>7, <2>1
  <2>8. [x.out EXCEPT ![o] = Append(x.out[o], Head(q))] = b
    BY <1>5, <2>1, <2>2, <2>3, <2>6, <2>7 DEF q
  <2>9. x.issued \cup {o} = c
    BY <1>5, <2>1, <2>6, <2>7
  <2>10. After(t, i) = [in |-> a, out |-> b, issued |-> c]
    BY DEF After
  <2>. QED
    BY <2>4, <2>5, <2>8, <2>9, <2>10 DEF x, n, k
<1>. QED
  BY <1>11, <1>12

\* All turns together are what RR_Advance does in one step.
LEMMA LoopIs ==
  ASSUME TypeInv, NEW t \in Nets
  PROVE  Loop(t) = After(t, total_nodes)
<1>. DEFINE N == total_nodes
            k == next_node_id[t]
            start == [in |-> in_buffers[t], out |-> out_buffers[t], issued |-> {}]
            F(x) == [i \in 0 .. N |-> IF i = 0 THEN start ELSE Visit(t, x[i - 1], (i - 1 + k) % N)]
            g == [i \in 0 .. N |-> After(t, i)]
            y == CHOOSE x : x = F(x)
<1>1. N \in Nat \ {0} /\ k \in Nodes
  BY NodeFacts DEF TypeInv
<1>2. After(t, 0) = start
  <2>1. \A n \in Nodes : ~Visited(t, n, 0)
    BY <1>1, DistanceRange DEF Visited
  <2>2. \A o : ~Used(t, o, 0)
    BY <2>1 DEF Used
  <2>3. in_buffers[t] \in [Nodes -> Seq(Packet)] /\ out_buffers[t] \in [Nodes -> Seq(Packet)]
    BY DEF TypeInv
  <2>4. /\ in_buffers[t] = [n \in Nodes |-> IF Visited(t, n, 0) /\ Leaves(t, n) THEN Tail(in_buffers[t][n]) ELSE in_buffers[t][n]]
        /\ out_buffers[t] = [o \in Nodes |-> IF Used(t, o, 0) THEN Append(out_buffers[t][o], Head(in_buffers[t][Winner(t, o)]))
                                             ELSE out_buffers[t][o]]
        /\ {} = {o \in Nodes : Used(t, o, 0)}
    BY <2>1, <2>2, <2>3
  <2>. QED
    BY <2>4 DEF After
<1>3. Loop(t) = y[N]
  BY DEF Loop
<1>4. \A i \in 1 .. N : After(t, i) = Visit(t, After(t, i - 1), (i - 1 + k) % N)
  BY TurnIs
<1>. HIDE DEF N, k, start
<1>5. g = F(g)
  <2>1. \A i \in 0 .. N : i # 0 => i \in 1 .. N /\ i - 1 \in 0 .. N
    BY <1>1
  <2>. QED
    BY <1>2, <1>4, <2>1
<1>6. y = F(y)
  BY <1>5
<1>. HIDE DEF y
<1>7. \A i \in 0 .. N : y[i] = After(t, i)
  <2>. SUFFICES ASSUME NEW j \in 0 .. N, y[j] # After(t, j) PROVE FALSE
    OBVIOUS
  <2>. DEFINE T == {i \in 0 .. N : y[i] # After(t, i)}
  <2>1. T \subseteq Nat /\ j \in T
    BY <1>1
  <2>2. PICK i \in T : \A m \in T : i <= m
    BY <2>1, Least
  <2>3. i # 0
    BY <1>1, <1>2, <1>6, <2>2
  <2>4. i \in 1 .. N /\ i - 1 \in 0 .. N /\ ~(i <= i - 1)
    BY <1>1, <2>2, <2>3
  <2>5. y[i - 1] = After(t, i - 1)
    BY <2>2, <2>4
  <2>6. y[i] = Visit(t, y[i - 1], (i - 1 + k) % N)
    BY <1>6, <2>3, <2>4
  <2>. QED
    BY <1>4, <2>2, <2>4, <2>5, <2>6
<1>8. N \in 0 .. N
  BY <1>1
<1>. QED
  BY <1>3, <1>7, <1>8 DEF N

\* For any number of nodes, any buffer limits and any contents of the buffers: the loop of
\* RR_Advance, which changes the buffers while it reads them, serves each output at
\* most once and gives it to the first node in turn that wants it
\* (crossbar.cpp:97-116).
THEOREM LoopServesFirstInTurn == Spec => LoopAgrees
<1>1. Inv /\ [Next]_vars =>
        [stage = "advance" => \A t \in Nets : /\ in_buffers'[t] = Loop(t).in
                                              /\ out_buffers'[t] = Loop(t).out]_vars
  <2>. SUFFICES ASSUME Inv, Next, stage = "advance", NEW t \in Nets
                PROVE  in_buffers'[t] = Loop(t).in /\ out_buffers'[t] = Loop(t).out
    OBVIOUS
  <2>1. RR_Advance /\ TypeInv
    BY DEF Next, Step, L2Reply, L2Pop, SMPop, SMPush, SMIdle, SMDone, Ended, Advance, Inv
  <2>2. \A n \in Nodes : Visited(t, n, total_nodes)
    BY <2>1, DistanceRange DEF Visited, TypeInv
  <2>3. \A o : Used(t, o, total_nodes) <=> \E n \in Nodes : Moves(t, n, o)
    BY <2>2 DEF Used
  <2>4. in_buffers'[t] = [n \in Nodes |-> InAfter(t, n)] /\ out_buffers'[t] = [o \in Nodes |-> OutAfter(t, o)]
    BY <2>1 DEF RR_Advance
  <2>5. After(t, total_nodes).in = [n \in Nodes |-> InAfter(t, n)]
    BY <2>2 DEF After, InAfter
  <2>6. After(t, total_nodes).out = [o \in Nodes |-> OutAfter(t, o)]
    BY <2>3 DEF After, OutAfter
  <2>. QED
    BY <2>1, <2>4, <2>5, <2>6, LoopIs
<1>. QED
  BY <1>1, InitInv, NextInv, PTL DEF Spec, LoopAgrees
=============================================================================
