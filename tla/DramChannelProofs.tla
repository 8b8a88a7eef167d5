------------------------- MODULE DramChannelProofs -------------------------
(***************************************************************************)
(* Proofs about one DRAM channel, for any number of slices, any latencies   *)
(* and any sizes: its types, that none of its own queues overflows or       *)
(* exerts back-pressure, that a request takes the same time from its issue  *)
(* whatever the others do, and that none is lost, duplicated or overtaken.  *)
(* The bound on a queue is not inductive by itself: it holds because of the *)
(* order of the stages of a cycle, which Inv states stage by stage.  AgeInv *)
(* then says what its position tells of a request's age, and NumInv that    *)
(* the age orders the requests of a slice.                                  *)
(***************************************************************************)
EXTENDS DramChannel, SequenceTheorems, TLAPS

\* What each stage leaves behind: the return queue and mrqq are emptied by the
\* first two stages and take one request each, every slice takes its answer.
StageInv ==
  /\ Len(returnq) <= 1
  /\ Len(mrqq) <= 1
  /\ stage \in {"issue", "latency"} => Len(mrqq) = 0
  /\ stage = "cycle" => Len(returnq) = 0
  /\ stage = "return" => \A s \in Slices : Len(dram_L2[s]) = 0
  /\ \A s \in Slices : Len(dram_L2[s]) <= 1
  /\ stage = "l2" => \A s \in Slices : s < turn => Len(dram_L2[s]) = 0

\* With simple_dram_model the queues of the detailed model stay empty, and
\* dram_t::cycle is not called.
SimpleInv == simple_dram_model => Len(mrqq) = 0 /\ Len(returnq) = 0 /\ stage # "cycle"

Inv == TypeOK /\ StageInv /\ SimpleInv /\ Len(rwq) = CL /\ fault # "rwq"
-----------------------------------------------------------------------------
(* fifo_pipeline.                                                           *)

\* A queue without a minimum length is a plain queue (delayqueue.h:71-115).
LEMMA PlainQueue ==
  ASSUME NEW S, NEW q \in Seq(S), NEW x \in S
  PROVE  /\ push(q, x, 0) \in Seq(S) /\ Len(push(q, x, 0)) <= Len(q) + 1
         /\ pop(q, 0) \in Seq(S)
         /\ Len(pop(q, 0)) = IF Len(q) = 0 THEN 0 ELSE Len(q) - 1
<1>1. push(q, x, 0) \in Seq(S) /\ Len(push(q, x, 0)) <= Len(q) + 1
  <2>1. CASE q = <<>> \/ q[Len(q)] # Null \/ Len(q) < 0
    BY <2>1 DEF push
  <2>2. CASE ~(q = <<>> \/ q[Len(q)] # Null \/ Len(q) < 0)
    <3>1. push(q, x, 0) = [q EXCEPT ![Len(q)] = x]
      BY <2>2 DEF push
    <3>. QED
      BY <3>1
  <2>. QED
    BY <2>1, <2>2
<1>2. CASE q = <<>>
  <2>1. pop(q, 0) = q
    BY <1>2 DEF pop
  <2>2. Len(q) = 0
    BY <1>2
  <2>. QED
    BY <1>1, <2>1, <2>2
<1>3. CASE q # <<>>
  <2>1. pop(q, 0) = Tail(q)
    BY <1>3 DEF pop
  <2>2. Len(q) \in Nat \ {0} /\ Tail(q) \in Seq(S) /\ Len(Tail(q)) = Len(q) - 1
    BY <1>3, EmptySeq, HeadTailProperties
  <2>. QED
    BY <1>1, <2>1, <2>2
<1>. QED
  BY <1>2, <1>3

\* The two facts about plain queues, as the actions use them: on requests.
LEMMA RequestQueue ==
  /\ \A q \in Seq(Request), x \in Request :
       push(q, x, 0) \in Seq(Request) /\ Len(push(q, x, 0)) <= Len(q) + 1
  /\ \A q \in Seq(Request) : /\ pop(q, 0) \in Seq(Request)
                             /\ Len(q) <= 1 => Len(pop(q, 0)) = 0
<1>1. <<0, 1, 0, 0>> \in Request
  BY DramAssumption DEF Request, Slices
<1>2. ASSUME NEW q \in Seq(Request), NEW x \in Request
      PROVE  /\ push(q, x, 0) \in Seq(Request) /\ Len(push(q, x, 0)) <= Len(q) + 1
             /\ pop(q, 0) \in Seq(Request)
             /\ Len(q) <= 1 => Len(pop(q, 0)) = 0
  <2>1. /\ push(q, x, 0) \in Seq(Request) /\ Len(push(q, x, 0)) <= Len(q) + 1
        /\ pop(q, 0) \in Seq(Request)
        /\ Len(pop(q, 0)) = IF Len(q) = 0 THEN 0 ELSE Len(q) - 1
    BY PlainQueue
  <2>2. Len(q) \in Nat
    OBVIOUS
  <2>3. ASSUME NEW n \in Nat, n <= 1
        PROVE  (IF n = 0 THEN 0 ELSE n - 1) = 0
    BY <2>3
  <2>. QED
    BY <2>1, <2>2, <2>3
<1>. QED
  BY <1>1, <1>2

\* The delay line keeps its length: pop leaves a Null at the tail, and push puts
\* its element in the place of that Null (delayqueue.h:74, 107).
LEMMA RequestLine ==
  ASSUME NEW q \in Seq(Request \cup {Null}), Len(q) = CL
  PROVE  /\ pop(q, CL) \in Seq(Request \cup {Null}) /\ Len(pop(q, CL)) = CL
         /\ \A x \in Request \cup {Null} :
              /\ push(pop(q, CL), x, CL) \in Seq(Request \cup {Null})
              /\ Len(push(pop(q, CL), x, CL)) = CL
<1>. DEFINE D == Request \cup {Null}
<1>1. Null \in D /\ CL \in Nat \ {0} /\ q \in Seq(D)
  BY DramAssumption
<1>. HIDE DEF D
<1>2. q # <<>> /\ Tail(q) \in Seq(D) /\ Len(Tail(q)) = CL - 1
  BY <1>1
<1>3. pop(q, CL) = Append(Tail(q), Null)
  BY <1>1, <1>2 DEF pop, push
<1>4. /\ pop(q, CL) \in Seq(D) /\ Len(pop(q, CL)) = CL
      /\ pop(q, CL) # <<>> /\ pop(q, CL)[CL] = Null
  BY <1>1, <1>2, <1>3
<1>5. ASSUME NEW x \in D
      PROVE  push(pop(q, CL), x, CL) \in Seq(D) /\ Len(push(pop(q, CL), x, CL)) = CL
  <2>1. push(pop(q, CL), x, CL) = [pop(q, CL) EXCEPT ![CL] = x]
    BY <1>1, <1>4 DEF push
  <2>. QED
    BY <1>1, <1>4, <2>1
<1>. QED
  BY <1>4, <1>5 DEF D

\* A sequence is empty exactly when its length is 0.
LEMMA NonEmpty ==
  ASSUME NEW S, NEW q \in Seq(S), q # <<>>
  PROVE  Len(q) \in Nat \ {0} /\ Head(q) \in S /\ Tail(q) \in Seq(S) /\ Len(Tail(q)) = Len(q) - 1
BY EmptySeq, HeadTailProperties
-----------------------------------------------------------------------------
(* One lemma per action.                                                     *)

\* The fields of a request and the constants have their types.
LEMMA Fields ==
  /\ NumSlices \in Nat \ {0} /\ CL \in Nat \ {0} /\ ReturnSize \in Nat \ {0} /\ QueueLen \in Nat \ {0}
  /\ MissLatency \in Nat
  /\ 0 \in Slices
  /\ \A r \in Request : l2_id(r) \in Slices /\ From(r) \in Slices /\ Number(r) \in Nat \ {0}
BY DramAssumption DEF Slices, Request, l2_id, From, Number

\* The initial state: empty queues and a delay line of CL Nulls.
LEMMA InitInv == Init => Inv
<1>. SUFFICES ASSUME Init PROVE Inv
  OBVIOUS
<1>1. rwq \in Seq(Request \cup {Null}) /\ Len(rwq) = CL
  <2>1. rwq = [i \in 1 .. CL |-> Null] /\ CL \in Nat
    BY Fields DEF Init, fifo_pipeline
  <2>. QED
    BY <2>1
<1>2. TypeOK
  BY <1>1, Fields DEF Init, TypeOK, Slices
<1>3. StageInv
  BY DEF Init, StageInv
<1>4. SimpleInv
  BY DEF Init, SimpleInv
<1>. QED
  BY <1>1, <1>2, <1>3, <1>4 DEF Inv, Init

\* Return (cache.cpp:669-676): the slices' queues are empty, so the return queue
\* loses its only request, if it has one.
LEMMA ReturnInv == Inv /\ Return => Inv'
<1>. SUFFICES ASSUME Inv, Return PROVE Inv'
  OBVIOUS
<1>1. CASE HeadReturns
  <2>. DEFINE r == Head(returnq)
              t == l2_id(r)
  <2>1. returnq # <<>> /\ returnq \in Seq(Request) /\ r \in Request
    BY <1>1, HeadTailProperties DEF HeadReturns, Inv, TypeOK
  <2>2. t \in Slices
    BY <2>1, Fields
  <2>3. dram_L2[t] \in Seq(Request) /\ Len(dram_L2[t]) = 0
    BY <2>2 DEF Inv, TypeOK, StageInv, Return, At
  <2>4. /\ dram_L2' = [dram_L2 EXCEPT ![t] = push(dram_L2[t], r, 0)]
        /\ returnq' = pop(returnq, 0)
    BY <1>1 DEF Return
  <2>. HIDE DEF r, t
  <2>5. push(dram_L2[t], r, 0) \in Seq(Request) /\ Len(push(dram_L2[t], r, 0)) <= 1
    <3>1. /\ push(dram_L2[t], r, 0) \in Seq(Request)
          /\ Len(push(dram_L2[t], r, 0)) <= Len(dram_L2[t]) + 1
      BY <2>1, <2>3, RequestQueue
    <3>2. Len(push(dram_L2[t], r, 0)) \in Nat
      BY <3>1, LenProperties
    <3>. QED
      BY <2>3, <3>1, <3>2
  <2>6. returnq' \in Seq(Request) /\ Len(returnq') = 0
    BY <2>1, <2>4, RequestQueue DEF Inv, StageInv
  <2>7. dram_L2' \in [Slices -> Seq(Request)]
    BY <2>2, <2>4, <2>5 DEF Inv, TypeOK
  <2>8. \A s \in Slices : Len(dram_L2'[s]) <= 1
    BY <2>2, <2>4, <2>5 DEF Inv, TypeOK, StageInv
  <2>9. TypeOK'
    BY <2>6, <2>7 DEF Inv, TypeOK, Return, At, model
  <2>10. StageInv'
    BY <2>6, <2>8 DEF Inv, StageInv, Return, At
  <2>. QED
    BY <2>9, <2>10 DEF Inv, SimpleInv, Return, model
<1>2. CASE ~HeadReturns
  <2>1. UNCHANGED <<dram_L2, returnq>>
    BY <1>2 DEF Return
  <2>2. Len(returnq) = 0
    <3>1. CASE returnq = <<>>
      BY <3>1
    <3>2. CASE returnq # <<>>
      <4>1. Head(returnq) \in Request
        BY <3>2, HeadTailProperties DEF Inv, TypeOK
      <4>2. Len(dram_L2[l2_id(Head(returnq))]) = 0
        BY <4>1, Fields DEF Inv, StageInv, Return, At
      <4>. QED
        BY <1>2, <3>2, <4>2, Fields DEF HeadReturns, full
    <3>. QED
      BY <3>1, <3>2
  <2>3. TypeOK'
    BY <2>1 DEF Inv, TypeOK, Return, At, model
  <2>4. StageInv'
    BY <2>1, <2>2 DEF Inv, StageInv, Return, At
  <2>. QED
    BY <2>3, <2>4 DEF Inv, SimpleInv, Return, model
<1>. QED
  BY <1>1, <1>2

\* dram_t::cycle (dram.cpp:85-114): the return queue is empty, so the delay line
\* always advances and always has a Null for the request that mrqq holds.
LEMMA CycleInv == Inv /\ Cycle => Inv'
<1>. SUFFICES ASSUME Inv, Cycle PROVE Inv'
  OBVIOUS
<1>. DEFINE D == Request \cup {Null}
<1>1. stage = "cycle" /\ stage' = "issue" /\ fault = "none" /\ Len(returnq) = 0
  BY DEF Cycle, At, Inv, StageInv
<1>2. ~full(returnq, ReturnSize)
  BY <1>1, Fields DEF full
<1>3. Drained = pop(rwq, CL)
  BY <1>2 DEF Drained
<1>4. rwq \in Seq(D) /\ Len(rwq) = CL /\ CL \in Nat \ {0} /\ Null \in D
  BY Fields DEF Inv, TypeOK
<1>5. Drained \in Seq(D) /\ Len(Drained) = CL
  BY <1>3, <1>4, RequestLine
<1>6. ASSUME NEW x \in D
      PROVE  push(Drained, x, CL) \in Seq(D) /\ Len(push(Drained, x, CL)) = CL
  BY <1>3, <1>4, RequestLine
<1>7. returnq' \in Seq(Request) /\ Len(returnq') <= 1
  <2>1. returnq \in Seq(Request)
    BY DEF Inv, TypeOK
  <2>2. CASE top(rwq) = Null
    BY <1>1, <2>1, <2>2 DEF Cycle
  <2>3. CASE top(rwq) # Null
    <3>1. rwq # <<>>
      BY <1>4
    <3>2. top(rwq) \in Request
      BY <1>4, <2>3, <3>1, NonEmpty DEF top
    <3>3. returnq' = push(returnq, top(rwq), 0)
      BY <1>2, <2>3 DEF Cycle
    <3>4. returnq' \in Seq(Request) /\ Len(returnq') <= Len(returnq) + 1
      BY <2>1, <3>2, <3>3, RequestQueue
    <3>. QED
      BY <1>1, <3>4
  <2>. QED
    BY <2>2, <2>3
<1>8. rwq' \in Seq(D) /\ Len(rwq') = CL /\ mrqq' \in Seq(Request) /\ Len(mrqq') = 0 /\ fault' = "none"
  <2>1. mrqq \in Seq(Request) /\ Len(mrqq) <= 1
    BY DEF Inv, TypeOK, StageInv
  <2>2. CASE mrqq = <<>>
    <3>1. rwq' = Drained /\ mrqq' = mrqq /\ fault' = fault
      BY <2>2 DEF Cycle
    <3>. QED
      BY <1>1, <1>5, <2>1, <2>2, <3>1
  <2>3. CASE mrqq # <<>>
    <3>1. /\ rwq' = push(Drained, top(mrqq), CL)
          /\ mrqq' = pop(mrqq, 0)
          /\ fault' = IF full(Drained, CL + 1) THEN "rwq" ELSE "none"
      BY <2>3 DEF Cycle
    <3>2. top(mrqq) \in D
      BY <2>1, <2>3, NonEmpty DEF top
    <3>3. rwq' \in Seq(D) /\ Len(rwq') = CL
      BY <1>6, <3>1, <3>2
    <3>4. mrqq' \in Seq(Request) /\ Len(mrqq') = 0
      BY <2>1, <3>1, RequestQueue
    <3>5. ~full(Drained, CL + 1)
      BY <1>4, <1>5 DEF full
    <3>. QED
      BY <3>1, <3>3, <3>4, <3>5
  <2>. QED
    BY <2>2, <2>3
<1>9. TypeOK'
  BY <1>1, <1>7, <1>8 DEF Inv, TypeOK, Cycle, model
<1>10. StageInv'
  BY <1>1, <1>7, <1>8 DEF Inv, StageInv, Cycle
<1>. QED
  BY <1>8, <1>9, <1>10 DEF Inv, SimpleInv, Cycle, model

\* The loop over the slices (cache.cpp:681-701) touches the latency queue and the
\* slices' queues, which have no bound.
LEMMA TakeRequestType ==
  ASSUME TypeOK, TakeRequest
  PROVE  dram_latency_queue' \in Seq(Request \X Nat) /\ L2_dram' \in [Slices -> Seq(Request)]
<1>0. dram_latency_queue \in Seq(Request \X Nat) /\ L2_dram \in [Slices -> Seq(Request)] /\ cycles \in Nat
  BY DEF TypeOK
<1>1. CASE UNCHANGED <<dram_latency_queue, L2_dram>>
  BY <1>0, <1>1
<1>2. CASE ~UNCHANGED <<dram_latency_queue, L2_dram>>
  <2>1. PICK s \in Slices :
          /\ FirstReady(s)
          /\ dram_latency_queue' =
               Append(dram_latency_queue,
                 <<<<From(Head(L2_dram[s])), Number(Head(L2_dram[s])), cycles, s>>, cycles + MissLatency>>)
          /\ L2_dram' = [L2_dram EXCEPT ![s] = pop(L2_dram[s], 0)]
    BY <1>2 DEF TakeRequest
  <2>2. Head(L2_dram[s]) \in Request /\ L2_dram[s] \in Seq(Request)
    BY <1>0, <2>1, NonEmpty DEF FirstReady, can_issue_to_dram
  <2>3. <<From(Head(L2_dram[s])), Number(Head(L2_dram[s])), cycles, s>> \in Request
    BY <1>0, <2>2, Fields DEF Request
  <2>4. cycles + MissLatency \in Nat
    BY <1>0, Fields
  <2>5. dram_latency_queue' \in Seq(Request \X Nat)
    <3>. DEFINE e == <<<<From(Head(L2_dram[s])), Number(Head(L2_dram[s])), cycles, s>>, cycles + MissLatency>>
    <3>1. e \in Request \X Nat
      BY <2>3, <2>4
    <3>2. dram_latency_queue' = Append(dram_latency_queue, e)
      BY <2>1
    <3>. HIDE DEF e
    <3>. QED
      BY <1>0, <3>1, <3>2, AppendProperties
  <2>6. pop(L2_dram[s], 0) \in Seq(Request)
    BY <2>2, RequestQueue
  <2>7. L2_dram' \in [Slices -> Seq(Request)]
    BY <1>0, <2>1, <2>6
  <2>. QED
    BY <2>5, <2>7
<1>. QED
  BY <1>1, <1>2

\* Issue changes nothing else.
LEMMA IssueInv == Inv /\ Issue => Inv'
<1>. SUFFICES ASSUME Inv, Issue PROVE Inv'
  OBVIOUS
<1>1. stage = "issue" /\ stage' = "latency" /\ fault = "none"
  BY DEF Issue, At
<1>2. dram_latency_queue' \in Seq(Request \X Nat) /\ L2_dram' \in [Slices -> Seq(Request)]
  BY TakeRequestType DEF Inv, Issue
<1>3. TypeOK'
  BY <1>1, <1>2 DEF Inv, TypeOK, Issue, model
<1>4. StageInv'
  BY <1>1 DEF Inv, StageInv, Issue
<1>. QED
  BY <1>3, <1>4 DEF Inv, SimpleInv, Issue, model

\* dram_model_cycle's return (cache.cpp:583-602): the slices' queues are empty, and
\* one of them is given a request.
LEMMA SimpleReturnInv == Inv /\ SimpleReturn => Inv'
<1>. SUFFICES ASSUME Inv, SimpleReturn PROVE Inv'
  OBVIOUS
<1>1. /\ stage = "return" /\ stage' = "issue" /\ fault = "none"
      /\ UNCHANGED <<simple_dram_model, last_issued_partition, turn, cycles, L2_dram, mrqq, rwq,
                     returnq, sent, answered, fault>>
      /\ Len(mrqq) = 0
  BY DEF SimpleReturn, At, model, Inv, SimpleInv
<1>2. /\ dram_L2' \in [Slices -> Seq(Request)] /\ dram_latency_queue' \in Seq(Request \X Nat)
      /\ \A s \in Slices : Len(dram_L2'[s]) <= 1
  <2>0. dram_latency_queue \in Seq(Request \X Nat) /\ dram_L2 \in [Slices -> Seq(Request)]
    BY DEF Inv, TypeOK
  <2>1. CASE ~SimpleReady
    BY <2>0, <2>1 DEF SimpleReturn, Inv, StageInv
  <2>2. CASE SimpleReady
    <3>. DEFINE h == Head(dram_latency_queue)
                r == h[1]
                t == l2_id(r)
    <3>1. h \in Request \X Nat /\ Tail(dram_latency_queue) \in Seq(Request \X Nat)
      BY <2>0, <2>2, NonEmpty DEF SimpleReady
    <3>2. r \in Request /\ t \in Slices
      BY <3>1, Fields
    <3>3. /\ dram_L2' = [dram_L2 EXCEPT ![t] = push(dram_L2[t], r, 0)]
          /\ dram_latency_queue' = Tail(dram_latency_queue)
      BY <2>2 DEF SimpleReturn
    <3>. HIDE DEF h, r, t
    <3>4. dram_L2[t] \in Seq(Request) /\ Len(dram_L2[t]) = 0
      BY <1>1, <2>0, <3>2 DEF Inv, StageInv
    <3>5. /\ push(dram_L2[t], r, 0) \in Seq(Request)
          /\ Len(push(dram_L2[t], r, 0)) <= Len(dram_L2[t]) + 1
      BY <3>2, <3>4, RequestQueue
    <3>6. Len(push(dram_L2[t], r, 0)) <= 1
      BY <3>4, <3>5, LenProperties
    <3>7. \A s \in Slices : Len(dram_L2'[s]) <= 1
      BY <2>0, <3>2, <3>3, <3>6 DEF Inv, StageInv
    <3>. QED
      BY <2>0, <3>1, <3>2, <3>3, <3>5, <3>7
  <2>. QED
    BY <2>1, <2>2
<1>3. TypeOK'
  BY <1>1, <1>2 DEF Inv, TypeOK
<1>4. StageInv'
  BY <1>1, <1>2 DEF Inv, StageInv
<1>. QED
  BY <1>1, <1>3, <1>4 DEF Inv, SimpleInv

\* Its issue (cache.cpp:604-626) also moves last_issued_partition, to a slice.
LEMMA SimpleIssueInv == Inv /\ SimpleIssue => Inv'
<1>. SUFFICES ASSUME Inv, SimpleIssue PROVE Inv'
  OBVIOUS
<1>1. /\ stage = "issue" /\ stage' = "l2" /\ fault = "none" /\ turn' = 0
      /\ UNCHANGED <<simple_dram_model, cycles, mrqq, rwq, returnq, dram_L2, sent, answered, fault>>
  BY DEF SimpleIssue, At
<1>2. dram_latency_queue' \in Seq(Request \X Nat) /\ L2_dram' \in [Slices -> Seq(Request)]
  BY TakeRequestType DEF Inv, SimpleIssue
<1>3. last_issued_partition' \in Slices
  BY DEF SimpleIssue, Inv, TypeOK
<1>4. TypeOK'
  <2>1. turn' \in 0 .. NumSlices
    BY <1>1, DramAssumption
  <2>. QED
    BY <1>1, <1>2, <1>3, <2>1 DEF Inv, TypeOK
<1>5. StageInv'
  <2>1. \A s \in Slices : ~(s < 0)
    BY DramAssumption DEF Slices
  <2>. QED
    BY <1>1, <2>1 DEF Inv, StageInv
<1>. QED
  BY <1>1, <1>4, <1>5 DEF Inv, SimpleInv

\* The latency queue (cache.cpp:703-711): mrqq was emptied by Cycle, so it has
\* room for one request.
LEMMA LatencyInv == Inv /\ Latency => Inv'
<1>. SUFFICES ASSUME Inv, Latency PROVE Inv'
  OBVIOUS
<1>1. stage = "latency" /\ stage' = "l2" /\ fault = "none" /\ turn' = 0
  BY DEF Latency, At
<1>2. /\ mrqq \in Seq(Request) /\ Len(mrqq) = 0
      /\ dram_latency_queue \in Seq(Request \X Nat)
  BY <1>1 DEF Inv, TypeOK, StageInv
<1>3. /\ mrqq' \in Seq(Request) /\ Len(mrqq') <= 1
      /\ dram_latency_queue' \in Seq(Request \X Nat)
  <2>1. CASE ~HeadReady
    <3>1. mrqq' = mrqq /\ dram_latency_queue' = dram_latency_queue
      BY <2>1 DEF Latency
    <3>. QED
      BY <1>2, <3>1
  <2>2. CASE HeadReady
    <3>. DEFINE h == Head(dram_latency_queue)
    <3>1. dram_latency_queue # <<>>
      BY <2>2 DEF HeadReady
    <3>2. h \in Request \X Nat /\ Tail(dram_latency_queue) \in Seq(Request \X Nat)
      BY <1>2, <3>1, NonEmpty
    <3>3. mrqq' = push(mrqq, h[1], 0) /\ dram_latency_queue' = Tail(dram_latency_queue)
      BY <2>2 DEF Latency
    <3>. HIDE DEF h
    <3>4. h[1] \in Request
      BY <3>2
    <3>5. mrqq' \in Seq(Request) /\ Len(mrqq') <= Len(mrqq) + 1
      BY <1>2, <3>3, <3>4, RequestQueue
    <3>. QED
      BY <1>2, <3>2, <3>3, <3>5
  <2>. QED
    BY <2>1, <2>2
<1>4. TypeOK'
  <2>1. turn' \in 0 .. NumSlices
    BY <1>1, DramAssumption
  <2>. QED
    BY <1>1, <1>3, <2>1 DEF Inv, TypeOK, Latency, model
<1>5. StageInv'
  <2>1. \A s \in Slices : ~(s < 0)
    BY DramAssumption DEF Slices
  <2>. QED
    BY <1>1, <1>3, <2>1 DEF Inv, StageInv, Latency
<1>. QED
  BY <1>4, <1>5 DEF Inv, SimpleInv, Latency, model

\* l2_cache_cycle (cache.cpp:408-413, cache.h:586): the slice takes its only
\* answer, and whatever it sends goes to a queue the channel's bounds do not
\* depend on.
LEMMA L2CycleInv == Inv /\ L2Cycle => Inv'
<1>. SUFFICES ASSUME Inv, L2Cycle PROVE Inv'
  OBVIOUS
<1>1. stage = "l2" /\ stage' = "l2" /\ fault = "none" /\ turn \in Slices /\ turn' = turn + 1
  BY DEF L2Cycle
<1>2. /\ dram_L2 \in [Slices -> Seq(Request)] /\ L2_dram \in [Slices -> Seq(Request)]
      /\ sent \in [Slices -> Nat] /\ answered \in [Slices -> Nat]
  BY DEF Inv, TypeOK
<1>3. turn' \in 0 .. NumSlices
  BY <1>1, DramAssumption DEF Slices
<1>4. /\ dram_L2' = [dram_L2 EXCEPT ![turn] = pop(dram_L2[turn], 0)]
      /\ pop(dram_L2[turn], 0) \in Seq(Request) /\ Len(pop(dram_L2[turn], 0)) = 0
  BY <1>1, <1>2, RequestQueue DEF L2Cycle, Inv, StageInv
<1>5. dram_L2' \in [Slices -> Seq(Request)]
  BY <1>1, <1>2, <1>4
<1>6. answered' \in [Slices -> Nat]
  BY <1>1, <1>2 DEF L2Cycle
<1>7. /\ sent' \in [Slices -> Nat] /\ L2_dram' \in [Slices -> Seq(Request)]
      /\ fault' \in {"none", "L2_dram"}
  <2>1. CASE UNCHANGED <<sent, L2_dram, fault>>
    BY <1>1, <1>2, <2>1
  <2>2. CASE ~UNCHANGED <<sent, L2_dram, fault>>
    <3>. DEFINE r == <<turn, sent[turn] + 1, 0, 0>>
    <3>1. /\ sent' = [sent EXCEPT ![turn] = sent[turn] + 1]
          /\ L2_dram' = [L2_dram EXCEPT ![turn] = push(L2_dram[turn], r, 0)]
          /\ fault' = IF full(L2_dram[turn], QueueLen) THEN "L2_dram" ELSE "none"
      BY <2>2 DEF L2Cycle
    <3>2. sent[turn] + 1 \in Nat \ {0}
      BY <1>1, <1>2
    <3>3. r \in Request
      BY <1>1, <3>2, Fields DEF Request
    <3>. HIDE DEF r
    <3>4. push(L2_dram[turn], r, 0) \in Seq(Request)
      BY <1>1, <1>2, <3>3, RequestQueue
    <3>5. L2_dram' \in [Slices -> Seq(Request)]
      BY <1>1, <1>2, <3>1, <3>4
    <3>6. sent' \in [Slices -> Nat]
      BY <1>1, <1>2, <3>1, <3>2
    <3>. QED
      BY <3>1, <3>5, <3>6
  <2>. QED
    BY <2>1, <2>2
<1>8. TypeOK'
  BY <1>1, <1>3, <1>5, <1>6, <1>7 DEF Inv, TypeOK, L2Cycle, model
<1>9. \A s \in Slices : Len(dram_L2'[s]) <= 1 /\ (s < turn' => Len(dram_L2'[s]) = 0)
  <2>. SUFFICES ASSUME NEW s \in Slices PROVE Len(dram_L2'[s]) <= 1 /\ (s < turn' => Len(dram_L2'[s]) = 0)
    OBVIOUS
  <2>1. CASE s = turn
    <3>1. Len(dram_L2'[s]) = 0
      BY <1>1, <1>2, <1>4, <2>1
    <3>. QED
      BY <3>1
  <2>2. CASE s # turn
    <3>1. dram_L2'[s] = dram_L2[s]
      BY <1>2, <1>4, <2>2
    <3>2. s < turn' => s < turn
      BY <1>1, <2>2, DramAssumption DEF Slices
    <3>. QED
      BY <1>1, <3>1, <3>2 DEF Inv, StageInv
  <2>. QED
    BY <2>1, <2>2
<1>10. StageInv'
  BY <1>1, <1>9 DEF Inv, StageInv, L2Cycle
<1>. QED
  BY <1>7, <1>8, <1>10 DEF Inv, SimpleInv, L2Cycle, model

\* The next cycle (cache.cpp:715-728) begins when every slice has had its turn,
\* so with every slice's return queue empty.
LEMMA NextCycleInv == Inv /\ NextCycle => Inv'
<1>. SUFFICES ASSUME Inv, NextCycle PROVE Inv'
  OBVIOUS
<1>1. stage = "l2" /\ stage' = "return" /\ fault = "none" /\ turn = NumSlices /\ cycles' = cycles + 1
  BY DEF NextCycle, At
<1>2. UNCHANGED <<simple_dram_model, last_issued_partition, turn, L2_dram, dram_latency_queue, mrqq, rwq, returnq, dram_L2, sent, answered, fault>>
  BY DEF NextCycle, queues, model
<1>3. TypeOK'
  BY <1>1, <1>2 DEF Inv, TypeOK
<1>4. \A s \in Slices : Len(dram_L2[s]) = 0
  <2>1. \A s \in Slices : s < turn
    BY <1>1, DramAssumption DEF Slices
  <2>. QED
    BY <1>1, <2>1 DEF Inv, StageInv
<1>5. StageInv'
  BY <1>1, <1>2, <1>4 DEF Inv, StageInv
<1>. QED
  BY <1>1, <1>2, <1>3, <1>5 DEF Inv, SimpleInv

\* Inv is inductive.
LEMMA NextInv == Inv /\ [Next]_vars => Inv'
<1>. SUFFICES ASSUME Inv, [Next]_vars PROVE Inv'
  OBVIOUS
<1>1. CASE Return
  BY <1>1, ReturnInv
<1>2. CASE Cycle
  BY <1>2, CycleInv
<1>3. CASE Issue
  BY <1>3, IssueInv
<1>4. CASE Latency
  BY <1>4, LatencyInv
<1>5. CASE L2Cycle
  BY <1>5, L2CycleInv
<1>6. CASE NextCycle
  BY <1>6, NextCycleInv
<1>7. CASE SimpleReturn
  BY <1>7, SimpleReturnInv
<1>8. CASE SimpleIssue
  BY <1>8, SimpleIssueInv
<1>9. CASE UNCHANGED vars
  BY <1>9 DEF Inv, TypeOK, StageInv, SimpleInv, vars, queues, model
<1>. QED
  BY <1>1, <1>2, <1>3, <1>4, <1>5, <1>6, <1>7, <1>8, <1>9 DEF Next, Step, Terminated
-----------------------------------------------------------------------------
(* The latency of a request.                                                *)

\* Whether the DRAM's cycle, and the latency queue, have had their turn.
Advanced == stage \in {"issue", "latency", "l2"}

\* When an entry of the latency queue is to leave it.
Due(e) == IssuedAt(e[1]) + IF simple_dram_model THEN Delay ELSE MissLatency

\* Requests are issued one a cycle, in the order of the latency queue, and none
\* is overdue.
QueueAge ==
  LET q == dram_latency_queue IN
    /\ \A i \in DOMAIN q : /\ q[i][2] = IssuedAt(q[i][1]) + MissLatency
                           /\ IssuedAt(q[i][1]) <= cycles
                           /\ stage \in {"return", "cycle", "issue"} => IssuedAt(q[i][1]) < cycles
                           /\ Due(q[i]) >= cycles
                           /\ stage = "l2" \/ (simple_dram_model /\ Advanced) => Due(q[i]) > cycles
    /\ \A i, j \in DOMAIN q : i < j => IssuedAt(q[i][1]) < IssuedAt(q[j][1])

\* Beyond it a request's age is its position.
now == IF Advanced THEN cycles ELSE cycles - 1

LineAge ==
  /\ \A i \in DOMAIN mrqq : IssuedAt(mrqq[i]) + MissLatency = now
  /\ \A i \in DOMAIN rwq : rwq[i] # Null => IssuedAt(rwq[i]) + MissLatency + 1 + (CL - i) = now
  /\ \A i \in DOMAIN returnq : IssuedAt(returnq[i]) + MissLatency + CL + 1 = now

\* The simple model leaves the delay line as it was built.
LineUnused == simple_dram_model => \A i \in DOMAIN rwq : rwq[i] = Null

AgeInv == QueueAge /\ LineAge /\ LineUnused /\ ConstantLatency

LEMMA DelayFacts ==
  /\ ~simple_dram_model => Delay = MissLatency + CL + 2
  /\ simple_dram_model /\ MissLatency > 0 => Delay = MissLatency
  /\ simple_dram_model /\ ~(MissLatency > 0) => Delay = 1
BY Zenon DEF Delay

LEMMA DelayIsNat ==
  ASSUME simple_dram_model \in BOOLEAN
  PROVE  /\ Delay \in Nat \ {0} /\ MissLatency \in Nat /\ CL \in Nat \ {0}
         /\ UNCHANGED simple_dram_model => Delay' = Delay
<1>1. MissLatency \in Nat /\ CL \in Nat \ {0}
  BY Fields
<1>2. Delay \in Nat \ {0}
  BY <1>1, DelayFacts
<1>3. UNCHANGED simple_dram_model => Delay' = Delay
  BY DEF Delay
<1>. QED
  BY <1>1, <1>2, <1>3

\* A queue that holds at most one request, which pop takes and push brings.
LEMMA SingleQueue ==
  /\ \A q \in Seq(Request), x \in Request : Len(q) = 0 => push(q, x, 0) = <<x>>
  /\ \A q \in Seq(Request) : Len(q) <= 1 => pop(q, 0) = <<>>
<1>1. ASSUME NEW q \in Seq(Request), NEW x \in Request, Len(q) = 0
      PROVE  push(q, x, 0) = <<x>>
  <2>1. q = <<>>
    BY <1>1
  <2>2. push(q, x, 0) = Append(q, x)
    BY <2>1 DEF push
  <2>. QED
    BY <2>1, <2>2
<1>2. ASSUME NEW q \in Seq(Request), Len(q) <= 1
      PROVE  pop(q, 0) = <<>>
  <2>1. pop(q, 0) \in Seq(Request) /\ Len(pop(q, 0)) = 0
    BY <1>2, RequestQueue
  <2>. QED
    BY <2>1, EmptySeq
<1>. QED
  BY <1>1, <1>2

\* The delay line moves every request one position on, and the last is new.
LEMMA LineMoves ==
  ASSUME NEW q \in Seq(Request \cup {Null}), Len(q) = CL
  PROVE  /\ \A i \in 1 .. CL : pop(q, CL)[i] = IF i < CL THEN q[i + 1] ELSE Null
         /\ \A x \in Request \cup {Null} : \A i \in 1 .. CL :
              push(pop(q, CL), x, CL)[i] = IF i < CL THEN q[i + 1] ELSE x
<1>. DEFINE D == Request \cup {Null}
<1>1. Null \in D /\ CL \in Nat \ {0} /\ q \in Seq(D)
  BY DramAssumption
<1>. HIDE DEF D
<1>2. q # <<>> /\ Tail(q) \in Seq(D) /\ Len(Tail(q)) = CL - 1 /\ \A i \in 1 .. (CL - 1) : Tail(q)[i] = q[i + 1]
  BY <1>1
<1>3. pop(q, CL) = Append(Tail(q), Null)
  BY <1>1, <1>2 DEF pop, push
<1>4. /\ pop(q, CL) \in Seq(D) /\ Len(pop(q, CL)) = CL /\ pop(q, CL) # <<>>
      /\ \A i \in 1 .. CL : pop(q, CL)[i] = IF i < CL THEN q[i + 1] ELSE Null
  BY <1>1, <1>2, <1>3
<1>5. ASSUME NEW x \in D
      PROVE  \A i \in 1 .. CL : push(pop(q, CL), x, CL)[i] = IF i < CL THEN q[i + 1] ELSE x
  <2>1. push(pop(q, CL), x, CL) = [pop(q, CL) EXCEPT ![CL] = x]
    BY <1>1, <1>4 DEF push
  <2>. QED
    BY <1>1, <1>4, <2>1
<1>. QED
  BY <1>4, <1>5 DEF D

\* Times are numbers.
LEMMA AgeTypes ==
  ASSUME Inv
  PROVE  /\ cycles \in Nat /\ now \in Int
         /\ Delay \in Nat \ {0} /\ MissLatency \in Nat /\ CL \in Nat \ {0}
         /\ \A r \in Request : IssuedAt(r) \in Nat
         /\ dram_latency_queue \in Seq(Request \X Nat)
         /\ \A i \in DOMAIN dram_latency_queue :
              /\ dram_latency_queue[i][1] \in Request /\ dram_latency_queue[i][2] \in Nat
              /\ IssuedAt(dram_latency_queue[i][1]) \in Nat /\ i \in Nat
         /\ mrqq \in Seq(Request) /\ returnq \in Seq(Request) /\ rwq \in Seq(Request \cup {Null})
         /\ DOMAIN rwq = 1 .. CL
         /\ dram_L2 \in [Slices -> Seq(Request)]
         /\ simple_dram_model \in BOOLEAN
<1>0. TypeOK /\ Len(rwq) = CL
  BY DEF Inv
<1>1. cycles \in Nat /\ now \in Int
  BY <1>0 DEF TypeOK, now
<1>2. simple_dram_model \in BOOLEAN
  BY <1>0 DEF TypeOK
<1>3. Delay \in Nat \ {0} /\ MissLatency \in Nat /\ CL \in Nat \ {0}
  BY <1>2, DelayIsNat
<1>4. \A r \in Request : IssuedAt(r) \in Nat
  BY DEF Request, IssuedAt
<1>5. /\ mrqq \in Seq(Request) /\ returnq \in Seq(Request) /\ rwq \in Seq(Request \cup {Null})
      /\ dram_latency_queue \in Seq(Request \X Nat)
      /\ dram_L2 \in [Slices -> Seq(Request)]
  BY <1>0 DEF TypeOK
<1>6. DOMAIN rwq = 1 .. CL
  BY <1>0, <1>5
<1>7. \A i \in DOMAIN dram_latency_queue : dram_latency_queue[i] \in Request \X Nat /\ i \in Nat
  BY <1>5
<1>8. \A i \in DOMAIN dram_latency_queue :
        /\ dram_latency_queue[i][1] \in Request /\ dram_latency_queue[i][2] \in Nat
        /\ IssuedAt(dram_latency_queue[i][1]) \in Nat /\ i \in Nat
  BY <1>4, <1>7
<1>. QED
  BY <1>1, <1>2, <1>3, <1>4, <1>5, <1>6, <1>8

\* A request that returns is as old as its way is long.
LEMMA ReturnAge == Inv /\ AgeInv /\ Return => AgeInv'
<1>. SUFFICES ASSUME Inv, AgeInv, Return PROVE AgeInv'
  OBVIOUS
<1>0. QueueAge /\ LineAge /\ LineUnused /\ ConstantLatency
  BY DEF AgeInv
<1>1. /\ stage = "return" /\ stage' = "cycle" /\ ~simple_dram_model
      /\ UNCHANGED <<simple_dram_model, cycles, dram_latency_queue, mrqq, rwq>>
  BY DEF Return, At, model
<1>t. /\ cycles \in Nat /\ now \in Int /\ MissLatency \in Nat /\ CL \in Nat \ {0}
      /\ \A r \in Request : IssuedAt(r) \in Nat
      /\ returnq \in Seq(Request) /\ dram_L2 \in [Slices -> Seq(Request)]
  BY AgeTypes
<1>n. now = cycles - 1 /\ now' = now /\ Delay' = Delay /\ Delay = MissLatency + CL + 2
  BY <1>1, DelayFacts DEF now, Advanced, Delay
<1>2. QueueAge'
  BY <1>0, <1>1, <1>n DEF QueueAge, Due, Advanced
<1>3. (\A s \in Slices : dram_L2[s] = <<>>) /\ Len(returnq) <= 1
  <2>1. \A s \in Slices : dram_L2[s] \in Seq(Request) /\ Len(dram_L2[s]) = 0
    BY <1>1, <1>t DEF Inv, StageInv
  <2>. QED
    BY <2>1 DEF Inv, StageInv
<1>4. CASE HeadReturns
  <2>. DEFINE r == Head(returnq)
              t == l2_id(r)
  <2>1. returnq # <<>> /\ r \in Request /\ r = returnq[1] /\ 1 \in DOMAIN returnq
    BY <1>4, <1>t DEF HeadReturns
  <2>2. t \in Slices
    BY <2>1, Fields
  <2>3. /\ dram_L2' = [dram_L2 EXCEPT ![t] = push(dram_L2[t], r, 0)]
        /\ returnq' = pop(returnq, 0)
    BY <1>4 DEF Return
  <2>4. returnq' = <<>>
    BY <1>3, <1>t, <2>3, SingleQueue
  <2>5. IssuedAt(r) + MissLatency + CL + 1 = now /\ IssuedAt(r) \in Nat
    BY <1>0, <1>t, <2>1 DEF LineAge
  <2>. HIDE DEF r, t
  <2>6. push(dram_L2[t], r, 0) = <<r>>
    BY <1>3, <1>t, <2>1, <2>2, SingleQueue
  <2>7. \A s \in Slices : dram_L2'[s] = IF s = t THEN <<r>> ELSE <<>>
    BY <1>3, <1>t, <2>2, <2>3, <2>6
  <2>8. cycles = IssuedAt(r) + Delay
    <3>1. IssuedAt(r) \in Nat /\ MissLatency \in Nat /\ CL \in Nat /\ cycles \in Nat
      BY <1>t, <2>5
    <3>2. IssuedAt(r) + MissLatency + CL + 1 = cycles - 1 /\ Delay = MissLatency + CL + 2
      BY <1>n, <2>5
    <3>. QED
      BY <3>1, <3>2
  <2>9. ConstantLatency'
    BY <1>1, <1>n, <2>7, <2>8 DEF ConstantLatency
  <2>10. LineAge'
    BY <1>0, <1>1, <1>n, <2>4 DEF LineAge
  <2>. QED
    BY <1>0, <1>1, <1>2, <2>9, <2>10 DEF AgeInv, LineUnused
<1>5. CASE ~HeadReturns
  <2>1. UNCHANGED <<dram_L2, returnq>>
    BY <1>5 DEF Return
  <2>2. LineAge'
    BY <1>0, <1>1, <1>n, <2>1 DEF LineAge
  <2>3. ConstantLatency'
    BY <1>0, <1>1, <1>n, <2>1 DEF ConstantLatency
  <2>. QED
    BY <1>0, <1>1, <1>2, <2>2, <2>3 DEF AgeInv, LineUnused
<1>. QED
  BY <1>4, <1>5

\* The delay line advances in every cycle.
LEMMA CycleAge == Inv /\ AgeInv /\ Cycle => AgeInv'
<1>. SUFFICES ASSUME Inv, AgeInv, Cycle PROVE AgeInv'
  OBVIOUS
<1>0. QueueAge /\ LineAge /\ LineUnused /\ ConstantLatency
  BY DEF AgeInv
<1>1. /\ stage = "cycle" /\ stage' = "issue" /\ ~simple_dram_model
      /\ UNCHANGED <<simple_dram_model, cycles, dram_latency_queue, dram_L2>>
  BY DEF Cycle, At, model
<1>t. /\ cycles \in Nat /\ now \in Int /\ MissLatency \in Nat /\ CL \in Nat \ {0}
      /\ \A r \in Request : IssuedAt(r) \in Nat
      /\ mrqq \in Seq(Request) /\ returnq \in Seq(Request)
      /\ rwq \in Seq(Request \cup {Null}) /\ DOMAIN rwq = 1 .. CL /\ Len(rwq) = CL
  BY AgeTypes DEF Inv
<1>n. now = cycles - 1 /\ now' = cycles /\ Delay' = Delay
  BY <1>1 DEF now, Advanced, Delay
<1>2. QueueAge'
  BY <1>0, <1>1, <1>n DEF QueueAge, Due, Advanced
<1>3. ConstantLatency'
  BY <1>0, <1>1, <1>n DEF ConstantLatency
<1>4. Len(returnq) = 0 /\ Len(mrqq) <= 1 /\ ~full(returnq, ReturnSize)
  BY <1>1, Fields DEF Inv, StageInv, full
<1>5. Drained = pop(rwq, CL)
  BY <1>4 DEF Drained
<1>6. ASSUME NEW i \in DOMAIN returnq'
      PROVE  IssuedAt(returnq'[i]) + MissLatency + CL + 1 = cycles
  <2>1. CASE top(rwq) = Null
    <3>1. returnq' = <<>>
      BY <1>4, <1>t, <2>1 DEF Cycle
    <3>. QED
      BY <1>6, <3>1
  <2>2. CASE top(rwq) # Null
    <3>1. top(rwq) = rwq[1] /\ 1 \in DOMAIN rwq /\ rwq[1] \in Request /\ rwq[1] # Null
      BY <1>t, <2>2 DEF top
    <3>2. returnq' = push(returnq, rwq[1], 0)
      BY <1>4, <2>2, <3>1 DEF Cycle
    <3>3. returnq' = <<rwq[1]>>
      BY <1>4, <1>t, <3>1, <3>2, SingleQueue
    <3>4. IssuedAt(rwq[1]) + MissLatency + 1 + (CL - 1) = now /\ IssuedAt(rwq[1]) \in Nat
      BY <1>0, <1>t, <3>1 DEF LineAge
    <3>5. returnq'[i] = rwq[1]
      BY <1>6, <3>3
    <3>6. cycles \in Nat /\ CL \in Nat /\ MissLatency \in Nat /\ now = cycles - 1
      BY <1>n, <1>t
    <3>7. IssuedAt(rwq[1]) + MissLatency + CL + 1 = cycles
      BY <3>4, <3>6
    <3>. QED
      BY <3>5, <3>7
  <2>. QED
    BY <2>1, <2>2
<1>7. /\ mrqq' = <<>> /\ DOMAIN rwq' = 1 .. CL
      /\ \A i \in 1 .. CL : rwq'[i] # Null => IssuedAt(rwq'[i]) + MissLatency + 1 + (CL - i) = cycles
  <2>0. ASSUME NEW i \in 1 .. CL, i < CL, rwq[i + 1] # Null
        PROVE  IssuedAt(rwq[i + 1]) + MissLatency + 1 + (CL - i) = cycles
    <3>. DEFINE k == i + 1
    <3>1. k \in DOMAIN rwq /\ k \in Nat /\ i = k - 1
      BY <1>t, <2>0
    <3>. HIDE DEF k
    <3>2. rwq[k] # Null
      BY <2>0 DEF k
    <3>3. rwq[k] \in Request
      BY <1>t, <3>1, <3>2
    <3>4. IssuedAt(rwq[k]) + MissLatency + 1 + (CL - k) = now
      BY <1>0, <3>1, <3>2 DEF LineAge
    <3>5. IssuedAt(rwq[k]) \in Nat /\ MissLatency \in Nat /\ CL \in Nat /\ cycles \in Nat
      BY <1>t, <3>3
    <3>6. IssuedAt(rwq[k]) + MissLatency + 1 + (CL - i) = cycles
      BY <1>n, <3>1, <3>4, <3>5
    <3>. QED
      BY <3>6 DEF k
  <2>1. CASE mrqq = <<>>
    <3>1. rwq' = pop(rwq, CL) /\ mrqq' = <<>>
      BY <1>5, <2>1 DEF Cycle
    <3>2. rwq' \in Seq(Request \cup {Null}) /\ Len(rwq') = CL
      BY <1>t, <3>1, RequestLine
    <3>3. \A i \in 1 .. CL : rwq'[i] = IF i < CL THEN rwq[i + 1] ELSE Null
      BY <1>t, <3>1, LineMoves
    <3>. QED
      BY <2>0, <3>1, <3>2, <3>3
  <2>2. CASE mrqq # <<>>
    <3>. DEFINE x == Head(mrqq)
    <3>1. x \in Request /\ x = mrqq[1] /\ 1 \in DOMAIN mrqq /\ top(mrqq) = x
      BY <1>t, <2>2 DEF top
    <3>2. rwq' = push(pop(rwq, CL), x, CL) /\ mrqq' = pop(mrqq, 0)
      BY <1>5, <2>2, <3>1 DEF Cycle
    <3>3. mrqq' = <<>>
      BY <1>4, <1>t, <3>2, SingleQueue
    <3>4. IssuedAt(x) + MissLatency = now /\ IssuedAt(x) \in Nat
      BY <1>0, <1>t, <3>1 DEF LineAge
    <3>. HIDE DEF x
    <3>5. rwq' \in Seq(Request \cup {Null}) /\ Len(rwq') = CL
      BY <1>t, <3>1, <3>2, RequestLine
    <3>6. \A i \in 1 .. CL : rwq'[i] = IF i < CL THEN rwq[i + 1] ELSE x
      BY <1>t, <3>1, <3>2, LineMoves
    <3>7. ASSUME NEW i \in 1 .. CL, rwq'[i] # Null
          PROVE  IssuedAt(rwq'[i]) + MissLatency + 1 + (CL - i) = cycles
      <4>1. CASE i < CL
        BY <2>0, <3>6, <3>7, <4>1
      <4>2. CASE ~(i < CL)
        <5>1. i = CL /\ rwq'[i] = x
          BY <1>t, <3>6, <4>2
        <5>. QED
          BY <1>n, <1>t, <3>4, <5>1
      <4>. QED
        BY <4>1, <4>2
    <3>. QED
      BY <3>3, <3>5, <3>7
  <2>. QED
    BY <2>1, <2>2
<1>8. LineAge'
  BY <1>6, <1>7, <1>n DEF LineAge
<1>9. LineUnused'
  BY <1>1 DEF LineUnused
<1>. QED
  BY <1>2, <1>3, <1>8, <1>9 DEF AgeInv

\* At most one request is issued, later than all before it.
LEMMA TakeAge ==
  ASSUME Inv, AgeInv, TakeRequest, stage = "issue", stage' \in {"latency", "l2"},
         stage' = "l2" => simple_dram_model,
         UNCHANGED <<simple_dram_model, cycles, mrqq, rwq, returnq, dram_L2>>
  PROVE  AgeInv'
<1>. DEFINE q == dram_latency_queue
<1>0. QueueAge /\ LineAge /\ LineUnused /\ ConstantLatency
  BY DEF AgeInv
<1>t. /\ cycles \in Nat /\ Delay \in Nat \ {0} /\ MissLatency \in Nat
      /\ q \in Seq(Request \X Nat)
      /\ \A i \in DOMAIN q : IssuedAt(q[i][1]) \in Nat
  BY AgeTypes
<1>n. now' = now /\ Delay' = Delay
  BY DEF now, Advanced, Delay
<1>1. LineAge' /\ LineUnused' /\ ConstantLatency'
  BY <1>0, <1>n DEF LineAge, LineUnused, ConstantLatency
<1>2. CASE UNCHANGED dram_latency_queue
  <2>1. QueueAge'
    BY <1>0, <1>2, <1>n DEF QueueAge, Due, Advanced
  <2>. QED
    BY <1>1, <2>1 DEF AgeInv
<1>3. CASE ~UNCHANGED dram_latency_queue
  <2>1. PICK s \in Slices :
          dram_latency_queue' =
               Append(dram_latency_queue,
                 <<<<From(Head(L2_dram[s])), Number(Head(L2_dram[s])), cycles, s>>, cycles + MissLatency>>)
    BY <1>3 DEF TakeRequest
  <2>. DEFINE e == <<<<From(Head(L2_dram[s])), Number(Head(L2_dram[s])), cycles, s>>, cycles + MissLatency>>
              p == dram_latency_queue'
              n == Len(q) + 1
  <2>2. IssuedAt(e[1]) = cycles /\ e[2] = cycles + MissLatency
    BY DEF IssuedAt
  <2>3. p = Append(q, e)
    BY <2>1
  <2>. HIDE DEF e
  <2>4. /\ DOMAIN p = 1 .. n /\ p[n] = e
        /\ \A i \in DOMAIN p : i = n \/ (i \in DOMAIN q /\ p[i] = q[i] /\ i < n)
        /\ n \in Nat
    BY <1>t, <2>3
  <2>. HIDE DEF p, n, q
  <2>5. \A i \in DOMAIN p : i \in Nat
    BY <2>4
  <2>6. \A i \in DOMAIN q : /\ q[i][2] = IssuedAt(q[i][1]) + MissLatency
                            /\ IssuedAt(q[i][1]) < cycles
                            /\ Due(q[i]) >= cycles
                            /\ simple_dram_model => Due(q[i]) > cycles
    BY <1>0 DEF QueueAge, Advanced, q
  <2>7. \A i, j \in DOMAIN q : i < j => IssuedAt(q[i][1]) < IssuedAt(q[j][1])
    BY <1>0 DEF QueueAge, q
  <2>8. \A i, j \in DOMAIN p : i < j => IssuedAt(p[i][1]) < IssuedAt(p[j][1])
    BY <2>2, <2>4, <2>5, <2>6, <2>7
  <2>9. Due(e) >= cycles /\ (simple_dram_model => Due(e) > cycles)
    BY <1>t, <2>2 DEF Due
  <2>10. \A i \in DOMAIN p : /\ p[i][2] = IssuedAt(p[i][1]) + MissLatency
                             /\ IssuedAt(p[i][1]) <= cycles
                             /\ Due(p[i]) >= cycles
                             /\ simple_dram_model => Due(p[i]) > cycles
    <3>1. cycles <= cycles
      BY <1>t
    <3>2. \A i \in DOMAIN q : IssuedAt(q[i][1]) <= cycles
      BY <1>t, <2>6 DEF q
    <3>. QED
      BY <2>2, <2>4, <2>6, <2>9, <3>1, <3>2
  <2>11. \A x : Due(x)' = Due(x)
    BY <1>n DEF Due, IssuedAt
  <2>12. QueueAge'
    BY <2>8, <2>10, <2>11 DEF QueueAge, p, Advanced, Due
  <2>. QED
    BY <1>1, <2>12 DEF AgeInv
<1>. QED
  BY <1>2, <1>3

\* An entry behind the head of the latency queue was issued later.
LEMMA BehindHead ==
  ASSUME Inv, QueueAge, dram_latency_queue # <<>>
  PROVE  LET q == dram_latency_queue
             p == Tail(dram_latency_queue)
         IN  /\ 1 \in DOMAIN q /\ Head(q) = q[1]
             /\ \A i \in DOMAIN p : /\ IssuedAt(q[1][1]) < IssuedAt(p[i][1])
                                    /\ IssuedAt(p[i][1]) \in Nat
                                    /\ p[i][2] = IssuedAt(p[i][1]) + MissLatency
                                    /\ IssuedAt(p[i][1]) <= cycles
                                    /\ stage = "return" => IssuedAt(p[i][1]) < cycles
             /\ \A i, j \in DOMAIN p : i < j => IssuedAt(p[i][1]) < IssuedAt(p[j][1])
<1>. DEFINE q == dram_latency_queue
            p == Tail(dram_latency_queue)
<1>1. q \in Seq(Request \X Nat) /\ \A i \in DOMAIN q : IssuedAt(q[i][1]) \in Nat
  BY AgeTypes
<1>2. /\ 1 \in DOMAIN q /\ Head(q) = q[1]
      /\ \A i \in DOMAIN p : i \in Nat /\ i + 1 \in DOMAIN q /\ p[i] = q[i + 1] /\ 1 < i + 1
  BY <1>1
<1>3. \A i \in DOMAIN q : /\ q[i][2] = IssuedAt(q[i][1]) + MissLatency
                          /\ IssuedAt(q[i][1]) <= cycles
                          /\ stage = "return" => IssuedAt(q[i][1]) < cycles
  BY DEF QueueAge
<1>4. \A i, j \in DOMAIN q : i < j => IssuedAt(q[i][1]) < IssuedAt(q[j][1])
  BY DEF QueueAge
<1>. HIDE DEF p, q
<1>5. \A i \in DOMAIN p : /\ IssuedAt(q[1][1]) < IssuedAt(p[i][1])
                          /\ IssuedAt(p[i][1]) \in Nat
                          /\ p[i][2] = IssuedAt(p[i][1]) + MissLatency
                          /\ IssuedAt(p[i][1]) <= cycles
                          /\ stage = "return" => IssuedAt(p[i][1]) < cycles
  BY <1>1, <1>2, <1>3, <1>4
<1>6. ASSUME NEW i \in DOMAIN p, NEW j \in DOMAIN p, i < j
      PROVE  IssuedAt(p[i][1]) < IssuedAt(p[j][1])
  <2>1. i + 1 < j + 1
    BY <1>2, <1>6
  <2>. QED
    BY <1>2, <1>4, <2>1
<1>. QED
  BY <1>2, <1>5, <1>6 DEF p, q

\* The head of the latency queue leaves it in the cycle it is due, and no other
\* is due in that cycle: mrqq, which Cycle emptied, has room.
LEMMA LatencyAge == Inv /\ AgeInv /\ Latency => AgeInv'
<1>. SUFFICES ASSUME Inv, AgeInv, Latency PROVE AgeInv'
  OBVIOUS
<1>. DEFINE q == dram_latency_queue
            p == dram_latency_queue'
<1>0. QueueAge /\ LineAge /\ LineUnused /\ ConstantLatency
  BY DEF AgeInv
<1>1. /\ stage = "latency" /\ stage' = "l2" /\ ~simple_dram_model
      /\ UNCHANGED <<simple_dram_model, cycles, rwq, returnq, dram_L2>>
  BY DEF Latency, At, model
<1>t. /\ cycles \in Nat /\ MissLatency \in Nat
      /\ q \in Seq(Request \X Nat) /\ mrqq \in Seq(Request)
      /\ \A i \in DOMAIN q : q[i][1] \in Request /\ IssuedAt(q[i][1]) \in Nat /\ i \in Nat
  BY AgeTypes
<1>n. now = cycles /\ now' = cycles /\ Delay' = Delay
  BY <1>1 DEF now, Advanced, Delay
<1>2. \A x : Due(x) = IssuedAt(x[1]) + MissLatency /\ Due(x)' = IssuedAt(x[1]) + MissLatency
  BY <1>1 DEF Due, IssuedAt
<1>3. Len(mrqq) = 0 /\ ~full(mrqq, MrqqLen)
  BY <1>1 DEF Inv, StageInv, full, MrqqLen
<1>4. \A i \in DOMAIN q : /\ q[i][2] = IssuedAt(q[i][1]) + MissLatency
                          /\ IssuedAt(q[i][1]) <= cycles
                          /\ IssuedAt(q[i][1]) + MissLatency >= cycles
  BY <1>0, <1>2 DEF QueueAge
<1>5. LineUnused' /\ ConstantLatency'
  BY <1>0, <1>1, <1>n DEF LineUnused, ConstantLatency
<1>6. CASE HeadReady
  <2>. DEFINE r == q[1][1]
  <2>1. q # <<>> /\ cycles >= Head(q)[2] /\ p = Tail(q) /\ mrqq' = push(mrqq, Head(q)[1], 0)
    BY <1>6 DEF HeadReady, Latency
  <2>2. /\ 1 \in DOMAIN q /\ Head(q) = q[1]
        /\ \A i \in DOMAIN p : /\ IssuedAt(r) < IssuedAt(p[i][1])
                               /\ IssuedAt(p[i][1]) \in Nat
                               /\ p[i][2] = IssuedAt(p[i][1]) + MissLatency
                               /\ IssuedAt(p[i][1]) <= cycles
        /\ \A i, j \in DOMAIN p : i < j => IssuedAt(p[i][1]) < IssuedAt(p[j][1])
    BY <1>0, <2>1, BehindHead
  <2>3. r \in Request /\ IssuedAt(r) \in Nat /\ mrqq' = <<r>>
    BY <1>3, <1>t, <2>1, <2>2, SingleQueue
  <2>4. IssuedAt(r) + MissLatency = cycles
    <3>1. cycles >= IssuedAt(r) + MissLatency /\ IssuedAt(r) + MissLatency >= cycles
      BY <1>4, <2>1, <2>2
    <3>. HIDE DEF r
    <3>. QED
      BY <1>t, <2>3, <3>1
  <2>. HIDE DEF r, p, q
  <2>5. \A i \in DOMAIN p : /\ IssuedAt(p[i][1]) + MissLatency >= cycles
                            /\ IssuedAt(p[i][1]) + MissLatency > cycles
    BY <1>t, <2>2, <2>3, <2>4
  <2>6. QueueAge'
    BY <1>1, <1>2, <2>2, <2>5 DEF QueueAge, p
  <2>7. LineAge'
    BY <1>0, <1>1, <1>n, <2>3, <2>4 DEF LineAge
  <2>. QED
    BY <1>5, <2>6, <2>7 DEF AgeInv
<1>7. CASE ~HeadReady
  <2>1. p = q /\ UNCHANGED mrqq
    BY <1>7 DEF Latency
  <2>2. ASSUME NEW i \in DOMAIN q
        PROVE  IssuedAt(q[i][1]) + MissLatency > cycles
    <3>1. q # <<>> /\ 1 \in DOMAIN q /\ Head(q) = q[1] /\ i >= 1
      BY <1>t, <2>2
    <3>2. ~(cycles >= q[1][2])
      BY <1>3, <1>7, <3>1 DEF HeadReady
    <3>3. IssuedAt(q[1][1]) <= IssuedAt(q[i][1])
      <4>1. CASE i = 1
        BY <1>t, <3>1, <4>1
      <4>2. CASE i # 1
        <5>1. 1 < i
          BY <1>t, <2>2, <3>1, <4>2
        <5>2. IssuedAt(q[1][1]) < IssuedAt(q[i][1])
          BY <1>0, <2>2, <3>1, <5>1 DEF QueueAge
        <5>. QED
          BY <1>t, <2>2, <3>1, <5>2
      <4>. QED
        BY <4>1, <4>2
    <3>4. q[1][2] = IssuedAt(q[1][1]) + MissLatency
      BY <1>4, <3>1
    <3>. QED
      BY <1>t, <2>2, <3>1, <3>2, <3>3, <3>4
  <2>3. \A i, j \in DOMAIN q : i < j => IssuedAt(q[i][1]) < IssuedAt(q[j][1])
    BY <1>0 DEF QueueAge
  <2>4. QueueAge'
    BY <1>1, <1>2, <1>4, <2>1, <2>2, <2>3 DEF QueueAge
  <2>5. LineAge'
    BY <1>0, <1>1, <1>n, <2>1 DEF LineAge
  <2>. QED
    BY <1>5, <2>4, <2>5 DEF AgeInv
<1>. QED
  BY <1>6, <1>7

\* In the simple model the head leaves in the cycle it is due, which is never the
\* one it was issued in.
LEMMA SimpleReturnAge == Inv /\ AgeInv /\ SimpleReturn => AgeInv'
<1>. SUFFICES ASSUME Inv, AgeInv, SimpleReturn PROVE AgeInv'
  OBVIOUS
<1>. DEFINE q == dram_latency_queue
            p == dram_latency_queue'
<1>0. QueueAge /\ LineAge /\ LineUnused /\ ConstantLatency
  BY DEF AgeInv
<1>1. /\ stage = "return" /\ stage' = "issue" /\ simple_dram_model
      /\ UNCHANGED <<simple_dram_model, cycles, mrqq, rwq, returnq>>
  BY DEF SimpleReturn, At, model
<1>t. /\ cycles \in Nat /\ MissLatency \in Nat /\ Delay \in Nat \ {0}
      /\ q \in Seq(Request \X Nat) /\ dram_L2 \in [Slices -> Seq(Request)]
      /\ mrqq \in Seq(Request) /\ returnq \in Seq(Request)
      /\ \A i \in DOMAIN q : q[i][1] \in Request /\ IssuedAt(q[i][1]) \in Nat /\ i \in Nat
  BY AgeTypes
<1>n. Delay' = Delay /\ (MissLatency > 0 => Delay = MissLatency) /\ (~(MissLatency > 0) => Delay = 1)
  BY <1>1, DelayFacts DEF Delay
<1>2. \A x : Due(x) = IssuedAt(x[1]) + Delay /\ Due(x)' = IssuedAt(x[1]) + Delay
  BY <1>1, <1>n DEF Due, IssuedAt
<1>3. \A s \in Slices : dram_L2[s] = <<>>
  <2>1. \A s \in Slices : dram_L2[s] \in Seq(Request) /\ Len(dram_L2[s]) = 0
    BY <1>1, <1>t DEF Inv, StageInv
  <2>. QED
    BY <2>1
<1>4. \A i \in DOMAIN q : /\ q[i][2] = IssuedAt(q[i][1]) + MissLatency
                          /\ IssuedAt(q[i][1]) < cycles
                          /\ IssuedAt(q[i][1]) + Delay >= cycles
  BY <1>0, <1>1, <1>2 DEF QueueAge
<1>5. LineUnused' /\ LineAge'
  <2>1. mrqq = <<>> /\ returnq = <<>>
    BY <1>1, <1>t DEF Inv, SimpleInv
  <2>2. \A i \in DOMAIN rwq : rwq[i] = Null
    BY <1>0, <1>1 DEF LineUnused
  <2>. QED
    BY <1>1, <2>1, <2>2 DEF LineUnused, LineAge
<1>6. CASE SimpleReady
  <2>. DEFINE r == q[1][1]
              t == l2_id(r)
  <2>1. q # <<>> /\ cycles >= Head(q)[2] /\ p = Tail(q)
    BY <1>6 DEF SimpleReady, SimpleReturn
  <2>2. /\ 1 \in DOMAIN q /\ Head(q) = q[1]
        /\ \A i \in DOMAIN p : /\ IssuedAt(r) < IssuedAt(p[i][1])
                               /\ IssuedAt(p[i][1]) \in Nat
                               /\ p[i][2] = IssuedAt(p[i][1]) + MissLatency
                               /\ IssuedAt(p[i][1]) <= cycles
                               /\ IssuedAt(p[i][1]) < cycles
        /\ \A i, j \in DOMAIN p : i < j => IssuedAt(p[i][1]) < IssuedAt(p[j][1])
    BY <1>0, <1>1, <2>1, BehindHead
  <2>3. r \in Request /\ IssuedAt(r) \in Nat /\ t \in Slices
    BY <1>t, <2>2, Fields
  <2>4. IssuedAt(r) + Delay = cycles
    <3>1. cycles >= IssuedAt(r) + MissLatency /\ IssuedAt(r) + Delay >= cycles /\ IssuedAt(r) < cycles
      BY <1>4, <2>1, <2>2
    <3>. HIDE DEF r
    <3>0. cycles \in Nat /\ MissLatency \in Nat /\ IssuedAt(r) \in Nat
      BY <1>t, <2>3
    <3>2. CASE MissLatency > 0
      <4>1. Delay = MissLatency
        BY <1>n, <3>2
      <4>. QED
        BY <3>0, <3>1, <4>1
    <3>3. CASE ~(MissLatency > 0)
      <4>1. Delay = 1
        BY <1>n, <3>3
      <4>. QED
        BY <3>0, <3>1, <4>1
    <3>. QED
      BY <3>2, <3>3
  <2>5. dram_L2' = [dram_L2 EXCEPT ![t] = push(dram_L2[t], r, 0)]
    BY <1>6, <2>2 DEF SimpleReturn
  <2>. HIDE DEF r, t, p, q
  <2>6. push(dram_L2[t], r, 0) = <<r>>
    BY <1>3, <1>t, <2>3, SingleQueue
  <2>7. \A s \in Slices : dram_L2'[s] = IF s = t THEN <<r>> ELSE <<>>
    BY <1>3, <1>t, <2>3, <2>5, <2>6
  <2>8. ConstantLatency'
    BY <1>1, <1>n, <2>4, <2>7 DEF ConstantLatency
  <2>9. \A i \in DOMAIN p : /\ IssuedAt(p[i][1]) + Delay >= cycles
                            /\ IssuedAt(p[i][1]) + Delay > cycles
    <3>. SUFFICES ASSUME NEW i \in DOMAIN p
                  PROVE  IssuedAt(p[i][1]) + Delay >= cycles /\ IssuedAt(p[i][1]) + Delay > cycles
      OBVIOUS
    <3>1. IssuedAt(r) < IssuedAt(p[i][1]) /\ IssuedAt(p[i][1]) \in Nat
      BY <2>2
    <3>2. cycles \in Nat /\ Delay \in Nat /\ IssuedAt(r) \in Nat
      BY <1>t, <2>3
    <3>. QED
      BY <2>4, <3>1, <3>2
  <2>10. QueueAge'
    BY <1>1, <1>2, <2>2, <2>9 DEF QueueAge, p
  <2>. QED
    BY <1>5, <2>8, <2>10 DEF AgeInv
<1>7. CASE ~SimpleReady
  <2>1. p = q /\ UNCHANGED dram_L2
    BY <1>7 DEF SimpleReturn
  <2>2. ASSUME NEW i \in DOMAIN q
        PROVE  IssuedAt(q[i][1]) + Delay > cycles
    <3>1. q # <<>> /\ 1 \in DOMAIN q /\ Head(q) = q[1] /\ i >= 1
      BY <1>t, <2>2
    <3>2. ~full(dram_L2[l2_id(q[1][1])], QueueLen)
      <4>1. l2_id(q[1][1]) \in Slices
        BY <1>t, <3>1, Fields
      <4>2. dram_L2[l2_id(q[1][1])] = <<>>
        BY <1>3, <4>1
      <4>. QED
        BY <4>2, DramAssumption DEF full
    <3>3. ~(cycles >= q[1][2])
      BY <1>7, <3>1, <3>2 DEF SimpleReady
    <3>4. IssuedAt(q[1][1]) <= IssuedAt(q[i][1])
      <4>1. CASE i = 1
        BY <1>t, <3>1, <4>1
      <4>2. CASE i # 1
        <5>1. 1 < i
          BY <1>t, <2>2, <3>1, <4>2
        <5>2. IssuedAt(q[1][1]) < IssuedAt(q[i][1])
          BY <1>0, <2>2, <3>1, <5>1 DEF QueueAge
        <5>. QED
          BY <1>t, <2>2, <3>1, <5>2
      <4>. QED
        BY <4>1, <4>2
    <3>5. q[1][2] = IssuedAt(q[1][1]) + MissLatency
      BY <1>4, <3>1
    <3>6. cycles \in Nat /\ MissLatency \in Nat /\ Delay \in Nat /\ MissLatency <= Delay
      <4>1. cycles \in Nat /\ MissLatency \in Nat /\ Delay \in Nat
        BY <1>t
      <4>. QED
        BY <1>n, <4>1
    <3>7. IssuedAt(q[1][1]) \in Nat /\ IssuedAt(q[i][1]) \in Nat
      BY <1>t, <2>2, <3>1
    <3>. HIDE DEF q
    <3>. QED
      BY <3>3, <3>4, <3>5, <3>6, <3>7
  <2>3. /\ \A i, j \in DOMAIN q : i < j => IssuedAt(q[i][1]) < IssuedAt(q[j][1])
        /\ \A i \in DOMAIN q : IssuedAt(q[i][1]) <= cycles
    BY <1>0 DEF QueueAge
  <2>4. QueueAge'
    BY <1>1, <1>2, <1>4, <2>1, <2>2, <2>3 DEF QueueAge
  <2>5. ConstantLatency'
    BY <1>0, <1>1, <1>n, <2>1 DEF ConstantLatency
  <2>. QED
    BY <1>5, <2>4, <2>5 DEF AgeInv
<1>. QED
  BY <1>6, <1>7

\* A slice takes its answer.
LEMMA L2CycleAge == Inv /\ AgeInv /\ L2Cycle => AgeInv'
<1>. SUFFICES ASSUME Inv, AgeInv, L2Cycle PROVE AgeInv'
  OBVIOUS
<1>0. QueueAge /\ LineAge /\ LineUnused /\ ConstantLatency
  BY DEF AgeInv
<1>1. /\ stage = "l2" /\ turn \in Slices
      /\ UNCHANGED <<stage, simple_dram_model, cycles, dram_latency_queue, mrqq, rwq, returnq>>
      /\ dram_L2' = [dram_L2 EXCEPT ![turn] = pop(dram_L2[turn], 0)]
  BY DEF L2Cycle, model
<1>n. now' = now /\ Delay' = Delay
  BY <1>1 DEF now, Advanced, Delay
<1>2. dram_L2 \in [Slices -> Seq(Request)] /\ \A s \in Slices : Len(dram_L2[s]) <= 1
  BY AgeTypes DEF Inv, StageInv
<1>3. pop(dram_L2[turn], 0) = <<>>
  BY <1>1, <1>2, SingleQueue
<1>4. \A s \in Slices : dram_L2'[s] = IF s = turn THEN <<>> ELSE dram_L2[s]
  BY <1>1, <1>2, <1>3
<1>5. ConstantLatency'
  BY <1>0, <1>1, <1>n, <1>4 DEF ConstantLatency
<1>6. QueueAge'
  BY <1>0, <1>1, <1>n DEF QueueAge, Due, Advanced
<1>7. LineAge' /\ LineUnused'
  BY <1>0, <1>1, <1>n DEF LineAge, LineUnused
<1>. QED
  BY <1>5, <1>6, <1>7 DEF AgeInv

\* A cycle ends with every slice's answer taken.
LEMMA NextCycleAge == Inv /\ AgeInv /\ NextCycle => AgeInv'
<1>. SUFFICES ASSUME Inv, AgeInv, NextCycle PROVE AgeInv'
  OBVIOUS
<1>. DEFINE q == dram_latency_queue
<1>0. QueueAge /\ LineAge /\ LineUnused /\ ConstantLatency
  BY DEF AgeInv
<1>1. /\ stage = "l2" /\ stage' = "return" /\ turn = NumSlices /\ cycles' = cycles + 1
      /\ UNCHANGED <<simple_dram_model, dram_latency_queue, mrqq, rwq, returnq, dram_L2>>
  BY DEF NextCycle, At, queues, model
<1>t. /\ cycles \in Nat /\ MissLatency \in Nat /\ Delay \in Nat \ {0}
      /\ dram_L2 \in [Slices -> Seq(Request)]
      /\ \A i \in DOMAIN q : IssuedAt(q[i][1]) \in Nat
  BY AgeTypes
<1>n. now' = now /\ Delay' = Delay
  BY <1>1, <1>t DEF now, Advanced, Delay
<1>2. \A s \in Slices : dram_L2[s] = <<>>
  <2>1. \A s \in Slices : s < turn
    BY <1>1, DramAssumption DEF Slices
  <2>2. \A s \in Slices : dram_L2[s] \in Seq(Request) /\ Len(dram_L2[s]) = 0
    BY <1>1, <1>t, <2>1 DEF Inv, StageInv
  <2>. QED
    BY <2>2
<1>3. ConstantLatency'
  BY <1>1, <1>2 DEF ConstantLatency
<1>4. LineAge' /\ LineUnused'
  BY <1>0, <1>1, <1>n DEF LineAge, LineUnused
<1>5. \A x : Due(x)' = Due(x)
  BY <1>1, <1>n DEF Due, IssuedAt
<1>6. \A i \in DOMAIN q : /\ q[i][2] = IssuedAt(q[i][1]) + MissLatency
                          /\ IssuedAt(q[i][1]) <= cycles + 1
                          /\ IssuedAt(q[i][1]) < cycles + 1
                          /\ Due(q[i]) >= cycles + 1
  <2>1. ASSUME NEW i \in DOMAIN q PROVE Due(q[i]) \in Nat
    <3>1. IssuedAt(q[i][1]) \in Nat
      BY <1>t, <2>1
    <3>. QED
      BY <1>t, <3>1 DEF Due
  <2>2. \A i \in DOMAIN q : /\ q[i][2] = IssuedAt(q[i][1]) + MissLatency
                            /\ IssuedAt(q[i][1]) <= cycles
                            /\ Due(q[i]) > cycles
    BY <1>0, <1>1 DEF QueueAge
  <2>. HIDE DEF q
  <2>. QED
    BY <1>t, <2>1, <2>2
<1>7. QueueAge'
  <2>1. \A i, j \in DOMAIN q : i < j => IssuedAt(q[i][1]) < IssuedAt(q[j][1])
    BY <1>0 DEF QueueAge
  <2>. QED
    BY <1>1, <1>5, <1>6, <2>1 DEF QueueAge, Advanced
<1>. QED
  BY <1>3, <1>4, <1>7 DEF AgeInv

LEMMA InitAge == Init => AgeInv
<1>. SUFFICES ASSUME Init PROVE AgeInv
  OBVIOUS
<1>1. DOMAIN dram_latency_queue = {} /\ DOMAIN mrqq = {} /\ DOMAIN returnq = {}
  BY DEF Init
<1>2. \A i \in DOMAIN rwq : rwq[i] = Null
  BY DEF Init, fifo_pipeline
<1>3. \A s \in Slices : Len(dram_L2[s]) = 0
  BY DEF Init
<1>4. QueueAge
  BY <1>1 DEF QueueAge
<1>5. LineAge /\ LineUnused
  BY <1>1, <1>2 DEF LineAge, LineUnused
<1>6. ConstantLatency
  BY <1>3 DEF ConstantLatency
<1>. QED
  BY <1>4, <1>5, <1>6 DEF AgeInv

\* AgeInv is inductive, given Inv.
LEMMA NextAge == Inv /\ AgeInv /\ [Next]_vars => AgeInv'
<1>. SUFFICES ASSUME Inv, AgeInv, [Next]_vars PROVE AgeInv'
  OBVIOUS
<1>1. CASE Return
  BY <1>1, ReturnAge
<1>2. CASE Cycle
  BY <1>2, CycleAge
<1>3. CASE Issue
  BY <1>3, TakeAge DEF Issue, At, model
<1>4. CASE Latency
  BY <1>4, LatencyAge
<1>5. CASE L2Cycle
  BY <1>5, L2CycleAge
<1>6. CASE NextCycle
  BY <1>6, NextCycleAge
<1>7. CASE SimpleReturn
  BY <1>7, SimpleReturnAge
<1>8. CASE SimpleIssue
  BY <1>8, TakeAge DEF SimpleIssue, At
<1>9. CASE UNCHANGED vars
  <2>1. UNCHANGED <<simple_dram_model, stage, cycles, dram_latency_queue, mrqq, rwq, returnq, dram_L2>>
    BY <1>9 DEF vars, queues, model
  <2>2. now' = now /\ Delay' = Delay
    BY <2>1 DEF now, Advanced, Delay
  <2>3. QueueAge' /\ ConstantLatency'
    BY <2>1, <2>2 DEF QueueAge, Due, Advanced, ConstantLatency, AgeInv
  <2>4. LineAge' /\ LineUnused'
    BY <2>1, <2>2 DEF LineAge, LineUnused, AgeInv
  <2>. QED
    BY <2>3, <2>4 DEF AgeInv
<1>. QED
  BY <1>1, <1>2, <1>3, <1>4, <1>5, <1>6, <1>7, <1>8, <1>9 DEF Next, Step, Terminated
-----------------------------------------------------------------------------
(* The order of the requests.                                               *)

Held(q) == {q[i] : i \in DOMAIN q}
Queued == {dram_latency_queue[i][1] : i \in DOMAIN dram_latency_queue}
Returned == UNION {Held(dram_L2[s]) : s \in Slices}

\* The requests the channel has taken and no slice has got back.
Inside == (Queued \cup Held(mrqq) \cup Held(rwq) \cup Held(returnq)) \ {Null}
Flying == Inside \cup (Returned \ {Null})

\* How many requests of a slice have been issued.
Issued(s) == sent[s] - Len(L2_dram[s])

\* A slice's own queue holds the requests it sent last, in order.
Unissued ==
  \A s \in Slices : \A i \in DOMAIN L2_dram[s] :
    From(L2_dram[s][i]) = s /\ Number(L2_dram[s][i]) = Issued(s) + i

\* A request comes back to the slice its l2_id names, and that is its own.
Homeward == \A s \in Slices : \A i \in DOMAIN dram_L2[s] : l2_id(dram_L2[s][i]) = s

\* The requests in the channel are those issued and not yet answered: no other,
Tagged == \A r \in Flying : /\ l2_id(r) = From(r)
                            /\ Number(r) \in (answered[From(r)] + 1) .. Issued(From(r))

\* and all of them.
NoneLost == \A s \in Slices :
              /\ answered[s] <= Issued(s)
              /\ \A n \in (answered[s] + 1) .. Issued(s) : \E r \in Flying : From(r) = s /\ Number(r) = n

\* The cycle of its issue tells a request from every other, and orders it.
IssueOrder ==
  /\ \A r1, r2 \in Flying : From(r1) = From(r2) /\ IssuedAt(r1) < IssuedAt(r2) => Number(r1) < Number(r2)
  /\ \A r1, r2 \in Flying : IssuedAt(r1) = IssuedAt(r2) => r1 = r2

NumInv == Unissued /\ Homeward /\ Tagged /\ NoneLost /\ IssueOrder

\* Requests and their fields.
LEMMA RequestFields ==
  /\ \A r \in Request : /\ r # Null /\ From(r) \in Slices /\ Number(r) \in Nat \ {0}
                        /\ IssuedAt(r) \in Nat /\ l2_id(r) \in Slices
  /\ Null \notin Request
BY DEF Request, Null, From, Number, IssuedAt, l2_id

\* What is held in a queue of requests.
LEMMA HeldInQueue ==
  /\ Held(<<>>) = {}
  /\ \A x : Held(<<x>>) = {x}
  /\ \A q \in Seq(Request) : Held(q) \subseteq Request
BY DEF Held

\* The types the proofs below need.
LEMMA NumTypes ==
  ASSUME Inv
  PROVE  /\ Flying \subseteq Request
         /\ sent \in [Slices -> Nat] /\ answered \in [Slices -> Nat]
         /\ L2_dram \in [Slices -> Seq(Request)] /\ dram_L2 \in [Slices -> Seq(Request)]
         /\ \A s \in Slices : Issued(s) \in Int /\ Len(L2_dram[s]) \in Nat
<1>1. /\ sent \in [Slices -> Nat] /\ answered \in [Slices -> Nat]
      /\ L2_dram \in [Slices -> Seq(Request)] /\ dram_L2 \in [Slices -> Seq(Request)]
  BY DEF Inv, TypeOK
<1>2. \A s \in Slices : Issued(s) \in Int /\ Len(L2_dram[s]) \in Nat
  BY <1>1 DEF Issued
<1>3. Queued \subseteq Request
  BY AgeTypes DEF Queued
<1>4. Held(mrqq) \subseteq Request /\ Held(returnq) \subseteq Request
  BY AgeTypes, HeldInQueue
<1>5. Held(rwq) \subseteq Request \cup {Null}
  BY AgeTypes DEF Held
<1>6. Returned \subseteq Request
  BY <1>1, HeldInQueue DEF Returned
<1>. QED
  BY <1>1, <1>2, <1>3, <1>4, <1>5, <1>6 DEF Flying, Inside

\* What its place tells of the cycle a request was issued in.
LEMMA PlaceAge ==
  ASSUME Inv, AgeInv
  PROVE  /\ \A r \in Queued : /\ ~simple_dram_model => /\ IssuedAt(r) + MissLatency >= cycles
                                                       /\ stage = "l2" => IssuedAt(r) + MissLatency > cycles
                              /\ simple_dram_model => /\ IssuedAt(r) + Delay >= cycles
                                                      /\ Advanced => IssuedAt(r) + Delay > cycles
                              /\ stage = "issue" => IssuedAt(r) < cycles
         /\ \A r \in Held(mrqq) : /\ ~simple_dram_model /\ stage \notin {"issue", "latency"}
                                  /\ IssuedAt(r) + MissLatency = now
         /\ \A r \in Held(rwq) \ {Null} : /\ ~simple_dram_model
                                          /\ IssuedAt(r) + MissLatency + 1 <= now
                                          /\ now <= IssuedAt(r) + MissLatency + CL
         /\ \A r \in Held(returnq) : /\ ~simple_dram_model /\ stage # "cycle"
                                     /\ IssuedAt(r) + MissLatency + CL + 1 = now
         /\ \A r \in Returned : stage # "return" /\ IssuedAt(r) + Delay = cycles
<1>0. QueueAge /\ LineAge /\ ConstantLatency /\ LineUnused
  BY DEF AgeInv
<1>1. ASSUME NEW r \in Queued
      PROVE  /\ ~simple_dram_model => /\ IssuedAt(r) + MissLatency >= cycles
                                      /\ stage = "l2" => IssuedAt(r) + MissLatency > cycles
             /\ simple_dram_model => /\ IssuedAt(r) + Delay >= cycles
                                     /\ Advanced => IssuedAt(r) + Delay > cycles
             /\ stage = "issue" => IssuedAt(r) < cycles
  <2>1. PICK i \in DOMAIN dram_latency_queue : r = dram_latency_queue[i][1]
    BY <1>1 DEF Queued
  <2>2. Due(dram_latency_queue[i]) = IssuedAt(r) + IF simple_dram_model THEN Delay ELSE MissLatency
    BY <2>1 DEF Due
  <2>. QED
    BY <1>0, <2>1, <2>2 DEF QueueAge
<1>2. ASSUME NEW r \in Held(mrqq)
      PROVE  ~simple_dram_model /\ stage \notin {"issue", "latency"} /\ IssuedAt(r) + MissLatency = now
  <2>1. PICK i \in DOMAIN mrqq : r = mrqq[i]
    BY <1>2 DEF Held
  <2>2. Len(mrqq) # 0
    BY <2>1, AgeTypes
  <2>. QED
    BY <1>0, <2>1, <2>2 DEF LineAge, Inv, StageInv, SimpleInv
<1>3. ASSUME NEW r \in Held(rwq) \ {Null}
      PROVE  /\ ~simple_dram_model
             /\ IssuedAt(r) + MissLatency + 1 <= now /\ now <= IssuedAt(r) + MissLatency + CL
  <2>1. PICK i \in DOMAIN rwq : r = rwq[i]
    BY <1>3 DEF Held
  <2>2. r \in Request
    BY <1>3, <2>1, AgeTypes
  <2>3. i \in 1 .. CL /\ CL \in Nat /\ MissLatency \in Nat /\ IssuedAt(r) \in Nat /\ now \in Int
    BY <2>1, <2>2, AgeTypes
  <2>4. IssuedAt(r) + MissLatency + 1 + (CL - i) = now
    BY <1>0, <1>3, <2>1 DEF LineAge
  <2>5. ~simple_dram_model
    BY <1>0, <1>3, <2>1 DEF LineUnused
  <2>. QED
    BY <2>3, <2>4, <2>5
<1>4. ASSUME NEW r \in Held(returnq)
      PROVE  ~simple_dram_model /\ stage # "cycle" /\ IssuedAt(r) + MissLatency + CL + 1 = now
  <2>1. PICK i \in DOMAIN returnq : r = returnq[i]
    BY <1>4 DEF Held
  <2>2. Len(returnq) # 0
    BY <2>1, AgeTypes
  <2>. QED
    BY <1>0, <2>1, <2>2 DEF LineAge, Inv, StageInv, SimpleInv
<1>5. ASSUME NEW r \in Returned
      PROVE  stage # "return" /\ IssuedAt(r) + Delay = cycles
  <2>1. PICK s \in Slices : r \in Held(dram_L2[s])
    BY <1>5 DEF Returned
  <2>2. PICK i \in DOMAIN dram_L2[s] : r = dram_L2[s][i]
    BY <2>1 DEF Held
  <2>3. dram_L2[s] \in Seq(Request)
    BY AgeTypes
  <2>4. Len(dram_L2[s]) # 0
    BY <2>2, <2>3
  <2>5. cycles = IssuedAt(r) + Delay
    BY <1>0, <2>2, <2>3 DEF ConstantLatency
  <2>. QED
    BY <2>4, <2>5 DEF Inv, StageInv
<1>. QED
  BY <1>1, <1>2, <1>3, <1>4, <1>5

\* The age of a request in the channel: it was issued in an earlier cycle than
\* the one to be issued, and no request is older than one that has come back.
LEMMA FlyingAge ==
  ASSUME Inv, AgeInv, stage \in {"issue", "l2"}
  PROVE  \A r \in Flying : /\ stage = "issue" => IssuedAt(r) < cycles
                           /\ stage = "l2" => IssuedAt(r) + Delay >= cycles
                           /\ stage = "l2" /\ r \in Inside => IssuedAt(r) + Delay > cycles
<1>. SUFFICES ASSUME NEW r \in Flying
              PROVE  /\ stage = "issue" => IssuedAt(r) < cycles
                     /\ stage = "l2" => IssuedAt(r) + Delay >= cycles
                     /\ stage = "l2" /\ r \in Inside => IssuedAt(r) + Delay > cycles
  OBVIOUS
<1>t. /\ cycles \in Nat /\ Delay \in Nat \ {0} /\ MissLatency \in Nat /\ CL \in Nat \ {0}
      /\ IssuedAt(r) \in Nat
  BY AgeTypes, NumTypes
<1>n. now = cycles /\ Advanced
  BY DEF now, Advanced
<1>d. ~simple_dram_model => Delay = MissLatency + CL + 2
  BY DelayFacts
<1>1. CASE r \in Queued
  BY <1>1, <1>d, <1>n, <1>t, PlaceAge
<1>2. CASE r \in Held(mrqq)
  BY <1>2, <1>d, <1>n, <1>t, PlaceAge
<1>3. CASE r \in Held(rwq) \ {Null}
  BY <1>3, <1>d, <1>n, <1>t, PlaceAge
<1>4. CASE r \in Held(returnq)
  BY <1>4, <1>d, <1>n, <1>t, PlaceAge
<1>5. CASE r \in Returned /\ r \notin Inside
  BY <1>5, <1>t, PlaceAge
<1>. QED
  BY <1>1, <1>2, <1>3, <1>4, <1>5 DEF Flying, Inside

\* A request in a later queue was issued later.
LEMMA OlderFirst ==
  ASSUME Inv, AgeInv
  PROVE  /\ \A r \in Returned, y \in Inside : IssuedAt(r) < IssuedAt(y)
         /\ \A r \in Held(returnq), y \in (Held(rwq) \ {Null}) \cup Held(mrqq) \cup Queued :
              IssuedAt(r) < IssuedAt(y)
         /\ \A r \in Held(rwq) \ {Null}, y \in Held(mrqq) \cup Queued : IssuedAt(r) < IssuedAt(y)
         /\ \A r \in Held(mrqq), y \in Queued : IssuedAt(r) < IssuedAt(y)
<1>t. /\ cycles \in Nat /\ Delay \in Nat \ {0} /\ MissLatency \in Nat /\ CL \in Nat \ {0} /\ now \in Int
  BY AgeTypes
<1>u. /\ \A r \in Queued : IssuedAt(r) \in Nat
      /\ \A r \in Held(mrqq) : IssuedAt(r) \in Nat
      /\ \A r \in Held(rwq) \ {Null} : IssuedAt(r) \in Nat
      /\ \A r \in Held(returnq) : IssuedAt(r) \in Nat
      /\ \A r \in Returned : IssuedAt(r) \in Nat
  <2>1. /\ Queued \subseteq Request /\ Held(mrqq) \subseteq Request
        /\ Held(rwq) \subseteq Request \cup {Null} /\ Held(returnq) \subseteq Request
        /\ Returned \subseteq Request
    BY AgeTypes, HeldInQueue DEF Queued, Held, Returned
  <2>. QED
    BY <2>1, RequestFields
<1>d. ~simple_dram_model => Delay = MissLatency + CL + 2
  BY DelayFacts
<1>n. /\ stage \in {"return", "cycle", "issue", "latency", "l2"}
      /\ Advanced => now = cycles
      /\ ~Advanced => now = cycles - 1
      /\ stage = "l2" => Advanced
      /\ Advanced \/ stage = "cycle" \/ stage = "return"
  BY DEF now, Advanced, Inv, TypeOK
<1>1. ASSUME NEW r \in Held(mrqq), NEW y \in Queued PROVE IssuedAt(r) < IssuedAt(y)
  <2>1. /\ ~simple_dram_model /\ stage \notin {"issue", "latency"} /\ IssuedAt(r) + MissLatency = now
        /\ IssuedAt(y) + MissLatency >= cycles
        /\ stage = "l2" => IssuedAt(y) + MissLatency > cycles
    BY <1>1, PlaceAge
  <2>2. IssuedAt(r) \in Nat /\ IssuedAt(y) \in Nat
    BY <1>1, <1>u
  <2>3. stage = "l2" \/ now = cycles - 1
    BY <1>n, <2>1 DEF Advanced
  <2>. QED
    BY <1>n, <1>t, <2>1, <2>2, <2>3
<1>2. ASSUME NEW r \in Held(rwq) \ {Null}, NEW y \in Held(mrqq) \cup Queued PROVE IssuedAt(r) < IssuedAt(y)
  <2>1. /\ ~simple_dram_model /\ IssuedAt(r) + MissLatency + 1 <= now
        /\ IssuedAt(y) + MissLatency >= cycles \/ IssuedAt(y) + MissLatency = now
    BY <1>2, PlaceAge
  <2>2. IssuedAt(r) \in Nat /\ IssuedAt(y) \in Nat
    BY <1>2, <1>u
  <2>. QED
    BY <1>n, <1>t, <2>1, <2>2
<1>3. ASSUME NEW r \in Held(returnq), NEW y \in (Held(rwq) \ {Null}) \cup Held(mrqq) \cup Queued
      PROVE  IssuedAt(r) < IssuedAt(y)
  <2>1. /\ ~simple_dram_model /\ IssuedAt(r) + MissLatency + CL + 1 = now
        /\ \/ IssuedAt(y) + MissLatency >= cycles \/ IssuedAt(y) + MissLatency = now
           \/ now <= IssuedAt(y) + MissLatency + CL
    BY <1>3, PlaceAge
  <2>2. IssuedAt(r) \in Nat /\ IssuedAt(y) \in Nat
    BY <1>3, <1>u
  <2>. QED
    BY <1>n, <1>t, <2>1, <2>2
<1>4. ASSUME NEW r \in Returned, NEW y \in Inside PROVE IssuedAt(r) < IssuedAt(y)
  <2>1. stage # "return" /\ IssuedAt(r) + Delay = cycles /\ IssuedAt(r) \in Nat
    BY <1>4, <1>u, PlaceAge
  <2>2. IssuedAt(y) \in Nat
    BY <1>4, <1>u DEF Inside
  <2>3. CASE simple_dram_model
    <3>1. y \in Queued /\ stage # "cycle"
      BY <1>4, <2>3, PlaceAge DEF Inside, Inv, SimpleInv
    <3>2. Advanced
      BY <1>n, <2>1, <3>1
    <3>3. IssuedAt(y) + Delay > cycles
      BY <2>3, <3>1, <3>2, PlaceAge
    <3>. QED
      BY <1>t, <2>1, <2>2, <3>3
  <2>4. CASE ~simple_dram_model
    <3>1. \/ IssuedAt(y) + MissLatency >= cycles
          \/ IssuedAt(y) + MissLatency = now
          \/ now <= IssuedAt(y) + MissLatency + CL
          \/ stage # "cycle" /\ IssuedAt(y) + MissLatency + CL + 1 = now
      BY <1>4, <2>4, PlaceAge DEF Inside
    <3>2. stage # "cycle" => now = cycles
      BY <1>n, <2>1
    <3>. QED
      BY <1>d, <1>n, <1>t, <2>1, <2>2, <2>4, <3>1, <3>2
  <2>. QED
    BY <2>3, <2>4
<1>. QED
  BY <1>1, <1>2, <1>3, <1>4

\* A step that only moves requests on, from one queue to the next.
LEMMA MovesOn ==
  ASSUME NumInv, Homeward', Flying' = Flying, UNCHANGED <<L2_dram, sent, answered>>
  PROVE  NumInv'
<1>1. Unissued' /\ Tagged' /\ NoneLost'
  BY DEF NumInv, Unissued, Tagged, NoneLost, Issued
<1>2. IssueOrder'
  BY DEF NumInv, IssueOrder
<1>. QED
  BY <1>1, <1>2 DEF NumInv

\* A queue that holds one request.
LEMMA OneRequest ==
  ASSUME NEW q \in Seq(Request), q # <<>>, Len(q) <= 1
  PROVE  Head(q) \in Request /\ Head(q) = q[1] /\ q = <<Head(q)>>
<1>0. Len(q) = 1
  <2>1. Len(q) \in Nat /\ Len(q) # 0
    BY EmptySeq
  <2>. QED
    BY <2>1
<1>1. Len(q) = 1 /\ Head(q) \in Request /\ Head(q) = q[1]
  BY <1>0, NonEmpty
<1>2. <<Head(q)>> \in Seq(Request) /\ Len(<<Head(q)>>) = 1 /\ <<Head(q)>>[1] = q[1]
  BY <1>1
<1>. HIDE DEF Request
<1>3. q = <<Head(q)>>
  BY <1>1, <1>2, SeqEqual
<1>. QED
  BY <1>1, <1>3

\* The slices' queues are empty when a request comes back, to the slice it names.
LEMMA ComesBack ==
  ASSUME Inv, stage = "return", NEW r \in Request,
         dram_L2' = [dram_L2 EXCEPT ![l2_id(r)] = push(dram_L2[l2_id(r)], r, 0)]
  PROVE  Returned = {} /\ Returned' = {r} /\ Homeward'
<1>1. \A s \in Slices : dram_L2[s] = <<>>
  <2>1. \A s \in Slices : dram_L2[s] \in Seq(Request) /\ Len(dram_L2[s]) = 0
    BY AgeTypes DEF Inv, StageInv
  <2>. QED
    BY <2>1
<1>2. l2_id(r) \in Slices /\ push(dram_L2[l2_id(r)], r, 0) = <<r>>
  <2>1. l2_id(r) \in Slices
    BY RequestFields
  <2>2. dram_L2[l2_id(r)] \in Seq(Request) /\ Len(dram_L2[l2_id(r)]) = 0
    BY <1>1, <2>1, AgeTypes
  <2>. QED
    BY <2>1, <2>2, SingleQueue
<1>3. \A s \in Slices : dram_L2'[s] = IF s = l2_id(r) THEN <<r>> ELSE <<>>
  BY <1>1, <1>2, AgeTypes
<1>4. Returned = {}
  BY <1>1, HeldInQueue DEF Returned
<1>5. \A s \in Slices : Held(dram_L2'[s]) = IF s = l2_id(r) THEN {r} ELSE {}
  BY <1>3, HeldInQueue
<1>6. Returned' = {r}
  <2>1. Returned' = UNION {Held(dram_L2'[s]) : s \in Slices}
    BY DEF Returned, Held
  <2>2. r \in Returned'
    BY <1>2, <1>5, <2>1
  <2>3. \A x \in Returned' : x = r
    BY <1>5, <2>1
  <2>. QED
    BY <2>2, <2>3
<1>7. Homeward'
  BY <1>3 DEF Homeward
<1>. QED
  BY <1>4, <1>6, <1>7

LEMMA ReturnNum == Inv /\ NumInv /\ Return => NumInv'
<1>. SUFFICES ASSUME Inv, NumInv, Return PROVE NumInv'
  OBVIOUS
<1>1. /\ stage = "return" /\ UNCHANGED <<dram_latency_queue, mrqq, rwq, L2_dram, sent, answered>>
  BY DEF Return, At
<1>2. CASE HeadReturns
  <2>. DEFINE r == Head(returnq)
  <2>1. /\ dram_L2' = [dram_L2 EXCEPT ![l2_id(r)] = push(dram_L2[l2_id(r)], r, 0)]
        /\ returnq' = pop(returnq, 0) /\ returnq # <<>>
    BY <1>2 DEF Return, HeadReturns
  <2>2. returnq \in Seq(Request) /\ Len(returnq) <= 1
    BY AgeTypes DEF Inv, StageInv
  <2>3. r \in Request /\ returnq = <<r>> /\ returnq' = <<>>
    BY <2>1, <2>2, SingleQueue, OneRequest
  <2>. HIDE DEF r
  <2>4. Returned = {} /\ Returned' = {r} /\ Homeward'
    BY <1>1, <2>1, <2>3, ComesBack
  <2>5. Held(returnq) = {r} /\ Held(returnq)' = {}
    BY <2>3, HeldInQueue DEF Held
  <2>6. UNCHANGED <<Queued, Held(mrqq), Held(rwq)>>
    BY <1>1 DEF Queued, Held
  <2>7. Flying' = Flying
    BY <2>4, <2>5, <2>6 DEF Flying, Inside
  <2>. QED
    BY <1>1, <2>4, <2>7, MovesOn
<1>3. CASE ~HeadReturns
  <2>1. UNCHANGED <<dram_L2, returnq>>
    BY <1>3 DEF Return
  <2>2. Flying' = Flying /\ Homeward'
    BY <1>1, <2>1 DEF Flying, Inside, Queued, Held, Returned, Homeward, NumInv
  <2>. QED
    BY <1>1, <2>2, MovesOn
<1>. QED
  BY <1>2, <1>3

\* dram_t::cycle moves the request at the head of the delay line to the return
\* queue and the one in mrqq to the end of the line.
LEMMA CycleNum == Inv /\ NumInv /\ Cycle => NumInv'
<1>. SUFFICES ASSUME Inv, NumInv, Cycle PROVE NumInv'
  OBVIOUS
<1>1. /\ stage = "cycle" /\ UNCHANGED <<dram_latency_queue, dram_L2, L2_dram, sent, answered>>
  BY DEF Cycle, At
<1>t. /\ CL \in Nat \ {0} /\ mrqq \in Seq(Request) /\ returnq \in Seq(Request)
      /\ rwq \in Seq(Request \cup {Null}) /\ DOMAIN rwq = 1 .. CL /\ Len(rwq) = CL
  BY AgeTypes DEF Inv
<1>2. /\ returnq = <<>> /\ Len(mrqq) <= 1 /\ ~full(returnq, ReturnSize)
  BY <1>1, <1>t, Fields DEF Inv, StageInv, full
<1>3. Drained = pop(rwq, CL) /\ rwq # <<>> /\ top(rwq) = rwq[1] /\ rwq[1] \in Request \cup {Null}
  BY <1>2, <1>t DEF Drained, top
<1>4. Held(returnq)' \ {Null} = {rwq[1]} \ {Null}
  <2>1. CASE rwq[1] = Null
    <3>1. returnq' = <<>>
      BY <1>2, <1>3, <2>1 DEF Cycle
    <3>. QED
      BY <2>1, <3>1, HeldInQueue DEF Held
  <2>2. CASE rwq[1] # Null
    <3>1. returnq' = push(returnq, rwq[1], 0)
      BY <1>2, <1>3, <2>2 DEF Cycle
    <3>2. rwq[1] \in Request /\ Len(returnq) = 0
      BY <1>2, <1>3, <2>2
    <3>3. returnq' = <<rwq[1]>>
      BY <1>t, <3>1, <3>2, SingleQueue
    <3>. QED
      BY <3>3, HeldInQueue DEF Held
  <2>. QED
    BY <2>1, <2>2
<1>. DEFINE x == IF mrqq = <<>> THEN Null ELSE mrqq[1]
<1>5. /\ x \in Request \cup {Null} /\ Held(mrqq) \ {Null} = {x} \ {Null} /\ Held(mrqq)' = {}
      /\ DOMAIN rwq' = 1 .. CL
      /\ \A i \in 1 .. CL : rwq'[i] = IF i < CL THEN rwq[i + 1] ELSE x
  <2>1. CASE mrqq = <<>>
    <3>1. rwq' = pop(rwq, CL) /\ mrqq' = <<>> /\ x = Null
      BY <1>3, <2>1 DEF Cycle
    <3>2. rwq' \in Seq(Request \cup {Null}) /\ Len(rwq') = CL
      BY <1>t, <3>1, RequestLine
    <3>3. \A i \in 1 .. CL : rwq'[i] = IF i < CL THEN rwq[i + 1] ELSE Null
      BY <1>t, <3>1, LineMoves
    <3>4. Held(mrqq) = {} /\ Held(mrqq)' = {}
      BY <2>1, <3>1, HeldInQueue DEF Held
    <3>. QED
      BY <3>1, <3>2, <3>3, <3>4
  <2>2. CASE mrqq # <<>>
    <3>1. x = mrqq[1] /\ x \in Request /\ mrqq = <<x>> /\ top(mrqq) = x
      BY <1>2, <1>t, <2>2, OneRequest DEF top
    <3>. HIDE DEF x
    <3>2. rwq' = push(pop(rwq, CL), x, CL) /\ mrqq' = pop(mrqq, 0)
      BY <1>3, <2>2, <3>1 DEF Cycle
    <3>3. mrqq' = <<>>
      BY <1>2, <1>t, <3>2, SingleQueue
    <3>4. rwq' \in Seq(Request \cup {Null}) /\ Len(rwq') = CL
      BY <1>t, <3>1, <3>2, RequestLine
    <3>5. \A i \in 1 .. CL : rwq'[i] = IF i < CL THEN rwq[i + 1] ELSE x
      BY <1>t, <3>1, <3>2, LineMoves
    <3>6. Held(mrqq) = {x} /\ Held(mrqq)' = {}
      BY <3>1, <3>3, HeldInQueue DEF Held
    <3>. QED
      BY <3>1, <3>4, <3>5, <3>6
  <2>. QED
    BY <2>1, <2>2
<1>. HIDE DEF x
<1>6. Held(rwq)' \cup {rwq[1]} = Held(rwq) \cup {x}
  <2>1. Held(rwq) = {rwq[i] : i \in 1 .. CL} /\ Held(rwq)' = {rwq'[i] : i \in 1 .. CL}
    BY <1>5, <1>t DEF Held
  <2>2. ASSUME NEW y \in Held(rwq)' PROVE y \in Held(rwq) \cup {x}
    <3>1. PICK i \in 1 .. CL : y = rwq'[i]
      BY <2>1, <2>2
    <3>2. CASE i < CL
      <4>1. i + 1 \in 1 .. CL /\ y = rwq[i + 1]
        BY <1>5, <1>t, <3>1, <3>2
      <4>. QED
        BY <2>1, <4>1
    <3>3. CASE ~(i < CL)
      BY <1>5, <3>1, <3>3
    <3>. QED
      BY <3>2, <3>3
  <2>3. ASSUME NEW y \in Held(rwq), y # rwq[1] PROVE y \in Held(rwq)'
    <3>1. PICK i \in 1 .. CL : y = rwq[i]
      BY <2>1, <2>3
    <3>2. i # 1
      BY <2>3, <3>1
    <3>3. i - 1 \in 1 .. CL /\ i - 1 < CL /\ (i - 1) + 1 = i
      BY <1>t, <3>2
    <3>4. rwq'[i - 1] = rwq[i]
      BY <1>5, <3>3
    <3>. QED
      BY <2>1, <3>1, <3>3, <3>4
  <2>4. x \in Held(rwq)'
    <3>1. CL \in 1 .. CL /\ ~(CL < CL)
      BY <1>t
    <3>2. rwq'[CL] = x
      BY <1>5, <3>1
    <3>. QED
      BY <2>1, <3>1, <3>2
  <2>5. rwq[1] \in Held(rwq)
    BY <1>t, <2>1
  <2>. QED
    BY <2>2, <2>3, <2>4, <2>5
<1>7. Held(returnq) = {}
  BY <1>2, HeldInQueue
<1>8. UNCHANGED <<Queued, Returned>> /\ Homeward'
  BY <1>1 DEF Queued, Returned, Held, Homeward, NumInv
<1>9. Flying' = Flying
  BY <1>4, <1>5, <1>6, <1>7, <1>8 DEF Flying, Inside
<1>. QED
  BY <1>1, <1>8, <1>9, MovesOn

\* The head of the latency queue leaves it for mrqq, or in the simple model for
\* its slice.
LEMMA HeadLeaves ==
  ASSUME Inv, dram_latency_queue # <<>>, dram_latency_queue' = Tail(dram_latency_queue)
  PROVE  /\ Head(dram_latency_queue)[1] \in Request
         /\ Queued = Queued' \cup {Head(dram_latency_queue)[1]}
<1>. DEFINE q == dram_latency_queue
            r == Head(dram_latency_queue)[1]
<1>1. q \in Seq(Request \X Nat) /\ q # <<>>
  BY AgeTypes
<1>2. /\ 1 \in DOMAIN q /\ Head(q) = q[1] /\ q[1] \in Request \X Nat
      /\ \A i \in DOMAIN Tail(q) : i + 1 \in DOMAIN q /\ Tail(q)[i] = q[i + 1]
      /\ \A i \in DOMAIN q : i # 1 => i - 1 \in DOMAIN Tail(q) /\ Tail(q)[i - 1] = q[i]
  BY <1>1
<1>3. r \in Request /\ r = q[1][1]
  BY <1>2
<1>4. Queued = {q[i][1] : i \in DOMAIN q} /\ Queued' = {Tail(q)[i][1] : i \in DOMAIN Tail(q)}
  BY DEF Queued
<1>. HIDE DEF r, q
<1>5. r \in Queued
  BY <1>2, <1>3, <1>4
<1>6. \A y \in Queued' : y \in Queued
  BY <1>2, <1>4
<1>7. \A y \in Queued : y # r => y \in Queued'
  <2>. SUFFICES ASSUME NEW y \in Queued, y # r PROVE y \in Queued'
    OBVIOUS
  <2>1. PICK i \in DOMAIN q : y = q[i][1]
    BY <1>4
  <2>2. i # 1
    BY <1>3, <2>1
  <2>3. i - 1 \in DOMAIN Tail(q) /\ Tail(q)[i - 1][1] = y
    BY <1>2, <2>1, <2>2
  <2>. QED
    BY <1>4, <2>3
<1>. QED
  BY <1>3, <1>5, <1>6, <1>7 DEF r

LEMMA LatencyNum == Inv /\ NumInv /\ Latency => NumInv'
<1>. SUFFICES ASSUME Inv, NumInv, Latency PROVE NumInv'
  OBVIOUS
<1>1. /\ stage = "latency" /\ UNCHANGED <<rwq, returnq, dram_L2, L2_dram, sent, answered>>
  BY DEF Latency, At
<1>2. UNCHANGED <<Held(rwq), Held(returnq), Returned>> /\ Homeward'
  BY <1>1 DEF Held, Returned, Homeward, NumInv
<1>3. CASE HeadReady
  <2>. DEFINE r == Head(dram_latency_queue)[1]
  <2>1. /\ dram_latency_queue # <<>> /\ dram_latency_queue' = Tail(dram_latency_queue)
        /\ mrqq' = push(mrqq, r, 0)
    BY <1>3 DEF HeadReady, Latency
  <2>2. r \in Request /\ Queued = Queued' \cup {r}
    BY <2>1, HeadLeaves
  <2>. HIDE DEF r
  <2>3. mrqq \in Seq(Request) /\ Len(mrqq) = 0 /\ mrqq = <<>>
    BY <1>1, AgeTypes DEF Inv, StageInv
  <2>4. mrqq' = <<r>>
    BY <2>1, <2>2, <2>3, SingleQueue
  <2>5. Held(mrqq) = {} /\ Held(mrqq)' = {r}
    BY <2>3, <2>4, HeldInQueue DEF Held
  <2>6. Flying' = Flying
    BY <1>2, <2>2, <2>5 DEF Flying, Inside
  <2>. QED
    BY <1>1, <1>2, <2>6, MovesOn
<1>4. CASE ~HeadReady
  <2>1. UNCHANGED <<mrqq, dram_latency_queue>>
    BY <1>4 DEF Latency
  <2>2. UNCHANGED <<Held(mrqq), Queued>>
    BY <2>1 DEF Held, Queued
  <2>3. Flying' = Flying
    BY <1>2, <2>2 DEF Flying, Inside
  <2>. QED
    BY <1>1, <1>2, <2>3, MovesOn
<1>. QED
  BY <1>3, <1>4

LEMMA SimpleReturnNum == Inv /\ NumInv /\ SimpleReturn => NumInv'
<1>. SUFFICES ASSUME Inv, NumInv, SimpleReturn PROVE NumInv'
  OBVIOUS
<1>1. /\ stage = "return" /\ UNCHANGED <<mrqq, rwq, returnq, L2_dram, sent, answered>>
  BY DEF SimpleReturn, At
<1>2. UNCHANGED <<Held(mrqq), Held(rwq), Held(returnq)>>
  BY <1>1 DEF Held
<1>3. CASE SimpleReady
  <2>. DEFINE r == Head(dram_latency_queue)[1]
  <2>1. /\ dram_latency_queue # <<>> /\ dram_latency_queue' = Tail(dram_latency_queue)
        /\ dram_L2' = [dram_L2 EXCEPT ![l2_id(r)] = push(dram_L2[l2_id(r)], r, 0)]
    BY <1>3 DEF SimpleReady, SimpleReturn
  <2>2. r \in Request /\ Queued = Queued' \cup {r}
    BY <2>1, HeadLeaves
  <2>. HIDE DEF r
  <2>3. Returned = {} /\ Returned' = {r} /\ Homeward'
    BY <1>1, <2>1, <2>2, ComesBack
  <2>4. Flying' = Flying
    BY <1>2, <2>2, <2>3 DEF Flying, Inside
  <2>. QED
    BY <1>1, <2>3, <2>4, MovesOn
<1>4. CASE ~SimpleReady
  <2>1. UNCHANGED <<dram_L2, dram_latency_queue>>
    BY <1>4 DEF SimpleReturn
  <2>2. UNCHANGED <<Queued, Returned>> /\ Homeward'
    BY <2>1 DEF Queued, Returned, Held, Homeward, NumInv
  <2>3. Flying' = Flying
    BY <1>2, <2>2 DEF Flying, Inside
  <2>. QED
    BY <1>1, <2>2, <2>3, MovesOn
<1>. QED
  BY <1>3, <1>4

\* On requests push appends and pop takes the head.
LEMMA PushAppends ==
  ASSUME NEW q \in Seq(Request)
  PROVE  /\ \A x : push(q, x, 0) = Append(q, x)
         /\ q # <<>> => pop(q, 0) = Tail(q)
<1>1. q # <<>> => q[Len(q)] # Null
  <2>. SUFFICES ASSUME q # <<>> PROVE q[Len(q)] # Null
    OBVIOUS
  <2>1. Len(q) \in DOMAIN q
    BY NonEmpty
  <2>2. q[Len(q)] \in Request
    BY <2>1
  <2>. QED
    BY <2>2, RequestFields
<1>. QED
  BY <1>1 DEF push, pop

\* A request is issued after all the earlier ones of its slice, in a cycle of its own.
LEMMA TakeNum ==
  ASSUME Inv, AgeInv, NumInv, TakeRequest, stage = "issue",
         UNCHANGED <<mrqq, rwq, returnq, dram_L2, sent, answered>>
  PROVE  NumInv'
<1>1. UNCHANGED <<Held(mrqq), Held(rwq), Held(returnq), Returned>> /\ Homeward'
  BY DEF Held, Returned, Homeward, NumInv
<1>2. CASE UNCHANGED <<dram_latency_queue, L2_dram>>
  <2>1. UNCHANGED Queued
    BY <1>2 DEF Queued
  <2>2. Flying' = Flying
    BY <1>1, <2>1 DEF Flying, Inside
  <2>. QED
    BY <1>1, <1>2, <2>2, MovesOn
<1>3. CASE ~UNCHANGED <<dram_latency_queue, L2_dram>>
  <2>1. PICK s \in Slices :
          /\ FirstReady(s)
          /\ dram_latency_queue' =
               Append(dram_latency_queue,
                 <<<<From(Head(L2_dram[s])), Number(Head(L2_dram[s])), cycles, s>>, cycles + MissLatency>>)
          /\ L2_dram' = [L2_dram EXCEPT ![s] = pop(L2_dram[s], 0)]
    BY <1>3 DEF TakeRequest
  <2>. DEFINE q == L2_dram[s]
              e == <<From(Head(q)), Number(Head(q)), cycles, s>>
  <2>t. /\ q \in Seq(Request) /\ q # <<>> /\ L2_dram \in [Slices -> Seq(Request)]
        /\ sent \in [Slices -> Nat] /\ answered \in [Slices -> Nat]
        /\ Flying \subseteq Request /\ cycles \in Nat
        /\ \A z \in Slices : Issued(z) \in Int
    BY <2>1, NumTypes, AgeTypes DEF FirstReady, can_issue_to_dram
  <2>2. /\ 1 \in DOMAIN q /\ Head(q) = q[1] /\ pop(q, 0) = Tail(q)
        /\ Len(Tail(q)) = Len(q) - 1 /\ Len(q) \in Nat
        /\ \A i \in DOMAIN Tail(q) : i \in Nat /\ i + 1 \in DOMAIN q /\ Tail(q)[i] = q[i + 1]
    <3>1. pop(q, 0) = Tail(q)
      BY <2>t, PushAppends
    <3>2. Len(q) \in Nat \ {0} /\ Tail(q) \in Seq(Request) /\ Len(Tail(q)) = Len(q) - 1
      BY <2>t, NonEmpty
    <3>. HIDE DEF q
    <3>3. 1 \in DOMAIN q /\ Head(q) = q[1]
      BY <2>t, <3>2
    <3>4. \A i \in DOMAIN Tail(q) : i \in Nat /\ i + 1 \in DOMAIN q /\ Tail(q)[i] = q[i + 1]
      BY <2>t, <3>2
    <3>. QED
      BY <3>1, <3>2, <3>3, <3>4
  <2>3. From(Head(q)) = s /\ Number(Head(q)) = Issued(s) + 1
    BY <2>2 DEF NumInv, Unissued
  <2>4. From(e) = s /\ Number(e) = Issued(s) + 1 /\ IssuedAt(e) = cycles /\ l2_id(e) = s /\ e # Null
    BY <2>3 DEF From, Number, IssuedAt, l2_id, Null
  <2>. HIDE DEF e, q
  <2>5. Queued' = Queued \cup {e}
    <3>1. dram_latency_queue \in Seq(Request \X Nat)
      BY AgeTypes
    <3>. DEFINE p == dram_latency_queue
                f == <<e, cycles + MissLatency>>
                m == Len(p) + 1
    <3>2. dram_latency_queue' = Append(p, f) /\ f[1] = e
      BY <2>1 DEF e, q
    <3>. HIDE DEF f
    <3>3. /\ DOMAIN Append(p, f) = DOMAIN p \cup {m} /\ Append(p, f)[m] = f
          /\ \A i \in DOMAIN p : Append(p, f)[i] = p[i]
      BY <3>1
    <3>4. Queued = {p[i][1] : i \in DOMAIN p} /\ Queued' = {Append(p, f)[i][1] : i \in DOMAIN Append(p, f)}
      BY <3>2 DEF Queued
    <3>. HIDE DEF p, m
    <3>. QED
      BY <3>2, <3>3, <3>4
  <2>6. Flying' = Flying \cup {e}
    BY <1>1, <2>4, <2>5 DEF Flying, Inside
  <2>7. \A z \in Slices : L2_dram'[z] = IF z = s THEN Tail(q) ELSE L2_dram[z]
    BY <2>1, <2>2, <2>t DEF q
  <2>8. \A z \in Slices : Issued(z)' = IF z = s THEN Issued(s) + 1 ELSE Issued(z)
    <3>1. \A z \in Slices : Issued(z)' = sent[z] - Len(L2_dram'[z]) /\ Issued(z) = sent[z] - Len(L2_dram[z])
      BY DEF Issued
    <3>2. Issued(s)' = sent[s] - (Len(q) - 1) /\ Issued(s) = sent[s] - Len(q) /\ sent[s] \in Nat
      BY <2>2, <2>7, <2>t, <3>1 DEF q
    <3>3. Issued(s)' = Issued(s) + 1
      BY <2>2, <3>2
    <3>. QED
      BY <2>7, <3>1, <3>3
  <2>9. Unissued'
    <3>. SUFFICES ASSUME NEW z \in Slices, NEW i \in DOMAIN L2_dram'[z]
                  PROVE  From(L2_dram'[z][i]) = z /\ Number(L2_dram'[z][i]) = Issued(z)' + i
      BY DEF Unissued, From, Number
    <3>1. CASE z = s
      <4>1. i \in DOMAIN Tail(q) /\ L2_dram'[z][i] = q[i + 1] /\ i + 1 \in DOMAIN q /\ i \in Nat
        BY <2>2, <2>7, <3>1
      <4>2. From(q[i + 1]) = s /\ Number(q[i + 1]) = Issued(s) + (i + 1)
        BY <4>1 DEF NumInv, Unissued, q
      <4>3. Issued(s) \in Int /\ Issued(z)' = Issued(s) + 1
        BY <2>8, <2>t, <3>1
      <4>. QED
        BY <3>1, <4>1, <4>2, <4>3
    <3>2. CASE z # s
      BY <2>7, <2>8, <3>2 DEF NumInv, Unissued
    <3>. QED
      BY <3>1, <3>2
  <2>10. Tagged'
    <3>. SUFFICES ASSUME NEW r \in Flying'
                  PROVE  l2_id(r) = From(r) /\ Number(r) \in (answered[From(r)] + 1) .. Issued(From(r))'
      BY DEF Tagged, l2_id, From, Number, Issued
    <3>1. CASE r \in Flying
      <4>. DEFINE z == From(r)
      <4>1. l2_id(r) = z /\ Number(r) \in (answered[z] + 1) .. Issued(z) /\ z \in Slices
        BY <2>t, <3>1, RequestFields DEF NumInv, Tagged
      <4>. HIDE DEF z
      <4>2. Issued(z)' \in Int /\ Issued(z) \in Int /\ Issued(z) <= Issued(z)' /\ answered[z] \in Nat
        <5>1. Issued(z)' = IF z = s THEN Issued(s) + 1 ELSE Issued(z)
          BY <2>8, <4>1
        <5>2. Issued(z) \in Int /\ answered[z] \in Nat
          BY <2>t, <4>1
        <5>. QED
          BY <5>1, <5>2
      <4>3. Number(r) \in (answered[z] + 1) .. Issued(z)'
        BY <4>1, <4>2
      <4>. QED
        BY <4>1, <4>3 DEF z
    <3>2. CASE r = e
      <4>1. answered[s] <= Issued(s) /\ answered[s] \in Nat /\ Issued(s) \in Int /\ Issued(s)' = Issued(s) + 1
        BY <2>8, <2>t DEF NumInv, NoneLost
      <4>2. Issued(s) + 1 \in (answered[s] + 1) .. Issued(s)'
        BY <4>1
      <4>. QED
        BY <2>4, <3>2, <4>2
    <3>. QED
      BY <2>6, <3>1, <3>2
  <2>11. NoneLost'
    <3>. SUFFICES ASSUME NEW z \in Slices
                  PROVE  /\ answered[z] <= Issued(z)'
                         /\ \A n \in (answered[z] + 1) .. Issued(z)' :
                              \E r \in Flying' : From(r) = z /\ Number(r) = n
      BY DEF NoneLost, From, Number, Issued
    <3>1. /\ answered[z] <= Issued(z) /\ answered[z] \in Nat /\ Issued(z) \in Int
          /\ Issued(z)' = IF z = s THEN Issued(z) + 1 ELSE Issued(z)
      BY <2>8, <2>t DEF NumInv, NoneLost
    <3>2. \A n \in (answered[z] + 1) .. Issued(z) : \E r \in Flying : From(r) = z /\ Number(r) = n
      BY DEF NumInv, NoneLost
    <3>3. ASSUME NEW n \in (answered[z] + 1) .. Issued(z)'
          PROVE  \E r \in Flying' : From(r) = z /\ Number(r) = n
      <4>1. CASE n <= Issued(z)
        <5>1. n \in (answered[z] + 1) .. Issued(z)
          BY <3>1, <4>1
        <5>. QED
          BY <2>6, <3>2, <5>1
      <4>2. CASE ~(n <= Issued(z))
        <5>1. z = s /\ n = Issued(s) + 1
          BY <3>1, <3>3, <4>2
        <5>. QED
          BY <2>4, <2>6, <5>1
      <4>. QED
        BY <4>1, <4>2
    <3>4. answered[z] <= Issued(z)'
      BY <3>1
    <3>. QED
      BY <3>3, <3>4
  <2>12. \A r \in Flying : IssuedAt(r) < cycles /\ IssuedAt(r) \in Nat /\ (From(r) = s => Number(r) < Issued(s) + 1)
    <3>. SUFFICES ASSUME NEW r \in Flying
                  PROVE  IssuedAt(r) < cycles /\ IssuedAt(r) \in Nat /\ (From(r) = s => Number(r) < Issued(s) + 1)
      OBVIOUS
    <3>1. IssuedAt(r) < cycles /\ IssuedAt(r) \in Nat
      BY <2>t, FlyingAge, RequestFields
    <3>2. ASSUME From(r) = s PROVE Number(r) < Issued(s) + 1
      <4>1. Number(r) \in (answered[s] + 1) .. Issued(s) /\ answered[s] \in Nat /\ Issued(s) \in Int
        BY <2>t, <3>2 DEF NumInv, Tagged
      <4>. QED
        BY <4>1
    <3>. QED
      BY <3>1, <3>2
  <2>13. IssueOrder'
    <3>1. ASSUME NEW r1 \in Flying', NEW r2 \in Flying', From(r1) = From(r2), IssuedAt(r1) < IssuedAt(r2)
          PROVE  Number(r1) < Number(r2)
      <4>1. r1 # e
        <5>1. CASE r2 = e
          BY <2>4, <2>t, <3>1, <5>1
        <5>2. CASE r2 # e
          BY <2>12, <2>4, <2>6, <2>t, <3>1, <5>2
        <5>. QED
          BY <5>1, <5>2
      <4>2. CASE r2 = e
        BY <2>12, <2>4, <2>6, <3>1, <4>1, <4>2
      <4>3. CASE r2 # e
        BY <2>6, <3>1, <4>1, <4>3 DEF NumInv, IssueOrder
      <4>. QED
        BY <4>2, <4>3
    <3>2. ASSUME NEW r1 \in Flying', NEW r2 \in Flying', IssuedAt(r1) = IssuedAt(r2)
          PROVE  r1 = r2
      <4>0. \A r \in Flying : IssuedAt(r) # cycles
        BY <2>12, <2>t
      <4>1. CASE r1 = e \/ r2 = e
        BY <2>4, <2>6, <3>2, <4>0, <4>1
      <4>2. CASE ~(r1 = e \/ r2 = e)
        BY <2>6, <3>2, <4>2 DEF NumInv, IssueOrder
      <4>. QED
        BY <4>1, <4>2
    <3>. QED
      BY <3>1, <3>2 DEF IssueOrder, IssuedAt, From, Number
  <2>. QED
    BY <1>1, <2>9, <2>10, <2>11, <2>13 DEF NumInv
<1>. QED
  BY <1>2, <1>3

\* What a slice sends is numbered after all it sent before, and waits behind it.
LEMMA SendNum ==
  ASSUME Inv, Unissued, L2Cycle
  PROVE  Unissued' /\ \A z \in Slices : Issued(z)' = Issued(z)
<1>t. /\ turn \in Slices /\ L2_dram \in [Slices -> Seq(Request)] /\ sent \in [Slices -> Nat]
  BY NumTypes DEF L2Cycle
<1>1. CASE UNCHANGED <<sent, L2_dram>>
  BY <1>1 DEF Unissued, Issued
<1>2. CASE ~UNCHANGED <<sent, L2_dram>>
  <2>. DEFINE q == L2_dram[turn]
              e == <<turn, sent[turn] + 1, 0, 0>>
  <2>1. /\ sent' = [sent EXCEPT ![turn] = sent[turn] + 1]
        /\ L2_dram' = [L2_dram EXCEPT ![turn] = push(q, e, 0)]
    BY <1>2 DEF L2Cycle
  <2>2. From(e) = turn /\ Number(e) = sent[turn] + 1
    BY DEF From, Number
  <2>. HIDE DEF e, q
  <2>3. q \in Seq(Request) /\ Len(q) \in Nat /\ sent[turn] \in Nat
    BY <1>t DEF q
  <2>4. push(q, e, 0) = Append(q, e)
    BY <2>3, PushAppends
  <2>5. /\ Len(Append(q, e)) = Len(q) + 1 /\ Append(q, e)[Len(q) + 1] = e
        /\ \A i \in DOMAIN Append(q, e) : i = Len(q) + 1 \/ (i \in DOMAIN q /\ Append(q, e)[i] = q[i])
    BY <2>3
  <2>6. \A z \in Slices : /\ L2_dram'[z] = IF z = turn THEN Append(q, e) ELSE L2_dram[z]
                          /\ sent'[z] = IF z = turn THEN sent[turn] + 1 ELSE sent[z]
    BY <1>t, <2>1, <2>4
  <2>7. \A z \in Slices : Issued(z)' = Issued(z)
    <3>. SUFFICES ASSUME NEW z \in Slices PROVE Issued(z)' = Issued(z)
      OBVIOUS
    <3>1. Issued(z) = sent[z] - Len(L2_dram[z]) /\ Issued(z)' = sent'[z] - Len(L2_dram'[z])
      BY DEF Issued
    <3>2. CASE z = turn
      <4>1. Issued(z) = sent[turn] - Len(q) /\ Issued(z)' = (sent[turn] + 1) - (Len(q) + 1)
        BY <2>5, <2>6, <3>1, <3>2 DEF q
      <4>. QED
        BY <2>3, <4>1
    <3>3. CASE z # turn
      BY <2>6, <3>1, <3>3
    <3>. QED
      BY <3>2, <3>3
  <2>8. Unissued'
    <3>. SUFFICES ASSUME NEW z \in Slices, NEW i \in DOMAIN L2_dram'[z]
                  PROVE  From(L2_dram'[z][i]) = z /\ Number(L2_dram'[z][i]) = Issued(z)' + i
      BY DEF Unissued, From, Number
    <3>1. CASE z # turn
      BY <2>6, <2>7, <3>1 DEF Unissued
    <3>2. CASE z = turn
      <4>1. L2_dram'[z][i] = Append(q, e)[i] /\ i \in DOMAIN Append(q, e)
        BY <2>6, <3>2
      <4>2. CASE i = Len(q) + 1
        <5>1. Issued(z)' = sent[turn] - Len(q)
          BY <1>t, <2>7, <3>2 DEF Issued, q
        <5>2. sent[turn] + 1 = (sent[turn] - Len(q)) + (Len(q) + 1)
          BY <2>3
        <5>. QED
          BY <2>2, <2>5, <3>2, <4>1, <4>2, <5>1, <5>2
      <4>3. CASE i # Len(q) + 1
        <5>1. i \in DOMAIN q /\ L2_dram'[z][i] = q[i]
          BY <2>5, <4>1, <4>3
        <5>. QED
          BY <2>7, <3>2, <5>1 DEF Unissued, q
      <4>. QED
        BY <4>2, <4>3
    <3>. QED
      BY <3>1, <3>2
  <2>. QED
    BY <2>7, <2>8
<1>. QED
  BY <1>1, <1>2

\* The request a slice gets back is the oldest it has not got back.
LEMMA L2CycleNum == Inv /\ AgeInv /\ NumInv /\ L2Cycle => NumInv'
<1>. SUFFICES ASSUME Inv, AgeInv, NumInv, L2Cycle PROVE NumInv'
  OBVIOUS
<1>. DEFINE q == dram_L2[turn]
<1>1. /\ stage = "l2" /\ turn \in Slices
      /\ UNCHANGED <<dram_latency_queue, mrqq, rwq, returnq>>
      /\ dram_L2' = [dram_L2 EXCEPT ![turn] = pop(q, 0)]
      /\ answered' = [answered EXCEPT ![turn] = IF q = <<>> THEN answered[turn] ELSE answered[turn] + 1]
  BY DEF L2Cycle
<1>t. /\ dram_L2 \in [Slices -> Seq(Request)] /\ answered \in [Slices -> Nat]
      /\ q \in Seq(Request) /\ Len(q) <= 1 /\ Flying \subseteq Request
      /\ \A z \in Slices : Issued(z) \in Int
  BY <1>1, NumTypes DEF Inv, StageInv
<1>2. Unissued' /\ \A z \in Slices : Issued(z)' = Issued(z)
  BY SendNum DEF NumInv
<1>3. \A z \in Slices : dram_L2'[z] = IF z = turn THEN <<>> ELSE dram_L2[z]
  BY <1>1, <1>t, SingleQueue
<1>4. Homeward'
  BY <1>3 DEF NumInv, Homeward
<1>5. UNCHANGED Inside
  BY <1>1 DEF Inside, Queued, Held
<1>6. Returned' = UNION {Held(dram_L2'[z]) : z \in Slices}
  BY DEF Returned, Held
<1>7. \A z \in Slices : Held(dram_L2'[z]) = IF z = turn THEN {} ELSE Held(dram_L2[z])
  BY <1>3, HeldInQueue
<1>8. CASE q = <<>>
  <2>1. \A z \in Slices : Held(dram_L2'[z]) = Held(dram_L2[z])
    BY <1>7, <1>8, HeldInQueue
  <2>2. Returned' = Returned
    BY <1>6, <2>1 DEF Returned
  <2>3. Flying' = Flying
    BY <1>5, <2>2 DEF Flying
  <2>4. \A z \in Slices : answered'[z] = answered[z]
    BY <1>1, <1>8, <1>t
  <2>5. Tagged'
    <3>. SUFFICES ASSUME NEW r \in Flying
                  PROVE  l2_id(r) = From(r) /\ Number(r) \in (answered'[From(r)] + 1) .. Issued(From(r))'
      BY <2>3 DEF Tagged, l2_id, From, Number, Issued
    <3>1. From(r) \in Slices
      BY <1>t, RequestFields
    <3>. QED
      BY <1>2, <2>4, <3>1 DEF NumInv, Tagged
  <2>6. NoneLost'
    BY <1>2, <2>3, <2>4 DEF NumInv, NoneLost
  <2>7. IssueOrder'
    BY <2>3 DEF NumInv, IssueOrder
  <2>. QED
    BY <1>2, <1>4, <2>5, <2>6, <2>7 DEF NumInv
<1>9. CASE q # <<>>
  <2>. DEFINE r == Head(q)
  <2>1. r \in Request /\ q = <<r>> /\ 1 \in DOMAIN q /\ r = q[1]
    BY <1>9, <1>t, OneRequest
  <2>2. l2_id(r) = turn
    BY <1>1, <2>1 DEF NumInv, Homeward
  <2>. HIDE DEF r
  <2>3. Held(q) = {r} /\ r \in Returned /\ r \in Flying
    <3>1. Held(q) = {r}
      BY <2>1, HeldInQueue
    <3>2. r \in Returned
      BY <1>1, <3>1 DEF Returned
    <3>. QED
      BY <2>1, <3>1, <3>2, RequestFields DEF Flying
  <2>4. IssuedAt(r) + Delay = cycles /\ IssuedAt(r) \in Nat /\ cycles \in Nat /\ Delay \in Nat
    <3>1. cycles = IssuedAt(r) + Delay
      <4>1. 1 \in 1 .. Len(dram_L2[turn])
        BY <1>t, <2>1
      <4>. QED
        BY <1>1, <2>1, <4>1 DEF AgeInv, ConstantLatency
    <3>. QED
      BY <2>1, <3>1, AgeTypes
  <2>5. r \notin Inside
    <3>. SUFFICES ASSUME r \in Inside PROVE FALSE
      OBVIOUS
    <3>1. IssuedAt(r) + Delay > cycles
      BY <1>1, <2>3, FlyingAge
    <3>. QED
      BY <2>4, <3>1
  <2>6. Returned' = Returned \ {r}
    <3>1. r \notin Returned'
      <4>. SUFFICES ASSUME r \in Returned' PROVE FALSE
        OBVIOUS
      <4>1. PICK z \in Slices : r \in Held(dram_L2'[z])
        BY <1>6
      <4>2. z # turn /\ r \in Held(dram_L2[z])
        BY <1>7, <4>1
      <4>3. l2_id(r) = z
        BY <4>2 DEF Held, NumInv, Homeward
      <4>. QED
        BY <2>2, <4>2, <4>3
    <3>2. \A y \in Returned' : y \in Returned
      BY <1>6, <1>7 DEF Returned
    <3>3. ASSUME NEW y \in Returned, y # r PROVE y \in Returned'
      <4>1. PICK z \in Slices : y \in Held(dram_L2[z])
        BY <3>3 DEF Returned
      <4>2. z # turn
        BY <2>3, <3>3, <4>1
      <4>. QED
        BY <1>6, <1>7, <4>1, <4>2
    <3>. QED
      BY <3>1, <3>2, <3>3
  <2>7. Flying' = Flying \ {r}
    BY <1>5, <2>5, <2>6 DEF Flying
  <2>8. From(r) = turn /\ Number(r) = answered[turn] + 1 /\ answered[turn] + 1 <= Issued(turn)
    <3>1. From(r) = turn /\ Number(r) \in (answered[turn] + 1) .. Issued(turn)
      BY <2>2, <2>3 DEF NumInv, Tagged
    <3>2. answered[turn] \in Nat /\ Issued(turn) \in Int
      BY <1>1, <1>t
    <3>3. answered[turn] + 1 \in (answered[turn] + 1) .. Issued(turn)
      BY <3>1, <3>2
    <3>4. PICK y \in Flying : From(y) = turn /\ Number(y) = answered[turn] + 1
      BY <1>1, <3>3 DEF NumInv, NoneLost
    <3>5. y = r
      <4>. SUFFICES ASSUME y # r PROVE FALSE
        OBVIOUS
      <4>1. IssuedAt(y) + Delay >= cycles /\ IssuedAt(y) \in Nat /\ IssuedAt(y) # IssuedAt(r)
        BY <1>1, <1>t, <2>3, FlyingAge, RequestFields DEF NumInv, IssueOrder
      <4>2. IssuedAt(r) < IssuedAt(y)
        BY <2>4, <4>1
      <4>3. Number(r) < Number(y)
        BY <2>3, <3>1, <3>4, <4>2 DEF NumInv, IssueOrder
      <4>. QED
        BY <3>1, <3>2, <3>4, <4>3
    <3>. QED
      BY <3>1, <3>2, <3>3, <3>4, <3>5
  <2>9. \A z \in Slices : answered'[z] = IF z = turn THEN answered[turn] + 1 ELSE answered[z]
    BY <1>1, <1>9, <1>t
  <2>10. Tagged'
    <3>. SUFFICES ASSUME NEW y \in Flying, y # r
                  PROVE  l2_id(y) = From(y) /\ Number(y) \in (answered'[From(y)] + 1) .. Issued(From(y))'
      BY <2>7 DEF Tagged, l2_id, From, Number, Issued
    <3>. DEFINE z == From(y)
    <3>1. z \in Slices /\ l2_id(y) = z /\ Number(y) \in (answered[z] + 1) .. Issued(z)
      BY <1>t, RequestFields DEF NumInv, Tagged
    <3>2. Issued(z)' = Issued(z) /\ Issued(z) \in Int /\ answered[z] \in Nat
      BY <1>2, <1>t, <3>1
    <3>3. z = turn => Number(y) # answered[turn] + 1
      <4>. SUFFICES ASSUME z = turn, Number(y) = answered[turn] + 1 PROVE FALSE
        OBVIOUS
      <4>1. Number(r) = Number(y) /\ From(r) = From(y)
        BY <2>8
      <4>2. ~(Number(r) < Number(y)) /\ ~(Number(y) < Number(r))
        BY <1>1, <1>t, <2>8, <4>1
      <4>3. ~(IssuedAt(r) < IssuedAt(y)) /\ ~(IssuedAt(y) < IssuedAt(r)) /\ IssuedAt(y) \in Nat
        BY <1>t, <2>3, <4>1, <4>2, RequestFields DEF NumInv, IssueOrder
      <4>4. IssuedAt(y) = IssuedAt(r)
        BY <2>4, <4>3
      <4>. QED
        BY <2>3, <4>4 DEF NumInv, IssueOrder
    <3>. HIDE DEF z
    <3>4. Number(y) \in (answered'[z] + 1) .. Issued(z)'
      <4>1. answered'[z] = IF z = turn THEN answered[turn] + 1 ELSE answered[z]
        BY <2>9, <3>1
      <4>. QED
        BY <3>1, <3>2, <3>3, <4>1
    <3>. QED
      BY <3>1, <3>4 DEF z
  <2>11. NoneLost'
    <3>. SUFFICES ASSUME NEW z \in Slices
                  PROVE  /\ answered'[z] <= Issued(z)'
                         /\ \A n \in (answered'[z] + 1) .. Issued(z)' :
                              \E y \in Flying' : From(y) = z /\ Number(y) = n
      BY DEF NoneLost, From, Number, Issued
    <3>1. /\ answered[z] <= Issued(z) /\ answered[z] \in Nat /\ Issued(z) \in Int
          /\ Issued(z)' = Issued(z)
          /\ answered'[z] = IF z = turn THEN answered[z] + 1 ELSE answered[z]
      BY <1>2, <1>t, <2>9 DEF NumInv, NoneLost
    <3>2. answered'[z] <= Issued(z)'
      BY <2>8, <3>1
    <3>3. ASSUME NEW n \in (answered'[z] + 1) .. Issued(z)'
          PROVE  \E y \in Flying' : From(y) = z /\ Number(y) = n
      <4>1. n \in (answered[z] + 1) .. Issued(z) /\ (z = turn => n # answered[z] + 1)
        BY <3>1, <3>3
      <4>2. PICK y \in Flying : From(y) = z /\ Number(y) = n
        BY <4>1 DEF NumInv, NoneLost
      <4>3. y # r
        BY <2>8, <4>1, <4>2
      <4>. QED
        BY <2>7, <4>2, <4>3
    <3>. QED
      BY <3>2, <3>3
  <2>12. IssueOrder'
    BY <2>7 DEF NumInv, IssueOrder
  <2>. QED
    BY <1>2, <1>4, <2>10, <2>11, <2>12 DEF NumInv
<1>. QED
  BY <1>8, <1>9

LEMMA InitNum == Init => NumInv
<1>. SUFFICES ASSUME Init PROVE NumInv
  OBVIOUS
<1>1. /\ \A s \in Slices : L2_dram[s] = <<>> /\ dram_L2[s] = <<>> /\ sent[s] = 0 /\ answered[s] = 0
      /\ DOMAIN dram_latency_queue = {} /\ DOMAIN mrqq = {} /\ DOMAIN returnq = {}
      /\ \A i \in DOMAIN rwq : rwq[i] = Null
  BY DEF Init, fifo_pipeline
<1>2. Inside = {}
  BY <1>1 DEF Inside, Queued, Held
<1>3. Returned = {}
  BY <1>1, HeldInQueue DEF Returned
<1>4. Flying = {}
  BY <1>2, <1>3 DEF Flying
<1>5. \A s \in Slices : Issued(s) = 0 /\ answered[s] = 0
  BY <1>1 DEF Issued
<1>6. Unissued /\ Homeward
  BY <1>1 DEF Unissued, Homeward
<1>7. Tagged /\ IssueOrder
  BY <1>4 DEF Tagged, IssueOrder
<1>8. NoneLost
  BY <1>5 DEF NoneLost
<1>. QED
  BY <1>6, <1>7, <1>8 DEF NumInv

\* NumInv is inductive, given Inv and AgeInv.
LEMMA NextNum == Inv /\ AgeInv /\ NumInv /\ [Next]_vars => NumInv'
<1>. SUFFICES ASSUME Inv, AgeInv, NumInv, [Next]_vars PROVE NumInv'
  OBVIOUS
<1>1. CASE Return
  BY <1>1, ReturnNum
<1>2. CASE Cycle
  BY <1>2, CycleNum
<1>3. CASE Issue
  BY <1>3, TakeNum DEF Issue, At
<1>4. CASE Latency
  BY <1>4, LatencyNum
<1>5. CASE L2Cycle
  BY <1>5, L2CycleNum
<1>6. CASE NextCycle \/ UNCHANGED vars
  <2>1. UNCHANGED <<L2_dram, dram_latency_queue, mrqq, rwq, returnq, dram_L2, sent, answered>>
    BY <1>6 DEF NextCycle, vars, queues
  <2>2. Inside' = Inside /\ Returned' = Returned /\ Homeward'
    BY <2>1 DEF Inside, Queued, Held, Returned, Homeward, NumInv
  <2>3. Flying' = Flying
    BY <2>2 DEF Flying
  <2>. QED
    BY <2>1, <2>2, <2>3, MovesOn
<1>7. CASE SimpleReturn
  BY <1>7, SimpleReturnNum
<1>8. CASE SimpleIssue
  BY <1>8, TakeNum DEF SimpleIssue, At
<1>. QED
  BY <1>1, <1>2, <1>3, <1>4, <1>5, <1>6, <1>7, <1>8 DEF Next, Step, Terminated

\* Every number in the one queue is below every number in the other.
Below(s, p, q) == \A i \in Of(s, p), j \in Of(s, q) : Number(p[i]) < Number(q[j])

\* Numbers, Ascending and Below of a queue followed by another.
LEMMA Joined ==
  ASSUME NEW S, NEW p \in Seq(S), NEW q \in Seq(S), NEW s
  PROVE  /\ p \o q \in Seq(S)
         /\ Numbers(s, p \o q) = Numbers(s, p) \cup Numbers(s, q)
         /\ Ascending(s, p) /\ Ascending(s, q) /\ Below(s, p, q) => Ascending(s, p \o q)
         /\ \A t : Below(s, p, t) /\ Below(s, q, t) => Below(s, p \o q, t)
<1>. DEFINE c == p \o q
            m == Len(p)
<1>1. /\ c \in Seq(S) /\ m \in Nat
      /\ \A i \in DOMAIN p : i \in DOMAIN c /\ c[i] = p[i] /\ i \in 1 .. m
      /\ \A i \in DOMAIN q : m + i \in DOMAIN c /\ c[m + i] = q[i]
      /\ \A i \in DOMAIN c : \/ i \in DOMAIN p /\ c[i] = p[i] /\ i <= m
                             \/ i - m \in DOMAIN q /\ c[i] = q[i - m] /\ i > m
      /\ \A i \in DOMAIN c : i \in Nat
  BY ConcatProperties
<1>. HIDE DEF c, m
<1>2. /\ \A i \in Of(s, p) : i \in Of(s, c) /\ c[i] = p[i] /\ i <= m
      /\ \A i \in Of(s, q) : m + i \in Of(s, c) /\ c[m + i] = q[i]
      /\ \A i \in Of(s, c) : /\ i \in Nat
                             /\ \/ i \in Of(s, p) /\ c[i] = p[i] /\ i <= m
                                \/ i - m \in Of(s, q) /\ c[i] = q[i - m] /\ i > m
  BY <1>1 DEF Of
<1>3. Numbers(s, c) = Numbers(s, p) \cup Numbers(s, q)
  <2>1. \A n \in Numbers(s, c) : n \in Numbers(s, p) \cup Numbers(s, q)
    BY <1>2 DEF Numbers
  <2>2. \A n \in Numbers(s, p) : n \in Numbers(s, c)
    BY <1>2 DEF Numbers
  <2>3. \A n \in Numbers(s, q) : n \in Numbers(s, c)
    <3>. SUFFICES ASSUME NEW n \in Numbers(s, q) PROVE n \in Numbers(s, c)
      OBVIOUS
    <3>1. PICK i \in Of(s, q) : n = Number(q[i])
      BY DEF Numbers
    <3>2. m + i \in Of(s, c) /\ n = Number(c[m + i])
      BY <1>2, <3>1
    <3>. QED
      BY <3>2 DEF Numbers
  <2>. QED
    BY <2>1, <2>2, <2>3
<1>4. ASSUME Ascending(s, p), Ascending(s, q), Below(s, p, q) PROVE Ascending(s, c)
  <2>. SUFFICES ASSUME NEW i \in Of(s, c), NEW j \in Of(s, c), i < j PROVE Number(c[i]) < Number(c[j])
    BY DEF Ascending
  <2>1. CASE i \in Of(s, p) /\ j \in Of(s, p) /\ c[i] = p[i] /\ c[j] = p[j]
    BY <1>4, <2>1 DEF Ascending
  <2>2. CASE i \in Of(s, p) /\ j - m \in Of(s, q) /\ c[i] = p[i] /\ c[j] = q[j - m]
    BY <1>4, <2>2 DEF Below
  <2>3. CASE i - m \in Of(s, q) /\ j - m \in Of(s, q) /\ c[i] = q[i - m] /\ c[j] = q[j - m]
    <3>1. i - m < j - m
      BY <1>1, <1>2
    <3>. QED
      BY <1>4, <2>3, <3>1 DEF Ascending
  <2>4. ~(i > m /\ j <= m)
    BY <1>1, <1>2
  <2>. QED
    BY <1>2, <2>1, <2>2, <2>3, <2>4
<1>5. ASSUME NEW t, Below(s, p, t), Below(s, q, t) PROVE Below(s, c, t)
  BY <1>2, <1>5 DEF Below
<1>. QED
  BY <1>1, <1>3, <1>4, <1>5 DEF c

\* A queue of at most one element is in order.
LEMMA SingleAscends ==
  ASSUME NEW S, NEW q \in Seq(S), Len(q) <= 1, NEW s
  PROVE  Ascending(s, q)
<1>1. \A i \in Of(s, q) : i \in 1 .. Len(q)
  BY DEF Of
<1>. QED
  BY <1>1 DEF Ascending

\* The requests of a slice in one of its queues are in the channel.
LEMMA NumbersFly ==
  ASSUME NEW q, NEW s
  PROVE  /\ \A i \in Of(s, q) : q[i] \in Held(q) \ {Null} /\ From(q[i]) = s
         /\ \A r \in Held(q) \ {Null} : From(r) = s => Number(r) \in Numbers(s, q)
BY DEF Of, Held, Numbers

\* The invariants together give the order of the requests, for every slice.
LEMMA InvInOrder == Inv /\ AgeInv /\ NumInv => InOrder
<1>. SUFFICES ASSUME Inv, AgeInv, NumInv, NEW s \in Slices
              PROVE  /\ Numbers(s, Pipeline(s)) = (answered[s] + 1) .. sent[s]
                     /\ Ascending(s, Pipeline(s))
                     /\ Of(s, dram_L2[s]) = DOMAIN dram_L2[s]
  BY DEF InOrder
<1>. DEFINE D == Request \cup {Null}
            d == dram_L2[s]
            l == L2_dram[s]
            c2 == d \o returnq
            c3 == c2 \o rwq
            c4 == c3 \o mrqq
            c5 == c4 \o Waiting
<1>t. /\ sent[s] \in Nat /\ answered[s] \in Nat /\ Issued(s) \in Int /\ Flying \subseteq Request
      /\ Len(l) \in Nat /\ Issued(s) = sent[s] - Len(l)
      /\ l \in Seq(Request) /\ d \in Seq(Request) /\ Len(d) <= 1
      /\ mrqq \in Seq(Request) /\ returnq \in Seq(Request) /\ rwq \in Seq(D)
      /\ Len(mrqq) <= 1 /\ Len(returnq) <= 1
  BY NumTypes, AgeTypes DEF Inv, StageInv, Issued
<1>w. /\ Waiting \in Seq(Request) /\ DOMAIN Waiting = DOMAIN dram_latency_queue
      /\ \A i \in DOMAIN Waiting : Waiting[i] = dram_latency_queue[i][1]
  <2>1. dram_latency_queue \in Seq(Request \X Nat)
    BY AgeTypes
  <2>2. \A i \in 1 .. Len(dram_latency_queue) : dram_latency_queue[i][1] \in Request
    BY <2>1
  <2>. QED
    BY <2>1, <2>2 DEF Waiting
<1>h. Held(Waiting) = Queued
  BY <1>w DEF Held, Queued
<1>i. /\ Held(d) \subseteq Returned
      /\ (Held(returnq) \cup (Held(rwq) \ {Null}) \cup Held(mrqq) \cup Queued) \ {Null} \subseteq Inside
      /\ Inside \subseteq Flying /\ Returned \ {Null} \subseteq Flying
  BY DEF Returned, Inside, Flying
<1>s. /\ l \in Seq(D) /\ d \in Seq(D) /\ mrqq \in Seq(D) /\ returnq \in Seq(D) /\ Waiting \in Seq(D)
  <2>1. Request \subseteq D
    OBVIOUS
  <2>. HIDE DEF D
  <2>2. \A q \in Seq(Request) : q \in Seq(D)
    BY <2>1
  <2>. QED
    BY <1>t, <1>w, <2>2
<1>p. Pipeline(s) = c5 \o l
  BY DEF Pipeline
<1>. HIDE DEF D, d, l
\* A queue is below another when its requests were issued earlier.
<1>1. ASSUME NEW p, NEW q, Held(p) \ {Null} \subseteq Flying, Held(q) \ {Null} \subseteq Flying,
             \A r \in Held(p) \ {Null}, y \in Held(q) \ {Null} : IssuedAt(r) < IssuedAt(y)
      PROVE  Below(s, p, q)
  BY <1>1, NumbersFly DEF Below, NumInv, IssueOrder
<1>2. /\ Below(s, d, returnq) /\ Below(s, d, rwq) /\ Below(s, d, mrqq) /\ Below(s, d, Waiting)
  <2>1. \A r \in Held(d) \ {Null}, y \in Inside : IssuedAt(r) < IssuedAt(y)
    BY <1>i, OlderFirst
  <2>2. /\ Held(d) \ {Null} \subseteq Flying /\ Held(returnq) \ {Null} \subseteq Inside
        /\ Held(rwq) \ {Null} \subseteq Inside /\ Held(mrqq) \ {Null} \subseteq Inside
        /\ Held(Waiting) \ {Null} \subseteq Inside /\ Inside \subseteq Flying
    BY <1>h, <1>i
  <2>. QED
    BY <1>1, <2>1, <2>2
<1>3. /\ Below(s, returnq, rwq) /\ Below(s, returnq, mrqq) /\ Below(s, returnq, Waiting)
      /\ Below(s, rwq, mrqq) /\ Below(s, rwq, Waiting) /\ Below(s, mrqq, Waiting)
  <2>1. /\ Held(returnq) \ {Null} \subseteq Flying /\ Held(rwq) \ {Null} \subseteq Flying
        /\ Held(mrqq) \ {Null} \subseteq Flying /\ Held(Waiting) \ {Null} \subseteq Flying
    BY <1>h, <1>i
  <2>2. /\ \A r \in Held(returnq), y \in (Held(rwq) \ {Null}) \cup Held(mrqq) \cup Held(Waiting) :
              IssuedAt(r) < IssuedAt(y)
        /\ \A r \in Held(rwq) \ {Null}, y \in Held(mrqq) \cup Held(Waiting) : IssuedAt(r) < IssuedAt(y)
        /\ \A r \in Held(mrqq), y \in Held(Waiting) : IssuedAt(r) < IssuedAt(y)
    BY <1>h, OlderFirst
  <2>. QED
    BY <1>1, <2>1, <2>2
<1>4. \A q : Held(q) \ {Null} \subseteq Flying => Below(s, q, l)
  <2>. SUFFICES ASSUME NEW q, Held(q) \ {Null} \subseteq Flying, NEW i \in Of(s, q), NEW j \in Of(s, l)
                PROVE  Number(q[i]) < Number(l[j])
    BY DEF Below
  <2>1. q[i] \in Flying /\ From(q[i]) = s
    BY NumbersFly
  <2>2. Number(q[i]) \in (answered[s] + 1) .. Issued(s)
    BY <2>1 DEF NumInv, Tagged
  <2>3. j \in DOMAIN l /\ j \in Nat \ {0}
    BY <1>t DEF Of
  <2>4. Number(l[j]) = Issued(s) + j
    BY <2>3 DEF NumInv, Unissued, l
  <2>5. answered[s] \in Nat /\ Issued(s) \in Int
    BY <1>t
  <2>. QED
    BY <2>2, <2>3, <2>4, <2>5
<1>5. /\ Below(s, d, l) /\ Below(s, returnq, l) /\ Below(s, rwq, l) /\ Below(s, mrqq, l)
      /\ Below(s, Waiting, l)
  BY <1>4, <1>h, <1>i
<1>6. Ascending(s, d) /\ Ascending(s, returnq) /\ Ascending(s, mrqq)
  BY <1>t, SingleAscends
<1>7. Ascending(s, rwq)
  <2>. SUFFICES ASSUME NEW i \in Of(s, rwq), NEW j \in Of(s, rwq), i < j
                PROVE  Number(rwq[i]) < Number(rwq[j])
    BY DEF Ascending
  <2>1. /\ rwq[i] \in Flying /\ rwq[j] \in Flying /\ From(rwq[i]) = s /\ From(rwq[j]) = s
    BY <1>i, NumbersFly
  <2>2. /\ i \in DOMAIN rwq /\ j \in DOMAIN rwq /\ rwq[i] # Null /\ rwq[j] # Null
    BY DEF Of
  <2>3. /\ IssuedAt(rwq[i]) + MissLatency + 1 + (CL - i) = now
        /\ IssuedAt(rwq[j]) + MissLatency + 1 + (CL - j) = now
    BY <2>2 DEF AgeInv, LineAge
  <2>4. /\ i \in Nat /\ j \in Nat /\ CL \in Nat /\ MissLatency \in Nat
        /\ IssuedAt(rwq[i]) \in Nat /\ IssuedAt(rwq[j]) \in Nat
    <3>1. CL \in Nat /\ MissLatency \in Nat /\ DOMAIN rwq = 1 .. CL
      BY AgeTypes
    <3>2. i \in Nat /\ j \in Nat
      BY <2>2, <3>1
    <3>3. \A r \in Request : IssuedAt(r) \in Nat
      BY AgeTypes
    <3>. QED
      BY <1>t, <2>1, <3>1, <3>2, <3>3
  <2>5. IssuedAt(rwq[i]) < IssuedAt(rwq[j])
    BY <2>3, <2>4
  <2>. QED
    BY <2>1, <2>5 DEF NumInv, IssueOrder
<1>8. Ascending(s, Waiting)
  <2>. SUFFICES ASSUME NEW i \in Of(s, Waiting), NEW j \in Of(s, Waiting), i < j
                PROVE  Number(Waiting[i]) < Number(Waiting[j])
    BY DEF Ascending
  <2>1. /\ Waiting[i] \in Flying /\ Waiting[j] \in Flying /\ From(Waiting[i]) = s /\ From(Waiting[j]) = s
    BY <1>h, <1>i, NumbersFly
  <2>2. i \in DOMAIN dram_latency_queue /\ j \in DOMAIN dram_latency_queue
    BY <1>w DEF Of
  <2>3. IssuedAt(Waiting[i]) < IssuedAt(Waiting[j])
    BY <1>w, <2>2 DEF AgeInv, QueueAge
  <2>. QED
    BY <2>1, <2>3 DEF NumInv, IssueOrder
<1>9. Ascending(s, l)
  <2>. SUFFICES ASSUME NEW i \in Of(s, l), NEW j \in Of(s, l), i < j
                PROVE  Number(l[i]) < Number(l[j])
    BY DEF Ascending
  <2>1. i \in DOMAIN l /\ j \in DOMAIN l /\ i \in Nat /\ j \in Nat
    BY <1>t DEF Of
  <2>2. Number(l[i]) = Issued(s) + i /\ Number(l[j]) = Issued(s) + j
    BY <2>1 DEF NumInv, Unissued, l
  <2>. QED
    BY <1>t, <2>1, <2>2
\* The six queues are joined one by one.
<1>10. /\ c2 \in Seq(D) /\ Ascending(s, c2)
       /\ Below(s, c2, rwq) /\ Below(s, c2, mrqq) /\ Below(s, c2, Waiting) /\ Below(s, c2, l)
       /\ Numbers(s, c2) = Numbers(s, d) \cup Numbers(s, returnq)
  BY <1>2, <1>3, <1>5, <1>6, <1>s, Joined
<1>. HIDE DEF c2
<1>11. /\ c3 \in Seq(D) /\ Ascending(s, c3)
       /\ Below(s, c3, mrqq) /\ Below(s, c3, Waiting) /\ Below(s, c3, l)
       /\ Numbers(s, c3) = Numbers(s, c2) \cup Numbers(s, rwq)
  BY <1>3, <1>5, <1>7, <1>10, <1>t, Joined
<1>. HIDE DEF c3
<1>12. /\ c4 \in Seq(D) /\ Ascending(s, c4) /\ Below(s, c4, Waiting) /\ Below(s, c4, l)
       /\ Numbers(s, c4) = Numbers(s, c3) \cup Numbers(s, mrqq)
  BY <1>3, <1>5, <1>6, <1>11, <1>s, Joined
<1>. HIDE DEF c4
<1>13. /\ c5 \in Seq(D) /\ Ascending(s, c5) /\ Below(s, c5, l)
       /\ Numbers(s, c5) = Numbers(s, c4) \cup Numbers(s, Waiting)
  BY <1>5, <1>8, <1>12, <1>s, Joined
<1>. HIDE DEF c5
<1>14. /\ Ascending(s, Pipeline(s))
       /\ Numbers(s, Pipeline(s)) = Numbers(s, c5) \cup Numbers(s, l)
  BY <1>9, <1>13, <1>p, <1>s, Joined
<1>. DEFINE N == Numbers(s, d) \cup Numbers(s, returnq) \cup Numbers(s, rwq) \cup Numbers(s, mrqq)
                 \cup Numbers(s, Waiting)
<1>15. Numbers(s, Pipeline(s)) = N \cup Numbers(s, l)
  BY <1>10, <1>11, <1>12, <1>13, <1>14
<1>16. N = (answered[s] + 1) .. Issued(s)
  <2>1. ASSUME NEW q, Held(q) \ {Null} \subseteq Flying
        PROVE  Numbers(s, q) \subseteq (answered[s] + 1) .. Issued(s)
    BY <2>1, NumbersFly DEF Numbers, NumInv, Tagged
  <2>2. N \subseteq (answered[s] + 1) .. Issued(s)
    BY <1>h, <1>i, <2>1
  <2>3. ASSUME NEW n \in (answered[s] + 1) .. Issued(s) PROVE n \in N
    <3>1. PICK r \in Flying : From(r) = s /\ Number(r) = n
      BY <2>3 DEF NumInv, NoneLost
    <3>2. r # Null /\ r \in Request
      BY <1>t, <3>1, RequestFields
    <3>3. CASE r \in Inside
      <4>1. r \in Held(returnq) \/ r \in Held(rwq) \/ r \in Held(mrqq) \/ r \in Held(Waiting)
        BY <1>h, <3>3 DEF Inside
      <4>. QED
        BY <3>1, <3>2, <4>1, NumbersFly
    <3>4. CASE r \in Returned
      <4>1. PICK z \in Slices : r \in Held(dram_L2[z])
        BY <3>4 DEF Returned
      <4>2. l2_id(r) = z
        BY <4>1 DEF Held, NumInv, Homeward
      <4>3. z = s
        BY <3>1, <4>2 DEF NumInv, Tagged
      <4>. QED
        BY <3>1, <3>2, <4>1, <4>3, NumbersFly DEF d
    <3>. QED
      BY <3>1, <3>3, <3>4 DEF Flying
  <2>. QED
    BY <2>2, <2>3
<1>. HIDE DEF N
<1>17. Numbers(s, l) = (Issued(s) + 1) .. sent[s]
  <2>1. \A i \in DOMAIN l : i \in 1 .. Len(l) /\ From(l[i]) = s /\ Number(l[i]) = Issued(s) + i /\ l[i] # Null
    <3>1. \A i \in DOMAIN l : From(l[i]) = s /\ Number(l[i]) = Issued(s) + i
      BY DEF NumInv, Unissued, l
    <3>2. \A i \in DOMAIN l : i \in 1 .. Len(l) /\ l[i] \in Request
      BY <1>t
    <3>. QED
      BY <3>1, <3>2, RequestFields
  <2>2. Of(s, l) = 1 .. Len(l)
    BY <1>t, <2>1 DEF Of
  <2>3. Numbers(s, l) = {Issued(s) + i : i \in 1 .. Len(l)}
    <3>1. \A i \in 1 .. Len(l) : Number(l[i]) = Issued(s) + i
      BY <2>1, <2>2 DEF Of
    <3>2. Numbers(s, l) = {Number(l[i]) : i \in 1 .. Len(l)}
      BY <2>2 DEF Numbers
    <3>. QED
      BY <3>1, <3>2
  <2>4. ASSUME NEW n \in (Issued(s) + 1) .. sent[s] PROVE n \in {Issued(s) + i : i \in 1 .. Len(l)}
    <3>1. n - Issued(s) \in 1 .. Len(l) /\ n = Issued(s) + (n - Issued(s))
      <4>1. /\ sent[s] \in Nat /\ Issued(s) \in Int /\ Len(l) \in Nat /\ n \in Int
            /\ Issued(s) = sent[s] - Len(l) /\ Issued(s) + 1 <= n /\ n <= sent[s]
        <5>1. sent[s] \in Nat /\ Issued(s) \in Int /\ Len(l) \in Nat /\ Issued(s) = sent[s] - Len(l)
          BY <1>t
        <5>. QED
          BY <2>4, <5>1
      <4>2. n - Issued(s) \in Int /\ 1 <= n - Issued(s) /\ n - Issued(s) <= Len(l)
        BY <4>1
      <4>3. n = Issued(s) + (n - Issued(s))
        BY <4>1
      <4>. QED
        BY <4>1, <4>2, <4>3
    <3>. QED
      BY <3>1
  <2>5. \A i \in 1 .. Len(l) : Issued(s) + i \in (Issued(s) + 1) .. sent[s]
    <3>1. sent[s] \in Nat /\ Issued(s) \in Int /\ Len(l) \in Nat /\ Issued(s) = sent[s] - Len(l)
      BY <1>t
    <3>. QED
      BY <3>1
  <2>. QED
    BY <2>3, <2>4, <2>5
<1>18. Numbers(s, Pipeline(s)) = (answered[s] + 1) .. sent[s]
  <2>1. answered[s] <= Issued(s) /\ Issued(s) <= sent[s]
    BY <1>t DEF NumInv, NoneLost
  <2>2. ((answered[s] + 1) .. Issued(s)) \cup ((Issued(s) + 1) .. sent[s]) = (answered[s] + 1) .. sent[s]
    <3>1. answered[s] \in Int /\ Issued(s) \in Int /\ sent[s] \in Int
      BY <1>t
    <3>2. ASSUME NEW k \in Int
          PROVE  k \in (answered[s] + 1) .. sent[s] <=>
                   k \in (answered[s] + 1) .. Issued(s) \/ k \in (Issued(s) + 1) .. sent[s]
      BY <2>1, <3>1
    <3>3. \A x, y \in Int : x .. y \subseteq Int
      OBVIOUS
    <3>4. /\ (answered[s] + 1) .. Issued(s) \subseteq Int
          /\ (Issued(s) + 1) .. sent[s] \subseteq Int
          /\ (answered[s] + 1) .. sent[s] \subseteq Int
      BY <3>1, <3>3
    <3>. QED
      BY <3>2, <3>4
  <2>. QED
    BY <1>15, <1>16, <1>17, <2>2
<1>19. Of(s, dram_L2[s]) = DOMAIN dram_L2[s]
  <2>. SUFFICES ASSUME NEW i \in DOMAIN d PROVE d[i] # Null /\ From(d[i]) = s
    BY DEF Of, d
  <2>1. d[i] \in Request /\ d[i] \in Held(d) /\ l2_id(d[i]) = s
    BY <1>t DEF Held, NumInv, Homeward, d
  <2>2. d[i] \in Flying
    BY <1>i, <2>1, RequestFields
  <2>. QED
    BY <2>1, <2>2, RequestFields DEF NumInv, Tagged
<1>. QED
  BY <1>14, <1>18, <1>19
-----------------------------------------------------------------------------
\* Every variable keeps its type: in particular a request that comes back names
\* an existing slice, so dram_cycle never indexes past the slices.
THEOREM TypeCorrect == Spec => []TypeOK
<1>1. Inv => TypeOK
  BY DEF Inv
<1>. QED
  BY <1>1, InitInv, NextInv, PTL DEF Spec

\* For any number of slices, any latencies, any positive queue sizes and any
\* traffic, none of the channel's own queues overflows: the assertion of
\* fifo_pipeline::push (delayqueue.h:72) cannot fail for rwq, and mrqq and the
\* return queue never stop a request.
THEOREM ChannelNeverFills == Spec => []ChannelFits
<1>1. Inv => ChannelFits
  <2>. SUFFICES ASSUME Inv PROVE ChannelFits
    OBVIOUS
  <2>1. Len(mrqq) < MrqqLen
    <3>1. Len(mrqq) \in Nat /\ Len(mrqq) <= 1
      BY DEF Inv, TypeOK, StageInv
    <3>. QED
      BY <3>1 DEF MrqqLen
  <2>2. Len(returnq) <= ReturnSize
    <3>1. Len(returnq) \in Nat /\ Len(returnq) <= 1
      BY DEF Inv, TypeOK, StageInv
    <3>. QED
      BY <3>1, Fields
  <2>. QED
    BY <2>1, <2>2 DEF Inv, StageInv, ChannelFits
<1>. QED
  BY <1>1, InitInv, NextInv, PTL DEF Spec

\* Whatever the slices send, a request is back exactly MissLatency + CL + 2 cycles
\* after its issue (MissLatency, and at least 1, with simple_dram_model): every
\* queue of the channel moves its request on in the cycle after it came
\* (cache.cpp:582-627, 668-712, dram.cpp:85-225).
THEOREM LatencyIsConstant == Spec => []ConstantLatency
<1>1. Init => Inv /\ AgeInv
  BY InitInv, InitAge
<1>2. Inv /\ AgeInv /\ [Next]_vars => (Inv /\ AgeInv)'
  BY NextInv, NextAge
<1>3. AgeInv => ConstantLatency
  BY DEF AgeInv
<1>. QED
  BY <1>1, <1>2, <1>3, PTL DEF Spec

\* For any number of slices and any traffic, with either DRAM model: the requests
\* of a slice that are in one of the six queues are exactly those it sent and has
\* not got back, each once, in the order they were sent, and none comes back to
\* another slice (cache.cpp:582-627, 668-712, dram.cpp:85-225).
THEOREM RequestsStayInOrder == Spec => []InOrder
<1>1. Init => Inv /\ AgeInv /\ NumInv
  BY InitInv, InitAge, InitNum
<1>2. Inv /\ AgeInv /\ NumInv /\ [Next]_vars => (Inv /\ AgeInv /\ NumInv)'
  BY NextInv, NextAge, NextNum
<1>. QED
  BY <1>1, <1>2, InvInOrder, PTL DEF Spec
=============================================================================
