---------------------------- MODULE TracerProofs ----------------------------
(***************************************************************************)
(* Proofs about the tracer, for any filters, any number of warps and        *)
(* instructions, any size of the channel's buffer and any number of kernels *)
(* and graph launches: which kernels are traced, that a closed file is not  *)
(* written to, and that a closed file holds the whole trace of its kernel.  *)
(***************************************************************************)
EXTENDS Tracer, SequenceTheorems, TLAPS

Record == Kernels \X Warps \X (1 .. Insts)
Item == Record \cup {Marker}
Codes == {FlushKernel, FlushRings, FlushWaits}

Entering == host \in {"open", "receive"}
Leaving == host \in {"leave", "flush", "left"}

\* Every variable keeps its type.
TypeInv ==
  /\ host \in {"app", "enter", "open", "receive", "leave", "flush", "left", "graph", "join", "end", "exit"}
  /\ launch \in [name : Names, captured : BOOLEAN]
  /\ ctx_kernelid \in Nat \ {0}
  /\ {active_region, stop_report, doorbell, recv_thread_started, recv_thread_receiving} \subseteq BOOLEAN
  /\ called \in Seq(Names)
  /\ graph \in Seq(Kernels) /\ graphs \in Nat
  /\ jobs \in Seq(Kernels \cup Codes)
  /\ todo \in [Warps -> 0 .. Insts]
  /\ buff \in Seq(Item) /\ recv_buffer \in Seq(Item)
  /\ recv \in {"loop", "records", "marker", "done"}
  /\ tb_bufs \in [Warps -> Seq(Record)]
  /\ ctx_resultsFile \in Kernels \cup {0}
  /\ opened \subseteq Kernels /\ closed \subseteq Kernels
  /\ written \in [Kernels -> [Warps -> Seq(Record)]]

\* The kernel being entered is the last one called, and its instrumentation is
\* switched on exactly when it reports.
CallInv ==
  /\ Len(called) = IF Entering THEN ctx_kernelid ELSE ctx_kernelid - 1
  /\ host \in {"enter", "open", "receive"} => ctx_kernelid <= MaxKernels
  /\ Entering => called[ctx_kernelid] = launch.name
  /\ Leaving => ctx_kernelid > 1 /\ called[ctx_kernelid - 1] = launch.name
  /\ Entering \/ Leaving => (launch.name \in enabled <=> ~stop_report)

\* Files belong to kernels that were entered, the current one to the last of
\* them that reports.
FileInv ==
  /\ \A k \in opened : k < ctx_kernelid \/ (host = "receive" /\ k = ctx_kernelid)
  /\ \A k \in closed : k < ctx_kernelid
  /\ host \in {"leave", "flush"} => ctx_kernelid - 1 \notin closed
  /\ host = "receive" /\ ~stop_report => ctx_resultsFile = ctx_kernelid
  /\ host \in {"leave", "flush"} /\ ~stop_report => ctx_resultsFile = ctx_kernelid - 1
  /\ host = "flush" => ~stop_report

Base == TypeInv /\ CallInv /\ FileInv
-----------------------------------------------------------------------------
(* Types.                                                                   *)

\* The constants, the codes of the flush kernel and the records.
LEMMA Constants ==
  /\ Insts \in Nat \ {0} /\ MaxKernels \in Nat
  /\ \A c \in Codes : c \in Int /\ ~(c > 0) /\ c \notin Kernels
  /\ \A k \in Kernels : k \in Nat /\ k > 0
  /\ \A r \in Record : r # Marker /\ r[1] \in Kernels /\ r[2] \in Warps /\ r[3] \in 1 .. Insts
  /\ Marker \notin Record
<1>1. Insts \in Nat \ {0} /\ MaxKernels \in Nat
  BY TracerAssumption
<1>2. \A c \in Codes : c \in Int /\ ~(c > 0) /\ c \notin Kernels
  BY DEF Codes, FlushKernel, FlushRings, FlushWaits, Kernels
<1>3. \A k \in Kernels : k \in Nat /\ k > 0
  BY <1>1 DEF Kernels
<1>4. \A r \in Record : r # Marker /\ r[1] \in Kernels /\ r[2] \in Warps /\ r[3] \in 1 .. Insts
  <2>. SUFFICES ASSUME NEW r \in Record
                PROVE  r # Marker /\ r[1] \in Kernels /\ r[2] \in Warps /\ r[3] \in 1 .. Insts
    OBVIOUS
  <2>1. r = <<r[1], r[2], r[3]>> /\ r[1] \in Kernels /\ r[2] \in Warps /\ r[3] \in 1 .. Insts
    BY DEF Record
  <2>2. r # Marker
    BY <2>1 DEF Marker
  <2>. QED
    BY <2>1, <2>2
<1>. QED
  BY <1>1, <1>2, <1>3, <1>4

\* A queue that is not empty.
LEMMA HeadAndTail ==
  ASSUME NEW S, NEW q \in Seq(S), q # <<>>
  PROVE  /\ Len(q) \in Nat \ {0} /\ Head(q) \in S /\ Tail(q) \in Seq(S) /\ Len(Tail(q)) = Len(q) - 1
         /\ 1 \in DOMAIN q /\ Head(q) = q[1]
         /\ \A i \in DOMAIN Tail(q) : i \in Nat \ {0} /\ i + 1 \in DOMAIN q /\ Tail(q)[i] = q[i + 1]
         /\ \A i \in DOMAIN q : i \in Nat \ {0} /\ (i # 1 => i - 1 \in DOMAIN Tail(q) /\ Tail(q)[i - 1] = q[i])
<1>1. Len(q) \in Nat \ {0}
  BY EmptySeq
<1>. QED
  BY <1>1

\* Base holds at the start.
LEMMA InitTypes == Init => Base
<1>. SUFFICES ASSUME Init PROVE Base
  OBVIOUS
<1>1. TypeInv
  <2>1. NoRecords \in [Warps -> Seq(Record)]
    BY DEF NoRecords
  <2>2. todo \in [Warps -> 0 .. Insts]
    BY Constants DEF Init
  <2>3. /\ called \in Seq(Names) /\ graph \in Seq(Kernels) /\ jobs \in Seq(Kernels \cup Codes)
        /\ buff \in Seq(Item) /\ recv_buffer \in Seq(Item)
    BY DEF Init
  <2>4. tb_bufs \in [Warps -> Seq(Record)] /\ written \in [Kernels -> [Warps -> Seq(Record)]]
    BY <2>1 DEF Init
  <2>5. launch \in [name : Names, captured : BOOLEAN]
    BY DEF Init
  <2>6. ctx_kernelid \in Nat \ {0} /\ graphs \in Nat
    BY DEF Init
  <2>. QED
    BY <2>2, <2>3, <2>4, <2>5, <2>6 DEF Init, TypeInv
<1>2. CallInv
  BY DEF Init, CallInv, Entering, Leaving
<1>3. FileInv
  BY DEF Init, FileInv
<1>. QED
  BY <1>1, <1>2, <1>3 DEF Base

\* The steps of the application's thread.
LEMMA EnterDecidesTypes == Base /\ EnterDecides => Base'
<1>. SUFFICES ASSUME Base, EnterDecides PROVE Base'
  OBVIOUS
<1>1. /\ host = "enter" /\ host' \in {"exit", "open"}
      /\ UNCHANGED <<launch, ctx_kernelid, graph, graphs, gpu, channel, flags, receiver, files>>
      /\ active_region' \in BOOLEAN
  BY DEF EnterDecides
<1>2. /\ host' = "exit" => UNCHANGED <<stop_report, enabled, called>>
      /\ host' = "open" => /\ stop_report' = ~active_region'
                           /\ called' = Append(called, launch.name)
                           /\ launch.name \in enabled' <=> active_region'
  BY <1>1 DEF EnterDecides
<1>3. /\ called \in Seq(Names) /\ launch.name \in Names /\ ctx_kernelid \in Nat \ {0}
      /\ Len(called) = ctx_kernelid - 1 /\ ctx_kernelid <= MaxKernels
  BY <1>1 DEF Base, TypeInv, CallInv, Entering
<1>4. host' = "open" => /\ called' \in Seq(Names) /\ Len(called') = ctx_kernelid
                        /\ called'[ctx_kernelid] = launch.name
  BY <1>2, <1>3
<1>5. TypeInv'
  <2>1. called' \in Seq(Names) /\ stop_report' \in BOOLEAN
    BY <1>1, <1>2, <1>3, <1>4 DEF Base, TypeInv
  <2>. QED
    BY <1>1, <2>1 DEF Base, TypeInv, gpu, channel, flags, receiver, files
<1>6. CallInv'
  <2>1. CASE host' = "open"
    BY <1>1, <1>2, <1>3, <1>4, <2>1 DEF CallInv, Entering, Leaving
  <2>2. CASE host' = "exit"
    BY <1>1, <1>2, <1>3, <2>2 DEF CallInv, Entering, Leaving
  <2>. QED
    BY <1>1, <2>1, <2>2
<1>7. FileInv'
  BY <1>1 DEF Base, FileInv, files
<1>. QED
  BY <1>5, <1>6, <1>7 DEF Base

\* The id moves on to the next kernel.
LEMMA EnterReturnsTypes == Base /\ EnterReturns => Base'
<1>. SUFFICES ASSUME Base, EnterReturns PROVE Base'
  OBVIOUS
<1>1. /\ host = "receive" /\ host' \in {"app", "leave"} /\ ctx_kernelid' = ctx_kernelid + 1
      /\ recv_thread_receiving' = TRUE
      /\ UNCHANGED <<launch, active_region, stop_report, enabled, called, graphs, todo, channel,
                     recv_thread_started, receiver, files>>
  BY DEF EnterReturns
<1>2. /\ ctx_kernelid \in Kernels /\ ctx_kernelid \in Nat \ {0}
      /\ Len(called) = ctx_kernelid /\ called[ctx_kernelid] = launch.name
  BY <1>1, Constants DEF Base, TypeInv, CallInv, Entering, Kernels
<1>3. graph' \in Seq(Kernels) /\ jobs' \in Seq(Kernels \cup Codes)
  <2>1. CASE launch.captured
    <3>1. graph' = Append(graph, ctx_kernelid) /\ UNCHANGED jobs
      BY <2>1 DEF EnterReturns
    <3>. QED
      BY <1>2, <3>1, AppendProperties DEF Base, TypeInv
  <2>2. CASE ~launch.captured
    <3>1. (jobs' = <<ctx_kernelid>> \/ jobs' = <<>>) /\ UNCHANGED graph
      BY <2>2 DEF EnterReturns
    <3>2. ctx_kernelid \in Kernels \cup Codes
      BY <1>2
    <3>3. <<ctx_kernelid>> \in Seq(Kernels \cup Codes) /\ <<>> \in Seq(Kernels \cup Codes)
      BY <3>2
    <3>. QED
      BY <3>1, <3>3 DEF Base, TypeInv
  <2>. QED
    BY <2>1, <2>2
<1>4. TypeInv'
  <2>1. ctx_kernelid' \in Nat \ {0}
    BY <1>1, <1>2
  <2>. QED
    BY <1>1, <1>3, <2>1 DEF Base, TypeInv, channel, receiver, files
<1>5. ctx_kernelid' - 1 = ctx_kernelid /\ ctx_kernelid' > 1 /\ ctx_kernelid < ctx_kernelid'
  BY <1>1, <1>2
<1>6. CallInv'
  BY <1>1, <1>2, <1>5 DEF Base, CallInv, Entering, Leaving
<1>7. FileInv'
  <2>1. \A k \in opened : k < ctx_kernelid'
    <3>1. \A k \in opened : k \in Nat /\ (k < ctx_kernelid \/ k = ctx_kernelid)
      BY Constants DEF Base, FileInv, TypeInv
    <3>. QED
      BY <1>1, <1>2, <3>1
  <2>2. \A k \in closed : k < ctx_kernelid' /\ k # ctx_kernelid
    <3>1. \A k \in closed : k \in Nat /\ k < ctx_kernelid
      BY Constants DEF Base, FileInv, TypeInv
    <3>. QED
      BY <1>1, <1>2, <3>1
  <2>. QED
    BY <1>1, <1>5, <2>1, <2>2 DEF Base, FileInv, files
<1>. QED
  BY <1>4, <1>6, <1>7 DEF Base

\* Steps that change neither the kernel's id, the names called nor the files.
LEMMA HostTypes ==
  ASSUME Base,
         \/ \E name \in Names, captured \in BOOLEAN : Launch(name, captured)
         \/ EnterOpens \/ LeaveFlushes \/ LeaveCloses \/ LeaveReturns
         \/ GraphLaunch \/ GraphReturns \/ Profiler \/ CtxTerm \/ Joined
  PROVE  Base'
<1>1. ASSUME NEW name \in Names, NEW captured \in BOOLEAN, Launch(name, captured) PROVE Base'
  <2>1. TypeInv'
    BY <1>1 DEF Base, TypeInv, Launch, selection, gpu, channel, flags, receiver, files
  <2>2. CallInv' /\ FileInv'
    BY <1>1 DEF Base, CallInv, FileInv, Launch, selection, files, Entering, Leaving
  <2>. QED
    BY <2>1, <2>2 DEF Base
<1>2. CASE EnterOpens
  <2>1. ctx_kernelid \in Kernels
    BY <1>2, Constants DEF EnterOpens, Base, TypeInv, CallInv, Kernels
  <2>2. TypeInv'
    BY <1>2, <2>1 DEF Base, TypeInv, EnterOpens, selection, gpu, channel, flags, receiver
  <2>3. CallInv'
    BY <1>2 DEF Base, CallInv, EnterOpens, selection, Entering, Leaving
  <2>4. FileInv'
    BY <1>2 DEF Base, FileInv, EnterOpens, selection
  <2>. QED
    BY <2>2, <2>3, <2>4 DEF Base
<1>3. CASE LeaveFlushes
  <2>1. jobs' = <<FlushKernel>> /\ jobs' \in Seq(Kernels \cup Codes)
    BY <1>3 DEF LeaveFlushes, Codes
  <2>2. TypeInv'
    BY <1>3, <2>1 DEF Base, TypeInv, LeaveFlushes, selection, channel, flags, receiver, files
  <2>3. CallInv' /\ FileInv'
    BY <1>3 DEF Base, CallInv, FileInv, LeaveFlushes, selection, files, Entering, Leaving
  <2>. QED
    BY <2>2, <2>3 DEF Base
<1>4. CASE LeaveCloses
  <2>0. ctx_resultsFile \in Kernels
    <3>1. ctx_resultsFile = ctx_kernelid - 1 /\ ctx_kernelid > 1 /\ ctx_kernelid \in Nat
      BY <1>4 DEF Base, TypeInv, FileInv, CallInv, LeaveCloses, Leaving
    <3>2. ctx_resultsFile # 0
      BY <3>1
    <3>. QED
      BY <3>2 DEF Base, TypeInv
  <2>1. TypeInv'
    BY <1>4, <2>0 DEF Base, TypeInv, LeaveCloses, selection, gpu, channel, flags, receiver
  <2>2. CallInv'
    BY <1>4 DEF Base, CallInv, LeaveCloses, selection, Entering, Leaving
  <2>3. ctx_resultsFile < ctx_kernelid /\ UNCHANGED ctx_kernelid
    BY <1>4 DEF Base, TypeInv, FileInv, LeaveCloses, selection
  <2>4. FileInv'
    BY <1>4, <2>3 DEF Base, FileInv, LeaveCloses, selection
  <2>. QED
    BY <2>1, <2>2, <2>4 DEF Base
<1>5. CASE LeaveReturns
  <2>1. active_region' \in BOOLEAN
    BY <1>5 DEF LeaveReturns
  <2>2. TypeInv'
    BY <1>5, <2>1 DEF Base, TypeInv, LeaveReturns, gpu, channel, flags, receiver, files
  <2>3. CallInv' /\ FileInv'
    BY <1>5 DEF Base, CallInv, FileInv, LeaveReturns, files, Entering, Leaving
  <2>. QED
    BY <2>2, <2>3 DEF Base
<1>6. CASE GraphLaunch
  <2>1. jobs' \in Seq(Kernels \cup Codes)
    <3>1. graph \in Seq(Kernels \cup Codes) /\ FlushKernel \in Kernels \cup Codes
      BY DEF Base, TypeInv, Codes
    <3>. QED
      BY <1>6, <3>1, AppendProperties DEF GraphLaunch
  <2>2. TypeInv'
    BY <1>6, <2>1 DEF Base, TypeInv, GraphLaunch, selection, channel, flags, receiver, files
  <2>3. CallInv' /\ FileInv'
    BY <1>6 DEF Base, CallInv, FileInv, GraphLaunch, selection, files, Entering, Leaving
  <2>. QED
    BY <2>2, <2>3 DEF Base
<1>7. CASE GraphReturns \/ Joined
  <2>1. TypeInv'
    BY <1>7 DEF Base, TypeInv, GraphReturns, Joined, selection, gpu, channel, flags, receiver, files
  <2>2. CallInv' /\ FileInv'
    BY <1>7 DEF Base, CallInv, FileInv, GraphReturns, Joined, selection, files, Entering, Leaving
  <2>. QED
    BY <2>1, <2>2 DEF Base
<1>8. CASE Profiler
  <2>1. TypeInv'
    BY <1>8 DEF Base, TypeInv, Profiler, gpu, channel, flags, receiver, files
  <2>2. CallInv' /\ FileInv'
    BY <1>8 DEF Base, CallInv, FileInv, Profiler, files, Entering, Leaving
  <2>. QED
    BY <2>1, <2>2 DEF Base
<1>9. CASE CtxTerm
  <2>1. TypeInv'
    BY <1>9 DEF Base, TypeInv, CtxTerm, selection, gpu, channel, receiver, files
  <2>2. CallInv' /\ FileInv'
    BY <1>9 DEF Base, CallInv, FileInv, CtxTerm, selection, files, Entering, Leaving
  <2>. QED
    BY <2>1, <2>2 DEF Base
<1>. QED
  BY <1>1, <1>2, <1>3, <1>4, <1>5, <1>6, <1>7, <1>8, <1>9

\* The GPU and the receiver leave the application's thread and the files' names alone.
LEMMA OtherTypes == Base /\ (Gpu \/ Receiver) => Base'
<1>. SUFFICES ASSUME Base, Gpu \/ Receiver PROVE Base'
  OBVIOUS
<1>0. UNCHANGED <<host, launch, selection, graph, graphs, recv_thread_started, ctx_resultsFile, opened, closed>>
  BY DEF Gpu, GpuInstr, GpuFull, GpuEnds, GpuFlushes, Receiver, Recv, RecvStops, RecvRecord, RecvNext,
         RecvWrites, RecvQuits, flags, files
<1>1. CallInv' /\ FileInv'
  BY <1>0 DEF Base, CallInv, FileInv, selection, Entering, Leaving
<1>2. /\ jobs \in Seq(Kernels \cup Codes) /\ todo \in [Warps -> 0 .. Insts] /\ buff \in Seq(Item)
      /\ recv_buffer \in Seq(Item) /\ tb_bufs \in [Warps -> Seq(Record)]
      /\ written \in [Kernels -> [Warps -> Seq(Record)]]
      /\ {doorbell, recv_thread_receiving} \subseteq BOOLEAN
      /\ recv \in {"loop", "records", "marker", "done"}
  BY DEF Base, TypeInv
<1>. DEFINE Rest == /\ jobs \in Seq(Kernels \cup Codes) /\ todo \in [Warps -> 0 .. Insts] /\ buff \in Seq(Item)
                    /\ recv_buffer \in Seq(Item) /\ tb_bufs \in [Warps -> Seq(Record)]
                    /\ written \in [Kernels -> [Warps -> Seq(Record)]]
                    /\ {doorbell, recv_thread_receiving} \subseteq BOOLEAN
                    /\ recv \in {"loop", "records", "marker", "done"}
<1>3. ASSUME NEW w \in Warps, GpuInstr(w) PROVE Rest'
  <2>1. /\ jobs # <<>> /\ Head(jobs) > 0 /\ todo[w] > 0
        /\ todo' = [todo EXCEPT ![w] = todo[w] - 1]
        /\ buff' = buff \/ buff' = Append(buff, <<Head(jobs), w, Insts - todo[w] + 1>>)
        /\ UNCHANGED <<jobs, doorbell, flags, receiver, files>>
    BY <1>3 DEF GpuInstr, Pushes, Running
  <2>2. Head(jobs) \in Kernels
    <3>1. Head(jobs) \in Kernels \cup Codes
      BY <1>2, <2>1, HeadAndTail
    <3>. QED
      BY <2>1, <3>1, Constants
  <2>3. todo[w] - 1 \in 0 .. Insts /\ Insts - todo[w] + 1 \in 1 .. Insts
    <3>1. todo[w] \in 0 .. Insts /\ todo[w] > 0
      BY <1>2, <1>3, <2>1
    <3>2. Insts \in Nat
      BY Constants
    <3>. QED
      BY <3>1, <3>2
  <2>4. <<Head(jobs), w, Insts - todo[w] + 1>> \in Item
    BY <1>3, <2>2, <2>3 DEF Item, Record
  <2>5. buff' \in Seq(Item)
    <3>. DEFINE x == <<Head(jobs), w, Insts - todo[w] + 1>>
    <3>1. x \in Item /\ (buff' = buff \/ buff' = Append(buff, x))
      BY <2>1, <2>4
    <3>. HIDE DEF x
    <3>2. buff \in Seq(Item)
      BY <1>2
    <3>3. Append(buff, x) \in Seq(Item)
      BY <3>1, <3>2, AppendProperties
    <3>. QED
      BY <3>1, <3>2, <3>3
  <2>6. todo' \in [Warps -> 0 .. Insts]
    BY <1>2, <1>3, <2>1, <2>3
  <2>. QED
    BY <1>2, <2>1, <2>5, <2>6 DEF flags, receiver, files
<1>4. ASSUME GpuFull PROVE Rest'
  BY <1>2, <1>4 DEF GpuFull, gpu, flags, receiver, files
<1>5. ASSUME GpuEnds PROVE Rest'
  <2>1. jobs # <<>> /\ jobs' = Tail(jobs) /\ todo' = [w \in Warps |-> Insts]
        /\ UNCHANGED <<channel, flags, receiver, files>>
    BY <1>5 DEF GpuEnds, Running
  <2>2. todo' \in [Warps -> 0 .. Insts]
    BY <2>1, Constants
  <2>3. jobs' \in Seq(Kernels \cup Codes)
    BY <1>2, <2>1, HeadAndTail
  <2>. QED
    BY <1>2, <2>1, <2>2, <2>3 DEF channel, flags, receiver, files
<1>6. ASSUME GpuFlushes PROVE Rest'
  <2>1. Tail(jobs) \in Seq(Kernels \cup Codes)
    BY <1>2, <1>6, HeadAndTail DEF GpuFlushes
  <2>2. \A c \in Codes : <<c>> \o Tail(jobs) \in Seq(Kernels \cup Codes)
    <3>1. \A c \in Codes : <<c>> \in Seq(Kernels \cup Codes)
      OBVIOUS
    <3>. QED
      BY <2>1, <3>1, ConcatProperties
  <2>3. FlushRings \in Codes /\ FlushWaits \in Codes
    BY DEF Codes
  <2>4. jobs' \in Seq(Kernels \cup Codes)
    BY <1>6, <2>1, <2>2, <2>3 DEF GpuFlushes
  <2>5. buff' \in Seq(Item)
    <3>1. Append(buff, Marker) \in Seq(Item)
      BY <1>2 DEF Item
    <3>. QED
      BY <1>2, <1>6, <3>1 DEF GpuFlushes, channel
  <2>6. doorbell' \in BOOLEAN
    BY <1>2, <1>6 DEF GpuFlushes, channel
  <2>. QED
    BY <1>2, <1>6, <2>4, <2>5, <2>6 DEF GpuFlushes, flags, receiver, files
<1>7. ASSUME Recv \/ RecvStops \/ RecvNext PROVE Rest'
  <2>1. CASE Recv
    <3>1. recv_buffer' = buff /\ buff' \in Seq(Item) /\ doorbell' = FALSE /\ recv' = "records"
      BY <2>1 DEF Recv
    <3>. QED
      BY <1>2, <2>1, <3>1 DEF Recv, gpu, flags, files
  <2>2. CASE RecvStops \/ RecvNext
    BY <1>2, <2>2 DEF RecvStops, RecvNext, gpu, channel, flags, files
  <2>. QED
    BY <1>7, <2>1, <2>2
<1>8. ASSUME RecvRecord PROVE Rest'
  <2>. DEFINE r == Head(recv_buffer)
  <2>1. /\ recv_buffer # <<>> /\ r # Marker /\ recv_buffer' = Tail(recv_buffer)
        /\ tb_bufs' = tb_bufs \/ tb_bufs' = [tb_bufs EXCEPT ![r[2]] = Append(tb_bufs[r[2]], r)]
        /\ UNCHANGED <<gpu, channel, flags, recv, files>>
    BY <1>8 DEF RecvRecord, Buffered
  <2>2. r \in Record /\ recv_buffer' \in Seq(Item)
    <3>1. recv_buffer \in Seq(Item)
      BY <1>2
    <3>2. r \in Item /\ Tail(recv_buffer) \in Seq(Item)
      BY <2>1, <3>1, HeadAndTail
    <3>. QED
      BY <2>1, <3>2 DEF Item
  <2>. HIDE DEF r
  <2>3. r[2] \in Warps
    BY <2>2, Constants
  <2>4. Append(tb_bufs[r[2]], r) \in Seq(Record)
    BY <1>2, <2>2, <2>3, AppendProperties
  <2>5. tb_bufs' \in [Warps -> Seq(Record)]
    BY <1>2, <2>1, <2>3, <2>4
  <2>. QED
    BY <1>2, <2>1, <2>2, <2>5 DEF gpu, channel, flags, files
<1>9. ASSUME RecvWrites PROVE Rest'
  <2>1. tb_bufs' \in [Warps -> Seq(Record)]
    BY <1>9 DEF RecvWrites, Cleared, NoRecords
  <2>2. written' \in [Kernels -> [Warps -> Seq(Record)]]
    <3>1. \A k \in Kernels, w \in Warps : written[k][w] \o tb_bufs[w] \in Seq(Record)
      BY <1>2, ConcatProperties
    <3>2. CASE UNCHANGED written
      BY <1>2, <3>2
    <3>3. CASE ~UNCHANGED written
      <4>1. written' = [k \in Kernels |-> IF k = ctx_resultsFile
                                          THEN [w \in Warps |-> written[k][w] \o tb_bufs[w]]
                                          ELSE written[k]]
        BY <1>9, <3>3 DEF RecvWrites
      <4>. QED
        BY <1>2, <3>1, <4>1
    <3>. QED
      BY <3>2, <3>3
  <2>. QED
    BY <1>2, <1>9, <2>1, <2>2 DEF RecvWrites, gpu, channel, flags
<1>10. ASSUME RecvQuits PROVE Rest'
  <2>1. <<>> \in Seq(Item)
    OBVIOUS
  <2>. QED
    BY <1>2, <1>10, <2>1 DEF RecvQuits, gpu, channel, files
<1>11. Rest'
  BY <1>3, <1>4, <1>5, <1>6, <1>7, <1>8, <1>9, <1>10 DEF Gpu, Receiver
<1>12. TypeInv'
  BY <1>0, <1>11 DEF Base, TypeInv, selection
<1>. QED
  BY <1>1, <1>12 DEF Base

\* Base is inductive.
LEMMA NextBase == Base /\ [Next]_vars => Base'
<1>. SUFFICES ASSUME Base, [Next]_vars PROVE Base'
  OBVIOUS
<1>1. CASE EnterDecides
  BY <1>1, EnterDecidesTypes
<1>2. CASE EnterReturns
  BY <1>2, EnterReturnsTypes
<1>3. CASE \/ \E name \in Names, captured \in BOOLEAN : Launch(name, captured)
           \/ EnterOpens \/ LeaveFlushes \/ LeaveCloses \/ LeaveReturns
           \/ GraphLaunch \/ GraphReturns \/ Profiler \/ CtxTerm \/ Joined
  BY <1>3, HostTypes
<1>4. CASE Gpu \/ Receiver
  BY <1>4, OtherTypes
<1>5. CASE UNCHANGED vars
  <2>1. TypeInv'
    BY <1>5 DEF Base, TypeInv, vars, selection, gpu, channel, flags, receiver, files
  <2>2. CallInv' /\ FileInv'
    BY <1>5 DEF Base, CallInv, FileInv, vars, selection, files, Entering, Leaving
  <2>. QED
    BY <2>1, <2>2 DEF Base
<1>. QED
  BY <1>1, <1>2, <1>3, <1>4, <1>5 DEF Next, Host, Ended
-----------------------------------------------------------------------------
(* Which kernels are traced.                                                *)

\* What the code traces: the kernels asked for, and those whose id a range would
\* accept together with the name of the kernel before, if that one was traced.
Wanted(k) == \/ should_trace_kernel(k, called[k])
             \/ (k - 1) \in opened /\ should_trace_kernel(k, called[k - 1])

\* What the region says at every point of a launch: on the way in, whether the
\* kernel before was traced and the next id still fits its name; once decided,
\* whether the kernel is traced.
RegionInv ==
  /\ host \in {"app", "enter"} =>
       (active_region <=> /\ (ctx_kernelid - 1) \in opened
                          /\ should_trace_kernel(ctx_kernelid, called[ctx_kernelid - 1]))
  /\ host = "open" => (active_region <=> Wanted(ctx_kernelid))
  /\ host = "receive" => (active_region <=> ctx_kernelid \in opened)
  /\ Leaving => (active_region <=> (ctx_kernelid - 1) \in opened)
  /\ Entering \/ Leaving => stop_report = ~active_region
  /\ host # "graph"

SelectInv ==
  active_from_start /\ graph = <<>> =>
    /\ \A k \in 1 .. Len(called) : (host = "open" /\ k = ctx_kernelid) \/ (k \in opened <=> Wanted(k))
    /\ RegionInv

\* No step changes what the user asked for.
LEMMA FiltersKept ==
  ASSUME [Next]_vars
  PROVE  /\ UNCHANGED <<g_kernel_ranges, active_from_start, terminate_upon_limit>>
         /\ \A k, n : should_trace_kernel(k, n)' <=> should_trace_kernel(k, n)
<1>1. UNCHANGED filters
  BY DEF Next, Ended, vars, Host, Gpu, Receiver, Launch, EnterDecides, EnterOpens, EnterReturns,
         LeaveFlushes, LeaveCloses, LeaveReturns, GraphLaunch, GraphReturns, Profiler, CtxTerm, Joined,
         GpuInstr, GpuFull, GpuEnds, GpuFlushes, Recv, RecvStops, RecvRecord, RecvNext, RecvWrites, RecvQuits
<1>2. UNCHANGED <<g_kernel_ranges, active_from_start, terminate_upon_limit>>
  BY <1>1 DEF filters
<1>3. \A k, n : should_trace_kernel(k, n)' <=> should_trace_kernel(k, n)
  BY <1>2 DEF should_trace_kernel
<1>. QED
  BY <1>2, <1>3

\* A later kernel does not change whether an earlier one is wanted.
LEMMA WantedKept ==
  ASSUME Base, Base', [Next]_vars, NEW k \in 1 .. Len(called),
         \A i \in 1 .. Len(called) : called'[i] = called[i],
         (k - 1) \in opened' <=> (k - 1) \in opened
  PROVE  Wanted(k)' <=> Wanted(k)
<1>1. Len(called) \in Nat /\ opened \subseteq Kernels /\ opened' \subseteq Kernels
  BY DEF Base, TypeInv
<1>2. (k - 1) \in opened => k - 1 \in 1 .. Len(called)
  BY <1>1, Constants
<1>3. called'[k] = called[k] /\ ((k - 1) \in opened => called'[k - 1] = called[k - 1])
  BY <1>2
<1>4. \A m, n : should_trace_kernel(m, n)' <=> should_trace_kernel(m, n)
  BY FiltersKept
<1>. QED
  BY <1>3, <1>4 DEF Wanted

\* A graph once captured into stays so.
LEMMA GraphGrows ==
  ASSUME Base, [Next]_vars, graph' = <<>>
  PROVE  graph = <<>> /\ (EnterReturns => ~launch.captured)
<1>1. graph \in Seq(Kernels)
  BY DEF Base, TypeInv
<1>2. ctx_kernelid \in Kernels => Append(graph, ctx_kernelid) # <<>>
  BY <1>1, AppendProperties, EmptySeq
<1>3. graph' = graph \/ (EnterReturns /\ (launch.captured => graph' = Append(graph, ctx_kernelid)))
  BY DEF Next, Ended, vars, Host, Gpu, Receiver, Launch, EnterDecides, EnterOpens, EnterReturns,
         LeaveFlushes, LeaveCloses, LeaveReturns, GraphLaunch, GraphReturns, Profiler, CtxTerm, Joined,
         GpuInstr, GpuFull, GpuEnds, GpuFlushes, Recv, RecvStops, RecvRecord, RecvNext, RecvWrites, RecvQuits
<1>4. EnterReturns => IF launch.captured THEN graph' = Append(graph, ctx_kernelid) ELSE graph' = graph
  BY DEF EnterReturns
<1>5. EnterReturns => ctx_kernelid \in Kernels
  BY Constants DEF EnterReturns, Base, TypeInv, CallInv, Kernels
<1>. QED
  BY <1>2, <1>3, <1>4, <1>5

\* Nothing is traced at the start.
LEMMA InitSelect == Init => SelectInv
<1>. SUFFICES ASSUME Init PROVE SelectInv
  OBVIOUS
<1>1. RegionInv
  BY DEF Init, RegionInv, Entering, Leaving
<1>2. 1 .. Len(called) = {}
  BY DEF Init
<1>. QED
  BY <1>1, <1>2 DEF SelectInv

\* The steps that decide about a kernel and the ones that act on the decision.
LEMMA DecideSelects ==
  ASSUME Base, Base', [Next]_vars, SelectInv, EnterDecides
  PROVE  SelectInv'
<1>. SUFFICES ASSUME active_from_start', graph' = <<>> 
     PROVE  /\ \A k \in 1 .. Len(called') :
                 (host' = "open" /\ k = ctx_kernelid') \/ (k \in opened' <=> Wanted(k)')
            /\ RegionInv'
  BY DEF SelectInv
<1>1. active_from_start /\ graph = <<>>
  BY FiltersKept, GraphGrows
<1>2. /\ \A k \in 1 .. Len(called) : (host = "open" /\ k = ctx_kernelid) \/ (k \in opened <=> Wanted(k))
      /\ RegionInv
  BY <1>1 DEF SelectInv
<1>3. /\ host = "enter" /\ UNCHANGED <<launch, ctx_kernelid, opened>>
      /\ \/ host' = "exit" /\ UNCHANGED called
         \/ /\ host' = "open" /\ called' = Append(called, launch.name)
            /\ stop_report' = ~active_region'
      /\ active_region' <=> active_region \/ should_trace_kernel(ctx_kernelid, launch.name)
  BY <1>1 DEF EnterDecides, files
<1>4. called \in Seq(Names) /\ Len(called) = ctx_kernelid - 1 /\ ctx_kernelid \in Nat \ {0}
  BY <1>3 DEF Base, TypeInv, CallInv, Entering
<1>5. \A i \in 1 .. Len(called) : called'[i] = called[i]
  BY <1>3, <1>4
<1>6. \A k \in 1 .. Len(called) : Wanted(k)' <=> Wanted(k)
  BY <1>3, <1>5, WantedKept
<1>7. \A k \in 1 .. Len(called) : k \in opened' <=> Wanted(k)'
  BY <1>2, <1>3, <1>6
<1>8. CASE host' = "exit"
  <2>1. RegionInv'
    BY <1>8 DEF RegionInv, Entering, Leaving
  <2>. QED
    BY <1>3, <1>7, <1>8, <2>1
<1>9. CASE host' = "open"
  <2>1. called'[ctx_kernelid] = launch.name /\ Len(called') = ctx_kernelid
    BY <1>3, <1>4, <1>9
  <2>2. \A k \in 1 .. Len(called') : k \in 1 .. Len(called) \/ k = ctx_kernelid'
    BY <1>3, <1>4, <2>1
  <2>3. (ctx_kernelid - 1) \in opened => called'[ctx_kernelid - 1] = called[ctx_kernelid - 1]
    <3>1. opened \subseteq Kernels
      BY DEF Base, TypeInv
    <3>2. (ctx_kernelid - 1) \in opened => ctx_kernelid - 1 \in 1 .. Len(called)
      BY <1>4, <3>1, Constants
    <3>. QED
      BY <1>5, <3>2
  <2>4. \A m, n : should_trace_kernel(m, n)' <=> should_trace_kernel(m, n)
    BY FiltersKept
  <2>5. active_region <=> /\ (ctx_kernelid - 1) \in opened
                          /\ should_trace_kernel(ctx_kernelid, called[ctx_kernelid - 1])
    BY <1>2, <1>3 DEF RegionInv
  <2>6. Wanted(ctx_kernelid)' <=> \/ should_trace_kernel(ctx_kernelid, launch.name)
                                  \/ /\ (ctx_kernelid - 1) \in opened
                                     /\ should_trace_kernel(ctx_kernelid, called[ctx_kernelid - 1])
    <3>. DEFINE c == ctx_kernelid
    <3>1. /\ UNCHANGED <<ctx_kernelid, opened>>
          /\ called'[c] = launch.name
          /\ (c - 1) \in opened => called'[c - 1] = called[c - 1]
      BY <1>3, <2>1, <2>3
    <3>2. UNCHANGED g_kernel_ranges
      BY FiltersKept
    <3>. QED
      BY <3>1, <3>2 DEF Wanted, should_trace_kernel
  <2>7. active_region' <=> Wanted(ctx_kernelid)'
    BY <1>3, <2>5, <2>6
  <2>8. RegionInv'
    BY <1>3, <1>9, <2>7 DEF RegionInv, Entering, Leaving
  <2>. QED
    BY <1>7, <1>9, <2>2, <2>8
<1>. QED
  BY <1>3, <1>8, <1>9

\* The file is opened for a kernel that is wanted.
LEMMA OpenSelects ==
  ASSUME Base, Base', [Next]_vars, SelectInv, EnterOpens
  PROVE  SelectInv'
<1>. SUFFICES ASSUME active_from_start', graph' = <<>>
     PROVE  (\A k \in 1 .. Len(called') : k \in opened' <=> Wanted(k)') /\ RegionInv'
  BY DEF SelectInv
<1>1. active_from_start /\ graph = <<>>
  BY FiltersKept, GraphGrows
<1>2. /\ \A k \in 1 .. Len(called) : (host = "open" /\ k = ctx_kernelid) \/ (k \in opened <=> Wanted(k))
      /\ RegionInv
  BY <1>1 DEF SelectInv
<1>3. /\ host = "open" /\ host' = "receive" /\ UNCHANGED <<ctx_kernelid, called, active_region, stop_report>>
      /\ opened' = IF stop_report THEN opened ELSE opened \cup {ctx_kernelid}
  BY DEF EnterOpens, selection
<1>4. /\ Len(called) = ctx_kernelid /\ ctx_kernelid \in Nat \ {0} /\ ctx_kernelid \notin opened
  <2>1. ctx_kernelid \in Nat \ {0} /\ \A k \in opened : k < ctx_kernelid
    BY <1>3 DEF Base, TypeInv, FileInv
  <2>. QED
    BY <1>3, <2>1 DEF Base, CallInv, Entering
<1>5. active_region <=> Wanted(ctx_kernelid)
  BY <1>2, <1>3 DEF RegionInv
<1>6. stop_report = ~active_region /\ {stop_report, active_region} \subseteq BOOLEAN
  BY <1>2, <1>3 DEF RegionInv, Entering, Base, TypeInv
<1>7. \A k \in 1 .. Len(called) : (k - 1) \in opened' <=> (k - 1) \in opened
  <2>1. \A k \in 1 .. Len(called) : k - 1 # ctx_kernelid
    BY <1>4
  <2>. QED
    BY <1>3, <2>1
<1>8. \A k \in 1 .. Len(called) : Wanted(k)' <=> Wanted(k)
  BY <1>3, <1>7, WantedKept
<1>9. \A k \in 1 .. Len(called) : k \in opened' <=> Wanted(k)
  <2>1. \A k \in 1 .. Len(called) : k # ctx_kernelid => (k \in opened' <=> Wanted(k))
    BY <1>2, <1>3
  <2>2. ctx_kernelid \in opened' <=> active_region
    BY <1>3, <1>4, <1>6
  <2>. QED
    BY <1>5, <2>1, <2>2
<1>10. RegionInv'
  <2>1. ctx_kernelid \in opened' <=> active_region
    BY <1>3, <1>4, <1>6
  <2>2. (active_region <=> ctx_kernelid \in opened)' /\ stop_report' = ~active_region'
    BY <1>3, <1>6, <2>1
  <2>. QED
    BY <1>3, <2>2 DEF RegionInv, Entering, Leaving
<1>. QED
  BY <1>3, <1>8, <1>9, <1>10

\* The steps after which the kernels traced so far are the same.
LEMMA OthersSelect ==
  ASSUME Base, Base', [Next]_vars, SelectInv, ~EnterDecides, ~EnterOpens
  PROVE  SelectInv'
<1>. SUFFICES ASSUME active_from_start', graph' = <<>>
     PROVE  (\A k \in 1 .. Len(called') : (host' = "open" /\ k = ctx_kernelid') \/ (k \in opened' <=> Wanted(k)'))
            /\ RegionInv'
  BY DEF SelectInv
<1>1. active_from_start /\ graph = <<>>
  BY FiltersKept, GraphGrows
<1>2. /\ \A k \in 1 .. Len(called) : (host = "open" /\ k = ctx_kernelid) \/ (k \in opened <=> Wanted(k))
      /\ RegionInv
  BY <1>1 DEF SelectInv
<1>3. UNCHANGED <<called, opened>>
  BY DEF Next, Ended, vars, Host, Gpu, Receiver, Launch, EnterReturns, LeaveFlushes, LeaveCloses,
         LeaveReturns, GraphLaunch, GraphReturns, Profiler, CtxTerm, Joined, GpuInstr, GpuFull, GpuEnds,
         GpuFlushes, Recv, RecvStops, RecvRecord, RecvNext, RecvWrites, RecvQuits, selection, files
<1>4. \A k \in 1 .. Len(called) : Wanted(k)' <=> Wanted(k)
  BY <1>3, WantedKept
<1>5. host' = "open" \/ host = "open" => host' = host /\ UNCHANGED ctx_kernelid
  BY DEF Next, Ended, vars, Host, Gpu, Receiver, Launch, EnterReturns, LeaveFlushes, LeaveCloses,
         LeaveReturns, GraphLaunch, GraphReturns, Profiler, CtxTerm, Joined, GpuInstr, GpuFull, GpuEnds,
         GpuFlushes, Recv, RecvStops, RecvRecord, RecvNext, RecvWrites, RecvQuits, selection
<1>6. \A k \in 1 .. Len(called') : (host' = "open" /\ k = ctx_kernelid') \/ (k \in opened' <=> Wanted(k)')
  BY <1>2, <1>3, <1>4, <1>5
<1>7. UNCHANGED g_kernel_ranges
  BY FiltersKept
<1>8. CASE EnterReturns
  <2>1. /\ host = "receive" /\ host' = "leave" /\ UNCHANGED <<active_region, stop_report>>
        /\ ctx_kernelid' = ctx_kernelid + 1
    BY <1>8, GraphGrows DEF EnterReturns
  <2>2. ctx_kernelid' - 1 = ctx_kernelid
    BY <2>1 DEF Base, TypeInv
  <2>. QED
    BY <1>2, <1>3, <1>6, <2>1, <2>2 DEF RegionInv, Entering, Leaving
<1>9. CASE LeaveReturns
  <2>1. /\ Leaving /\ host' = "app" /\ UNCHANGED <<ctx_kernelid, called, opened>>
        /\ active_region' <=> active_region /\ should_trace_kernel(ctx_kernelid, launch.name)
    BY <1>1, <1>9 DEF LeaveReturns, Leaving, files
  <2>2. launch.name = called[ctx_kernelid - 1]
    BY <2>1 DEF Base, CallInv
  <2>3. active_region <=> (ctx_kernelid - 1) \in opened
    BY <1>2, <2>1 DEF RegionInv
  <2>4. (active_region <=> /\ (ctx_kernelid - 1) \in opened
                           /\ should_trace_kernel(ctx_kernelid, called[ctx_kernelid - 1]))'
    BY <1>7, <2>1, <2>2, <2>3 DEF should_trace_kernel
  <2>. QED
    BY <1>6, <2>1, <2>4 DEF RegionInv, Entering, Leaving
<1>10. CASE ~EnterReturns /\ ~LeaveReturns
  <2>1. /\ UNCHANGED <<ctx_kernelid, active_region, stop_report>>
        /\ \/ host' = host \/ (host = "app" /\ host' \in {"enter", "join"}) \/ (host = "join" /\ host' = "end")
           \/ (host \in {"leave", "flush"} /\ host' \in {"flush", "left"})
    BY <1>1, <1>2, <1>10
       DEF Next, Ended, vars, Host, Gpu, Receiver, Launch, LeaveFlushes, LeaveCloses,
           GraphLaunch, GraphReturns, Profiler, CtxTerm, Joined, GpuInstr, GpuFull, GpuEnds,
           GpuFlushes, Recv, RecvStops, RecvRecord, RecvNext, RecvWrites, RecvQuits, selection, RegionInv
  <2>2. Wanted(ctx_kernelid)' <=> Wanted(ctx_kernelid)
    BY <1>3, <1>7, <2>1 DEF Wanted, should_trace_kernel
  <2>3. should_trace_kernel(ctx_kernelid, called[ctx_kernelid - 1])'
          <=> should_trace_kernel(ctx_kernelid, called[ctx_kernelid - 1])
    BY <1>3, <1>7, <2>1 DEF should_trace_kernel
  <2>4. RegionInv'
    BY <1>2, <1>3, <2>1, <2>2, <2>3 DEF RegionInv, Entering, Leaving
  <2>. QED
    BY <1>6, <2>4
<1>. QED
  BY <1>8, <1>9, <1>10

\* With tracing under the control of DYNAMIC_KERNEL_RANGE and no kernel captured,
\* every kernel asked for is traced, and none outside the ranges of ids
\* (tracer_tool.cu lines 494 and 715), whatever the ranges are.
THEOREM AskedAreTraced == Spec => []AskedIsTraced
<1>1. Init => Base /\ SelectInv
  BY InitTypes, InitSelect
<1>2. Base /\ SelectInv /\ [Next]_vars => (Base /\ SelectInv)'
  BY NextBase, DecideSelects, OpenSelects, OthersSelect
<1>3. Base /\ SelectInv => AskedIsTraced
  <2>1. \A k : Wanted(k) => \E r \in g_kernel_ranges : InRange(k, r)
    BY DEF Wanted, should_trace_kernel
  <2>2. \A k : should_trace_kernel(k, called[k]) => Wanted(k)
    BY DEF Wanted
  <2>. QED
    BY <2>1, <2>2 DEF SelectInv, AskedIsTraced
<1>. QED
  BY <1>1, <1>2, <1>3, PTL DEF Spec
-----------------------------------------------------------------------------
(* A closed file is not written to.                                         *)

\* The receiver holds records only while it receives.
RecvInv ==
  /\ recv \in {"records", "marker"} => recv_thread_receiving
  /\ recv \in {"loop", "done"} => recv_buffer = <<>>
  /\ recv = "marker" \/ ~recv_thread_receiving => tb_bufs = NoRecords
  /\ host \notin {"join", "end"} => recv_thread_started /\ recv # "done"

\* The GPU works only while the application's thread waits for it, and the
\* flush kernel ends only once the buffer was fetched.
JobsInv ==
  /\ jobs # <<>> => host \in {"leave", "flush", "graph"}
  /\ host = "leave" => jobs = <<>> \/ (~stop_report /\ jobs = <<ctx_kernelid - 1>>)
  /\ host = "flush" => /\ jobs \in {<<>>, <<FlushKernel>>, <<FlushRings>>, <<FlushWaits>>}
                       /\ jobs = <<>> => buff = <<>>
                       /\ jobs = <<FlushWaits>> => doorbell \/ buff = <<>>
  /\ host = "graph" => \A i \in DOMAIN jobs : IF i = Len(jobs) THEN jobs[i] \in Codes ELSE jobs[i] \in Kernels

\* A job of its own.
LEMMA OneJob ==
  /\ \A x : Head(<<x>>) = x /\ Tail(<<x>>) = <<>> /\ <<x>> # <<>>
  /\ \A x, y : <<y>> \o Tail(<<x>>) = <<y>> /\ (<<x>> = <<y>> => x = y)
  /\ FlushKernel = 0 /\ FlushRings = -1 /\ FlushWaits = -2
<1>1. \A x : Head(<<x>>) = x /\ Tail(<<x>>) = <<>> /\ <<x>> # <<>>
  OBVIOUS
<1>2. \A x, y : <<y>> \o <<>> = <<y>>
  OBVIOUS
<1>3. \A x, y : <<x>> = <<y>> => x = y
  OBVIOUS
<1>. QED
  BY <1>1, <1>2, <1>3 DEF FlushKernel, FlushRings, FlushWaits

\* Nothing is received and nothing runs at the start.
LEMMA InitRecvJobs == Init => RecvInv /\ JobsInv
  BY DEF Init, RecvInv, JobsInv

\* RecvInv is inductive.
LEMMA NextRecv == Base /\ RecvInv /\ [Next]_vars => RecvInv'
<1>. SUFFICES ASSUME Base, RecvInv, [Next]_vars PROVE RecvInv'
  OBVIOUS
<1>1. CASE EnterReturns
  BY <1>1 DEF EnterReturns, RecvInv, receiver
<1>2. CASE CtxTerm
  BY <1>2 DEF CtxTerm, RecvInv, receiver
<1>3. CASE Recv
  BY <1>3 DEF Recv, RecvInv, flags
<1>4. CASE RecvStops
  BY <1>4 DEF RecvStops, RecvInv, flags
<1>5. CASE RecvRecord
  BY <1>5 DEF RecvRecord, RecvInv, flags
<1>6. CASE RecvNext
  BY <1>6 DEF RecvNext, RecvInv, flags
<1>7. CASE RecvWrites
  BY <1>7 DEF RecvWrites, RecvInv, flags, Cleared
<1>8. CASE RecvQuits
  BY <1>8 DEF RecvQuits, RecvInv
<1>9. CASE ~(EnterReturns \/ CtxTerm \/ Receiver)
  <2>1. UNCHANGED <<flags, receiver>> /\ (host' \in {"join", "end"} <=> host \in {"join", "end"})
    BY <1>9 DEF Next, Ended, vars, Host, Gpu, Launch, EnterDecides, EnterOpens, LeaveFlushes, LeaveCloses,
           LeaveReturns, GraphLaunch, GraphReturns, Profiler, Joined, GpuInstr, GpuFull, GpuEnds, GpuFlushes
  <2>. QED
    BY <2>1 DEF RecvInv, flags, receiver
<1>. QED
  BY <1>1, <1>2, <1>3, <1>4, <1>5, <1>6, <1>7, <1>8, <1>9 DEF Receiver

\* What the GPU does to its jobs.
LEMMA GpuJobs ==
  ASSUME Base, JobsInv, Gpu
  PROVE  JobsInv'
<1>1. /\ UNCHANGED <<host, ctx_kernelid, stop_report>> /\ jobs # <<>> /\ jobs \in Seq(Kernels \cup Codes)
      /\ host \in {"leave", "flush", "graph"}
  <2>1. UNCHANGED <<host, ctx_kernelid, stop_report>> /\ jobs # <<>>
    BY DEF Gpu, GpuInstr, Pushes, Running, GpuFull, GpuEnds, GpuFlushes, selection
  <2>. QED
    BY <2>1 DEF Base, TypeInv, JobsInv
<1>2. ASSUME NEW w \in Warps, GpuInstr(w) PROVE JobsInv'
  <2>1. Head(jobs) > 0 /\ UNCHANGED jobs
    BY <1>2 DEF GpuInstr, Pushes, Running
  <2>2. host # "flush"
    BY <1>1, <2>1, OneJob DEF JobsInv
  <2>. QED
    BY <1>1, <2>1, <2>2 DEF JobsInv
<1>3. ASSUME GpuFull PROVE JobsInv'
  BY <1>1, <1>3 DEF GpuFull, JobsInv, gpu
<1>4. CASE host = "leave"
  <2>1. jobs = <<ctx_kernelid - 1>> /\ ~stop_report
    BY <1>1, <1>4 DEF JobsInv
  <2>2. Head(jobs) = ctx_kernelid - 1 /\ ctx_kernelid - 1 > 0 /\ Tail(jobs) = <<>>
    BY <1>4, <2>1, OneJob DEF Base, TypeInv, CallInv, Leaving
  <2>3. ~GpuFlushes
    BY <2>2, OneJob DEF GpuFlushes
  <2>4. ASSUME GpuEnds PROVE JobsInv'
    BY <1>1, <1>4, <2>2, <2>4 DEF GpuEnds, JobsInv
  <2>. QED
    BY <1>2, <1>3, <2>3, <2>4 DEF Gpu
<1>5. CASE host = "flush"
  <2>1. PICK c \in Codes : jobs = <<c>>
    BY <1>1, <1>5 DEF JobsInv, Codes
  <2>2. Head(jobs) = c /\ Tail(jobs) = <<>> /\ c \in {FlushKernel, FlushRings, FlushWaits} /\ ~(c > 0)
    BY <2>1, OneJob, Constants DEF Codes
  <2>3. ~GpuEnds
    BY <2>2 DEF GpuEnds, Running
  <2>4. ASSUME GpuFlushes PROVE JobsInv'
    <3>1. \/ c = FlushKernel /\ jobs' = <<FlushRings>>
          \/ c = FlushRings /\ jobs' = <<FlushWaits>> /\ doorbell' = TRUE
          \/ c = FlushWaits /\ jobs' = <<>> /\ buff' = buff /\ ~doorbell
      BY <2>1, <2>2, <2>4, OneJob DEF GpuFlushes, channel
    <3>2. CASE c = FlushKernel
      <4>1. jobs' = <<FlushRings>> /\ jobs' # <<FlushWaits>> /\ jobs' # <<>>
        BY <3>1, <3>2, OneJob
      <4>. QED
        BY <1>1, <1>5, <4>1 DEF JobsInv
    <3>3. CASE c = FlushRings
      <4>1. jobs' = <<FlushWaits>> /\ doorbell' = TRUE /\ jobs' # <<>>
        BY <3>1, <3>3, OneJob
      <4>. QED
        BY <1>1, <1>5, <4>1 DEF JobsInv
    <3>4. CASE c = FlushWaits
      <4>1. jobs' = <<>> /\ buff' = <<>>
        BY <1>5, <2>1, <3>1, <3>4, OneJob DEF JobsInv
      <4>2. jobs' # <<FlushWaits>>
        BY <4>1, OneJob
      <4>. QED
        BY <1>1, <1>5, <4>1, <4>2 DEF JobsInv
    <3>. QED
      BY <3>1, <3>2, <3>3, <3>4
  <2>. QED
    BY <1>2, <1>3, <2>3, <2>4 DEF Gpu
<1>6. CASE host = "graph"
  <2>. DEFINE Shape(q) == \A i \in DOMAIN q : IF i = Len(q) THEN q[i] \in Codes ELSE q[i] \in Kernels
  <2>1. Shape(jobs)
    BY <1>6 DEF JobsInv
  <2>2. Shape(Tail(jobs))
    <3>1. /\ Len(jobs) \in Nat /\ Len(Tail(jobs)) = Len(jobs) - 1
          /\ \A i \in DOMAIN Tail(jobs) : i \in Nat /\ i + 1 \in DOMAIN jobs /\ Tail(jobs)[i] = jobs[i + 1]
      BY <1>1, HeadAndTail
    <3>2. \A i \in DOMAIN Tail(jobs) : i = Len(Tail(jobs)) <=> i + 1 = Len(jobs)
      BY <3>1
    <3>. QED
      BY <2>1, <3>1, <3>2
  <2>3. ASSUME NEW c \in Codes, Head(jobs) \in Codes PROVE Shape(<<c>> \o Tail(jobs))
    <3>1. Len(jobs) = 1
      <4>1. 1 \in DOMAIN jobs /\ Head(jobs) = jobs[1]
        BY <1>1, HeadAndTail
      <4>. QED
        BY <2>1, <2>3, <4>1, Constants
    <3>2. jobs = <<jobs[1]>>
      BY <1>1, <3>1
    <3>3. <<c>> \o Tail(jobs) = <<c>>
      <4>1. Tail(<<jobs[1]>>) = <<>> /\ <<c>> \o Tail(<<jobs[1]>>) = <<c>>
        BY OneJob
      <4>. QED
        BY <3>2, <4>1
    <3>4. Shape(<<c>>)
      OBVIOUS
    <3>. QED
      BY <3>3, <3>4
  <2>4. ASSUME Shape(jobs') PROVE JobsInv'
    BY <1>1, <1>6, <2>4 DEF JobsInv
  <2>. HIDE DEF Shape
  <2>5. ASSUME GpuEnds PROVE JobsInv'
    BY <2>2, <2>4, <2>5 DEF GpuEnds
  <2>6. ASSUME GpuFlushes PROVE JobsInv'
    <3>1. FlushKernel \in Codes /\ FlushRings \in Codes /\ FlushWaits \in Codes
      BY DEF Codes
    <3>2. Shape(jobs')
      BY <2>2, <2>3, <2>6, <3>1 DEF GpuFlushes
    <3>. QED
      BY <2>4, <3>2
  <2>. QED
    BY <1>2, <1>3, <2>5, <2>6 DEF Gpu
<1>. QED
  BY <1>1, <1>4, <1>5, <1>6

\* JobsInv is inductive.
LEMMA NextJobs == Base /\ JobsInv /\ [Next]_vars => JobsInv'
<1>. SUFFICES ASSUME Base, JobsInv, [Next]_vars PROVE JobsInv'
  OBVIOUS
<1>1. CASE EnterReturns
  <2>1. /\ host = "receive" /\ host' \in {"app", "leave"} /\ UNCHANGED stop_report
        /\ jobs = <<>>
    BY <1>1 DEF EnterReturns, JobsInv
  <2>2. ctx_kernelid' - 1 = ctx_kernelid
    BY <1>1 DEF EnterReturns, Base, TypeInv
  <2>3. called[ctx_kernelid] \in enabled <=> ~stop_report
    BY <2>1 DEF Base, CallInv, Entering
  <2>4. CASE launch.captured
    BY <1>1, <2>1, <2>4 DEF EnterReturns, JobsInv
  <2>5. CASE ~launch.captured
    <3>1. host' = "leave" /\ jobs' = IF ~stop_report THEN <<ctx_kernelid>> ELSE <<>>
      BY <1>1, <2>3, <2>5 DEF EnterReturns, Instrumented
    <3>. QED
      BY <2>1, <2>2, <3>1 DEF JobsInv
  <2>. QED
    BY <2>4, <2>5
<1>2. CASE LeaveFlushes
  <2>1. host' = "flush" /\ jobs' = <<FlushKernel>> /\ jobs' # <<>> /\ jobs' # <<FlushWaits>>
    BY <1>2, OneJob DEF LeaveFlushes
  <2>. QED
    BY <2>1 DEF JobsInv
<1>3. CASE GraphLaunch
  <2>1. host' = "graph" /\ jobs' = Append(graph, FlushKernel)
    BY <1>3 DEF GraphLaunch
  <2>2. graph \in Seq(Kernels) /\ FlushKernel \in Codes
    BY DEF Base, TypeInv, Codes
  <2>3. \A i \in DOMAIN jobs' : IF i = Len(jobs') THEN jobs'[i] \in Codes ELSE jobs'[i] \in Kernels
    BY <2>1, <2>2
  <2>. QED
    BY <2>1, <2>3 DEF JobsInv
<1>4. CASE Gpu
  BY <1>4, GpuJobs
<1>5. CASE Recv
  BY <1>5 DEF Recv, JobsInv, gpu, selection
<1>6. CASE ~(EnterReturns \/ LeaveFlushes \/ GraphLaunch \/ Gpu \/ Recv)
  <2>1. /\ UNCHANGED <<jobs, buff, doorbell>>
        /\ \/ UNCHANGED <<host, ctx_kernelid, stop_report>>
           \/ /\ host' \notin {"leave", "flush", "graph"}
              /\ \/ jobs = <<>> \/ host \notin {"leave", "flush", "graph"}
                 \/ host = "leave" /\ stop_report
    BY <1>6 DEF Next, Ended, vars, Host, Receiver, Launch, EnterDecides, EnterOpens, LeaveCloses,
           LeaveReturns, GraphReturns, Profiler, CtxTerm, Joined, RecvStops, RecvRecord, RecvNext, RecvWrites,
           RecvQuits, selection, gpu, channel
  <2>. QED
    BY <2>1 DEF JobsInv
<1>. QED
  BY <1>1, <1>2, <1>3, <1>4, <1>5, <1>6

Plain(q) == \A i \in DOMAIN q : q[i] = Marker

\* With the current file closed nothing but markers is under way, except that a
\* graph's kernels may report; these records stay in the channel, as nobody
\* receives and the flush kernel waits for the doorbell.
CleanParts ==
  /\ tb_bufs = NoRecords /\ Plain(recv_buffer)
  /\ Plain(buff) \/ (host = "graph" /\ ~stop_report)
  /\ ~stop_report /\ host # "open" => ~recv_thread_receiving
  /\ host = "graph" /\ ~stop_report => jobs # <<>> /\ \A i \in DOMAIN jobs : jobs[i] = FlushWaits => doorbell

CleanInv == ctx_resultsFile \in closed => CleanParts

\* The GPU adds only markers, or works for a graph.
LEMMA GpuClean ==
  ASSUME Base, JobsInv, CleanParts, ctx_resultsFile \in closed, Gpu
  PROVE  CleanParts'
<1>1. /\ UNCHANGED <<host, stop_report, recv_thread_receiving, recv_buffer, tb_bufs>>
      /\ jobs # <<>> /\ jobs \in Seq(Kernels \cup Codes) /\ buff \in Seq(Item)
      /\ host \in {"leave", "flush", "graph"}
  <2>1. /\ UNCHANGED <<host, stop_report, recv_thread_receiving, recv_buffer, tb_bufs>> /\ jobs # <<>>
    BY DEF Gpu, GpuInstr, Pushes, Running, GpuFull, GpuEnds, GpuFlushes, selection, flags, receiver
  <2>. QED
    BY <2>1 DEF Base, TypeInv, JobsInv
<1>2. host # "leave" \/ stop_report
  BY DEF Base, FileInv
<1>3. ASSUME NEW w \in Warps, GpuInstr(w) PROVE CleanParts'
  <2>1. Head(jobs) > 0 /\ UNCHANGED <<jobs, doorbell>> /\ (buff' = buff \/ ~stop_report)
    BY <1>3 DEF GpuInstr, Pushes, Running
  <2>2. host # "flush"
    BY <1>1, <2>1, OneJob DEF JobsInv
  <2>3. CASE stop_report
    BY <1>1, <2>1, <2>3 DEF CleanParts, Plain
  <2>4. CASE ~stop_report
    BY <1>1, <1>2, <2>1, <2>2, <2>4 DEF CleanParts
  <2>. QED
    BY <2>3, <2>4
<1>4. ASSUME GpuFull PROVE CleanParts'
  BY <1>1, <1>4 DEF GpuFull, CleanParts, gpu, Plain
<1>5. ASSUME GpuEnds PROVE CleanParts'
  <2>1. Head(jobs) > 0 /\ jobs' = Tail(jobs) /\ UNCHANGED <<buff, doorbell>>
    BY <1>5 DEF GpuEnds, Running, channel
  <2>2. CASE host = "graph" /\ ~stop_report
    <3>1. Head(jobs) \notin Codes /\ 1 \in DOMAIN jobs /\ Head(jobs) = jobs[1]
      BY <1>1, <2>1, HeadAndTail, Constants
    <3>2. Len(jobs) # 1
      BY <2>2, <3>1 DEF JobsInv
    <3>3. Len(jobs) \in Nat \ {0} /\ Tail(jobs) \in Seq(Kernels \cup Codes) /\ Len(Tail(jobs)) = Len(jobs) - 1
      BY <1>1, HeadAndTail
    <3>4. Len(jobs') # 0
      BY <2>1, <3>2, <3>3
    <3>5. jobs' # <<>>
      BY <3>4
    <3>6. \A i \in DOMAIN jobs' : i + 1 \in DOMAIN jobs /\ jobs'[i] = jobs[i + 1]
      BY <1>1, <2>1, HeadAndTail
    <3>7. \A i \in DOMAIN jobs' : jobs'[i] = FlushWaits => doorbell'
      BY <2>1, <2>2, <3>6 DEF CleanParts
    <3>. QED
      BY <1>1, <2>1, <2>2, <3>5, <3>7 DEF CleanParts
  <2>3. CASE ~(host = "graph" /\ ~stop_report)
    BY <1>1, <2>1, <2>3 DEF CleanParts, Plain
  <2>. QED
    BY <2>2, <2>3
<1>6. ASSUME GpuFlushes PROVE CleanParts'
  <2>1. CASE Head(jobs) = FlushKernel
    <3>1. /\ buff' = Append(buff, Marker) /\ jobs' = <<FlushRings>> \o Tail(jobs) /\ UNCHANGED doorbell
      BY <1>6, <2>1, OneJob DEF GpuFlushes
    <3>2. Plain(buff) => Plain(buff')
      BY <1>1, <3>1 DEF Plain
    <3>3. jobs' # <<>> /\ \A i \in DOMAIN jobs' : jobs'[i] = FlushWaits => i \in DOMAIN jobs /\ jobs[i] = FlushWaits
      <4>1. /\ Tail(jobs) \in Seq(Kernels \cup Codes) /\ Len(Tail(jobs)) = Len(jobs) - 1 /\ Len(jobs) \in Nat \ {0}
            /\ \A i \in DOMAIN Tail(jobs) : i + 1 \in DOMAIN jobs /\ Tail(jobs)[i] = jobs[i + 1]
        BY <1>1, HeadAndTail
      <4>2. /\ jobs' \in Seq(Int) /\ Len(jobs') = Len(jobs) /\ jobs'[1] = FlushRings
            /\ \A i \in DOMAIN jobs' : i # 1 => i \in DOMAIN jobs /\ jobs'[i] = jobs[i]
        <5>1. Tail(jobs) \in Seq(Int) /\ FlushRings \in Int
          BY <4>1, Constants, OneJob
        <5>2. <<FlushRings>> \in Seq(Int)
          BY <5>1
        <5>3. /\ jobs' \in Seq(Int) /\ Len(jobs') = 1 + Len(Tail(jobs))
              /\ \A i \in 1 .. Len(jobs') : jobs'[i] = IF i <= 1 THEN FlushRings ELSE Tail(jobs)[i - 1]
          BY <3>1, <5>1, <5>2, ConcatProperties
        <5>. QED
          BY <1>1, <4>1, <5>3
      <4>. QED
        BY <4>1, <4>2, OneJob
    <3>. QED
      BY <1>1, <3>1, <3>2, <3>3 DEF CleanParts, Plain
  <2>2. CASE Head(jobs) = FlushRings
    <3>1. /\ buff' = buff /\ jobs' = <<FlushWaits>> \o Tail(jobs) /\ doorbell' = TRUE
      BY <1>6, <2>2, OneJob DEF GpuFlushes
    <3>2. jobs' # <<>>
      <4>1. Tail(jobs) \in Seq(Kernels \cup Codes)
        BY <1>1, HeadAndTail
      <4>. QED
        BY <3>1, <4>1, OneJob
    <3>. QED
      BY <1>1, <3>1, <3>2 DEF CleanParts, Plain
  <2>3. CASE Head(jobs) = FlushWaits
    <3>1. UNCHANGED channel /\ ~doorbell
      BY <1>6, <2>3, OneJob DEF GpuFlushes
    <3>2. ~(host = "graph" /\ ~stop_report)
      <4>1. 1 \in DOMAIN jobs /\ Head(jobs) = jobs[1]
        BY <1>1, HeadAndTail
      <4>. QED
        BY <2>3, <3>1, <4>1 DEF CleanParts
    <3>. QED
      BY <1>1, <3>1, <3>2 DEF CleanParts, Plain, channel
  <2>. QED
    BY <1>6, <2>1, <2>2, <2>3 DEF GpuFlushes
<1>. QED
  BY <1>3, <1>4, <1>5, <1>6 DEF Gpu

\* CleanInv is inductive: a close finds everything fetched and written.
LEMMA NextClean ==
  ASSUME Base, RecvInv, JobsInv, CleanInv, [Next]_vars
  PROVE  CleanInv'
<1>. SUFFICES ASSUME ctx_resultsFile' \in closed' PROVE CleanParts'
  BY DEF CleanInv
<1>1. CASE LeaveCloses
  <2>1. /\ host = "flush" /\ host' = "left" /\ jobs = <<>> /\ ~recv_thread_receiving
        /\ UNCHANGED <<channel, flags, receiver>>
    BY <1>1 DEF LeaveCloses
  <2>2. buff = <<>> /\ tb_bufs = NoRecords /\ recv_buffer = <<>>
    BY <2>1 DEF JobsInv, RecvInv, Base, TypeInv
  <2>. QED
    BY <2>1, <2>2 DEF CleanParts, Plain, channel, flags, receiver
<1>2. CASE EnterOpens
  <2>1. stop_report /\ UNCHANGED <<ctx_resultsFile, closed, stop_report>>
    <3>1. ctx_kernelid \notin closed
      BY <1>2 DEF EnterOpens, Base, TypeInv, FileInv
    <3>. QED
      BY <1>2, <3>1 DEF EnterOpens, selection
  <2>2. CleanParts
    BY <2>1 DEF CleanInv
  <2>. QED
    BY <1>2, <2>1, <2>2 DEF EnterOpens, CleanParts, Plain, channel, flags, receiver
<1>3. CASE ~LeaveCloses /\ ~EnterOpens
  <2>1. UNCHANGED <<ctx_resultsFile, closed>>
    BY <1>3 DEF Next, Ended, vars, Host, Gpu, Receiver, Launch, EnterDecides, EnterReturns,
         LeaveFlushes, LeaveReturns, GraphLaunch, GraphReturns, Profiler, CtxTerm, Joined,
         GpuInstr, GpuFull, GpuEnds, GpuFlushes, Recv, RecvStops, RecvRecord, RecvNext, RecvWrites,
         RecvQuits, files
  <2>2. CleanParts /\ ctx_resultsFile \in closed
    BY <2>1 DEF CleanInv
  <2>3. CASE EnterDecides
    BY <2>2, <2>3 DEF EnterDecides, CleanParts, Plain, channel, flags, receiver
  <2>4. CASE EnterReturns
    <3>1. stop_report
      <4>1. ~stop_report => ctx_resultsFile = ctx_kernelid
        BY <2>4 DEF EnterReturns, Base, FileInv
      <4>. QED
        BY <2>2, <4>1 DEF Base, TypeInv, FileInv
    <3>. QED
      BY <2>2, <2>4, <3>1 DEF EnterReturns, CleanParts, Plain, channel, receiver
  <2>5. CASE GraphLaunch
    <3>1. /\ host = "app" /\ graph # <<>> /\ jobs' = Append(graph, FlushKernel)
          /\ UNCHANGED <<stop_report, channel, flags, receiver>>
      BY <2>5 DEF GraphLaunch, selection
    <3>2. jobs' # <<>> /\ \A i \in DOMAIN jobs' : jobs'[i] \in Kernels \cup {FlushKernel}
      <4>1. graph \in Seq(Kernels)
        BY DEF Base, TypeInv
      <4>. QED
        BY <3>1, <4>1
    <3>3. FlushWaits \notin Kernels \cup {FlushKernel}
      BY Constants, OneJob DEF Codes
    <3>. QED
      BY <2>2, <3>1, <3>2, <3>3 DEF CleanParts, Plain, channel, flags, receiver
  <2>6. CASE GraphReturns
    BY <2>2, <2>6 DEF GraphReturns, CleanParts, Plain, selection, gpu, channel, flags, receiver
  <2>7. CASE Gpu
    BY <2>2, <2>7, GpuClean
  <2>8. CASE Recv
    <3>1. Plain(buff)
      BY <2>2, <2>8 DEF Recv, CleanParts
    <3>2. ~(host = "graph" /\ ~stop_report)
      BY <2>2, <2>8 DEF Recv, CleanParts
    <3>. QED
      BY <2>2, <2>8, <3>1, <3>2 DEF Recv, CleanParts, Plain, selection, gpu, flags
  <2>9. CASE RecvRecord
    <3>1. recv_buffer # <<>> /\ Head(recv_buffer) # Marker
      BY <2>9 DEF RecvRecord
    <3>2. 1 \in DOMAIN recv_buffer /\ Head(recv_buffer) = recv_buffer[1]
      BY <3>1, HeadAndTail DEF Base, TypeInv
    <3>. QED
      BY <2>2, <3>1, <3>2 DEF CleanParts, Plain
  <2>10. CASE RecvWrites
    BY <2>2, <2>10 DEF RecvWrites, CleanParts, Plain, Cleared, selection, gpu, channel, flags
  <2>11. CASE RecvQuits
    BY <2>2, <2>11 DEF RecvQuits, CleanParts, Plain, selection, gpu, channel
  <2>12. CASE ~(\/ EnterDecides \/ EnterReturns \/ GraphLaunch \/ GraphReturns \/ Gpu
                \/ Recv \/ RecvRecord \/ RecvWrites \/ RecvQuits)
    <3>1. /\ UNCHANGED <<stop_report, buff, doorbell, recv_thread_receiving, recv_buffer, tb_bufs>>
          /\ (host' = "open" <=> host = "open") /\ (host' = "graph" <=> host = "graph")
          /\ host = "graph" => UNCHANGED jobs
      BY <1>3, <2>12 DEF Next, Ended, vars, Host, Receiver, Launch, LeaveFlushes, LeaveReturns, Profiler,
         CtxTerm, Joined, RecvStops, RecvNext, selection, gpu, channel, flags, receiver
    <3>. QED
      BY <2>2, <3>1 DEF CleanParts, Plain
  <2>. QED
    BY <2>3, <2>4, <2>5, <2>6, <2>7, <2>8, <2>9, <2>10, <2>11, <2>12
<1>. QED
  BY <1>1, <1>2, <1>3

\* Only RecvWrites writes, and to a closed file it adds nothing.
LEMMA ClosedFilesKept ==
  ASSUME Base, CleanInv, [Next]_vars
  PROVE  \A k \in closed : written'[k] = written[k]
<1>1. CASE RecvWrites
  <2>. SUFFICES ASSUME NEW k \in closed, k = ctx_resultsFile, ~stop_report PROVE written'[k] = written[k]
    <3>1. closed \subseteq Kernels
      BY DEF Base, TypeInv
    <3>. QED
      BY <1>1, <3>1 DEF RecvWrites
  <2>1. k \in Kernels /\ written[k] \in [Warps -> Seq(Record)]
    BY DEF Base, TypeInv
  <2>2. tb_bufs = NoRecords
    BY DEF CleanInv, CleanParts
  <2>3. written'[k] = [w \in Warps |-> written[k][w] \o tb_bufs[w]]
    BY <1>1, <2>1 DEF RecvWrites
  <2>4. \A w \in Warps : written[k][w] \o tb_bufs[w] = written[k][w]
    BY <2>1, <2>2 DEF NoRecords
  <2>. QED
    BY <2>1, <2>3, <2>4
<1>2. CASE ~RecvWrites
  <2>1. UNCHANGED written
    BY <1>2 DEF Next, Ended, vars, Host, Gpu, Receiver, Launch, EnterDecides, EnterOpens, EnterReturns,
         LeaveFlushes, LeaveCloses, LeaveReturns, GraphLaunch, GraphReturns, Profiler, CtxTerm, Joined,
         GpuInstr, GpuFull, GpuEnds, GpuFlushes, Recv, RecvStops, RecvRecord, RecvNext, RecvQuits, files
  <2>. QED
    BY <2>1
<1>. QED
  BY <1>1, <1>2

\* Graph launches included, the receiver never writes to a closed trace file.
THEOREM ClosedFilesStay == Spec => NoClosedWrite
<1>. DEFINE Inv == Base /\ RecvInv /\ JobsInv /\ CleanInv
<1>1. Init => Inv
  <2>1. Init => CleanInv
    BY DEF Init, CleanInv
  <2>. QED
    BY <2>1, InitTypes, InitRecvJobs
<1>2. Inv /\ [Next]_vars => Inv'
  BY NextBase, NextRecv, NextJobs, NextClean
<1>3. Inv /\ [Next]_vars => [\A k \in closed : written'[k] = written[k]]_vars
  BY ClosedFilesKept
<1>. QED
  BY <1>1, <1>2, <1>3, PTL DEF Spec, NoClosedWrite
-----------------------------------------------------------------------------
(* The records of one warp on their way from the GPU to the file.           *)

\* Where a queue holds records of warp w, and the numbers of these records.
Of(q, w) == {i \in DOMAIN q : q[i] # Marker /\ q[i][2] = w}
Numbers(q, w) == {q[i][3] : i \in Of(q, w)}
Ascends(q, w) == \A i, j \in Of(q, w) : i < j => q[i][3] < q[j][3]

\* Kernel k's warp w has pushed n records.  tb holds the first of them, the
\* receiver's buffer rb the next and the channel's buffer b the rest.
Pipe(tb, rb, b, w, n, k) ==
  /\ Len(tb) <= n /\ \A i \in DOMAIN tb : tb[i] = <<k, w, i>>
  /\ Numbers(rb, w) \cup Numbers(b, w) = (Len(tb) + 1) .. n
  /\ Ascends(rb, w) /\ Ascends(b, w)
  /\ \A l \in Numbers(rb, w), m \in Numbers(b, w) : l < m

\* A record is in its place in the queue.
LEMMA QueueFacts ==
  ASSUME NEW q \in Seq(Item), NEW w
  PROVE  /\ \A i \in Of(q, w) : i \in Nat \ {0} /\ i <= Len(q) /\ q[i] \in Record /\ q[i][3] \in Nat
         /\ Numbers(q, w) \subseteq 1 .. Insts /\ Numbers(q, w) \subseteq Nat
         /\ Plain(q) => Numbers(q, w) = {}
         /\ Numbers(<<>>, w) = {} /\ Ascends(<<>>, w)
<1>1. \A i \in Of(q, w) : i \in Nat \ {0} /\ i <= Len(q) /\ q[i] \in Record
  BY DEF Of, Item
<1>2. \A i \in Of(q, w) : q[i][3] \in 1 .. Insts /\ q[i][3] \in Nat
  BY <1>1, Constants
<1>3. Numbers(q, w) \subseteq 1 .. Insts /\ Numbers(q, w) \subseteq Nat
  BY <1>2 DEF Numbers
<1>4. Plain(q) => Numbers(q, w) = {}
  BY DEF Plain, Numbers, Of
<1>5. Of(<<>>, w) = {}
  BY DEF Of
<1>. QED
  BY <1>1, <1>2, <1>3, <1>4, <1>5 DEF Numbers, Ascends

\* Adding to a queue.
LEMMA QueueAppend ==
  ASSUME NEW q \in Seq(Item), NEW x \in Item, NEW w
  PROVE  /\ x = Marker \/ x[2] # w => /\ Numbers(Append(q, x), w) = Numbers(q, w)
                                      /\ Ascends(q, w) => Ascends(Append(q, x), w)
         /\ x # Marker /\ x[2] = w =>
              /\ Numbers(Append(q, x), w) = Numbers(q, w) \cup {x[3]}
              /\ Ascends(q, w) /\ (\A m \in Numbers(q, w) : m < x[3]) => Ascends(Append(q, x), w)
<1>. DEFINE p == Append(q, x)
<1>1. /\ Len(q) \in Nat /\ DOMAIN q = 1 .. Len(q) /\ DOMAIN p = 1 .. (Len(q) + 1)
      /\ p[Len(q) + 1] = x /\ \A i \in DOMAIN q : p[i] = q[i]
  OBVIOUS
<1>. HIDE DEF p
<1>2. \A i \in DOMAIN p : i \in DOMAIN q \/ i = Len(q) + 1
  BY <1>1
<1>3. Len(q) + 1 \notin DOMAIN q /\ DOMAIN q \subseteq DOMAIN p /\ Len(q) + 1 \in DOMAIN p
  BY <1>1
<1>4. CASE x = Marker \/ x[2] # w
  <2>1. Of(p, w) = Of(q, w) /\ \A i \in Of(q, w) : p[i] = q[i]
    BY <1>1, <1>2, <1>3, <1>4 DEF Of
  <2>2. Numbers(p, w) = Numbers(q, w) /\ (Ascends(q, w) => Ascends(p, w))
    BY <2>1 DEF Numbers, Ascends
  <2>. QED
    BY <1>4, <2>2 DEF p
<1>5. CASE x # Marker /\ x[2] = w
  <2>1. Of(p, w) = Of(q, w) \cup {Len(q) + 1} /\ \A i \in Of(q, w) : p[i] = q[i]
    BY <1>1, <1>2, <1>3, <1>5 DEF Of
  <2>2. Numbers(p, w) = Numbers(q, w) \cup {x[3]}
    BY <1>1, <2>1 DEF Numbers
  <2>3. ASSUME Ascends(q, w), \A m \in Numbers(q, w) : m < x[3] PROVE Ascends(p, w)
    <3>1. \A i \in Of(q, w) : i \in Nat /\ i <= Len(q) /\ q[i][3] < x[3]
      BY <2>3, QueueFacts DEF Numbers
    <3>2. ASSUME NEW i \in Of(p, w), NEW j \in Of(p, w), i < j PROVE p[i][3] < p[j][3]
      <4>1. CASE j \in Of(q, w)
        <5>1. i \in Of(q, w)
          BY <1>1, <2>1, <3>1, <3>2, <4>1
        <5>. QED
          BY <2>1, <2>3, <3>2, <4>1, <5>1 DEF Ascends
      <4>2. CASE j = Len(q) + 1
        <5>1. i \in Of(q, w)
          BY <1>1, <2>1, <3>2, <4>2
        <5>. QED
          BY <1>1, <2>1, <3>1, <4>2, <5>1
      <4>. QED
        BY <2>1, <4>1, <4>2
    <3>. QED
      BY <3>2 DEF Ascends
  <2>. QED
    BY <1>5, <2>2, <2>3 DEF p
<1>. QED
  BY <1>4, <1>5

\* Taking from a queue.
LEMMA QueueTail ==
  ASSUME NEW q \in Seq(Item), q # <<>>, NEW w
  PROVE  /\ Ascends(q, w) => Ascends(Tail(q), w)
         /\ Head(q) = Marker \/ Head(q)[2] # w => Numbers(Tail(q), w) = Numbers(q, w)
         /\ Head(q) # Marker /\ Head(q)[2] = w /\ Ascends(q, w) =>
              /\ Head(q)[3] \in Numbers(q, w)
              /\ \A m \in Numbers(q, w) : Head(q)[3] <= m
              /\ Numbers(Tail(q), w) = Numbers(q, w) \ {Head(q)[3]}
<1>. DEFINE p == Tail(q)
            h == Head(q)
<1>1. /\ 1 \in DOMAIN q /\ h = q[1]
      /\ \A i \in DOMAIN p : i \in Nat \ {0} /\ i + 1 \in DOMAIN q /\ p[i] = q[i + 1]
      /\ \A i \in DOMAIN q : i \in Nat \ {0} /\ (i # 1 => i - 1 \in DOMAIN p /\ p[i - 1] = q[i])
  BY HeadAndTail
<1>. HIDE DEF p, h
<1>2. \A i \in Of(p, w) : i \in Nat \ {0} /\ i + 1 \in Of(q, w) /\ p[i] = q[i + 1]
  BY <1>1 DEF Of
<1>3. \A i \in Of(q, w) : i \in Nat \ {0} /\ (i # 1 => i - 1 \in Of(p, w) /\ p[i - 1] = q[i])
  BY <1>1 DEF Of
<1>4. 1 \in Of(q, w) <=> h # Marker /\ h[2] = w
  BY <1>1 DEF Of
<1>5. Ascends(q, w) => Ascends(p, w)
  <2>. SUFFICES ASSUME Ascends(q, w), NEW i \in Of(p, w), NEW j \in Of(p, w), i < j PROVE p[i][3] < p[j][3]
    BY DEF Ascends
  <2>1. i + 1 < j + 1
    BY <1>2
  <2>. QED
    BY <1>2, <2>1 DEF Ascends
<1>6. Numbers(p, w) \subseteq Numbers(q, w)
  BY <1>2 DEF Numbers
<1>7. \A m \in Numbers(q, w) : m \in Numbers(p, w) \/ (1 \in Of(q, w) /\ m = h[3])
  <2>. SUFFICES ASSUME NEW i \in Of(q, w) PROVE q[i][3] \in Numbers(p, w) \/ (1 \in Of(q, w) /\ q[i][3] = h[3])
    BY DEF Numbers
  <2>1. CASE i = 1
    BY <1>1, <2>1
  <2>2. CASE i # 1
    BY <1>3, <2>2 DEF Numbers
  <2>. QED
    BY <2>1, <2>2
<1>8. h = Marker \/ h[2] # w => Numbers(p, w) = Numbers(q, w)
  BY <1>4, <1>6, <1>7
<1>9. ASSUME h # Marker, h[2] = w, Ascends(q, w)
      PROVE  /\ h[3] \in Numbers(q, w)
             /\ \A m \in Numbers(q, w) : h[3] <= m
             /\ Numbers(p, w) = Numbers(q, w) \ {h[3]}
  <2>1. 1 \in Of(q, w) /\ h[3] \in Numbers(q, w)
    BY <1>1, <1>4, <1>9 DEF Numbers
  <2>2. \A i \in Of(p, w) : h[3] < p[i][3]
    <3>1. \A i \in Of(p, w) : 1 < i + 1
      BY <1>2
    <3>. QED
      BY <1>1, <1>2, <1>9, <2>1, <3>1 DEF Ascends
  <2>3. \A m \in Numbers(p, w) : h[3] < m
    BY <2>2 DEF Numbers
  <2>4. Numbers(q, w) \subseteq Nat
    BY QueueFacts
  <2>5. \A m \in Numbers(q, w) : h[3] <= m
    BY <1>6, <1>7, <2>1, <2>3, <2>4
  <2>6. h[3] \notin Numbers(p, w)
    BY <1>6, <2>3, <2>4
  <2>. QED
    BY <1>6, <1>7, <2>1, <2>5, <2>6
<1>. QED
  BY <1>5, <1>8, <1>9 DEF p, h

\* The pipe of a warp: it is empty at first.
LEMMA PipeStarts ==
  ASSUME NEW w, NEW k
  PROVE  Pipe(<<>>, <<>>, <<>>, w, 0, k)
<1>1. Numbers(<<>>, w) = {} /\ Ascends(<<>>, w)
  <2>1. <<>> \in Seq(Item)
    OBVIOUS
  <2>. QED
    BY <2>1, QueueFacts
<1>2. (Len(<<>>) + 1) .. 0 = {}
  OBVIOUS
<1>. QED
  BY <1>1, <1>2 DEF Pipe

\* The warp's next record is pushed.
LEMMA PipePush ==
  ASSUME NEW tb, Len(tb) \in Nat, NEW rb \in Seq(Item), NEW b \in Seq(Item), NEW w, NEW n \in Nat, NEW k,
         Pipe(tb, rb, b, w, n, k), <<k, w, n + 1>> \in Record
  PROVE  Pipe(tb, rb, Append(b, <<k, w, n + 1>>), w, n + 1, k)
<1>. DEFINE x == <<k, w, n + 1>>
            c == Append(b, x)
<1>1. x \in Item /\ x # Marker /\ x[2] = w /\ x[3] = n + 1
  BY Constants DEF Item
<1>. HIDE DEF x
<1>2. \A m \in Numbers(rb, w) \cup Numbers(b, w) : m \in Int /\ m < n + 1
  BY DEF Pipe
<1>3. Numbers(c, w) = Numbers(b, w) \cup {n + 1} /\ Ascends(c, w)
  <2>1. \A m \in Numbers(b, w) : m < x[3]
    BY <1>1, <1>2
  <2>2. Ascends(b, w) /\ b \in Seq(Item)
    BY DEF Pipe
  <2>3. Numbers(Append(b, x), w) = Numbers(b, w) \cup {x[3]} /\ Ascends(Append(b, x), w)
    BY <1>1, <2>1, <2>2, QueueAppend
  <2>. QED
    BY <1>1, <2>3
<1>. HIDE DEF c
<1>4. (Len(tb) + 1) .. (n + 1) = (Len(tb) + 1) .. n \cup {n + 1} /\ Len(tb) <= n + 1
  BY DEF Pipe
<1>5. Numbers(rb, w) \cup Numbers(c, w) = (Len(tb) + 1) .. (n + 1)
  BY <1>3, <1>4 DEF Pipe
<1>6. \A l \in Numbers(rb, w), m \in Numbers(c, w) : l < m
  BY <1>2, <1>3 DEF Pipe
<1>7. Pipe(tb, rb, c, w, n + 1, k)
  BY <1>3, <1>4, <1>5, <1>6 DEF Pipe
<1>. QED
  BY <1>7 DEF c, x

\* Another warp's record, or the marker, is pushed.
LEMMA PipeOther ==
  ASSUME NEW tb, NEW rb \in Seq(Item), NEW b \in Seq(Item), NEW w, NEW n, NEW k, NEW x \in Item,
         Pipe(tb, rb, b, w, n, k), x = Marker \/ x[2] # w
  PROVE  Pipe(tb, rb, Append(b, x), w, n, k)
<1>1. Numbers(Append(b, x), w) = Numbers(b, w) /\ (Ascends(b, w) => Ascends(Append(b, x), w))
  BY QueueAppend
<1>. QED
  BY <1>1 DEF Pipe

\* The receiver fetches the channel's buffer.
LEMMA PipeFetch ==
  ASSUME NEW tb, NEW b \in Seq(Item), NEW w, NEW n, NEW k, Pipe(tb, <<>>, b, w, n, k)
  PROVE  Pipe(tb, b, <<>>, w, n, k)
<1>1. Numbers(<<>>, w) = {} /\ Ascends(<<>>, w)
  BY QueueFacts
<1>. QED
  BY <1>1 DEF Pipe

\* The receiver passes over another warp's record, or the marker.
LEMMA PipeSkip ==
  ASSUME NEW tb, NEW rb \in Seq(Item), rb # <<>>, NEW b, NEW w, NEW n, NEW k, Pipe(tb, rb, b, w, n, k),
         Head(rb) = Marker \/ Head(rb)[2] # w
  PROVE  Pipe(tb, Tail(rb), b, w, n, k)
<1>1. Numbers(Tail(rb), w) = Numbers(rb, w) /\ (Ascends(rb, w) => Ascends(Tail(rb), w))
  BY QueueTail
<1>. QED
  BY <1>1 DEF Pipe

\* The receiver takes the warp's record: it is the next one.
LEMMA PipeTake ==
  ASSUME NEW tb \in Seq(Record), NEW rb \in Seq(Item), rb # <<>>, NEW b \in Seq(Item), NEW w, NEW n \in Nat, NEW k,
         Pipe(tb, rb, b, w, n, k), Head(rb) \in Record, Head(rb)[1] = k, Head(rb)[2] = w
  PROVE  Pipe(Append(tb, Head(rb)), Tail(rb), b, w, n, k)
<1>. DEFINE h == Head(rb)
            t == Append(tb, h)
<1>1. h # Marker /\ h[3] \in Nat /\ h = <<k, w, h[3]>>
  <2>1. h[3] \in 1 .. Insts /\ h # Marker
    BY Constants
  <2>2. h = <<h[1], h[2], h[3]>>
    BY DEF Record
  <2>. QED
    BY <2>1, <2>2, Constants
<1>2. /\ h[3] \in Numbers(rb, w) /\ \A m \in Numbers(rb, w) : h[3] <= m
      /\ Numbers(Tail(rb), w) = Numbers(rb, w) \ {h[3]} /\ Ascends(Tail(rb), w)
  BY <1>1, QueueTail DEF Pipe
<1>3. /\ Len(tb) \in Nat /\ Len(t) = Len(tb) + 1 /\ DOMAIN t = 1 .. (Len(tb) + 1)
      /\ \A i \in DOMAIN t : IF i = Len(tb) + 1 THEN t[i] = h ELSE i \in DOMAIN tb /\ t[i] = tb[i]
  OBVIOUS
<1>. HIDE DEF h, t
<1>4. h[3] = Len(tb) + 1 /\ Len(tb) + 1 <= n
  <2>1. h[3] \in (Len(tb) + 1) .. n
    BY <1>2 DEF Pipe
  <2>2. Len(tb) + 1 \in (Len(tb) + 1) .. n
    BY <1>1, <1>3, <2>1
  <2>3. Len(tb) + 1 \in Numbers(rb, w) \/ Len(tb) + 1 \in Numbers(b, w)
    BY <2>2 DEF Pipe
  <2>4. Len(tb) + 1 \in Numbers(rb, w) => h[3] <= Len(tb) + 1
    BY <1>2
  <2>5. Len(tb) + 1 \in Numbers(b, w) => h[3] < Len(tb) + 1
    BY <1>2 DEF Pipe
  <2>6. h[3] <= Len(tb) + 1
    BY <1>1, <1>3, <2>3, <2>4, <2>5
  <2>. QED
    BY <1>1, <1>3, <2>1, <2>6
<1>5. \A i \in DOMAIN t : t[i] = <<k, w, i>>
  BY <1>1, <1>3, <1>4 DEF Pipe
<1>6. Numbers(Tail(rb), w) \cup Numbers(b, w) = (Len(t) + 1) .. n
  <2>1. h[3] \notin Numbers(b, w)
    <3>1. h[3] \in Numbers(b, w) => h[3] < h[3]
      BY <1>2 DEF Pipe
    <3>. QED
      BY <1>1, <3>1
  <2>2. Numbers(Tail(rb), w) \cup Numbers(b, w) = ((Len(tb) + 1) .. n) \ {Len(tb) + 1}
    BY <1>2, <1>4, <2>1 DEF Pipe
  <2>3. ((Len(tb) + 1) .. n) \ {Len(tb) + 1} = (Len(tb) + 2) .. n
    BY <1>3
  <2>. QED
    BY <1>3, <2>2, <2>3
<1>7. \A l \in Numbers(Tail(rb), w), m \in Numbers(b, w) : l < m
  BY <1>2 DEF Pipe
<1>8. Pipe(t, Tail(rb), b, w, n, k)
  BY <1>2, <1>3, <1>4, <1>5, <1>6, <1>7 DEF Pipe
<1>. QED
  BY <1>8 DEF t, h

\* With nothing left on its way, the warp's trace is complete.
LEMMA PipeDone ==
  ASSUME NEW tb \in Seq(Record), NEW rb \in Seq(Item), NEW w, NEW k,
         Pipe(tb, rb, <<>>, w, Insts, k), Plain(rb)
  PROVE  tb = [i \in 1 .. Insts |-> <<k, w, i>>]
<1>1. (Len(tb) + 1) .. Insts = {}
  <2>1. Numbers(rb, w) = {} /\ Numbers(<<>>, w) = {}
    BY QueueFacts
  <2>. QED
    BY <2>1 DEF Pipe
<1>2. Len(tb) \in Nat /\ DOMAIN tb = 1 .. Len(tb) /\ Insts \in Nat \ {0}
  BY Constants
<1>3. Len(tb) >= Insts
  <2>. SUFFICES ASSUME Len(tb) < Insts PROVE FALSE
    BY <1>2
  <2>1. Insts \in (Len(tb) + 1) .. Insts
    BY <1>2
  <2>. QED
    BY <1>1, <2>1
<1>4. Len(tb) = Insts
  <2>1. Len(tb) <= Insts
    BY DEF Pipe
  <2>2. Len(tb) \in Int /\ Insts \in Int
    BY <1>2
  <2>. QED
    BY <1>3, <2>1, <2>2
<1>5. \A i \in 1 .. Insts : tb[i] = <<k, w, i>>
  BY <1>2, <1>4 DEF Pipe
<1>6. tb = [i \in 1 .. Insts |-> tb[i]]
  BY <1>2, <1>4
<1>. QED
  BY <1>5, <1>6
-----------------------------------------------------------------------------
(* A closed file holds the whole trace of its kernel.                       *)

\* The kernel whose launch the application's thread is about to leave.
Mine == ctx_kernelid - 1
Collecting == host \in {"leave", "flush"} /\ ~stop_report

\* The instructions that warp w has reported.
Done(w) == IF host = "leave" /\ jobs # <<>> THEN Insts - todo[w] ELSE Insts

Own(q) == \A i \in DOMAIN q : q[i] # Marker => q[i][1] = Mine
NoMarker(q) == \A i \in DOMAIN q : q[i] # Marker
EndsWithMarker(q) == q # <<>> /\ \A i \in DOMAIN q : q[i] = Marker <=> i = Len(q)

Gathered == \A w \in Warps : Pipe(tb_bufs[w], recv_buffer, buff, w, Done(w), Mine)

\* Where the marker is: not pushed yet, last in the channel, last at the receiver.
NotPushed == (host = "leave" \/ jobs = <<FlushKernel>>) /\ NoMarker(buff) /\ NoMarker(recv_buffer)
InChannel == /\ (jobs = <<FlushRings>> /\ ~doorbell) \/ (jobs = <<FlushWaits>> /\ doorbell)
             /\ host = "flush" /\ EndsWithMarker(buff) /\ NoMarker(recv_buffer)
AtReceiver == /\ host = "flush" /\ jobs \in {<<FlushWaits>>, <<>>} /\ ~doorbell /\ buff = <<>>
              /\ recv = "records" /\ EndsWithMarker(recv_buffer)

\* The kernel's records are under way.
Gathering ==
  /\ recv_thread_receiving /\ recv \in {"loop", "records"}
  /\ written[Mine] = NoRecords
  /\ Own(buff) /\ Own(recv_buffer)
  /\ Gathered
  /\ NotPushed \/ InChannel \/ AtReceiver

\* They are in the file, and the receiver is about to say so or has said so.
Stored ==
  /\ host = "flush" /\ jobs \in {<<FlushWaits>>, <<>>} /\ ~doorbell /\ buff = <<>>
  /\ written[Mine] = FullTrace(Mine) /\ tb_bufs = NoRecords
  /\ \/ recv = "marker" /\ recv_thread_receiving
     \/ recv = "loop" /\ ~recv_thread_receiving

\* Nothing is under way.
Quiet == /\ jobs = <<>> /\ buff = <<>> /\ ~doorbell /\ recv_buffer = <<>>
         /\ tb_bufs = NoRecords /\ recv \in {"loop", "done"}

\* The files of the other kernels.
Settled ==
  /\ \A k \in Kernels : k \in closed => written[k] = FullTrace(k)
  /\ \A k \in Kernels : k \in closed \/ (Collecting /\ k = Mine) \/ written[k] = NoRecords

\* Every kernel starts with all its instructions.
TodoFull == (host = "leave" /\ jobs # <<>>) \/ todo = [w \in Warps |-> Insts]

TraceInv ==
  graphs = 0 =>
    /\ Settled /\ TodoFull
    /\ Collecting => Gathering \/ Stored
    /\ ~Collecting => Quiet

\* Nothing is under way at the start.
LEMMA InitTrace == Init => TraceInv
<1>. SUFFICES ASSUME Init PROVE TraceInv
  OBVIOUS
<1>1. Settled /\ TodoFull /\ Quiet /\ ~Collecting
  BY DEF Init, Settled, TodoFull, Quiet, Collecting
<1>. QED
  BY <1>1 DEF TraceInv

\* What is known while the records of a kernel are collected.
LEMMA CollectingFacts ==
  ASSUME Base, JobsInv, Collecting
  PROVE  /\ Mine \in Kernels /\ Mine > 0 /\ ctx_resultsFile = Mine /\ Mine \notin closed
         /\ buff \in Seq(Item) /\ recv_buffer \in Seq(Item) /\ tb_bufs \in [Warps -> Seq(Record)]
         /\ todo \in [Warps -> 0 .. Insts] /\ Instrumented(Mine)
         /\ host = "leave" => jobs \in {<<>>, <<Mine>>}
         /\ host = "flush" => jobs \in {<<>>, <<FlushKernel>>, <<FlushRings>>, <<FlushWaits>>}
         /\ \A w \in Warps : Done(w) \in Nat
<1>1. ctx_resultsFile = Mine /\ Mine \notin closed /\ ctx_kernelid > 1 /\ ctx_kernelid \in Nat
  BY DEF Collecting, Base, TypeInv, CallInv, FileInv, Mine, Leaving
<1>2. Mine \in Nat /\ Mine > 0
  BY <1>1 DEF Mine
<1>3. Mine \in Kernels
  <2>1. ctx_resultsFile \in Kernels \cup {0}
    BY DEF Base, TypeInv
  <2>. QED
    BY <1>1, <1>2, <2>1
<1>4. /\ buff \in Seq(Item) /\ recv_buffer \in Seq(Item) /\ tb_bufs \in [Warps -> Seq(Record)]
      /\ todo \in [Warps -> 0 .. Insts]
  BY DEF Base, TypeInv
<1>5. Instrumented(Mine)
  BY DEF Instrumented, Collecting, Base, CallInv, Leaving, Mine
<1>6. /\ host = "leave" => jobs \in {<<>>, <<Mine>>}
      /\ host = "flush" => jobs \in {<<>>, <<FlushKernel>>, <<FlushRings>>, <<FlushWaits>>}
  BY DEF JobsInv, Mine
<1>7. \A w \in Warps : Done(w) \in Nat
  BY <1>4, Constants DEF Done
<1>. QED
  BY <1>1, <1>2, <1>3, <1>4, <1>5, <1>6, <1>7

\* The marker at the end of a queue.
LEMMA MarkerLast ==
  ASSUME NEW q \in Seq(Item)
  PROVE  /\ NoMarker(q) => EndsWithMarker(Append(q, Marker))
         /\ q # <<>> /\ NoMarker(q) => Head(q) # Marker /\ NoMarker(Tail(q))
         /\ EndsWithMarker(q) /\ Head(q) # Marker => EndsWithMarker(Tail(q))
         /\ EndsWithMarker(q) /\ Head(q) = Marker => Plain(q)
<1>1. NoMarker(q) => EndsWithMarker(Append(q, Marker))
  BY DEF NoMarker, EndsWithMarker
<1>2. ASSUME q # <<>>
      PROVE  /\ NoMarker(q) => Head(q) # Marker /\ NoMarker(Tail(q))
             /\ EndsWithMarker(q) /\ Head(q) # Marker => EndsWithMarker(Tail(q))
             /\ EndsWithMarker(q) /\ Head(q) = Marker => Plain(q)
  <2>. DEFINE t == Tail(q)
              h == Head(q)
  <2>1. /\ Len(q) \in Nat \ {0} /\ Len(t) = Len(q) - 1 /\ 1 \in DOMAIN q /\ h = q[1] /\ t \in Seq(Item)
        /\ \A i \in DOMAIN t : i \in Nat \ {0} /\ i + 1 \in DOMAIN q /\ t[i] = q[i + 1]
    BY <1>2, HeadAndTail
  <2>. HIDE DEF t, h
  <2>2. NoMarker(q) => h # Marker /\ NoMarker(t)
    BY <2>1 DEF NoMarker
  <2>3. ASSUME EndsWithMarker(q), h # Marker PROVE EndsWithMarker(t)
    <3>1. Len(q) # 1
      BY <2>1, <2>3 DEF EndsWithMarker
    <3>2. Len(t) # 0
      BY <2>1, <3>1
    <3>3. t # <<>>
      BY <3>2
    <3>4. \A i \in DOMAIN t : i = Len(t) <=> i + 1 = Len(q)
      BY <2>1
    <3>. QED
      BY <2>1, <2>3, <3>3, <3>4 DEF EndsWithMarker
  <2>4. ASSUME EndsWithMarker(q), h = Marker PROVE Plain(q)
    <3>1. Len(q) = 1
      BY <2>1, <2>4 DEF EndsWithMarker
    <3>2. DOMAIN q = {1}
      BY <3>1
    <3>. QED
      BY <2>1, <2>4, <3>2 DEF Plain
  <2>. QED
    BY <2>2, <2>3, <2>4 DEF t, h
<1>3. EndsWithMarker(q) => q # <<>>
  BY DEF EndsWithMarker
<1>. QED
  BY <1>1, <1>2, <1>3

\* The GPU's steps while the records of a kernel are under way.
LEMMA GatherInstr ==
  ASSUME Base, JobsInv, Collecting, Gathering, NEW w \in Warps, GpuInstr(w)
  PROVE  Gathering'
<1>0. /\ Mine \in Kernels /\ Mine > 0 /\ buff \in Seq(Item) /\ recv_buffer \in Seq(Item)
      /\ tb_bufs \in [Warps -> Seq(Record)] /\ todo \in [Warps -> 0 .. Insts]
      /\ host = "leave" => jobs \in {<<>>, <<Mine>>}
      /\ host = "flush" => jobs \in {<<>>, <<FlushKernel>>, <<FlushRings>>, <<FlushWaits>>}
      /\ \A v \in Warps : Done(v) \in Nat
  BY CollectingFacts
<1>1. /\ jobs # <<>> /\ Head(jobs) > 0 /\ todo[w] > 0
      /\ buff' = Append(buff, <<Head(jobs), w, Insts - todo[w] + 1>>)
      /\ todo' = [todo EXCEPT ![w] = todo[w] - 1]
      /\ UNCHANGED <<host, ctx_kernelid, stop_report, jobs, recv_thread_receiving, recv, recv_buffer,
                     tb_bufs, written>>
  BY DEF GpuInstr, Pushes, Running, Collecting, selection, flags, receiver, files
<1>2. host = "leave" /\ jobs = <<Mine>> /\ Head(jobs) = Mine /\ UNCHANGED Mine
  BY <1>0, <1>1, OneJob DEF Collecting, Mine
<1>. DEFINE n == Done(w)
            x == <<Mine, w, n + 1>>
<1>3. /\ n = Insts - todo[w] /\ n \in Nat /\ n + 1 \in 1 .. Insts /\ todo[w] \in Nat
  BY <1>0, <1>1, <1>2, Constants DEF Done
<1>4. buff' = Append(buff, x)
  BY <1>1, <1>2, <1>3
<1>5. x \in Record /\ x \in Item /\ x # Marker /\ x[1] = Mine /\ x[2] = w
  <2>1. x \in Record
    BY <1>0, <1>3 DEF Record
  <2>. QED
    BY <2>1, Constants DEF Item
<1>6. /\ Done(w)' = n + 1
      /\ \A v \in Warps : v # w => Done(v)' = Done(v)
  <2>1. todo'[w] = todo[w] - 1 /\ \A v \in Warps : v # w => todo'[v] = todo[v]
    BY <1>0, <1>1
  <2>2. \A v \in Warps : Done(v)' = Insts - todo'[v] /\ Done(v) = Insts - todo[v]
    BY <1>1, <1>2 DEF Done
  <2>3. Insts \in Nat
    BY Constants
  <2>. QED
    BY <1>3, <2>1, <2>2, <2>3
<1>7. ASSUME NEW v \in Warps
      PROVE  Pipe(tb_bufs[v], recv_buffer, buff', v, Done(v)', Mine)
  <2>1. Pipe(tb_bufs[v], recv_buffer, buff, v, Done(v), Mine) /\ Len(tb_bufs[v]) \in Nat
    BY <1>0 DEF Gathering, Gathered
  <2>2. CASE v = w
    <3>1. Pipe(tb_bufs[w], recv_buffer, Append(buff, x), w, n + 1, Mine)
      BY <1>0, <1>3, <1>5, <2>1, <2>2, PipePush
    <3>. QED
      BY <1>4, <1>6, <2>2, <3>1
  <2>3. CASE v # w
    <3>. HIDE DEF x
    <3>1. Pipe(tb_bufs[v], recv_buffer, Append(buff, x), v, Done(v), Mine)
      BY <1>0, <1>5, <2>1, <2>3, PipeOther
    <3>. QED
      BY <1>4, <1>6, <2>3, <3>1
  <2>. QED
    BY <2>2, <2>3
<1>. HIDE DEF n, x
<1>8. Gathered'
  BY <1>1, <1>2, <1>7 DEF Gathered
<1>9. Own(buff)' /\ NoMarker(buff)'
  <2>1. NoMarker(buff) /\ Own(buff)
    BY <1>2 DEF Gathering, NotPushed, InChannel, AtReceiver
  <2>2. \A i \in DOMAIN buff' : (i \in DOMAIN buff /\ buff'[i] = buff[i]) \/ buff'[i] = x
    BY <1>0, <1>4
  <2>. QED
    BY <1>2, <1>5, <2>1, <2>2 DEF NoMarker, Own
<1>10. NotPushed'
  BY <1>1, <1>2, <1>9 DEF Gathering, NotPushed, InChannel, AtReceiver, NoMarker
<1>. QED
  BY <1>1, <1>2, <1>8, <1>9, <1>10 DEF Gathering, Own

\* The GPU's other steps: the kernel ends, the flush kernel pushes the marker.
LEMMA GatherGpu ==
  ASSUME Base, JobsInv, Collecting, Gathering, Gpu
  PROVE  Gathering'
<1>0. /\ Mine \in Kernels /\ Mine > 0 /\ buff \in Seq(Item) /\ todo \in [Warps -> 0 .. Insts] /\ Instrumented(Mine)
      /\ recv_buffer \in Seq(Item) /\ tb_bufs \in [Warps -> Seq(Record)]
      /\ host = "leave" => jobs \in {<<>>, <<Mine>>}
      /\ host = "flush" => jobs \in {<<>>, <<FlushKernel>>, <<FlushRings>>, <<FlushWaits>>}
  BY CollectingFacts
<1>1. CASE \E w \in Warps : GpuInstr(w)
  BY <1>1, GatherInstr
<1>2. CASE ~\E w \in Warps : GpuInstr(w)
  <2>1. /\ UNCHANGED <<host, ctx_kernelid, stop_report, recv_thread_receiving, recv, recv_buffer, tb_bufs, written>>
        /\ UNCHANGED Mine /\ jobs # <<>>
    BY <1>2 DEF Gpu, GpuFull, Pushes, Running, GpuEnds, GpuFlushes, selection, flags, receiver, files, Mine
  <2>2. host = "leave" \/ \E c \in Codes : host = "flush" /\ jobs = <<c>> /\ Head(jobs) = c /\ ~(c > 0)
    BY <1>0, <2>1, OneJob, Constants DEF Collecting, Codes
  <2>3. host = "leave" => jobs = <<Mine>> /\ Head(jobs) = Mine /\ Head(jobs) > 0 /\ Tail(jobs) = <<>>
    BY <1>0, <2>1, OneJob
  <2>4. CASE GpuFull
    <3>1. UNCHANGED <<jobs, todo, buff>>
      BY <2>4 DEF GpuFull, gpu
    <3>2. NotPushed
      <4>1. host = "leave" \/ jobs = <<FlushKernel>>
        BY <2>2, <2>4 DEF GpuFull, Pushes, Running
      <4>2. jobs = <<FlushKernel>> => jobs # <<>> /\ jobs # <<FlushRings>> /\ jobs # <<FlushWaits>>
        BY OneJob
      <4>. QED
        BY <4>1, <4>2 DEF Gathering, NotPushed, InChannel, AtReceiver
    <3>3. Gathered'
      BY <2>1, <3>1 DEF Gathering, Gathered, Done
    <3>4. NotPushed'
      BY <2>1, <3>1, <3>2 DEF NotPushed, NoMarker
    <3>. QED
      BY <2>1, <3>1, <3>3, <3>4 DEF Gathering, Own
  <2>5. CASE GpuEnds
    <3>1. /\ Head(jobs) > 0 /\ jobs' = Tail(jobs) /\ UNCHANGED buff
          /\ \A w \in Warps : ~(Instrumented(Head(jobs)) /\ todo[w] > 0)
      BY <2>5 DEF GpuEnds, Running, Pushes, channel
    <3>2. host = "leave" /\ jobs' = <<>>
      BY <2>2, <2>3, <3>1
    <3>3. \A w \in Warps : Done(w)' = Done(w)
      <4>1. \A w \in Warps : todo[w] = 0
        BY <1>0, <2>3, <3>1, <3>2, Constants
      <4>2. \A w \in Warps : Done(w) = Insts - todo[w] /\ Done(w)' = Insts
        BY <2>1, <3>2 DEF Done
      <4>. QED
        BY <4>1, <4>2, Constants
    <3>4. Gathered'
      BY <2>1, <3>1, <3>3 DEF Gathering, Gathered
    <3>5. NotPushed'
      BY <2>1, <3>1, <3>2 DEF Gathering, NotPushed, InChannel, AtReceiver, NoMarker
    <3>. QED
      BY <2>1, <3>1, <3>4, <3>5 DEF Gathering, Own
  <2>6. CASE GpuFlushes
    <3>1. PICK c \in Codes : host = "flush" /\ jobs = <<c>> /\ Head(jobs) = c
      <4>1. host # "leave"
        BY <2>3, <2>6, OneJob DEF GpuFlushes
      <4>. QED
        BY <2>2, <4>1
    <3>2. \A w \in Warps : Done(w)' = Done(w)
      BY <2>1, <3>1 DEF Done
    <3>3. CASE c = FlushKernel
      <4>1. /\ jobs' = <<FlushRings>> /\ buff' = Append(buff, Marker) /\ ~doorbell /\ UNCHANGED doorbell
        BY <2>6, <3>1, <3>3, OneJob DEF GpuFlushes, Room
      <4>2. NoMarker(buff) /\ NoMarker(recv_buffer)
        BY <3>1, <3>3, OneJob DEF Gathering, NotPushed, InChannel, AtReceiver
      <4>3. EndsWithMarker(buff')
        BY <1>0, <4>1, <4>2, MarkerLast
      <4>4. \A w \in Warps : Pipe(tb_bufs[w], recv_buffer, Append(buff, Marker), w, Done(w), Mine)
        <5>1. Marker \in Item
          BY DEF Item
        <5>. QED
          BY <1>0, <5>1, PipeOther DEF Gathering, Gathered
      <4>5. Gathered'
        BY <2>1, <3>2, <4>1, <4>4 DEF Gathered
      <4>6. Own(buff)'
        <5>1. \A i \in DOMAIN buff' : (i \in DOMAIN buff /\ buff'[i] = buff[i]) \/ buff'[i] = Marker
          BY <1>0, <4>1
        <5>. QED
          BY <2>1, <5>1 DEF Gathering, Own
      <4>7. InChannel'
        BY <2>1, <3>1, <4>1, <4>2, <4>3 DEF InChannel, NoMarker, EndsWithMarker
      <4>. QED
        BY <2>1, <4>5, <4>6, <4>7 DEF Gathering, Own
    <3>4. CASE c = FlushRings
      <4>1. jobs' = <<FlushWaits>> /\ doorbell' = TRUE /\ UNCHANGED buff
        BY <2>6, <3>1, <3>4, OneJob DEF GpuFlushes
      <4>2. InChannel
        BY <3>1, <3>4, OneJob DEF Gathering, NotPushed, AtReceiver
      <4>3. InChannel'
        BY <2>1, <3>1, <4>1, <4>2 DEF InChannel, NoMarker, EndsWithMarker
      <4>4. Gathered'
        BY <2>1, <3>2, <4>1 DEF Gathering, Gathered
      <4>. QED
        BY <2>1, <4>1, <4>3, <4>4 DEF Gathering, Own
    <3>5. CASE c = FlushWaits
      <4>1. jobs' = <<>> /\ ~doorbell /\ UNCHANGED <<buff, doorbell>>
        BY <2>6, <3>1, <3>5, OneJob DEF GpuFlushes, channel
      <4>2. AtReceiver
        BY <3>1, <3>5, <4>1, OneJob DEF Gathering, NotPushed, InChannel
      <4>3. AtReceiver'
        BY <2>1, <3>1, <4>1, <4>2 DEF AtReceiver, EndsWithMarker
      <4>4. Gathered'
        BY <2>1, <3>2, <4>1 DEF Gathering, Gathered
      <4>. QED
        BY <2>1, <4>1, <4>3, <4>4 DEF Gathering, Own
    <3>. QED
      BY <3>3, <3>4, <3>5 DEF Codes
  <2>. QED
    BY <1>2, <2>4, <2>5, <2>6 DEF Gpu
<1>. QED
  BY <1>1, <1>2

\* The receiver takes a record while they are under way.
LEMMA GatherRecord ==
  ASSUME Base, JobsInv, Collecting, Gathering, RecvRecord
  PROVE  Gathering'
<1>0. /\ recv_buffer \in Seq(Item) /\ buff \in Seq(Item) /\ tb_bufs \in [Warps -> Seq(Record)]
      /\ \A w \in Warps : Done(w) \in Nat
  BY CollectingFacts
<1>. DEFINE h == Head(recv_buffer)
            t == Tail(recv_buffer)
<1>1. /\ recv = "records" /\ recv_buffer # <<>> /\ h # Marker /\ recv_buffer' = t
      /\ tb_bufs' = [tb_bufs EXCEPT ![h[2]] = Append(tb_bufs[h[2]], h)]
      /\ UNCHANGED <<host, ctx_kernelid, stop_report, jobs, todo, buff, doorbell, recv_thread_receiving, recv,
                     written>>
      /\ UNCHANGED Mine
  BY DEF RecvRecord, Collecting, Buffered, selection, gpu, channel, flags, files, Mine
<1>2. h \in Record /\ h[2] \in Warps
  <2>1. h \in Item
    BY <1>0, <1>1, HeadAndTail
  <2>2. h \in Record
    BY <1>1, <2>1 DEF Item
  <2>. QED
    BY <2>2, Constants
<1>3. h[1] = Mine
  BY <1>0, <1>1, HeadAndTail DEF Gathering, Own
<1>4. \A i \in DOMAIN t : i + 1 \in DOMAIN recv_buffer /\ t[i] = recv_buffer[i + 1]
  BY <1>0, <1>1, HeadAndTail
<1>5. ASSUME NEW w \in Warps
      PROVE  Pipe(tb_bufs'[w], t, buff, w, Done(w), Mine)
  <2>1. Pipe(tb_bufs[w], recv_buffer, buff, w, Done(w), Mine) /\ tb_bufs[w] \in Seq(Record)
    BY <1>0 DEF Gathering, Gathered
  <2>2. CASE h[2] = w
    <3>1. tb_bufs'[w] = Append(tb_bufs[w], h)
      BY <1>0, <1>1, <2>2
    <3>2. Pipe(Append(tb_bufs[w], h), t, buff, w, Done(w), Mine)
      BY <1>0, <1>1, <1>2, <1>3, <2>1, <2>2, PipeTake
    <3>. QED
      BY <3>1, <3>2
  <2>3. CASE h[2] # w
    <3>1. tb_bufs'[w] = tb_bufs[w]
      BY <1>0, <1>1, <2>3
    <3>2. Pipe(tb_bufs[w], t, buff, w, Done(w), Mine)
      BY <1>0, <1>1, <2>1, <2>3, PipeSkip
    <3>. QED
      BY <3>1, <3>2
  <2>. QED
    BY <2>2, <2>3
<1>6. /\ NoMarker(recv_buffer) => NoMarker(t)
      /\ EndsWithMarker(recv_buffer) => EndsWithMarker(t)
  BY <1>0, <1>1, MarkerLast
<1>. HIDE DEF h, t
<1>7. Gathered'
  <2>1. \A w \in Warps : Done(w)' = Done(w)
    BY <1>1 DEF Done
  <2>. QED
    BY <1>1, <1>5, <2>1 DEF Gathered
<1>8. (NotPushed \/ InChannel \/ AtReceiver)'
  <2>1. CASE NotPushed
    BY <1>1, <1>6, <2>1 DEF NotPushed, NoMarker
  <2>2. CASE InChannel
    BY <1>1, <1>6, <2>2 DEF InChannel, NoMarker, EndsWithMarker
  <2>3. CASE AtReceiver
    BY <1>1, <1>6, <2>3 DEF AtReceiver, EndsWithMarker
  <2>. QED
    BY <2>1, <2>2, <2>3 DEF Gathering
<1>9. Own(buff)' /\ Own(recv_buffer)'
  BY <1>1, <1>4 DEF Gathering, Own
<1>. QED
  BY <1>1, <1>7, <1>8, <1>9 DEF Gathering

\* The marker is met: the file receives the whole trace.
LEMMA GatherWrites ==
  ASSUME Base, JobsInv, Collecting, Gathering, RecvWrites
  PROVE  Stored' /\ \A k \in Kernels : k # Mine => written'[k] = written[k]
<1>0. /\ Mine \in Kernels /\ ctx_resultsFile = Mine /\ recv_buffer \in Seq(Item) /\ buff \in Seq(Item)
      /\ tb_bufs \in [Warps -> Seq(Record)]
  BY CollectingFacts
<1>1. /\ recv = "records" /\ recv_buffer # <<>> /\ Head(recv_buffer) = Marker
      /\ written' = [k \in Kernels |-> IF k = ctx_resultsFile
                                       THEN [w \in Warps |-> written[k][w] \o tb_bufs[w]] ELSE written[k]]
      /\ tb_bufs' = NoRecords /\ recv' = "marker"
      /\ UNCHANGED <<host, ctx_kernelid, jobs, buff, doorbell, recv_thread_receiving>> /\ UNCHANGED Mine
  BY DEF RecvWrites, Collecting, Cleared, selection, gpu, channel, flags, Mine
<1>2. AtReceiver
  <2>1. ~NoMarker(recv_buffer)
    BY <1>0, <1>1, MarkerLast
  <2>. QED
    BY <2>1 DEF Gathering, NotPushed, InChannel
<1>3. Plain(recv_buffer) /\ buff = <<>> /\ host = "flush"
  BY <1>0, <1>1, <1>2, MarkerLast DEF AtReceiver
<1>4. \A w \in Warps : tb_bufs[w] = [i \in 1 .. Insts |-> <<Mine, w, i>>]
  <2>. SUFFICES ASSUME NEW w \in Warps PROVE tb_bufs[w] = [i \in 1 .. Insts |-> <<Mine, w, i>>]
    OBVIOUS
  <2>1. Done(w) = Insts
    BY <1>3 DEF Done
  <2>2. Pipe(tb_bufs[w], recv_buffer, <<>>, w, Insts, Mine)
    BY <1>3, <2>1 DEF Gathering, Gathered
  <2>3. tb_bufs[w] \in Seq(Record)
    BY <1>0
  <2>. QED
    BY <1>0, <1>3, <2>2, <2>3, PipeDone
<1>5. written'[Mine] = FullTrace(Mine)
  <2>1. written[Mine] = NoRecords
    BY DEF Gathering
  <2>2. written'[Mine] = [w \in Warps |-> NoRecords[w] \o tb_bufs[w]]
    BY <1>0, <1>1, <2>1
  <2>3. \A w \in Warps : NoRecords[w] \o tb_bufs[w] = tb_bufs[w]
    <3>1. \A w \in Warps : NoRecords[w] = <<>> /\ tb_bufs[w] \in Seq(Record)
      BY <1>0 DEF NoRecords
    <3>2. \A q \in Seq(Record) : <<>> \o q = q
      BY ConcatEmptySeq
    <3>. QED
      BY <3>1, <3>2
  <2>4. \A w \in Warps : NoRecords[w] \o tb_bufs[w] = [i \in 1 .. Insts |-> <<Mine, w, i>>]
    BY <1>4, <2>3
  <2>. QED
    BY <2>2, <2>4 DEF FullTrace
<1>6. (written[Mine] = FullTrace(Mine))'
  BY <1>1, <1>5 DEF FullTrace
<1>7. Stored'
  BY <1>1, <1>2, <1>6 DEF Stored, AtReceiver, Gathering
<1>. QED
  BY <1>0, <1>1, <1>7

\* The receiver's steps while the records are under way.
LEMMA GatherRecv ==
  ASSUME Base, RecvInv, JobsInv, Collecting, Gathering, Receiver
  PROVE  /\ (Gathering \/ Stored)' /\ \A k \in Kernels : k # Mine => written'[k] = written[k]
<1>0. buff \in Seq(Item) /\ recv_buffer \in Seq(Item) /\ tb_bufs \in [Warps -> Seq(Record)]
  BY CollectingFacts
<1>1. CASE RecvWrites
  BY <1>1, GatherWrites
<1>2. CASE RecvRecord
  BY <1>2, GatherRecord DEF RecvRecord, files
<1>3. CASE RecvNext
  <2>1. /\ recv_buffer = <<>> /\ recv' = "loop"
        /\ UNCHANGED <<host, ctx_kernelid, stop_report, jobs, todo, buff, doorbell, recv_thread_receiving,
                       recv_buffer, tb_bufs, written>> /\ UNCHANGED Mine
    BY <1>3 DEF RecvNext, selection, gpu, channel, flags, files, Mine
  <2>2. NotPushed \/ InChannel
    BY <2>1 DEF Gathering, AtReceiver, EndsWithMarker
  <2>3. (NotPushed \/ InChannel)'
    BY <2>1, <2>2 DEF NotPushed, InChannel, NoMarker, EndsWithMarker
  <2>4. Gathered'
    BY <2>1 DEF Gathering, Gathered, Done
  <2>. QED
    BY <2>1, <2>3, <2>4 DEF Gathering, Own
<1>4. CASE Recv
  <2>1. /\ recv = "loop" /\ doorbell /\ recv_buffer' = buff /\ buff' = <<>> /\ doorbell' = FALSE /\ recv' = "records"
        /\ UNCHANGED <<host, ctx_kernelid, stop_report, jobs, todo, recv_thread_receiving, tb_bufs, written>>
        /\ UNCHANGED Mine /\ recv_buffer = <<>>
    BY <1>4 DEF Recv, RecvInv, selection, gpu, flags, files, Mine
  <2>2. \A w \in Warps : Pipe(tb_bufs[w], buff, <<>>, w, Done(w), Mine)
    BY <1>0, <2>1, PipeFetch DEF Gathering, Gathered
  <2>3. Gathered'
    <3>1. \A w \in Warps : Done(w)' = Done(w)
      BY <2>1 DEF Done
    <3>. QED
      BY <2>1, <2>2, <3>1 DEF Gathered
  <2>4. Own(buff)' /\ Own(recv_buffer)'
    BY <2>1 DEF Gathering, Own
  <2>5. (NotPushed \/ AtReceiver)'
    <3>1. CASE NotPushed
      BY <2>1, <3>1 DEF NotPushed, NoMarker
    <3>2. CASE InChannel
      <4>1. jobs = <<FlushWaits>>
        BY <2>1, <3>2 DEF InChannel
      <4>. QED
        BY <2>1, <3>2, <4>1 DEF InChannel, AtReceiver, EndsWithMarker
    <3>. QED
      BY <2>1, <3>1, <3>2 DEF Gathering, AtReceiver
  <2>. QED
    BY <2>1, <2>3, <2>4, <2>5 DEF Gathering
<1>5. ~RecvStops /\ ~RecvQuits
  BY DEF RecvStops, RecvQuits, RecvInv, Collecting, Gathering
<1>. QED
  BY <1>1, <1>2, <1>3, <1>4, <1>5 DEF Receiver

\* Every kernel starts with all its instructions.
LEMMA NextTodo ==
  ASSUME Base, JobsInv, TodoFull, jobs # <<>> => Collecting, [Next]_vars
  PROVE  TodoFull'
<1>1. CASE \E w \in Warps : GpuInstr(w)
  <2>1. jobs # <<>> /\ Head(jobs) > 0 /\ UNCHANGED <<host, jobs>>
    BY <1>1 DEF GpuInstr, Pushes, Running
  <2>2. host = "leave"
    BY <2>1, OneJob DEF Collecting, JobsInv
  <2>. QED
    BY <2>1, <2>2 DEF TodoFull
<1>2. CASE GpuEnds
  BY <1>2 DEF GpuEnds, TodoFull
<1>3. CASE GpuFlushes
  <2>1. jobs # <<>> /\ Head(jobs) \in Codes /\ UNCHANGED <<host, todo>>
    BY <1>3 DEF GpuFlushes, Codes
  <2>2. host # "leave"
    <3>1. host = "leave" => Head(jobs) = Mine /\ Mine > 0
      BY <2>1, CollectingFacts, OneJob
    <3>. QED
      BY <2>1, <3>1, Constants
  <2>. QED
    BY <2>1, <2>2 DEF TodoFull
<1>4. CASE EnterReturns
  BY <1>4 DEF EnterReturns, TodoFull
<1>5. CASE LeaveFlushes
  BY <1>5 DEF LeaveFlushes, TodoFull
<1>6. CASE LeaveReturns
  BY <1>6 DEF LeaveReturns, TodoFull, JobsInv, gpu, Base, TypeInv
<1>7. CASE ~(\/ \E w \in Warps : GpuInstr(w)
             \/ GpuEnds \/ GpuFlushes \/ EnterReturns \/ LeaveFlushes \/ LeaveReturns)
  <2>1. UNCHANGED todo /\ ((host' = host /\ UNCHANGED jobs) \/ host # "leave")
    BY <1>7 DEF Next, Ended, vars, Host, Gpu, Receiver, Launch, EnterDecides, EnterOpens, LeaveCloses,
         GraphLaunch, GraphReturns, Profiler, CtxTerm, Joined, GpuFull, Recv, RecvStops, RecvRecord,
         RecvNext, RecvWrites, RecvQuits, gpu
  <2>. QED
    BY <2>1 DEF TodoFull
<1>. QED
  BY <1>1, <1>2, <1>3, <1>4, <1>5, <1>6, <1>7

\* A step while the records of a kernel are under way.
LEMMA GatherStep ==
  ASSUME Base, RecvInv, JobsInv, Settled, Collecting, Gathering, [Next]_vars
  PROVE  Settled' /\ Collecting' /\ (Gathering \/ Stored)'
<1>1. ASSUME UNCHANGED <<closed, ctx_kernelid>>, Collecting',
             \A k \in Kernels : k # Mine => written'[k] = written[k]
      PROVE  Settled'
  <2>1. Mine \notin closed /\ UNCHANGED Mine
    BY <1>1, CollectingFacts DEF Mine
  <2>. QED
    BY <1>1, <2>1 DEF Settled, FullTrace
<1>2. CASE Gpu
  <2>1. UNCHANGED <<closed, ctx_kernelid, written, host, stop_report>>
    BY <1>2 DEF Gpu, GpuInstr, GpuFull, GpuEnds, GpuFlushes, selection, files
  <2>2. Collecting'
    BY <2>1 DEF Collecting
  <2>. QED
    BY <1>1, <1>2, <2>1, <2>2, GatherGpu
<1>3. CASE Receiver
  <2>1. UNCHANGED <<closed, ctx_kernelid, host, stop_report>>
    BY <1>3 DEF Receiver, Recv, RecvStops, RecvRecord, RecvNext, RecvWrites, RecvQuits, selection, files
  <2>2. Collecting'
    BY <2>1 DEF Collecting
  <2>. QED
    BY <1>1, <1>3, <2>1, <2>2, GatherRecv
<1>4. CASE LeaveFlushes
  <2>1. /\ host = "leave" /\ jobs = <<>> /\ host' = "flush" /\ jobs' = <<FlushKernel>>
        /\ UNCHANGED <<ctx_kernelid, stop_report, buff, recv_thread_receiving, recv, recv_buffer, tb_bufs,
                       written, closed>>
        /\ UNCHANGED Mine
    BY <1>4 DEF LeaveFlushes, selection, channel, flags, receiver, files, Mine
  <2>2. \A w \in Warps : Done(w)' = Done(w)
    BY <2>1 DEF Done
  <2>3. Gathered'
    BY <2>1, <2>2 DEF Gathering, Gathered
  <2>4. NotPushed'
    BY <2>1 DEF Gathering, NotPushed, InChannel, AtReceiver, NoMarker
  <2>5. Gathering' /\ Collecting'
    BY <2>1, <2>3, <2>4 DEF Gathering, Own, Collecting
  <2>. QED
    BY <1>1, <2>1, <2>5
<1>5. CASE UNCHANGED vars
  <2>1. /\ UNCHANGED <<host, ctx_kernelid, stop_report, jobs, todo, buff, doorbell, recv_thread_receiving, recv,
                     recv_buffer, tb_bufs, written, closed>>
        /\ UNCHANGED Mine
    BY <1>5 DEF vars, selection, gpu, channel, flags, receiver, files, Mine
  <2>2. Gathered'
    BY <2>1 DEF Gathering, Gathered, Done
  <2>3. Gathering' /\ Collecting'
    BY <2>1, <2>2 DEF Gathering, Own, Collecting, NotPushed, InChannel, AtReceiver, NoMarker, EndsWithMarker
  <2>. QED
    BY <1>1, <2>1, <2>3
<1>6. \/ Gpu \/ Receiver \/ LeaveFlushes \/ UNCHANGED vars
  <2>1. host \in {"leave", "flush"} /\ ~stop_report /\ recv_thread_receiving
    BY DEF Collecting, Gathering
  <2>. QED
    BY <2>1 DEF Next, Ended, Host, Launch, EnterDecides, EnterOpens, EnterReturns, LeaveCloses, LeaveReturns,
         GraphLaunch, GraphReturns, Profiler, CtxTerm, Joined
<1>. QED
  BY <1>2, <1>3, <1>4, <1>5, <1>6

\* A step after they have been written.
LEMMA StoredStep ==
  ASSUME Base, RecvInv, JobsInv, Settled, Collecting, Stored, [Next]_vars
  PROVE  Settled' /\ (Collecting => Stored)' /\ (~Collecting => Quiet)'
<1>0. Mine \in Kernels /\ ctx_resultsFile = Mine
  BY CollectingFacts
<1>1. CASE LeaveCloses
  <2>1. /\ host' = "left" /\ jobs = <<>> /\ ~recv_thread_receiving /\ closed' = closed \cup {Mine}
        /\ UNCHANGED <<jobs, buff, doorbell, recv, recv_buffer, tb_bufs, written>>
    BY <1>0, <1>1 DEF LeaveCloses, gpu, channel, receiver
  <2>2. ~Collecting' /\ Quiet'
    BY <2>1 DEF Collecting, Stored, Quiet, RecvInv
  <2>3. Settled'
    <3>1. \A k \in Kernels : k \in closed' => written'[k] = FullTrace(k)
      BY <2>1 DEF Settled, Stored
    <3>2. \A k \in Kernels : k \in closed' \/ written'[k] = NoRecords
      BY <2>1 DEF Settled
    <3>. QED
      BY <2>2, <3>1, <3>2 DEF Settled, FullTrace
  <2>. QED
    BY <2>2, <2>3
<1>2. CASE ~LeaveCloses
  <2>1. \/ /\ GpuFlushes /\ jobs = <<FlushWaits>> /\ jobs' = <<>>
           /\ UNCHANGED <<channel, flags, receiver>>
        \/ RecvQuits
        \/ UNCHANGED vars
    <3>1. host = "flush" /\ ~doorbell /\ recv \in {"marker", "loop"} /\ recv_thread_started
      BY DEF Stored, RecvInv
    <3>2. ~Gpu \/ (GpuFlushes /\ jobs = <<FlushWaits>> /\ jobs' = <<>> /\ UNCHANGED channel)
      <4>1. jobs = <<FlushWaits>> \/ jobs = <<>>
        BY DEF Stored
      <4>2. CASE jobs = <<>>
        BY <4>2 DEF Gpu, GpuInstr, Pushes, Running, GpuFull, GpuEnds, GpuFlushes
      <4>3. CASE jobs = <<FlushWaits>>
        <5>1. Head(jobs) = FlushWaits /\ Head(jobs) # FlushKernel /\ Head(jobs) # FlushRings /\ ~(Head(jobs) > 0)
              /\ Tail(jobs) = <<>>
          BY <4>3, OneJob
        <5>. QED
          BY <4>3, <5>1 DEF Gpu, GpuInstr, Pushes, Running, GpuFull, GpuEnds, GpuFlushes
      <4>. QED
        BY <4>1, <4>2, <4>3
    <3>3. ~Receiver \/ RecvQuits
      BY <3>1 DEF Receiver, Recv, RecvStops, RecvRecord, RecvNext, RecvWrites
    <3>4. Gpu \/ Receiver \/ UNCHANGED vars
      <4>1. ~stop_report
        BY DEF Collecting
      <4>. QED
        BY <1>2, <3>1, <4>1 DEF Next, Ended, Host, Launch, EnterDecides, EnterOpens, EnterReturns, LeaveFlushes,
         LeaveReturns, GraphLaunch, GraphReturns, Profiler, CtxTerm, Joined
    <3>. QED
      BY <3>2, <3>3, <3>4 DEF GpuFlushes
  <2>2. UNCHANGED <<host, ctx_kernelid, stop_report, written, closed>> /\ UNCHANGED Mine
    BY <2>1 DEF GpuFlushes, RecvQuits, vars, selection, files, Mine
  <2>3. Collecting' /\ Settled'
    BY <2>2 DEF Collecting, Settled, FullTrace
  <2>4. (written[Mine] = FullTrace(Mine))'
    BY <2>2 DEF Stored, FullTrace
  <2>5. Stored'
    <3>1. CASE GpuFlushes /\ jobs' = <<>> /\ UNCHANGED <<channel, flags, receiver>>
      BY <2>2, <2>4, <3>1 DEF Stored, channel, flags, receiver
    <3>2. CASE RecvQuits
      BY <2>2, <2>4, <3>2 DEF RecvQuits, Stored, gpu, channel
    <3>3. CASE UNCHANGED vars
      BY <2>2, <2>4, <3>3 DEF vars, Stored, gpu, channel, flags, receiver
    <3>. QED
      BY <2>1, <3>1, <3>2, <3>3
  <2>. QED
    BY <2>3, <2>5
<1>. QED
  BY <1>1, <1>2

\* A step while nothing is under way; the launch of a traced kernel starts
\* the collection of its records.
LEMMA QuietStep ==
  ASSUME Base, RecvInv, JobsInv, Settled, TodoFull, ~Collecting, Quiet, [Next]_vars, ~GraphLaunch
  PROVE  Settled' /\ (Collecting => Gathering)' /\ (~Collecting => Quiet)'
<1>1. CASE EnterReturns
  <2>1. /\ host = "receive" /\ ctx_kernelid \in Kernels /\ ctx_kernelid' - 1 = ctx_kernelid /\ Mine' = ctx_kernelid
        /\ recv_thread_receiving' = TRUE
        /\ UNCHANGED <<stop_report, todo, buff, doorbell, recv, recv_buffer, tb_bufs, written, closed>>
    <3>1. ctx_kernelid \in Kernels /\ ctx_kernelid \in Nat
      BY <1>1, Constants DEF EnterReturns, Base, TypeInv, CallInv, Kernels
    <3>. QED
      BY <1>1, <3>1 DEF EnterReturns, channel, receiver, files, Mine
  <2>2. \A k \in Kernels : k \in closed \/ written[k] = NoRecords
    BY DEF Settled
  <2>3. Settled'
    BY <2>1, <2>2 DEF Settled, FullTrace
  <2>4. ctx_kernelid \notin closed
    BY <2>1, Constants DEF Base, TypeInv, FileInv
  <2>5. CASE launch.captured
    <3>1. host' = "app" /\ UNCHANGED jobs
      BY <1>1, <2>5 DEF EnterReturns
    <3>. QED
      BY <2>1, <2>3, <3>1 DEF Collecting, Quiet
  <2>6. CASE ~launch.captured
    <3>1. host' = "leave" /\ jobs' = IF Instrumented(ctx_kernelid) THEN <<ctx_kernelid>> ELSE <<>>
      BY <1>1, <2>6 DEF EnterReturns
    <3>2. Instrumented(ctx_kernelid) <=> ~stop_report
      BY <2>1 DEF Instrumented, Base, CallInv, Entering
    <3>3. CASE stop_report
      BY <2>1, <2>3, <3>1, <3>2, <3>3 DEF Collecting, Quiet
    <3>4. CASE ~stop_report
      <4>1. jobs' = <<ctx_kernelid>> /\ jobs' # <<>>
        BY <3>1, <3>2, <3>4, OneJob
      <4>2. \A w \in Warps : Done(w)' = 0
        <5>1. \A w \in Warps : todo[w] = Insts
          BY <2>1 DEF TodoFull
        <5>2. \A w \in Warps : Done(w)' = Insts - todo[w]
          BY <2>1, <3>1, <4>1 DEF Done
        <5>. QED
          BY <5>1, <5>2, Constants
      <4>3. \A w \in Warps : tb_bufs'[w] = <<>>
        BY <2>1 DEF Quiet, NoRecords
      <4>4. buff' = <<>> /\ recv_buffer' = <<>>
        BY <2>1 DEF Quiet
      <4>5. Gathered'
        BY <4>2, <4>3, <4>4, PipeStarts DEF Gathered
      <4>6. (written[Mine] = NoRecords)'
        BY <2>1, <2>2, <2>4 DEF NoRecords
      <4>7. recv' = "loop"
        BY <2>1 DEF Quiet, RecvInv
      <4>8. Own(buff)' /\ Own(recv_buffer)' /\ NoMarker(buff)' /\ NoMarker(recv_buffer)'
        BY <4>4 DEF Own, NoMarker
      <4>9. Gathering'
        BY <2>1, <3>1, <4>5, <4>6, <4>7, <4>8 DEF Gathering, NotPushed
      <4>. QED
        BY <2>1, <2>3, <3>1, <3>4, <4>9 DEF Collecting
    <3>. QED
      BY <3>3, <3>4
  <2>. QED
    BY <2>5, <2>6
<1>2. CASE ~EnterReturns
  <2>1. ~Gpu /\ ~Recv /\ ~RecvRecord /\ ~RecvNext /\ ~RecvWrites /\ ~RecvQuits
    BY DEF Quiet, Gpu, GpuInstr, Pushes, Running, GpuFull, GpuEnds, GpuFlushes, Recv, RecvRecord, RecvNext,
           RecvWrites, RecvQuits
  <2>2. ~LeaveFlushes /\ ~LeaveCloses
    BY DEF Collecting, LeaveFlushes, LeaveCloses, Base, FileInv
  <2>3. /\ UNCHANGED <<jobs, buff, doorbell, recv_buffer, tb_bufs, written, closed>> /\ recv' \in {recv, "done"}
        /\ \/ host' \notin {"leave", "flush"}
           \/ UNCHANGED <<host, stop_report>>
    BY <1>2, <2>1, <2>2
       DEF Next, Ended, vars, Host, Receiver, Launch, EnterDecides, EnterOpens, LeaveReturns, GraphReturns,
           Profiler, CtxTerm, Joined, RecvStops, selection, gpu, channel, receiver, files
  <2>4. ~Collecting' /\ Quiet'
    BY <2>3 DEF Collecting, Quiet
  <2>5. Settled'
    BY <2>3, <2>4 DEF Settled, FullTrace
  <2>. QED
    BY <2>4, <2>5
<1>. QED
  BY <1>1, <1>2

\* TraceInv is inductive.
LEMMA NextTrace ==
  ASSUME Base, RecvInv, JobsInv, TraceInv, [Next]_vars
  PROVE  TraceInv'
<1>. SUFFICES ASSUME graphs' = 0
     PROVE  /\ Settled' /\ TodoFull'
            /\ (Collecting => Gathering \/ Stored)' /\ (~Collecting => Quiet)'
  BY DEF TraceInv
<1>1. graphs = 0 /\ ~GraphLaunch
  <2>1. graphs \in Nat
    BY DEF Base, TypeInv
  <2>2. GraphLaunch => graphs' = graphs + 1
    BY DEF GraphLaunch
  <2>3. GraphLaunch \/ UNCHANGED graphs
    BY DEF Next, Ended, vars, Host, Gpu, Receiver, Launch, EnterDecides, EnterOpens, EnterReturns,
         LeaveFlushes, LeaveCloses, LeaveReturns, GraphReturns, Profiler, CtxTerm, Joined,
         GpuInstr, GpuFull, GpuEnds, GpuFlushes, Recv, RecvStops, RecvRecord, RecvNext, RecvWrites, RecvQuits
  <2>. QED
    BY <2>1, <2>2, <2>3
<1>2. /\ Settled /\ TodoFull
      /\ Collecting => Gathering \/ Stored
      /\ ~Collecting => Quiet
  BY <1>1 DEF TraceInv
<1>3. TodoFull'
  <2>1. jobs # <<>> => Collecting
    BY <1>2 DEF Quiet
  <2>. QED
    BY <1>2, <2>1, NextTodo
<1>4. CASE Collecting /\ Gathering
  BY <1>2, <1>3, <1>4, GatherStep
<1>5. CASE Collecting /\ Stored
  BY <1>2, <1>3, <1>5, StoredStep
<1>6. CASE ~Collecting
  BY <1>1, <1>2, <1>3, <1>6, QuietStep
<1>. QED
  BY <1>2, <1>4, <1>5, <1>6

\* Until a graph is launched, a closed trace file holds every record of its own
\* kernel, in the order of each warp's instructions, and no other.
THEOREM ClosedFilesAreComplete == Spec => []FilesExact
<1>. DEFINE Inv == Base /\ RecvInv /\ JobsInv /\ TraceInv
<1>1. Init => Inv
  BY InitTypes, InitRecvJobs, InitTrace
<1>2. Inv /\ [Next]_vars => Inv'
  BY NextBase, NextRecv, NextJobs, NextTrace
<1>3. Inv => FilesExact
  BY DEF TraceInv, Settled, Collecting, FilesExact
<1>. QED
  BY <1>1, <1>2, <1>3, PTL DEF Spec
=============================================================================
