----------------------------- MODULE MCSmCore -----------------------------
(* Instances of one SM for TLC.  Lines have two sectors of two bytes.     *)
EXTENDS SmCore

Line(pc, op, dst, src) ==
  [pc |-> pc, op |-> op, dst |-> dst, src |-> src, active |-> TRUE, fence |-> FALSE]
Off(line) == [line EXCEPT !.active = FALSE]
Exit(pc) == [pc |-> pc, op |-> "alu", dst |-> {}, src |-> {}, active |-> TRUE, fence |-> TRUE]
Mem(pc, addrs) == [pc |-> pc, addrs |-> addrs]

\* A load of two sectors, an instruction that overwrites its register, and one
\* that uses the result.
LoadUse ==
  [sass |-> <<Line(1, "load", {1}, {}), Line(2, "alu", {1}, {}), Exit(3)>>,
   mem |-> <<Mem(1, <<0, 1, 2, 1>>)>>]

\* An atomic on two lines, and a store of two sectors that nobody waits for.
StoreLast ==
  [sass |-> <<Line(1, "atom", {1}, {}), Line(2, "store", {}, {1})>>,
   mem |-> <<Mem(1, <<0, 5>>), Mem(2, <<2, 6>>)>>]

\* Shared memory, double precision, and a loop over a load that is predicated
\* off the first time.
Loop ==
  [sass |-> <<Line(1, "shared", {1}, {}), Off(Line(2, "load", {2}, {1})), Line(3, "dp", {3}, {1}),
              Line(2, "load", {2}, {1})>>,
   mem |-> <<Mem(2, <<>>), Mem(2, <<2, 3>>)>>]

MCTraces == {LoadUse, StoreLast, Loop}
MCLatency == [alu |-> 2, dp |-> 3, shared |-> 2]
MCInterval == [alu |-> 1, dp |-> 3, lds |-> 2]

\* A strided load that keeps one bank busy, and a load that needs it second.
Strided == [sass |-> <<Line(1, "load", {1}, {})>>, mem |-> <<Mem(1, <<2, 6, 10, 14>>)>>]
Split == [sass |-> <<Line(1, "load", {1}, {}), Line(2, "alu", {2}, {1})>>, mem |-> <<Mem(1, <<0, 2>>)>>]
ContendingTraces == {Strided, Split}
ContendingInterval == [alu |-> 1, dp |-> 3, lds |-> 8]
===========================================================================
