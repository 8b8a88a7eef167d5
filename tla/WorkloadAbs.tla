---------------------------- MODULE WorkloadAbs ----------------------------
(***************************************************************************)
(* What the workload driver of gan-swift-sim promises its user, with no     *)
(* slots, threads, polling or mutex: the requested kernels are started in   *)
(* the order of the list, each once and at most Width at a time, the        *)
(* progress counter counts exactly the kernels that were simulated, and     *)
(* the final report is printed when nothing is left to do.                  *)
(***************************************************************************)
EXTENDS Integers, FiniteSets, Sequences

CONSTANT Width  \* how many kernels may be simulated at the same time

VARIABLES simulable, \* for each requested kernel: has it both trace files?
          begun,    \* the kernels 1..begun have been handed to a worker
          running,  \* the ones whose worker has not ended
          finished, \* the progress counter
          outcome   \* "working", "reported" or "aborted"

vars == <<simulable, begun, running, finished, outcome>>

Total == Len(simulable)

Init == /\ simulable \in Seq(BOOLEAN)
        /\ begun = 0
        /\ running = {}
        /\ finished = 0
        /\ outcome = "working"

Begin == /\ outcome = "working"
         /\ begun < Total
         /\ Cardinality(running) < Width
         /\ running' = running \cup {begun + 1}
         /\ begun' = begun + 1
         /\ UNCHANGED <<simulable, finished, outcome>>

Finish(k) == /\ outcome = "working"
             /\ k \in running
             /\ running' = running \ {k}
             /\ finished' = IF simulable[k] THEN finished + 1 ELSE finished
             /\ UNCHANGED <<simulable, begun, outcome>>

Report == /\ outcome = "working"
          /\ begun = Total
          /\ running = {}
          /\ outcome' = "reported"
          /\ UNCHANGED <<simulable, begun, running, finished>>

Abort == /\ outcome = "working"
         /\ outcome' = "aborted"
         /\ UNCHANGED <<simulable, begun, running, finished>>

Next == \/ Begin
        \/ \E k \in 1 .. Total : Finish(k)
        \/ Report
        \/ Abort

Spec == Init /\ [][Next]_vars
============================================================================
