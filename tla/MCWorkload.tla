---------------------------- MODULE MCWorkload ----------------------------
(* Instances of the workload driver for TLC.                              *)
EXTENDS Workload

MCCycles == [k \in Ids |-> 10 * k]
AllFaults == {"create", "simulate"}
===========================================================================
