---------------------------- MODULE MCMemPath ----------------------------
(* Instances of the memory path for TLC.                                 *)
EXTENDS MemPath

\* Requests are alike, so are the SMs, and so are the sectors.
Symmetry == Permutations(Reqs) \cup Permutations(SMs) \cup Permutations(Sectors)
==========================================================================
