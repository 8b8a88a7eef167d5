--------------------------- MODULE MCDramChannel ---------------------------
(* Instances of a DRAM channel for TLC.                                    *)
EXTENDS DramChannel
============================================================================
