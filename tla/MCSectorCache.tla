--------------------------- MODULE MCSectorCache ---------------------------
(* One set of a tag array for TLC.                                           *)
EXTENDS SectorCache
=============================================================================
