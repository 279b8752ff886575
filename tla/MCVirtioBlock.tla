---------------------------- MODULE MCVirtioBlock ----------------------------
(* Request types for TLC.  A write is left out: what the driver sees of it *)
(* is what it sees of a flush.                                             *)
EXTENDS VirtioBlock

ThreeTypes == {"in", "flush", "get_id"}
=============================================================================
