----------------------------- MODULE MCCounters -----------------------------
(***************************************************************************)
(* A proxy used in either way: two nodes, or one target, and one Read at a *)
(* time.                                                                   *)
(***************************************************************************)
EXTENDS Counters, TLC

CONSTANTS t1, t2, r1, none
=============================================================================
