---------------------------- MODULE MCWriteLink ----------------------------
(***************************************************************************)
(* One connection with two writers: with and without batching, with room   *)
(* for all writes; and with a buffer too small or none, on a switch that   *)
(* rejects.                                                                *)
(***************************************************************************)
EXTENDS WriteLink, TLC

CONSTANTS w1, w2, loop, beat

MCSetups ==
  [batching : BOOLEAN, buffer : {6}, rejects : {FALSE}] \cup
  [batching : BOOLEAN, buffer : {0, 2}, rejects : {TRUE}]
=============================================================================
