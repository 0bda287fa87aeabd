---------------------------- MODULE LeakyBucket ----------------------------
(***************************************************************************)
(* The promise of a rate limiter: a level that drains by MaxPerSec parts   *)
(* at every tick and rises by TicksPerSec parts, one request, whenever one *)
(* is admitted, which happens only below the brim.                         *)
(***************************************************************************)
EXTENDS Integers

CONSTANTS MaxPerSec, TicksPerSec

VARIABLE level

DrainedBy(l) == IF l < MaxPerSec THEN 0 ELSE l - MaxPerSec

HasRoom(l) == l + TicksPerSec < MaxPerSec * TicksPerSec

Admit == HasRoom(level) /\ level' = level + TicksPerSec
Drain == level' = DrainedBy(level)

Init == level = 0
Spec == Init /\ [][Admit \/ Drain]_level
=============================================================================
