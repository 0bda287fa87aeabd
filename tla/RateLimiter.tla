---------------------------- MODULE RateLimiter ----------------------------
(***************************************************************************)
(* class RateLimiter of high_level_switch_connection_async.py: a bucket    *)
(* that fills by one per request and drains by max_per_sec per second,     *)
(* lazily, when it is next looked at.  Time is counted in TicksPerSec      *)
(* ticks a second, and the bucket in as many parts of a request, so that   *)
(* the code's real-valued bucket is exact at every tick.                   *)
(*                                                                         *)
(* opened and taken observe a window of time: it may be opened at any      *)
(* moment and counts what is let through from then on.                     *)
(***************************************************************************)
EXTENDS Integers

CONSTANTS MaxPerSec, TicksPerSec,
          MaxTime  \* bound: no tick after this time

\* What is assumed of the constants.
RateAssumption ==
  /\ MaxPerSec \in Nat
  /\ TicksPerSec \in Nat \ {0}
  /\ MaxTime \in Nat

VARIABLES
  now,        \* time.time()
  bucket,     \* self.bucket
  lastTick,   \* self.last_tick
  opened, taken

vars == <<now, bucket, lastTick, opened, taken>>

\* _decrease_bucket_base_on_time
Drained ==
  LET rest == bucket - (now - lastTick) * MaxPerSec
  IN IF rest < 0 THEN 0 ELSE rest

\* Bug: the request itself is not counted in.
IsFitBefore == Drained < MaxPerSec * TicksPerSec

IsFit == Drained + TicksPerSec < MaxPerSec * TicksPerSec

\* Bug: last_tick is not moved along.
AdmitKeepingTick ==
  /\ IsFit
  /\ bucket' = Drained + TicksPerSec
  /\ taken' = taken + 1
  /\ UNCHANGED <<now, lastTick, opened>>

\* is_fit_in_the_rate_limit returning True, and returning False.
Admit ==
  /\ IsFit
  /\ bucket' = Drained + TicksPerSec
  /\ lastTick' = now
  /\ taken' = taken + 1
  /\ UNCHANGED <<now, opened>>

Refuse ==
  /\ ~IsFit
  /\ bucket' = Drained
  /\ lastTick' = now
  /\ UNCHANGED <<now, opened, taken>>

Tick ==
  /\ now < MaxTime
  /\ now' = now + 1
  /\ UNCHANGED <<bucket, lastTick, opened, taken>>

OpenWindow ==
  /\ opened' = now /\ taken' = 0
  /\ UNCHANGED <<now, bucket, lastTick>>

Init ==
  /\ now = 0 /\ bucket = 0 /\ lastTick = 0
  /\ opened = 0 /\ taken = 0

Next == Admit \/ Refuse \/ Tick \/ OpenWindow

Spec == Init /\ [][Next]_vars

\* Types; neither the last look at the bucket nor the window's start lies ahead.
TypeOK ==
  /\ now \in Nat /\ bucket \in Nat /\ lastTick \in 0..now
  /\ opened \in 0..now /\ taken \in Nat

\* What the bucket guarantees of every window of time, however long and
\* wherever it starts: fewer requests than max_per_sec (the burst) plus
\* max_per_sec per second of the window, in parts of a request.
RateBound ==
  taken > 0 =>
    taken * TicksPerSec < MaxPerSec * TicksPerSec + (now - opened) * MaxPerSec

(***************************************************************************)
(* The bucket that drains at every tick is what WriteLink uses.            *)
(***************************************************************************)
Bucket == INSTANCE LeakyBucket WITH level <- Drained

\* Draining lazily is draining all the time: no sequence of looks at the
\* bucket, refused ones included, drains more or less than time has passed.
ImplementsBucket == Bucket!Spec
=============================================================================
