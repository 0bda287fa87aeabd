----------------------------- MODULE WriteLink -----------------------------
(***************************************************************************)
(* The way of a write from WriteUpdates to the wire of one target          *)
(* (SwitchConnection and RateLimitedP4RuntimeStub of                       *)
(* high_level_switch_connection_async.py): the batch that batching_loop    *)
(* empties, the bounded buffer behind the rate limiter, and the asyncio    *)
(* tasks that take from it: the heartbeat and every writer that had to     *)
(* queue.  Each task awaits at most one Write RPC; an answer, good or bad, *)
(* may come at any time.                                                   *)
(*                                                                         *)
(* Writes are numbered in the order they are made; MaxWrites bounds them.  *)
(* The limiter is the bucket of module LeakyBucket, which RateLimiter      *)
(* implements.                                                             *)
(***************************************************************************)
EXTENDS Integers, Sequences, SequencesExt, FiniteSets

CONSTANTS
  Writers,         \* tasks that write: handlers of the proxy
  Setups,          \* [batching, buffer, rejects]: is batch_delay set?
                   \* rate_limiter_buffer_size (None counts as 0)
                   \* may the switch answer a Write with an error?
  Limited,         \* rate_limit is not None
  MaxPerSec,       \* rate_limit
  TicksPerSec,
  Batcher, Heart,  \* the batching_loop and the heartbeat task
  MaxWrites

ASSUME LinkAssumption ==
  /\ Setups \subseteq [batching : BOOLEAN, buffer : Nat, rejects : BOOLEAN]
  /\ Limited \in BOOLEAN /\ MaxWrites \in Nat
  /\ MaxPerSec \in Nat /\ TicksPerSec \in Nat \ {0}
  /\ Batcher \notin Writers /\ Heart \notin Writers /\ Batcher # Heart

Tasks == Writers \cup {Batcher, Heart}

VARIABLES
  setup,   \* one of Setups: fixed when the connection is made
  made,    \* number of writes made so far
  batch,   \* SwitchConnection.batch: writes
  buffer,  \* buffered_commands: requests, each a sequence of writes
  level,   \* the rate limiter's bucket
  wire,    \* the requests put on the wire so far, in order
  pc       \* what each task is at: "idle", "call" (awaits the RPC of its own
           \* request), "flush" (awaits one it took from the buffer), "dead"

vars == <<setup, made, batch, buffer, level, wire, pc>>

BufferSize == setup.buffer
Rejects == setup.rejects

Limit == INSTANCE LeakyBucket

\* Bug: the deque is taken for full one request early.
PushedEarly(b, request) ==
  IF BufferSize = 0 THEN <<>>
  ELSE Append(IF Len(b) < BufferSize - 1 THEN b ELSE Tail(b), request)

\* deque(maxlen=buffer_size).append: a full deque drops its oldest request.
Pushed(b, request) ==
  IF BufferSize = 0 THEN <<>>
  ELSE Append(IF Len(b) < BufferSize THEN b ELSE Tail(b), request)

Send(request) == wire' = Append(wire, request)

\* One turn of _flush_buffered_commands by task a on buffer b: send the oldest
\* request if the limiter lets it, else be done.
Flush(a, b) ==
  IF b # <<>> /\ Limit!HasRoom(level)
  THEN Send(Head(b)) /\ Limit!Admit /\ buffer' = Tail(b) /\ pc' = [pc EXCEPT ![a] = "flush"]
  ELSE buffer' = b /\ pc' = [pc EXCEPT ![a] = "idle"] /\ UNCHANGED <<wire, level>>

\* Bug: a new request may overtake the buffered ones.
MayOvertake == Limit!HasRoom(level)

MaySendNow == buffer = <<>> /\ Limit!HasRoom(level)

\* The stub's Write in task a, up to its first await.
StubWrite(a, request) ==
  IF ~Limited
  THEN Send(request) /\ pc' = [pc EXCEPT ![a] = "call"] /\ UNCHANGED <<buffer, level>>
  ELSE IF MaySendNow
       THEN Send(request) /\ Limit!Admit /\ pc' = [pc EXCEPT ![a] = "call"] /\ UNCHANGED buffer
       ELSE Flush(a, Pushed(buffer, request))

\* WriteUpdates: with a batch delay the write is only put into the batch.
WriteUpdates(w) ==
  /\ pc[w] = "idle" /\ made < MaxWrites
  /\ made' = made + 1
  /\ IF setup.batching
     THEN batch' = Append(batch, made') /\ UNCHANGED <<buffer, level, wire, pc>>
     ELSE StubWrite(w, <<made'>>) /\ UNCHANGED batch
  /\ UNCHANGED setup

\* A turn of batching_loop: the batch is swapped before the await.
BatchTurn ==
  /\ setup.batching /\ pc[Batcher] = "idle" /\ batch # <<>>
  /\ batch' = <<>>
  /\ StubWrite(Batcher, batch)
  /\ UNCHANGED <<setup, made>>

\* Bug: the heartbeat task is started with the batching loop only.
HeartTurnIfBatching ==
  /\ Limited /\ setup.batching /\ pc[Heart] = "idle"
  /\ Flush(Heart, buffer)
  /\ UNCHANGED <<setup, made, batch>>

\* heartbeat, every 0.1 s.
HeartTurn ==
  /\ Limited /\ pc[Heart] = "idle"
  /\ Flush(Heart, buffer)
  /\ UNCHANGED <<setup, made, batch>>

\* The RPC a task awaits is answered: a flush goes on with the next request.
Answered(a) ==
  /\ \/ pc[a] = "call" /\ pc' = [pc EXCEPT ![a] = "idle"] /\ UNCHANGED <<buffer, level, wire>>
     \/ pc[a] = "flush" /\ Flush(a, buffer)
  /\ UNCHANGED <<setup, made, batch>>

\* It is answered with an error, which nothing catches: a writer's call ends
\* with it, a background task is gone.
Rejected(a) ==
  /\ Rejects /\ pc[a] \in {"call", "flush"}
  /\ pc' = [pc EXCEPT ![a] = IF a \in Writers THEN "idle" ELSE "dead"]
  /\ UNCHANGED <<setup, made, batch, buffer, level, wire>>

TimePasses ==
  /\ level > 0 /\ Limit!Drain
  /\ UNCHANGED <<setup, made, batch, buffer, wire, pc>>

Init ==
  /\ setup \in Setups
  /\ made = 0 /\ batch = <<>> /\ buffer = <<>> /\ level = 0 /\ wire = <<>>
  /\ pc = [a \in Tasks |-> "idle"]

Next ==
  \/ \E w \in Writers : WriteUpdates(w)
  \/ BatchTurn \/ HeartTurn \/ TimePasses
  \/ \E a \in Tasks : Answered(a) \/ Rejected(a)

Spec == Init /\ [][Next]_vars

\* The loops run, time passes and the switch answers; nobody has to write.
Fairness ==
  /\ WF_vars(BatchTurn) /\ WF_vars(HeartTurn) /\ WF_vars(TimePasses)
  /\ \A a \in Tasks : WF_vars(Answered(a) \/ Rejected(a))

FairSpec == Spec /\ Fairness

\* Every write that is on its way or gone out, in the order of leaving.
Line == FlattenSeq(wire) \o FlattenSeq(buffer) \o batch

\* Writes leave in the order they were made and none twice, although several
\* tasks take from the buffer and new writes may bypass it.
InOrder == \A i, j \in DOMAIN Line : i < j => Line[i] < Line[j]

\* The request that a new one has to make room for: the oldest, which is the
\* new one itself if there is no buffer.
New == IF setup.batching THEN batch ELSE <<made'>>
Oldest == Head(Append(buffer, New))

\* Between the batch, the buffer and the wire no step loses a write, rejected
\* requests and the hand-over of the batch included, except for the oldest
\* request that a full buffer gives up for a new one.
DropsOnlyWhenFull ==
  [][Len(Line') - made' < Len(Line) - made =>
       /\ Len(buffer) = BufferSize
       /\ Len(Line') - made' = Len(Line) - made - Len(Oldest)]_vars

HasRoomForAll == BufferSize + 1 >= MaxWrites

\* With room for all of them every write is put on the wire in the end, by the
\* loops alone: nobody has to write once more to push it out.  A rejected
\* request ends the loop that sent it, so the switch must not reject any.
EventuallySent ==
  HasRoomForAll /\ ~Rejects => \A n \in 1..MaxWrites : made >= n ~> \E i \in DOMAIN FlattenSeq(wire) : FlattenSeq(wire)[i] = n

\* docs/json_configuration.md on rate_limit: "0 = unlimited", so that a write
\* that is not put into a batch goes out at once.
ZeroIsUnlimited == MaxPerSec = 0 /\ ~setup.batching => Len(FlattenSeq(wire)) = made
=============================================================================
