---------------------------- MODULE ThreadedLink ----------------------------
(***************************************************************************)
(* The threaded connection to one switch (common/p4runtime_lib/switch.py): *)
(* SwitchConnection, Batcher, RateLimitedP4RuntimeStub and the futures pit *)
(* of P4RuntimeStubFutureSimplified.  Unlike the asyncio connection of     *)
(* module WriteLink a write is not awaited: its future is dropped into a   *)
(* pit and looked at by whoever writes next.                               *)
(*                                                                         *)
(* Three locks: Batcher.lock, held by the batch thread from "callback" on; *)
(* SwitchConnection.lock (conn); the stub's lock (stub).  The limiter is   *)
(* the bucket of module LeakyBucket.                                       *)
(***************************************************************************)
EXTENDS Integers, Sequences, FiniteSets, SequencesExt

CONSTANTS
  Writers,         \* threads that call the connection
  Batcher, Heart,  \* the heartbeat threads of Batcher and of the limited stub
  Free,            \* holder of a lock that nobody holds
  MaxPerSec, TicksPerSec, BufferSize,
  Modes            \* how the connection may be configured

ASSUME ThreadsAssumption ==
  /\ IsFiniteSet(Writers)
  /\ Batcher \notin Writers /\ Heart \notin Writers /\ Batcher # Heart
  /\ Free \notin Writers \cup {Batcher, Heart}
  /\ MaxPerSec \in Nat /\ TicksPerSec \in Nat \ {0} /\ BufferSize \in Nat
  /\ Modes \subseteq [batching : BOOLEAN, limited : BOOLEAN, rejects : BOOLEAN]

Threads == Writers \cup {Batcher, Heart}

VARIABLES
  mode,     \* batch_delay set?  rate_limit set?  may the switch reject?
  batch,    \* Batcher.batch
  started,  \* Batcher.batch_start_ts is not None
  buffer,   \* RateLimitedP4RuntimeStub.buffered_commands
  level,    \* the bucket
  wire,     \* the RPCs started so far: [kind, updates, by, status]
  pit,      \* futures_pit: indices of wire
  conn, stub,  \* who holds the locks
  pc,       \* what a thread is at: "idle"; "callback"; "flush" (in the loop of
            \* _flush_buffered_commands); "call" and "wait" (awaits the blocking
            \* RPC it started itself, or took from the buffer); "dead"
  outcome   \* how the last call of a thread ended

linkVars == <<mode, batch, started, buffer, level, wire, pit, conn, stub, pc, outcome>>

Limit == INSTANCE LeakyBucket

Failed == {i \in pit : wire[i].status = "failed"}

\* Bug: finished futures are cleared without a look at their results.
PitUnseen == {i \in pit : wire[i].status = "running"} \cup {Len(wire) + 1}

\* futures_pit after Write_future: a failed future is raised before the pit is
\* cleaned, so that it stays.
Pit ==
  (IF Failed # {} THEN pit ELSE {i \in pit : wire[i].status = "running"})
    \cup {Len(wire) + 1}

\* Thread t goes on at p inside the locked sections.
Hold(t, p, c) ==
  /\ pc' = [pc EXCEPT ![t] = p]
  /\ conn' = c
  /\ stub' = (IF mode.limited THEN t ELSE stub)
  /\ UNCHANGED <<batch, outcome>>

\* Thread t leaves the connection: the locks are released, an exception ends a
\* heartbeat thread, the batch is emptied only after a callback that returned.
Leave(t, result) ==
  /\ outcome' = [outcome EXCEPT ![t] = result]
  /\ pc' = [pc EXCEPT ![t] = IF result = "error" /\ t \notin Writers THEN "dead" ELSE "idle"]
  /\ conn' = (IF conn = t THEN Free ELSE conn)
  /\ stub' = (IF stub = t THEN Free ELSE stub)
  /\ batch' = (IF t = Batcher /\ result = "ok" THEN <<>> ELSE batch)

\* The bare stub's Write_future or Write: the RPC starts; a future found failed,
\* of whichever earlier write, is raised in t.
Issue(t, cmd, own, c) ==
  /\ wire' = Append(wire, [kind |-> cmd.kind, updates |-> cmd.updates, by |-> t, status |-> "running"])
  /\ \/ /\ cmd.kind = "future" /\ pit' = Pit
        /\ \/ Failed # {} /\ Leave(t, "error")
           \/ Failed = {} /\ own /\ Leave(t, "ok")
           \/ Failed = {} /\ ~own /\ Hold(t, "flush", c)
     \/ cmd.kind = "blocking" /\ Hold(t, IF own THEN "call" ELSE "wait", c) /\ UNCHANGED pit

\* Bug: the limiter alone decides, whatever is buffered.
MayPass == Limit!HasRoom(level)

MaySend == buffer = <<>> /\ Limit!HasRoom(level)

\* deque(maxlen=buffer_size).append
Pushed(cmd) ==
  IF BufferSize = 0 THEN <<>>
  ELSE Append(IF Len(buffer) < BufferSize THEN buffer ELSE Tail(buffer), cmd)

\* A command of the client stub by thread t, under SwitchConnection.lock if
\* locking says so: straight to the wire, or what command_generate makes of it.
StubCommand(t, cmd, locking) ==
  LET c == IF locking THEN t ELSE conn
  IN /\ locking => conn = Free
     /\ \/ ~mode.limited /\ Issue(t, cmd, TRUE, c) /\ UNCHANGED <<buffer, level>>
        \/ /\ mode.limited /\ stub = Free /\ MaySend
           /\ Limit!Admit /\ Issue(t, cmd, TRUE, c) /\ UNCHANGED buffer
        \/ /\ mode.limited /\ stub = Free /\ ~MaySend
           /\ buffer' = Pushed(cmd) /\ Hold(t, "flush", c) /\ UNCHANGED <<level, wire, pit>>

\* One turn of _flush_buffered_commands.
FlushTurn(t) ==
  /\ pc[t] = "flush"
  /\ IF buffer # <<>> /\ Limit!HasRoom(level)
     THEN Limit!Admit /\ buffer' = Tail(buffer) /\ Issue(t, Head(buffer), FALSE, conn)
     ELSE Leave(t, "ok") /\ UNCHANGED <<buffer, level, wire, pit>>
  /\ UNCHANGED <<mode, started>>

\* The blocking RPC that t awaits has been answered.
Returned(t) ==
  /\ pc[t] \in {"call", "wait"}
  /\ LET own == SelectLastInSeq(wire, LAMBDA r : r.by = t /\ r.kind = "blocking")
     IN \/ wire[own].status = "failed" /\ Leave(t, "error")
        \/ wire[own].status = "done" /\ pc[t] = "call" /\ Leave(t, "ok")
        \/ wire[own].status = "done" /\ pc[t] = "wait" /\ Hold(t, "flush", conn)
  /\ UNCHANGED <<mode, started, buffer, level, wire, pit>>

\* RateLimitedP4RuntimeStub.heartbeat, when there is something it can do.
Heartbeat ==
  /\ mode.limited /\ pc[Heart] = "idle" /\ stub = Free
  /\ buffer # <<>> /\ Limit!HasRoom(level)
  /\ Hold(Heart, "flush", conn)
  /\ UNCHANGED <<mode, started, buffer, level, wire, pit>>

\* Bug: the start of the batch is not reset by an addition to a running one.
AddElementsFirst(t, updates) ==
  /\ pc[Batcher] \in {"idle", "dead"}
  /\ batch' = batch \o updates
  /\ started' = (batch = <<>>)
  /\ outcome' = [outcome EXCEPT ![t] = "ok"]
  /\ UNCHANGED <<buffer, level, wire, pit, conn, stub, pc>>

AddElements(t, updates) ==
  /\ pc[Batcher] \in {"idle", "dead"}
  /\ batch' = batch \o updates /\ started' = TRUE
  /\ outcome' = [outcome EXCEPT ![t] = "ok"]
  /\ UNCHANGED <<buffer, level, wire, pit, conn, stub, pc>>

\* Batcher._flush_buffered_if_necessary, any time after the batch was started:
\* batch_start_ts is reset, and the batch is handed to WriteUpdates_inner.
FlushBatch ==
  /\ pc[Batcher] = "idle" /\ started
  /\ started' = FALSE /\ pc' = [pc EXCEPT ![Batcher] = "callback"]
  /\ UNCHANGED <<mode, batch, buffer, level, wire, pit, conn, stub, outcome>>

BatchCallback ==
  /\ pc[Batcher] = "callback"
  /\ StubCommand(Batcher, [kind |-> "future", updates |-> batch], TRUE)
  /\ UNCHANGED <<mode, started>>

WriteUpdates(t, updates) ==
  /\ pc[t] = "idle"
  /\ IF mode.batching THEN AddElements(t, updates)
     ELSE StubCommand(t, [kind |-> "future", updates |-> updates], TRUE) /\ UNCHANGED started
  /\ UNCHANGED mode

\* WriteTableEntry and WritePREEntry; they wait for the switch with the lock held.
WriteLocked(t, updates) ==
  /\ pc[t] = "idle"
  /\ StubCommand(t, [kind |-> "blocking", updates |-> updates], TRUE)
  /\ UNCHANGED <<mode, started>>

\* WriteMeterEntry and the other kinds of entries, without the lock.
WriteUnlocked(t, updates) ==
  /\ pc[t] = "idle"
  /\ StubCommand(t, [kind |-> "blocking", updates |-> updates], FALSE)
  /\ UNCHANGED <<mode, started>>

\* The switch answers the RPCs on their way in any order.
SwitchAnswers ==
  /\ \E i \in DOMAIN wire, s \in {"done"} \cup (IF mode.rejects THEN {"failed"} ELSE {}) :
        wire[i].status = "running" /\ wire' = [wire EXCEPT ![i].status = s]
  /\ UNCHANGED <<mode, batch, started, buffer, level, pit, conn, stub, pc, outcome>>

TimePasses ==
  /\ level > 0 /\ Limit!Drain
  /\ UNCHANGED <<mode, batch, started, buffer, wire, pit, conn, stub, pc, outcome>>

\* A connection as its constructor makes it.
Fresh ==
  /\ batch = <<>> /\ started = FALSE /\ buffer = <<>> /\ level = 0 /\ wire = <<>> /\ pit = {}
  /\ conn = Free /\ stub = Free
  /\ pc = [t \in Threads |-> "idle"] /\ outcome = [t \in Threads |-> "ok"]

Renew ==
  /\ batch' = <<>> /\ started' = FALSE /\ buffer' = <<>> /\ level' = 0 /\ wire' = <<>> /\ pit' = {}
  /\ conn' = Free /\ stub' = Free
  /\ pc' = [t \in Threads |-> "idle"] /\ outcome' = [t \in Threads |-> "ok"]

LinkInit == mode \in Modes /\ Fresh

\* What the connection's own threads, the switch and the clock do.
Background ==
  \/ \E t \in Threads : FlushTurn(t) \/ Returned(t)
  \/ Heartbeat \/ FlushBatch \/ BatchCallback \/ SwitchAnswers \/ TimePasses

\* The threads run on, a lock that is free is taken, the switch answers.
BackgroundFairness ==
  /\ \A t \in Threads : WF_linkVars(FlushTurn(t)) /\ WF_linkVars(Returned(t))
  /\ WF_linkVars(Heartbeat) /\ WF_linkVars(FlushBatch) /\ WF_linkVars(BatchCallback)
  /\ WF_linkVars(SwitchAnswers) /\ WF_linkVars(TimePasses)

\* The updates of the asynchronous writes that have gone out, are buffered, or
\* wait in a batch that the batcher has not handed over yet.
Updates(cmds) ==
  FlattenSeq([i \in DOMAIN cmds |-> IF cmds[i].kind = "future" THEN cmds[i].updates ELSE <<>>])
Line ==
  Updates(wire) \o Updates(buffer)
    \o (IF pc[Batcher] \in {"idle", "callback"} THEN batch ELSE <<>>)
=============================================================================
