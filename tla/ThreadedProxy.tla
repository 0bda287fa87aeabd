--------------------------- MODULE ThreadedProxy ---------------------------
(***************************************************************************)
(* The threaded proxy (testing_base_files/proxy_nonasync.py) with one      *)
(* target, over the connection of module ThreadedLink: a pool of worker    *)
(* threads that serves StreamChannel and Write without any lock, the redis *)
(* log, the fill at start, and the entries that start_servers_by_proxy_-   *)
(* config writes to the target once its servers run.                       *)
(*                                                                         *)
(* An update is <<c, n>>, the n-th of controller c, which makes its calls  *)
(* one after the other; MaxWrites bounds their number, MaxStarts the starts. *)
(***************************************************************************)
EXTENDS ThreadedLink

CONSTANTS
  Main,        \* the thread that runs start_servers_by_proxy_config
  WorkerNum,   \* worker_num of the source: threads of the server's pool
  Preloads,    \* number of preload_entries
  MaxWrites, MaxStarts

ASSUME ProxyAssumption ==
  /\ Main \in Writers /\ Preloads \in Nat
  /\ WorkerNum \in Nat \ {0} /\ MaxWrites \in Nat /\ MaxStarts \in Nat

Controllers == Writers \ {Main}

VARIABLES
  log,     \* TABLE_ENTRIES in redis: updates
  made,    \* updates each controller has asked for
  stage,   \* of each controller: "opening" its stream, "open"; "asked", "logged",
           \* "sent": how far its Write has got
  phase,   \* of the main thread: "down", "fill", "preload", "serve", "failed"
  done,    \* log entries filled, or entries preloaded
  starts

proxyVars == <<log, made, stage, phase, done, starts>>
vars == <<linkVars, proxyVars>>

At(stages) == {c \in Controllers : stage[c] \in stages}

Asked == UNION {{c} \X (1..made[c]) : c \in Controllers}

\* Bug: a worker is not given back after a Write.
TakenForGood == Cardinality(Controllers \ At({"opening"})) + Cardinality(Asked)

\* Worker threads taken: a StreamChannel keeps its one as long as it is open.
Taken == Cardinality(Controllers \ At({"opening"})) + Cardinality(At({"logged", "sent"}))

Serving == phase \in {"preload", "serve", "failed"}

\* A controller's MasterArbitrationUpdate gets its stream.
StreamChannel(c) ==
  /\ Serving /\ stage[c] = "opening" /\ Taken < WorkerNum
  /\ stage' = [stage EXCEPT ![c] = "open"]
  /\ UNCHANGED <<linkVars, log, made, phase, done, starts>>

Ask(c) ==
  /\ Serving /\ stage[c] = "open" /\ Cardinality(Asked) < MaxWrites
  /\ stage' = [stage EXCEPT ![c] = "asked"]
  /\ made' = [made EXCEPT ![c] = @ + 1]
  /\ UNCHANGED <<linkVars, log, phase, done, starts>>

\* Write, in a worker thread: the update is logged ...
Write(c) ==
  /\ Serving /\ stage[c] = "asked" /\ Taken < WorkerNum
  /\ log' = Append(log, <<c, made[c]>>)
  /\ stage' = [stage EXCEPT ![c] = "logged"]
  /\ UNCHANGED <<linkVars, made, phase, done, starts>>

\* ... and sent to the target ...
Send(c) ==
  /\ stage[c] = "logged" /\ WriteUpdates(c, << <<c, made[c]>> >>)
  /\ stage' = [stage EXCEPT ![c] = "sent"]
  /\ UNCHANGED <<log, made, phase, done, starts>>

\* ... and the call returns or raises what WriteUpdates raised.
Answer(c) ==
  /\ stage[c] = "sent" /\ pc[c] = "idle"
  /\ stage' = [stage EXCEPT ![c] = "open"]
  /\ UNCHANGED <<linkVars, log, made, phase, done, starts>>

\* start_servers_by_proxy_config connects to a switch it resets.
Start ==
  /\ phase = "down" /\ starts < MaxStarts
  /\ starts' = starts + 1
  /\ phase' = "fill" /\ done' = 0
  /\ UNCHANGED <<linkVars, log, made, stage>>

\* fill_from_redis and then the server's start.
Fill ==
  /\ phase = "fill" /\ pc[Main] = "idle" /\ outcome[Main] = "ok"
  /\ IF done < Len(log)
     THEN done' = done + 1 /\ WriteUpdates(Main, <<log[done']>>) /\ UNCHANGED phase
     ELSE phase' = "preload" /\ done' = 0 /\ UNCHANGED linkVars
  /\ UNCHANGED <<log, made, stage, starts>>

\* The preload entries are written past the log, next to the running servers.
Preload ==
  /\ phase = "preload" /\ pc[Main] = "idle" /\ outcome[Main] = "ok"
  /\ IF done < Preloads
     THEN /\ done' = done + 1 /\ UNCHANGED phase
          /\ WriteLocked(Main, << <<Main, done'>> >>) \/ WriteUnlocked(Main, << <<Main, done'>> >>)
     ELSE phase' = "serve" /\ done' = 0 /\ UNCHANGED linkVars
  /\ UNCHANGED <<log, made, stage, starts>>

\* An exception in the main thread; servers that run already go on.
StartFails ==
  /\ phase \in {"fill", "preload"} /\ pc[Main] = "idle" /\ outcome[Main] = "error"
  /\ phase' = (IF phase = "fill" THEN "down" ELSE "failed")
  /\ IF phase = "fill" THEN Renew /\ UNCHANGED mode ELSE UNCHANGED linkVars
  /\ done' = 0
  /\ UNCHANGED <<log, made, stage, starts>>

\* The process ends at any time; a call in progress fails, the controllers
\* connect anew.
Crash ==
  /\ phase # "down" /\ starts < MaxStarts
  /\ phase' = "down" /\ done' = 0
  /\ Renew /\ stage' = [c \in Controllers |-> "opening"]
  /\ UNCHANGED <<mode, log, made, starts>>

Init ==
  /\ LinkInit
  /\ log = <<>> /\ made = [c \in Controllers |-> 0]
  /\ stage = [c \in Controllers |-> "opening"]
  /\ phase = "down" /\ done = 0 /\ starts = 0

Next ==
  \/ \E c \in Controllers :
        StreamChannel(c) \/ Ask(c) \/ Write(c) \/ Send(c) \/ Answer(c)
  \/ Start \/ Fill \/ Preload \/ StartFails \/ Crash
  \/ phase # "down" /\ Background /\ UNCHANGED proxyVars

Spec == Init /\ [][Next]_vars

\* The process is started, its threads run and take a lock that is free, and
\* the switch answers.  Nobody has to call.
Fairness ==
  /\ \A c \in Controllers :
       WF_vars(StreamChannel(c)) /\ WF_vars(Write(c)) /\ WF_vars(Send(c)) /\ WF_vars(Answer(c))
  /\ WF_vars(Start) /\ WF_vars(Fill) /\ WF_vars(Preload)
  /\ BackgroundFairness

FairSpec == Spec /\ Fairness

Of(c, s) == FlattenSeq([i \in DOMAIN s |-> IF s[i][1] = c THEN <<s[i]>> ELSE <<>>])

\* Since the last start every controller's updates have come, or are on their
\* way to the switch in the order and with the beginning the log has for it:
\* the fill in front, nothing overtaken in batch or buffer, nothing twice, and
\* nothing the log does not know.
WireFollowsLog ==
  \A c \in Controllers : IsPrefix(Of(c, Line), Of(c, log))

\* Of a controller that waits for no answer, in a process whose threads all
\* live, nothing is missing either.
NothingLost ==
  \A c \in Controllers :
    (Serving /\ stage[c] = "open" /\ pc[Batcher] # "dead") => Of(c, Line) = Of(c, log)

\* What a switch gets and what the log would rebuild after a crash are the same
\* for every controller, whichever threads hand its updates on.
LineMatchesLog == WireFollowsLog /\ NothingLost

\* Once a failed write has been noticed no later Write without batch and
\* buffer is answered with success: the failed future stays in the pit.
FailStop ==
  [][\A c \in Controllers :
       (stage[c] = "logged" /\ stage'[c] = "sent" /\ ~mode.batching /\ ~mode.limited /\ Failed # {})
         => outcome'[c] = "error" /\ Failed' # {}]_vars

Sent(c, n) == \E i \in DOMAIN wire : <<c, n>> \in ToSet(wire[i].updates)

\* Whatever is in the log goes out, by the connection's threads alone, if the
\* switch accepts what it is sent and the process is not ended.
LoggedIsSent ==
  \A c \in Controllers, n \in 1..MaxWrites :
    [](<<c, n>> \in ToSet(log) => <>(Sent(c, n) \/ mode.rejects))

\* Every call gets a worker and an answer, streams notwithstanding: no lock is
\* kept and no pool exhausted while there are more workers than controllers.
Served ==
  \A c \in Controllers :
    stage[c] \in {"opening", "asked"} ~> (stage[c] = "open" \/ phase # "serve")
=============================================================================
