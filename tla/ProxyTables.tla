---------------------------- MODULE ProxyTables ----------------------------
(***************************************************************************)
(* The table-entry path of one ProxyP4RuntimeServicer (proxy.py): the      *)
(* controllers' Write requests, the redis log of the accepted updates, the *)
(* set of target switches with their allow-only filters, the fill of a     *)
(* target from the log, and the tables of the switches themselves.         *)
(*                                                                         *)
(* The proxy is one asyncio program: a handler runs without interruption   *)
(* from one await to the next (the redis client is synchronous), so one    *)
(* action is the code between two awaits.  What is awaited is a Write RPC  *)
(* to a switch: a record of rpcs, applied by its switch at any later time. *)
(*                                                                         *)
(* Bounds: MaxLog updates in the redis log, MaxUpdates in a request,       *)
(* RpcIds for the controllers' requests in flight.  One operator calls     *)
(* add_target_switch, remove_target_switch and the two filter operations   *)
(* one after the other, as the users of balancer_manager.py do.  Targets   *)
(* have neither a rate limit nor a batch delay here (module WriteLink has  *)
(* them), and production_mode is off.                                      *)
(***************************************************************************)
EXTENDS Integers, Sequences, FiniteSets

CONSTANTS
  Targets,          \* addresses (host:port) of the switches there are
  Configured,       \* the targets the proxy is started with
  Entries,          \* table entries, by what identifies them: table and match
  Values,           \* what an entry holds: its action and parameters
  NoEntry,          \* what a table holds for an entry it does not have
  Tables, TableOf,  \* the table of an entry
  Params, MatchValues, Match, \* the exact match fields of an entry, by name
  Names,            \* the tables a target's "names" lists (all if it has none)
  InitFilter,       \* filter_params_allow_only in a target's configuration
  RedisMode,
  ResetDataplane,   \* reset_dataplane of the connections
  Controllers,
  NoTarget,
  MaxLog, MaxUpdates, RpcIds

\* An allow-only filter: the allowed values of some match fields.  The code's
\* None and {} both allow everything: both are the filter of no field.
Filters  == UNION {[ps -> SUBSET MatchValues] : ps \in SUBSET Params}
NoFilter == [p \in {} |-> {}]

ASSUME EntriesAssumption ==
  /\ NoEntry \notin Values
  /\ TableOf \in [Entries -> Tables]
  /\ Match \in [Entries -> UNION {[ps -> MatchValues] : ps \in SUBSET Params}]
ASSUME TargetsAssumption ==
  /\ Configured \subseteq Targets
  /\ Names \in [Targets -> SUBSET Tables]
  /\ InitFilter \in [Targets -> Filters]
  /\ ResetDataplane \in BOOLEAN
  /\ RedisMode \in {"READWRITE", "ONLY_WRITE", "ONLY_READ", "OFF"}
ASSUME BoundsAssumption ==
  /\ MaxLog \in Nat /\ MaxUpdates \in Nat
  /\ RpcIds \subseteq Nat \ {0}

IsReading == RedisMode \in {"READWRITE", "ONLY_READ"}
IsWriting == RedisMode \in {"READWRITE", "ONLY_WRITE"}

\* p4runtime Update messages on table entries; a DELETE carries no value.
Updates == [type : {"INSERT", "MODIFY"}, entry : Entries, value : Values]
             \cup [type : {"DELETE"}, entry : Entries, value : {NoEntry}]
Delete(e) == [type |-> "DELETE", entry |-> e, value |-> NoEntry]

VARIABLES
  phase,    \* of the proxy process: "down", "starting" (it fills), "up"
  members,  \* keys of _target_switches
  filter,   \* filter_params_allow_only of each target
  log,      \* redis list TABLE_ENTRIES
  p4info,   \* is redis key P4INFO set?
  rpcs,     \* Write RPCs to switches, not answered yet
  waiting,  \* the request each controller awaits the answer of
  op,       \* the operator's call in progress, or the fill at start
  dp        \* the tables of each switch

vars == <<phase, members, filter, log, p4info, rpcs, waiting, op, dp>>

(***************************************************************************)
(* Calls in progress.  snap is the lrange snapshot of the log, left the    *)
(* positions of it still to be sent to target, rest the targets to fill    *)
(* after this one (fill_from_redis at start); awaits tells whether the     *)
(* call awaits the answer to its RPC.                                      *)
(***************************************************************************)
IdleOp == [kind |-> "idle", target |-> NoTarget, snap |-> <<>>,
           left |-> {}, rest |-> {}, awaits |-> FALSE]

\* Positions of a set in the order the code visits them.
IsFirst(i, S) == i \in S /\ \A j \in S : i <= j

\* Is the entry let through by filter f?  Only exact fields of tables count.
IsAllowed(e, f) == \A p \in DOMAIN Match[e] \cap DOMAIN f : Match[e][p] \in f[p]

IsNamed(e, t) == TableOf[e] \in Names[t]

\* Bug: the last record of the log is left out (lrange(0, -2)).
CallForButLast(kind, t, es, rest) ==
  [kind |-> kind, target |-> t, snap |-> log,
   left |-> {i \in DOMAIN log : i < Len(log) /\ log[i].entry \in es},
   rest |-> rest, awaits |-> FALSE]

\* Bug: only INSERTs are played again.
CallForInsertsOnly(kind, t, es, rest) ==
  [kind |-> kind, target |-> t, snap |-> log,
   left |-> {i \in DOMAIN log : log[i].type = "INSERT" /\ log[i].entry \in es},
   rest |-> rest, awaits |-> FALSE]

\* A call that sends to t the updates of the log that concern the entries es.
CallFor(kind, t, es, rest) ==
  [kind |-> kind, target |-> t, snap |-> log,
   left |-> {i \in DOMAIN log : log[i].entry \in es}, rest |-> rest, awaits |-> FALSE]

\* fill_from_redis_one_target under the filter f, which the Write of each
\* update checks against the target's own filter g once more.
FillCall(t, f, g, rest) ==
  CallFor("fill", t,
          {e \in Entries : IsNamed(e, t) /\ IsAllowed(e, f) /\ IsAllowed(e, g)}, rest)

WriteRpc(id, t, us, left) ==
  [id |-> id, target |-> t, updates |-> us, left |-> left, ok |-> TRUE]

\* Requests in flight: the controllers' by number, and the operator's one.
NoRequest == 0
OpRequest == -1
FreeIds == RpcIds \ ({r.id : r \in rpcs} \cup {waiting[c] : c \in Controllers})

(***************************************************************************)
(* The switch, as far as the proxy relies on it: an INSERT of an entry it  *)
(* has and a MODIFY or DELETE of one it lacks are answered with an error.  *)
(***************************************************************************)
EmptyTable == [e \in Entries |-> NoEntry]

Accepts(table, u) == (u.type = "INSERT") <=> (table[u.entry] = NoEntry)

Applied(table, u) ==
  IF Accepts(table, u) THEN [table EXCEPT ![u.entry] = u.value] ELSE table

(***************************************************************************)
(* Controllers.                                                            *)
(***************************************************************************)
\* get_multi_target_switch_and_index: a single target gets everything.
Routed(e) == IF Cardinality(members) = 1 THEN members
                                         ELSE {t \in members : IsNamed(e, t)}

\* Bug: the filters are not looked at.
DestinationsUnfiltered(e) == Routed(e)

Destinations(e) == {t \in Routed(e) : IsAllowed(e, filter[t])}

\* The positions of request us that go to t.
Share(us, t) == {i \in DOMAIN us : t \in Destinations(us[i].entry)}

\* Bug: a target with no share of the request is written to as well.
ReachedAll(us) == members

Reached(us) == {t \in members : Share(us, t) # {}}

\* Write: every update is logged before it is routed; one RPC per target
\* carries the target's share; the handler awaits all of them.
Write(c, us) ==
  /\ phase = "up" /\ waiting[c] = NoRequest
  /\ Len(log) + Len(us) <= MaxLog
  /\ log' = IF IsWriting THEN log \o us ELSE log
  /\ \E id \in RpcIds :
       /\ IsFirst(id, FreeIds)
       /\ rpcs' = rpcs \cup {WriteRpc(id, t, us, Share(us, t)) : t \in Reached(us)}
       /\ waiting' = IF Reached(us) = {} THEN waiting ELSE [waiting EXCEPT ![c] = id]
  /\ UNCHANGED <<phase, members, filter, p4info, op, dp>>

\* A new pipeline: the redis records are deleted and the p4info is kept.
\* The switches are not told.
SetForwardingPipelineConfig ==
  /\ phase = "up"
  /\ log' = IF IsWriting THEN <<>> ELSE log
  /\ p4info' = (p4info \/ IsWriting)
  /\ UNCHANGED <<phase, members, filter, rpcs, waiting, op, dp>>

(***************************************************************************)
(* Answers.  gather returns once every RPC of the request is answered, or  *)
(* raises at the first error; an error ends the operator's call, and the   *)
(* process when it was the fill at start.                                  *)
(***************************************************************************)
\* Bug: an error is swallowed with the caller still waiting.
ReturnsIfGood(r) == r.ok /\ \A q \in rpcs' : q.id # r.id

Returns(r) == ~r.ok \/ \A q \in rpcs' : q.id # r.id

Return(r) ==
  /\ waiting' = [c \in Controllers |->
       IF waiting[c] = r.id /\ Returns(r) THEN NoRequest ELSE waiting[c]]
  /\ op' = IF op.awaits /\ r.id = OpRequest
           THEN IF r.ok THEN [op EXCEPT !.awaits = FALSE] ELSE IdleOp
           ELSE op
  /\ phase' = IF op.awaits /\ r.id = OpRequest /\ ~r.ok /\ phase = "starting"
              THEN "down" ELSE phase
  /\ members' = IF phase' = "down" THEN {} ELSE members

\* A switch executes the next update of a Write RPC; the last one answers it.
Apply(r) ==
  /\ \E i \in r.left :
       /\ IsFirst(i, r.left)
       /\ LET table == dp[r.target]
              next  == [r EXCEPT !.left = @ \ {i},
                                 !.ok = @ /\ Accepts(table, r.updates[i])]
          IN
          /\ dp' = [dp EXCEPT ![r.target] = Applied(table, r.updates[i])]
          /\ IF next.left = {}
             THEN rpcs' = rpcs \ {r} /\ Return(next)
             ELSE rpcs' = (rpcs \ {r}) \cup {next}
                  /\ UNCHANGED <<waiting, op, phase, members>>
  /\ UNCHANGED <<filter, log, p4info>>

(***************************************************************************)
(* The operator.                                                           *)
(***************************************************************************)
\* Bug: the new target is not filled.
AddTargetUnfilled(t, f) ==
  /\ phase = "up" /\ op = IdleOp /\ t \notin members
  /\ members' = members \cup {t}
  /\ filter' = [filter EXCEPT ![t] = f]
  /\ dp' = IF ResetDataplane THEN [dp EXCEPT ![t] = EmptyTable] ELSE dp
  /\ UNCHANGED <<phase, log, p4info, rpcs, waiting, op>>

\* add_target_switch: registration and the snapshot of the log happen with no
\* await between them.  The connection was initialised just before: it clears
\* the switch if reset_dataplane is set.
AddTarget(t, f) ==
  /\ phase = "up" /\ op = IdleOp /\ t \notin members
  /\ members' = members \cup {t}
  /\ filter' = [filter EXCEPT ![t] = f]
  /\ dp' = IF ResetDataplane THEN [dp EXCEPT ![t] = EmptyTable] ELSE dp
  /\ op' = IF IsWriting /\ p4info THEN FillCall(t, f, f, {}) ELSE IdleOp
  /\ UNCHANGED <<phase, log, p4info, rpcs, waiting>>

\* Bug: what is in flight is dropped with the channel, and nobody is told.
RemoveTargetClosing(t) ==
  /\ phase = "up" /\ op = IdleOp /\ t \in members
  /\ members' = members \ {t}
  /\ filter' = [filter EXCEPT ![t] = NoFilter]
  /\ rpcs' = {r \in rpcs : r.target # t}
  /\ UNCHANGED <<phase, log, p4info, waiting, op, dp>>

\* remove_target_switch: the target is dropped before the first await; what is
\* in flight to it stays in flight, its switch keeps its tables.
RemoveTarget(t) ==
  /\ phase = "up" /\ op = IdleOp /\ t \in members
  /\ members' = members \ {t}
  /\ filter' = [filter EXCEPT ![t] = NoFilter]
  /\ UNCHANGED <<phase, log, p4info, rpcs, waiting, op, dp>>

\* What add_filter_params_allow_only_to_host makes of the target's filter, and
\* the part of it that is new (the empty set for a field with nothing new).
Extended(f, adds) ==
  [p \in DOMAIN f \cup DOMAIN adds |->
     (IF p \in DOMAIN f THEN f[p] ELSE {}) \cup (IF p \in DOMAIN adds THEN adds[p] ELSE {})]
\* Bug: what was allowed before counts as new.
AllAdded(f, adds) == adds

NewlyAdded(f, adds) ==
  [p \in DOMAIN adds |-> IF p \in DOMAIN f THEN adds[p] \ f[p] ELSE adds[p]]

\* add_filter_params_allow_only_to_host: fills with what the new values allow.
AddFilterParams(t, adds) ==
  /\ phase = "up" /\ op = IdleOp /\ t \in members
  /\ LET f == Extended(filter[t], adds) IN
     /\ filter' = [filter EXCEPT ![t] = f]
     /\ op' = IF p4info THEN FillCall(t, NewlyAdded(filter[t], adds), f, {}) ELSE IdleOp
  /\ UNCHANGED <<phase, members, log, p4info, rpcs, waiting, dp>>

Shrunk(f, removes) ==
  [p \in DOMAIN f |-> IF p \in DOMAIN removes THEN f[p] \ removes[p] ELSE f[p]]

\* Bug: the filter shrinks, the entries stay.
RemoveFilterParamsOnly(t, removes) ==
  /\ phase = "up" /\ op = IdleOp /\ t \in members
  /\ filter' = [filter EXCEPT ![t] = Shrunk(@, removes)]
  /\ UNCHANGED <<phase, members, log, p4info, rpcs, waiting, op, dp>>

\* remove_from_filter_params_allow_only_to_host: deletes what was allowed and
\* no longer is, one DELETE per logged update.
RemoveFilterParams(t, removes) ==
  /\ phase = "up" /\ op = IdleOp /\ t \in members
  /\ LET f == filter[t]
         g == Shrunk(f, removes)
     IN
     /\ filter' = [filter EXCEPT ![t] = g]
     /\ op' = IF p4info
              THEN CallFor("withdraw", t,
                     {e \in Entries : IsNamed(e, t) /\ IsAllowed(e, f) /\ ~IsAllowed(e, g)}, {})
              ELSE IdleOp
  /\ UNCHANGED <<phase, members, log, p4info, rpcs, waiting, dp>>

\* Bug: the answer is not awaited.
OpSendUnawaited ==
  /\ \E i \in op.left :
       /\ IsFirst(i, op.left)
       /\ LET u == IF op.kind = "withdraw" THEN Delete(op.snap[i].entry)
                                           ELSE op.snap[i]
          IN rpcs' = rpcs \cup {WriteRpc(OpRequest, op.target, <<u>>, {1})}
       /\ op' = [op EXCEPT !.left = @ \ {i}]
  /\ UNCHANGED <<phase, members, filter, log, p4info, waiting, dp>>

\* One _write_update_object of the call in progress: it awaits the answer.
OpSend ==
  /\ ~op.awaits
  /\ \E i \in op.left :
       /\ IsFirst(i, op.left)
       /\ LET u == IF op.kind = "withdraw" THEN Delete(op.snap[i].entry)
                                           ELSE op.snap[i]
          IN rpcs' = rpcs \cup {WriteRpc(OpRequest, op.target, <<u>>, {1})}
       /\ op' = [op EXCEPT !.left = @ \ {i}, !.awaits = TRUE]
  /\ UNCHANGED <<phase, members, filter, log, p4info, waiting, dp>>

\* The call has nothing left to send: on to the next target, or it returns.
OpDone ==
  /\ op # IdleOp /\ ~op.awaits /\ op.left = {}
  /\ IF op.rest = {}
     THEN op' = IdleOp /\ phase' = "up"
     ELSE /\ \E t \in op.rest : op' = FillCall(t, filter[t], filter[t], op.rest \ {t})
          /\ UNCHANGED phase
  /\ UNCHANGED <<members, filter, log, p4info, rpcs, waiting, dp>>

(***************************************************************************)
(* The process.                                                            *)
(***************************************************************************)
\* ProxyServer.start: the targets of the configuration are connected and
\* filled from redis before the server listens.
Start ==
  /\ phase = "down" /\ rpcs = {}
  /\ members' = Configured
  /\ filter' = [t \in Targets |-> IF t \in Configured THEN InitFilter[t] ELSE NoFilter]
  /\ dp' = [t \in Targets |-> IF t \in Configured /\ ResetDataplane THEN EmptyTable ELSE dp[t]]
  /\ IF IsReading /\ p4info /\ Configured # {}
     THEN /\ phase' = "starting"
          /\ \E t \in Configured :
               op' = FillCall(t, InitFilter[t], InitFilter[t], Configured \ {t})
     ELSE phase' = "up" /\ op' = IdleOp
  /\ UNCHANGED <<log, p4info, rpcs, waiting>>

\* The process dies; redis and the switches stay.
Crash ==
  /\ phase # "down"
  /\ phase' = "down"
  /\ members' = {}
  /\ waiting' = [c \in Controllers |-> NoRequest]
  /\ op' = IdleOp
  /\ UNCHANGED <<filter, log, p4info, rpcs, dp>>

\* What a dead process had in flight may never reach its switch.
Lose(r) ==
  /\ phase = "down"
  /\ rpcs' = rpcs \ {r}
  /\ UNCHANGED <<phase, members, filter, log, p4info, waiting, op, dp>>

Init ==
  /\ phase = "down"
  /\ members = {}
  /\ filter = [t \in Targets |-> NoFilter]
  /\ log = <<>>
  /\ p4info = FALSE
  /\ rpcs = {}
  /\ waiting = [c \in Controllers |-> NoRequest]
  /\ op = IdleOp
  /\ dp = [t \in Targets |-> EmptyTable]

\* The steps nobody outside chooses.
InternalNext == (\E r \in rpcs : Apply(r)) \/ OpSend \/ OpDone \/ Start

(***************************************************************************)
(* The specification without any assumption on what callers do.            *)
(***************************************************************************)
Requests == UNION {[1..n -> Updates] : n \in 1..MaxUpdates}

Next ==
  \/ \E c \in Controllers, us \in Requests : Write(c, us)
  \/ SetForwardingPipelineConfig
  \/ \E t \in Targets, f \in Filters : AddTarget(t, f)
  \/ \E t \in Targets : RemoveTarget(t)
  \/ \E t \in Targets, f \in Filters : AddFilterParams(t, f)
  \/ \E t \in Targets, f \in Filters : RemoveFilterParams(t, f)
  \/ InternalNext
  \/ Crash
  \/ \E r \in rpcs : Lose(r)

Spec == Init /\ [][Next]_vars

(***************************************************************************)
(* Properties under any use.                                               *)
(***************************************************************************)
\* Types; a request in flight has something left to execute, and a call in
\* progress with something to send or awaited has a target.
TypeOK ==
  /\ phase \in {"down", "starting", "up"}
  /\ members \subseteq Targets
  /\ filter \in [Targets -> Filters]
  /\ log \in Seq(Updates)
  /\ p4info \in BOOLEAN
  /\ \A r \in rpcs :
       /\ r \in [id : RpcIds \cup {OpRequest}, target : Targets, updates : Seq(Updates),
                 left : SUBSET Nat, ok : BOOLEAN]
       /\ r.left # {} /\ r.left \subseteq DOMAIN r.updates
  /\ waiting \in [Controllers -> RpcIds \cup {NoRequest}]
  /\ op \in [kind : {"idle", "fill", "withdraw"}, target : Targets \cup {NoTarget},
             snap : Seq(Updates), left : SUBSET Nat, rest : SUBSET Targets,
             awaits : BOOLEAN]
  /\ op.left \subseteq DOMAIN op.snap
  /\ (op.left # {} \/ op.awaits) => op.target \in Targets
  /\ dp \in [Targets -> [Entries -> Values \cup {NoEntry}]]

\* Nobody awaits an answer that cannot come: while a controller's request or
\* the operator's call awaits, one of its RPCs is still in flight, whatever
\* was rejected, removed or reconfigured meanwhile.
AnswersPending ==
  /\ \A c \in Controllers : waiting[c] # NoRequest => \E r \in rpcs : r.id = waiting[c]
  /\ op.awaits => \E r \in rpcs : r.id = OpRequest /\ r.target = op.target

(***************************************************************************)
(* Liveness under any use: the switches answer every RPC, and the event    *)
(* loop runs what is ready.                                                *)
(***************************************************************************)
Fairness ==
  /\ \A t \in Targets, id \in RpcIds \cup {OpRequest} :
       WF_vars(\E r \in rpcs : r.target = t /\ r.id = id /\ Apply(r))
  /\ WF_vars(OpSend) /\ WF_vars(OpDone) /\ WF_vars(Start)

FairSpec == Spec /\ Fairness

\* Every call returns: an operator's call in progress ends, with or without an
\* error, and so does every request of a controller.
CallsReturn ==
  /\ op # IdleOp ~> op = IdleOp
  /\ \A c \in Controllers : waiting[c] # NoRequest ~> waiting[c] = NoRequest
=============================================================================
