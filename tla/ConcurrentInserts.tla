------------------------- MODULE ConcurrentInserts -------------------------
(***************************************************************************)
(* ProxyTables under the load it is built for: controllers INSERT entries  *)
(* while the operator adds and removes replicas and moves their filters,   *)
(* and the proxy crashes and restarts.  Everything overlaps; what callers  *)
(* are assumed to do is written as the guards of the actions below:        *)
(*   - a controller sets the pipeline first and INSERTs an entry once;     *)
(*   - all targets are replicas (no "names"), every connection resets its  *)
(*     switch, and a target is added with the filter of its configuration; *)
(*   - a target is added when nothing is in flight to its address (it is a *)
(*     freshly started switch);                                            *)
(*   - add_filter names one field that the filter already restricts and    *)
(*     that every entry has;                                               *)
(*   - remove_from_filter is called when nothing it is to withdraw is      *)
(*     still in flight to the target.                                      *)
(* Dropping any one of the last three breaks Converged (see the README).   *)
(***************************************************************************)
EXTENDS ProxyTables

ASSUME Replicas ==
  /\ \A t \in Targets : Names[t] = Tables
  /\ ResetDataplane /\ IsWriting /\ IsReading

Insert(e, v) == [type |-> "INSERT", entry |-> e, value |-> v]

Logged == {log[i].entry : i \in DOMAIN log}

\* What INSERTs of which entry are on their way to target t, and which are
\* still to be sent to it by the operator's call.
InFlight(t, e) ==
  {r \in rpcs : r.target = t /\ \E i \in r.left : r.updates[i].entry = e
                                                  /\ r.updates[i].type = "INSERT"}
Filling(t, e) ==
  op.kind = "fill" /\ \/ op.target = t /\ \E i \in op.left : op.snap[i].entry = e
                      \/ t \in op.rest
Withdrawing(t, e) ==
  /\ op.kind = "withdraw" /\ op.target = t
  /\ \/ \E i \in op.left : op.snap[i].entry = e
     \/ \E r \in rpcs : op.awaits /\ r.id = OpRequest /\ r.updates[1].entry = e
Installed(t, e) == dp[t][e] # NoEntry

InsertRequests ==
  {us \in Requests :
     /\ \A i \in DOMAIN us : us[i].type = "INSERT" /\ us[i].entry \notin Logged
     /\ \A i, j \in DOMAIN us : us[i].entry = us[j].entry => i = j}

InsertNext ==
  \/ ~p4info /\ SetForwardingPipelineConfig
  \/ \E c \in Controllers, us \in InsertRequests : p4info /\ Write(c, us)
  \/ \E t \in Targets : /\ \A r \in rpcs : r.target # t
                        /\ AddTarget(t, InitFilter[t])
  \/ \E t \in Targets : RemoveTarget(t)
  \/ \E t \in Targets, p \in Params, vs \in SUBSET MatchValues :
       /\ p \in DOMAIN filter[t] /\ \A e \in Entries : p \in DOMAIN Match[e]
       /\ AddFilterParams(t, [q \in {p} |-> vs])
  \/ \E t \in Targets, removes \in Filters :
       /\ \A e \in Entries : IsAllowed(e, Shrunk(filter[t], removes)) \/ InFlight(t, e) = {}
       /\ RemoveFilterParams(t, removes)
  \/ InternalNext
  \/ Crash
  \/ \E r \in rpcs : Lose(r)

InsertSpec == Init /\ [][InsertNext]_vars

(***************************************************************************)
(* Safety.                                                                 *)
(***************************************************************************)
Wants(t, e) == e \in Logged /\ IsAllowed(e, filter[t])

\* No entry is lost: an entry a member's filter allows is in its switch's
\* table, on its way there, or still to be sent by the call in progress,
\* whatever the interleaving of writes, fills, filter changes and crashes.
NoLoss ==
  \A t \in members, e \in Entries :
    Wants(t, e) => Installed(t, e) \/ InFlight(t, e) # {} \/ Filling(t, e)

\* No entry goes where the filter forbids it, except while the withdrawal
\* that will delete it is in progress.
NoIntruder ==
  \A t \in members, e \in Entries :
    Installed(t, e) \/ InFlight(t, e) # {} => Wants(t, e) \/ Withdrawing(t, e)

\* No switch will ever reject what is in flight to it: no entry is sent twice
\* and no absent entry is deleted, so no call of an operator or a controller
\* fails half way.
NothingRejected ==
  \A r \in rpcs : \A i \in r.left : Accepts(dp[r.target], r.updates[i])

\* When nothing is in flight and no call is in progress, every member's table
\* holds exactly the logged entries that its filter allows.
Converged ==
  phase = "up" /\ rpcs = {} /\ op = IdleOp =>
    \A t \in members, e \in Entries : Installed(t, e) <=> Wants(t, e)

(***************************************************************************)
(* Why these hold: an invariant that every step preserves.                 *)
(***************************************************************************)
\* Something about entry e is on its way to target t.
Carried(t, e) ==
  \E r \in rpcs : r.target = t /\ \E i \in r.left : r.updates[i].entry = e

LogInv ==
  /\ \A i \in DOMAIN log : log[i].type = "INSERT"
  /\ \A i, j \in DOMAIN log : log[i].entry = log[j].entry => i = j
  /\ ~p4info => log = <<>>

\* Every update in flight is one its switch will take, and the only one about
\* its entry; only a withdrawal deletes.
RpcInv ==
  /\ \A r \in rpcs : r.ok /\ \A i \in r.left :
       LET e == r.updates[i].entry IN
       /\ e \in Logged
       /\ \/ r.updates[i].type = "INSERT" /\ ~Installed(r.target, e)
          \/ /\ r.updates[i].type = "DELETE" /\ Installed(r.target, e)
             /\ r.id = OpRequest
             /\ phase # "down" => op.kind = "withdraw" /\ ~IsAllowed(e, filter[r.target])
  /\ \A r, q \in rpcs : \A i \in r.left, j \in q.left :
       r.target = q.target /\ r.updates[i].entry = q.updates[j].entry => r = q /\ i = j
  /\ phase # "down" => \A r \in rpcs : r.id = OpRequest =>
       /\ op.awaits /\ r.target = op.target /\ r.left = {1}
       /\ op.kind = "withdraw" => r.updates[1].type = "DELETE"
       /\ \A q \in rpcs : q.id = OpRequest => q = r

\* What the call in progress still has to send is missing from its target (a
\* fill) or there to be deleted (a withdrawal); targets still to be filled
\* are empty.
OpInv ==
  /\ op.kind = "idle" => op = IdleOp
  /\ op.kind # "idle" => op.target \in members
  /\ \A i, j \in op.left : op.snap[i].entry = op.snap[j].entry => i = j
  /\ \A i \in op.left :
       LET e == op.snap[i].entry IN
       /\ op.snap[i].type = "INSERT" /\ e \in Logged /\ ~Carried(op.target, e)
       /\ Installed(op.target, e) <=> op.kind = "withdraw"
       /\ IsAllowed(e, filter[op.target]) <=> op.kind = "fill"
  /\ \A t \in op.rest :
       /\ t \in members /\ t # op.target
       /\ \A r \in rpcs : r.target # t
       /\ \A e \in Entries : ~Installed(t, e)

PhaseInv ==
  /\ phase = "down" => members = {} /\ op = IdleOp
  /\ phase = "starting" => op.kind = "fill"
  /\ op.rest # {} => phase = "starting"

\* The inductive invariant: whatever is in flight or still to be sent is taken
\* when it gets to its switch, nothing is sent twice, nothing is missing.
InsertInv ==
  TypeOK /\ LogInv /\ RpcInv /\ OpInv /\ PhaseInv /\ NoLoss /\ NoIntruder

(***************************************************************************)
(* Liveness: nothing is assumed of controllers, operator or crashes.       *)
(***************************************************************************)
InsertFairSpec == InsertSpec /\ Fairness

\* An entry a member is to have gets to its table, unless the member goes or
\* its filter changes first: no interleaving of fills, restarts and filter
\* changes leaves it out for ever.
Settles ==
  \A t \in Targets, e \in Entries :
    (t \in members /\ Wants(t, e)) ~>
      (t \notin members \/ ~Wants(t, e) \/ Installed(t, e))

(***************************************************************************)
(* Refinement: the proxy implements the virtual device.  A switch that is  *)
(* not a member, or not any more, is no part of it.                        *)
(***************************************************************************)
Device == INSTANCE VirtualDevice WITH
  table   <- Logged,
  allowed <- [t \in Targets |-> IF t \in members
                                THEN {e \in Entries : IsAllowed(e, filter[t])} ELSE {}],
  device  <- [t \in Targets |-> IF t \in members
                                THEN {e \in Entries : Installed(t, e)} ELSE {}]

\* Every step of the proxy is one of the virtual device or invisible to it,
\* and the virtual device's fairness follows from the proxy's.
ImplementsDevice == Device!Spec
ImplementsFairDevice == Device!FairSpec
=============================================================================
