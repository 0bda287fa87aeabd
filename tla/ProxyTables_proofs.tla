------------------------ MODULE ProxyTables_proofs ------------------------
(***************************************************************************)
(* What holds of ProxyTables for any targets, entries and filters and      *)
(* under any use: types, and that nobody waits in vain.  Then, for calls   *)
(* that do not overlap (SerialUpdates): members hold their view of the     *)
(* history, and nothing is rejected.  Last, for calls that do overlap and  *)
(* entries that are inserted once (ConcurrentInserts): nothing is lost,    *)
(* goes astray or collides, and the proxy is one device.                   *)
(***************************************************************************)
EXTENDS SerialUpdates, ConcurrentInserts, CommunityLaws

(***************************************************************************)
(* Filters stay filters under the two filter operations.                   *)
(***************************************************************************)
\* A function from some of the parameters to sets of values is a filter.
LEMMA FilterIntro ==
  ASSUME NEW ps \in SUBSET Params, NEW f \in [ps -> SUBSET MatchValues]
  PROVE  f \in Filters
BY DEF Filters

\* A filter is a function from some of the parameters to sets of values.
LEMMA FilterElim ==
  ASSUME NEW f \in Filters
  PROVE  /\ DOMAIN f \in SUBSET Params
         /\ f \in [DOMAIN f -> SUBSET MatchValues]
<1>1. PICK ps \in SUBSET Params : f \in [ps -> SUBSET MatchValues]
  BY DEF Filters
<1> QED BY <1>1

\* The filter that allows everything is one.
LEMMA NoFilterIsFilter == NoFilter \in Filters
<1>1. NoFilter \in [{} -> SUBSET MatchValues]
  BY DEF NoFilter
<1> QED BY <1>1, FilterIntro

\* add_filter_params_allow_only_to_host leaves a filter, and fills under one.
LEMMA ExtendedIsFilter ==
  ASSUME NEW f \in Filters, NEW g \in Filters
  PROVE  Extended(f, g) \in Filters /\ NewlyAdded(f, g) \in Filters
<1>1. /\ DOMAIN f \in SUBSET Params /\ f \in [DOMAIN f -> SUBSET MatchValues]
      /\ DOMAIN g \in SUBSET Params /\ g \in [DOMAIN g -> SUBSET MatchValues]
  BY FilterElim
<1>2. Extended(f, g) \in [DOMAIN f \cup DOMAIN g -> SUBSET MatchValues]
  BY <1>1 DEF Extended
<1>3. NewlyAdded(f, g) \in [DOMAIN g -> SUBSET MatchValues]
  BY <1>1 DEF NewlyAdded
<1>4. DOMAIN f \cup DOMAIN g \in SUBSET Params
  BY <1>1
<1> QED BY <1>1, <1>2, <1>3, <1>4, FilterIntro

\* remove_from_filter_params_allow_only_to_host leaves a filter.
LEMMA ShrunkIsFilter ==
  ASSUME NEW f \in Filters, NEW g \in Filters
  PROVE  Shrunk(f, g) \in Filters
<1>1. /\ DOMAIN f \in SUBSET Params /\ f \in [DOMAIN f -> SUBSET MatchValues]
      /\ DOMAIN g \in SUBSET Params /\ g \in [DOMAIN g -> SUBSET MatchValues]
  BY FilterElim
<1>2. Shrunk(f, g) \in [DOMAIN f -> SUBSET MatchValues]
  BY <1>1 DEF Shrunk
<1> QED BY <1>1, <1>2, FilterIntro

(***************************************************************************)
(* Parts of the type invariant.                                            *)
(***************************************************************************)
RpcType == [id : RpcIds \cup {OpRequest}, target : Targets, updates : Seq(Updates),
            left : SUBSET Nat, ok : BOOLEAN]

OpType == [kind : {"idle", "fill", "withdraw"}, target : Targets \cup {NoTarget},
           snap : Seq(Updates), left : SUBSET Nat, rest : SUBSET Targets,
           awaits : BOOLEAN]

OpOK(o) ==
  /\ o \in OpType /\ o.left \subseteq DOMAIN o.snap
  /\ (o.left # {} \/ o.awaits) => o.target \in Targets

LEMMA IdleOpOK == OpOK(IdleOp)
BY DEF OpOK, IdleOp, OpType

\* A call over the log is well formed.
LEMMA CallForOK ==
  ASSUME log \in Seq(Updates), NEW kind \in {"fill", "withdraw"}, NEW t \in Targets,
         NEW es, NEW rest \in SUBSET Targets
  PROVE  OpOK(CallFor(kind, t, es, rest))
BY DEF OpOK, CallFor, OpType

LEMMA FillCallOK ==
  ASSUME log \in Seq(Updates), NEW t \in Targets, NEW f, NEW g,
         NEW rest \in SUBSET Targets
  PROVE  OpOK(FillCall(t, f, g, rest))
BY CallForOK DEF FillCall

\* What a switch makes of an update is a table.
LEMMA AppliedType ==
  ASSUME NEW table \in [Entries -> Values \cup {NoEntry}], NEW u \in Updates
  PROVE  Applied(table, u) \in [Entries -> Values \cup {NoEntry}]
BY DEF Applied, Updates

\* A request of the model is a sequence of updates.
LEMMA RequestType == ASSUME NEW us \in Requests PROVE us \in Seq(Updates)
<1>1. PICK n \in 1..MaxUpdates : us \in [1..n -> Updates]
  BY DEF Requests
<1>2. n \in Nat
  BY <1>1, BoundsAssumption
<1> QED BY <1>1, <1>2

(***************************************************************************)
(* The invariant.                                                          *)
(***************************************************************************)
LEMMA InitTypeOK == Init => TypeOK
<1> SUFFICES ASSUME Init PROVE TypeOK
  OBVIOUS
<1>1. filter \in [Targets -> Filters]
  BY NoFilterIsFilter DEF Init
<1>2. dp \in [Targets -> [Entries -> Values \cup {NoEntry}]]
  BY DEF Init, EmptyTable
<1>3. OpOK(op)
  BY IdleOpOK DEF Init
<1>4. waiting \in [Controllers -> RpcIds \cup {NoRequest}]
  BY DEF Init
<1>5. log \in Seq(Updates) /\ rpcs = {} /\ members = {} /\ phase = "down" /\ p4info = FALSE
  BY DEF Init
<1> QED BY <1>1, <1>2, <1>3, <1>4, <1>5 DEF TypeOK, OpOK, OpType

LEMMA NextTypeOK == TypeOK /\ [Next]_vars => TypeOK'
<1> SUFFICES ASSUME TypeOK, [Next]_vars PROVE TypeOK'
  OBVIOUS
<1>1. ASSUME NEW c \in Controllers, NEW us \in Requests, Write(c, us) PROVE TypeOK'
  <2>1. us \in Seq(Updates)
    BY RequestType
  <2>2. log' \in Seq(Updates)
    BY <1>1, <2>1 DEF Write, TypeOK
  <2>3. PICK id \in RpcIds :
          /\ rpcs' = rpcs \cup {WriteRpc(id, t, us, Share(us, t)) :
                                  t \in {t \in members : Share(us, t) # {}}}
          /\ \/ waiting' = waiting
             \/ waiting' = [waiting EXCEPT ![c] = id]
    BY <1>1 DEF Write, Reached
  <2>4. waiting' \in [Controllers -> RpcIds \cup {NoRequest}]
    BY <2>3 DEF TypeOK
  <2>5. ASSUME NEW t \in members, Share(us, t) # {}
        PROVE  LET r == WriteRpc(id, t, us, Share(us, t)) IN
               r \in RpcType /\ r.left # {} /\ r.left \subseteq DOMAIN r.updates
    <3>1. Share(us, t) \subseteq DOMAIN us /\ DOMAIN us \subseteq Nat
      BY <2>1 DEF Share
    <3> QED BY <2>1, <2>5, <3>1 DEF WriteRpc, RpcType, TypeOK
  <2>6. \A r \in rpcs' : /\ r \in RpcType
                         /\ r.left # {} /\ r.left \subseteq DOMAIN r.updates
    BY <2>3, <2>5 DEF TypeOK, RpcType
  <2> QED BY <1>1, <2>2, <2>4, <2>6 DEF Write, TypeOK, RpcType
<1>2. CASE SetForwardingPipelineConfig
  BY <1>2 DEF SetForwardingPipelineConfig, TypeOK
<1>3. ASSUME NEW t \in Targets, NEW f \in Filters, AddTarget(t, f) PROVE TypeOK'
  <2>1. OpOK(op')
    BY <1>3, IdleOpOK, FillCallOK DEF AddTarget, TypeOK
  <2>2. dp' \in [Targets -> [Entries -> Values \cup {NoEntry}]]
    BY <1>3 DEF AddTarget, TypeOK, EmptyTable
  <2> QED BY <1>3, <2>1, <2>2 DEF AddTarget, TypeOK, OpOK, OpType
<1>4. ASSUME NEW t \in Targets, RemoveTarget(t) PROVE TypeOK'
  BY <1>4, NoFilterIsFilter DEF RemoveTarget, TypeOK
<1>5. ASSUME NEW t \in Targets, NEW f \in Filters, AddFilterParams(t, f) PROVE TypeOK'
  <2>1. Extended(filter[t], f) \in Filters
    BY ExtendedIsFilter DEF TypeOK
  <2>2. OpOK(op')
    BY <1>5, IdleOpOK, FillCallOK DEF AddFilterParams, TypeOK
  <2> QED BY <1>5, <2>1, <2>2 DEF AddFilterParams, TypeOK, OpOK, OpType
<1>6. ASSUME NEW t \in Targets, NEW f \in Filters, RemoveFilterParams(t, f) PROVE TypeOK'
  <2>1. Shrunk(filter[t], f) \in Filters
    BY ShrunkIsFilter DEF TypeOK
  <2>2. OpOK(op')
    BY <1>6, IdleOpOK, CallForOK DEF RemoveFilterParams, TypeOK
  <2> QED BY <1>6, <2>1, <2>2 DEF RemoveFilterParams, TypeOK, OpOK, OpType
<1>7. ASSUME NEW r \in rpcs, Apply(r) PROVE TypeOK'
  <2> DEFINE next(i) == [r EXCEPT !.left = @ \ {i},
                                  !.ok = @ /\ Accepts(dp[r.target], r.updates[i])]
  <2>1. r \in RpcType /\ r.left \subseteq DOMAIN r.updates
    BY DEF TypeOK, RpcType
  <2>2. PICK i \in r.left :
          /\ dp' = [dp EXCEPT ![r.target] = Applied(dp[r.target], r.updates[i])]
          /\ IF next(i).left = {}
             THEN rpcs' = rpcs \ {r} /\ Return(next(i))
             ELSE rpcs' = (rpcs \ {r}) \cup {next(i)}
                  /\ UNCHANGED <<waiting, op, phase, members>>
    BY <1>7 DEF Apply
  <2>3. r.updates[i] \in Updates
    BY <2>1, <2>2 DEF RpcType
  <2>4. dp' \in [Targets -> [Entries -> Values \cup {NoEntry}]]
    BY <2>1, <2>2, <2>3, AppliedType DEF TypeOK, RpcType
  <2>5. next(i) \in RpcType /\ next(i).left \subseteq DOMAIN next(i).updates
    BY <2>1, <2>2 DEF RpcType, Accepts
  <2>6. \A q \in rpcs' : /\ q \in RpcType
                         /\ q.left # {} /\ q.left \subseteq DOMAIN q.updates
    <3>1. rpcs' \subseteq rpcs \cup {next(i)} /\ (next(i) \in rpcs' => next(i) \in rpcs \/ next(i).left # {})
      BY <2>2
    <3>2. \A q \in rpcs : q \in RpcType /\ q.left # {} /\ q.left \subseteq DOMAIN q.updates
      BY DEF TypeOK, RpcType
    <3> HIDE DEF next
    <3> QED BY <2>5, <3>1, <3>2
  <2>7. UNCHANGED <<filter, log, p4info>>
    BY <1>7 DEF Apply
  <2>8. /\ phase' \in {"down", "starting", "up"} /\ members' \subseteq Targets
        /\ waiting' \in [Controllers -> RpcIds \cup {NoRequest}] /\ OpOK(op')
    <3>1. CASE Return(next(i))
      <4>1. OpOK(IdleOp) /\ OpOK(op) /\ (op.awaits => OpOK([op EXCEPT !.awaits = FALSE]))
        BY IdleOpOK DEF TypeOK, OpOK, OpType
      <4>2. OpOK(op')
        BY <3>1, <4>1 DEF Return
      <4>3. waiting' \in [Controllers -> RpcIds \cup {NoRequest}]
        BY <3>1 DEF Return, TypeOK
      <4> QED BY <3>1, <4>2, <4>3 DEF Return, TypeOK
    <3>2. CASE UNCHANGED <<waiting, op, phase, members>>
      BY <3>2 DEF TypeOK, OpOK, OpType
    <3> QED BY <2>2, <3>1, <3>2
  <2> QED BY <2>4, <2>6, <2>7, <2>8 DEF TypeOK, RpcType, OpOK, OpType
<1>8. CASE OpSend
  <2>1. PICK i \in op.left :
          LET u == IF op.kind = "withdraw" THEN Delete(op.snap[i].entry) ELSE op.snap[i]
          IN /\ rpcs' = rpcs \cup {WriteRpc(OpRequest, op.target, <<u>>, {1})}
             /\ op' = [op EXCEPT !.left = @ \ {i}, !.awaits = TRUE]
    BY <1>8 DEF OpSend
  <2>2. op.target \in Targets /\ op.snap[i] \in Updates /\ OpOK(op')
    <3>1. op \in OpType /\ op.left \subseteq DOMAIN op.snap /\ op.target \in Targets
      BY DEF TypeOK, OpType
    <3>2. op.snap[i] \in Updates
      BY <3>1 DEF OpType
    <3>3. op' = [op EXCEPT !.left = @ \ {i}, !.awaits = TRUE]
      BY <2>1
    <3>4. OpOK(op')
      BY <3>1, <3>3 DEF OpOK, OpType
    <3> QED BY <3>1, <3>2, <3>4
  <2>3. Delete(op.snap[i].entry) \in Updates
    BY <2>2 DEF Updates, Delete
  <2>4. ASSUME NEW u \in Updates
        PROVE  LET r == WriteRpc(OpRequest, op.target, <<u>>, {1}) IN
               r \in RpcType /\ r.left # {} /\ r.left \subseteq DOMAIN r.updates
    BY <2>2 DEF WriteRpc, RpcType
  <2>5. \A r \in rpcs' : /\ r \in RpcType
                         /\ r.left # {} /\ r.left \subseteq DOMAIN r.updates
    BY <2>1, <2>2, <2>3, <2>4 DEF TypeOK, RpcType
  <2> QED BY <1>8, <2>2, <2>5 DEF OpSend, TypeOK, RpcType, OpOK, OpType
<1>9. CASE OpDone
  <2>1. OpOK(op')
    <3>1. op.rest \in SUBSET Targets
      BY DEF TypeOK
    <3>2. \A t \in op.rest : OpOK(FillCall(t, filter[t], filter[t], op.rest \ {t}))
      BY <3>1, FillCallOK DEF TypeOK
    <3>3. \/ op' = IdleOp
          \/ \E t \in op.rest : op' = FillCall(t, filter[t], filter[t], op.rest \ {t})
      BY <1>9 DEF OpDone
    <3> QED BY <3>2, <3>3, IdleOpOK
  <2>2. phase' \in {"down", "starting", "up"}
    BY <1>9 DEF OpDone, TypeOK
  <2> QED BY <1>9, <2>1, <2>2 DEF OpDone, TypeOK, OpOK, OpType
<1>10. CASE Start
  <2>1. OpOK(op')
    <3>1. \A t \in Configured : t \in Targets /\ Configured \ {t} \in SUBSET Targets
      BY TargetsAssumption
    <3>2. \A t \in Configured : OpOK(FillCall(t, InitFilter[t], InitFilter[t], Configured \ {t}))
      BY <3>1, FillCallOK DEF TypeOK
    <3>3. \/ op' = IdleOp
          \/ \E t \in Configured : op' = FillCall(t, InitFilter[t], InitFilter[t], Configured \ {t})
      BY <1>10 DEF Start
    <3> QED BY <3>2, <3>3, IdleOpOK
  <2>2. dp' \in [Targets -> [Entries -> Values \cup {NoEntry}]]
    BY <1>10 DEF Start, TypeOK, EmptyTable
  <2>3. filter' \in [Targets -> Filters]
    BY <1>10, TargetsAssumption, NoFilterIsFilter DEF Start
  <2> QED BY <1>10, <2>1, <2>2, <2>3, TargetsAssumption DEF Start, TypeOK, OpOK, OpType
<1>11. CASE Crash
  <2>1. OpOK(op')
    BY <1>11, IdleOpOK DEF Crash
  <2> QED BY <1>11, <2>1 DEF Crash, TypeOK, OpOK, OpType
<1>12. ASSUME NEW r \in rpcs, Lose(r) PROVE TypeOK'
  BY <1>12 DEF Lose, TypeOK
<1>13. CASE UNCHANGED vars
  BY <1>13 DEF vars, TypeOK
<1> QED
  BY <1>1, <1>2, <1>3, <1>4, <1>5, <1>6, <1>7, <1>8, <1>9, <1>10, <1>11, <1>12, <1>13
     DEF Next, InternalNext

\* Every state the proxy reaches, under any use, is of the declared types.
THEOREM TypeCorrect == Spec => []TypeOK
<1>1. TypeOK /\ [Next]_vars => TypeOK'
  BY NextTypeOK
<1> QED BY InitTypeOK, <1>1, PTL DEF Spec

(***************************************************************************)
(* Nobody waits in vain.  Only a proxy that is up has callers, and only    *)
(* one that runs awaits the answer of a fill.                              *)
(***************************************************************************)
PendingInv ==
  /\ TypeOK /\ AnswersPending
  /\ phase # "up" => \A c \in Controllers : waiting[c] = NoRequest
  /\ phase = "down" => op = IdleOp

\* A call over the log that starts awaits nothing yet.
LEMMA StartsUnawaited ==
  /\ ~IdleOp.awaits
  /\ \A kind, t, es, rest : ~CallFor(kind, t, es, rest).awaits
  /\ \A t, f, g, rest : ~FillCall(t, f, g, rest).awaits
BY DEF IdleOp, CallFor, FillCall

\* An answer: what others await is still to come.
LEMMA ApplyPending == ASSUME PendingInv, NEW r \in rpcs, Apply(r) PROVE PendingInv'
<1> DEFINE next(i) == [r EXCEPT !.left = @ \ {i},
                                !.ok = @ /\ Accepts(dp[r.target], r.updates[i])]
<1>1. PICK i \in r.left :
        IF next(i).left = {}
        THEN rpcs' = rpcs \ {r} /\ Return(next(i))
        ELSE rpcs' = (rpcs \ {r}) \cup {next(i)} /\ UNCHANGED <<waiting, op, phase, members>>
  BY DEF Apply
<1>2. next(i).id = r.id /\ next(i).target = r.target
  BY DEF PendingInv, TypeOK
<1>3. TypeOK'
  BY NextTypeOK DEF PendingInv, Next, InternalNext
<1>4. CASE next(i).left = {}
  <2>1. rpcs' = rpcs \ {r} /\ Return(next(i))
    BY <1>1, <1>4
  <2> HIDE DEF next
  <2>2. ASSUME NEW c \in Controllers, waiting'[c] # NoRequest
        PROVE  /\ waiting'[c] = waiting[c]
               /\ \E q \in rpcs' : q.id = waiting'[c]
    <3>1. /\ waiting'[c] = waiting[c]
          /\ waiting[c] = r.id => \E q \in rpcs' : q.id = r.id
      BY <2>1, <2>2, <1>2 DEF Return, Returns
    <3>2. PICK q \in rpcs : q.id = waiting[c]
      BY <2>2, <3>1 DEF PendingInv, AnswersPending
    <3>3. CASE q # r
      BY <2>1, <3>1, <3>2, <3>3
    <3>4. CASE q = r
      BY <3>1, <3>2, <3>4
    <3> QED BY <3>1, <3>3, <3>4
  <2>3. op'.awaits => op' = op /\ r.id # OpRequest
    BY <2>1, <1>2, <1>3 DEF Return, IdleOp, PendingInv, TypeOK
  <2>4. op'.awaits => \E q \in rpcs' : q.id = OpRequest /\ q.target = op'.target
    BY <2>1, <2>3 DEF PendingInv, AnswersPending
  <2>5. phase' = phase \/ (phase = "starting" /\ phase' = "down" /\ op' = IdleOp)
    BY <2>1, <1>2 DEF Return
  <2>6. phase' # "up" => \A c \in Controllers : waiting'[c] = NoRequest
    BY <2>2, <2>5 DEF PendingInv
  <2>7. phase' = "down" => op' = IdleOp
    <3>1. op = IdleOp => op' = op
      BY <2>1, StartsUnawaited DEF Return
    <3> QED BY <3>1, <2>5 DEF PendingInv
  <2> QED BY <1>3, <2>2, <2>4, <2>6, <2>7 DEF PendingInv, AnswersPending
<1>5. CASE next(i).left # {}
  <2>1. /\ rpcs' = (rpcs \ {r}) \cup {next(i)} /\ waiting' = waiting /\ op' = op
        /\ phase' = phase
    BY <1>1, <1>5
  <2> HIDE DEF next
  <2>2. \A q \in rpcs : \E o \in rpcs' : o.id = q.id /\ o.target = q.target
    BY <2>1, <1>2
  <2> QED BY <1>3, <2>1, <2>2 DEF PendingInv, AnswersPending
<1> QED BY <1>4, <1>5

LEMMA NextPending == PendingInv /\ [Next]_vars => PendingInv'
<1> SUFFICES ASSUME PendingInv, [Next]_vars PROVE PendingInv'
  OBVIOUS
<1>0. TypeOK'
  BY NextTypeOK DEF PendingInv
<1>1. ASSUME NEW c \in Controllers, NEW us \in Requests, Write(c, us) PROVE PendingInv'
  <2>1. PICK id \in RpcIds :
          /\ rpcs' = rpcs \cup {WriteRpc(id, t, us, Share(us, t)) : t \in Reached(us)}
          /\ waiting' = IF Reached(us) = {} THEN waiting ELSE [waiting EXCEPT ![c] = id]
    BY <1>1 DEF Write
  <2>2. waiting \in [Controllers -> RpcIds \cup {NoRequest}]
    BY DEF PendingInv, TypeOK
  <2>3. ASSUME NEW t \in Reached(us) PROVE \E r \in rpcs' : r.id = id
    <3>1. WriteRpc(id, t, us, Share(us, t)) \in rpcs'
      BY <2>1
    <3> QED BY <3>1 DEF WriteRpc
  <2>4. \A d \in Controllers : waiting'[d] = waiting[d] \/ (Reached(us) # {} /\ waiting'[d] = id)
    BY <2>1, <2>2
  <2>5. phase = "up" /\ phase' = phase /\ op' = op /\ rpcs \subseteq rpcs'
    BY <1>1, <2>1 DEF Write
  <2> QED BY <1>0, <2>3, <2>4, <2>5 DEF PendingInv, AnswersPending
<1>2. CASE SetForwardingPipelineConfig
  BY <1>0, <1>2 DEF SetForwardingPipelineConfig, PendingInv, AnswersPending
<1>3. ASSUME NEW t \in Targets, NEW f \in Filters, AddTarget(t, f) PROVE PendingInv'
  BY <1>0, <1>3, StartsUnawaited DEF AddTarget, PendingInv, AnswersPending
<1>4. ASSUME NEW t \in Targets, RemoveTarget(t) PROVE PendingInv'
  BY <1>0, <1>4 DEF RemoveTarget, PendingInv, AnswersPending
<1>5. ASSUME NEW t \in Targets, NEW f \in Filters, AddFilterParams(t, f) PROVE PendingInv'
  BY <1>0, <1>5, StartsUnawaited DEF AddFilterParams, PendingInv, AnswersPending
<1>6. ASSUME NEW t \in Targets, NEW f \in Filters, RemoveFilterParams(t, f) PROVE PendingInv'
  BY <1>0, <1>6, StartsUnawaited DEF RemoveFilterParams, PendingInv, AnswersPending
<1>7. ASSUME NEW r \in rpcs, Apply(r) PROVE PendingInv'
  BY <1>7, ApplyPending
<1>8. CASE OpSend
  <2>1. PICK i \in op.left :
          LET u == IF op.kind = "withdraw" THEN Delete(op.snap[i].entry) ELSE op.snap[i]
          IN  rpcs' = rpcs \cup {WriteRpc(OpRequest, op.target, <<u>>, {1})}
    BY <1>8 DEF OpSend
  <2> DEFINE u   == IF op.kind = "withdraw" THEN Delete(op.snap[i].entry) ELSE op.snap[i]
             new == WriteRpc(OpRequest, op.target, <<u>>, {1})
  <2>2. \E r \in rpcs' : r.id = OpRequest /\ r.target = op.target
    <3>1. new \in rpcs'
      BY <2>1
    <3>2. new.id = OpRequest /\ new.target = op.target
      BY DEF WriteRpc
    <3> HIDE DEF new
    <3> QED BY <3>1, <3>2
  <2>3. /\ waiting' = waiting /\ phase' = phase /\ op.left # {} /\ rpcs \subseteq rpcs'
    BY <1>8, <2>1 DEF OpSend
  <2>5. op'.target = op.target
    BY <1>8 DEF OpSend, PendingInv, TypeOK
  <2>4. phase # "down"
    BY <2>3 DEF PendingInv, IdleOp
  <2> QED BY <1>0, <2>2, <2>3, <2>4, <2>5 DEF PendingInv, AnswersPending
<1>9. CASE OpDone
  <2>1. ~op'.awaits
    BY <1>9, StartsUnawaited DEF OpDone
  <2>2. /\ phase' = phase \/ phase' = "up"
        /\ phase # "down" /\ waiting' = waiting /\ rpcs' = rpcs
    BY <1>9 DEF OpDone, PendingInv
  <2> QED BY <1>0, <2>1, <2>2 DEF PendingInv, AnswersPending
<1>10. CASE Start
  BY <1>0, <1>10, StartsUnawaited DEF Start, PendingInv, AnswersPending
<1>11. CASE Crash
  <2>1. /\ ~op'.awaits /\ op' = IdleOp
        /\ \A c \in Controllers : waiting'[c] = NoRequest
    BY <1>11, StartsUnawaited DEF Crash
  <2>2. AnswersPending'
    BY <2>1 DEF AnswersPending
  <2> QED BY <1>0, <2>1, <2>2 DEF PendingInv
<1>12. ASSUME NEW r \in rpcs, Lose(r) PROVE PendingInv'
  BY <1>0, <1>12, StartsUnawaited DEF Lose, PendingInv, AnswersPending
<1>13. CASE UNCHANGED vars
  BY <1>0, <1>13 DEF vars, PendingInv, AnswersPending
<1> QED
  BY <1>1, <1>2, <1>3, <1>4, <1>5, <1>6, <1>7, <1>8, <1>9, <1>10, <1>11, <1>12, <1>13
     DEF Next, InternalNext

\* Under any use, whoever awaits an answer awaits one that can still come.
THEOREM NobodyWaitsInVain == Spec => []AnswersPending
<1>1. Init => PendingInv
  BY InitTypeOK, StartsUnawaited DEF Init, PendingInv, AnswersPending
<1>2. PendingInv /\ [Next]_vars => PendingInv'
  BY NextPending
<1>3. PendingInv => AnswersPending
  BY DEF PendingInv
<1> QED BY <1>1, <1>2, <1>3, PTL DEF Spec

(***************************************************************************)
(* What a history of updates makes of an empty table.                      *)
(***************************************************************************)
TableType == [Entries -> Values \cup {NoEntry}]

\* The tables on the way, as a function of the number of updates.
IsTablesOf(T, h) ==
  T = [n \in 0..Len(h) |-> IF n = 0 THEN EmptyTable ELSE Applied(T[n - 1], h[n])]

TablesOf(h) == CHOOSE T : IsTablesOf(T, h)

LEMMA AfterIs == ASSUME NEW h PROVE After(h) = TablesOf(h)[Len(h)]
BY DEF After, TablesOf, IsTablesOf

\* They are there for every history, and one more update adds one more table.
LEMMA TablesExist ==
  ASSUME NEW h \in Seq(Updates)
  PROVE  IsTablesOf(TablesOf(h), h)
<1> DEFINE Is(T, m) == T = [n \in 0..m |-> IF n = 0 THEN EmptyTable ELSE Applied(T[n - 1], h[n])]
           S == {m \in Nat : \E T : Is(T, m)}
<1>0. Len(h) \in Nat
  BY LenProperties
<1>1. 0 \in S
  <2>1. Is([n \in 0..0 |-> EmptyTable], 0)
    OBVIOUS
  <2> QED BY <2>1
<1>2. ASSUME NEW m \in Nat, NEW T, Is(T, m) PROVE \E U : Is(U, m + 1)
  <2> DEFINE U == [n \in 0..(m + 1) |-> IF n = m + 1 THEN Applied(T[m], h[m + 1]) ELSE T[n]]
  <2>1. \A n \in 0..m : U[n] = T[n]
    OBVIOUS
  <2>2. U[m + 1] = Applied(U[m], h[m + 1])
    <3>1. m + 1 \in 0..(m + 1)
      OBVIOUS
    <3>2. U[m + 1] = Applied(T[m], h[m + 1])
      BY <3>1, Zenon
    <3>3. U[m] = T[m]
      BY <2>1
    <3> QED BY <3>2, <3>3
  <2>3. \A n \in 0..m : U[n] = IF n = 0 THEN EmptyTable ELSE Applied(U[n - 1], h[n])
    <3> TAKE n \in 0..m
    <3>1. T[n] = IF n = 0 THEN EmptyTable ELSE Applied(T[n - 1], h[n])
      BY <1>2
    <3>2. n # 0 => n - 1 \in 0..m
      OBVIOUS
    <3> HIDE DEF U
    <3> QED BY <2>1, <3>1, <3>2
  <2>4. U = [n \in 0..(m + 1) |-> U[n]]
    OBVIOUS
  <2> HIDE DEF U
  <2>5. \A n \in 0..(m + 1) : U[n] = IF n = 0 THEN EmptyTable ELSE Applied(U[n - 1], h[n])
    <3> TAKE n \in 0..(m + 1)
    <3>1. n \in 0..m \/ n = m + 1
      OBVIOUS
    <3>2. m + 1 # 0 /\ (m + 1) - 1 = m
      OBVIOUS
    <3> QED BY <2>2, <2>3, <3>1, <3>2
  <2>6. Is(U, m + 1)
    BY <2>4, <2>5
  <2> QED BY <2>6
<1> HIDE DEF Is
<1>3. \A m \in Nat : m \in S => m + 1 \in S
  BY <1>2
<1>4. Len(h) \in S
  <2> HIDE DEF S
  <2> QED BY <1>0, <1>1, <1>3, Induction
<1>5. \E T : IsTablesOf(T, h)
  BY <1>4 DEF IsTablesOf, Is
<1> QED BY <1>5 DEF TablesOf

LEMMA TablesSteps ==
  ASSUME NEW h \in Seq(Updates)
  PROVE  /\ TablesOf(h)[0] = EmptyTable
         /\ \A n \in 1..Len(h) : TablesOf(h)[n] = Applied(TablesOf(h)[n - 1], h[n])
<1> DEFINE T == TablesOf(h)
<1>1. T = [n \in 0..Len(h) |-> IF n = 0 THEN EmptyTable ELSE Applied(T[n - 1], h[n])]
  BY TablesExist DEF IsTablesOf
<1> HIDE DEF T
<1>2. Len(h) \in Nat
  BY LenProperties
<1>3. T[0] = EmptyTable
  <2>1. 0 \in 0..Len(h)
    BY <1>2
  <2> QED BY <1>1, <2>1, Zenon
<1>4. ASSUME NEW n \in 1..Len(h) PROVE T[n] = Applied(T[n - 1], h[n])
  <2>1. n \in 0..Len(h) /\ n # 0
    BY <1>2
  <2> QED BY <1>1, <2>1, Zenon
<1> QED BY <1>3, <1>4 DEF T

\* Whatever function takes the same steps ends with the same table.
LEMMA TablesUnique ==
  ASSUME NEW h \in Seq(Updates), NEW T, T[0] = EmptyTable,
         \A n \in 1..Len(h) : T[n] = Applied(T[n - 1], h[n])
  PROVE  T[Len(h)] = After(h)
<1> DEFINE S == {m \in Nat : m <= Len(h) => T[m] = TablesOf(h)[m]}
<1>1. Len(h) \in Nat
  BY LenProperties
<1>2. 0 \in S
  BY TablesSteps
<1>3. ASSUME NEW m \in Nat, m \in S PROVE m + 1 \in S
  <2> SUFFICES ASSUME m + 1 <= Len(h) PROVE T[m + 1] = TablesOf(h)[m + 1]
    OBVIOUS
  <2>1. m + 1 \in 1..Len(h) /\ (m + 1) - 1 = m /\ m <= Len(h)
    BY <1>1
  <2>2. T[m] = TablesOf(h)[m]
    BY <1>3, <2>1
  <2> QED BY <2>1, <2>2, TablesSteps
<1>4. Len(h) \in S
  <2> HIDE DEF S
  <2> QED BY <1>1, <1>2, <1>3, Induction
<1> QED BY <1>1, <1>4, AfterIs

LEMMA AfterNothing == After(<<>>) = EmptyTable
<1>1. <<>> \in Seq(Updates) /\ Len(<<>>) = 0
  BY EmptySeq, LenProperties
<1> QED BY <1>1, TablesSteps, AfterIs

LEMMA AfterAppend ==
  ASSUME NEW h \in Seq(Updates), NEW u \in Updates
  PROVE  After(Append(h, u)) = Applied(After(h), u)
<1> DEFINE more == Append(h, u)
           T == TablesOf(more)
<1>1. /\ more \in Seq(Updates) /\ Len(h) \in Nat /\ Len(more) = Len(h) + 1
      /\ \A n \in 1..Len(h) : more[n] = h[n]
      /\ more[Len(h) + 1] = u
  BY AppendProperties, LenProperties
<1> HIDE DEF more
<1>2. T[0] = EmptyTable /\ \A n \in 1..Len(more) : T[n] = Applied(T[n - 1], more[n])
  BY <1>1, TablesSteps
<1>3. Len(h) + 1 \in 1..Len(more) /\ (Len(h) + 1) - 1 = Len(h)
  BY <1>1
<1>4. After(more) = T[Len(h) + 1]
  BY <1>1, AfterIs
<1> HIDE DEF T
<1>5. ASSUME NEW n \in 1..Len(h) PROVE T[n] = Applied(T[n - 1], h[n])
  <2>1. n \in 1..Len(more)
    BY <1>1
  <2> QED BY <1>1, <1>2, <2>1
<1>6. T[Len(h)] = After(h)
  BY <1>2, <1>5, TablesUnique
<1>7. T[Len(h) + 1] = Applied(T[Len(h)], u)
  BY <1>1, <1>2, <1>3
<1> QED BY <1>4, <1>6, <1>7 DEF more

\* A table is one, and the next update changes it as the switch would.
LEMMA AfterSteps ==
  ASSUME NEW h \in Seq(Updates)
  PROVE  /\ After(SubSeq(h, 1, 0)) = EmptyTable
         /\ After(SubSeq(h, 1, Len(h))) = After(h)
         /\ \A n \in 1..Len(h) :
              After(SubSeq(h, 1, n)) = Applied(After(SubSeq(h, 1, n - 1)), h[n])
         /\ \A n \in 0..Len(h) : After(SubSeq(h, 1, n)) \in TableType
<1> DEFINE A(n) == After(SubSeq(h, 1, n))
           S == {m \in Nat : m <= Len(h) => A(m) \in TableType}
<1>0. Len(h) \in Nat
  BY LenProperties
<1>1. A(0) = EmptyTable
  <2>1. SubSeq(h, 1, 0) = <<>>
    BY SubSeqEmpty, 0 < 1, 0 \in Int, 1 \in Int
  <2> QED BY <2>1, AfterNothing
<1>2. A(Len(h)) = After(h)
  BY SubSeqFull
<1>3. ASSUME NEW n \in 1..Len(h) PROVE A(n) = Applied(A(n - 1), h[n])
  <2>1. SubSeq(h, 1, n - 1) \in Seq(Updates) /\ h[n] \in Updates
    BY <1>0, ElementOfSeq, SubSeqProperties
  <2>2. SubSeq(h, 1, n) = Append(SubSeq(h, 1, n - 1), h[n])
    BY <1>0, SubSeqRecursiveSecond
  <2> QED BY <2>1, <2>2, AfterAppend
<1> HIDE DEF A
<1>4. 0 \in S
  BY <1>1 DEF EmptyTable, TableType
<1>5. ASSUME NEW m \in Nat, m \in S PROVE m + 1 \in S
  <2> SUFFICES ASSUME m + 1 <= Len(h) PROVE A(m + 1) \in TableType
    OBVIOUS
  <2>1. m + 1 \in 1..Len(h) /\ (m + 1) - 1 = m /\ A(m) \in TableType
    BY <1>0, <1>5
  <2>2. h[m + 1] \in Updates
    BY <2>1, ElementOfSeq
  <2> QED BY <1>3, <2>1, <2>2, AppliedType DEF TableType
<1>6. \A m \in Nat : m \in S
  <2> HIDE DEF S
  <2> QED BY <1>4, <1>5, Induction
<1>7. \A n \in 0..Len(h) : A(n) \in TableType
  BY <1>0, <1>6
<1> QED BY <1>1, <1>2, <1>3, <1>7 DEF A

(***************************************************************************)
(* Histories whose updates are all taken.                                  *)
(***************************************************************************)
Taken(h) == h \in Seq(Updates) /\ \A i \in DOMAIN h : Accepts(At(h, i - 1), h[i])

\* The tables along a history, in the terms of the invariant.
LEMMA AtSteps ==
  ASSUME NEW h \in Seq(Updates)
  PROVE  /\ Len(h) \in Nat /\ DOMAIN h = 1..Len(h)
         /\ At(h, 0) = EmptyTable /\ At(h, Len(h)) = After(h)
         /\ \A n \in 1..Len(h) : h[n] \in Updates /\ At(h, n) = Applied(At(h, n - 1), h[n])
         /\ \A n \in 0..Len(h) : At(h, n) \in TableType
<1>1. Len(h) \in Nat /\ DOMAIN h = 1..Len(h)
  BY LenProperties
<1>2. \A n \in 1..Len(h) : h[n] \in Updates
  BY ElementOfSeq
<1> QED BY <1>1, <1>2, AfterSteps DEF At

\* An update that is taken leaves its value, and the other entries alone.
LEMMA AtEntry ==
  ASSUME NEW h, Taken(h), NEW i \in DOMAIN h
  PROVE  /\ At(h, i)[h[i].entry] = h[i].value
         /\ \A e \in Entries : h[i].entry # e => At(h, i)[e] = At(h, i - 1)[e]
<1>1. h \in Seq(Updates) /\ i \in 1..Len(h) /\ i - 1 \in 0..Len(h) /\ Len(h) \in Nat
  BY AtSteps DEF Taken
<1>2. /\ At(h, i) = Applied(At(h, i - 1), h[i]) /\ h[i] \in Updates
      /\ At(h, i - 1) \in TableType
  BY <1>1, AtSteps
<1>3. h[i].entry \in Entries
  BY <1>2 DEF Updates
<1>4. Accepts(At(h, i - 1), h[i])
  BY DEF Taken
<1>5. At(h, i) = [At(h, i - 1) EXCEPT ![h[i].entry] = h[i].value]
  BY <1>2, <1>4 DEF Applied
<1> HIDE DEF At
<1> QED BY <1>2, <1>3, <1>5 DEF TableType

\* Where no update is about an entry, the entry stays.
LEMMA AtKeeps ==
  ASSUME NEW h, Taken(h), NEW e \in Entries, NEW n \in 0..Len(h), NEW m \in 0..Len(h),
         n <= m, \A k \in (n + 1)..m : h[k].entry # e
  PROVE  At(h, m)[e] = At(h, n)[e]
<1> DEFINE S == {d \in Nat : n + d <= m => At(h, n + d)[e] = At(h, n)[e]}
<1>0. Len(h) \in Nat /\ DOMAIN h = 1..Len(h)
  BY AtSteps DEF Taken
<1>1. 0 \in S
  OBVIOUS
<1>2. ASSUME NEW d \in Nat, d \in S PROVE d + 1 \in S
  <2> SUFFICES ASSUME n + (d + 1) <= m PROVE At(h, n + (d + 1))[e] = At(h, n)[e]
    OBVIOUS
  <2>1. /\ n + d <= m /\ n + (d + 1) \in DOMAIN h /\ n + (d + 1) \in (n + 1)..m
        /\ (n + (d + 1)) - 1 = n + d
    BY <1>0
  <2>2. At(h, n + d)[e] = At(h, n)[e]
    BY <1>2, <2>1
  <2>3. At(h, n + (d + 1))[e] = At(h, (n + (d + 1)) - 1)[e]
    BY <2>1, AtEntry
  <2> QED BY <2>1, <2>2, <2>3
<1>3. m - n \in S
  <2> HIDE DEF S
  <2>1. m - n \in Nat
    BY <1>0
  <2> QED BY <1>1, <1>2, <2>1, Induction
<1>4. n + (m - n) = m
  BY <1>0
<1> QED BY <1>3, <1>4

(***************************************************************************)
(* A switch executes the first of the updates it is to have: it takes it,  *)
(* and goes on with the rest.                                              *)
(***************************************************************************)
LEMMA PlayOne ==
  ASSUME NEW h, Taken(h), NEW tb \in TableType,
         NEW P \in SUBSET DOMAIN h, NEW i \in P, \A j \in P : i <= j,
         Playable(h, tb, P)
  PROVE  /\ Accepts(tb, h[i])
         /\ Applied(tb, h[i]) \in TableType
         /\ \A e \in Entries : e # h[i].entry => Applied(tb, h[i])[e] = tb[e]
         /\ Continues(h, Applied(tb, h[i]), h[i].entry, i, P \ {i})
         /\ \A e \in Entries, n \in 0..Len(h) :
              e # h[i].entry /\ Continues(h, tb, e, n, P) =>
                Continues(h, Applied(tb, h[i]), e, n, P \ {i})
         /\ Playable(h, Applied(tb, h[i]), P \ {i})
<1> DEFINE e0 == h[i].entry
           nb == Applied(tb, h[i])
<1>0. /\ Len(h) \in Nat /\ DOMAIN h = 1..Len(h) /\ h[i] \in Updates
      /\ i \in 1..Len(h) /\ At(h, i - 1) \in TableType /\ h \in Seq(Updates)
  <2>1. h \in Seq(Updates) /\ Len(h) \in Nat /\ DOMAIN h = 1..Len(h)
    BY AtSteps DEF Taken
  <2>2. i \in 1..Len(h) /\ i - 1 \in 0..Len(h)
    BY <2>1
  <2> QED BY <2>1, <2>2, AtSteps
<1>1. e0 \in Entries
  BY <1>0 DEF Updates
<1>2. PICK n0 \in 0..Len(h) : Continues(h, tb, e0, n0, P)
  BY <1>1 DEF Playable
<1>3. /\ n0 < i /\ tb[e0] = At(h, n0)[e0]
      /\ \A k \in (n0 + 1)..(i - 1) : h[k].entry # e0
  <2>1. /\ tb[e0] = At(h, n0)[e0] /\ n0 < i
        /\ \A k \in (n0 + 1)..i : h[k].entry = e0 => k \in P
    BY <1>2 DEF Continues
  <2>2. ASSUME NEW k \in (n0 + 1)..(i - 1), h[k].entry = e0 PROVE FALSE
    <3>1. k \in (n0 + 1)..i /\ ~(i <= k)
      BY <1>0
    <3> QED BY <2>1, <2>2, <3>1
  <2> QED BY <2>1, <2>2
<1>4. tb[e0] = At(h, i - 1)[e0]
  <2>1. i - 1 \in 0..Len(h) /\ n0 <= i - 1
    BY <1>0, <1>3
  <2> QED BY <1>1, <1>3, <2>1, AtKeeps
<1>5. Accepts(tb, h[i])
  <2>1. Accepts(At(h, i - 1), h[i])
    BY DEF Taken
  <2> QED BY <1>4, <2>1 DEF Accepts
<1>6. nb = [tb EXCEPT ![e0] = h[i].value]
  BY <1>5 DEF Applied
<1>7. nb \in TableType
  BY <1>0, AppliedType DEF TableType
<1>8. \A e \in Entries : e # e0 => nb[e] = tb[e]
  BY <1>6 DEF TableType
<1>9. nb[e0] = At(h, i)[e0]
  <2>1. nb[e0] = h[i].value
    BY <1>1, <1>6 DEF TableType
  <2> QED BY <2>1, AtEntry
<1> HIDE DEF nb
<1>10. Continues(h, nb, e0, i, P \ {i})
  <2>1. ASSUME NEW j \in P \ {i}, h[j].entry = e0
        PROVE  i < j /\ \A k \in (i + 1)..j : h[k].entry = e0 => k \in P \ {i}
    <3>1. j \in DOMAIN h /\ i <= j /\ i # j
      OBVIOUS
    <3>2. \A k \in (n0 + 1)..j : h[k].entry = e0 => k \in P
      BY <1>2, <2>1 DEF Continues
    <3>3. \A k \in (i + 1)..j : k \in (n0 + 1)..j /\ k # i
      BY <1>0, <1>3, <3>1
    <3> QED BY <1>0, <3>1, <3>2, <3>3
  <2> QED BY <1>9, <2>1 DEF Continues
<1>11. ASSUME NEW e \in Entries, NEW n \in 0..Len(h), e # e0, Continues(h, tb, e, n, P)
       PROVE  Continues(h, nb, e, n, P \ {i})
  <2>1. nb[e] = At(h, n)[e]
    BY <1>8, <1>11 DEF Continues
  <2>2. ASSUME NEW j \in P \ {i}, h[j].entry = e
        PROVE  n < j /\ \A k \in (n + 1)..j : h[k].entry = e => k \in P \ {i}
    BY <1>11, <2>2 DEF Continues
  <2> QED BY <2>1, <2>2 DEF Continues
<1>12. Playable(h, nb, P \ {i})
  <2> SUFFICES ASSUME NEW e \in Entries
               PROVE  \E n \in 0..Len(h) : Continues(h, nb, e, n, P \ {i})
    BY DEF Playable
  <2>1. PICK n \in 0..Len(h) : Continues(h, tb, e, n, P)
    BY DEF Playable
  <2>2. i \in 0..Len(h)
    BY <1>0
  <2> QED BY <1>10, <1>11, <2>1, <2>2
<1> QED BY <1>5, <1>7, <1>8, <1>10, <1>11, <1>12 DEF nb

\* What completes a table can be played on it, and so can a first part of it.
LEMMA CompletedPlayable ==
  ASSUME NEW h, Taken(h), NEW tb, NEW seen, NEW P, Completed(h, tb, seen, P)
  PROVE  Playable(h, tb, P)
<1> SUFFICES ASSUME NEW e \in Entries PROVE \E n \in 0..Len(h) : Continues(h, tb, e, n, P)
  BY DEF Playable
<1>1. CASE e \in seen
  BY <1>1 DEF Completed
<1>2. CASE e \notin seen
  <2>1. tb[e] = NoEntry /\ \A i \in P : h[i].entry # e
    BY <1>2 DEF Completed
  <2>2. At(h, 0)[e] = NoEntry /\ 0 \in 0..Len(h)
    BY AtSteps DEF Taken, EmptyTable
  <2> QED BY <2>1, <2>2 DEF Continues
<1> QED BY <1>1, <1>2

LEMMA PlayableFirst ==
  ASSUME NEW h, NEW tb, NEW P \in SUBSET Int, NEW Q \in SUBSET Int,
         \A i \in P, k \in Q : i < k, Playable(h, tb, P \cup Q), Len(h) \in Nat
  PROVE  Playable(h, tb, P)
<1> SUFFICES ASSUME NEW e \in Entries PROVE \E n \in 0..Len(h) : Continues(h, tb, e, n, P)
  BY DEF Playable
<1>1. PICK n \in 0..Len(h) : Continues(h, tb, e, n, P \cup Q)
  BY DEF Playable
<1>2. ASSUME NEW i \in P, h[i].entry = e
      PROVE  n < i /\ \A k \in (n + 1)..i : h[k].entry = e => k \in P
  <2>1. n < i /\ \A k \in (n + 1)..i : h[k].entry = e => k \in P \cup Q
    BY <1>1, <1>2 DEF Continues
  <2>2. \A k \in (n + 1)..i : ~(i < k)
    OBVIOUS
  <2> QED BY <2>1, <2>2
<1> QED BY <1>1, <1>2 DEF Continues

\* One more executed: the rest completes the table still.
LEMMA CompleteOne ==
  ASSUME NEW h, Taken(h), NEW tb \in TableType, NEW seen,
         NEW P \in SUBSET DOMAIN h, NEW i \in P, \A j \in P : i <= j,
         Completed(h, tb, seen, P)
  PROVE  /\ Accepts(tb, h[i])
         /\ Applied(tb, h[i]) \in TableType
         /\ Completed(h, Applied(tb, h[i]), seen, P \ {i})
<1> DEFINE nb == Applied(tb, h[i])
<1>0. Len(h) \in Nat /\ DOMAIN h = 1..Len(h)
  BY AtSteps DEF Taken
<1>1. /\ Accepts(tb, h[i]) /\ nb \in TableType
      /\ \A e \in Entries : e # h[i].entry => nb[e] = tb[e]
      /\ Continues(h, nb, h[i].entry, i, P \ {i})
      /\ \A e \in Entries, n \in 0..Len(h) :
           e # h[i].entry /\ Continues(h, tb, e, n, P) => Continues(h, nb, e, n, P \ {i})
  <2>1. Playable(h, tb, P)
    BY CompletedPlayable
  <2> QED BY <2>1, PlayOne
<1> HIDE DEF nb
<1>2. ASSUME NEW e \in Entries, e \in seen
      PROVE  \E n \in 0..Len(h) :
               /\ Continues(h, nb, e, n, P \ {i})
               /\ \A k \in (n + 1)..Len(h) : h[k].entry = e => k \in P \ {i}
  <2>1. PICK n \in 0..Len(h) :
          /\ Continues(h, tb, e, n, P)
          /\ \A k \in (n + 1)..Len(h) : h[k].entry = e => k \in P
    BY <1>2 DEF Completed
  <2>2. CASE e = h[i].entry
    <3>1. i \in 0..Len(h) /\ n < i
      BY <1>0, <2>1, <2>2 DEF Continues
    <3>2. \A k \in (i + 1)..Len(h) : k \in (n + 1)..Len(h) /\ k # i
      BY <1>0, <3>1
    <3> QED BY <1>1, <2>1, <2>2, <3>1, <3>2
  <2>3. CASE e # h[i].entry
    BY <1>1, <2>1, <2>3
  <2> QED BY <2>2, <2>3
<1>3. ASSUME NEW e \in Entries, e \notin seen
      PROVE  nb[e] = NoEntry /\ \A j \in P \ {i} : h[j].entry # e
  <2>1. tb[e] = NoEntry /\ \A j \in P : h[j].entry # e
    BY <1>3 DEF Completed
  <2> QED BY <2>1, <1>1
<1>4. Completed(h, nb, seen, P \ {i})
  BY <1>2, <1>3 DEF Completed
<1> QED BY <1>1, <1>4 DEF nb

\* With nothing left, a table is its view of the history.
LEMMA CompletedIsView ==
  ASSUME NEW h, Taken(h), NEW tb \in TableType, NEW seen, Completed(h, tb, seen, {})
  PROVE  tb = [e \in Entries |-> IF e \in seen THEN After(h)[e] ELSE NoEntry]
<1>0. Len(h) \in Nat /\ At(h, Len(h)) = After(h)
  BY AtSteps DEF Taken
<1>1. ASSUME NEW e \in Entries PROVE tb[e] = IF e \in seen THEN After(h)[e] ELSE NoEntry
  <2>1. CASE e \in seen
    <3>1. PICK n \in 0..Len(h) :
            /\ Continues(h, tb, e, n, {})
            /\ \A k \in (n + 1)..Len(h) : h[k].entry # e
      BY <2>1 DEF Completed
    <3>2. At(h, Len(h))[e] = At(h, n)[e]
      BY <1>0, <3>1, AtKeeps
    <3> QED BY <1>0, <2>1, <3>1, <3>2 DEF Continues
  <2>2. CASE e \notin seen
    BY <2>2 DEF Completed
  <2> QED BY <2>1, <2>2
<1> QED BY <1>1 DEF TableType

\* An empty table is completed by all that it sees of the history.
LEMMA EmptyCompleted ==
  ASSUME NEW h \in Seq(Updates), NEW tb, tb = EmptyTable, NEW seen, NEW P,
         P = {i \in DOMAIN h : h[i].entry \in seen}
  PROVE  Completed(h, tb, seen, P)
<1>0. Len(h) \in Nat /\ DOMAIN h = 1..Len(h) /\ At(h, 0) = EmptyTable
  BY AtSteps
<1>1. ASSUME NEW e \in Entries, e \in seen
      PROVE  \E n \in 0..Len(h) :
               /\ Continues(h, tb, e, n, P)
               /\ \A k \in (n + 1)..Len(h) : h[k].entry = e => k \in P
  <2>1. Continues(h, tb, e, 0, P)
    <3>1. tb[e] = At(h, 0)[e]
      BY <1>0
    <3>2. \A i \in P : 0 < i /\ \A k \in 1..i : k \in DOMAIN h
      BY <1>0
    <3>3. 0 + 1 = 1
      OBVIOUS
    <3> QED BY <1>1, <3>1, <3>2, <3>3 DEF Continues
  <2>2. \A k \in (0 + 1)..Len(h) : h[k].entry = e => k \in P
    BY <1>0, <1>1
  <2>3. 0 \in 0..Len(h)
    BY <1>0
  <2> QED BY <2>1, <2>2, <2>3, Zenon
<1>2. \A e \in Entries : e \notin seen => tb[e] = NoEntry /\ \A i \in P : h[i].entry # e
  BY DEF EmptyTable
<1> QED BY <1>1, <1>2 DEF Completed

(***************************************************************************)
(* A history that a request makes longer.                                  *)
(***************************************************************************)
LEMMA LongerHistory ==
  ASSUME NEW h \in Seq(Updates), NEW us \in Seq(Updates)
  PROVE  /\ h \o us \in Seq(Updates) /\ Len(h) \in Nat
         /\ Len(us) \in Nat /\ DOMAIN us = 1..Len(us)
         /\ Len(h \o us) = Len(h) + Len(us)
         /\ \A k \in 1..Len(h) : (h \o us)[k] = h[k]
         /\ \A j \in 1..Len(us) : (h \o us)[Len(h) + j] = us[j]
         /\ \A n \in 0..Len(h) : At(h \o us, n) = At(h, n)
         /\ \A j \in 1..Len(us) : At(h \o us, Len(h) + j - 1) = After(h \o SubSeq(us, 1, j - 1))
<1> DEFINE g == h \o us
<1>1. /\ g \in Seq(Updates) /\ Len(h) \in Nat /\ Len(us) \in Nat /\ DOMAIN us = 1..Len(us)
      /\ Len(g) = Len(h) + Len(us)
      /\ \A k \in 1..Len(g) : g[k] = IF k <= Len(h) THEN h[k] ELSE us[k - Len(h)]
  BY ConcatProperties, LenProperties
<1> HIDE DEF g
<1>2. \A k \in 1..Len(h) : g[k] = h[k]
  BY <1>1
<1>3. ASSUME NEW j \in 1..Len(us) PROVE g[Len(h) + j] = us[j]
  <2>1. Len(h) + j \in 1..Len(g) /\ ~(Len(h) + j <= Len(h)) /\ (Len(h) + j) - Len(h) = j
    BY <1>1
  <2> QED BY <1>1, <2>1
<1>4. ASSUME NEW n \in 0..Len(h) PROVE At(g, n) = At(h, n)
  <2>1. CASE n = 0
    BY <1>1, <2>1, AtSteps
  <2>2. CASE n \in 1..Len(h)
    <3>1. 1 \in 1..Len(h)
      BY <1>1, <2>2
    <3>2. SubSeq(g, 1, n) = SubSeq(h, 1, n)
      BY <2>2, <3>1, SubSeqOfConcat1 DEF g
    <3> QED BY <3>2 DEF At
  <2> QED BY <1>1, <2>1, <2>2
<1>5. ASSUME NEW j \in 1..Len(us)
      PROVE  At(g, Len(h) + j - 1) = After(h \o SubSeq(us, 1, j - 1))
  <2> DEFINE m == Len(h) + j - 1
             a == SubSeq(g, 1, m)
             b == SubSeq(us, 1, j - 1)
  <2>1. m \in Nat /\ m <= Len(g) /\ j - 1 \in Nat /\ j - 1 <= Len(us) /\ m = Len(h) + (j - 1)
    BY <1>1
  <2>2. a \in Seq(Updates) /\ Len(a) = m /\ \A k \in 1..m : a[k] = g[k]
    <3>1. 1 \in 1..(Len(g) + 1) /\ m \in 0..Len(g)
      BY <1>1, <2>1
    <3>2. /\ a \in Seq(Updates)
          /\ Len(a) = IF 1 <= m THEN m - 1 + 1 ELSE 0
          /\ \A k \in 1..(m - 1 + 1) : a[k] = g[1 + k - 1]
      BY <1>1, <3>1, SubSeqProperties
    <3> HIDE DEF a, m
    <3>3. \A k \in 1..m : k \in 1..(m - 1 + 1) /\ 1 + k - 1 = k
      BY <2>1
    <3> QED BY <2>1, <3>2, <3>3
  <2>3. b \in Seq(Updates) /\ Len(b) = j - 1 /\ \A k \in 1..(j - 1) : b[k] = us[k]
    <3>1. 1 \in 1..(Len(us) + 1) /\ j - 1 \in 0..Len(us)
      BY <1>1, <2>1
    <3>2. /\ b \in Seq(Updates)
          /\ Len(b) = IF 1 <= j - 1 THEN (j - 1) - 1 + 1 ELSE 0
          /\ \A k \in 1..((j - 1) - 1 + 1) : b[k] = us[1 + k - 1]
      BY <1>1, <3>1, SubSeqProperties
    <3> HIDE DEF b
    <3>3. \A k \in 1..(j - 1) : k \in 1..((j - 1) - 1 + 1) /\ 1 + k - 1 = k
      BY <2>1
    <3> QED BY <2>1, <3>2, <3>3
  <2> HIDE DEF a, b, m
  <2>4. /\ h \o b \in Seq(Updates) /\ Len(h \o b) = m
        /\ \A k \in 1..m : (h \o b)[k] = IF k <= Len(h) THEN h[k] ELSE b[k - Len(h)]
    <3>1. Len(h) + Len(b) = m
      BY <2>1, <2>3
    <3>2. /\ h \o b \in Seq(Updates) /\ Len(h \o b) = Len(h) + Len(b)
          /\ \A k \in 1..Len(h) + Len(b) : (h \o b)[k] = IF k <= Len(h) THEN h[k] ELSE b[k - Len(h)]
      BY <2>3, ConcatProperties
    <3> QED BY <3>1, <3>2
  <2>5. ASSUME NEW k \in 1..m PROVE a[k] = (h \o b)[k]
    <3>1. k \in 1..Len(g) /\ (~(k <= Len(h)) => k - Len(h) \in 1..(j - 1))
      BY <1>1, <2>1
    <3> QED BY <1>1, <2>2, <2>3, <2>4, <3>1
  <2>6. a = h \o b
    BY <2>2, <2>4, <2>5, SeqEqual
  <2> QED BY <2>6 DEF At, a, b, m
<1> QED BY <1>1, <1>2, <1>3, <1>4, <1>5 DEF g

\* A request that is taken makes a longer history that is.
LEMMA LongerTaken ==
  ASSUME NEW h, Taken(h), NEW us \in Seq(Updates),
         \A i \in DOMAIN us : Accepts(After(h \o SubSeq(us, 1, i - 1)), us[i])
  PROVE  Taken(h \o us)
<1> DEFINE g == h \o us
<1>1. /\ g \in Seq(Updates) /\ Len(h) \in Nat /\ h \in Seq(Updates)
      /\ Len(us) \in Nat /\ DOMAIN us = 1..Len(us) /\ DOMAIN h = 1..Len(h)
      /\ Len(g) = Len(h) + Len(us) /\ DOMAIN g = 1..Len(g)
      /\ \A k \in 1..Len(h) : g[k] = h[k]
      /\ \A j \in 1..Len(us) : g[Len(h) + j] = us[j]
      /\ \A n \in 0..Len(h) : At(g, n) = At(h, n)
      /\ \A j \in 1..Len(us) : At(g, Len(h) + j - 1) = After(h \o SubSeq(us, 1, j - 1))
  BY LongerHistory, LenProperties DEF Taken
<1> HIDE DEF g
<1>2. ASSUME NEW i \in 1..Len(g) PROVE Accepts(At(g, i - 1), g[i])
  <2>1. CASE i <= Len(h)
    <3>1. i \in 1..Len(h) /\ i - 1 \in 0..Len(h)
      BY <1>1, <2>1
    <3> QED BY <1>1, <3>1 DEF Taken
  <2>2. CASE i > Len(h)
    <3> DEFINE j == i - Len(h)
    <3>1. j \in 1..Len(us) /\ i = Len(h) + j
      BY <1>1, <2>2
    <3> HIDE DEF j
    <3>2. Accepts(After(h \o SubSeq(us, 1, j - 1)), us[j])
      BY <1>1, <3>1
    <3>3. Len(h) + j - 1 = i - 1
      BY <1>1, <3>1
    <3> QED BY <1>1, <3>1, <3>2, <3>3
  <2> QED BY <1>1, <2>1, <2>2
<1> QED BY <1>1, <1>2 DEF Taken, g

\* The share of the request that a table sees completes it.
LEMMA LongerCompleted ==
  ASSUME NEW h \in Seq(Updates), NEW us \in Seq(Updates), NEW tb, NEW seen, NEW P,
         Completed(h, tb, seen, {}),
         P = {Len(h) + j : j \in {j \in DOMAIN us : us[j].entry \in seen}}
  PROVE  Completed(h \o us, tb, seen, P)
<1> DEFINE g == h \o us
<1>1. /\ Len(h) \in Nat /\ Len(us) \in Nat /\ DOMAIN us = 1..Len(us)
      /\ Len(g) = Len(h) + Len(us)
      /\ \A k \in 1..Len(h) : g[k] = h[k]
      /\ \A j \in 1..Len(us) : g[Len(h) + j] = us[j]
      /\ \A n \in 0..Len(h) : At(g, n) = At(h, n)
  BY LongerHistory
<1> HIDE DEF g
<1>2. \A k \in (Len(h) + 1)..Len(g) : g[k].entry \in seen => k \in P
  <2> SUFFICES ASSUME NEW k \in (Len(h) + 1)..Len(g), g[k].entry \in seen PROVE k \in P
    OBVIOUS
  <2>1. k - Len(h) \in 1..Len(us) /\ Len(h) + (k - Len(h)) = k
    BY <1>1
  <2>2. us[k - Len(h)].entry \in seen
    BY <1>1, <2>1
  <2> QED BY <1>1, <2>1, <2>2
<1>3. \A i \in P : i \in (Len(h) + 1)..Len(g) /\ g[i].entry \in seen
  BY <1>1
<1>4. ASSUME NEW e \in Entries, e \in seen
      PROVE  \E n \in 0..Len(g) :
               /\ Continues(g, tb, e, n, P)
               /\ \A k \in (n + 1)..Len(g) : g[k].entry = e => k \in P
  <2>1. PICK n \in 0..Len(h) :
          /\ Continues(h, tb, e, n, {})
          /\ \A k \in (n + 1)..Len(h) : h[k].entry # e
    BY <1>4 DEF Completed
  <2>2. ASSUME NEW k \in (n + 1)..Len(g), g[k].entry = e PROVE k \in P
    <3>1. CASE k <= Len(h)
      <4>1. k \in 1..Len(h) /\ k \in (n + 1)..Len(h)
        BY <1>1, <3>1
      <4> QED BY <1>1, <2>1, <2>2, <4>1
    <3>2. CASE ~(k <= Len(h))
      <4>1. k \in (Len(h) + 1)..Len(g)
        BY <1>1, <3>2
      <4> QED BY <1>2, <1>4, <2>2, <4>1
    <3> QED BY <3>1, <3>2
  <2>3. n \in 0..Len(g) /\ tb[e] = At(g, n)[e]
    BY <1>1, <2>1 DEF Continues
  <2>4. \A i \in P : n < i /\ \A k \in (n + 1)..i : k \in (n + 1)..Len(g)
    BY <1>1, <1>3
  <2>5. Continues(g, tb, e, n, P)
    BY <2>2, <2>3, <2>4 DEF Continues
  <2> QED BY <2>2, <2>3, <2>5
<1>5. \A e \in Entries : e \notin seen => tb[e] = NoEntry /\ \A i \in P : g[i].entry # e
  BY <1>3 DEF Completed
<1> QED BY <1>4, <1>5 DEF Completed, g

\* A table that comes to see more is completed by the updates of what is new.
LEMMA MoreCompleted ==
  ASSUME NEW h \in Seq(Updates), NEW tb, NEW seen, NEW more, NEW P,
         Completed(h, tb, seen, {}), seen \subseteq more,
         P = {i \in DOMAIN h : h[i].entry \in more \ seen}
  PROVE  Completed(h, tb, more, P)
<1>0. Len(h) \in Nat /\ DOMAIN h = 1..Len(h) /\ At(h, 0) = EmptyTable
  BY AtSteps
<1>1. ASSUME NEW e \in Entries, e \in seen
      PROVE  \E n \in 0..Len(h) :
               /\ Continues(h, tb, e, n, P)
               /\ \A k \in (n + 1)..Len(h) : h[k].entry = e => k \in P
  <2>1. PICK n \in 0..Len(h) :
          /\ Continues(h, tb, e, n, {})
          /\ \A k \in (n + 1)..Len(h) : h[k].entry # e
    BY <1>1 DEF Completed
  <2>2. \A i \in P : h[i].entry # e
    BY <1>1
  <2>3. Continues(h, tb, e, n, P)
    BY <2>1, <2>2 DEF Continues
  <2> QED BY <2>1, <2>3
<1>2. ASSUME NEW e \in Entries, e \in more \ seen
      PROVE  \E n \in 0..Len(h) :
               /\ Continues(h, tb, e, n, P)
               /\ \A k \in (n + 1)..Len(h) : h[k].entry = e => k \in P
  <2>1. tb[e] = At(h, 0)[e] /\ 0 \in 0..Len(h) /\ 0 + 1 = 1
    BY <1>0, <1>2 DEF Completed, EmptyTable
  <2>2. \A k \in 1..Len(h) : h[k].entry = e => k \in P
    BY <1>0, <1>2
  <2>3. \A i \in P : 0 < i /\ \A k \in 1..i : k \in 1..Len(h)
    BY <1>0
  <2>4. Continues(h, tb, e, 0, P)
    BY <2>1, <2>2, <2>3 DEF Continues
  <2> QED BY <2>1, <2>2, <2>4
<1>3. \A e \in Entries : e \notin more => tb[e] = NoEntry /\ \A i \in P : h[i].entry # e
  BY DEF Completed
<1> QED BY <1>1, <1>2, <1>3 DEF Completed

(***************************************************************************)
(* The calls of SerialNext are calls of Next, and where they go.           *)
(***************************************************************************)
LEMMA SerialIsNext == Lasting /\ [SerialNext]_vars => [Next]_vars
<1> SUFFICES ASSUME Lasting, [SerialNext]_vars PROVE [Next]_vars
  OBVIOUS
<1>1. ASSUME NEW t \in Movable, AddTarget(t, InitFilter[t]) PROVE Next
  <2>1. t \in Targets /\ InitFilter[t] \in Filters
    BY TargetsAssumption DEF Lasting, NeverOneOfSeveral
  <2> QED BY <1>1, <2>1 DEF Next
<1>2. ASSUME NEW t \in Movable, RemoveTarget(t) PROVE Next
  BY <1>2 DEF Next, Lasting, NeverOneOfSeveral
<1>3. ASSUME NEW t \in Targets, NEW p \in Params, NEW vs \in SUBSET MatchValues,
             AddFilterParams(t, [q \in {p} |-> vs])
      PROVE  Next
  <2>1. [q \in {p} |-> vs] \in [{p} -> SUBSET MatchValues] /\ {p} \in SUBSET Params
    OBVIOUS
  <2>2. [q \in {p} |-> vs] \in Filters
    BY <2>1, FilterIntro
  <2> QED BY <1>3, <2>2 DEF Next
<1>4. ASSUME NEW c \in Controllers, NEW us \in TakenRequests, Write(c, us) PROVE Next
  BY <1>4 DEF Next, TakenRequests
<1> QED BY <1>1, <1>2, <1>3, <1>4 DEF SerialNext, Next

\* A request goes where it is seen: with several members, or one that is
\* named for everything, nothing else decides.
LEMMA Routing ==
  ASSUME Lasting, members \subseteq Targets, Configured \ Movable \subseteq members,
         NEW t \in members, NEW e \in Entries
  PROVE  t \in Destinations(e) <=> e \in Seen(t)
<1>1. Routed(e) = {x \in members : IsNamed(e, x)}
  <2>1. CASE \A x \in Targets : Names[x] = Tables
    <3>1. \A x \in members : IsNamed(e, x)
      BY <2>1, EntriesAssumption DEF IsNamed
    <3> QED BY <3>1 DEF Routed
  <2>2. CASE Cardinality(Configured \ Movable) > 1
    <3>1. IsFiniteSet(members)
      BY FS_Subset DEF Lasting, NeverOneOfSeveral
    <3>2. IsFiniteSet(Configured \ Movable) /\ Cardinality(Configured \ Movable) <= Cardinality(members)
      BY <3>1, FS_Subset
    <3>3. Cardinality(members) \in Nat /\ Cardinality(Configured \ Movable) \in Nat
      BY <3>1, <3>2, FS_CardinalityType
    <3>4. Cardinality(members) # 1
      BY <2>2, <3>2, <3>3
    <3> QED BY <3>4 DEF Routed
  <2> QED BY <2>1, <2>2 DEF Lasting, NeverOneOfSeveral
<1> QED BY <1>1 DEF Destinations, Seen

(***************************************************************************)
(* The invariant in a quiet state, and that it needs nothing else there.   *)
(***************************************************************************)
LEMMA QuietState ==
  ASSUME SerialInv, Quiet
  PROVE  /\ Taken(log) /\ log \in Seq(Updates)
         /\ members \subseteq Targets /\ Configured \ Movable \subseteq members
         /\ phase = "up" /\ rpcs = {} /\ op = IdleOp
         /\ \A t \in members : dp[t] \in TableType /\ Completed(log, dp[t], Seen(t), {})
<1>1. /\ members \subseteq Targets /\ log \in Seq(Updates)
      /\ \A t \in Targets : dp[t] \in TableType
  BY DEF SerialInv, TypeOK, TableType
<1>2. phase = "up" /\ rpcs = {} /\ op = IdleOp
  BY DEF Quiet
<1>3. \A t \in members : Unsent(t) = {}
  BY <1>2 DEF Unsent, IdleOp
<1>4. Configured \ Movable \subseteq members
  BY <1>2 DEF SerialInv, MembersInv
<1>5. \A t \in members : Completed(log, dp[t], Seen(t), {})
  BY <1>2, <1>3 DEF SerialInv, MembersInv
<1>6. Taken(log)
  BY <1>1 DEF SerialInv, HistoryInv, Taken
<1> QED BY <1>1, <1>2, <1>4, <1>5, <1>6

\* With no RPC in flight, each member is completed by what is unsent; in a
\* quiet state nothing is.
LEMMA NoRpcsNext ==
  ASSUME TypeOK', HistoryInv', FillInv', rpcs' = {}, phase' # "down",
         \A t \in members' : Completed(log', dp'[t], Seen(t)', Unsent(t)'),
         Configured \ Movable \subseteq members'
  PROVE  SerialInv'
<1>1. WireInv'
  BY DEF WireInv
<1>2. MembersInv'
  BY DEF MembersInv
<1> QED BY <1>1, <1>2 DEF SerialInv

LEMMA QuietNext ==
  ASSUME TypeOK', HistoryInv', op' = IdleOp, rpcs' = {}, phase' # "down",
         \A t \in members' : Completed(log', dp'[t], Seen(t)', {}),
         Configured \ Movable \subseteq members'
  PROVE  SerialInv'
<1>1. \A t \in members' : Unsent(t)' = {}
  BY DEF Unsent, IdleOp
<1>2. FillInv'
  BY DEF FillInv
<1> QED BY <1>1, <1>2, NoRpcsNext

(***************************************************************************)
(* A new pipeline, when the history amounts to nothing.                    *)
(***************************************************************************)
LEMMA SetPipelineSerial ==
  ASSUME Lasting, SerialInv, TypeOK', Quiet, After(log) = EmptyTable,
         SetForwardingPipelineConfig
  PROVE  SerialInv'
<1>1. /\ log' = <<>> /\ p4info' = TRUE
      /\ UNCHANGED <<phase, members, filter, rpcs, op, dp>>
  BY DEF SetForwardingPipelineConfig, Lasting
<1>2. <<>> \in Seq(Updates) /\ DOMAIN <<>> = {}
  OBVIOUS
<1>3. ASSUME NEW t \in members PROVE Completed(<<>>, dp[t], Seen(t), {})
  <2>1. dp[t] = [e \in Entries |-> IF e \in Seen(t) THEN EmptyTable[e] ELSE NoEntry]
    <3>1. dp[t] \in TableType /\ Taken(log) /\ Completed(log, dp[t], Seen(t), {})
      BY QuietState
    <3> QED BY <3>1, CompletedIsView
  <2>2. dp[t] = EmptyTable
    BY <2>1 DEF EmptyTable
  <2> QED BY <1>2, <2>2, EmptyCompleted
<1>4. HistoryInv'
  BY <1>1, <1>2 DEF HistoryInv
<1>5. \A t \in members' : Seen(t)' = Seen(t) /\ dp'[t] = dp[t]
  BY <1>1 DEF Seen
<1>6. \A t \in members' : Completed(log', dp'[t], Seen(t)', {})
  BY <1>1, <1>3, <1>5
<1>7. op' = IdleOp /\ rpcs' = {} /\ phase' # "down" /\ Configured \ Movable \subseteq members'
  BY <1>1, QuietState
<1> QED BY <1>4, <1>6, <1>7, QuietNext

(***************************************************************************)
(* A controller's request.                                                 *)
(***************************************************************************)
LEMMA WriteSerial ==
  ASSUME Lasting, SerialInv, TypeOK', Quiet, p4info,
         NEW c \in Controllers, NEW us \in TakenRequests, Write(c, us)
  PROVE  SerialInv'
<1> DEFINE Sent(t) == {Len(log) + j : j \in {j \in DOMAIN us : us[j].entry \in Seen(t)}}
<1>1. /\ log' = log \o us
      /\ UNCHANGED <<phase, members, filter, p4info, op, dp>>
  BY DEF Write, Lasting
<1>2. PICK id \in RpcIds :
        rpcs' = {WriteRpc(id, t, us, Share(us, t)) : t \in Reached(us)}
  <2>1. rpcs = {}
    BY QuietState
  <2> QED BY <2>1 DEF Write
<1>3. us \in Requests /\ us \in Seq(Updates)
  BY RequestType DEF TakenRequests
<1>4. /\ Taken(log) /\ log \in Seq(Updates) /\ members \subseteq Targets
      /\ Configured \ Movable \subseteq members
      /\ phase = "up" /\ op = IdleOp
      /\ \A t \in members : dp[t] \in TableType /\ Completed(log, dp[t], Seen(t), {})
  BY QuietState
<1>5. /\ Len(log) \in Nat /\ Len(us) \in Nat /\ DOMAIN us = 1..Len(us)
      /\ Len(log') = Len(log) + Len(us) /\ DOMAIN log' = 1..Len(log')
      /\ \A j \in 1..Len(us) : log'[Len(log) + j] = us[j]
  BY <1>1, <1>3, <1>4, LongerHistory, LenProperties
<1>6. ASSUME NEW t \in members PROVE Share(us, t) = {j \in DOMAIN us : us[j].entry \in Seen(t)}
  <2>1. \A j \in DOMAIN us : us[j].entry \in Entries
    BY <1>3, <1>5, ElementOfSeq DEF Updates
  <2>2. \A j \in DOMAIN us : t \in Destinations(us[j].entry) <=> us[j].entry \in Seen(t)
    BY <1>4, <2>1, Routing
  <2> QED BY <2>2 DEF Share
<1>7. ASSUME NEW t \in members PROVE Completed(log', dp[t], Seen(t), Sent(t))
  BY <1>1, <1>3, <1>4, LongerCompleted
<1>8. \A t \in members : Seen(t)' = Seen(t) /\ Unsent(t)' = {}
  BY <1>1, <1>4 DEF Seen, Unsent, IdleOp
<1>9. Taken(log')
  <2>1. \A i \in DOMAIN us : Accepts(After(log \o SubSeq(us, 1, i - 1)), us[i])
    BY DEF TakenRequests
  <2> QED BY <1>1, <1>3, <1>4, <2>1, LongerTaken
<1>10. HistoryInv'
  BY <1>1, <1>9 DEF HistoryInv, Taken
<1>11. ASSUME NEW r \in rpcs'
       PROVE  \E t \in members :
                /\ Share(us, t) # {}
                /\ r.target = t /\ r.left = Share(us, t) /\ r.updates = us /\ r.ok = TRUE
                /\ r = WriteRpc(id, t, us, Share(us, t))
  <2>1. PICK t \in Reached(us) : r = WriteRpc(id, t, us, Share(us, t))
    BY <1>2
  <2>2. t \in members /\ Share(us, t) # {}
    BY DEF Reached
  <2> QED BY <2>1, <2>2 DEF WriteRpc
<1>0. PICK off \in Nat : off = Len(log)
  BY <1>5
<1>12. ASSUME NEW r \in rpcs' PROVE r.ok /\ OnTrack(r, off)'
  <2>1. PICK t \in members :
          r.target = t /\ r.left = Share(us, t) /\ r.updates = us /\ r.ok = TRUE
    BY <1>11
  <2>2. OnWire(r, off)' = Sent(t)
    BY <1>0, <1>6, <2>1 DEF OnWire
  <2>3. ASSUME NEW j \in r.left
        PROVE  off + j \in DOMAIN log' /\ r.updates[j] = log'[off + j]
    <3>1. j \in 1..Len(us)
      BY <1>5, <1>6, <2>1
    <3> QED BY <1>0, <1>5, <2>1, <3>1
  <2>4. Completed(log', dp[t], Seen(t), Sent(t) \cup {})
    BY <1>7
  <2> HIDE DEF Sent
  <2>5. phase' # "down" /\ dp' = dp /\ members' = members
    BY <1>1, <1>4
  <2>6. OnTrack(r, off)'
    BY <1>8, <2>1, <2>2, <2>3, <2>4, <2>5 DEF OnTrack
  <2> QED BY <2>1, <2>6
<1>13. WireInv'
  <2>1. ASSUME NEW r \in rpcs', NEW q \in rpcs', r.target = q.target PROVE r = q
    <3>1. PICK t \in members : r.target = t /\ r = WriteRpc(id, t, us, Share(us, t))
      BY <1>11
    <3>2. PICK x \in members : q.target = x /\ q = WriteRpc(id, x, us, Share(us, x))
      BY <1>11
    <3> QED BY <2>1, <3>1, <3>2
  <2>2. off \in 0..Len(log')
    BY <1>0, <1>5
  <2> QED BY <1>12, <2>1, <2>2 DEF WireInv
<1>14. MembersInv'
  <2>1. ASSUME NEW t \in members, \A r \in rpcs' : r.target # t
        PROVE  Completed(log', dp[t], Seen(t), {})
    <3>1. t \notin Reached(us)
      <4>1. SUFFICES ASSUME t \in Reached(us) PROVE FALSE
        OBVIOUS
      <4>2. WriteRpc(id, t, us, Share(us, t)) \in rpcs'
        BY <1>2, <4>1
      <4>3. WriteRpc(id, t, us, Share(us, t)).target = t
        BY DEF WriteRpc
      <4> QED BY <2>1, <4>2, <4>3
    <3>2. Share(us, t) = {}
      BY <3>1 DEF Reached
    <3>3. Sent(t) = {}
      BY <1>6, <3>2
    <3> QED BY <1>7, <3>3
  <2> QED BY <1>1, <1>4, <1>8, <2>1 DEF MembersInv
<1>15. FillInv'
  BY <1>1, <1>4 DEF FillInv
<1> QED BY <1>10, <1>13, <1>14, <1>15 DEF SerialInv

(***************************************************************************)
(* The operator's calls.                                                   *)
(***************************************************************************)
\* What a fill that starts has to send to its target.
LEMMA FillSends ==
  ASSUME NEW t, NEW f, NEW g, NEW rest
  PROVE  LET o == FillCall(t, f, g, rest) IN
         /\ o.kind = "fill" /\ o.target = t /\ o.snap = log /\ o.rest = rest /\ ~o.awaits
         /\ o.left = {i \in DOMAIN log :
                        log[i].entry \in {e \in Entries : /\ IsNamed(e, t)
                                                          /\ IsAllowed(e, f) /\ IsAllowed(e, g)}}
BY DEF FillCall, CallFor

LEMMA AddTargetSerial ==
  ASSUME Lasting, SerialInv, TypeOK', Quiet,
         NEW t \in Movable, AddTarget(t, InitFilter[t])
  PROVE  SerialInv'
<1>1. /\ members' = members \cup {t} /\ filter' = [filter EXCEPT ![t] = InitFilter[t]]
      /\ dp' = [dp EXCEPT ![t] = EmptyTable]
      /\ op' = IF p4info THEN FillCall(t, InitFilter[t], InitFilter[t], {}) ELSE IdleOp
      /\ UNCHANGED <<phase, log, p4info, rpcs>> /\ t \notin members
  BY DEF AddTarget, Lasting
<1>2. /\ Taken(log) /\ log \in Seq(Updates) /\ members \subseteq Targets
      /\ Configured \ Movable \subseteq members
      /\ phase = "up" /\ op = IdleOp /\ rpcs = {}
      /\ \A x \in members : dp[x] \in TableType /\ Completed(log, dp[x], Seen(x), {})
  BY QuietState
<1>3. /\ t \in Targets /\ filter \in [Targets -> Filters]
      /\ dp \in [Targets -> [Entries -> Values \cup {NoEntry}]]
  BY DEF SerialInv, TypeOK, Lasting, NeverOneOfSeveral
<1>4. HistoryInv'
  BY <1>1 DEF SerialInv, HistoryInv
<1>5. Seen(t)' = {e \in Entries : IsNamed(e, t) /\ IsAllowed(e, InitFilter[t])}
  BY <1>1, <1>3 DEF Seen
<1>6. \A x \in members : Seen(x)' = Seen(x) /\ dp'[x] = dp[x]
  BY <1>1, <1>2, <1>3 DEF Seen
<1>7. dp'[t] = EmptyTable
  BY <1>1, <1>3
<1>8. ASSUME NEW P, P = {i \in DOMAIN log : log[i].entry \in Seen(t)'}
      PROVE  Completed(log, dp'[t], Seen(t)', P)
  BY <1>2, <1>7, <1>8, EmptyCompleted
<1>9. CASE p4info
  <2>1. /\ op'.kind = "fill" /\ op'.target = t /\ op'.snap = log /\ op'.rest = {}
        /\ op'.left = {i \in DOMAIN log : log[i].entry \in Seen(t)'}
    BY <1>1, <1>5, <1>9, FillSends
  <2>2. Unsent(t)' = op'.left /\ \A x \in members : Unsent(x)' = {}
    BY <1>1, <2>1 DEF Unsent
  <2>3. FillInv'
    BY <1>1, <1>2, <2>1 DEF FillInv
  <2>4. \A x \in members' : Completed(log', dp'[x], Seen(x)', Unsent(x)')
    BY <1>1, <1>2, <1>6, <1>8, <2>1, <2>2
  <2>5. rpcs' = {} /\ phase' # "down" /\ Configured \ Movable \subseteq members'
    BY <1>1, <1>2
  <2> QED BY <1>4, <2>3, <2>4, <2>5, NoRpcsNext
<1>10. CASE ~p4info
  <2>1. log = <<>>
    BY <1>10 DEF SerialInv, HistoryInv
  <2>2. Completed(log, dp'[t], Seen(t)', {})
    BY <1>8, <2>1
  <2>3. \A x \in members' : Completed(log', dp'[x], Seen(x)', {})
    BY <1>1, <1>2, <1>6, <2>2
  <2>4. rpcs' = {} /\ op' = IdleOp /\ phase' # "down" /\ Configured \ Movable \subseteq members'
    BY <1>1, <1>2, <1>10
  <2> QED BY <1>4, <2>3, <2>4, QuietNext
<1> QED BY <1>9, <1>10

LEMMA RemoveTargetSerial ==
  ASSUME SerialInv, TypeOK', Quiet, NEW t \in Movable, RemoveTarget(t)
  PROVE  SerialInv'
<1>1. /\ members' = members \ {t} /\ filter' = [filter EXCEPT ![t] = NoFilter]
      /\ UNCHANGED <<phase, log, p4info, rpcs, op, dp>>
  BY DEF RemoveTarget
<1>2. HistoryInv'
  BY <1>1 DEF SerialInv, HistoryInv
<1>3. filter \in [Targets -> Filters]
  BY DEF SerialInv, TypeOK
<1>4. \A x \in members' : x \in members /\ Seen(x)' = Seen(x)
  BY <1>1, <1>3, QuietState DEF Seen
<1>5. \A x \in members' : Completed(log', dp'[x], Seen(x)', {})
  BY <1>1, <1>4, QuietState
<1>6. op' = IdleOp /\ rpcs' = {} /\ phase' # "down" /\ Configured \ Movable \subseteq members'
  BY <1>1, QuietState
<1> QED BY <1>2, <1>5, <1>6, QuietNext

\* One more field value or several: the fill is for what they let through and
\* was not let through before.
LEMMA FilterGrows ==
  ASSUME NEW f \in Filters, NEW p \in DOMAIN f, NEW vs \in SUBSET MatchValues,
         NEW e \in Entries, p \in DOMAIN Match[e],
         NEW adds, adds = [q \in {p} |-> vs]
  PROVE  /\ IsAllowed(e, Extended(f, adds)) <=>
              IsAllowed(e, f) \/ (IsAllowed(e, NewlyAdded(f, adds)) /\ IsAllowed(e, Extended(f, adds)))
         /\ ~(IsAllowed(e, f) /\ IsAllowed(e, NewlyAdded(f, adds)))
<1> DEFINE g == Extended(f, adds)
           n == NewlyAdded(f, adds)
<1>1. DOMAIN adds = {p} /\ adds[p] = vs
  OBVIOUS
<1>2. DOMAIN g = DOMAIN f /\ g[p] = f[p] \cup vs /\ \A q \in DOMAIN f : q # p => g[q] = f[q]
  <2>1. DOMAIN f \cup {p} = DOMAIN f
    OBVIOUS
  <2>2. \A q \in DOMAIN f : q # p => f[q] \cup {} = f[q]
    OBVIOUS
  <2>3. g = [q \in DOMAIN f |-> f[q] \cup (IF q = p THEN vs ELSE {})]
    BY <2>1 DEF Extended
  <2> HIDE DEF g
  <2> QED BY <2>2, <2>3
<1>3. DOMAIN n = {p} /\ n[p] = vs \ f[p]
  BY DEF NewlyAdded
<1> HIDE DEF g, n
<1>4. IsAllowed(e, f) <=> \A q \in DOMAIN Match[e] \cap DOMAIN f : Match[e][q] \in f[q]
  BY DEF IsAllowed
<1>5. IsAllowed(e, g) <=> \A q \in DOMAIN Match[e] \cap DOMAIN f : Match[e][q] \in g[q]
  BY <1>2 DEF IsAllowed
<1>6. IsAllowed(e, n) <=> Match[e][p] \in vs \ f[p]
  BY <1>3 DEF IsAllowed
<1>7. IsAllowed(e, f) => IsAllowed(e, g) /\ ~IsAllowed(e, n)
  BY <1>2, <1>4, <1>5, <1>6
<1>8. IsAllowed(e, g) /\ ~IsAllowed(e, n) => IsAllowed(e, f)
  BY <1>2, <1>4, <1>5, <1>6
<1> QED BY <1>7, <1>8 DEF g, n

LEMMA AddFilterParamsSerial ==
  ASSUME SerialInv, TypeOK', Quiet,
         NEW t \in Targets, NEW p \in Params, NEW vs \in SUBSET MatchValues,
         p \in DOMAIN filter[t], \A e \in Entries : p \in DOMAIN Match[e],
         AddFilterParams(t, [q \in {p} |-> vs])
  PROVE  SerialInv'
<1> DEFINE adds == [q \in {p} |-> vs]
           g == Extended(filter[t], adds)
           n == NewlyAdded(filter[t], adds)
           more == {e \in Entries : IsNamed(e, t) /\ IsAllowed(e, g)}
<1>1. /\ filter' = [filter EXCEPT ![t] = g]
      /\ op' = IF p4info THEN FillCall(t, n, g, {}) ELSE IdleOp
      /\ UNCHANGED <<phase, members, log, p4info, rpcs, dp>> /\ t \in members
  BY DEF AddFilterParams
<1>2. /\ Taken(log) /\ log \in Seq(Updates) /\ members \subseteq Targets
      /\ Configured \ Movable \subseteq members
      /\ phase = "up" /\ op = IdleOp /\ rpcs = {}
      /\ \A x \in members : dp[x] \in TableType /\ Completed(log, dp[x], Seen(x), {})
  BY QuietState
<1>3. filter \in [Targets -> Filters] /\ filter[t] \in Filters
  BY DEF SerialInv, TypeOK
<1>4. \A e \in Entries :
        /\ IsAllowed(e, g) <=> IsAllowed(e, filter[t]) \/ (IsAllowed(e, n) /\ IsAllowed(e, g))
        /\ ~(IsAllowed(e, filter[t]) /\ IsAllowed(e, n))
  <2> TAKE e \in Entries
  <2>1. filter[t] \in Filters /\ p \in DOMAIN filter[t] /\ p \in DOMAIN Match[e]
    BY <1>3
  <2>2. PICK a : a = adds
    OBVIOUS
  <2>3. /\ IsAllowed(e, Extended(filter[t], a)) <=>
             IsAllowed(e, filter[t]) \/ (IsAllowed(e, NewlyAdded(filter[t], a)) /\ IsAllowed(e, Extended(filter[t], a)))
        /\ ~(IsAllowed(e, filter[t]) /\ IsAllowed(e, NewlyAdded(filter[t], a)))
    BY <2>1, <2>2, FilterGrows
  <2> QED BY <2>2, <2>3
<1> HIDE DEF adds, g, n
<1>5. HistoryInv'
  BY <1>1 DEF SerialInv, HistoryInv
<1>6. Seen(t)' = more
  <2>1. filter'[t] = g
    BY <1>1, <1>3
  <2> QED BY <2>1 DEF Seen
<1>7. \A x \in members : x # t => Seen(x)' = Seen(x)
  BY <1>1, <1>2, <1>3 DEF Seen
<1>8. /\ Seen(t) \subseteq more
      /\ more \ Seen(t) = {e \in Entries : IsNamed(e, t) /\ IsAllowed(e, n) /\ IsAllowed(e, g)}
  BY <1>4 DEF Seen
<1> HIDE DEF more
<1>9. ASSUME NEW P, P = {i \in DOMAIN log : log[i].entry \in more \ Seen(t)}
      PROVE  Completed(log, dp[t], more, P)
  BY <1>1, <1>2, <1>8, <1>9, MoreCompleted
<1>10. CASE p4info
  <2>1. /\ op'.kind = "fill" /\ op'.target = t /\ op'.snap = log /\ op'.rest = {}
        /\ op'.left = {i \in DOMAIN log : log[i].entry \in more \ Seen(t)}
    BY <1>1, <1>8, <1>10, FillSends
  <2>2. Unsent(t)' = op'.left /\ \A x \in members : x # t => Unsent(x)' = {}
    BY <1>1, <2>1 DEF Unsent
  <2>3. FillInv'
    BY <1>1, <1>2, <2>1 DEF FillInv
  <2>4. Completed(log, dp[t], more, Unsent(t)')
    BY <1>9, <2>1, <2>2
  <2>5. \A x \in members' : Completed(log', dp'[x], Seen(x)', Unsent(x)')
    BY <1>1, <1>2, <1>6, <1>7, <2>2, <2>4
  <2>6. rpcs' = {} /\ phase' # "down" /\ Configured \ Movable \subseteq members'
    BY <1>1, <1>2
  <2> QED BY <1>5, <2>3, <2>5, <2>6, NoRpcsNext
<1>11. CASE ~p4info
  <2>1. log = <<>>
    BY <1>11 DEF SerialInv, HistoryInv
  <2>2. Completed(log, dp[t], more, {})
    BY <1>9, <2>1
  <2>3. \A x \in members' : Completed(log', dp'[x], Seen(x)', {})
    BY <1>1, <1>2, <1>6, <1>7, <2>2
  <2>4. rpcs' = {} /\ op' = IdleOp /\ phase' # "down" /\ Configured \ Movable \subseteq members'
    BY <1>1, <1>2, <1>11
  <2> QED BY <1>5, <2>3, <2>4, QuietNext
<1> QED BY <1>10, <1>11

(***************************************************************************)
(* The fill in progress.                                                   *)
(***************************************************************************)
\* A fill that awaits nothing has nothing on the wire.
LEMMA FillState ==
  ASSUME SerialInv, op # IdleOp, ~op.awaits
  PROVE  /\ phase # "down" /\ op.kind = "fill" /\ op.snap = log /\ rpcs = {}
         /\ op.target \in members /\ op.target \notin op.rest /\ op.rest \subseteq members
         /\ Configured \ Movable \subseteq members
         /\ \A t \in members : Completed(log, dp[t], Seen(t), Unsent(t))
<1>1. /\ phase # "down" /\ op.kind = "fill" /\ op.snap = log
      /\ op.target \in members \ op.rest /\ op.rest \subseteq members
      /\ \A r \in rpcs : op.awaits
  BY DEF SerialInv, FillInv
<1>2. rpcs = {}
  BY <1>1
<1> QED BY <1>1, <1>2 DEF SerialInv, MembersInv

LEMMA OpSendSerial == ASSUME SerialInv, TypeOK', OpSend PROVE SerialInv'
<1>1. PICK i \in op.left :
        /\ IsFirst(i, op.left) /\ ~op.awaits
        /\ LET u == IF op.kind = "withdraw" THEN Delete(op.snap[i].entry) ELSE op.snap[i]
           IN  rpcs' = rpcs \cup {WriteRpc(OpRequest, op.target, <<u>>, {1})}
        /\ op' = [op EXCEPT !.left = @ \ {i}, !.awaits = TRUE]
        /\ UNCHANGED <<phase, members, filter, log, p4info, waiting, dp>>
  BY DEF OpSend
<1>2. op # IdleOp
  BY DEF IdleOp
<1>3. /\ phase # "down" /\ op.kind = "fill" /\ op.snap = log /\ rpcs = {}
      /\ op.target \in members /\ op.target \notin op.rest /\ op.rest \subseteq members
      /\ Configured \ Movable \subseteq members
      /\ \A t \in members : Completed(log, dp[t], Seen(t), Unsent(t))
  BY <1>1, <1>2, FillState
<1>4. PICK r : r = WriteRpc(OpRequest, op.target, <<log[i]>>, {1})
  OBVIOUS
<1>5. /\ rpcs' = {r} /\ r.id = OpRequest /\ r.target = op.target
      /\ r.updates = <<log[i]>> /\ r.left = {1} /\ r.ok = TRUE
  BY <1>1, <1>3, <1>4 DEF WriteRpc
<1>6. /\ op'.kind = op.kind /\ op'.target = op.target /\ op'.snap = op.snap
      /\ op'.rest = op.rest /\ op'.awaits = TRUE /\ op'.left = op.left \ {i}
  <2>1. op \in OpType
    BY DEF SerialInv, TypeOK, OpType
  <2> QED BY <1>1, <2>1 DEF OpType
<1>7. Unsent(op.target) = op.left
  BY <1>3 DEF Unsent
<1>8. /\ i \in DOMAIN log /\ i \in 1..Len(log) /\ Len(log) \in Nat /\ op.left \subseteq Nat
  <2>1. op.left \subseteq DOMAIN log /\ log \in Seq(Updates)
    BY <1>3 DEF SerialInv, TypeOK
  <2> QED BY <2>1, LenProperties
<1>9. PICK off \in 0..Len(log) : off = i - 1
  BY <1>8
<1>10. OnTrack(r, off)'
  <2>1. off + 1 = i /\ OnWire(r, off)' = {i}
    BY <1>5, <1>8, <1>9 DEF OnWire
  <2>2. Unsent(r.target)' = op.left \ {i}
    BY <1>3, <1>5, <1>6 DEF Unsent
  <2>3. \A k \in op.left \ {i} : i < k
    BY <1>1, <1>8 DEF IsFirst
  <2>4. {i} \cup (op.left \ {i}) = op.left
    OBVIOUS
  <2>5. Completed(log, dp[op.target], Seen(op.target), op.left)
    BY <1>3, <1>7
  <2>6. Seen(r.target)' = Seen(op.target)
    BY <1>1, <1>5 DEF Seen
  <2>7. Completed(log', dp'[r.target], Seen(r.target)', OnWire(r, off)' \cup Unsent(r.target)')
    BY <1>1, <1>5, <2>1, <2>2, <2>4, <2>5, <2>6
  <2>8. \A j \in r.left : off + j \in DOMAIN log' /\ r.updates[j] = log'[off + j]
    BY <1>1, <1>5, <1>8, <2>1
  <2>9. phase' # "down" /\ r.target \in members'
    BY <1>1, <1>3, <1>5
  <2> QED BY <2>1, <2>2, <2>3, <2>7, <2>8, <2>9 DEF OnTrack
<1>11. WireInv'
  BY <1>1, <1>5, <1>9, <1>10 DEF WireInv
<1>12. ASSUME NEW t \in members, t # op.target
       PROVE  Seen(t)' = Seen(t) /\ Unsent(t)' = Unsent(t)
  BY <1>1, <1>6, <1>12 DEF Seen, Unsent
<1>13. MembersInv'
  BY <1>1, <1>3, <1>5, <1>12 DEF MembersInv
<1>14. FillInv'
  BY <1>1, <1>3, <1>5, <1>6 DEF FillInv
<1>15. HistoryInv'
  BY <1>1 DEF SerialInv, HistoryInv
<1> QED BY <1>11, <1>13, <1>14, <1>15 DEF SerialInv

LEMMA OpDoneSerial == ASSUME SerialInv, TypeOK', OpDone PROVE SerialInv'
<1>1. /\ op # IdleOp /\ ~op.awaits /\ op.left = {}
      /\ UNCHANGED <<members, filter, log, p4info, rpcs, waiting, dp>>
  BY DEF OpDone
<1>2. /\ phase # "down" /\ op.kind = "fill" /\ op.snap = log /\ rpcs = {}
      /\ op.target \in members /\ op.target \notin op.rest /\ op.rest \subseteq members
      /\ Configured \ Movable \subseteq members
      /\ \A t \in members : Completed(log, dp[t], Seen(t), Unsent(t))
  BY <1>1, FillState
<1>3. HistoryInv'
  BY <1>1 DEF SerialInv, HistoryInv
<1>4. \A t \in members : Seen(t)' = Seen(t)
  BY <1>1 DEF Seen
<1>5. CASE op.rest = {}
  <2>1. op' = IdleOp /\ phase' = "up"
    BY <1>5 DEF OpDone
  <2>2. \A t \in members : Unsent(t) = {}
    BY <1>1, <1>5 DEF Unsent
  <2>3. \A t \in members' : Completed(log', dp'[t], Seen(t)', {})
    BY <1>1, <1>2, <1>4, <2>2
  <2>4. rpcs' = {} /\ phase' # "down" /\ Configured \ Movable \subseteq members'
    BY <1>1, <1>2, <2>1
  <2> QED BY <1>3, <2>1, <2>3, <2>4, QuietNext
<1>6. CASE op.rest # {}
  <2>1. PICK t \in op.rest :
          op' = FillCall(t, filter[t], filter[t], op.rest \ {t}) /\ phase' = phase
    BY <1>6 DEF OpDone
  <2>2. /\ op'.kind = "fill" /\ op'.target = t /\ op'.snap = log /\ op'.rest = op.rest \ {t}
        /\ op'.left = {i \in DOMAIN log : log[i].entry \in Seen(t)}
    BY <2>1, FillSends DEF Seen
  <2>3. ASSUME NEW x \in members PROVE Unsent(x)' = Unsent(x)
    <3>1. CASE x = t
      BY <1>1, <2>2, <3>1 DEF Unsent
    <3>2. CASE x # t /\ x \in op.rest
      BY <1>1, <1>4, <2>2, <3>2 DEF Unsent
    <3>3. CASE x \notin op.rest
      BY <1>1, <2>1, <2>2, <3>3 DEF Unsent
    <3> QED BY <3>1, <3>2, <3>3
  <2>4. \A x \in members' : Completed(log', dp'[x], Seen(x)', Unsent(x)')
    BY <1>1, <1>2, <1>4, <2>3
  <2>5. FillInv'
    BY <1>1, <1>2, <2>1, <2>2 DEF FillInv
  <2>6. rpcs' = {} /\ phase' # "down" /\ Configured \ Movable \subseteq members'
    BY <1>1, <1>2, <2>1
  <2> QED BY <1>3, <2>4, <2>5, <2>6, NoRpcsNext
<1> QED BY <1>5, <1>6

(***************************************************************************)
(* A switch executes an update.                                            *)
(***************************************************************************)
\* What is unsent is in the log.
LEMMA UnsentLogged == ASSUME SerialInv, NEW t PROVE Unsent(t) \subseteq DOMAIN log
<1>1. op.left \subseteq DOMAIN log
  <2>1. CASE op = IdleOp
    BY <2>1 DEF IdleOp
  <2>2. CASE op # IdleOp
    BY <2>2 DEF SerialInv, TypeOK, FillInv
  <2> QED BY <2>1, <2>2
<1> QED BY <1>1 DEF Unsent

\* The first update on the way is taken.
LEMMA FirstTaken ==
  ASSUME SerialInv, NEW r \in rpcs, NEW off \in 0..Len(log), OnTrack(r, off),
         NEW i \in r.left, IsFirst(i, r.left)
  PROVE  /\ Accepts(dp[r.target], r.updates[i])
         /\ Applied(dp[r.target], r.updates[i]) \in TableType
         /\ off + i \in OnWire(r, off)
         /\ IF phase = "down"
            THEN Playable(log, Applied(dp[r.target], r.updates[i]), OnWire(r, off) \ {off + i})
            ELSE Completed(log, Applied(dp[r.target], r.updates[i]), Seen(r.target),
                           (OnWire(r, off) \ {off + i}) \cup Unsent(r.target))
<1> DEFINE L == OnWire(r, off)
           t == r.target
           m == off + i
<1>1. /\ log \in Seq(Updates) /\ Len(log) \in Nat /\ DOMAIN log = 1..Len(log)
      /\ t \in Targets /\ dp[t] \in TableType /\ r.left \subseteq Nat
  BY LenProperties DEF SerialInv, TypeOK, TableType
<1>2. Taken(log)
  BY <1>1 DEF SerialInv, HistoryInv, Taken
<1>3. r.updates[i] = log[m] /\ L \subseteq DOMAIN log
  BY DEF OnTrack, OnWire
<1>4. m \in L /\ \A k \in L : m <= k
  <2>1. \A j \in r.left : i <= j
    BY DEF IsFirst
  <2> QED BY <1>1, <2>1 DEF OnWire
<1>5. CASE phase = "down"
  <2>1. Playable(log, dp[t], L)
    BY <1>5 DEF OnTrack
  <2> HIDE DEF L, m, t
  <2>2. /\ Accepts(dp[t], log[m]) /\ Applied(dp[t], log[m]) \in TableType
        /\ Playable(log, Applied(dp[t], log[m]), L \ {m})
    BY <1>1, <1>2, <1>3, <1>4, <2>1, PlayOne
  <2> QED BY <1>3, <1>4, <1>5, <2>2 DEF L, m, t
<1>6. CASE phase # "down"
  <2> DEFINE U == Unsent(t)
             P == L \cup U
  <2>1. Completed(log, dp[t], Seen(t), P) /\ \A k \in L, n \in U : k < n
    BY <1>6 DEF OnTrack
  <2>2. U \subseteq DOMAIN log
    BY UnsentLogged
  <2> HIDE DEF L, m, t, U
  <2>3. m \in P /\ P \in SUBSET DOMAIN log /\ \A k \in P : m <= k
    <3>1. \A k \in U : k \in Nat /\ m \in Nat /\ m < k
      BY <1>1, <1>3, <1>4, <2>1, <2>2
    <3> QED BY <1>3, <1>4, <2>2, <3>1
  <2> HIDE DEF P
  <2>4. /\ Accepts(dp[t], log[m]) /\ Applied(dp[t], log[m]) \in TableType
        /\ Completed(log, Applied(dp[t], log[m]), Seen(t), P \ {m})
    BY <1>1, <1>2, <2>1, <2>3, CompleteOne
  <2>5. P \ {m} = (L \ {m}) \cup U
    <3>1. m \notin U
      BY <1>1, <1>3, <1>4, <2>1, <2>2
    <3> QED BY <3>1 DEF P
  <2> QED BY <1>3, <1>4, <1>6, <2>4, <2>5 DEF L, m, t, U
<1> QED BY <1>5, <1>6

LEMMA ApplySerial == ASSUME SerialInv, TypeOK', NEW r \in rpcs, Apply(r) PROVE SerialInv'
<1> DEFINE next(i) == [r EXCEPT !.left = @ \ {i},
                                !.ok = @ /\ Accepts(dp[r.target], r.updates[i])]
<1>1. PICK i \in r.left :
        /\ IsFirst(i, r.left)
        /\ dp' = [dp EXCEPT ![r.target] = Applied(dp[r.target], r.updates[i])]
        /\ IF next(i).left = {}
           THEN rpcs' = rpcs \ {r} /\ Return(next(i))
           ELSE rpcs' = (rpcs \ {r}) \cup {next(i)}
                /\ UNCHANGED <<waiting, op, phase, members>>
  BY DEF Apply
<1>2. UNCHANGED <<filter, log, p4info>>
  BY DEF Apply
<1>3. PICK off \in 0..Len(log) : OnTrack(r, off)
  BY DEF SerialInv, WireInv
<1> DEFINE new == Applied(dp[r.target], r.updates[i])
<1>4. /\ Accepts(dp[r.target], r.updates[i]) /\ off + i \in OnWire(r, off)
      /\ IF phase = "down"
         THEN Playable(log, new, OnWire(r, off) \ {off + i})
         ELSE Completed(log, new, Seen(r.target),
                        (OnWire(r, off) \ {off + i}) \cup Unsent(r.target))
  BY <1>1, <1>3, FirstTaken
<1>5. PICK s : s = next(i)
  OBVIOUS
<1>6. /\ s.id = r.id /\ s.target = r.target /\ s.updates = r.updates
      /\ s.left = r.left \ {i} /\ s.ok = TRUE
  <2>1. r \in RpcType /\ r.ok
    BY DEF SerialInv, TypeOK, RpcType, WireInv
  <2> QED BY <1>4, <1>5, <2>1 DEF RpcType
<1>7. /\ dp \in [Targets -> [Entries -> Values \cup {NoEntry}]] /\ op \in OpType
      /\ r.target \in Targets /\ r.left \subseteq Nat /\ Len(log) \in Nat
  BY LenProperties DEF SerialInv, TypeOK, OpType
<1>8. dp'[r.target] = new /\ \A x \in Targets : x # r.target => dp'[x] = dp[x]
  BY <1>1, <1>7
<1> HIDE DEF next, new
<1>9. \/ s.left = {} /\ rpcs' = rpcs \ {r} /\ Return(s)
      \/ s.left # {} /\ rpcs' = (rpcs \ {r}) \cup {s} /\ UNCHANGED <<waiting, op, phase, members>>
  BY <1>1, <1>5
<1>10. /\ phase' = phase /\ members' = members
       /\ \/ op' = op
          \/ op.awaits /\ r.id = OpRequest /\ s.left = {} /\ op' = [op EXCEPT !.awaits = FALSE]
  <2>1. CASE Return(s) /\ s.left = {}
    <3>1. /\ op' = IF op.awaits /\ r.id = OpRequest THEN [op EXCEPT !.awaits = FALSE] ELSE op
          /\ phase' = phase /\ members' = IF phase' = "down" THEN {} ELSE members
      BY <2>1, <1>6 DEF Return
    <3>2. phase = "down" => members = {}
      BY DEF SerialInv, MembersInv
    <3> QED BY <2>1, <3>1, <3>2
  <2> QED BY <1>9, <2>1
<1>11. /\ op'.kind = op.kind /\ op'.target = op.target /\ op'.snap = op.snap
       /\ op'.left = op.left /\ op'.rest = op.rest
  BY <1>7, <1>10 DEF OpType
<1>12. \A x : Unsent(x)' = Unsent(x) /\ Seen(x)' = Seen(x)
  BY <1>2, <1>11 DEF Unsent, Seen
<1>13. OnWire(s, off)' = OnWire(r, off) \ {off + i}
  <2>1. \A j \in r.left : off + j = off + i => j = i
    BY <1>7
  <2> QED BY <1>6, <2>1 DEF OnWire
<1>14. OnTrack(s, off)'
  <2>1. \A j \in s.left : off + j \in DOMAIN log' /\ s.updates[j] = log'[off + j]
    BY <1>2, <1>3, <1>6 DEF OnTrack
  <2>2. CASE phase = "down"
    BY <1>2, <1>4, <1>6, <1>8, <1>10, <1>13, <2>1, <2>2 DEF OnTrack
  <2>3. CASE phase # "down"
    <3>1. /\ s.target \in members'
          /\ \A k \in OnWire(s, off)', n \in Unsent(s.target)' : k < n
      BY <1>3, <1>6, <1>10, <1>12, <1>13, <2>3 DEF OnTrack
    <3>2. Completed(log', dp'[s.target], Seen(s.target)', OnWire(s, off)' \cup Unsent(s.target)')
      BY <1>2, <1>4, <1>6, <1>8, <1>12, <1>13, <2>3
    <3> QED BY <1>10, <2>1, <2>3, <3>1, <3>2 DEF OnTrack
  <2> QED BY <2>2, <2>3
<1>15. ASSUME NEW q \in rpcs, q # r
       PROVE  q.target # r.target /\ q.ok /\ \E o \in 0..Len(log') : OnTrack(q, o)'
  <2>1. q.target # r.target /\ q.target \in Targets /\ q.ok
    BY <1>15 DEF SerialInv, WireInv, TypeOK
  <2>2. PICK o \in 0..Len(log) : OnTrack(q, o)
    BY DEF SerialInv, WireInv
  <2>3. OnWire(q, o)' = OnWire(q, o) /\ dp'[q.target] = dp[q.target]
    BY <1>8, <2>1 DEF OnWire
  <2>4. OnTrack(q, o)'
    BY <1>2, <1>10, <1>12, <2>2, <2>3 DEF OnTrack
  <2> QED BY <1>2, <2>1, <2>2, <2>4
<1>16. WireInv'
  <2>1. \A q \in rpcs' : (q \in rpcs /\ q # r) \/ q = s
    BY <1>9
  <2>2. ASSUME NEW q \in rpcs', NEW o \in rpcs', q.target = o.target PROVE q = o
    BY <1>6, <1>15, <2>1, <2>2 DEF SerialInv, WireInv
  <2>3. \A q \in rpcs' : q.ok /\ \E o \in 0..Len(log') : OnTrack(q, o)'
    BY <1>2, <1>6, <1>14, <1>15, <2>1
  <2> QED BY <2>2, <2>3 DEF WireInv
<1>17. MembersInv'
  <2>1. ASSUME NEW x \in members, \A q \in rpcs' : q.target # x
        PROVE  Completed(log, dp'[x], Seen(x), Unsent(x))
    <3>1. CASE x = r.target
      <4>1. s.left = {}
        BY <1>6, <1>9, <2>1, <3>1
      <4>2. OnWire(s, off)' = {}
        BY <4>1 DEF OnWire
      <4>3. phase # "down"
        BY DEF SerialInv, MembersInv
      <4>4. Completed(log, new, Seen(r.target), {} \cup Unsent(r.target))
        BY <1>4, <1>13, <4>2, <4>3
      <4> QED BY <1>8, <3>1, <4>4
    <3>2. CASE x # r.target
      <4>1. \A q \in rpcs : q.target # x
        BY <1>9, <2>1, <3>2
      <4>2. x \in Targets
        BY DEF SerialInv, TypeOK
      <4> QED BY <1>8, <3>2, <4>1, <4>2 DEF SerialInv, MembersInv
    <3> QED BY <3>1, <3>2
  <2>2. IF phase' = "down" THEN members' = {} ELSE Configured \ Movable \subseteq members'
    BY <1>10 DEF SerialInv, MembersInv
  <2> QED BY <1>2, <1>10, <1>12, <2>1, <2>2 DEF MembersInv
<1>18. FillInv'
  <2>1. op = IdleOp => op' = IdleOp
    BY <1>10 DEF IdleOp
  <2>2. phase' = "down" => op' = IdleOp
    BY <1>10, <2>1 DEF SerialInv, FillInv
  <2>3. ASSUME op' # IdleOp
        PROVE  /\ op'.kind = "fill" /\ op'.snap = log'
               /\ op'.target \in members' \ op'.rest /\ op'.rest \subseteq members'
    BY <1>2, <1>10, <1>11, <2>1, <2>3 DEF SerialInv, FillInv
  <2>4. ASSUME op' # IdleOp, NEW q \in rpcs'
        PROVE  op'.awaits /\ q.id = OpRequest /\ \A o \in rpcs' : o = q
    <3>1. op.awaits /\ r.id = OpRequest /\ \A o \in rpcs : o = r
      BY <2>1, <2>4 DEF SerialInv, FillInv
    <3>2. rpcs' = {s} /\ op' = op
      BY <1>9, <2>4, <3>1
    <3> QED BY <1>6, <3>1, <3>2
  <2> QED BY <2>2, <2>3, <2>4 DEF FillInv
<1>19. HistoryInv'
  BY <1>2 DEF SerialInv, HistoryInv
<1> QED BY <1>16, <1>17, <1>18, <1>19 DEF SerialInv

(***************************************************************************)
(* The process starts, dies, and what it had sent may be lost.             *)
(***************************************************************************)
LEMMA StartSerial == ASSUME Lasting, SerialInv, TypeOK', Start PROVE SerialInv'
<1>1. /\ rpcs = {} /\ members' = Configured
      /\ filter' = [t \in Targets |-> IF t \in Configured THEN InitFilter[t] ELSE NoFilter]
      /\ dp' = [t \in Targets |-> IF t \in Configured THEN EmptyTable ELSE dp[t]]
      /\ UNCHANGED <<log, p4info, rpcs, waiting>>
  BY DEF Start, Lasting
<1>2. log \in Seq(Updates) /\ Configured \subseteq Targets
  BY TargetsAssumption DEF SerialInv, TypeOK
<1>3. HistoryInv'
  BY <1>1 DEF SerialInv, HistoryInv
<1>4. ASSUME NEW t \in Configured
      PROVE  /\ dp'[t] = EmptyTable
             /\ Seen(t)' = {e \in Entries : IsNamed(e, t) /\ IsAllowed(e, InitFilter[t])}
  BY <1>1, <1>2 DEF Seen
<1>5. ASSUME NEW t \in Configured, NEW P, P = {i \in DOMAIN log : log[i].entry \in Seen(t)'}
      PROVE  Completed(log, dp'[t], Seen(t)', P)
  BY <1>2, <1>4, <1>5, EmptyCompleted
<1>6. CASE p4info /\ Configured # {}
  <2>1. PICK t \in Configured :
          op' = FillCall(t, InitFilter[t], InitFilter[t], Configured \ {t}) /\ phase' = "starting"
    BY <1>6 DEF Start, Lasting
  <2>2. /\ op'.kind = "fill" /\ op'.target = t /\ op'.snap = log /\ op'.rest = Configured \ {t}
        /\ op'.left = {i \in DOMAIN log : log[i].entry \in Seen(t)'}
    BY <1>4, <2>1, FillSends
  <2>3. \A x \in Configured : Unsent(x)' = {i \in DOMAIN log : log[i].entry \in Seen(x)'}
    BY <1>1, <2>2 DEF Unsent
  <2>4. \A x \in members' : Completed(log', dp'[x], Seen(x)', Unsent(x)')
    BY <1>1, <1>5, <2>3
  <2>5. FillInv'
    BY <1>1, <2>1, <2>2 DEF FillInv
  <2>6. rpcs' = {} /\ phase' # "down" /\ Configured \ Movable \subseteq members'
    BY <1>1, <2>1
  <2> QED BY <1>3, <2>4, <2>5, <2>6, NoRpcsNext
<1>7. CASE ~(p4info /\ Configured # {})
  <2>1. op' = IdleOp /\ phase' = "up"
    BY <1>7 DEF Start
  <2>2. \A x \in members' : Completed(log', dp'[x], Seen(x)', {})
    <3>1. CASE ~p4info
      <4>1. log = <<>>
        BY <3>1 DEF SerialInv, HistoryInv
      <4>2. \A x \in Configured : {} = {i \in DOMAIN log : log[i].entry \in Seen(x)'}
        BY <4>1
      <4>3. \A x \in Configured : Completed(log, dp'[x], Seen(x)', {})
        BY <1>5, <4>2
      <4> QED BY <1>1, <4>3
    <3>2. CASE Configured = {}
      BY <1>1, <3>2
    <3> QED BY <1>7, <3>1, <3>2
  <2>3. rpcs' = {} /\ phase' # "down" /\ Configured \ Movable \subseteq members'
    BY <1>1, <2>1
  <2> QED BY <1>3, <2>1, <2>2, <2>3, QuietNext
<1> QED BY <1>6, <1>7

LEMMA CrashSerial == ASSUME SerialInv, TypeOK', Crash PROVE SerialInv'
<1>1. /\ phase # "down" /\ phase' = "down" /\ members' = {} /\ op' = IdleOp
      /\ UNCHANGED <<filter, log, p4info, rpcs, dp>>
  BY DEF Crash
<1>2. HistoryInv' /\ MembersInv' /\ FillInv'
  BY <1>1 DEF SerialInv, HistoryInv, MembersInv, FillInv
<1>3. /\ Taken(log) /\ Len(log) \in Nat /\ DOMAIN log = 1..Len(log)
  BY LenProperties DEF SerialInv, TypeOK, HistoryInv, Taken
<1>4. ASSUME NEW r \in rpcs PROVE \E off \in 0..Len(log) : OnTrack(r, off)'
  <2>1. PICK off \in 0..Len(log) : OnTrack(r, off)
    BY DEF SerialInv, WireInv
  <2> DEFINE L == OnWire(r, off)
             U == Unsent(r.target)
  <2>2. /\ \A j \in r.left : off + j \in DOMAIN log /\ r.updates[j] = log[off + j]
        /\ \A i \in L, k \in U : i < k
        /\ Completed(log, dp[r.target], Seen(r.target), L \cup U)
    BY <1>1, <2>1 DEF OnTrack
  <2>3. L \in SUBSET Int /\ U \in SUBSET Int
    BY <1>3, <2>2, UnsentLogged DEF OnWire
  <2>4. OnWire(r, off)' = L
    BY DEF OnWire
  <2> HIDE DEF L, U
  <2>5. Playable(log, dp[r.target], L \cup U)
    BY <1>3, <2>2, CompletedPlayable
  <2>6. Playable(log, dp[r.target], L)
    BY <1>3, <2>2, <2>3, <2>5, PlayableFirst
  <2> QED BY <1>1, <2>2, <2>4, <2>6 DEF OnTrack
<1>5. WireInv'
  BY <1>1, <1>4 DEF SerialInv, WireInv
<1> QED BY <1>2, <1>5 DEF SerialInv

\* Fewer RPCs of a dead process, or nothing new at all.
LEMMA LoseSerial == ASSUME SerialInv, TypeOK', NEW r \in rpcs, Lose(r) PROVE SerialInv'
<1>1. /\ phase = "down" /\ rpcs' = rpcs \ {r}
      /\ UNCHANGED <<phase, members, filter, log, p4info, waiting, op, dp>>
  BY DEF Lose
<1>2. HistoryInv' /\ MembersInv' /\ FillInv'
  BY <1>1 DEF SerialInv, HistoryInv, MembersInv, FillInv
<1>3. \A q \in rpcs' : \A off \in 0..Len(log) : OnTrack(q, off) => OnTrack(q, off)'
  BY <1>1 DEF OnTrack, OnWire
<1>4. WireInv'
  BY <1>1, <1>3 DEF SerialInv, WireInv
<1> QED BY <1>2, <1>4 DEF SerialInv

LEMMA StutterSerial == ASSUME SerialInv, TypeOK', UNCHANGED vars PROVE SerialInv'
<1>1. \A x : Seen(x)' = Seen(x) /\ Unsent(x)' = Unsent(x)
  BY DEF Seen, Unsent, vars
<1>2. HistoryInv' /\ MembersInv' /\ FillInv'
  BY <1>1 DEF SerialInv, HistoryInv, MembersInv, FillInv, vars
<1>3. \A q \in rpcs' : \A off \in 0..Len(log) : OnTrack(q, off) => OnTrack(q, off)'
  BY <1>1 DEF OnTrack, OnWire, vars
<1>4. WireInv'
  BY <1>3 DEF SerialInv, WireInv, vars
<1> QED BY <1>2, <1>4 DEF SerialInv

(***************************************************************************)
(* The invariant, and the two theorems.                                    *)
(***************************************************************************)
LEMMA InitSerial == Init => SerialInv
<1> SUFFICES ASSUME Init PROVE SerialInv
  OBVIOUS
<1>1. TypeOK
  BY InitTypeOK
<1>2. HistoryInv /\ WireInv /\ MembersInv /\ FillInv
  BY DEF Init, HistoryInv, WireInv, MembersInv, FillInv
<1> QED BY <1>1, <1>2 DEF SerialInv

LEMMA NextSerial == Lasting /\ SerialInv /\ [SerialNext]_vars => SerialInv'
<1> SUFFICES ASSUME Lasting, SerialInv, [SerialNext]_vars PROVE SerialInv'
  OBVIOUS
<1>0. TypeOK'
  BY SerialIsNext, NextTypeOK DEF SerialInv
<1>1. CASE Quiet /\ After(log) = EmptyTable /\ SetForwardingPipelineConfig
  BY <1>0, <1>1, SetPipelineSerial
<1>2. ASSUME Quiet, NEW c \in Controllers, NEW us \in TakenRequests, p4info, Write(c, us)
      PROVE  SerialInv'
  BY <1>0, <1>2, WriteSerial
<1>3. ASSUME Quiet, NEW t \in Movable, AddTarget(t, InitFilter[t]) PROVE SerialInv'
  BY <1>0, <1>3, AddTargetSerial
<1>4. ASSUME Quiet, NEW t \in Movable, RemoveTarget(t) PROVE SerialInv'
  BY <1>0, <1>4, RemoveTargetSerial
<1>5. ASSUME Quiet, NEW t \in Targets, NEW p \in Params, NEW vs \in SUBSET MatchValues,
             p \in DOMAIN filter[t], \A e \in Entries : p \in DOMAIN Match[e],
             AddFilterParams(t, [q \in {p} |-> vs])
      PROVE  SerialInv'
  BY <1>0, <1>5, AddFilterParamsSerial
<1>6. ASSUME NEW r \in rpcs, Apply(r) PROVE SerialInv'
  BY <1>0, <1>6, ApplySerial
<1>7. CASE OpSend
  BY <1>0, <1>7, OpSendSerial
<1>8. CASE OpDone
  BY <1>0, <1>8, OpDoneSerial
<1>9. CASE Start
  BY <1>0, <1>9, StartSerial
<1>10. CASE Crash
  BY <1>0, <1>10, CrashSerial
<1>11. ASSUME NEW r \in rpcs, Lose(r) PROVE SerialInv'
  BY <1>0, <1>11, LoseSerial
<1>12. CASE UNCHANGED vars
  BY <1>0, <1>12, StutterSerial
<1> QED
  BY <1>1, <1>2, <1>3, <1>4, <1>5, <1>6, <1>7, <1>8, <1>9, <1>10, <1>11, <1>12
     DEF SerialNext, InternalNext

\* When nothing is in progress every member holds exactly its view of the
\* history: what add_target_switch, the fill at start and the filter
\* operations replay arrives where the updates themselves arrived.
THEOREM MembersHoldTheirView == Lasting => (SerialSpec => []HoldsView)
<1> SUFFICES ASSUME Lasting PROVE SerialSpec => []HoldsView
  OBVIOUS
<1>1. SerialInv /\ [SerialNext]_vars => SerialInv'
  BY NextSerial
<1>2. SerialInv => HoldsView
  BY QuietState, CompletedIsView DEF HoldsView, View
<1> QED BY InitSerial, <1>1, <1>2, PTL DEF SerialSpec

\* No switch rejects an update, replayed or fresh, whatever crashed before.
THEOREM NothingIsRejected == Lasting => (SerialSpec => []ReplayAccepted)
<1> SUFFICES ASSUME Lasting PROVE SerialSpec => []ReplayAccepted
  OBVIOUS
<1>1. SerialInv /\ [SerialNext]_vars => SerialInv'
  BY NextSerial
<1>2. SerialInv => ReplayAccepted
  <2> SUFFICES ASSUME SerialInv, NEW r \in rpcs, NEW i \in r.left, IsFirst(i, r.left)
               PROVE  Accepts(dp[r.target], r.updates[i])
    BY DEF ReplayAccepted
  <2>1. PICK off \in 0..Len(log) : OnTrack(r, off)
    BY DEF SerialInv, WireInv
  <2> QED BY <2>1, FirstTaken
<1> QED BY InitSerial, <1>1, <1>2, PTL DEF SerialSpec

(***************************************************************************)
(* Inserts that overlap: no entry is lost, none goes astray and nothing is *)
(* rejected, for any number of targets, entries, fields, controllers and   *)
(* requests: InsertInv is inductive under InsertNext.  From it, the proxy  *)
(* implements the virtual device.                                          *)
(***************************************************************************)
(***************************************************************************)
(* The load is a use of the proxy, so its states are of the right types.   *)
(***************************************************************************)
LEMMA InsertNextIsNext == InsertNext => Next
<1> SUFFICES ASSUME InsertNext PROVE Next
  OBVIOUS
<1>1. ASSUME NEW p \in Params, NEW vs \in SUBSET MatchValues
      PROVE  [q \in {p} |-> vs] \in Filters
  <2>1. {p} \in SUBSET Params /\ [q \in {p} |-> vs] \in [{p} -> SUBSET MatchValues]
    OBVIOUS
  <2> QED BY <2>1, FilterIntro
<1>2. \A t \in Targets : InitFilter[t] \in Filters
  BY TargetsAssumption
<1> QED BY <1>1, <1>2 DEF InsertNext, Next, InsertRequests

LEMMA InsertTypeOK == TypeOK /\ [InsertNext]_vars => TypeOK'
BY InsertNextIsNext, NextTypeOK

(***************************************************************************)
(* The consequences.                                                       *)
(***************************************************************************)
LEMMA InvNothingRejected == InsertInv => NothingRejected
<1> SUFFICES ASSUME InsertInv, NEW r \in rpcs, NEW i \in r.left
             PROVE  Accepts(dp[r.target], r.updates[i])
  BY DEF NothingRejected
<1> QED BY DEF InsertInv, RpcInv, Installed, Accepts

LEMMA InvConverged == InsertInv => Converged
<1> SUFFICES ASSUME InsertInv, rpcs = {}, op = IdleOp,
                    NEW t \in members, NEW e \in Entries
             PROVE  Installed(t, e) <=> Wants(t, e)
  BY DEF Converged
<1>1. ~Filling(t, e) /\ ~Withdrawing(t, e) /\ InFlight(t, e) = {}
  BY DEF Filling, Withdrawing, InFlight, IdleOp
<1> QED BY <1>1 DEF InsertInv, NoLoss, NoIntruder

(***************************************************************************)
(* Steps that leave the switches and what is under way alone.              *)
(***************************************************************************)
LEMMA InitInsertInv == Init => InsertInv
<1> SUFFICES ASSUME Init PROVE InsertInv
  OBVIOUS
<1>1. LogInv
  BY DEF Init, LogInv
<1>2. RpcInv
  BY DEF Init, RpcInv
<1>3. OpInv
  BY DEF Init, OpInv, IdleOp
<1>4. PhaseInv
  BY DEF Init, PhaseInv, IdleOp
<1>5. NoLoss /\ NoIntruder
  BY DEF Init, NoLoss, NoIntruder
<1> QED BY <1>1, <1>2, <1>3, <1>4, <1>5, InitTypeOK DEF InsertInv

LEMMA StepCrash == ASSUME InsertInv, Crash PROVE InsertInv'
<1> USE DEF Crash
<1>0. TypeOK'
  BY InsertTypeOK DEF InsertInv, InsertNext
<1>1. LogInv'
  BY DEF InsertInv, LogInv
<1>2. RpcInv'
  BY DEF InsertInv, RpcInv, Logged, Installed
<1>3. OpInv'
  BY DEF OpInv, IdleOp
<1>4. PhaseInv'
  BY DEF PhaseInv, IdleOp
<1>5. NoLoss' /\ NoIntruder'
  BY DEF NoLoss, NoIntruder
<1> QED BY <1>0, <1>1, <1>2, <1>3, <1>4, <1>5 DEF InsertInv

LEMMA StepLose == ASSUME InsertInv, NEW r \in rpcs, Lose(r) PROVE InsertInv'
<1> USE DEF Lose
<1>0. TypeOK'
  BY InsertTypeOK DEF InsertInv, InsertNext
<1>1. LogInv'
  BY DEF InsertInv, LogInv
<1>2. RpcInv'
  BY DEF InsertInv, RpcInv, Logged, Installed
<1>3. op = IdleOp /\ members = {}
  BY DEF InsertInv, PhaseInv
<1>4. OpInv'
  BY <1>3 DEF OpInv, IdleOp
<1>5. PhaseInv'
  BY DEF InsertInv, PhaseInv
<1>6. NoLoss' /\ NoIntruder'
  BY <1>3 DEF NoLoss, NoIntruder
<1> QED BY <1>0, <1>1, <1>2, <1>4, <1>5, <1>6 DEF InsertInv

LEMMA StepReconfigure ==
  ASSUME InsertInv, ~p4info, SetForwardingPipelineConfig PROVE InsertInv'
<1> USE DEF SetForwardingPipelineConfig
<1>0. TypeOK'
  BY InsertTypeOK DEF InsertInv, InsertNext
<1>1. log' = log
  BY DEF InsertInv, LogInv
<1>2. LogInv'
  BY <1>1 DEF InsertInv, LogInv
<1>3. RpcInv'
  BY <1>1 DEF InsertInv, RpcInv, Logged, Installed
<1>4. OpInv'
  BY <1>1 DEF InsertInv, OpInv, Logged, Installed, Carried
<1>5. PhaseInv'
  BY DEF InsertInv, PhaseInv
<1>6. NoLoss' /\ NoIntruder'
  BY <1>1 DEF InsertInv, NoLoss, NoIntruder, Wants, Logged, Installed, InFlight,
              Filling, Withdrawing
<1> QED BY <1>0, <1>2, <1>3, <1>4, <1>5, <1>6 DEF InsertInv

LEMMA StepRemoveTarget ==
  ASSUME InsertInv, NEW t \in Targets, RemoveTarget(t) PROVE InsertInv'
<1> USE DEF RemoveTarget
<1>0. TypeOK'
  BY InsertTypeOK DEF InsertInv, InsertNext
<1>1. LogInv'
  BY DEF InsertInv, LogInv
<1>2. \A r \in rpcs : r.id # OpRequest
  BY DEF InsertInv, RpcInv, IdleOp
<1>3. RpcInv'
  BY <1>2 DEF InsertInv, RpcInv, Logged, Installed
<1>4. OpInv'
  BY DEF OpInv, IdleOp
<1>5. PhaseInv'
  BY DEF InsertInv, PhaseInv, IdleOp
<1>6. \A s \in members' : s \in members /\ filter'[s] = filter[s]
  BY DEF InsertInv, TypeOK
<1>7. NoLoss' /\ NoIntruder'
  BY <1>6 DEF InsertInv, NoLoss, NoIntruder, Wants, Logged, Installed, InFlight,
              Filling, Withdrawing
<1> QED BY <1>0, <1>1, <1>3, <1>4, <1>5, <1>7 DEF InsertInv

LEMMA StepStutter == ASSUME InsertInv, UNCHANGED vars PROVE InsertInv'
<1> USE DEF vars
<1>0. TypeOK'
  BY InsertTypeOK DEF InsertInv
<1>1. LogInv' /\ PhaseInv'
  BY DEF InsertInv, LogInv, PhaseInv
<1>2. RpcInv'
  BY DEF InsertInv, RpcInv, Logged, Installed
<1>3. OpInv'
  BY DEF InsertInv, OpInv, Logged, Installed, Carried
<1>4. NoLoss' /\ NoIntruder'
  BY DEF InsertInv, NoLoss, NoIntruder, Wants, Logged, Installed, InFlight, Filling,
         Withdrawing
<1> QED BY <1>0, <1>1, <1>2, <1>3, <1>4 DEF InsertInv

(***************************************************************************)
(* Write: the request's entries are new to everyone.                       *)
(***************************************************************************)
\* With replicas only, routing leaves the choice to the filters.
LEMMA RoutedToAll ==
  ASSUME TypeOK, NEW e \in Entries PROVE Routed(e) = members
<1>1. \A t \in members : IsNamed(e, t)
  BY Replicas, EntriesAssumption DEF TypeOK, IsNamed
<1> QED BY <1>1 DEF Routed

\* What was never logged is in no member's table.
LEMMA UnloggedIsAbsent ==
  ASSUME InsertInv, phase # "down", NEW t \in members, NEW e \in Entries, e \notin Logged
  PROVE  ~Installed(t, e)
<1>1. ~Wants(t, e)
  BY DEF Wants
<1>2. ~Withdrawing(t, e)
  <2>1. \A i \in op.left : op.snap[i].entry \in Logged
    BY DEF InsertInv, OpInv
  <2>2. \A r \in rpcs : r.id = OpRequest => r.updates[1].entry \in Logged
    BY DEF InsertInv, RpcInv
  <2> QED BY <2>1, <2>2 DEF Withdrawing
<1> QED BY <1>1, <1>2 DEF InsertInv, NoIntruder

LEMMA StepWrite ==
  ASSUME InsertInv, p4info, NEW c \in Controllers, NEW us \in InsertRequests, Write(c, us)
  PROVE  InsertInv'
<1>0. TypeOK'
  BY InsertTypeOK DEF InsertInv, InsertNext
<1>1. /\ us \in Seq(Updates) /\ DOMAIN us = 1..Len(us) /\ Len(us) \in Nat
      /\ \A i \in DOMAIN us : us[i] \in Updates /\ us[i].entry \in Entries
      /\ \A i \in DOMAIN us : us[i].type = "INSERT" /\ us[i].entry \notin Logged
      /\ \A i, j \in DOMAIN us : us[i].entry = us[j].entry => i = j
  BY RequestType DEF InsertRequests, Updates
<1>2. log \in Seq(Updates) /\ members \subseteq Targets /\ phase = "up"
  BY DEF InsertInv, TypeOK, Write
<1>3. log' = log \o us
  BY Replicas DEF Write
<1>4. /\ \A i \in DOMAIN log : i \in DOMAIN log' /\ log'[i] = log[i]
      /\ \A i \in DOMAIN us : Len(log) + i \in DOMAIN log' /\ log'[Len(log) + i] = us[i]
      /\ \A k \in DOMAIN log' : k \in DOMAIN log
                              \/ (k - Len(log) \in DOMAIN us /\ log'[k] = us[k - Len(log)])
  BY <1>1, <1>2, <1>3
<1>5. Logged' = Logged \cup {us[i].entry : i \in DOMAIN us}
  BY <1>4 DEF Logged
<1>6. PICK id \in RpcIds :
        rpcs' = rpcs \cup {WriteRpc(id, t, us, Share(us, t)) :
                             t \in {t \in members : Share(us, t) # {}}}
  BY DEF Write, Reached
<1>7. /\ phase' = phase /\ members' = members /\ filter' = filter /\ p4info' = p4info
      /\ op' = op /\ dp' = dp
  BY DEF Write
<1>8. ASSUME NEW q \in rpcs', q \notin rpcs
      PROVE  /\ q.target \in members /\ q.updates = us /\ q.ok /\ q.id = id
             /\ q.left = Share(us, q.target)
             /\ q = WriteRpc(id, q.target, us, Share(us, q.target))
  BY <1>6, <1>8 DEF WriteRpc
<1>9. \A t \in members, i \in DOMAIN us :
         i \in Share(us, t) <=> IsAllowed(us[i].entry, filter[t])
  BY <1>1, RoutedToAll DEF Share, Destinations, InsertInv
<1>10. \A t \in members : Share(us, t) \subseteq DOMAIN us
  BY DEF Share
<1>11. id # OpRequest
  BY BoundsAssumption DEF OpRequest
<1>12. LogInv'
  <2>1. \A k \in DOMAIN log' : log'[k].type = "INSERT"
    BY <1>1, <1>4 DEF InsertInv, LogInv
  <2>2. ASSUME NEW k \in DOMAIN log', NEW l \in DOMAIN log', log'[k].entry = log'[l].entry
        PROVE  k = l
    <3>1. k \in DOMAIN log => l \in DOMAIN log
      BY <2>2, <1>1, <1>4 DEF Logged
    <3>2. l \in DOMAIN log => k \in DOMAIN log
      BY <2>2, <1>1, <1>4 DEF Logged
    <3>3. CASE k \in DOMAIN log /\ l \in DOMAIN log
      BY <3>3, <2>2, <1>4 DEF InsertInv, LogInv
    <3>4. CASE k \notin DOMAIN log /\ l \notin DOMAIN log
      <4>1. k - Len(log) = l - Len(log)
        BY <3>4, <2>2, <1>1, <1>4
      <4>2. k \in Int /\ l \in Int /\ Len(log) \in Int
        BY <1>2, <1>0 DEF TypeOK
      <4> QED BY <4>1, <4>2
    <3> QED BY <3>1, <3>2, <3>3, <3>4
  <2> QED BY <2>1, <2>2, <1>7 DEF LogInv
<1>13. ASSUME NEW q \in rpcs', q \notin rpcs, NEW i \in q.left
       PROVE  /\ q.updates[i].entry \in Logged' /\ q.updates[i].type = "INSERT"
              /\ ~Installed(q.target, q.updates[i].entry)
              /\ q.updates[i].entry \notin Logged
  BY <1>1, <1>2, <1>5, <1>8, <1>10, <1>13, UnloggedIsAbsent
<1>14. RpcInv'
  <2>1. ASSUME NEW q \in rpcs', NEW i \in q.left
        PROVE  LET e == q.updates[i].entry IN
               /\ e \in Logged'
               /\ \/ q.updates[i].type = "INSERT" /\ ~Installed(q.target, e)'
                  \/ /\ q.updates[i].type = "DELETE" /\ Installed(q.target, e)'
                     /\ q.id = OpRequest
                     /\ phase' # "down" => op'.kind = "withdraw"
                                             /\ ~IsAllowed(e, filter'[q.target])
    <3>1. CASE q \in rpcs
      BY <3>1, <1>5, <1>7 DEF InsertInv, RpcInv, Installed
    <3>2. CASE q \notin rpcs
      BY <3>2, <1>7, <1>13 DEF Installed
    <3> QED BY <3>1, <3>2
  <2>2. ASSUME NEW r \in rpcs', NEW q \in rpcs', NEW i \in r.left, NEW j \in q.left,
               r.target = q.target, r.updates[i].entry = q.updates[j].entry
        PROVE  r = q /\ i = j
    <3>1. \A o \in rpcs : \A k \in o.left : o.updates[k].entry \in Logged
      BY DEF InsertInv, RpcInv
    <3>2. CASE r \in rpcs /\ q \in rpcs
      BY <3>2, <2>2 DEF InsertInv, RpcInv
    <3>3. CASE r \notin rpcs /\ q \notin rpcs
      BY <3>3, <2>2, <1>1, <1>8, <1>10
    <3> QED BY <3>1, <3>2, <3>3, <2>2, <1>13
  <2>3. \A q \in rpcs' : q.ok
    BY <1>8 DEF InsertInv, RpcInv
  <2>4. \A q \in rpcs' : q.id = OpRequest => q \in rpcs
    BY <1>8, <1>11
  <2>5. phase' # "down" => \A r \in rpcs' : r.id = OpRequest =>
          /\ op'.awaits /\ r.target = op'.target /\ r.left = {1}
          /\ op'.kind = "withdraw" => r.updates[1].type = "DELETE"
          /\ \A q \in rpcs' : q.id = OpRequest => q = r
    BY <2>4, <1>7 DEF InsertInv, RpcInv
  <2> QED BY <2>1, <2>2, <2>3, <2>5 DEF RpcInv
<1>15. OpInv'
  <2>1. op.rest = {}
    BY <1>2 DEF InsertInv, PhaseInv
  <2>2. ASSUME NEW i \in op.left PROVE ~Carried(op.target, op.snap[i].entry)'
    <3>1. op.snap[i].entry \in Logged /\ ~Carried(op.target, op.snap[i].entry)
      BY DEF InsertInv, OpInv
    <3> QED BY <3>1, <1>13, <1>7 DEF Carried
  <2> QED BY <2>1, <2>2, <1>5, <1>7 DEF InsertInv, OpInv, Installed
<1>16. PhaseInv'
  BY <1>7 DEF InsertInv, PhaseInv
<1>17. NoLoss'
  <2> SUFFICES ASSUME NEW t \in members, NEW e \in Entries, Wants(t, e)'
               PROVE  Installed(t, e)' \/ InFlight(t, e)' # {} \/ Filling(t, e)'
    BY <1>7 DEF NoLoss
  <2>1. CASE e \in Logged
    <3>1. Installed(t, e) \/ InFlight(t, e) # {} \/ Filling(t, e)
      BY <2>1, <1>7 DEF InsertInv, NoLoss, Wants
    <3>2. InFlight(t, e) \subseteq InFlight(t, e)'
      BY <1>6 DEF InFlight
    <3> QED BY <3>1, <3>2, <1>7 DEF Installed, Filling
  <2>2. CASE e \notin Logged
    <3>1. PICK i \in DOMAIN us : us[i].entry = e
      BY <2>2, <1>5 DEF Wants
    <3>2. i \in Share(us, t)
      BY <3>1, <1>7, <1>9 DEF Wants
    <3>3. WriteRpc(id, t, us, Share(us, t)) \in InFlight(t, e)'
      BY <3>1, <3>2, <1>1, <1>6 DEF InFlight, WriteRpc
    <3> QED BY <3>3
  <2> QED BY <2>1, <2>2
<1>18. NoIntruder'
  <2> SUFFICES ASSUME NEW t \in members, NEW e \in Entries,
                      Installed(t, e)' \/ InFlight(t, e)' # {}
               PROVE  Wants(t, e)' \/ Withdrawing(t, e)'
    BY <1>7 DEF NoIntruder
  <2>1. CASE Installed(t, e) \/ InFlight(t, e) # {}
    <3>1. Wants(t, e) \/ Withdrawing(t, e)
      BY <2>1 DEF InsertInv, NoIntruder
    <3> QED BY <3>1, <1>5, <1>6, <1>7 DEF Wants, Withdrawing
  <2>2. CASE ~Installed(t, e) /\ InFlight(t, e) = {}
    <3>1. PICK q \in rpcs' : q.target = t /\ \E i \in q.left : q.updates[i].entry = e
                                            /\ q.updates[i].type = "INSERT"
      BY <2>2, <1>7 DEF InFlight, Installed
    <3>2. q \notin rpcs
      BY <2>2, <3>1 DEF InFlight
    <3> QED BY <3>1, <3>2, <1>7, <1>8, <1>9, <1>10, <1>13 DEF Wants
  <2> QED BY <2>1, <2>2
<1> QED BY <1>0, <1>12, <1>14, <1>15, <1>16, <1>17, <1>18 DEF InsertInv

(***************************************************************************)
(* The operator's calls start when no other is in progress: then nothing   *)
(* is being filled or withdrawn, and all that is in flight is INSERTs.     *)
(***************************************************************************)
LEMMA IdleFacts ==
  ASSUME InsertInv, phase # "down", op = IdleOp, NEW t \in members, NEW e \in Entries
  PROVE  /\ ~Filling(t, e) /\ ~Withdrawing(t, e)
         /\ Carried(t, e) => InFlight(t, e) # {}
<1>1. \A r \in rpcs : r.id # OpRequest
  BY DEF InsertInv, RpcInv, IdleOp
<1>2. ~Filling(t, e) /\ ~Withdrawing(t, e)
  BY <1>1 DEF Filling, Withdrawing, IdleOp
<1>3. ASSUME Carried(t, e) PROVE InFlight(t, e) # {}
  <2>1. PICK r \in rpcs : r.target = t /\ \E i \in r.left : r.updates[i].entry = e
    BY <1>3 DEF Carried
  <2>2. \A i \in r.left : r.updates[i].type = "INSERT"
    BY <1>1 DEF InsertInv, RpcInv
  <2> QED BY <2>1, <2>2 DEF InFlight
<1> QED BY <1>2, <1>3

\* The updates a call over the log is to send.
LEMMA CallForLeft ==
  ASSUME InsertInv, NEW o, NEW kind, NEW t, NEW es, NEW rest, o = CallFor(kind, t, es, rest)
  PROVE  /\ o.kind = kind /\ o.target = t /\ o.rest = rest /\ ~o.awaits
         /\ \A i \in o.left : /\ o.snap[i].entry \in es /\ o.snap[i].entry \in Logged
                              /\ o.snap[i].entry \in Entries
                              /\ o.snap[i].type = "INSERT"
         /\ \A i, j \in o.left : o.snap[i].entry = o.snap[j].entry => i = j
         /\ \A e \in Logged \cap es : \E i \in o.left : o.snap[i].entry = e
<1>1. \A i \in DOMAIN log : log[i].entry \in Entries
  BY DEF InsertInv, TypeOK, Updates
<1> QED BY <1>1 DEF CallFor, InsertInv, LogInv, Logged

LEMMA StepAddTarget ==
  ASSUME InsertInv, NEW t \in Targets, \A r \in rpcs : r.target # t,
         AddTarget(t, InitFilter[t])
  PROVE  InsertInv'
<1> DEFINE f == InitFilter[t]
<1>0. TypeOK'
  BY InsertTypeOK DEF InsertInv, InsertNext
<1>1. /\ phase = "up" /\ op = IdleOp /\ t \notin members /\ members' = members \cup {t}
      /\ phase' = phase /\ log' = log /\ p4info' = p4info /\ rpcs' = rpcs
      /\ filter'[t] = f /\ (\A s \in Targets \ {t} : filter'[s] = filter[s])
      /\ dp'[t] = EmptyTable /\ (\A s \in Targets \ {t} : dp'[s] = dp[s])
      /\ op' = IF p4info THEN FillCall(t, f, f, {}) ELSE IdleOp
  BY Replicas DEF AddTarget, InsertInv, TypeOK
<1>2. \A e \in Entries : ~Installed(t, e)' /\ ~Carried(t, e) /\ InFlight(t, e) = {}
  BY <1>1 DEF Installed, EmptyTable, Carried, InFlight
<1>3. \A r \in rpcs : r.target \in Targets \ {t}
  BY DEF InsertInv, TypeOK
<1>4. \A r \in rpcs : r.id # OpRequest
  BY <1>1 DEF InsertInv, RpcInv, IdleOp
<1>5. members \subseteq Targets \ {t}
  BY <1>1 DEF InsertInv, TypeOK
<1>6. LogInv'
  BY <1>1 DEF InsertInv, LogInv
<1>7. RpcInv'
  BY <1>1, <1>3, <1>4 DEF InsertInv, RpcInv, Logged, Installed
<1>8. \A e \in Entries : IsNamed(e, t)
  BY Replicas, EntriesAssumption DEF IsNamed
<1> DEFINE es == {e \in Entries : IsAllowed(e, f)}
<1>9. p4info => op' = CallFor("fill", t, es, {})
  BY <1>1, <1>8 DEF FillCall
<1>a. \A e : e \in es <=> e \in Entries /\ IsAllowed(e, f)
  OBVIOUS
<1> HIDE DEF es
<1>10. OpInv'
  <2>1. CASE p4info
    <3>1. /\ op'.kind = "fill" /\ op'.target = t /\ op'.rest = {}
          /\ \A i \in op'.left : op'.snap[i].entry \in es /\ op'.snap[i].entry \in Logged
                                /\ op'.snap[i].type = "INSERT"
          /\ \A i, j \in op'.left : op'.snap[i].entry = op'.snap[j].entry => i = j
      BY <2>1, <1>9, CallForLeft
    <3> QED BY <3>1, <1>1, <1>2, <1>a DEF OpInv, Logged, Carried
  <2>2. CASE ~p4info
    BY <2>2, <1>1 DEF OpInv, IdleOp
  <2> QED BY <2>1, <2>2
<1>11. op'.kind # "withdraw" /\ op'.rest = {}
  BY <1>1 DEF IdleOp, FillCall, CallFor
<1>12. PhaseInv'
  BY <1>1, <1>11 DEF PhaseInv
<1>13. NoLoss'
  <2> SUFFICES ASSUME NEW s \in members \cup {t}, NEW e \in Entries, Wants(s, e)'
               PROVE  Installed(s, e)' \/ InFlight(s, e)' # {} \/ Filling(s, e)'
    BY <1>1 DEF NoLoss
  <2>1. CASE s = t
    <3>1. e \in Logged /\ IsAllowed(e, f)
      BY <2>1, <1>1 DEF Wants, Logged
    <3>2. p4info
      BY <3>1 DEF InsertInv, LogInv, Logged
    <3>3. op'.kind = "fill" /\ op'.target = t /\ \E i \in op'.left : op'.snap[i].entry = e
      BY <3>1, <3>2, <1>9, <1>a, CallForLeft
    <3> QED BY <2>1, <3>3 DEF Filling
  <2>2. CASE s # t
    <3>1. Wants(s, e) /\ ~Filling(s, e)
      BY <2>2, <1>1, <1>5, IdleFacts DEF Wants, Logged
    <3>2. Installed(s, e) \/ InFlight(s, e) # {}
      BY <2>2, <3>1 DEF InsertInv, NoLoss
    <3> QED BY <3>2, <2>2, <1>1, <1>5 DEF Installed, InFlight
  <2> QED BY <2>1, <2>2
<1>14. NoIntruder'
  <2> SUFFICES ASSUME NEW s \in members \cup {t}, NEW e \in Entries,
                      Installed(s, e)' \/ InFlight(s, e)' # {}
               PROVE  Wants(s, e)'
    BY <1>1 DEF NoIntruder
  <2>1. s # t
    BY <1>1, <1>2 DEF InFlight
  <2>2. Installed(s, e) \/ InFlight(s, e) # {}
    BY <2>1, <1>1, <1>5 DEF Installed, InFlight
  <2>3. Wants(s, e)
    BY <2>1, <2>2, <1>1, IdleFacts DEF InsertInv, NoIntruder
  <2> QED BY <2>1, <2>3, <1>1, <1>5 DEF Wants, Logged
<1> QED BY <1>0, <1>6, <1>7, <1>10, <1>12, <1>13, <1>14 DEF InsertInv

\* Extending a restricted field allows more, and NewlyAdded tells what.
LEMMA ExtendedAllows ==
  ASSUME NEW f \in Filters, NEW p \in DOMAIN f, NEW vs \in SUBSET MatchValues,
         NEW e \in Entries, p \in DOMAIN Match[e],
         NEW adds, adds = [q \in {p} |-> vs]
  PROVE  /\ IsAllowed(e, f) => IsAllowed(e, Extended(f, adds))
         /\ IsAllowed(e, Extended(f, adds)) /\ ~IsAllowed(e, f)
              => IsAllowed(e, NewlyAdded(f, adds))
         /\ IsAllowed(e, NewlyAdded(f, adds)) => ~IsAllowed(e, f)
<1> DEFINE g    == Extended(f, adds)
           n    == NewlyAdded(f, adds)
<1>1. /\ DOMAIN g = DOMAIN f /\ g[p] = f[p] \cup vs
      /\ \A q \in DOMAIN f : q # p => g[q] = f[q]
  BY DEF Extended
<1>2. DOMAIN n = {p} /\ n[p] = vs \ f[p]
  BY DEF NewlyAdded
<1> HIDE DEF g, n
<1>3. IsAllowed(e, f) => IsAllowed(e, g)
  BY <1>1 DEF IsAllowed
<1>4. IsAllowed(e, g) /\ ~IsAllowed(e, f) => IsAllowed(e, n)
  BY <1>1, <1>2 DEF IsAllowed
<1>5. IsAllowed(e, n) => ~IsAllowed(e, f)
  BY <1>2 DEF IsAllowed
<1> QED BY <1>3, <1>4, <1>5 DEF g, n

LEMMA StepAddFilterParams ==
  ASSUME InsertInv, NEW t \in Targets, NEW p \in DOMAIN filter[t],
         NEW vs \in SUBSET MatchValues, \A e \in Entries : p \in DOMAIN Match[e],
         AddFilterParams(t, [q \in {p} |-> vs])
  PROVE  InsertInv'
<1> DEFINE f  == filter[t]
           adds == [q \in {p} |-> vs]
           g  == Extended(f, adds)
           n  == NewlyAdded(f, adds)
           es == {e \in Entries : IsAllowed(e, n) /\ IsAllowed(e, g)}
<1>0. TypeOK' /\ f \in Filters
  <2>1. p \in Params
    BY FilterElim DEF InsertInv, TypeOK
  <2>2. InsertNext
    BY <2>1 DEF InsertNext
  <2> QED BY <2>2, InsertTypeOK DEF InsertInv, TypeOK
<1>1. /\ phase = "up" /\ op = IdleOp /\ t \in members /\ members' = members
      /\ phase' = phase /\ log' = log /\ p4info' = p4info /\ rpcs' = rpcs /\ dp' = dp
      /\ filter'[t] = g /\ (\A s \in Targets \ {t} : filter'[s] = filter[s])
      /\ op' = IF p4info THEN FillCall(t, n, g, {}) ELSE IdleOp
  BY DEF AddFilterParams, InsertInv, TypeOK
<1>2. \A e \in Entries : IsNamed(e, t)
  BY Replicas, EntriesAssumption DEF IsNamed
<1>3. p4info => op' = CallFor("fill", t, es, {})
  BY <1>1, <1>2 DEF FillCall
<1>4. \A e \in Entries : /\ IsAllowed(e, f) => IsAllowed(e, g)
                         /\ IsAllowed(e, g) /\ ~IsAllowed(e, f) => e \in es
                         /\ e \in es => ~IsAllowed(e, f) /\ IsAllowed(e, g)
  <2> SUFFICES ASSUME NEW e \in Entries
               PROVE  /\ IsAllowed(e, f) => IsAllowed(e, g)
                      /\ IsAllowed(e, g) /\ ~IsAllowed(e, f) => IsAllowed(e, n)
                      /\ IsAllowed(e, n) => ~IsAllowed(e, f)
    OBVIOUS
  <2> HIDE DEF f, adds
  <2> QED BY <1>0, ExtendedAllows DEF f, adds
<1> HIDE DEF g, n, es
<1>5. members \subseteq Targets
  BY DEF InsertInv, TypeOK
<1>6. \A r \in rpcs : r.id # OpRequest
  BY <1>1 DEF InsertInv, RpcInv, IdleOp
<1>7. LogInv'
  BY <1>1 DEF InsertInv, LogInv
<1>8. RpcInv'
  BY <1>1, <1>6 DEF InsertInv, RpcInv, Logged, Installed
<1>9. op'.kind # "withdraw" /\ op'.rest = {}
  BY <1>1 DEF IdleOp, FillCall, CallFor
<1>10. PhaseInv'
  BY <1>1, <1>9 DEF PhaseInv
<1>11. \A e \in Entries : ~IsAllowed(e, f) => ~Installed(t, e) /\ ~Carried(t, e)
  BY <1>1, IdleFacts DEF InsertInv, NoIntruder, Wants
<1>12. OpInv'
  <2>1. CASE p4info
    <3>1. /\ op'.kind = "fill" /\ op'.target = t /\ op'.rest = {}
          /\ \A i \in op'.left : op'.snap[i].entry \in es /\ op'.snap[i].entry \in Logged
                                /\ op'.snap[i].type = "INSERT"
                                /\ op'.snap[i].entry \in Entries
          /\ \A i, j \in op'.left : op'.snap[i].entry = op'.snap[j].entry => i = j
      BY <2>1, <1>3, CallForLeft
    <3> QED BY <3>1, <1>1, <1>4, <1>11 DEF OpInv, Logged, Carried, Installed
  <2>2. CASE ~p4info
    BY <2>2, <1>1 DEF OpInv, IdleOp
  <2> QED BY <2>1, <2>2
<1>13. NoLoss'
  <2> SUFFICES ASSUME NEW s \in members, NEW e \in Entries, Wants(s, e)'
               PROVE  Installed(s, e)' \/ InFlight(s, e)' # {} \/ Filling(s, e)'
    BY <1>1 DEF NoLoss
  <2>1. CASE Wants(s, e)
    <3>1. Installed(s, e) \/ InFlight(s, e) # {}
      BY <2>1, <1>1, IdleFacts DEF InsertInv, NoLoss
    <3> QED BY <3>1, <1>1 DEF Installed, InFlight
  <2>2. CASE ~Wants(s, e)
    <3>1. s = t /\ e \in Logged /\ e \in es
      BY <2>2, <1>1, <1>4, <1>5 DEF Wants, Logged
    <3>2. p4info
      BY <3>1 DEF InsertInv, LogInv, Logged
    <3>3. op'.kind = "fill" /\ op'.target = t /\ \E i \in op'.left : op'.snap[i].entry = e
      BY <3>1, <3>2, <1>3, CallForLeft
    <3> QED BY <3>1, <3>3 DEF Filling
  <2> QED BY <2>1, <2>2
<1>14. NoIntruder'
  <2> SUFFICES ASSUME NEW s \in members, NEW e \in Entries,
                      Installed(s, e)' \/ InFlight(s, e)' # {}
               PROVE  Wants(s, e)'
    BY <1>1 DEF NoIntruder
  <2>1. Wants(s, e)
    BY <1>1, IdleFacts DEF InsertInv, NoIntruder, Installed, InFlight
  <2> QED BY <2>1, <1>1, <1>4, <1>5 DEF Wants, Logged
<1> QED BY <1>0, <1>7, <1>8, <1>10, <1>12, <1>13, <1>14 DEF InsertInv

\* Shrinking a filter allows nothing more.
LEMMA ShrunkAllows ==
  ASSUME NEW f \in Filters, NEW removes \in Filters, NEW e \in Entries,
         IsAllowed(e, Shrunk(f, removes))
  PROVE  IsAllowed(e, f)
BY DEF IsAllowed, Shrunk

LEMMA StepRemoveFilterParams ==
  ASSUME InsertInv, NEW t \in Targets, NEW removes \in Filters,
         \A e \in Entries : IsAllowed(e, Shrunk(filter[t], removes)) \/ InFlight(t, e) = {},
         RemoveFilterParams(t, removes)
  PROVE  InsertInv'
<1> DEFINE f  == filter[t]
           g  == Shrunk(f, removes)
           es == {e \in Entries : IsNamed(e, t) /\ IsAllowed(e, f) /\ ~IsAllowed(e, g)}
<1>0. TypeOK' /\ f \in Filters
  BY InsertTypeOK DEF InsertInv, InsertNext, TypeOK
<1>1. /\ phase = "up" /\ op = IdleOp /\ t \in members /\ members' = members
      /\ phase' = phase /\ log' = log /\ p4info' = p4info /\ rpcs' = rpcs /\ dp' = dp
      /\ filter'[t] = g /\ (\A s \in Targets \ {t} : filter'[s] = filter[s])
      /\ op' = IF p4info THEN CallFor("withdraw", t, es, {}) ELSE IdleOp
  BY DEF RemoveFilterParams, InsertInv, TypeOK
<1>2. \A e \in Entries : IsNamed(e, t)
  BY Replicas, EntriesAssumption DEF IsNamed
<1>3. \A e \in Entries : /\ IsAllowed(e, g) => IsAllowed(e, f)
                         /\ IsAllowed(e, f) /\ ~IsAllowed(e, g) <=> e \in es
                         /\ e \in es => InFlight(t, e) = {}
  BY <1>0, <1>2, ShrunkAllows
<1> HIDE DEF g, es
<1>5. members \subseteq Targets
  BY DEF InsertInv, TypeOK
<1>6. \A r \in rpcs : r.id # OpRequest
  BY <1>1 DEF InsertInv, RpcInv, IdleOp
<1>7. LogInv'
  BY <1>1 DEF InsertInv, LogInv
<1>8. RpcInv'
  BY <1>1, <1>6 DEF InsertInv, RpcInv, Logged, Installed
<1>9. op'.kind # "fill" /\ op'.rest = {}
  BY <1>1 DEF IdleOp, CallFor
<1>10. PhaseInv'
  BY <1>1, <1>9 DEF PhaseInv
<1>11. \A e \in Logged \cap es \cap Entries : Installed(t, e) /\ ~Carried(t, e)
  BY <1>1, <1>3, IdleFacts DEF InsertInv, NoLoss, Wants
<1>12. OpInv'
  <2>1. CASE p4info
    <3>1. /\ op'.kind = "withdraw" /\ op'.target = t /\ op'.rest = {}
          /\ \A i \in op'.left : op'.snap[i].entry \in es /\ op'.snap[i].entry \in Logged
                                /\ op'.snap[i].type = "INSERT"
                                /\ op'.snap[i].entry \in Entries
          /\ \A i, j \in op'.left : op'.snap[i].entry = op'.snap[j].entry => i = j
      BY <2>1, <1>1, CallForLeft
    <3> QED BY <3>1, <1>1, <1>3, <1>11 DEF OpInv, Logged, Carried, Installed
  <2>2. CASE ~p4info
    BY <2>2, <1>1 DEF OpInv, IdleOp
  <2> QED BY <2>1, <2>2
<1>13. NoLoss'
  <2> SUFFICES ASSUME NEW s \in members, NEW e \in Entries, Wants(s, e)'
               PROVE  Installed(s, e)' \/ InFlight(s, e)' # {}
    BY <1>1 DEF NoLoss
  <2>1. Wants(s, e)
    BY <1>1, <1>3, <1>5 DEF Wants, Logged
  <2>2. Installed(s, e) \/ InFlight(s, e) # {}
    BY <2>1, <1>1, IdleFacts DEF InsertInv, NoLoss
  <2> QED BY <2>2, <1>1 DEF Installed, InFlight
<1>14. NoIntruder'
  <2> SUFFICES ASSUME NEW s \in members, NEW e \in Entries,
                      Installed(s, e)' \/ InFlight(s, e)' # {}
               PROVE  Wants(s, e)' \/ Withdrawing(s, e)'
    BY <1>1 DEF NoIntruder
  <2>1. Wants(s, e)
    BY <1>1, IdleFacts DEF InsertInv, NoIntruder, Installed, InFlight
  <2>2. CASE s = t /\ e \in es
    <3>1. p4info
      BY <2>1 DEF InsertInv, LogInv, Logged, Wants
    <3>2. op'.kind = "withdraw" /\ op'.target = t
          /\ \E i \in op'.left : op'.snap[i].entry = e
      BY <2>1, <2>2, <3>1, <1>1, CallForLeft DEF Wants
    <3> QED BY <2>2, <3>2 DEF Withdrawing
  <2>3. CASE ~(s = t /\ e \in es)
    BY <2>1, <2>3, <1>1, <1>3, <1>5 DEF Wants, Logged
  <2> QED BY <2>2, <2>3
<1> QED BY <1>0, <1>7, <1>8, <1>10, <1>12, <1>13, <1>14 DEF InsertInv

(***************************************************************************)
(* The call in progress.                                                   *)
(***************************************************************************)
LEMMA StepOpSend == ASSUME InsertInv, OpSend PROVE InsertInv'
<1>0. TypeOK'
  BY InsertTypeOK DEF InsertInv, InsertNext, InternalNext
<1>1. PICK i \in op.left :
        LET u == IF op.kind = "withdraw" THEN Delete(op.snap[i].entry) ELSE op.snap[i]
        IN  /\ rpcs' = rpcs \cup {WriteRpc(OpRequest, op.target, <<u>>, {1})}
            /\ op' = [op EXCEPT !.left = @ \ {i}, !.awaits = TRUE]
  BY DEF OpSend
<1> DEFINE e   == op.snap[i].entry
           u   == IF op.kind = "withdraw" THEN Delete(e) ELSE op.snap[i]
           new == WriteRpc(OpRequest, op.target, <<u>>, {1})
<1>2. /\ ~op.awaits /\ phase' = phase /\ members' = members /\ filter' = filter
      /\ log' = log /\ p4info' = p4info /\ dp' = dp /\ rpcs' = rpcs \cup {new}
  BY <1>1 DEF OpSend
<1>3. /\ op'.kind = op.kind /\ op'.target = op.target /\ op'.snap = op.snap
      /\ op'.rest = op.rest /\ op'.awaits /\ op'.left = op.left \ {i}
  BY <1>1 DEF InsertInv, TypeOK
<1>4. /\ new.id = OpRequest /\ new.target = op.target /\ new.left = {1} /\ new.ok
      /\ new.updates[1] = u
  BY DEF WriteRpc
<1>5. /\ op.snap[i].type = "INSERT" /\ e \in Logged /\ ~Carried(op.target, e)
      /\ Installed(op.target, e) <=> op.kind = "withdraw"
      /\ IsAllowed(e, filter[op.target]) <=> op.kind = "fill"
  BY DEF InsertInv, OpInv
<1>6. /\ u.entry = e
      /\ u.type = IF op.kind = "withdraw" THEN "DELETE" ELSE "INSERT"
  BY <1>5 DEF Delete
<1>7. op.kind \in {"fill", "withdraw"} /\ phase # "down"
  BY DEF InsertInv, OpInv, PhaseInv, TypeOK, IdleOp
<1>8. \A r \in rpcs : r.id # OpRequest
  BY <1>2, <1>7 DEF InsertInv, RpcInv
<1> HIDE DEF new, u
<1>9. LogInv'
  BY <1>2 DEF InsertInv, LogInv
<1>10. RpcInv'
  <2>1. ASSUME NEW r \in rpcs', NEW k \in r.left
        PROVE  LET x == r.updates[k].entry IN
               /\ r.ok
               /\ x \in Logged'
               /\ \/ r.updates[k].type = "INSERT" /\ ~Installed(r.target, x)'
                  \/ /\ r.updates[k].type = "DELETE" /\ Installed(r.target, x)'
                     /\ r.id = OpRequest
                     /\ phase' # "down" => op'.kind = "withdraw"
                                             /\ ~IsAllowed(x, filter'[r.target])
    <3>1. CASE r \in rpcs
      BY <3>1, <1>2, <1>3 DEF InsertInv, RpcInv, Logged, Installed
    <3>2. CASE r = new
      BY <3>2, <1>2, <1>3, <1>4, <1>5, <1>6, <1>7 DEF Logged, Installed
    <3> QED BY <3>1, <3>2, <1>2
  <2>2. ASSUME NEW r \in rpcs', NEW q \in rpcs', NEW k \in r.left, NEW j \in q.left,
               r.target = q.target, r.updates[k].entry = q.updates[j].entry
        PROVE  r = q /\ k = j
    <3>1. CASE r \in rpcs /\ q \in rpcs
      BY <3>1, <2>2 DEF InsertInv, RpcInv
    <3>2. CASE r = new /\ q = new
      BY <3>2, <1>4
    <3>3. \A o \in rpcs : \A l \in o.left : ~(o.target = op.target /\ o.updates[l].entry = e)
      BY <1>5 DEF Carried
    <3> QED BY <3>1, <3>2, <3>3, <2>2, <1>2, <1>4, <1>6
  <2>3. \A r \in rpcs' : r.ok
    BY <1>2, <1>4 DEF InsertInv, RpcInv
  <2>4. \A r \in rpcs' : r.id = OpRequest => r = new
    BY <1>2, <1>8
  <2>5. \A r \in rpcs' : r.id = OpRequest =>
          /\ op'.awaits /\ r.target = op'.target /\ r.left = {1}
          /\ op'.kind = "withdraw" => r.updates[1].type = "DELETE"
          /\ \A q \in rpcs' : q.id = OpRequest => q = r
    BY <2>4, <1>3, <1>4, <1>6
  <2> QED BY <2>1, <2>2, <2>3, <2>5 DEF RpcInv
<1>11. OpInv'
  <2>1. op.kind # "idle" /\ op'.kind # "idle" /\ op'.target \in members'
    BY <1>2, <1>3, <1>7 DEF InsertInv, OpInv
  <2>2. ASSUME NEW j \in op'.left PROVE ~Carried(op.target, op.snap[j].entry)'
    <3>1. j \in op.left /\ op.snap[j].entry # e
      BY <1>3 DEF InsertInv, OpInv
    <3>2. ~Carried(op.target, op.snap[j].entry)
      BY <3>1 DEF InsertInv, OpInv
    <3> QED BY <3>1, <3>2, <1>2, <1>3, <1>4, <1>6 DEF Carried
  <2>3. \A t \in op'.rest : \A r \in rpcs' : r.target # t
    BY <1>2, <1>3, <1>4 DEF InsertInv, OpInv
  <2> QED BY <2>1, <2>2, <2>3, <1>2, <1>3 DEF InsertInv, OpInv, Logged, Installed
<1>12. PhaseInv'
  BY <1>2, <1>3, <1>7 DEF InsertInv, PhaseInv
<1>13. NoLoss'
  <2> SUFFICES ASSUME NEW t \in members, NEW x \in Entries, Wants(t, x)'
               PROVE  Installed(t, x)' \/ InFlight(t, x)' # {} \/ Filling(t, x)'
    BY <1>2 DEF NoLoss
  <2>1. Wants(t, x)
    BY <1>2 DEF Wants, Logged
  <2>2. CASE Installed(t, x) \/ InFlight(t, x) # {}
    BY <2>2, <1>2 DEF Installed, InFlight
  <2>3. CASE Filling(t, x)
    <3>1. CASE t = op.target /\ x = e
      <4>1. new \in InFlight(t, x)'
        BY <3>1, <2>3, <1>2, <1>4, <1>6 DEF InFlight, Filling
      <4> QED BY <4>1
    <3>2. CASE ~(t = op.target /\ x = e)
      BY <3>2, <2>3, <1>3 DEF Filling
    <3> QED BY <3>1, <3>2
  <2> QED BY <2>1, <2>2, <2>3 DEF InsertInv, NoLoss
<1>14. NoIntruder'
  <2> SUFFICES ASSUME NEW t \in members, NEW x \in Entries,
                      Installed(t, x)' \/ InFlight(t, x)' # {}
               PROVE  Wants(t, x)' \/ Withdrawing(t, x)'
    BY <1>2 DEF NoIntruder
  <2>1. CASE Installed(t, x) \/ InFlight(t, x) # {}
    <3>1. CASE Wants(t, x)
      BY <3>1, <1>2 DEF Wants, Logged
    <3>2. CASE Withdrawing(t, x)
      <4>1. new \in rpcs'
        BY <1>2
      <4> QED BY <3>2, <4>1, <1>2, <1>3, <1>4, <1>6 DEF Withdrawing
    <3> QED BY <2>1, <3>1, <3>2 DEF InsertInv, NoIntruder
  <2>2. CASE ~Installed(t, x) /\ InFlight(t, x) = {}
    <3>1. t = op.target /\ x = e /\ op.kind = "fill"
      BY <2>2, <1>2, <1>4, <1>6, <1>7 DEF Installed, InFlight
    <3> QED BY <3>1, <1>2, <1>5 DEF Wants, Logged
  <2> QED BY <2>1, <2>2
<1> QED BY <1>0, <1>9, <1>10, <1>11, <1>12, <1>13, <1>14 DEF InsertInv

LEMMA StepOpDone == ASSUME InsertInv, OpDone PROVE InsertInv'
<1>0. TypeOK'
  BY InsertTypeOK DEF InsertInv, InsertNext, InternalNext
<1>1. /\ op # IdleOp /\ ~op.awaits /\ op.left = {} /\ members' = members
      /\ filter' = filter /\ log' = log /\ p4info' = p4info /\ rpcs' = rpcs /\ dp' = dp
  BY DEF OpDone
<1>2. op.kind # "idle" /\ phase # "down"
  BY <1>1 DEF InsertInv, OpInv, PhaseInv
<1>3. \A r \in rpcs : r.id # OpRequest
  BY <1>1, <1>2 DEF InsertInv, RpcInv
<1>4. phase' # "down"
  BY <1>2 DEF OpDone
<1>5. LogInv' /\ RpcInv'
  BY <1>1, <1>2, <1>3 DEF InsertInv, LogInv, RpcInv, Logged, Installed
<1>6. \A t, e : ~Withdrawing(t, e)
  BY <1>1 DEF Withdrawing
<1>7. NoIntruder'
  BY <1>1, <1>6 DEF InsertInv, NoIntruder, Wants, Logged, Installed, InFlight
<1>8. CASE op.rest = {}
  <2>1. op' = IdleOp /\ phase' = "up"
    BY <1>8 DEF OpDone
  <2>2. OpInv' /\ PhaseInv'
    BY <2>1 DEF OpInv, PhaseInv, IdleOp
  <2>3. \A t, e : ~Filling(t, e)
    BY <1>1, <1>8 DEF Filling
  <2>4. NoLoss'
    BY <1>1, <2>3 DEF InsertInv, NoLoss, Wants, Logged, Installed, InFlight
  <2> QED BY <1>0, <1>5, <1>7, <2>2, <2>4 DEF InsertInv
<1>9. CASE op.rest # {}
  <2>1. PICK t \in op.rest : op' = FillCall(t, filter[t], filter[t], op.rest \ {t})
    BY <1>9 DEF OpDone
  <2>2. phase' = phase /\ phase = "starting" /\ op.kind = "fill"
    BY <1>9 DEF OpDone, InsertInv, PhaseInv
  <2> DEFINE es   == {e \in Entries : IsNamed(e, t) /\ IsAllowed(e, filter[t])
                                                     /\ IsAllowed(e, filter[t])}
             rest == op.rest \ {t}
  <2>3. op' = CallFor("fill", t, es, rest)
    BY <2>1 DEF FillCall
  <2>4. t \in members /\ t \in Targets
    BY DEF InsertInv, OpInv, TypeOK
  <2>5. \A e \in Entries : e \in es <=> IsAllowed(e, filter[t])
    BY <2>4, Replicas, EntriesAssumption DEF IsNamed
  <2>a. \A s : s \in rest <=> s \in op.rest /\ s # t
    OBVIOUS
  <2> HIDE DEF es, rest
  <2>6. \A e \in Entries : ~Carried(t, e) /\ ~Installed(t, e)
    BY DEF InsertInv, OpInv, Carried
  <2>7. /\ op'.kind = "fill" /\ op'.target = t /\ op'.rest = rest
        /\ \A i \in op'.left : /\ op'.snap[i].entry \in es /\ op'.snap[i].entry \in Logged
                               /\ op'.snap[i].entry \in Entries
                               /\ op'.snap[i].type = "INSERT"
        /\ \A i, j \in op'.left : op'.snap[i].entry = op'.snap[j].entry => i = j
        /\ \A e \in Logged \cap es : \E i \in op'.left : op'.snap[i].entry = e
    BY <2>3, CallForLeft
  <2>8. OpInv'
    <3>1. \A s \in op'.rest : /\ s \in members /\ s # op'.target
                              /\ \A r \in rpcs : r.target # s
                              /\ \A e \in Entries : ~Installed(s, e)
      BY <2>a, <2>7 DEF InsertInv, OpInv
    <3> QED BY <3>1, <2>4, <2>5, <2>6, <2>7, <1>1 DEF OpInv, Logged, Carried, Installed
  <2>9. PhaseInv'
    BY <2>2, <2>7 DEF PhaseInv
  <2>10. NoLoss'
    <3> SUFFICES ASSUME NEW s \in members, NEW e \in Entries, Wants(s, e)'
                 PROVE  Installed(s, e)' \/ InFlight(s, e)' # {} \/ Filling(s, e)'
      BY <1>1 DEF NoLoss
    <3>1. Wants(s, e)
      BY <1>1 DEF Wants, Logged
    <3>2. CASE Installed(s, e) \/ InFlight(s, e) # {}
      BY <3>2, <1>1 DEF Installed, InFlight
    <3>3. CASE s \in op.rest
      BY <3>1, <3>3, <2>5, <2>7, <2>a DEF Filling, Wants
    <3> QED BY <3>1, <3>2, <3>3, <1>1 DEF InsertInv, NoLoss, Filling
  <2> QED BY <1>0, <1>5, <1>7, <2>8, <2>9, <2>10 DEF InsertInv
<1> QED BY <1>8, <1>9

LEMMA StepStart == ASSUME InsertInv, Start PROVE InsertInv'
<1>0. TypeOK'
  BY InsertTypeOK DEF InsertInv, InsertNext, InternalNext
<1>1. /\ phase = "down" /\ rpcs = {} /\ rpcs' = {} /\ members' = Configured
      /\ log' = log /\ p4info' = p4info
      /\ \A t \in Configured : filter'[t] = InitFilter[t] /\ dp'[t] = EmptyTable
  BY Replicas, TargetsAssumption DEF Start
<1>2. Configured \subseteq Targets
  BY TargetsAssumption
<1>3. \A t \in Configured, e \in Entries : ~Installed(t, e)'
  BY <1>1 DEF Installed, EmptyTable
<1>4. LogInv' /\ RpcInv'
  BY <1>1 DEF InsertInv, LogInv, RpcInv
<1>5. NoIntruder'
  BY <1>1, <1>3 DEF NoIntruder, InFlight
<1>6. CASE p4info /\ Configured # {}
  <2>1. PICK t \in Configured :
          op' = FillCall(t, InitFilter[t], InitFilter[t], Configured \ {t})
    BY <1>6, Replicas DEF Start
  <2>2. phase' = "starting"
    BY <1>6, Replicas DEF Start
  <2> DEFINE es   == {e \in Entries : IsNamed(e, t) /\ IsAllowed(e, InitFilter[t])
                                                     /\ IsAllowed(e, InitFilter[t])}
             rest == Configured \ {t}
  <2>3. op' = CallFor("fill", t, es, rest)
    BY <2>1 DEF FillCall
  <2>4. \A e \in Entries : e \in es <=> IsAllowed(e, InitFilter[t])
    BY <1>2, Replicas, EntriesAssumption DEF IsNamed
  <2>a. \A s : s \in rest <=> s \in Configured /\ s # t
    OBVIOUS
  <2> HIDE DEF es, rest
  <2>5. /\ op'.kind = "fill" /\ op'.target = t /\ op'.rest = rest
        /\ \A i \in op'.left : /\ op'.snap[i].entry \in es /\ op'.snap[i].entry \in Logged
                               /\ op'.snap[i].entry \in Entries
                               /\ op'.snap[i].type = "INSERT"
        /\ \A i, j \in op'.left : op'.snap[i].entry = op'.snap[j].entry => i = j
        /\ \A e \in Logged \cap es : \E i \in op'.left : op'.snap[i].entry = e
    BY <2>3, CallForLeft
  <2>6. OpInv'
    BY <1>1, <1>3, <2>a, <2>4, <2>5 DEF OpInv, Logged, Carried
  <2>7. PhaseInv'
    BY <2>2, <2>5 DEF PhaseInv
  <2>8. NoLoss'
    <3> SUFFICES ASSUME NEW s \in Configured, NEW e \in Entries, Wants(s, e)'
                 PROVE  Filling(s, e)'
      BY <1>1 DEF NoLoss
    <3>1. e \in Logged /\ IsAllowed(e, InitFilter[s])
      BY <1>1 DEF Wants, Logged
    <3> QED BY <3>1, <2>a, <2>4, <2>5 DEF Filling
  <2> QED BY <1>0, <1>4, <1>5, <2>6, <2>7, <2>8 DEF InsertInv
<1>7. CASE ~(p4info /\ Configured # {})
  <2>1. op' = IdleOp /\ phase' = "up"
    BY <1>7 DEF Start
  <2>2. OpInv' /\ PhaseInv'
    BY <2>1 DEF OpInv, PhaseInv, IdleOp
  <2>3. NoLoss'
    BY <1>1, <1>7 DEF InsertInv, LogInv, NoLoss, Wants, Logged
  <2> QED BY <1>0, <1>4, <1>5, <2>2, <2>3 DEF InsertInv
<1> QED BY <1>6, <1>7

(***************************************************************************)
(* A switch executes an update: the entry is in exactly that RPC, at that  *)
(* position, of all the RPCs to that switch.                               *)
(***************************************************************************)
LEMMA StepApply == ASSUME InsertInv, NEW r \in rpcs, Apply(r) PROVE InsertInv'
<1>0. TypeOK'
  BY InsertTypeOK DEF InsertInv, InsertNext, InternalNext
<1>1. PICK i \in r.left :
        LET next == [r EXCEPT !.left = @ \ {i},
                              !.ok = @ /\ Accepts(dp[r.target], r.updates[i])]
        IN  /\ dp' = [dp EXCEPT ![r.target] = Applied(dp[r.target], r.updates[i])]
            /\ IF next.left = {}
               THEN rpcs' = rpcs \ {r} /\ Return(next)
               ELSE rpcs' = (rpcs \ {r}) \cup {next}
                    /\ UNCHANGED <<waiting, op, phase, members>>
  BY DEF Apply
<1> DEFINE t    == r.target
           u    == r.updates[i]
           e    == u.entry
           next == [r EXCEPT !.left = @ \ {i}, !.ok = @ /\ Accepts(dp[t], u)]
<1>2. /\ r.ok /\ Accepts(dp[t], u) /\ u \in Updates /\ t \in Targets /\ e \in Entries
      /\ u.type \in {"INSERT", "DELETE"}
      /\ u.type = "DELETE" =>
           /\ r.id = OpRequest
           /\ phase # "down" => op.kind = "withdraw" /\ ~IsAllowed(e, filter[t])
  BY DEF InsertInv, TypeOK, RpcInv, Accepts, Installed, Updates
<1>3. /\ next.id = r.id /\ next.target = t /\ next.updates = r.updates /\ next.ok
      /\ next.left = r.left \ {i}
  BY <1>2 DEF InsertInv, TypeOK
<1>4. filter' = filter /\ log' = log /\ p4info' = p4info
  BY DEF Apply
<1>5. /\ \A s \in Targets, x \in Entries : ~(s = t /\ x = e) => dp'[s][x] = dp[s][x]
      /\ dp'[t][e] # NoEntry <=> u.type = "INSERT"
  <2>1. dp \in [Targets -> [Entries -> Values \cup {NoEntry}]]
    BY DEF InsertInv, TypeOK
  <2>2. dp'[t] = [dp[t] EXCEPT ![e] = u.value]
        /\ \A s \in Targets \ {t} : dp'[s] = dp[s]
    BY <1>1, <1>2, <2>1 DEF Applied
  <2>3. u.value # NoEntry <=> u.type = "INSERT"
    BY <1>2, EntriesAssumption DEF Updates
  <2> QED BY <1>2, <2>1, <2>2, <2>3
<1>6. \A q \in rpcs : \A j \in q.left :
         q.target = t /\ q.updates[j].entry = e => q = r /\ j = i
  BY DEF InsertInv, RpcInv
<1>7. /\ phase' = phase /\ members' = members
      /\ op'.kind = op.kind /\ op'.target = op.target /\ op'.snap = op.snap
      /\ op'.left = op.left /\ op'.rest = op.rest
      /\ op' = op \/ (r.id = OpRequest /\ ~op'.awaits /\ op.awaits)
  <2>1. CASE next.left = {}
    <3>1. Return(next)
      BY <1>1, <2>1
    <3>2. op' = IF op.awaits /\ r.id = OpRequest THEN [op EXCEPT !.awaits = FALSE] ELSE op
      BY <3>1, <1>3 DEF Return
    <3>3. phase' = phase /\ members' = IF phase' = "down" THEN {} ELSE members
      BY <3>1, <1>3 DEF Return
    <3>4. phase = "down" => members = {}
      BY DEF InsertInv, PhaseInv
    <3> QED BY <3>2, <3>3, <3>4 DEF InsertInv, TypeOK
  <2>2. CASE next.left # {}
    BY <1>1, <2>2
  <2> QED BY <2>1, <2>2
<1>8. /\ \A q \in rpcs' : (q \in rpcs /\ q # r) \/ q = next
      /\ \A q \in rpcs : q # r => q \in rpcs'
      /\ r.left # {i} => next \in rpcs'
      /\ r.left = {i} => next \notin rpcs' \/ next \in rpcs
  BY <1>1, <1>3
<1>9. \A q \in rpcs' : q.left # {}
  BY <1>0 DEF TypeOK
<1>10. next \notin rpcs
  <2>1. \A q \in rpcs : q.left # {}
    BY DEF InsertInv, TypeOK
  <2>2. ASSUME next \in rpcs PROVE FALSE
    <3>1. PICK j \in next.left : TRUE
      BY <2>1, <2>2
    <3>2. r = next
      BY <2>2, <3>1, <1>3 DEF InsertInv, RpcInv
    <3> QED BY <3>2, <1>3
  <2> QED BY <2>2
<1> HIDE DEF next
<1>11. LogInv'
  BY <1>4 DEF InsertInv, LogInv
<1>12. phase # "down" /\ r.id = OpRequest =>
         \A q \in rpcs' : q.id # OpRequest
  BY <1>3, <1>8, <1>9 DEF InsertInv, RpcInv
<1>13. RpcInv'
  <2>1. ASSUME NEW q \in rpcs', NEW j \in q.left
        PROVE  LET x == q.updates[j].entry IN
               /\ x \in Logged'
               /\ \/ q.updates[j].type = "INSERT" /\ ~Installed(q.target, x)'
                  \/ /\ q.updates[j].type = "DELETE" /\ Installed(q.target, x)'
                     /\ q.id = OpRequest
                     /\ phase' # "down" => op'.kind = "withdraw"
                                             /\ ~IsAllowed(x, filter'[q.target])
    <3>1. PICK o \in rpcs : /\ o.target = q.target /\ o.updates = q.updates /\ o.id = q.id
                            /\ j \in o.left /\ ~(o = r /\ j = i)
      BY <1>3, <1>8
    <3>2. q.target \in Targets /\ q.updates[j].entry \in Entries
      BY <1>0 DEF TypeOK, Updates
    <3>3. ~(q.target = t /\ q.updates[j].entry = e)
      BY <3>1, <1>6
    <3>4. dp'[q.target][q.updates[j].entry] = dp[q.target][q.updates[j].entry]
      BY <3>2, <3>3, <1>5
    <3> QED BY <3>1, <3>4, <1>4, <1>7 DEF InsertInv, RpcInv, Logged, Installed
  <2>2. ASSUME NEW q \in rpcs', NEW o \in rpcs', NEW j \in q.left, NEW k \in o.left,
               q.target = o.target, q.updates[j].entry = o.updates[k].entry
        PROVE  q = o /\ j = k
    <3>1. CASE q # next /\ o # next
      BY <3>1, <2>2, <1>8 DEF InsertInv, RpcInv
    <3>2. CASE q = next /\ o = next
      BY <3>2, <2>2, <1>3 DEF InsertInv, RpcInv
    <3>3. CASE q = next /\ o # next
      BY <3>3, <2>2, <1>3, <1>8 DEF InsertInv, RpcInv
    <3>4. CASE q # next /\ o = next
      BY <3>4, <2>2, <1>3, <1>8 DEF InsertInv, RpcInv
    <3> QED BY <3>1, <3>2, <3>3, <3>4
  <2>3. \A q \in rpcs' : q.ok
    BY <1>3, <1>8 DEF InsertInv, RpcInv
  <2>4. ASSUME phase' # "down", NEW q \in rpcs', q.id = OpRequest
        PROVE  /\ op'.awaits /\ q.target = op'.target /\ q.left = {1}
               /\ op'.kind = "withdraw" => q.updates[1].type = "DELETE"
               /\ \A o \in rpcs' : o.id = OpRequest => o = q
    <3>1. r.id # OpRequest
      BY <2>4, <1>7, <1>12
    <3>2. \A o \in rpcs' : o.id = OpRequest => o \in rpcs
      BY <3>1, <1>3, <1>8
    <3> QED BY <2>4, <3>1, <3>2, <1>7 DEF InsertInv, RpcInv
  <2> QED BY <2>1, <2>2, <2>3, <2>4 DEF RpcInv
<1>14. \A s, x : Carried(s, x)' => Carried(s, x)
  BY <1>3, <1>8 DEF Carried
<1>15. OpInv'
  <2>1. ASSUME NEW j \in op.left
        PROVE  /\ ~Carried(op.target, op.snap[j].entry)'
               /\ dp'[op.target][op.snap[j].entry] = dp[op.target][op.snap[j].entry]
    <3>1. ~Carried(op.target, op.snap[j].entry)
      BY DEF InsertInv, OpInv
    <3>2. ~(op.target = t /\ op.snap[j].entry = e)
      BY <3>1 DEF Carried
    <3>3. op.target \in Targets /\ op.snap[j].entry \in Entries
      BY DEF InsertInv, TypeOK, Updates
    <3>4. ~Carried(op.target, op.snap[j].entry)'
      BY <3>1, <1>3, <1>7, <1>8 DEF Carried
    <3> QED BY <3>2, <3>3, <3>4, <1>5
  <2>2. ASSUME NEW s \in op.rest
        PROVE  /\ s \in members' /\ s # op.target
               /\ \A q \in rpcs' : q.target # s
               /\ \A x \in Entries : dp'[s][x] = NoEntry
    <3>1. /\ s \in members /\ s # op.target /\ s \in Targets
          /\ \A q \in rpcs : q.target # s
          /\ \A x \in Entries : dp[s][x] = NoEntry
      BY DEF InsertInv, OpInv, TypeOK, Installed
    <3> QED BY <3>1, <1>3, <1>5, <1>7, <1>8
  <2>3. op.kind = "idle" => op' = IdleOp
    BY <1>7 DEF InsertInv, OpInv, IdleOp
  <2>4. ASSUME NEW j \in op'.left
        PROVE  /\ op'.snap[j].type = "INSERT" /\ op'.snap[j].entry \in Logged'
               /\ ~Carried(op.target, op.snap[j].entry)'
               /\ Installed(op.target, op.snap[j].entry)' <=> op'.kind = "withdraw"
               /\ IsAllowed(op'.snap[j].entry, filter'[op'.target]) <=> op'.kind = "fill"
    <3>1. j \in op.left
      BY <1>7
    <3>2. /\ op.snap[j].type = "INSERT" /\ op.snap[j].entry \in Logged
          /\ Installed(op.target, op.snap[j].entry) <=> op.kind = "withdraw"
          /\ IsAllowed(op.snap[j].entry, filter[op.target]) <=> op.kind = "fill"
      BY <3>1 DEF InsertInv, OpInv
    <3> QED BY <3>1, <3>2, <2>1, <1>4, <1>7 DEF Logged, Installed, Carried
  <2>5. \A j, k \in op'.left : op'.snap[j].entry = op'.snap[k].entry => j = k
    BY <1>7 DEF InsertInv, OpInv
  <2>6. op'.kind # "idle" => op'.target \in members'
    BY <1>7 DEF InsertInv, OpInv
  <2>7. \A s \in op'.rest : /\ s \in members' /\ s # op'.target
                            /\ \A q \in rpcs' : q.target # s
                            /\ \A x \in Entries : dp'[s][x] = NoEntry
    BY <2>2, <1>7
  <2> QED BY <2>3, <2>4, <2>5, <2>6, <2>7, <1>7 DEF OpInv, Installed
<1>16. PhaseInv'
  <2>1. op.kind = "idle" => op' = IdleOp
    BY <1>7 DEF InsertInv, OpInv, IdleOp
  <2>2. op = IdleOp => op.kind = "idle"
    BY DEF IdleOp
  <2> QED BY <2>1, <2>2, <1>7 DEF InsertInv, PhaseInv
<1>17. ASSUME NEW s \in Targets, NEW x \in Entries, ~(s = t /\ x = e)
       PROVE  /\ Installed(s, x)' <=> Installed(s, x)
              /\ InFlight(s, x)' # {} <=> InFlight(s, x) # {}
  <2>1. Installed(s, x)' <=> Installed(s, x)
    BY <1>5, <1>17 DEF Installed
  <2>2. ASSUME InFlight(s, x) # {} PROVE InFlight(s, x)' # {}
    <3>1. PICK q \in rpcs : q.target = s /\ \E j \in q.left : q.updates[j].entry = x
                                           /\ q.updates[j].type = "INSERT"
      BY <2>2 DEF InFlight
    <3>2. PICK j \in q.left : q.updates[j].entry = x /\ q.updates[j].type = "INSERT"
      BY <3>1
    <3>3. CASE q # r
      BY <3>1, <3>2, <3>3, <1>8 DEF InFlight
    <3>4. CASE q = r
      <4>1. j # i
        BY <3>1, <3>2, <3>4, <1>17
      <4>2. next \in rpcs' /\ j \in next.left
        BY <4>1, <3>4, <1>3, <1>8
      <4>3. next \in InFlight(s, x)'
        BY <4>2, <3>1, <3>2, <3>4, <1>3 DEF InFlight
      <4> QED BY <4>3
    <3> QED BY <3>3, <3>4
  <2>3. ASSUME InFlight(s, x)' # {} PROVE InFlight(s, x) # {}
    <3>1. PICK q \in rpcs' : q.target = s /\ \E j \in q.left : q.updates[j].entry = x
                                            /\ q.updates[j].type = "INSERT"
      BY <2>3 DEF InFlight
    <3>2. CASE q \in rpcs
      BY <3>1, <3>2 DEF InFlight
    <3>3. CASE q = next
      <4>1. r \in InFlight(s, x)
        BY <3>1, <3>3, <1>3 DEF InFlight
      <4> QED BY <4>1
    <3> QED BY <3>2, <3>3, <1>8
  <2> QED BY <2>1, <2>2, <2>3
<1>18. members \subseteq Targets
  BY DEF InsertInv, TypeOK
<1>19. NoLoss'
  <2> SUFFICES ASSUME NEW s \in members, NEW x \in Entries, Wants(s, x)'
               PROVE  Installed(s, x)' \/ InFlight(s, x)' # {} \/ Filling(s, x)'
    BY <1>7 DEF NoLoss
  <2>1. Wants(s, x)
    BY <1>4 DEF Wants, Logged
  <2>2. CASE s = t /\ x = e
    <3>1. phase # "down"
      BY DEF InsertInv, PhaseInv
    <3>2. u.type = "INSERT"
      BY <2>1, <2>2, <3>1, <1>2 DEF Wants
    <3> QED BY <2>2, <3>2, <1>5 DEF Installed
  <2>3. CASE ~(s = t /\ x = e)
    <3>1. Filling(s, x) => Filling(s, x)'
      BY <1>7 DEF Filling
    <3> QED BY <2>1, <2>3, <3>1, <1>17, <1>18 DEF InsertInv, NoLoss
  <2> QED BY <2>2, <2>3
<1>20. NoIntruder'
  <2> SUFFICES ASSUME NEW s \in members, NEW x \in Entries,
                      Installed(s, x)' \/ InFlight(s, x)' # {}
               PROVE  Wants(s, x)' \/ Withdrawing(s, x)'
    BY <1>7 DEF NoIntruder
  <2>0. Wants(s, x) => Wants(s, x)'
    BY <1>4 DEF Wants, Logged
  <2>1. CASE s = t /\ x = e
    <3>1. InFlight(t, e)' = {}
      <4>1. \A q \in rpcs' : \A j \in q.left : ~(q.target = t /\ q.updates[j].entry = e)
        BY <1>3, <1>6, <1>8
      <4> QED BY <4>1 DEF InFlight
    <3>2. u.type = "INSERT"
      BY <2>1, <3>1, <1>5 DEF Installed
    <3>3. r \in InFlight(t, e)
      BY <3>2 DEF InFlight
    <3>4. Wants(s, x) \/ Withdrawing(s, x)
      BY <2>1, <3>3 DEF InsertInv, NoIntruder
    <3>5. phase # "down"
      BY DEF InsertInv, PhaseInv
    <3>6. ~Withdrawing(s, x)
      <4>1. ~(op.target = t /\ \E j \in op.left : op.snap[j].entry = e)
        BY DEF InsertInv, OpInv, Carried
      <4>2. ASSUME NEW q \in rpcs, op.kind = "withdraw", op.target = t, q.id = OpRequest,
                   q.updates[1].entry = e
            PROVE  FALSE
        <5>1. q.target = t /\ q.left = {1} /\ q.updates[1].type = "DELETE"
          BY <4>2, <3>5 DEF InsertInv, RpcInv
        <5>2. q = r /\ i = 1
          BY <4>2, <5>1, <1>6
        <5> QED BY <5>1, <5>2, <3>2
      <4> QED BY <4>1, <4>2, <2>1 DEF Withdrawing
    <3> QED BY <3>4, <3>6, <2>0
  <2>2. CASE ~(s = t /\ x = e)
    <3>1. Wants(s, x) \/ Withdrawing(s, x)
      BY <2>2, <1>17, <1>18 DEF InsertInv, NoIntruder
    <3>2. Withdrawing(s, x) => Withdrawing(s, x)'
      <4>1. ASSUME op.kind = "withdraw", op.target = s, NEW q \in rpcs, op.awaits,
                   q.id = OpRequest, q.updates[1].entry = x
            PROVE  q \in rpcs' /\ op' = op
        <5>1. q.target = s /\ q.left = {1} /\ phase # "down"
          BY <4>1 DEF InsertInv, RpcInv, PhaseInv, IdleOp
        <5>2. q # r
          BY <4>1, <5>1, <2>2
        <5>3. r.id # OpRequest
          BY <4>1, <5>1, <5>2 DEF InsertInv, RpcInv
        <5> QED BY <5>2, <5>3, <1>7, <1>8
      <4> QED BY <4>1, <1>7 DEF Withdrawing
    <3> QED BY <3>1, <3>2, <2>0
  <2> QED BY <2>1, <2>2
<1> QED BY <1>0, <1>11, <1>13, <1>15, <1>16, <1>19, <1>20 DEF InsertInv

(***************************************************************************)
(* The theorems.                                                           *)
(***************************************************************************)
LEMMA InsertInvStep == InsertInv /\ [InsertNext]_vars => InsertInv'
<1> SUFFICES ASSUME InsertInv, [InsertNext]_vars PROVE InsertInv'
  OBVIOUS
<1>1. CASE ~p4info /\ SetForwardingPipelineConfig
  BY <1>1, StepReconfigure
<1>2. ASSUME NEW c \in Controllers, NEW us \in InsertRequests, p4info, Write(c, us)
      PROVE  InsertInv'
  BY <1>2, StepWrite
<1>3. ASSUME NEW t \in Targets, \A r \in rpcs : r.target # t, AddTarget(t, InitFilter[t])
      PROVE  InsertInv'
  BY <1>3, StepAddTarget
<1>4. ASSUME NEW t \in Targets, RemoveTarget(t) PROVE InsertInv'
  BY <1>4, StepRemoveTarget
<1>5. ASSUME NEW t \in Targets, NEW p \in Params, NEW vs \in SUBSET MatchValues,
             p \in DOMAIN filter[t], \A e \in Entries : p \in DOMAIN Match[e],
             AddFilterParams(t, [q \in {p} |-> vs])
      PROVE  InsertInv'
  BY <1>5, StepAddFilterParams
<1>6. ASSUME NEW t \in Targets, NEW removes \in Filters,
             \A e \in Entries : IsAllowed(e, Shrunk(filter[t], removes))
                               \/ InFlight(t, e) = {},
             RemoveFilterParams(t, removes)
      PROVE  InsertInv'
  BY <1>6, StepRemoveFilterParams
<1>7. CASE InternalNext
  BY <1>7, StepApply, StepOpSend, StepOpDone, StepStart DEF InternalNext
<1>8. CASE Crash
  BY <1>8, StepCrash
<1>9. ASSUME NEW r \in rpcs, Lose(r) PROVE InsertInv'
  BY <1>9, StepLose
<1>10. CASE UNCHANGED vars
  BY <1>10, StepStutter
<1> QED BY <1>1, <1>2, <1>3, <1>4, <1>5, <1>6, <1>7, <1>8, <1>9, <1>10 DEF InsertNext

\* The strengthening holds in every reachable state.
THEOREM Inductive == InsertSpec => []InsertInv
<1>1. Init => InsertInv
  BY InitInsertInv
<1>2. InsertInv /\ [InsertNext]_vars => InsertInv'
  BY InsertInvStep
<1> QED BY <1>1, <1>2, PTL DEF InsertSpec

\* No entry a member is to have is ever lost between the log, the RPCs in
\* flight, the call in progress and the switch.
THEOREM NothingIsLost == InsertSpec => []NoLoss
<1>1. InsertInv => NoLoss
  BY DEF InsertInv
<1> QED BY <1>1, Inductive, PTL

\* No entry gets to, or stays in, a switch whose filter forbids it, but for
\* the withdrawal in progress.
THEOREM NothingGoesAstray == InsertSpec => []NoIntruder
<1>1. InsertInv => NoIntruder
  BY DEF InsertInv
<1> QED BY <1>1, Inductive, PTL

\* No switch rejects anything: fills, writes and withdrawals never collide.
THEOREM NothingCollides == InsertSpec => []NothingRejected
BY InvNothingRejected, Inductive, PTL

\* When everything has settled, every member's table is the logged entries
\* that its filter allows.
THEOREM MembersConverge == InsertSpec => []Converged
BY InvConverged, Inductive, PTL

(***************************************************************************)
(* The proxy implements the virtual device, step by step.                  *)
(***************************************************************************)
\* The state of the virtual device that the proxy's stands for.
AllowedTo == [t \in Targets |-> IF t \in members
                                THEN {e \in Entries : IsAllowed(e, filter[t])} ELSE {}]
HeldBy == [t \in Targets |-> IF t \in members
                             THEN {e \in Entries : Installed(t, e)} ELSE {}]

LEMMA DeviceInit == Init => Device!Init
BY DEF Init, Device!Init, Logged

\* Steps the virtual device does not see.
LEMMA Hidden ==
  ASSUME UNCHANGED <<members, filter, log>>, members # {} => UNCHANGED dp
  PROVE  UNCHANGED Device!vars
<1>1. Logged' = Logged /\ AllowedTo' = AllowedTo
  BY DEF Logged, AllowedTo
<1>2. HeldBy' = HeldBy
  <2>1. \A t \in Targets : HeldBy'[t] = HeldBy[t]
    BY DEF HeldBy, Installed
  <2> QED BY <2>1 DEF HeldBy
<1> QED BY <1>1, <1>2 DEF Device!vars, AllowedTo, HeldBy

LEMMA DeviceWrite ==
  ASSUME InsertInv, NEW c \in Controllers, NEW us \in InsertRequests, Write(c, us)
  PROVE  Device!Insert
<1>1. UNCHANGED <<members, filter, dp>> /\ log' = log \o us
  BY Replicas DEF Write
<1>2. /\ us \in Seq(Updates) /\ log \in Seq(Updates) /\ 1 \in DOMAIN us
      /\ \A i \in DOMAIN us : us[i].entry \in Entries /\ us[i].entry \notin Logged
  <2>1. us \in Seq(Updates) /\ log \in Seq(Updates)
    BY RequestType DEF InsertRequests, InsertInv, TypeOK
  <2>2. 1 \in DOMAIN us
    BY DEF InsertRequests, Requests
  <2> QED BY <2>1, <2>2 DEF InsertRequests, Updates
<1> DEFINE es == {us[i].entry : i \in DOMAIN us}
<1>3. Logged' = Logged \cup es
  <2>1. /\ \A i \in DOMAIN log : i \in DOMAIN log' /\ log'[i] = log[i]
        /\ \A i \in DOMAIN us : Len(log) + i \in DOMAIN log' /\ log'[Len(log) + i] = us[i]
        /\ \A k \in DOMAIN log' : k \in DOMAIN log
                                \/ (k - Len(log) \in DOMAIN us /\ log'[k] = us[k - Len(log)])
    BY <1>1, <1>2
  <2> QED BY <2>1 DEF Logged
<1>4. es \in SUBSET (Entries \ Logged) /\ es # {}
  BY <1>2
<1>5. AllowedTo' = AllowedTo /\ HeldBy' = HeldBy
  BY <1>1 DEF AllowedTo, HeldBy, Installed
<1> QED BY <1>1, <1>3, <1>4, <1>5 DEF Device!Insert, AllowedTo, HeldBy

LEMMA DeviceJoin ==
  ASSUME InsertInv, NEW t \in Targets, AddTarget(t, InitFilter[t]) PROVE Device!Join(t)
<1>1. /\ t \notin members /\ members' = members \cup {t} /\ log' = log
      /\ dp' = [dp EXCEPT ![t] = EmptyTable]
      /\ filter' = [filter EXCEPT ![t] = InitFilter[t]]
  BY Replicas DEF AddTarget
<1>2. dp \in [Targets -> [Entries -> Values \cup {NoEntry}]] /\ filter \in [Targets -> Filters]
  BY DEF InsertInv, TypeOK
<1> DEFINE es == {e \in Entries : IsAllowed(e, InitFilter[t])}
<1>3. AllowedTo' = [AllowedTo EXCEPT ![t] = es]
  <2>1. \A s \in Targets : AllowedTo'[s] = IF s = t THEN es ELSE AllowedTo[s]
    BY <1>1, <1>2 DEF AllowedTo
  <2> QED BY <2>1 DEF AllowedTo
<1>4. HeldBy' = HeldBy
  <2>1. \A s \in Targets : HeldBy'[s] = HeldBy[s]
    BY <1>1, <1>2 DEF HeldBy, Installed, EmptyTable
  <2> QED BY <2>1 DEF HeldBy
<1>5. es \in SUBSET Entries /\ Logged' = Logged
  BY <1>1 DEF Logged
<1> QED BY <1>1, <1>3, <1>4, <1>5 DEF Device!Join, AllowedTo, HeldBy

LEMMA DeviceLeave ==
  ASSUME InsertInv, NEW t \in Targets, RemoveTarget(t) PROVE Device!Leave(t)
<1>1. /\ t \in members /\ members' = members \ {t} /\ log' = log /\ dp' = dp
      /\ \A s \in members' : filter'[s] = filter[s]
  BY DEF RemoveTarget, InsertInv, TypeOK
<1>2. AllowedTo' = [AllowedTo EXCEPT ![t] = {}]
  <2>1. \A s \in Targets : AllowedTo'[s] = IF s = t THEN {} ELSE AllowedTo[s]
    BY <1>1 DEF AllowedTo
  <2> QED BY <2>1 DEF AllowedTo
<1>3. HeldBy' = [HeldBy EXCEPT ![t] = {}]
  <2>1. \A s \in Targets : HeldBy'[s] = IF s = t THEN {} ELSE HeldBy[s]
    BY <1>1 DEF HeldBy, Installed
  <2> QED BY <2>1 DEF HeldBy
<1>4. Logged' = Logged
  BY <1>1 DEF Logged
<1> QED BY <1>1, <1>2, <1>3, <1>4 DEF Device!Leave, AllowedTo, HeldBy

\* A filter that changes by a field it has only widens, or only narrows.
LEMMA DeviceRefilter ==
  ASSUME InsertInv, NEW t \in members, NEW f,
         filter' = [filter EXCEPT ![t] = f], UNCHANGED <<members, log, dp>>,
         \/ \A e \in Entries : IsAllowed(e, filter[t]) => IsAllowed(e, f)
         \/ \A e \in Entries : IsAllowed(e, f) => IsAllowed(e, filter[t])
  PROVE  Device!Refilter(t)
<1> DEFINE es == {e \in Entries : IsAllowed(e, f)}
<1>1. t \in Targets /\ filter \in [Targets -> Filters]
  BY DEF InsertInv, TypeOK
<1>2. AllowedTo' = [AllowedTo EXCEPT ![t] = es]
  <2>1. \A s \in Targets : AllowedTo'[s] = IF s = t THEN es ELSE AllowedTo[s]
    BY <1>1 DEF AllowedTo
  <2> QED BY <2>1 DEF AllowedTo
<1>3. /\ es \in SUBSET Entries
      /\ AllowedTo[t] \subseteq es \/ es \subseteq AllowedTo[t]
  BY <1>1 DEF AllowedTo
<1>4. Logged' = Logged /\ HeldBy' = HeldBy
  BY DEF Logged, HeldBy, Installed
<1> HIDE DEF es
<1> QED BY <1>2, <1>3, <1>4 DEF Device!Refilter, AllowedTo, HeldBy

LEMMA DeviceAddFilterParams ==
  ASSUME InsertInv, NEW t \in Targets, NEW p \in DOMAIN filter[t],
         NEW vs \in SUBSET MatchValues, \A e \in Entries : p \in DOMAIN Match[e],
         AddFilterParams(t, [q \in {p} |-> vs])
  PROVE  Device!Refilter(t)
<1> DEFINE f == Extended(filter[t], [q \in {p} |-> vs])
<1>1. t \in members /\ filter' = [filter EXCEPT ![t] = f] /\ UNCHANGED <<members, log, dp>>
  BY DEF AddFilterParams
<1>2. \A e \in Entries : IsAllowed(e, filter[t]) => IsAllowed(e, f)
  <2>1. filter[t] \in Filters
    BY DEF InsertInv, TypeOK
  <2> QED BY <2>1, ExtendedAllows
<1> HIDE DEF f
<1> QED BY <1>1, <1>2, DeviceRefilter

LEMMA DeviceRemoveFilterParams ==
  ASSUME InsertInv, NEW t \in Targets, NEW removes \in Filters, RemoveFilterParams(t, removes)
  PROVE  Device!Refilter(t)
<1> DEFINE f == Shrunk(filter[t], removes)
<1>1. t \in members /\ filter' = [filter EXCEPT ![t] = f] /\ UNCHANGED <<members, log, dp>>
  BY DEF RemoveFilterParams
<1>2. \A e \in Entries : IsAllowed(e, f) => IsAllowed(e, filter[t])
  BY ShrunkAllows DEF InsertInv, TypeOK
<1> HIDE DEF f
<1> QED BY <1>1, <1>2, DeviceRefilter

LEMMA DeviceBegin == ASSUME InsertInv, Start PROVE Device!Begin
<1>1. /\ members = {} /\ members' = Configured /\ log' = log
      /\ \A t \in Configured : dp'[t] = EmptyTable
  BY Replicas, TargetsAssumption DEF Start, InsertInv, PhaseInv
<1> DEFINE f == [t \in Configured |-> {e \in Entries : IsAllowed(e, filter'[t])}]
<1>2. f \in [Configured -> SUBSET Entries]
  OBVIOUS
<1>3. AllowedTo' = [t \in Targets |-> IF t \in Configured THEN f[t] ELSE {}]
  BY <1>1 DEF AllowedTo
<1>4. HeldBy' = HeldBy
  <2>1. \A t \in Targets : HeldBy'[t] = HeldBy[t]
    BY <1>1 DEF HeldBy, Installed, EmptyTable
  <2> QED BY <2>1 DEF HeldBy
<1>5. Logged' = Logged
  BY <1>1 DEF Logged
<1> HIDE DEF f
<1> QED BY <1>1, <1>2, <1>3, <1>4, <1>5 DEF Device!Begin, AllowedTo, HeldBy

LEMMA DeviceStop == ASSUME Crash PROVE Device!Stop
<1>1. members' = {} /\ log' = log
  BY DEF Crash
<1>2. AllowedTo' = [t \in Targets |-> {}] /\ HeldBy' = [t \in Targets |-> {}]
  BY <1>1 DEF AllowedTo, HeldBy
<1>3. Logged' = Logged
  BY <1>1 DEF Logged
<1> QED BY <1>1, <1>2, <1>3 DEF Device!Stop, AllowedTo, HeldBy

LEMMA DeviceApply ==
  ASSUME InsertInv, NEW r \in rpcs, Apply(r)
  PROVE  \/ \E t \in Targets, e \in Entries : Device!Install(t, e) \/ Device!Withdraw(t, e)
         \/ UNCHANGED Device!vars
<1>1. PICK i \in r.left :
        LET next == [r EXCEPT !.left = @ \ {i},
                              !.ok = @ /\ Accepts(dp[r.target], r.updates[i])]
        IN  /\ dp' = [dp EXCEPT ![r.target] = Applied(dp[r.target], r.updates[i])]
            /\ IF next.left = {}
               THEN rpcs' = rpcs \ {r} /\ Return(next)
               ELSE rpcs' = (rpcs \ {r}) \cup {next}
                    /\ UNCHANGED <<waiting, op, phase, members>>
  BY DEF Apply
<1> DEFINE t    == r.target
           u    == r.updates[i]
           e    == u.entry
           next == [r EXCEPT !.left = @ \ {i}, !.ok = @ /\ Accepts(dp[t], u)]
<1>2. /\ r.ok /\ Accepts(dp[t], u) /\ u \in Updates /\ t \in Targets /\ e \in Entries
      /\ u.type \in {"INSERT", "DELETE"}
      /\ u.type = "INSERT" <=> ~Installed(t, e)
      /\ u.type = "DELETE" /\ phase # "down" => ~IsAllowed(e, filter[t])
      /\ phase = "down" => members = {}
  BY DEF InsertInv, TypeOK, RpcInv, PhaseInv, Accepts, Installed, Updates
<1>3. filter' = filter /\ log' = log
  BY DEF Apply
<1>4. members' = members
  <2>1. next.ok /\ next.id = r.id
    BY <1>2 DEF InsertInv, TypeOK
  <2>2. CASE next.left = {}
    <3>1. Return(next)
      BY <1>1, <2>2
    <3> QED BY <1>2, <2>1, <3>1 DEF Return
  <2>3. CASE next.left # {}
    BY <1>1, <2>3
  <2> QED BY <2>2, <2>3
<1>5. Logged' = Logged /\ AllowedTo' = AllowedTo
  BY <1>3, <1>4 DEF Logged, AllowedTo
<1>6. /\ \A s \in Targets, x \in Entries : ~(s = t /\ x = e) => dp'[s][x] = dp[s][x]
      /\ dp'[t][e] # NoEntry <=> u.type = "INSERT"
  <2>1. dp \in [Targets -> [Entries -> Values \cup {NoEntry}]]
    BY DEF InsertInv, TypeOK
  <2>2. dp'[t] = [dp[t] EXCEPT ![e] = u.value]
        /\ \A s \in Targets \ {t} : dp'[s] = dp[s]
    BY <1>1, <1>2, <2>1 DEF Applied
  <2>3. u.value # NoEntry <=> u.type = "INSERT"
    BY <1>2, EntriesAssumption DEF Updates
  <2> QED BY <1>2, <2>1, <2>2, <2>3
<1> HIDE DEF t, u, e, next
<1>7. CASE t \notin members
  <2>1. \A s \in Targets : HeldBy'[s] = HeldBy[s]
    BY <1>4, <1>6, <1>7 DEF HeldBy, Installed
  <2>2. HeldBy' = HeldBy
    BY <2>1 DEF HeldBy
  <2> QED BY <1>4, <1>5, <2>2 DEF Device!vars, AllowedTo, HeldBy
<1>8. CASE t \in members /\ u.type = "INSERT"
\* What is inserted was logged and is let through, as nobody withdraws it.
  <2>1. e \in Logged /\ IsAllowed(e, filter[t])
    <3>1. r \in InFlight(t, e)
      BY <1>8 DEF InFlight, t, u, e
    <3>2. Wants(t, e) \/ Withdrawing(t, e)
      BY <1>2, <1>8, <3>1 DEF InsertInv, NoIntruder
    <3>3. phase # "down"
      BY <1>2, <1>8
    <3>4. ~Withdrawing(t, e)
      <4>1. Carried(t, e)
        BY DEF Carried, t, u, e
      <4>2. ~(op.target = t /\ \E j \in op.left : op.snap[j].entry = e)
        BY <4>1 DEF InsertInv, OpInv
      <4>3. ASSUME NEW q \in rpcs, op.kind = "withdraw", op.target = t, q.id = OpRequest,
                   q.updates[1].entry = e
            PROVE  FALSE
        <5>1. q.target = t /\ q.left = {1} /\ q.updates[1].type = "DELETE"
          BY <4>3, <3>3 DEF InsertInv, RpcInv
        <5>2. q = r /\ i = 1
          BY <4>3, <5>1 DEF InsertInv, RpcInv, t, u, e
        <5> QED BY <5>1, <5>2, <1>8 DEF u
      <4> QED BY <4>2, <4>3 DEF Withdrawing
    <3> QED BY <3>2, <3>4 DEF Wants
  <2>2. HeldBy' = [HeldBy EXCEPT ![t] = @ \cup {e}]
    <3>1. \A s \in Targets : HeldBy'[s] = IF s = t THEN HeldBy[t] \cup {e} ELSE HeldBy[s]
      BY <1>2, <1>4, <1>6, <1>8 DEF HeldBy, Installed
    <3> QED BY <3>1 DEF HeldBy
  <2>3. e \in (Logged \cap AllowedTo[t]) \ HeldBy[t]
    BY <1>2, <1>8, <2>1 DEF AllowedTo, HeldBy
  <2>4. Device!Install(t, e)
    BY <1>4, <1>5, <1>8, <2>2, <2>3 DEF Device!Install, Device!Wanted, AllowedTo, HeldBy
  <2> QED BY <1>2, <2>4
<1>9. CASE t \in members /\ u.type = "DELETE"
  <2>1. ~IsAllowed(e, filter[t]) /\ Installed(t, e)
    BY <1>2, <1>9
  <2>2. HeldBy' = [HeldBy EXCEPT ![t] = @ \ {e}]
    <3>1. \A s \in Targets : HeldBy'[s] = IF s = t THEN HeldBy[t] \ {e} ELSE HeldBy[s]
      BY <1>2, <1>4, <1>6, <1>9 DEF HeldBy, Installed
    <3> QED BY <3>1 DEF HeldBy
  <2>3. e \in HeldBy[t] \ (Logged \cap AllowedTo[t])
    BY <1>2, <1>9, <2>1 DEF AllowedTo, HeldBy
  <2>4. Device!Withdraw(t, e)
    BY <1>4, <1>5, <1>9, <2>2, <2>3 DEF Device!Withdraw, Device!Wanted, AllowedTo, HeldBy
  <2> QED BY <1>2, <2>4
<1> QED BY <1>2, <1>7, <1>8, <1>9

LEMMA DeviceStep == InsertInv /\ [InsertNext]_vars => [Device!Next]_(Device!vars)
<1> SUFFICES ASSUME InsertInv, [InsertNext]_vars PROVE [Device!Next]_(Device!vars)
  OBVIOUS
<1>1. CASE ~p4info /\ SetForwardingPipelineConfig
  <2>1. UNCHANGED <<members, filter, log, dp>>
    BY <1>1 DEF SetForwardingPipelineConfig, InsertInv, LogInv
  <2> QED BY <2>1, Hidden
<1>2. ASSUME NEW c \in Controllers, NEW us \in InsertRequests, Write(c, us)
      PROVE  Device!Next
  BY <1>2, DeviceWrite DEF Device!Next
<1>3. ASSUME NEW t \in Targets, AddTarget(t, InitFilter[t]) PROVE Device!Next
  BY <1>3, DeviceJoin DEF Device!Next
<1>4. ASSUME NEW t \in Targets, RemoveTarget(t) PROVE Device!Next
  BY <1>4, DeviceLeave DEF Device!Next
<1>5. ASSUME NEW t \in Targets, NEW p \in Params, NEW vs \in SUBSET MatchValues,
             p \in DOMAIN filter[t], \A e \in Entries : p \in DOMAIN Match[e],
             AddFilterParams(t, [q \in {p} |-> vs])
      PROVE  Device!Next
  BY <1>5, DeviceAddFilterParams DEF Device!Next
<1>6. ASSUME NEW t \in Targets, NEW removes \in Filters, RemoveFilterParams(t, removes)
      PROVE  Device!Next
  BY <1>6, DeviceRemoveFilterParams DEF Device!Next
<1>7. ASSUME NEW r \in rpcs, Apply(r) PROVE [Device!Next]_(Device!vars)
  BY <1>7, DeviceApply DEF Device!Next
<1>8. CASE OpSend \/ OpDone
  BY <1>8, Hidden DEF OpSend, OpDone
<1>9. CASE Start
  BY <1>9, DeviceBegin DEF Device!Next
<1>10. CASE Crash
  BY <1>10, DeviceStop DEF Device!Next
<1>11. ASSUME NEW r \in rpcs, Lose(r) PROVE UNCHANGED Device!vars
  BY <1>11, Hidden DEF Lose
<1>12. CASE UNCHANGED vars
  BY <1>12, Hidden DEF vars
<1> QED BY <1>1, <1>2, <1>3, <1>4, <1>5, <1>6, <1>7, <1>8, <1>9, <1>10, <1>11, <1>12
    DEF InsertNext, InternalNext

\* The proxy implements the virtual device: whatever overlaps, a step brings
\* one entry of one member to where it has to be, or is one the operator,
\* a controller or a crash makes.
THEOREM ProxyIsDevice == InsertSpec => ImplementsDevice
BY DeviceInit, DeviceStep, Inductive, PTL DEF InsertSpec, ImplementsDevice, Device!Spec
=============================================================================
