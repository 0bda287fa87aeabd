--------------------------- MODULE SerialUpdates ---------------------------
(***************************************************************************)
(* ProxyTables with every kind of update, and calls that do not overlap:   *)
(* a controller writes and the operator calls when nothing else is in      *)
(* progress.  Only crashes come at any time.  What is at stake is the log: *)
(* redis keeps every update, never the resulting entries, so a fill plays  *)
(* a history of INSERTs, MODIFYs and DELETEs again, as the target's names  *)
(* and filter select them, and must arrive at what the history made.       *)
(*                                                                         *)
(* Callers are assumed to write only updates that the virtual device takes *)
(* and to set the pipeline when it is empty; Movable are the targets the   *)
(* operator adds and removes.  remove_from_filter is left out: it is of    *)
(* use only while the log holds nothing but INSERTs (see the README).      *)
(***************************************************************************)
EXTENDS ProxyTables

CONSTANT Movable

\* A target is never the only one when it is named for some tables only.
NeverOneOfSeveral ==
  /\ Movable \subseteq Targets /\ IsFiniteSet(Targets)
  /\ \/ \A t \in Targets : Names[t] = Tables
     \/ Cardinality(Configured \ Movable) > 1

\* The configurations the properties below are about: the proxy keeps the log
\* and plays it again, onto switches it has cleared.
Lasting == NeverOneOfSeveral /\ IsReading /\ IsWriting /\ ResetDataplane

\* The table that a history of updates makes of an empty one.
After(history) ==
  LET T[n \in 0..Len(history)] ==
        IF n = 0 THEN EmptyTable ELSE Applied(T[n - 1], history[n])
  IN T[Len(history)]

Quiet == phase = "up" /\ rpcs = {} /\ op = IdleOp

TakenRequests ==
  {us \in Requests : \A i \in DOMAIN us :
                       Accepts(After(log \o SubSeq(us, 1, i - 1)), us[i])}

SerialNext ==
  \/ /\ Quiet
     /\ \/ After(log) = EmptyTable /\ SetForwardingPipelineConfig
        \/ \E c \in Controllers, us \in TakenRequests : p4info /\ Write(c, us)
        \/ \E t \in Movable : AddTarget(t, InitFilter[t])
        \/ \E t \in Movable : RemoveTarget(t)
        \/ \E t \in Targets, p \in Params, vs \in SUBSET MatchValues :
             /\ p \in DOMAIN filter[t] /\ \A e \in Entries : p \in DOMAIN Match[e]
             /\ AddFilterParams(t, [q \in {p} |-> vs])
  \/ InternalNext
  \/ Crash
  \/ \E r \in rpcs : Lose(r)

SerialSpec == Init /\ [][SerialNext]_vars

\* The entries target t is named for and its filter lets through.
Seen(t) == {e \in Entries : IsNamed(e, t) /\ IsAllowed(e, filter[t])}

\* What member t is to hold: the history's table, cut down to what it sees.
View(t) == [e \in Entries |-> IF e \in Seen(t) THEN After(log)[e] ELSE NoEntry]

\* When nothing is in progress every member holds exactly its view of the
\* history, values included, whatever was replayed, filtered out or cut
\* short by a crash on the way.
HoldsView == Quiet => \A t \in members : dp[t] = View(t)

\* Nothing is rejected half way, a replay least of all: every switch takes
\* what is on its way to it, whichever part of the history it is named for.
ReplayAccepted ==
  \A r \in rpcs : \A i \in r.left :
    IsFirst(i, r.left) => Accepts(dp[r.target], r.updates[i])

(***************************************************************************)
(* Why these hold: what is on the wire to a target, and after it what the  *)
(* call in progress has yet to send, goes on from a point of the history   *)
(* that the target's table has reached, entry by entry and to the end.     *)
(***************************************************************************)
\* The table after the first n updates of a history.
At(history, n) == After(SubSeq(history, 1, n))

\* Entry e of the table is as after n updates; of the later ones about e, the
\* positions P hold those that come first.
Continues(history, table, e, n, P) ==
  /\ table[e] = At(history, n)[e]
  /\ \A i \in P : history[i].entry = e =>
       n < i /\ \A k \in (n + 1)..i : history[k].entry = e => k \in P

\* The updates at P can be played on the table.
Playable(history, table, P) ==
  \A e \in Entries : \E n \in 0..Len(history) : Continues(history, table, e, n, P)

\* They take it to the end of the history for the entries seen, and the others
\* are not there and stay so.
Completed(history, table, seen, P) ==
  \A e \in Entries :
    IF e \in seen
    THEN \E n \in 0..Len(history) :
           /\ Continues(history, table, e, n, P)
           /\ \A k \in (n + 1)..Len(history) : history[k].entry = e => k \in P
    ELSE table[e] = NoEntry /\ \A i \in P : history[i].entry # e

\* What the call in progress has yet to send to t, and the positions in the
\* log of what r has yet to execute, its updates being those after off.
Unsent(t) ==
  IF t \in op.rest THEN {i \in DOMAIN log : log[i].entry \in Seen(t)}
  ELSE IF t = op.target THEN op.left ELSE {}
OnWire(r, off) == {off + j : j \in r.left}

HistoryInv ==
  /\ \A i \in DOMAIN log : Accepts(At(log, i - 1), log[i])
  /\ ~p4info => log = <<>>

OnTrack(r, off) ==
  /\ \A j \in r.left : off + j \in DOMAIN log /\ r.updates[j] = log[off + j]
  /\ IF phase = "down"
     THEN Playable(log, dp[r.target], OnWire(r, off))
     ELSE /\ r.target \in members
          /\ \A i \in OnWire(r, off), k \in Unsent(r.target) : i < k
          /\ Completed(log, dp[r.target], Seen(r.target),
                       OnWire(r, off) \cup Unsent(r.target))

WireInv ==
  /\ \A r, q \in rpcs : r.target = q.target => r = q
  /\ \A r \in rpcs : r.ok /\ \E off \in 0..Len(log) : OnTrack(r, off)

MembersInv ==
  /\ \A t \in members : (\A r \in rpcs : r.target # t) =>
       Completed(log, dp[t], Seen(t), Unsent(t))
  /\ IF phase = "down" THEN members = {} ELSE Configured \ Movable \subseteq members

FillInv ==
  /\ phase = "down" => op = IdleOp
  /\ op # IdleOp =>
       /\ op.kind = "fill" /\ op.snap = log
       /\ op.target \in members \ op.rest /\ op.rest \subseteq members
       /\ \A r \in rpcs : op.awaits /\ r.id = OpRequest /\ \A q \in rpcs : q = r

\* The inductive invariant.
SerialInv == TypeOK /\ HistoryInv /\ WireInv /\ MembersInv /\ FillInv
=============================================================================
