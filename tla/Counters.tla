------------------------------ MODULE Counters ------------------------------
(***************************************************************************)
(* The counters of one ProxyP4RuntimeServicer (proxy.py).  Every replica   *)
(* counts its own packets; a Read of the virtual device sums them up, the  *)
(* counts of removed replicas included, which redis keeps                  *)
(* (REMOVED_COUNTER_ENTRIES).  A heartbeat saves the counts                *)
(* (COUNTER_ENTRIES) and a restarted proxy writes them back.               *)
(*                                                                         *)
(* One counter cell stands for all.  An RPC that reads it is answered with *)
(* a count the switch had between the request and the answer.              *)
(*                                                                         *)
(* The proxy is used in one of two ways: "single", a configuration with    *)
(* one target, whose counters are filled from redis; or "manager", the     *)
(* ReplicatedNodeBalancerManager, whose nodes come and go and are not.     *)
(* The operator of a manager is assumed to route the packets away from a   *)
(* node before removing it and to add a removed node again only after      *)
(* restarting its switch.  Targets have no rate limit, redis mode is       *)
(* READWRITE.  Bound: MaxPackets packets in all.                           *)
(***************************************************************************)
EXTENDS Integers, Sequences, FiniteSets, FiniteSetsExt

CONSTANTS Targets,
          Only,      \* the target of a "single" proxy
          Usages,    \* ways the proxy may be used: some of "single", "manager"
          Readers,   \* Reads that controllers may have in progress at a time
          NoTarget, MaxPackets

ASSUME CountersAssumption ==
  /\ IsFiniteSet(Targets) /\ Only \in Targets /\ NoTarget \notin Targets
  /\ Usages \subseteq {"single", "manager"}
  /\ MaxPackets \in Nat

VARIABLES
  usage,
  phase,     \* of the proxy process: "down", "filling", "up"
  members,   \* keys of _target_switches
  p4info,    \* is redis key P4INFO set?
  saved,     \* redis list COUNTER_ENTRIES: one count per member
  archive,   \* redis list REMOVED_COUNTER_ENTRIES, summed up by target
  count,     \* the counter of each switch
  reads,     \* Reads in progress, or the last one
  removing,  \* nodes whose removal awaits their counts
  heart,     \* the heartbeat task
  fill,      \* saved counts still to be written back at start
  \* Observed only:
  routed,    \* targets that packets reach
  passed,    \* packets each target has counted, in all its lives
  gone,      \* removed and archived targets, not restarted since
  durable    \* the largest count saved since the last pipeline

proxy == <<usage, phase, members, p4info, fill>>
redis == <<saved, archive>>
switches == <<count, routed, passed, gone>>
vars == <<proxy, redis, switches, reads, removing, heart, durable>>

\* A walk over targets: at awaits the count of one of them, which was low when
\* asked; left are the targets to come.
NoRead == [pc |-> "idle", at |-> NoTarget, low |-> 0, left |-> {}, sum |-> 0,
           since |-> 0, calm |-> TRUE]
Resting == [pc |-> "idle", at |-> NoTarget, low |-> 0, seen |-> {}, size |-> 0,
            acc |-> <<>>]

Live(t) == IF t \in gone THEN 0 ELSE count[t]

Total(counts, ts) == MapThenSumSet(LAMBDA t : counts[t], ts)

\* What the virtual device has counted: its nodes and those before them.
Archived == Total(archive, Targets)
Held == Archived + Total([t \in Targets |-> Live(t)], members \cup removing)

Packets == Total(passed, Targets)

(***************************************************************************)
(* Read.                                                                   *)
(***************************************************************************)
\* The list of targets is fixed here; without any, nothing is answered, not
\* even what was archived.
ReadBegin(r) ==
  /\ phase = "up" /\ reads[r].pc # "reading"
  /\ IF members = {}
     THEN reads' = [reads EXCEPT ![r] = NoRead]
     ELSE \E t \in members :
            reads' = [reads EXCEPT ![r] =
              [pc |-> "reading", at |-> t, low |-> count[t], left |-> members \ {t},
               sum |-> 0, since |-> Held, calm |-> removing = {}]]
  /\ UNCHANGED <<proxy, redis, switches, removing, heart, durable>>

\* Bug: what was archived is left out.
AnswerOfMembers(sum) == sum

\* merge_duplicates_for_read_answer, with the archive among the answers.
Answer(sum) == sum + Archived

\* A target answers.  The next one is looked up in the dictionary, where it
\* may be missing by now: the Read fails.  After the last one the archive is
\* added.
ReadAnswered(r) ==
  /\ reads[r].pc = "reading"
  /\ \E n \in reads[r].low..count[reads[r].at] :
       LET sum == reads[r].sum + n IN
       IF reads[r].left = {}
       THEN reads' = [reads EXCEPT ![r].pc = "done", ![r].at = NoTarget, ![r].low = 0,
                                          ![r].sum = Answer(sum)]
       ELSE \E t \in reads[r].left :
              IF t \in members
              THEN reads' = [reads EXCEPT ![r].at = t, ![r].low = count[t],
                                          ![r].left = @ \ {t}, ![r].sum = sum]
              ELSE reads' = [reads EXCEPT ![r] = NoRead]
  /\ UNCHANGED <<proxy, redis, switches, removing, heart, durable>>

(***************************************************************************)
(* Nodes come and go.                                                      *)
(***************************************************************************)
\* add_target_switch of a node whose counters are not filled from redis; of
\* a restarted switch nothing is awaited.
AddTarget(t) ==
  /\ phase = "up" /\ usage = "manager"
  /\ t \notin members /\ t \notin removing
  /\ t \in gone => heart.at # t /\ \A r \in Readers : reads[r].at # t
  /\ members' = members \cup {t}
  /\ count' = [count EXCEPT ![t] = Live(t)]
  /\ gone' = gone \ {t}
  /\ UNCHANGED <<usage, phase, p4info, fill, redis, routed, passed, reads, removing, heart, durable>>

\* Bug: the node leaves the dictionary only once it is archived.
RemoveTargetLate(t) ==
  /\ phase = "up" /\ usage = "manager"
  /\ t \in members /\ t \notin routed
  /\ removing' = removing \cup {t}
  /\ reads' = [r \in Readers |-> IF reads[r].pc = "reading" THEN [reads[r] EXCEPT !.calm = FALSE]
                                                           ELSE reads[r]]
  /\ UNCHANGED <<proxy, redis, switches, heart, durable>>

\* remove_target_switch: the node is dropped, then asked for its counts.
RemoveTarget(t) ==
  /\ phase = "up" /\ usage = "manager"
  /\ t \in members /\ t \notin routed
  /\ members' = members \ {t}
  /\ removing' = removing \cup {t}
  /\ reads' = [r \in Readers |-> IF reads[r].pc = "reading" THEN [reads[r] EXCEPT !.calm = FALSE]
                                                           ELSE reads[r]]
  /\ heart' = [heart EXCEPT !.seen = @ \ {t}]
  /\ UNCHANGED <<usage, phase, p4info, fill, redis, switches, durable>>

\* Its counts, unless they are zero, go to the archive.
RemoveAnswered(t) ==
  /\ t \in removing
  /\ removing' = removing \ {t}
  /\ archive' = [archive EXCEPT ![t] = @ + count[t]]
  /\ gone' = gone \cup {t}
  /\ UNCHANGED <<proxy, saved, count, routed, passed, reads, heart, durable>>

(***************************************************************************)
(* heartbeat and save_counters_state_to_redis.  The walk is an iteration   *)
(* over the dictionary itself.  Its next step raises when the size of the  *)
(* dictionary has changed, or when there is one more target after as many  *)
(* as there were at the start (a node added again is a new one, at the     *)
(* end).  Then the heartbeat task is gone.                                 *)
(***************************************************************************)
Save(counts) ==
  /\ saved' = counts
  /\ durable' = IF usage = "single" /\ counts # <<>> /\ counts[1] > durable
                THEN counts[1] ELSE durable
  /\ heart' = Resting

\* Bug: the heartbeat starts before the fill.
MaySaveEarly == phase \in {"filling", "up"} /\ heart.pc = "idle"

MaySave == phase = "up" /\ heart.pc = "idle"

SaveBegin ==
  /\ MaySave
  /\ IF members = {}
     THEN Save(<<>>)
     ELSE /\ \E t \in members :
               heart' = [pc |-> "saving", at |-> t, low |-> count[t], seen |-> {t},
                         size |-> Cardinality(members), acc |-> <<>>]
          /\ UNCHANGED <<saved, durable>>
  /\ UNCHANGED <<proxy, archive, switches, reads, removing>>

SaveAnswered ==
  /\ heart.pc = "saving"
  /\ \E n \in heart.low..count[heart.at] :
       LET acc == Append(heart.acc, n)
           ends == members \subseteq heart.seen
           raises == Cardinality(members) # heart.size \/ (~ends /\ Len(acc) = heart.size)
       IN  \/ /\ raises
              /\ heart' = [Resting EXCEPT !.pc = "dead"]
              /\ UNCHANGED <<saved, durable>>
           \/ ~raises /\ ends /\ Save(acc)
           \/ /\ ~raises
              /\ \E t \in members \ heart.seen :
                   heart' = [heart EXCEPT !.at = t, !.low = count[t],
                                          !.seen = @ \cup {t}, !.acc = acc]
              /\ UNCHANGED <<saved, durable>>
  /\ UNCHANGED <<proxy, archive, switches, reads, removing>>

\* SetForwardingPipelineConfig deletes the saved counts, not the archive.
SetForwardingPipelineConfig ==
  /\ phase = "up"
  /\ p4info' = TRUE /\ saved' = <<>> /\ durable' = 0
  /\ UNCHANGED <<usage, phase, members, fill, archive, switches, reads, removing, heart>>

(***************************************************************************)
(* The process.  A "single" proxy connects to its target, which may clear  *)
(* the switch, and writes the saved counts to it before it listens and     *)
(* before its heartbeat runs.                                              *)
(***************************************************************************)
Start ==
  /\ phase = "down"
  /\ heart' = Resting
  /\ IF usage = "manager"
     THEN members' = {} /\ phase' = "up" /\ fill' = <<>> /\ UNCHANGED count
     ELSE /\ members' = {Only}
          /\ \E n \in {0, count[Only]} : count' = [count EXCEPT ![Only] = n]
          /\ fill' = IF p4info THEN saved ELSE <<>>
          /\ phase' = IF fill' = <<>> THEN "up" ELSE "filling"
  /\ UNCHANGED <<usage, p4info, redis, routed, passed, gone, reads, removing, durable>>

\* The switch takes a saved count, and the proxy goes on.
FillStep ==
  /\ phase = "filling"
  /\ count' = [count EXCEPT ![Only] = Head(fill)]
  /\ fill' = Tail(fill)
  /\ phase' = IF fill' = <<>> THEN "up" ELSE "filling"
  /\ UNCHANGED <<usage, members, p4info, redis, routed, passed, gone, reads, removing, heart, durable>>

Crash ==
  /\ phase # "down"
  /\ phase' = "down" /\ members' = {} /\ fill' = <<>>
  /\ reads' = [r \in Readers |-> NoRead]
  /\ removing' = {} /\ heart' = Resting
  /\ UNCHANGED <<usage, p4info, redis, switches, durable>>

(***************************************************************************)
(* Packets, which do not wait for the proxy.                               *)
(***************************************************************************)
Packet(t) ==
  /\ t \in routed /\ Packets < MaxPackets
  /\ count' = [count EXCEPT ![t] = @ + 1]
  /\ passed' = [passed EXCEPT ![t] = @ + 1]
  /\ UNCHANGED <<proxy, redis, routed, gone, reads, removing, heart, durable>>

\* set_route of the operator: packets reach a node, or no longer do.
Route(t) ==
  /\ usage = "manager" /\ t \in members
  /\ routed' = IF t \in routed THEN routed \ {t} ELSE routed \cup {t}
  /\ UNCHANGED <<proxy, redis, count, passed, gone, reads, removing, heart, durable>>

Init ==
  /\ usage \in Usages
  /\ phase = "down" /\ members = {} /\ p4info = FALSE /\ fill = <<>>
  /\ saved = <<>> /\ archive = [t \in Targets |-> 0]
  /\ count = [t \in Targets |-> 0] /\ passed = [t \in Targets |-> 0]
  /\ routed = IF usage = "single" THEN {Only} ELSE {}
  /\ gone = {} /\ durable = 0
  /\ reads = [r \in Readers |-> NoRead]
  /\ removing = {} /\ heart = Resting

Next ==
  \/ \E r \in Readers : ReadBegin(r) \/ ReadAnswered(r)
  \/ \E t \in Targets : AddTarget(t) \/ RemoveTarget(t) \/ RemoveAnswered(t)
  \/ \E t \in Targets : Packet(t) \/ Route(t)
  \/ SaveBegin \/ SaveAnswered \/ SetForwardingPipelineConfig
  \/ Start \/ FillStep \/ Crash

Spec == Init /\ [][Next]_vars

(***************************************************************************)
(* Properties.                                                             *)
(***************************************************************************)
\* Types; a walk over the targets is at one of them.
TypeOK ==
  /\ usage \in Usages
  /\ phase \in {"down", "filling", "up"}
  /\ members \subseteq Targets
  /\ p4info \in BOOLEAN
  /\ saved \in Seq(Nat) /\ fill \in Seq(Nat) /\ durable \in Nat
  /\ count \in [Targets -> Nat] /\ archive \in [Targets -> Nat] /\ passed \in [Targets -> Nat]
  /\ reads \in [Readers -> [pc : {"idle", "reading", "done"}, at : Targets \cup {NoTarget},
                            low : Nat, left : SUBSET Targets, sum : Nat, since : Nat,
                            calm : BOOLEAN]]
  /\ heart \in [pc : {"idle", "saving", "dead"}, at : Targets \cup {NoTarget}, low : Nat,
                seen : SUBSET Targets, size : Nat, acc : Seq(Nat)]
  /\ \A r \in Readers : reads[r].pc = "reading" => reads[r].low \in 0..count[reads[r].at]
  /\ heart.pc = "saving" => heart.low \in 0..count[heart.at]
  /\ removing \subseteq Targets /\ routed \subseteq Targets /\ gone \subseteq Targets

\* Every packet a node has counted is either still on its switch or in the
\* archive, and never in both: removals, crashes in the middle of them and
\* nodes that come back lose nothing and count nothing twice.
Conserved ==
  usage = "manager" => \A t \in Targets : passed[t] = archive[t] + Live(t)

\* A Read that no removal overlaps is answered with a count the virtual device
\* had between its begin and its end, although its targets are asked one after
\* the other while packets pass and nodes are added.  With a removal it may
\* miss the node or count it twice.
ReadRegular ==
  \A r \in Readers :
    reads[r].pc = "done" /\ reads[r].calm => reads[r].since <= reads[r].sum /\ reads[r].sum <= Held

\* Once a restarted proxy listens, its counter is never behind what redis was
\* told at any time before, however often proxy and switch were restarted and
\* wherever the restarts were cut short.
RestoreKeeps ==
  usage = "single" /\ phase = "up" /\ p4info => count[Only] >= durable
=============================================================================
