--------------------------- MODULE MCControllers ---------------------------
(***************************************************************************)
(* What controllers are made of; a behaviour is one of one of them:        *)
(*   "balancer"  a balancer that moves two users between two nodes         *)
(*   "manager"   the manager of a balancer's nodes                         *)
(*   "client"    a synchronous and an asyncio connection to one switch,    *)
(*               with bytes of two bits and fields that do not fill them   *)
(***************************************************************************)
EXTENDS Balancer

CONSTANTS u1, u2, t1, t2, t3, a1, a2, a3,
          Addresses, Sources, Ports, Calls, MaxCalls, MaxRestarts, MaxFailures,
          Clients, Async, MaxPending,
          ByteBits, P4Tables, Actions, Specs, ElectionId, Sends, Resets, Cells, Once, Values

ASSUME
  /\ \A n \in {MaxCalls, MaxRestarts, MaxFailures, MaxPending} : n \in Nat
  /\ Async \subseteq Clients

VARIABLES system,
          nodes, targets, server, call, known, routes, asked, refused, failures, calls, restarts, crowd,
          phase, unread, pipeline, entries, inserted, cells, wanted, wantedCells, pending

M == INSTANCE NodeManager

ASSUME M!PortNumbers

Field(name, id, width, type) == [name |-> name, id |-> id, width |-> width, type |-> type]
MCTables ==
  {[name |-> "mac", alias |-> "m", id |-> 1, fields |-> <<Field("dst", 1, 12, "exact")>>, direct |-> {"direct counter"}],
   [name |-> "fwd", alias |-> "f", id |-> 2, fields |-> <<Field("dst", 1, 8, "lpm")>>, direct |-> {"direct meter"}],
   [name |-> "acl", alias |-> "a", id |-> 3, fields |-> <<Field("port", 1, 3, "exact"), Field("dst", 2, 3, "ternary")>>, direct |-> {"direct counter"}]}
MCActions ==
  {[name |-> "NoAction", id |-> 0, params |-> <<>>],
   [name |-> "send", id |-> 7, params |-> <<[name |-> "port", id |-> 1, width |-> 3]>>]}
Num(n) == [kind |-> "int", of |-> n]
Bytes(s) == [kind |-> "bytes", of |-> s]
Mac(s) == [kind |-> "mac", of |-> s]
Ip(s) == [kind |-> "ip", of |-> s]
Described(table, fields, port) ==
  [table |-> table, fields |-> fields, default |-> (DOMAIN fields = {}), priority |-> 0,
   action |-> "send", params |-> [n \in {"port"} |-> port]]
MCSpecs ==
  {Described("mac", [dst |-> <<Mac(<<0, 0, 0, 0, 1, 2>>)>>], Num(5)),
   Described("mac", [dst |-> <<Num(6)>>], Bytes(<<1, 2>>)),
   Described("mac", [dst |-> <<Num(4096)>>], Num(1)),
   Described("m", [dst |-> <<Num(6)>>], Num(1)),
   Described("mac", [x \in {} |-> x], Num(3)),
   Described("fwd", [dst |-> <<Ip(<<1, 0, 0, 0>>), Num(2)>>], Num(7)),
   Described("fwd", [dst |-> <<Num(64), Num(2)>>], Num(8)),
   Described("fwd", [dst |-> <<Num(64), Num(9)>>], Num(1)),
   Described("fwd", [dst |-> <<Ip(<<4, 0, 0, 0>>), Num(2)>>], Num(1)),
   Described("acl", [port |-> <<Num(1)>>, dst |-> <<Num(2), Bytes(<<1, 2>>)>>], Num(-1)),
   Described("acl", [port |-> <<Num(1)>>, dst |-> <<Num(2), Bytes(<<1, 2>>)>>], Num(0)),
   Described("acl", [port |-> <<Num(1)>>, dst |-> <<Num(4), Num(4)>>], Bytes(<<2, 0>>)),
   Described("acl", [port |-> <<Num(1)>>, dst |-> <<Num(4), Num(4)>>], Num(2))}

MCElectionId == [c \in Clients |-> 1]
MCSends == [c \in Clients |-> TRUE]
MCResets == [c \in Clients |-> c \notin Async]
MCCells == {[kind |-> "counter", id |-> 1, index |-> 0], [kind |-> "meter", id |-> 2, index |-> 0]}
MCOnce == {[kind |-> "digest", id |-> 1]}

C == INSTANCE P4Client WITH Tables <- P4Tables, asked <- wanted, askedCells <- wantedCells

ASSUME ClientAssumption == C!SoundProgram /\ C!SoundRequests

mVars == <<nodes, targets, server, call, known, routes, asked, refused, failures, calls, restarts, crowd>>
cVars == <<phase, unread, pipeline, entries, inserted, cells, wanted, wantedCells, pending>>

MCInit ==
  /\ system \in {"balancer", "manager", "client"} /\ Init /\ M!Init /\ C!Init
  /\ system # "balancer" => mode = "meter" /\ user = [u \in Users |-> 0] /\ todo[1] = u1

BalancerStep == system = "balancer" /\ Next /\ UNCHANGED <<system, mVars, cVars>>
ManagerStep == system = "manager" /\ M!Next /\ UNCHANGED <<system, vars, cVars>>
ClientStep == system = "client" /\ C!Next /\ UNCHANGED <<system, vars, mVars>>
BalancerRuns == system = "balancer" /\ Steps /\ UNCHANGED <<system, mVars, cVars>>

MCNext == BalancerStep \/ ManagerStep \/ ClientStep

MCSpec == MCInit /\ [][MCNext]_<<system, vars, mVars, cVars>> /\ WF_vars(BalancerRuns)

\* Overlapping add_node requests leave the proxy with all nodes.
TargetsAreNodes == M!TargetsAreNodes

\* Routes come through restarts and refused writes as they were asked for.
RoutesHeld == M!RoutesHeld

\* The switch has what callers asked for, tells and keeps it.
Faithful == C!Faithful
=============================================================================
