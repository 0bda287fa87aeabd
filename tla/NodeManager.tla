---------------------------- MODULE NodeManager ----------------------------
(***************************************************************************)
(* The manager of a replicated node (replicated_node_balancer.py) behind   *)
(* its HTTP interface (testcases/scalable_balancer/balancer_manager.py):   *)
(* add_node and remove_node keep a dictionary of nodes and, through init,  *)
(* a proxy whose targets are these nodes; set_route writes an entry of the *)
(* balancer switch.  Requests overlap at every await; an exception ends    *)
(* its request only.  The manager may be restarted, switches keep what     *)
(* they hold (reset_dataplane is off).                                     *)
(*                                                                         *)
(* The dictionary is the sequence of its entries in order of insertion, a  *)
(* removed one stays as a gap; init walks it by position and fails if the  *)
(* number of entries is not what it was when the walk began.  MaxCalls     *)
(* bounds the requests.                                                    *)
(***************************************************************************)
EXTENDS Integers, Sequences, FiniteSets, SequencesExt

CONSTANTS
  Addresses, Sources, Ports,
  Calls,        \* requests that may be under way at the same time
  MaxCalls, MaxRestarts, MaxFailures

VARIABLES
  nodes,     \* _nodes: [addr, alive, connected]
  targets,   \* addresses of the proxy's targets
  server,    \* proxy_server and balancer_connection: "none", "starting", "ready"
  call,      \* of each call: [op, ...], Done
  known,     \* source_address_data: sources a route was requested for
  routes,    \* entries of the balancer switch: source -> port, 0 without entry
  asked,     \* port last requested for a source, 0 if no call since the start
  refused,   \* answers in a row that refused a route of a source
  failures, calls, restarts,   \* how often so far
  crowd      \* add_node requests in a chain of overlapping ones; Crowded if a
             \* chain had more than two, met a removal, or lost what it connected

vars == <<nodes, targets, server, call, known, routes, asked, refused, failures, calls, restarts, crowd>>
nodeVars == <<nodes, targets, server, crowd>>
routeVars == <<known, routes, asked, refused>>

\* What is asked of the constants: 0 stands for a source without a port.
PortNumbers == Ports \subseteq Nat \ {0}

Crowded == 3
Done == [op |-> "none"]
Active(ops) == {c \in Calls : call[c].op \in ops}
Size(ns) == Cardinality({i \in DOMAIN ns : ns[i].alive})
Live == {nodes[i].addr : i \in {j \in DOMAIN nodes : nodes[j].alive}}

\* self._nodes[address] = NodeHolder(...): in its old place if it is there.
Placed(addr) ==
  LET new == [addr |-> addr, alive |-> TRUE, connected |-> FALSE]
      old == {i \in DOMAIN nodes : nodes[i].alive /\ nodes[i].addr = addr}
  IN IF old = {} THEN Append(nodes, new) ELSE [i \in DOMAIN nodes |-> IF i \in old THEN new ELSE nodes[i]]

Least(S) == CHOOSE j \in S : \A k \in S : j <= k

\* Where the walk w of init goes when nothing is awaited: to the next node
\* without a connection, whose connection it makes and waits for; into a
\* RuntimeError if the dictionary has changed its size, so that what it has
\* connected is not registered; or to its end, the registration.
Onward(ns, w) ==
  LET rest == {j \in DOMAIN ns : j > w.at /\ ns[j].alive /\ ~ns[j].connected} IN
  IF Size(ns) # w.size THEN Done
  ELSE IF rest # {} THEN [w EXCEPT !.at = Least(rest)]
  ELSE IF w.configs # <<>> THEN [op |-> "register", configs |-> w.configs]
  ELSE Done

\* Walks that have connected nodes they have not registered.
Carrying == {c \in Active({"walk"}) : call[c].configs # <<>>}

\* add_node: the entry is made and init begins.
AddNode(c, addr) ==
  /\ call[c] = Done /\ calls < MaxCalls /\ server = "ready"
  /\ nodes' = Placed(addr)
  /\ calls' = calls + 1
  /\ call' = [call EXCEPT ![c] =
       Onward(nodes', [op |-> "walk", at |-> 0, configs |-> <<>>, size |-> Size(nodes')])]
  /\ crowd' = IF Active({"remove"}) # {} \/ addr \in Live \/ Carrying # {} THEN Crowded
              ELSE IF crowd = Crowded THEN Crowded
              ELSE IF Active({"walk", "register"}) = {} THEN 1 ELSE crowd + 1
  /\ UNCHANGED <<targets, server, routeVars, failures, restarts>>

\* Bug: the node is registered only if nobody else has connected it.
ConnectedOnce(c) ==
  LET w == call[c] IN
  /\ w.op = "walk"
  /\ nodes' = [nodes EXCEPT ![w.at].connected = TRUE]
  /\ call' = [call EXCEPT ![c] =
       Onward(nodes', IF nodes[w.at].connected THEN w
                      ELSE [w EXCEPT !.configs = Append(@, nodes[w.at].addr)])]
  /\ UNCHANGED <<targets, server, crowd, routeVars, failures, calls, restarts>>

\* connection.init() is over: the node has its connection, the walk goes on.
Connected(c) ==
  LET w == call[c] IN
  /\ w.op = "walk"
  /\ nodes' = [nodes EXCEPT ![w.at].connected = TRUE]
  /\ call' = [call EXCEPT ![c] =
       Onward(nodes', [w EXCEPT !.configs = Append(@, nodes[w.at].addr)])]
  /\ UNCHANGED <<targets, server, crowd, routeVars, failures, calls, restarts>>

\* connection.init() raises: the request fails, the node stays without a
\* connection until another request comes along.  What the walk has connected
\* before is not registered, nor what a walk that ended in a RuntimeError has
\* left to this one.
ConnectFails(c) ==
  /\ call[c].op = "walk" /\ failures < MaxFailures
  /\ failures' = failures + 1
  /\ call' = [call EXCEPT ![c] = Done]
  /\ crowd' = IF crowd > 1 \/ call[c].configs # <<>> THEN Crowded ELSE crowd
  /\ UNCHANGED <<nodes, targets, server, routeVars, calls, restarts>>

\* proxy_server.add_target_switch of one new target, then of the next when the
\* fill of the first is over.
Register(c) ==
  LET configs == call[c].configs IN
  /\ call[c].op = "register"
  /\ IF configs = <<>> THEN call' = [call EXCEPT ![c] = Done] /\ UNCHANGED targets
     ELSE /\ targets' = targets \cup {Head(configs)}
          /\ call' = [call EXCEPT ![c].configs = Tail(@)]
  /\ UNCHANGED <<nodes, server, crowd, routeVars, failures, calls, restarts>>

\* remove_node: both dictionaries lose the node, then its counters are read.
\* An address that is not there is a KeyError, and so nothing happens; one
\* that is no target yet is an error after the node has gone.
RemoveNode(c, addr) ==
  /\ call[c] = Done /\ calls < MaxCalls /\ addr \in Live
  /\ calls' = calls + 1
  /\ nodes' = [i \in DOMAIN nodes |->
       IF nodes[i].addr = addr THEN [nodes[i] EXCEPT !.alive = FALSE] ELSE nodes[i]]
  /\ targets' = targets \ {addr}
  /\ call' = [call EXCEPT ![c] = IF addr \in targets THEN [op |-> "remove"] ELSE Done]
  /\ crowd' = IF Active({"walk", "register"}) # {} THEN Crowded ELSE crowd
  /\ UNCHANGED <<server, routeVars, failures, restarts>>

Removed(c) ==
  /\ call[c].op = "remove"
  /\ call' = [call EXCEPT ![c] = Done]
  /\ UNCHANGED <<nodeVars, routeVars, failures, calls, restarts>>

\* Bug: a source is noted when its route has been written.
SetRouteUnnoted(c, s, p) ==
  /\ call[c] = Done /\ calls < MaxCalls /\ server = "ready"
  /\ \A d \in Calls : call[d].op = "route" => call[d].source # s
  /\ calls' = calls + 1
  /\ known' = {z \in Sources : asked[z] # 0 /\ refused[z] = 0}
  /\ call' = [call EXCEPT ![c] = [op |-> "route", source |-> s, port |-> p, insert |-> s \notin known']]
  /\ asked' = [asked EXCEPT ![s] = p]
  /\ UNCHANGED <<nodeVars, routes, refused, failures, restarts>>

\* set_route: an INSERT the first time a source is seen, a MODIFY later; the
\* source is noted before the write is sent.  Requests for one source follow
\* each other.
SetRoute(c, s, p) ==
  /\ call[c] = Done /\ calls < MaxCalls /\ server = "ready"
  /\ \A d \in Calls : call[d].op = "route" => call[d].source # s
  /\ calls' = calls + 1
  /\ call' = [call EXCEPT ![c] = [op |-> "route", source |-> s, port |-> p, insert |-> s \notin known]]
  /\ known' = known \cup {s}
  /\ asked' = [asked EXCEPT ![s] = p]
  /\ UNCHANGED <<nodeVars, routes, refused, failures, restarts>>

\* The balancer switch takes an INSERT of what it has not, a MODIFY of what it has.
RouteAnswered(c) ==
  LET r == call[c] IN
  /\ r.op = "route"
  /\ IF r.insert = (routes[r.source] = 0)
     THEN /\ routes' = [routes EXCEPT ![r.source] = r.port]
          /\ refused' = [refused EXCEPT ![r.source] = 0]
     ELSE refused' = [refused EXCEPT ![r.source] = @ + 1] /\ UNCHANGED routes
  /\ call' = [call EXCEPT ![c] = Done]
  /\ UNCHANGED <<nodeVars, known, asked, failures, calls, restarts>>

\* The manager's own first init, without nodes: proxy, then balancer connection.
Ready ==
  /\ server = "starting"
  /\ server' = "ready"
  /\ UNCHANGED <<nodes, targets, crowd, call, routeVars, failures, calls, restarts>>

\* The process ends, with its requests, and another one starts.
Restart ==
  /\ restarts < MaxRestarts /\ restarts' = restarts + 1
  /\ nodes' = <<>> /\ targets' = {} /\ server' = "starting" /\ crowd' = 0
  /\ call' = [c \in Calls |-> Done] /\ known' = {}
  /\ asked' = [s \in Sources |-> 0] /\ refused' = [s \in Sources |-> 0]
  /\ UNCHANGED <<routes, failures, calls>>

Init ==
  /\ nodes = <<>> /\ targets = {} /\ server = "starting" /\ crowd = 0
  /\ call = [c \in Calls |-> Done] /\ known = {} /\ calls = 0 /\ restarts = 0 /\ failures = 0
  /\ routes = [s \in Sources |-> 0] /\ asked = [s \in Sources |-> 0]
  /\ refused = [s \in Sources |-> 0]

Next ==
  \/ Ready \/ Restart
  \/ \E c \in Calls :
        \/ Connected(c) \/ ConnectFails(c) \/ Register(c)
        \/ Removed(c) \/ RouteAnswered(c)
        \/ \E addr \in Addresses : AddNode(c, addr) \/ RemoveNode(c, addr)
        \/ \E s \in Sources, p \in Ports : SetRoute(c, s, p)

Spec == Init /\ [][Next]_vars

Quiet == server = "ready" /\ \A c \in Calls : call[c] = Done

\* Two requests that add nodes may overlap although the walk of the first then
\* fails: once they are over the proxy's targets are the nodes that have a
\* connection, and those are all unless a connection failed.  (Three, or a
\* removal in between, lose a node: it is connected and never a target.  So
\* does a walk that first connects a node left over from a failed connection
\* and then fails itself, for want of a connection or because it is joined.)
TargetsAreNodes ==
  Quiet /\ crowd # Crowded =>
    /\ targets = {nodes[i].addr : i \in {j \in DOMAIN nodes : nodes[j].alive /\ nodes[j].connected}}
    /\ failures = 0 => targets = Live

\* After a restart the switch still has the route and the INSERT is refused;
\* since the source was noted, asking again succeeds.
RetryHeals == \A s \in Sources : refused[s] <= 1

\* A source whose last request succeeded goes where that request said.
RouteFollows ==
  Quiet => \A s \in Sources : asked[s] # 0 /\ refused[s] = 0 => routes[s] = asked[s]

\* Routes come through restarts and refused writes as they were asked for.
RoutesHeld == RetryHeals /\ RouteFollows
=============================================================================
