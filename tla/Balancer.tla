------------------------------ MODULE Balancer ------------------------------
(***************************************************************************)
(* balancer.py and the controllers that use it (testcases/balancer): a     *)
(* balancer switch sends the packets of every user to one of several       *)
(* nodes, the node holds the user's table entries, and set_target_node     *)
(* moves a user by copying its entries, turning the route and deleting     *)
(* the originals.  Every write is a blocking call that the switch may      *)
(* refuse; an error ends the controller where it is.                       *)
(*                                                                         *)
(* A user is moved on a digest that carries the new colour of its meter,   *)
(* or after a look at the counter of its route.  An entry is a table and   *)
(* the user that is its key.  MaxChanges bounds colours and packets.       *)
(***************************************************************************)
EXTENDS Integers, Sequences, FiniteSets, SequencesExt

CONSTANTS
  Users,
  Tables,      \* the tables of a node's program ...
  Keyed,       \* ... those with one match field, which hold entries of users
  NumNodes,
  Colours,     \* what the digest may carry: the colour is the node's index
  MaxChanges,
  Modes        \* subset of {"meter", "counter"}

ASSUME BalancerAssumption ==
  /\ IsFiniteSet(Users) /\ Keyed \subseteq Tables
  /\ NumNodes \in Nat \ {0} /\ Colours \subseteq Nat /\ MaxChanges \in Nat
  /\ Modes \subseteq {"meter", "counter"}

NodeIds == 0..(NumNodes - 1)
Entries == Tables \X Users
OfUser(u) == Keyed \X {u}

VARIABLES
  mode,
  held,      \* entries of each node
  route,     \* the balancer switch's table: node of each user, -1 without entry
  user,      \* self.user: target_node of each user
  todo,      \* users load_entries has still to write
  digests,   \* color_change_digest_t, in order: [user, colour]
  count,     \* direct counter of each route
  turn,      \* counter mode: users of this round still to be looked at
  move,      \* the move in progress, NoMove
  status,    \* "running", "ended", "failed"
  changes    \* colour changes and packets so far

vars == <<mode, held, route, user, todo, digests, count, turn, move, status, changes>>
switchVars == <<held, route>>
inputVars == <<digests, count, changes>>

NoMove == [step |-> "none"]
NoTurn == {}
Idle == status = "running" /\ todo = <<>> /\ move = NoMove

\* The write is refused, the exception leaves the controller's with block.
Fail ==
  /\ status = "running" /\ (todo # <<>> \/ move # NoMove)
  /\ status' = "failed"
  /\ UNCHANGED <<mode, switchVars, user, todo, inputVars, turn, move>>

\* load_entries, one user: its route (and meter) is written.
LoadEntry ==
  /\ status = "running" /\ todo # <<>>
  /\ route' = [route EXCEPT ![Head(todo)] = user[Head(todo)]]
  /\ todo' = Tail(todo)
  /\ UNCHANGED <<mode, held, user, inputVars, turn, move, status>>

\* set_target_node of a user that is known.  A colour that is no node is an
\* IndexError, after target_node was set.
SetTargetNode(u, n) ==
  /\ user' = [user EXCEPT ![u] = n]
  /\ IF n = user[u] THEN UNCHANGED <<move, status>>
     ELSE IF n \notin NodeIds THEN status' = "failed" /\ UNCHANGED move
     ELSE /\ move' = [step |-> "read", user |-> u, source |-> user[u], target |-> n,
                      tables |-> Keyed, entries |-> {}, left |-> {}]
          /\ UNCHANGED status

\* Bug: the newest digest is taken first.
TakeNewest ==
  /\ Idle /\ mode = "meter" /\ digests # <<>>
  /\ SetTargetNode(Last(digests).user, Last(digests).colour)
  /\ digests' = Front(digests)
  /\ UNCHANGED <<mode, switchVars, todo, count, turn, changes>>

\* The controller's loop takes the oldest digest.
TakeDigest ==
  /\ Idle /\ mode = "meter" /\ digests # <<>>
  /\ SetTargetNode(Head(digests).user, Head(digests).colour)
  /\ digests' = Tail(digests)
  /\ UNCHANGED <<mode, switchVars, todo, count, turn, changes>>

\* queue.Empty: no digest for five seconds.
Timeout ==
  /\ Idle /\ mode = "meter" /\ digests = <<>>
  /\ status' = "ended"
  /\ UNCHANGED <<mode, switchVars, user, todo, inputVars, turn, move>>

\* Counter mode: get_direct_counter_objects reads all counters at once, ...
ReadCounters ==
  /\ Idle /\ mode = "counter" /\ turn = NoTurn
  /\ turn' = {[user |-> u, packets |-> count[u]] : u \in {v \in Users : route[v] # -1}}
  /\ UNCHANGED <<mode, switchVars, user, todo, inputVars, move, status>>

\* ... then each is zeroed and its user sent to a node by what was read.
TakeCounter ==
  /\ Idle /\ mode = "counter"
  /\ \E r \in turn :
        /\ turn' = turn \ {r}
        /\ count' = [count EXCEPT ![r.user] = 0]
        /\ SetTargetNode(r.user, IF r.packets > 1 THEN 1 ELSE 0)
  /\ UNCHANGED <<mode, switchVars, todo, digests, changes>>

\* move_to_new_target reads the user's entry in one table of the source, ...
ReadSource(t) ==
  /\ status = "running" /\ move.step = "read" /\ t \in move.tables
  /\ LET entries == move.entries \cup (held[move.source] \cap {<<t, move.user>>})
         done == move.tables = {t} IN
     move' = [move EXCEPT !.tables = @ \ {t}, !.entries = entries,
                          !.step = IF done THEN "copy" ELSE "read",
                          !.left = IF done THEN entries ELSE {}]
  /\ UNCHANGED <<mode, switchVars, user, todo, inputVars, turn, status>>

\* ... writes one entry to the target (an entry that is there is refused), ...
Copy ==
  /\ status = "running" /\ move.step = "copy"
  /\ \E e \in move.left \ held[move.target] :
        /\ held' = [held EXCEPT ![move.target] = @ \cup {e}]
        /\ move' = [move EXCEPT !.left = @ \ {e}]
  /\ UNCHANGED <<mode, route, user, todo, inputVars, turn, status>>

\* Bug: the route is turned as soon as the entries have been read.
TurnEarly ==
  /\ status = "running" /\ move.step = "copy" /\ route[move.user] # move.target
  /\ route' = [route EXCEPT ![move.user] = move.target]
  /\ UNCHANGED <<mode, held, user, todo, inputVars, turn, move, status>>

\* ... turns the route (MODIFY) ...
Turn ==
  /\ status = "running" /\ move.step = "copy" /\ move.left = {} /\ route[move.user] # -1
  /\ route' = [route EXCEPT ![move.user] = move.target]
  /\ move' = [move EXCEPT !.step = "delete", !.left = move.entries]
  /\ UNCHANGED <<mode, held, user, todo, inputVars, turn, status>>

\* ... and deletes the entries from the source.
Delete ==
  /\ status = "running" /\ move.step = "delete"
  /\ \E e \in move.left \cap held[move.source] :
        /\ held' = [held EXCEPT ![move.source] = @ \ {e}]
        /\ move' = [move EXCEPT !.left = @ \ {e}]
  /\ UNCHANGED <<mode, route, user, todo, inputVars, turn, status>>

Moved ==
  /\ status = "running" /\ move.step = "delete" /\ move.left = {}
  /\ move' = NoMove
  /\ UNCHANGED <<mode, switchVars, user, todo, inputVars, turn, status>>

\* Environment: a packet of u passes the balancer.  Its counter goes up, and a
\* colour that has changed is a digest.
Packet(u) ==
  /\ route[u] # -1 /\ changes < MaxChanges
  /\ changes' = changes + 1
  /\ IF mode = "counter" THEN count' = [count EXCEPT ![u] = @ + 1] /\ UNCHANGED digests
     ELSE /\ \E k \in Colours : digests' = Append(digests, [user |-> u, colour |-> k])
          /\ UNCHANGED count
  /\ UNCHANGED <<mode, switchVars, user, todo, turn, move, status>>

\* The controllers fill the nodes, each user's entries where its route will
\* lead, and enter the users, before they load the routes.
Init ==
  /\ mode \in Modes
  /\ user \in [Users -> NodeIds]
  /\ held = [n \in NodeIds |-> UNION {OfUser(u) : u \in {v \in Users : user[v] = n}}]
  /\ route = [u \in Users |-> -1] /\ todo \in SetToSeqs(Users)
  /\ digests = <<>> /\ count = [u \in Users |-> 0] /\ turn = NoTurn
  /\ move = NoMove /\ status = "running" /\ changes = 0

Next ==
  \/ Fail \/ LoadEntry \/ TakeDigest \/ Timeout \/ ReadCounters \/ TakeCounter
  \/ Copy \/ Turn \/ Delete \/ Moved
  \/ \E t \in Tables : ReadSource(t)
  \/ \E u \in Users : Packet(u)

\* The controller is a program that runs; nothing says that switches refuse,
\* or that the last digest arrives before the timeout.
Steps ==
  \/ LoadEntry \/ TakeDigest \/ TakeCounter \/ Copy \/ Turn \/ Delete \/ Moved
  \/ \E t \in Tables : ReadSource(t)

Spec == Init /\ [][Next]_vars /\ WF_vars(Steps)

\* Whatever write of a move is refused, and when: the node a user's packets are
\* sent to holds all entries of the user.
Homed ==
  \A u \in Users : route[u] # -1 => OfUser(u) \subseteq held[route[u]]

\* Between moves the balancer's record, the route and the entries agree, and no
\* other node has kept any of them.
AtRest ==
  Idle => \A u \in Users :
    /\ route[u] = user[u]
    /\ \A n \in NodeIds : held[n] \cap OfUser(u) = (IF n = user[u] THEN OfUser(u) ELSE {})

\* A user's entries are always where its packets go, and nowhere else at rest.
Placed == Homed /\ AtRest

\* The colour u's node will be when the digests that wait have been taken.
LastColour(u) ==
  LET mine == SelectSeq(digests, LAMBDA d : d.user = u)
  IN IF mine = <<>> THEN user[u] ELSE Last(mine).colour

\* Digests are followed to the last one: when no more are sent, the user ends
\* on the node of its last colour unless the controller has ended.
Followed ==
  \A u \in Users, k \in NodeIds :
    (changes = MaxChanges /\ mode = "meter" /\ LastColour(u) = k)
      ~> (status # "running" \/ (Idle /\ digests = <<>> /\ route[u] = k))
=============================================================================
