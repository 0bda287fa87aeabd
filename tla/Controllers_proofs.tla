------------------------- MODULE Controllers_proofs -------------------------
(***************************************************************************)
(* Theorems about the components that MCControllers checks, each           *)
(* under its own specification and for all values of its constants:        *)
(*                                                                         *)
(* Balancer.  Moving users between nodes: wherever a move is broken off,   *)
(* packets find their entries, and between moves nothing is left behind.   *)
(*                                                                         *)
(* NodeManager.  Requests that overlap at every await: which nodes become  *)
(* targets, and which routes hold through refusals and restarts.           *)
(*                                                                         *)
(* P4Client.  Entries built from names and values: the switch holds what   *)
(* the callers asked for, and tells it so that it can be asked for again.  *)
(***************************************************************************)
EXTENDS MCControllers, CommunityLaws, WellFoundedInduction, TLAPS, FiniteSetTheorems

-----------------------------------------------------------------------------
(***************************************************************************)
(* The balancer.                                                           *)
(***************************************************************************)
MoveSteps == {"read", "copy", "delete"}
Moves == [step : MoveSteps, user : Users, source : NodeIds, target : NodeIds,
          tables : SUBSET Keyed, entries : SUBSET (Keyed \X Users), left : SUBSET (Keyed \X Users)]

\* Types, and that no user is moved before all have been loaded.
Typed ==
  /\ held \in [NodeIds -> SUBSET (Keyed \X Users)] /\ route \in [Users -> NodeIds \cup {-1}]
  /\ user \in [Users -> NodeIds \cup Colours \cup {0, 1}] /\ todo \in Seq(Users)
  /\ digests \in Seq([user : Users, colour : Colours]) /\ count \in [Users -> Nat]
  /\ turn \subseteq [user : Users, packets : Nat]
  /\ move \in {NoMove} \cup Moves /\ status \in {"running", "ended", "failed"}
  /\ todo # <<>> => move = NoMove

\* A user who is not on the move: all entries on the recorded node, where the
\* route leads as soon as there is one.
Settled(u) ==
  /\ user[u] \in NodeIds
  /\ \A n \in NodeIds : held[n] \cap OfUser(u) = IF n = user[u] THEN OfUser(u) ELSE {}
  /\ route[u] = user[u] \/ (route[u] = -1 /\ \E i \in 1..Len(todo) : todo[i] = u)

\* The user who is: which entries are where, step by step.
OnTheMove ==
  LET u == move.user  s == move.source  t == move.target  mine(n) == held[n] \cap OfUser(u) IN
  /\ s # t /\ user[u] = t
  /\ \A n \in NodeIds \ {s, t} : mine(n) = {}
  /\ move.step = "read" =>
       /\ mine(s) = OfUser(u) /\ mine(t) = {} /\ route[u] = s
       /\ move.entries = (Keyed \ move.tables) \X {u} /\ move.left = {}
  /\ move.step = "copy" =>
       /\ mine(s) = OfUser(u) /\ route[u] = s
       /\ move.entries = OfUser(u) /\ move.left \subseteq OfUser(u) /\ mine(t) = OfUser(u) \ move.left
  /\ move.step = "delete" =>
       /\ mine(t) = OfUser(u) /\ route[u] = t
       /\ move.entries = OfUser(u) /\ move.left \subseteq OfUser(u) /\ mine(s) = move.left

Located ==
  status = "running" =>
    /\ move = NoMove => \A u \in Users : Settled(u)
    /\ move # NoMove => OnTheMove /\ \A u \in Users \ {move.user} : Settled(u)

IInv == Typed /\ Located /\ Homed

\* The entries of two users have nothing in common.
LEMMA Apart == \A u, v : u # v => OfUser(u) \cap OfUser(v) = {}
  BY DEF OfUser

\* An entry of one user does not touch where the others' are.
LEMMA OthersKept ==
  ASSUME NEW u, NEW v, u # v, NEW S, NEW e \in OfUser(u)
  PROVE  (S \cup {e}) \cap OfUser(v) = S \cap OfUser(v) /\ (S \ {e}) \cap OfUser(v) = S \cap OfUser(v)
  BY Apart

LEMMA NodesAreNumbers == -1 \notin NodeIds
  BY DEF NodeIds

LEMMA RunningHomed == Typed /\ Located /\ status = "running" => Homed
<1> SUFFICES ASSUME Typed, Located, status = "running", NEW u \in Users, route[u] # -1
             PROVE  OfUser(u) \subseteq held[route[u]]
  BY DEF Homed
<1>1. CASE Settled(u)
  <2>1. route[u] = user[u] /\ user[u] \in NodeIds
    BY <1>1 DEF Settled
  <2>2. held[user[u]] \cap OfUser(u) = OfUser(u)
    BY <1>1, <2>1 DEF Settled
  <2> QED BY <2>1, <2>2
<1>2. CASE ~Settled(u)
  <2>1. move # NoMove /\ u = move.user /\ OnTheMove
    BY <1>2 DEF Located
  <2>2. move \in Moves
    BY <2>1 DEF Typed
  <2>3. move.step \in {"read", "copy", "delete"}
    BY <2>2 DEF Moves, MoveSteps
  <2>4. \/ route[u] = move.source /\ held[move.source] \cap OfUser(u) = OfUser(u)
        \/ route[u] = move.target /\ held[move.target] \cap OfUser(u) = OfUser(u)
    BY <2>1, <2>3 DEF OnTheMove
  <2> QED BY <2>4
<1> QED BY <1>1, <1>2

LEMMA RunningHomedNext == (Typed /\ Located /\ status = "running" => Homed)'
  BY RunningHomed, PTL

LEMMA InitIInv == IsFiniteSet(Users) /\ Init => IInv
<1> SUFFICES ASSUME IsFiniteSet(Users), Init PROVE IInv
  OBVIOUS
<1>1. todo \in Seq(Users) /\ \A u \in Users : \E i \in 1..Len(todo) : todo[i] = u
  <2> DEFINE D == 1..Cardinality(Users)
  <2>1. Cardinality(Users) \in Nat
    BY FS_CardinalityType
  <2>2. todo \in [D -> Users] /\ \A i, j \in D : i # j => todo[i] # todo[j]
    BY DEF Init, SetToSeqs
  <2>3. todo \in Seq(Users) /\ Len(todo) = Cardinality(Users)
    BY <2>1, <2>2
  <2>4. todo \in Injection(D, Users)
    BY <2>2 DEF Injection, IsInjective
  <2>5. IsFiniteSet(D) /\ Cardinality(D) = Cardinality(Users)
    BY <2>1, FS_Interval
  <2>6. todo \in Surjection(D, Users)
    BY <2>4, <2>5, FS_Injection
  <2> QED BY <2>3, <2>6 DEF Surjection
<1>2. Typed
  <2>1. held \in [NodeIds -> SUBSET (Keyed \X Users)]
    BY DEF Init, OfUser
  <2> QED BY <1>1, <2>1 DEF Init, Typed, NoTurn
<1>3. ASSUME NEW u \in Users PROVE Settled(u)
  <2>1. \A n \in NodeIds : held[n] \cap OfUser(u) = IF n = user[u] THEN OfUser(u) ELSE {}
    BY Apart DEF Init
  <2> QED BY <1>1, <2>1 DEF Init, Settled
<1>4. Located
  BY <1>3 DEF Located, Init
<1>5. Homed
  BY DEF Init, Homed
<1> QED BY <1>2, <1>4, <1>5 DEF IInv

\* Nothing moves when none of the variables that IInv is about changes.
LEMMA Unmoved ==
  ASSUME IInv, UNCHANGED <<held, route, user, todo, move, status>>
  PROVE  Located' /\ Homed'
<1>1. Located'
  BY DEF IInv, Located, Settled, OnTheMove
<1> QED BY <1>1 DEF IInv, Homed

\* A controller that has ended or failed moves nobody.
LEMMA Stopped ==
  ASSUME IInv, UNCHANGED <<held, route>>, status' # "running"
  PROVE  Located' /\ Homed'
<1>1. Homed'
  BY DEF IInv, Homed
<1> QED BY <1>1 DEF Located

LEMMA SetTargetNodeIInv ==
  ASSUME IInv, Idle, NEW u \in Users, NEW n \in Colours \cup {0, 1}, SetTargetNode(u, n),
         UNCHANGED <<held, route, todo>>
  PROVE  /\ user' \in [Users -> NodeIds \cup Colours \cup {0, 1}]
         /\ move' \in {NoMove} \cup Moves /\ status' \in {"running", "ended", "failed"}
         /\ Located' /\ Homed'
<1>1. user' = [user EXCEPT ![u] = n] /\ user \in [Users -> NodeIds \cup Colours \cup {0, 1}]
  BY DEF SetTargetNode, IInv, Typed
<1>2. move = NoMove /\ status = "running" /\ todo = <<>>
  BY DEF Idle
<1>3. \A v \in Users : Settled(v)
  BY <1>2 DEF IInv, Located
<1>4. \A v \in Users : route[v] = user[v]
  BY <1>2, <1>3 DEF Settled
<1>5. CASE n = user[u]
  <2>1. user' = user /\ UNCHANGED <<move, status>>
    BY <1>1, <1>5 DEF SetTargetNode
  <2> QED BY <1>1, <1>2, <2>1, Unmoved
<1>6. CASE n # user[u] /\ n \notin NodeIds
  <2>1. status' = "failed" /\ move' = move
    BY <1>6 DEF SetTargetNode
  <2> QED BY <1>1, <1>2, <2>1, Stopped
<1>7. CASE n # user[u] /\ n \in NodeIds
  <2>1. /\ status' = status
        /\ move' = [step |-> "read", user |-> u, source |-> user[u], target |-> n,
                    tables |-> Keyed, entries |-> {}, left |-> {}]
    BY <1>7 DEF SetTargetNode
  <2>2. user[u] \in NodeIds
    BY <1>3 DEF Settled
  <2>3. move' \in Moves
    BY <2>1, <2>2, <1>7 DEF Moves, MoveSteps
  <2>4. move' # NoMove
    BY <2>1 DEF NoMove
  <2>5. OnTheMove'
    <3>1. /\ held[user[u]] \cap OfUser(u) = OfUser(u)
          /\ \A m \in NodeIds \ {user[u]} : held[m] \cap OfUser(u) = {}
      BY <1>3, <2>2 DEF Settled
    <3>2. user'[u] = n
      BY <1>1
    <3>3. (Keyed \ Keyed) \X {u} = {}
      OBVIOUS
    <3> QED BY <2>1, <1>4, <1>7, <3>1, <3>2, <3>3 DEF OnTheMove
  <2>6. \A v \in Users \ {u} : Settled(v)'
    BY <1>1, <1>3 DEF Settled
  <2>7. Located'
    BY <2>1, <2>4, <2>5, <2>6 DEF Located
  <2>8. Homed'
    BY DEF IInv, Homed
  <2> QED BY <1>1, <1>2, <2>1, <2>3, <2>7, <2>8
<1> QED BY <1>5, <1>6, <1>7

\* The steps of a move.  What they share: a move is on, and it is one of Moves.
LEMMA MoveOn ==
  ASSUME IInv, status = "running", move.step \in MoveSteps
  PROVE  /\ move \in Moves /\ move # NoMove /\ OnTheMove
         /\ \A v \in Users \ {move.user} : Settled(v)
<1>1. move # NoMove
  BY DEF NoMove, MoveSteps
<1>2. move \in Moves
  BY <1>1 DEF IInv, Typed
<1> QED BY <1>1, <1>2 DEF IInv, Located

LEMMA ReadSourceIInv ==
  ASSUME IInv, NEW t \in Tables, ReadSource(t)
  PROVE  IInv'
<1>1. status = "running" /\ move.step = "read" /\ t \in move.tables
  BY DEF ReadSource
<1>2. /\ move \in Moves /\ move # NoMove /\ OnTheMove
      /\ \A v \in Users \ {move.user} : Settled(v)
  BY <1>1, MoveOn DEF MoveSteps
<1> DEFINE found == move.entries \cup (held[move.source] \cap {<<t, move.user>>})
           done == move.tables = {t}
<1>3. move' = [move EXCEPT !.tables = @ \ {t}, !.entries = found,
                           !.step = IF done THEN "copy" ELSE "read",
                           !.left = IF done THEN found ELSE {}]
  BY DEF ReadSource
<1>4. UNCHANGED <<held, route, user, todo, digests, count, turn, status>>
  BY DEF ReadSource, switchVars, inputVars
<1>5. /\ move.user \in Users /\ move.source \in NodeIds /\ move.tables \subseteq Keyed
      /\ move.entries \subseteq Keyed \X Users
  BY <1>2 DEF Moves
<1>6. <<t, move.user>> \in OfUser(move.user) /\ <<t, move.user>> \in held[move.source]
  <2>1. t \in Keyed
    BY <1>1, <1>5
  <2> QED BY <1>1, <1>2, <2>1 DEF OnTheMove, OfUser
<1>7. found = (Keyed \ (move.tables \ {t})) \X {move.user}
  <2>1. move.entries = (Keyed \ move.tables) \X {move.user}
    BY <1>1, <1>2 DEF OnTheMove
  <2>2. t \in Keyed
    BY <1>1, <1>5
  <2> QED BY <1>6, <2>1, <2>2
<1>8. done => found = OfUser(move.user)
  BY <1>7 DEF OfUser
<1>9. move' \in Moves
  <2>1. found \subseteq Keyed \X Users
    BY <1>5, <1>7
  <2> QED BY <1>2, <1>3, <2>1 DEF Moves, MoveSteps
<1>10. /\ move'.user = move.user /\ move'.source = move.source /\ move'.target = move.target
       /\ move'.tables = move.tables \ {t} /\ move'.entries = found
       /\ move'.step = (IF done THEN "copy" ELSE "read")
       /\ move'.left = (IF done THEN found ELSE {})
  BY <1>2, <1>3 DEF Moves
<1>11. move' # NoMove
  BY <1>10 DEF NoMove
<1>12. Typed'
  BY <1>2, <1>4, <1>9 DEF IInv, Typed
<1>13. OnTheMove'
  <2>1. /\ move.source # move.target /\ user[move.user] = move.target
        /\ held[move.source] \cap OfUser(move.user) = OfUser(move.user)
        /\ held[move.target] \cap OfUser(move.user) = {} /\ route[move.user] = move.source
        /\ \A n \in NodeIds \ {move.source, move.target} : held[n] \cap OfUser(move.user) = {}
    BY <1>1, <1>2 DEF OnTheMove
  <2>2. CASE done
    BY <1>4, <1>8, <1>10, <2>1, <2>2 DEF OnTheMove
  <2>3. CASE ~done
    BY <1>4, <1>7, <1>10, <2>1, <2>3 DEF OnTheMove
  <2> QED BY <2>2, <2>3
<1>14. \A v \in Users \ {move'.user} : Settled(v)'
  BY <1>2, <1>4, <1>10 DEF Settled
<1>15. Located' /\ Homed'
  BY <1>4, <1>11, <1>13, <1>14 DEF Located, IInv, Homed
<1> QED BY <1>12, <1>15 DEF IInv

\* Where an entry of the user who moves is written or deleted, the others'
\* entries stay as they are.
LEMMA OneEntry ==
  ASSUME IInv, NEW u \in Users, NEW e \in OfUser(u), NEW n \in NodeIds, NEW S,
         S = held[n] \cup {e} \/ S = held[n] \ {e},
         held' = [held EXCEPT ![n] = S], UNCHANGED <<route, user, todo>>,
         \A v \in Users \ {u} : Settled(v)
  PROVE  /\ \A m \in NodeIds : held'[m] = IF m = n THEN S ELSE held[m]
         /\ held' \in [NodeIds -> SUBSET (Keyed \X Users)]
         /\ \A v \in Users \ {u} : Settled(v)'
<1>1. held \in [NodeIds -> SUBSET (Keyed \X Users)]
  BY DEF IInv, Typed
<1>2. \A m \in NodeIds : held'[m] = IF m = n THEN S ELSE held[m]
  BY <1>1
<1>3. e \in Keyed \X Users
  BY DEF OfUser
<1>4. held' \in [NodeIds -> SUBSET (Keyed \X Users)]
  BY <1>1, <1>3
<1>5. ASSUME NEW v \in Users \ {u} PROVE Settled(v)'
  <2>1. S \cap OfUser(v) = held[n] \cap OfUser(v)
    BY OthersKept
  <2>2. \A m \in NodeIds : held'[m] \cap OfUser(v) = held[m] \cap OfUser(v)
    BY <1>2, <2>1
  <2> QED BY <2>2 DEF Settled
<1> QED BY <1>2, <1>4, <1>5

LEMMA CopyIInv == IInv /\ Copy => IInv'
<1> SUFFICES ASSUME IInv, Copy PROVE IInv'
  OBVIOUS
<1>1. status = "running" /\ move.step = "copy"
  BY DEF Copy
<1>2. /\ move \in Moves /\ move # NoMove /\ OnTheMove
      /\ \A v \in Users \ {move.user} : Settled(v)
  BY <1>1, MoveOn DEF MoveSteps
<1> DEFINE u == move.user  s == move.source  t == move.target
<1>3. PICK e \in move.left \ held[t] :
        /\ held' = [held EXCEPT ![t] = held[t] \cup {e}]
        /\ move' = [move EXCEPT !.left = @ \ {e}]
  <2>1. t \in DOMAIN held
    BY <1>2 DEF Moves, IInv, Typed
  <2> QED BY <2>1 DEF Copy
<1>4. UNCHANGED <<route, user, todo, digests, count, turn, status>>
  BY DEF Copy, inputVars
<1>5. /\ u \in Users /\ s \in NodeIds /\ t \in NodeIds /\ s # t
      /\ held[s] \cap OfUser(u) = OfUser(u) /\ route[u] = s /\ user[u] = t
      /\ move.entries = OfUser(u) /\ move.left \subseteq OfUser(u)
      /\ held[t] \cap OfUser(u) = OfUser(u) \ move.left
      /\ \A n \in NodeIds \ {s, t} : held[n] \cap OfUser(u) = {}
  BY <1>1, <1>2 DEF Moves, OnTheMove
<1>6. e \in OfUser(u)
  BY <1>5
<1>7. /\ \A m \in NodeIds : held'[m] = IF m = t THEN held[t] \cup {e} ELSE held[m]
      /\ held' \in [NodeIds -> SUBSET (Keyed \X Users)]
      /\ \A v \in Users \ {u} : Settled(v)'
  BY <1>2, <1>3, <1>4, <1>5, <1>6, OneEntry
<1>8. /\ move' \in Moves /\ move'.user = u /\ move'.source = s /\ move'.target = t
      /\ move'.entries = move.entries /\ move'.step = "copy" /\ move'.left = move.left \ {e}
  BY <1>1, <1>2, <1>3 DEF Moves
<1>9. move' # NoMove
  BY <1>8 DEF NoMove
<1>10. Typed'
  BY <1>2, <1>4, <1>7, <1>8 DEF IInv, Typed
<1>11. OnTheMove'
  <2>1. held'[t] \cap OfUser(u) = OfUser(u) \ move'.left
    BY <1>5, <1>6, <1>7, <1>8
  <2>2. held'[s] = held[s] /\ \A n \in NodeIds \ {s, t} : held'[n] = held[n]
    BY <1>5, <1>7
  <2> QED BY <1>4, <1>5, <1>8, <2>1, <2>2 DEF OnTheMove
<1>12. Located'
  BY <1>7, <1>8, <1>9, <1>11 DEF Located
<1>13. Homed'
  BY <1>1, <1>4, <1>10, <1>12, RunningHomedNext
<1> QED BY <1>10, <1>12, <1>13 DEF IInv

LEMMA TurnIInv == IInv /\ Turn => IInv'
<1> SUFFICES ASSUME IInv, Turn PROVE IInv'
  OBVIOUS
<1>1. status = "running" /\ move.step = "copy" /\ move.left = {}
  BY DEF Turn
<1>2. /\ move \in Moves /\ move # NoMove /\ OnTheMove
      /\ \A v \in Users \ {move.user} : Settled(v)
  BY <1>1, MoveOn DEF MoveSteps
<1> DEFINE u == move.user  s == move.source  t == move.target
<1>3. /\ route' = [route EXCEPT ![u] = t]
      /\ move' = [move EXCEPT !.step = "delete", !.left = move.entries]
      /\ UNCHANGED <<held, user, todo, digests, count, turn, status>>
  BY DEF Turn, inputVars
<1>4. /\ u \in Users /\ s \in NodeIds /\ t \in NodeIds /\ s # t
      /\ held[s] \cap OfUser(u) = OfUser(u) /\ user[u] = t /\ move.entries = OfUser(u)
      /\ held[t] \cap OfUser(u) = OfUser(u)
      /\ \A n \in NodeIds \ {s, t} : held[n] \cap OfUser(u) = {}
  BY <1>1, <1>2 DEF Moves, OnTheMove
<1>5. /\ move' \in Moves /\ move'.user = u /\ move'.source = s /\ move'.target = t
      /\ move'.entries = OfUser(u) /\ move'.step = "delete" /\ move'.left = OfUser(u)
  BY <1>2, <1>3, <1>4 DEF Moves, MoveSteps
<1>6. move' # NoMove
  BY <1>5 DEF NoMove
<1>7. route \in [Users -> NodeIds \cup {-1}] /\ route'[u] = t /\ \A v \in Users \ {u} : route'[v] = route[v]
  BY <1>3, <1>4 DEF IInv, Typed
<1>8. Typed'
  BY <1>2, <1>3, <1>4, <1>5, <1>7 DEF IInv, Typed
<1>9. OnTheMove'
  BY <1>3, <1>4, <1>5, <1>7 DEF OnTheMove
<1>10. \A v \in Users \ {u} : Settled(v)'
  BY <1>2, <1>3, <1>7 DEF Settled
<1>11. Located'
  BY <1>5, <1>6, <1>9, <1>10 DEF Located
<1> QED BY <1>1, <1>3, <1>8, <1>11, RunningHomedNext DEF IInv

LEMMA DeleteIInv == IInv /\ Delete => IInv'
<1> SUFFICES ASSUME IInv, Delete PROVE IInv'
  OBVIOUS
<1>1. status = "running" /\ move.step = "delete"
  BY DEF Delete
<1>2. /\ move \in Moves /\ move # NoMove /\ OnTheMove
      /\ \A v \in Users \ {move.user} : Settled(v)
  BY <1>1, MoveOn DEF MoveSteps
<1> DEFINE u == move.user  s == move.source  t == move.target
<1>3. PICK e \in move.left \cap held[s] :
        /\ held' = [held EXCEPT ![s] = held[s] \ {e}]
        /\ move' = [move EXCEPT !.left = @ \ {e}]
  <2>1. s \in DOMAIN held
    BY <1>2 DEF Moves, IInv, Typed
  <2> QED BY <2>1 DEF Delete
<1>4. UNCHANGED <<route, user, todo, digests, count, turn, status>>
  BY DEF Delete, inputVars
<1>5. /\ u \in Users /\ s \in NodeIds /\ t \in NodeIds /\ s # t
      /\ held[t] \cap OfUser(u) = OfUser(u) /\ route[u] = t /\ user[u] = t
      /\ move.entries = OfUser(u) /\ move.left \subseteq OfUser(u)
      /\ held[s] \cap OfUser(u) = move.left
      /\ \A n \in NodeIds \ {s, t} : held[n] \cap OfUser(u) = {}
  BY <1>1, <1>2 DEF Moves, OnTheMove
<1>6. e \in OfUser(u)
  BY <1>5
<1>7. /\ \A m \in NodeIds : held'[m] = IF m = s THEN held[s] \ {e} ELSE held[m]
      /\ held' \in [NodeIds -> SUBSET (Keyed \X Users)]
      /\ \A v \in Users \ {u} : Settled(v)'
  BY <1>2, <1>3, <1>4, <1>5, <1>6, OneEntry
<1>8. /\ move' \in Moves /\ move'.user = u /\ move'.source = s /\ move'.target = t
      /\ move'.entries = move.entries /\ move'.step = "delete" /\ move'.left = move.left \ {e}
  BY <1>1, <1>2, <1>3 DEF Moves
<1>9. move' # NoMove
  BY <1>8 DEF NoMove
<1>10. Typed'
  BY <1>2, <1>4, <1>7, <1>8 DEF IInv, Typed
<1>11. OnTheMove'
  <2>1. held'[s] \cap OfUser(u) = move'.left
    BY <1>5, <1>6, <1>7, <1>8
  <2>2. held'[t] = held[t] /\ \A n \in NodeIds \ {s, t} : held'[n] = held[n]
    BY <1>5, <1>7
  <2> QED BY <1>4, <1>5, <1>8, <2>1, <2>2 DEF OnTheMove
<1>12. Located'
  BY <1>7, <1>8, <1>9, <1>11 DEF Located
<1> QED BY <1>1, <1>4, <1>10, <1>12, RunningHomedNext DEF IInv

LEMMA MovedIInv == IInv /\ Moved => IInv'
<1> SUFFICES ASSUME IInv, Moved PROVE IInv'
  OBVIOUS
<1>1. /\ status = "running" /\ move.step = "delete" /\ move.left = {} /\ move' = NoMove
      /\ UNCHANGED <<held, route, user, todo, digests, count, turn, status>>
  BY DEF Moved, switchVars, inputVars
<1>2. /\ move \in Moves /\ move # NoMove /\ OnTheMove
      /\ \A v \in Users \ {move.user} : Settled(v)
  BY <1>1, MoveOn DEF MoveSteps
<1>3. Settled(move.user)
  <2>1. /\ user[move.user] = move.target /\ move.target \in NodeIds /\ move.source # move.target
        /\ held[move.target] \cap OfUser(move.user) = OfUser(move.user)
        /\ held[move.source] \cap OfUser(move.user) = {} /\ route[move.user] = move.target
        /\ \A n \in NodeIds \ {move.source, move.target} : held[n] \cap OfUser(move.user) = {}
    BY <1>1, <1>2 DEF OnTheMove, Moves
  <2> QED BY <2>1 DEF Settled
<1>4. \A v \in Users : Settled(v)
  BY <1>2, <1>3
<1>5. Located'
  BY <1>1, <1>4 DEF Located, Settled
<1>6. Typed' /\ Homed'
  BY <1>1 DEF IInv, Typed, Homed
<1> QED BY <1>5, <1>6 DEF IInv

LEMMA LoadEntryIInv == IInv /\ LoadEntry => IInv'
<1> SUFFICES ASSUME IInv, LoadEntry PROVE IInv'
  OBVIOUS
<1>1. /\ status = "running" /\ todo # <<>>
      /\ route' = [route EXCEPT ![Head(todo)] = user[Head(todo)]] /\ todo' = Tail(todo)
      /\ UNCHANGED <<held, user, digests, count, turn, move, status>>
  BY DEF LoadEntry, inputVars
<1>2. move = NoMove /\ todo \in Seq(Users)
  BY <1>1 DEF IInv, Typed
<1>3. \A v \in Users : Settled(v)
  BY <1>1, <1>2 DEF IInv, Located
<1>4. Head(todo) = todo[1] /\ Head(todo) \in Users /\ todo' \in Seq(Users)
  BY <1>1, <1>2
<1>5. \A v \in Users : route'[v] = IF v = Head(todo) THEN user[Head(todo)] ELSE route[v]
  BY <1>1, <1>4 DEF IInv, Typed
<1>6. ASSUME NEW v \in Users PROVE Settled(v)'
  <2>1. CASE v = Head(todo)
    BY <1>1, <1>3, <1>5, <2>1 DEF Settled
  <2>2. CASE v # Head(todo)
    <3>1. CASE route[v] = user[v]
      BY <1>1, <1>3, <1>5, <2>2, <3>1 DEF Settled
    <3>2. CASE route[v] = -1 /\ \E i \in 1..Len(todo) : todo[i] = v
      <4>1. PICK i \in 1..Len(todo) : todo[i] = v
        BY <3>2
      <4>2. i # 1
        BY <1>4, <2>2, <4>1
      <4>3. Len(Tail(todo)) = Len(todo) - 1 /\ Tail(todo)[i - 1] = todo[i] /\ i - 1 \in 1..Len(Tail(todo))
        BY <1>1, <1>2, <4>1, <4>2
      <4> QED BY <1>1, <1>3, <1>5, <2>2, <3>2, <4>1, <4>3 DEF Settled
    <3> QED BY <1>3, <3>1, <3>2 DEF Settled
  <2> QED BY <2>1, <2>2
<1>7. Located'
  BY <1>1, <1>2, <1>6 DEF Located
<1>8. route' \in [Users -> NodeIds \cup {-1}]
  <2>1. user[Head(todo)] \in NodeIds
    BY <1>3, <1>4 DEF Settled
  <2> QED BY <1>1, <2>1 DEF IInv, Typed
<1>9. Typed'
  BY <1>1, <1>2, <1>4, <1>8 DEF IInv, Typed
<1> QED BY <1>1, <1>7, <1>9, RunningHomedNext DEF IInv

LEMMA TakeDigestIInv == IInv /\ TakeDigest => IInv'
<1> SUFFICES ASSUME IInv, TakeDigest PROVE IInv'
  OBVIOUS
<1>1. /\ Idle /\ digests # <<>> /\ SetTargetNode(Head(digests).user, Head(digests).colour)
      /\ digests' = Tail(digests) /\ UNCHANGED <<held, route, todo, count, turn>>
  BY DEF TakeDigest, switchVars
<1>2. Head(digests) \in [user : Users, colour : Colours] /\ digests' \in Seq([user : Users, colour : Colours])
  <2> DEFINE D == [user : Users, colour : Colours]
  <2>1. digests \in Seq(D) /\ digests # <<>> /\ digests' = Tail(digests)
    BY <1>1 DEF IInv, Typed
  <2> HIDE DEF D
  <2>2. Head(digests) \in D /\ Tail(digests) \in Seq(D)
    BY <2>1
  <2> QED BY <2>1, <2>2 DEF D
<1>3. /\ user' \in [Users -> NodeIds \cup Colours \cup {0, 1}]
      /\ move' \in {NoMove} \cup Moves /\ status' \in {"running", "ended", "failed"}
      /\ Located' /\ Homed'
  BY <1>1, <1>2, SetTargetNodeIInv
<1>4. Typed'
  BY <1>1, <1>2, <1>3 DEF IInv, Typed, Idle
<1> QED BY <1>3, <1>4 DEF IInv

LEMMA TakeCounterIInv == IInv /\ TakeCounter => IInv'
<1> SUFFICES ASSUME IInv, TakeCounter PROVE IInv'
  OBVIOUS
<1>1. Idle /\ UNCHANGED <<held, route, todo, digests>>
  BY DEF TakeCounter, switchVars
<1>2. PICK r \in turn :
        /\ turn' = turn \ {r} /\ count' = [count EXCEPT ![r.user] = 0]
        /\ SetTargetNode(r.user, IF r.packets > 1 THEN 1 ELSE 0)
  BY DEF TakeCounter
<1>3. r.user \in Users /\ turn' \subseteq [user : Users, packets : Nat] /\ count' \in [Users -> Nat]
  BY <1>2 DEF IInv, Typed
<1>4. /\ user' \in [Users -> NodeIds \cup Colours \cup {0, 1}]
      /\ move' \in {NoMove} \cup Moves /\ status' \in {"running", "ended", "failed"}
      /\ Located' /\ Homed'
  BY <1>1, <1>2, <1>3, SetTargetNodeIInv
<1>5. Typed'
  BY <1>1, <1>3, <1>4 DEF IInv, Typed, Idle
<1> QED BY <1>4, <1>5 DEF IInv

LEMMA PacketIInv == ASSUME IInv, NEW u \in Users, Packet(u) PROVE IInv'
<1>1. UNCHANGED <<held, route, user, todo, turn, move, status>>
  BY DEF Packet, switchVars
<1>2. digests' \in Seq([user : Users, colour : Colours]) /\ count' \in [Users -> Nat]
  <2>1. digests \in Seq([user : Users, colour : Colours]) /\ count \in [Users -> Nat]
    BY DEF IInv, Typed
  <2>2. CASE mode = "counter"
    BY <2>1, <2>2 DEF Packet
  <2>3. CASE mode # "counter"
    <3>1. PICK k \in Colours : digests' = Append(digests, [user |-> u, colour |-> k])
      BY <2>3 DEF Packet
    <3> QED BY <2>1, <2>3, <3>1 DEF Packet
  <2> QED BY <2>2, <2>3
<1>3. Typed'
  BY <1>1, <1>2 DEF IInv, Typed
<1> QED BY <1>1, <1>3, Unmoved DEF IInv

LEMMA StepIInv == IInv /\ [Next]_vars => IInv'
<1> SUFFICES ASSUME IInv, [Next]_vars PROVE IInv'
  OBVIOUS
<1>1. CASE Fail
  <2>1. UNCHANGED <<held, route, user, todo, digests, count, turn, move>> /\ status' = "failed"
    BY <1>1 DEF Fail, switchVars, inputVars
  <2>2. Typed'
    BY <2>1 DEF IInv, Typed
  <2> QED BY <2>1, <2>2, Stopped DEF IInv
<1>2. CASE LoadEntry
  BY <1>2, LoadEntryIInv
<1>3. CASE TakeDigest
  BY <1>3, TakeDigestIInv
<1>4. CASE Timeout
  <2>1. UNCHANGED <<held, route, user, todo, digests, count, turn, move>> /\ status' = "ended"
    BY <1>4 DEF Timeout, switchVars, inputVars
  <2>2. Typed'
    BY <2>1 DEF IInv, Typed
  <2> QED BY <2>1, <2>2, Stopped DEF IInv
<1>5. CASE ReadCounters
  <2>1. /\ turn' = {[user |-> u, packets |-> count[u]] : u \in {v \in Users : route[v] # -1}}
        /\ UNCHANGED <<held, route, user, todo, digests, count, move, status>>
    BY <1>5 DEF ReadCounters, switchVars, inputVars
  <2>2. turn' \subseteq [user : Users, packets : Nat]
    BY <2>1 DEF IInv, Typed
  <2>3. Typed'
    BY <2>1, <2>2 DEF IInv, Typed
  <2> QED BY <2>1, <2>3, Unmoved DEF IInv
<1>6. CASE TakeCounter
  BY <1>6, TakeCounterIInv
<1>7. CASE Copy
  BY <1>7, CopyIInv
<1>8. CASE Turn
  BY <1>8, TurnIInv
<1>9. CASE Delete
  BY <1>9, DeleteIInv
<1>10. CASE Moved
  BY <1>10, MovedIInv
<1>11. CASE \E t \in Tables : ReadSource(t)
  BY <1>11, ReadSourceIInv
<1>12. CASE \E u \in Users : Packet(u)
  BY <1>12, PacketIInv
<1>13. CASE UNCHANGED vars
  <2>1. UNCHANGED <<held, route, user, todo, digests, count, turn, move, status>>
    BY <1>13 DEF vars
  <2>2. Typed'
    BY <2>1 DEF IInv, Typed
  <2> QED BY <2>1, <2>2, Unmoved DEF IInv
<1> QED
  BY <1>1, <1>2, <1>3, <1>4, <1>5, <1>6, <1>7, <1>8, <1>9, <1>10, <1>11, <1>12, <1>13 DEF Next

\* The node a user's packets are sent to holds all entries of the user,
\* whichever write of balancer.py fails, for any number of users, nodes, tables.
THEOREM AlwaysHomed == Spec => []Homed
<1>1. IInv => Homed
  BY DEF IInv
<1>2. Init => IInv
  BY InitIInv, BalancerAssumption
<1> QED BY <1>1, <1>2, StepIInv, PTL DEF Spec

\* Between moves the record of balancer.py, the routes and the entries agree,
\* and a move has left nothing on the node it came from.
THEOREM AlwaysAtRest == Spec => []AtRest
<1>1. IInv => AtRest
  <2> SUFFICES ASSUME IInv, Idle, NEW u \in Users
               PROVE  /\ route[u] = user[u]
                      /\ \A n \in NodeIds :
                           held[n] \cap OfUser(u) = (IF n = user[u] THEN OfUser(u) ELSE {})
    BY DEF AtRest
  <2>1. Settled(u) /\ todo = <<>>
    BY DEF IInv, Located, Idle
  <2>2. Len(todo) = 0
    BY <2>1
  <2> QED BY <2>1, <2>2 DEF Settled
<1>2. Init => IInv
  BY InitIInv, BalancerAssumption
<1> QED BY <1>1, <1>2, StepIInv, PTL DEF Spec

\* Both at once: what the balancer promises of where entries are.
THEOREM AlwaysPlaced == Spec => []Placed
<1>1. Homed /\ AtRest => Placed
  BY DEF Placed
<1> QED BY <1>1, AlwaysHomed, AlwaysAtRest, PTL
-----------------------------------------------------------------------------
(***************************************************************************)
(* The node manager.                                                       *)
(***************************************************************************)
Node == [addr : Addresses, alive : BOOLEAN, connected : BOOLEAN]
Walks == [op : {"walk"}, at : Nat, configs : Seq(Addresses), size : Nat]
Registrations == [op : {"register"}, configs : Seq(Addresses)]
RouteCalls == [op : {"route"}, source : Sources, port : Ports, insert : BOOLEAN]

\* Types, and that a walk is at a node.
ManagerTyped ==
  /\ nodes \in Seq(Node) /\ targets \subseteq Addresses /\ server \in {"starting", "ready"}
  /\ call \in [Calls -> {M!Done, [op |-> "remove"]} \cup Walks \cup Registrations \cup RouteCalls]
  /\ known \subseteq Sources /\ routes \in [Sources -> Nat] /\ asked \in [Sources -> Nat]
  /\ refused \in [Sources -> Nat] /\ failures \in Nat /\ crowd \in 0..M!Crowded
  /\ \A c \in M!Active({"walk"}) : call[c].at \in DOMAIN nodes

\* Walks that will get to their end, since the dictionary has the size it had.
Viable == {c \in M!Active({"walk"}) : call[c].size = M!Size(nodes)}
Busy == M!Active({"walk", "register"})

\* Addresses of connected nodes, and places of nodes without a connection.
Connections == {nodes[i].addr : i \in {j \in DOMAIN nodes : nodes[j].alive /\ nodes[j].connected}}
Missing == {i \in DOMAIN nodes : nodes[i].alive /\ ~nodes[i].connected}

\* Addresses that are going to be registered: a request has connected them, ...
Carried == UNION {ToSet(call[c].configs) : c \in M!Active({"register"}) \cup Viable}
\* ... or finds, when its own connection is there, that another one has.
InHand == {nodes[call[c].at].addr : c \in {d \in Viable : nodes[call[d].at].connected}}

\* How many requests there are, by the length of the chain.
Overlap ==
  /\ crowd = 0 => Busy = {}
  /\ crowd = 1 => /\ \A c, d \in Busy : c = d
                  /\ \A c \in M!Active({"walk"}) : c \in Viable /\ call[c].at \in Missing
  /\ \A c, d \in Viable : c = d

\* A walk that gets to its end has seen to all nodes before the one it is at
\* (they have their connection), a walk that will fail carries nothing: the
\* node it waits for is registered by another request, or will be.
InOrderOfWalk ==
  \A c \in M!Active({"walk"}) :
    /\ nodes[call[c].at].alive
    /\ c \in Viable => \A i \in Missing : call[c].at <= i
    /\ c \notin Viable =>
         /\ call[c].configs = <<>>
         /\ \/ nodes[call[c].at].addr \in targets \cup Carried
            \/ \E d \in Viable : call[d].at = call[c].at

\* Every connected node is a target or in somebody's hands; one without a
\* connection is still to come, unless a connection failed.
Accounted ==
  /\ targets \cup Carried \subseteq Connections
  /\ Connections \subseteq targets \cup Carried \cup InHand
  /\ failures = 0 /\ Viable = {} => Missing = {}

\* As long as nothing has happened that TargetsAreNodes excepts.
NodesInv == crowd # M!Crowded => Overlap /\ InOrderOfWalk /\ Accounted

\* Requests for routes of a source that await the balancer switch.
RoutesOf(s) == {c \in M!Active({"route"}) : call[c].source = s}

\* A source that is noted has an entry or gets it from the INSERT that is under
\* way; an INSERT is the first request since the start, a later one meets an
\* entry, so that no source is refused twice.
RoutesInv ==
  \A s \in Sources :
    /\ \A c, d \in RoutesOf(s) : c = d
    /\ s \notin known => RoutesOf(s) = {} /\ refused[s] = 0 /\ asked[s] = 0
    /\ refused[s] <= 1 /\ (refused[s] = 1 => routes[s] # 0)
    /\ s \in known => routes[s] # 0 \/ \E c \in RoutesOf(s) : call[c].insert
    /\ \A c \in RoutesOf(s) :
         /\ call[c].port = asked[s]
         /\ IF call[c].insert THEN refused[s] = 0 ELSE routes[s] # 0
    /\ RoutesOf(s) = {} /\ asked[s] # 0 /\ refused[s] = 0 => routes[s] = asked[s]

ManagerInv == ManagerTyped /\ NodesInv /\ RoutesInv

\* What a call may be, and what its kind says of it.
CallStates == {M!Done, [op |-> "remove"]} \cup Walks \cup Registrations \cup RouteCalls

LEMMA Kinds ==
  ASSUME NEW x \in CallStates
  PROVE  /\ x.op = "walk" => x \in Walks
         /\ x.op = "register" => x \in Registrations
         /\ x.op = "route" => x \in RouteCalls
         /\ x \in Walks => x.op = "walk"
         /\ x \in Registrations => x.op = "register"
         /\ x \in RouteCalls => x.op = "route"
         /\ x = M!Done => x.op = "none"
  BY DEF CallStates, M!Done, Walks, Registrations, RouteCalls

\* A nonempty set of numbers has a least one.
LEMMA LeastOf ==
  ASSUME NEW S, S \subseteq Nat, S # {}
  PROVE  M!Least(S) \in S /\ \A k \in S : M!Least(S) <= k
<1> DEFINE R == {mn \in Nat \X Nat : mn[1] < mn[2]}
<1>1. IsWellFoundedOn(R, Nat)
  <2>1. R = OpToRel(<, Nat)
    BY DEF OpToRel
  <2> QED BY <2>1, NatLessThanWellFounded
<1>2. PICK n \in S : \A m \in S : <<m, n>> \notin R
  BY <1>1, WFMin
<1>3. \A m \in S : <<m, n>> \in Nat \X Nat
  OBVIOUS
<1>4. \A m \in S : ~ (m < n)
  BY <1>2, <1>3 DEF R
<1>5. \A m \in S : n <= m
  BY <1>4
<1> QED
  BY <1>5 DEF M!Least

\* The four ways on from a node.
LEMMA Onwards ==
  ASSUME NEW ns \in Seq(Node), NEW w \in Walks,
         NEW rest, rest = {j \in DOMAIN ns : j > w.at /\ ns[j].alive /\ ~ns[j].connected}
  PROVE  /\ M!Size(ns) # w.size => M!Onward(ns, w) = M!Done
         /\ M!Size(ns) = w.size /\ rest # {} =>
              /\ M!Onward(ns, w) = [w EXCEPT !.at = M!Least(rest)] /\ M!Onward(ns, w) \in Walks
              /\ M!Least(rest) \in rest /\ \A k \in rest : M!Least(rest) <= k
         /\ M!Size(ns) = w.size /\ rest = {} /\ w.configs # <<>> =>
              M!Onward(ns, w) = [op |-> "register", configs |-> w.configs] /\ M!Onward(ns, w) \in Registrations
         /\ M!Size(ns) = w.size /\ rest = {} /\ w.configs = <<>> => M!Onward(ns, w) = M!Done
         /\ M!Onward(ns, w) \in CallStates
<1>1. rest \subseteq DOMAIN ns /\ DOMAIN ns \subseteq Nat
  OBVIOUS
<1>2. rest # {} => M!Least(rest) \in rest /\ \A k \in rest : M!Least(rest) <= k
  BY <1>1, LeastOf
<1>3. rest # {} => [w EXCEPT !.at = M!Least(rest)] \in Walks
  BY <1>1, <1>2 DEF Walks
<1>4. [op |-> "register", configs |-> w.configs] \in Registrations
  BY DEF Walks, Registrations
<1>5. M!Onward(ns, w) = IF M!Size(ns) # w.size THEN M!Done
                      ELSE IF rest # {} THEN [w EXCEPT !.at = M!Least(rest)]
                      ELSE IF w.configs # <<>> THEN [op |-> "register", configs |-> w.configs]
                      ELSE M!Done
  BY DEF M!Onward
<1> QED
  BY <1>2, <1>3, <1>4, <1>5 DEF CallStates

LEMMA OnwardIsTyped ==
  ASSUME NEW ns \in Seq(Node), NEW w \in Walks
  PROVE  /\ M!Onward(ns, w) \in CallStates
         /\ M!Onward(ns, w).op = "walk" => M!Onward(ns, w).at \in DOMAIN ns
<1> DEFINE rest == {j \in DOMAIN ns : j > w.at /\ ns[j].alive /\ ~ns[j].connected}
<1>1. \/ M!Onward(ns, w) = M!Done
      \/ M!Onward(ns, w) = [op |-> "register", configs |-> w.configs]
      \/ M!Onward(ns, w) = [w EXCEPT !.at = M!Least(rest)] /\ M!Least(rest) \in rest
  BY Onwards
<1>2. [w EXCEPT !.at = M!Least(rest)].at = M!Least(rest)
  BY DEF Walks
<1>3. M!Onward(ns, w) \in CallStates
  BY Onwards
<1>4. M!Done.op # "walk" /\ [op |-> "register", configs |-> w.configs].op # "walk"
  BY DEF M!Done
<1>5. rest \subseteq DOMAIN ns
  OBVIOUS
<1> HIDE DEF rest
<1> QED
  BY <1>1, <1>2, <1>3, <1>4, <1>5

\* NodeManager's Cardinality is that of the theorems on finite sets.
LEMMA SameCardinality ==
  ASSUME NEW S
  PROVE  M!Cardinality(S) = Cardinality(S)
  BY DEF Cardinality, M!Cardinality

LEMMA SizeIsNat ==
  ASSUME NEW ns \in Seq(Node)
  PROVE  M!Size(ns) \in Nat /\ IsFiniteSet({i \in DOMAIN ns : ns[i].alive})
<1>1. DOMAIN ns = 1..Len(ns) /\ Len(ns) \in Nat
  OBVIOUS
<1>2. IsFiniteSet(DOMAIN ns)
  BY <1>1, FS_Interval
<1>3. IsFiniteSet({i \in DOMAIN ns : ns[i].alive})
  BY <1>2, FS_Subset
<1> QED
  BY <1>3, FS_CardinalityType, SameCardinality DEF M!Size

\* A dictionary grows by one with a new node: walks under way will fail.
LEMMA Grows ==
  ASSUME NEW ns \in Seq(Node), NEW n \in Node, n.alive
  PROVE  M!Size(Append(ns, n)) = M!Size(ns) + 1
<1> DEFINE alive == {i \in DOMAIN ns : ns[i].alive}
<1>1. {i \in DOMAIN Append(ns, n) : Append(ns, n)[i].alive} = alive \cup {Len(ns) + 1}
  OBVIOUS
<1>2. Len(ns) + 1 \notin alive
  OBVIOUS
<1>3. Cardinality(alive \cup {Len(ns) + 1}) = Cardinality(alive) + 1
  BY <1>2, SizeIsNat, FS_AddElement
<1> QED
  BY <1>1, <1>3, SameCardinality DEF M!Size

LEMMA FunctionsAreSequences ==
  ASSUME NEW S, NEW n \in Nat, NEW f \in [1..n -> S]
  PROVE  f \in Seq(S) /\ Len(f) = n
  OBVIOUS

\* What a connection changes.
Joined(ns, k) == [ns EXCEPT ![k].connected = TRUE]

LEMMA ConnectedNodes ==
  ASSUME NEW ns \in Seq(Node), NEW k
  PROVE  LET new == Joined(ns, k) IN
         /\ new \in Seq(Node) /\ DOMAIN new = DOMAIN ns
         /\ \A i \in DOMAIN ns :
              /\ new[i].addr = ns[i].addr /\ new[i].alive = ns[i].alive
              /\ new[i].connected <=> ns[i].connected \/ i = k
         /\ M!Size(new) = M!Size(ns)
<1> DEFINE new == Joined(ns, k)
<1>1. DOMAIN ns = 1..Len(ns) /\ Len(ns) \in Nat /\ \A i \in 1..Len(ns) : ns[i] \in Node
  OBVIOUS
<1>2. \A r \in Node : [r EXCEPT !.connected = TRUE] \in Node
  BY DEF Node
<1>3. /\ DOMAIN new = DOMAIN ns
      /\ \A i \in DOMAIN ns : new[i] = IF i = k THEN [ns[i] EXCEPT !.connected = TRUE] ELSE ns[i]
  BY DEF Joined
<1>4. new \in [1..Len(ns) -> Node]
  BY <1>1, <1>2 DEF Joined
<1> HIDE DEF new
<1>5. new \in Seq(Node)
  BY <1>1, <1>4, FunctionsAreSequences
<1>6. \A i \in DOMAIN ns :
        /\ new[i].addr = ns[i].addr /\ new[i].alive = ns[i].alive
        /\ new[i].connected <=> ns[i].connected \/ i = k
  BY <1>1, <1>3 DEF Node
<1>7. {i \in DOMAIN new : new[i].alive} = {i \in DOMAIN ns : ns[i].alive}
  BY <1>3, <1>6
<1> QED
  BY <1>3, <1>5, <1>6, <1>7 DEF M!Size, new

\* What a removal changes.
Without(ns, addr) ==
  [i \in DOMAIN ns |-> IF ns[i].addr = addr THEN [ns[i] EXCEPT !.alive = FALSE] ELSE ns[i]]

LEMMA RemovedNodes ==
  ASSUME NEW ns \in Seq(Node), NEW addr \in Addresses
  PROVE  LET new == Without(ns, addr) IN
         /\ new \in Seq(Node) /\ DOMAIN new = DOMAIN ns
         /\ \A i \in DOMAIN ns :
              /\ new[i].addr = ns[i].addr /\ new[i].connected = ns[i].connected
              /\ new[i].alive <=> ns[i].alive /\ ns[i].addr # addr
<1> DEFINE new == Without(ns, addr)
<1>1. DOMAIN ns = 1..Len(ns) /\ Len(ns) \in Nat /\ \A i \in 1..Len(ns) : ns[i] \in Node
  OBVIOUS
<1>2. \A r \in Node : [r EXCEPT !.alive = FALSE] \in Node
  BY DEF Node
<1>3. /\ DOMAIN new = DOMAIN ns
      /\ \A i \in DOMAIN ns : new[i] = IF ns[i].addr = addr THEN [ns[i] EXCEPT !.alive = FALSE] ELSE ns[i]
  BY DEF Without
<1>4. new \in [1..Len(ns) -> Node]
  BY <1>1, <1>2 DEF Without
<1> HIDE DEF new
<1>5. new \in Seq(Node)
  BY <1>1, <1>4, FunctionsAreSequences
<1>6. \A i \in DOMAIN ns :
        /\ new[i].addr = ns[i].addr /\ new[i].connected = ns[i].connected
        /\ new[i].alive <=> ns[i].alive /\ ns[i].addr # addr
  BY <1>1, <1>3 DEF Node
<1> QED
  BY <1>3, <1>5, <1>6 DEF new

\* What add_node appends, or puts in place.
LEMMA PlacedTyped ==
  ASSUME ManagerTyped, NEW addr \in Addresses
  PROVE  /\ M!Placed(addr) \in Seq(Node) /\ DOMAIN nodes \subseteq DOMAIN M!Placed(addr)
         /\ addr \notin M!Live => M!Placed(addr) = Append(nodes, [addr |-> addr, alive |-> TRUE, connected |-> FALSE])
<1> DEFINE new == [addr |-> addr, alive |-> TRUE, connected |-> FALSE]
           old == {i \in DOMAIN nodes : nodes[i].alive /\ nodes[i].addr = addr}
<1>1. new \in Node /\ nodes \in Seq(Node)
  BY DEF Node, ManagerTyped
<1>2. Append(nodes, new) \in Seq(Node)
  BY <1>1
<1>3. [i \in DOMAIN nodes |-> IF i \in old THEN new ELSE nodes[i]] \in Seq(Node)
  <2>1. DOMAIN nodes = 1..Len(nodes) /\ Len(nodes) \in Nat
    BY <1>1
  <2>2. [i \in 1..Len(nodes) |-> IF i \in old THEN new ELSE nodes[i]] \in [1..Len(nodes) -> Node]
    BY <1>1
  <2> HIDE DEF old, new
  <2> QED
    BY <2>1, <2>2, FunctionsAreSequences
<1>4. addr \notin M!Live => old = {}
  BY DEF M!Live
<1>5. DOMAIN nodes \subseteq DOMAIN Append(nodes, new)
  BY <1>1
<1> QED
  BY <1>2, <1>3, <1>4, <1>5 DEF M!Placed

LEMMA TypedInit == M!PortNumbers /\ M!Init => ManagerTyped
<1> SUFFICES ASSUME M!PortNumbers, M!Init PROVE ManagerTyped
  OBVIOUS
<1>1. <<>> \in Seq(Node) /\ M!Done.op # "walk"
  BY DEF M!Done
<1> QED
  BY <1>1 DEF M!Init, ManagerTyped, M!Active, M!Crowded

LEMMA TypedStep == M!PortNumbers /\ ManagerTyped /\ [M!Next]_(M!vars) => ManagerTyped'
<1> SUFFICES ASSUME M!PortNumbers, ManagerTyped, [M!Next]_(M!vars) PROVE ManagerTyped'
  OBVIOUS
<1> USE DEF M!Crowded
<1>t. /\ nodes \in Seq(Node) /\ targets \subseteq Addresses /\ server \in {"starting", "ready"}
      /\ call \in [Calls -> CallStates] /\ M!Done \in CallStates
      /\ known \subseteq Sources /\ routes \in [Sources -> Nat] /\ asked \in [Sources -> Nat]
      /\ refused \in [Sources -> Nat] /\ failures \in Nat /\ crowd \in 0..3
      /\ \A c \in Calls : call[c].op = "walk" => call[c].at \in DOMAIN nodes
      /\ \A i \in DOMAIN nodes : nodes[i] \in Node
  BY DEF ManagerTyped, CallStates, M!Active
<1>n. M!Done.op = "none"
  BY DEF M!Done
<1>f. (/\ nodes' \in Seq(Node) /\ targets' \subseteq Addresses /\ server' \in {"starting", "ready"}
       /\ call' \in [Calls -> CallStates]
       /\ known' \subseteq Sources /\ routes' \in [Sources -> Nat] /\ asked' \in [Sources -> Nat]
       /\ refused' \in [Sources -> Nat] /\ failures' \in Nat /\ crowd' \in 0..3
       /\ \A c \in Calls : call'[c].op = "walk" => call'[c].at \in DOMAIN nodes') => ManagerTyped'
  BY DEF ManagerTyped, CallStates, M!Active
<1>1. CASE M!Ready
  BY <1>1, <1>t, <1>f DEF M!Ready, M!routeVars
<1>2. CASE M!Restart
  BY <1>2, <1>t, <1>n, <1>f DEF M!Restart
<1>3. ASSUME NEW c \in Calls, M!Connected(c) PROVE ManagerTyped'
  <2>1. call[c] \in Walks /\ call[c].at \in DOMAIN nodes
    BY <1>3, <1>t, Kinds DEF M!Connected
  <2>2. nodes' = Joined(nodes, call[c].at)
    BY <1>3 DEF M!Connected, Joined
  <2>3. nodes' \in Seq(Node) /\ DOMAIN nodes' = DOMAIN nodes
    BY <2>2, <1>t, ConnectedNodes
  <2> DEFINE w == [call[c] EXCEPT !.configs = Append(@, nodes[call[c].at].addr)]
  <2>4. nodes[call[c].at].addr \in Addresses
    BY <1>t, <2>1 DEF Node
  <2>5. Append(call[c].configs, nodes[call[c].at].addr) \in Seq(Addresses)
    BY <2>1, <2>4 DEF Walks
  <2>6. w \in Walks
    BY <2>1, <2>5 DEF Walks
  <2>7. call' = [call EXCEPT ![c] = M!Onward(nodes', w)]
    BY <1>3 DEF M!Connected
  <2> HIDE DEF w
  <2>8. M!Onward(nodes', w) \in CallStates /\ (M!Onward(nodes', w).op = "walk" => M!Onward(nodes', w).at \in DOMAIN nodes')
    BY <2>3, <2>6, OnwardIsTyped
  <2>9. call' \in [Calls -> CallStates]
    BY <2>7, <2>8, <1>t
  <2>10. \A d \in Calls : call'[d].op = "walk" => call'[d].at \in DOMAIN nodes'
    BY <2>3, <2>7, <2>8, <1>t
  <2> QED
    BY <1>3, <2>3, <2>9, <2>10, <1>t, <1>f DEF M!Connected, M!routeVars
<1>4. ASSUME NEW c \in Calls, M!ConnectFails(c) PROVE ManagerTyped'
  <2>1. crowd' \in 0..3 /\ failures' \in Nat /\ call' \in [Calls -> CallStates]
    BY <1>4, <1>t DEF M!ConnectFails
  <2> QED
    BY <1>4, <2>1, <1>t, <1>n, <1>f DEF M!ConnectFails, M!routeVars
<1>5. ASSUME NEW c \in Calls, M!Register(c) PROVE ManagerTyped'
  <2>1. call[c] \in Registrations
    BY <1>5, <1>t, Kinds DEF M!Register
  <2>0. call[c].configs \in Seq(Addresses)
    BY <2>1 DEF Registrations
  <2>e. call[c].configs # <<>> => Head(call[c].configs) \in Addresses /\ Tail(call[c].configs) \in Seq(Addresses)
    BY <2>0
  <2>2. targets' \subseteq Addresses
    BY <1>5, <1>t, <2>e DEF M!Register
  <2>3. call[c].configs # <<>> => [call[c] EXCEPT !.configs = Tail(@)] \in Registrations
    BY <2>1, <2>e DEF Registrations
  <2>4. call' \in [Calls -> CallStates] /\ \A d \in Calls : call'[d].op = "walk" => call'[d] = call[d]
    <3>1. \/ call' = [call EXCEPT ![c] = M!Done]
          \/ call[c].configs # <<>> /\ call' = [call EXCEPT ![c] = [call[c] EXCEPT !.configs = Tail(@)]]
      BY <1>5 DEF M!Register
    <3>2. \E x \in CallStates : x.op # "walk" /\ call' = [call EXCEPT ![c] = x]
      BY <3>1, <2>3, <1>t, <1>n, Kinds DEF CallStates
    <3> QED
      BY <3>2, <1>t
  <2> QED
    BY <1>5, <2>2, <2>4, <1>t, <1>f DEF M!Register, M!routeVars
<1>6. ASSUME NEW c \in Calls, M!Removed(c) PROVE ManagerTyped'
  <2>1. call' \in [Calls -> CallStates]
    BY <1>6, <1>t DEF M!Removed
  <2> QED
    BY <1>6, <2>1, <1>t, <1>n, <1>f DEF M!Removed, M!routeVars, M!nodeVars
<1>7. ASSUME NEW c \in Calls, M!RouteAnswered(c) PROVE ManagerTyped'
  <2>1. call[c] \in RouteCalls
    BY <1>7, <1>t, Kinds DEF M!RouteAnswered
  <2>2. call[c].source \in Sources /\ call[c].port \in Nat
    BY <2>1 DEF RouteCalls, M!PortNumbers
  <2>3. call' \in [Calls -> CallStates]
    BY <1>7, <1>t DEF M!RouteAnswered
  <2>4. CASE call[c].insert = (routes[call[c].source] = 0)
    <3>0. /\ routes' = [routes EXCEPT ![call[c].source] = call[c].port]
          /\ refused' = [refused EXCEPT ![call[c].source] = 0]
      BY <1>7, <2>4 DEF M!RouteAnswered
    <3>1. routes' \in [Sources -> Nat] /\ refused' \in [Sources -> Nat]
      BY <1>t, <2>2, <3>0
    <3> QED
      BY <1>7, <2>3, <3>1, <1>t, <1>n, <1>f DEF M!RouteAnswered, M!nodeVars
  <2>5. CASE ~(call[c].insert = (routes[call[c].source] = 0))
    <3>1. refused[call[c].source] + 1 \in Nat
      BY <1>t, <2>2
    <3>2. refused' = [refused EXCEPT ![call[c].source] = refused[call[c].source] + 1] /\ routes' = routes
      BY <1>7, <2>5 DEF M!RouteAnswered
    <3>3. refused' \in [Sources -> Nat]
      BY <3>1, <3>2, <1>t
    <3> QED
      BY <1>7, <2>3, <3>2, <3>3, <1>t, <1>n, <1>f DEF M!RouteAnswered, M!nodeVars
  <2> QED
    BY <2>4, <2>5
<1>8. ASSUME NEW c \in Calls, NEW addr \in Addresses, M!AddNode(c, addr) PROVE ManagerTyped'
  <2>1. nodes' \in Seq(Node) /\ DOMAIN nodes \subseteq DOMAIN nodes'
    BY <1>8, PlacedTyped DEF M!AddNode
  <2> DEFINE w == [op |-> "walk", at |-> 0, configs |-> <<>>, size |-> M!Size(nodes')]
  <2>2. <<>> \in Seq(Addresses)
    OBVIOUS
  <2>3. w \in Walks
    BY <2>1, <2>2, SizeIsNat DEF Walks
  <2>4. call' = [call EXCEPT ![c] = M!Onward(nodes', w)]
    BY <1>8 DEF M!AddNode
  <2> HIDE DEF w
  <2>5. M!Onward(nodes', w) \in CallStates /\ (M!Onward(nodes', w).op = "walk" => M!Onward(nodes', w).at \in DOMAIN nodes')
    BY <2>1, <2>3, OnwardIsTyped
  <2>6. call' \in [Calls -> CallStates] /\ \A d \in Calls : call'[d].op = "walk" => call'[d].at \in DOMAIN nodes'
    BY <2>1, <2>4, <2>5, <1>t
  <2>7. crowd' \in 0..3
    BY <1>8, <1>t DEF M!AddNode
  <2> QED
    BY <1>8, <2>1, <2>6, <2>7, <1>t, <1>f DEF M!AddNode, M!routeVars
<1>9. ASSUME NEW c \in Calls, NEW addr \in Addresses, M!RemoveNode(c, addr) PROVE ManagerTyped'
  <2>0. nodes' = Without(nodes, addr)
    BY <1>9 DEF M!RemoveNode, Without
  <2>1. nodes' \in Seq(Node) /\ DOMAIN nodes' = DOMAIN nodes
    BY <2>0, <1>t, RemovedNodes
  <2>2. \E x \in CallStates : x.op # "walk" /\ call' = [call EXCEPT ![c] = x]
    BY <1>9, <1>t, <1>n DEF M!RemoveNode, CallStates
  <2>3. call' \in [Calls -> CallStates] /\ \A d \in Calls : call'[d].op = "walk" => call'[d] = call[d]
    BY <2>2, <1>t
  <2>4. crowd' \in 0..3 /\ targets' \subseteq Addresses
    BY <1>9, <1>t DEF M!RemoveNode
  <2> QED
    BY <1>9, <2>1, <2>3, <2>4, <1>t, <1>f DEF M!RemoveNode, M!routeVars
<1>10. ASSUME NEW c \in Calls, NEW s \in Sources, NEW p \in Ports, M!SetRoute(c, s, p) PROVE ManagerTyped'
  <2>1. [op |-> "route", source |-> s, port |-> p, insert |-> s \notin known] \in CallStates
    BY DEF CallStates, RouteCalls
  <2>2. call' \in [Calls -> CallStates]
    BY <1>10, <1>t, <2>1 DEF M!SetRoute
  <2>3. known' \subseteq Sources /\ asked' \in [Sources -> Nat]
    BY <1>10, <1>t DEF M!SetRoute, M!PortNumbers
  <2> QED
    BY <1>10, <2>2, <2>3, <1>t, <1>f DEF M!SetRoute, M!nodeVars
<1>11. CASE UNCHANGED M!vars
  BY <1>11, <1>t, <1>f DEF M!vars
<1> QED
  BY <1>1, <1>2, <1>3, <1>4, <1>5, <1>6, <1>7, <1>8, <1>9, <1>10, <1>11 DEF M!Next

\* The types, with the record set of calls by its name.
LEMMA Types ==
  ManagerTyped =>
    /\ nodes \in Seq(Node) /\ targets \subseteq Addresses
    /\ call \in [Calls -> CallStates]
    /\ known \subseteq Sources /\ routes \in [Sources -> Nat] /\ asked \in [Sources -> Nat]
    /\ refused \in [Sources -> Nat] /\ failures \in Nat /\ crowd \in 0..3
    /\ \A c \in Calls : call[c].op = "walk" => call[c].at \in DOMAIN nodes /\ call[c] \in Walks
    /\ \A c \in Calls : call[c].op = "register" => call[c] \in Registrations
    /\ \A c \in Calls : call[c].op = "route" => call[c] \in RouteCalls
    /\ \A i \in DOMAIN nodes : nodes[i] \in Node
    /\ DOMAIN nodes \subseteq Nat /\ M!Done.op = "none"
<1> SUFFICES ASSUME ManagerTyped
             PROVE  /\ nodes \in Seq(Node) /\ targets \subseteq Addresses
                    /\ call \in [Calls -> CallStates]
                    /\ known \subseteq Sources /\ routes \in [Sources -> Nat] /\ asked \in [Sources -> Nat]
                    /\ refused \in [Sources -> Nat] /\ failures \in Nat /\ crowd \in 0..3
                    /\ \A c \in Calls : call[c].op = "walk" => call[c].at \in DOMAIN nodes /\ call[c] \in Walks
                    /\ \A c \in Calls : call[c].op = "register" => call[c] \in Registrations
                    /\ \A c \in Calls : call[c].op = "route" => call[c] \in RouteCalls
                    /\ \A i \in DOMAIN nodes : nodes[i] \in Node
                    /\ DOMAIN nodes \subseteq Nat /\ M!Done.op = "none"
  OBVIOUS
<1>1. /\ nodes \in Seq(Node) /\ targets \subseteq Addresses
      /\ call \in [Calls -> CallStates]
      /\ known \subseteq Sources /\ routes \in [Sources -> Nat] /\ asked \in [Sources -> Nat]
      /\ refused \in [Sources -> Nat] /\ failures \in Nat /\ crowd \in 0..3
      /\ \A c \in Calls : call[c].op = "walk" => call[c].at \in DOMAIN nodes
  BY DEF ManagerTyped, CallStates, M!Active, M!Crowded
<1>2. \A c \in Calls : /\ call[c].op = "walk" => call[c] \in Walks
                       /\ call[c].op = "register" => call[c] \in Registrations
                       /\ call[c].op = "route" => call[c] \in RouteCalls
  BY <1>1, Kinds
<1>3. (\A i \in DOMAIN nodes : nodes[i] \in Node) /\ DOMAIN nodes \subseteq Nat
  BY <1>1
<1>4. M!Done.op = "none"
  BY DEF M!Done
<1> QED
  BY <1>1, <1>2, <1>3, <1>4

\* Steps that leave the requests for routes alone.
LEMMA OtherRequests ==
  ASSUME RoutesInv, UNCHANGED M!routeVars,
         \A c \in Calls : call'[c].op = "route" \/ call[c].op = "route" => call'[c] = call[c]
  PROVE  RoutesInv'
<1>1. \A s : RoutesOf(s)' = RoutesOf(s) /\ \A c \in RoutesOf(s) : call'[c] = call[c]
  BY DEF RoutesOf, M!Active
<1>2. known' = known /\ routes' = routes /\ asked' = asked /\ refused' = refused
  BY DEF M!routeVars
<1> QED
  BY <1>1, <1>2 DEF RoutesInv

LEMMA SetRouteKeeps ==
  ASSUME M!PortNumbers, ManagerTyped, RoutesInv,
         NEW c \in Calls, NEW s \in Sources, NEW p \in Ports, M!SetRoute(c, s, p)
  PROVE  RoutesInv'
<1> DEFINE r == [op |-> "route", source |-> s, port |-> p, insert |-> s \notin known]
<1>1. /\ call' = [call EXCEPT ![c] = r] /\ call[c] = M!Done
      /\ known' = known \cup {s} /\ asked' = [asked EXCEPT ![s] = p]
      /\ UNCHANGED <<routes, refused>>
  BY DEF M!SetRoute
<1>2. RoutesOf(s) = {}
  BY DEF M!SetRoute, RoutesOf, M!Active
<1>3. c \notin M!Active({"route"})
  BY <1>1, Types DEF M!Active
<1>4. RoutesOf(s)' = {c}
  BY <1>1, <1>2, <1>3, Types DEF RoutesOf, M!Active
<1>5. \A z \in Sources \ {s} : RoutesOf(z)' = RoutesOf(z) /\ \A d \in RoutesOf(z) : call'[d] = call[d]
  BY <1>1, <1>3, Types DEF RoutesOf, M!Active
<1>6. call'[c] = r
  BY <1>1, Types
<1>7. \A z \in Sources \ {s} : asked'[z] = asked[z] /\ (z \in known' <=> z \in known)
  BY <1>1, Types
<1>8. asked'[s] = p /\ p # 0 /\ s \in known'
  BY <1>1, Types DEF M!PortNumbers
<1>9. ASSUME NEW z \in Sources \ {s}
      PROVE  /\ \A a, b \in RoutesOf(z)' : a = b
             /\ z \notin known' => RoutesOf(z)' = {} /\ refused'[z] = 0 /\ asked'[z] = 0
             /\ refused'[z] <= 1 /\ (refused'[z] = 1 => routes'[z] # 0)
             /\ z \in known' => routes'[z] # 0 \/ \E a \in RoutesOf(z)' : call'[a].insert
             /\ \A a \in RoutesOf(z)' :
                  /\ call'[a].port = asked'[z]
                  /\ IF call'[a].insert THEN refused'[z] = 0 ELSE routes'[z] # 0
             /\ RoutesOf(z)' = {} /\ asked'[z] # 0 /\ refused'[z] = 0 => routes'[z] = asked'[z]
  BY <1>1, <1>5, <1>7 DEF RoutesInv
<1>10. /\ \A a, b \in RoutesOf(s)' : a = b
       /\ s \notin known' => RoutesOf(s)' = {} /\ refused'[s] = 0 /\ asked'[s] = 0
       /\ refused'[s] <= 1 /\ (refused'[s] = 1 => routes'[s] # 0)
       /\ s \in known' => routes'[s] # 0 \/ \E a \in RoutesOf(s)' : call'[a].insert
       /\ \A a \in RoutesOf(s)' :
            /\ call'[a].port = asked'[s]
            /\ IF call'[a].insert THEN refused'[s] = 0 ELSE routes'[s] # 0
       /\ RoutesOf(s)' = {} /\ asked'[s] # 0 /\ refused'[s] = 0 => routes'[s] = asked'[s]
  <2>1. /\ refused[s] <= 1 /\ (refused[s] = 1 => routes[s] # 0)
        /\ s \notin known => refused[s] = 0
        /\ s \in known => routes[s] # 0
    BY <1>2 DEF RoutesInv
  <2>2. call'[c].port = p /\ call'[c].insert = (s \notin known)
    BY <1>6
  <2>3. refused'[s] = refused[s] /\ routes'[s] = routes[s]
    BY <1>1
  <2> QED
    BY <1>4, <1>8, <2>1, <2>2, <2>3
<1> QED
  BY <1>9, <1>10 DEF RoutesInv

LEMMA RouteAnsweredKeeps ==
  ASSUME M!PortNumbers, ManagerTyped, RoutesInv, NEW c \in Calls, M!RouteAnswered(c)
  PROVE  RoutesInv'
<1>0. PICK s \in Sources : s = call[c].source
  BY Types DEF M!RouteAnswered, RouteCalls
<1>r. PICK r \in RouteCalls : r = call[c]
  BY Types DEF M!RouteAnswered
<1> DEFINE taken == r.insert = (routes[s] = 0)
<1>1. r \in RouteCalls /\ s \in Sources /\ r.port \in Nat \ {0} /\ c \in RoutesOf(s) /\ r.insert \in BOOLEAN
  BY <1>0, <1>r, Types DEF M!RouteAnswered, RouteCalls, M!PortNumbers, RoutesOf, M!Active
<1>2. /\ call' = [call EXCEPT ![c] = M!Done] /\ UNCHANGED <<known, asked>>
      /\ taken => routes' = [routes EXCEPT ![s] = r.port] /\ refused' = [refused EXCEPT ![s] = 0]
      /\ ~taken => routes' = routes /\ refused' = [refused EXCEPT ![s] = @ + 1]
  BY <1>0, <1>r DEF M!RouteAnswered
<1>3. RoutesOf(s) = {c}
  BY <1>1 DEF RoutesInv
<1>4. RoutesOf(s)' = {}
  BY <1>2, <1>3, Types DEF RoutesOf, M!Active
<1>5. \A z \in Sources \ {s} : RoutesOf(z)' = RoutesOf(z) /\ \A d \in RoutesOf(z) : call'[d] = call[d]
  BY <1>0, <1>2, Types DEF RoutesOf, M!Active
<1>6. \A z \in Sources \ {s} : routes'[z] = routes[z] /\ refused'[z] = refused[z]
  BY <1>1, <1>2, Types
<1>7. /\ s \in known /\ r.port = asked[s] /\ asked[s] # 0
      /\ IF r.insert THEN refused[s] = 0 ELSE routes[s] # 0
  BY <1>1, <1>r DEF RoutesInv
<1>8. /\ taken => routes'[s] = asked[s] /\ refused'[s] = 0
      /\ ~taken => routes'[s] # 0 /\ refused'[s] = 1
  <2>1. CASE taken
    BY <1>1, <1>2, <1>7, <2>1, Types
  <2>2. CASE ~taken
    <3>1. r.insert /\ routes[s] # 0 /\ refused[s] = 0
      BY <1>1, <1>7, <2>2
    <3>2. refused'[s] = 1
      BY <1>1, <1>2, <2>2, <3>1, Types
    <3> QED
      BY <1>2, <2>2, <3>1, <3>2
  <2> QED
    BY <2>1, <2>2
<1> HIDE DEF taken
<1>9. ASSUME NEW z \in Sources \ {s}
      PROVE  /\ \A a, b \in RoutesOf(z)' : a = b
             /\ z \notin known' => RoutesOf(z)' = {} /\ refused'[z] = 0 /\ asked'[z] = 0
             /\ refused'[z] <= 1 /\ (refused'[z] = 1 => routes'[z] # 0)
             /\ z \in known' => routes'[z] # 0 \/ \E a \in RoutesOf(z)' : call'[a].insert
             /\ \A a \in RoutesOf(z)' :
                  /\ call'[a].port = asked'[z]
                  /\ IF call'[a].insert THEN refused'[z] = 0 ELSE routes'[z] # 0
             /\ RoutesOf(z)' = {} /\ asked'[z] # 0 /\ refused'[z] = 0 => routes'[z] = asked'[z]
  BY <1>2, <1>5, <1>6 DEF RoutesInv
<1>10. /\ \A a, b \in RoutesOf(s)' : a = b
       /\ s \notin known' => RoutesOf(s)' = {} /\ refused'[s] = 0 /\ asked'[s] = 0
       /\ refused'[s] <= 1 /\ (refused'[s] = 1 => routes'[s] # 0)
       /\ s \in known' => routes'[s] # 0 \/ \E a \in RoutesOf(s)' : call'[a].insert
       /\ \A a \in RoutesOf(s)' :
            /\ call'[a].port = asked'[s]
            /\ IF call'[a].insert THEN refused'[s] = 0 ELSE routes'[s] # 0
       /\ RoutesOf(s)' = {} /\ asked'[s] # 0 /\ refused'[s] = 0 => routes'[s] = asked'[s]
  BY <1>2, <1>4, <1>7, <1>8
<1> QED
  BY <1>9, <1>10 DEF RoutesInv

LEMMA RoutesStep == M!PortNumbers /\ ManagerTyped /\ RoutesInv /\ [M!Next]_(M!vars) => RoutesInv'
<1> SUFFICES ASSUME M!PortNumbers, ManagerTyped, RoutesInv, [M!Next]_(M!vars) PROVE RoutesInv'
  OBVIOUS
<1>1. CASE M!Ready
  BY <1>1, OtherRequests DEF M!Ready
<1>2. CASE M!Restart
  <2>1. /\ \A c \in Calls : call'[c].op = "none"
        /\ known' = {} /\ \A s \in Sources : asked'[s] = 0 /\ refused'[s] = 0
    BY <1>2, Types DEF M!Restart
  <2>2. \A s \in Sources : RoutesOf(s)' = {}
    BY <2>1 DEF RoutesOf, M!Active
  <2> QED
    BY <2>1, <2>2 DEF RoutesInv
<1>3. ASSUME NEW c \in Calls, M!Connected(c) PROVE RoutesInv'
  <2>1. call[c].op = "walk" /\ UNCHANGED M!routeVars
    BY <1>3 DEF M!Connected
  <2>2. call'[c].op # "route"
    BY <1>3, Types DEF M!Connected, M!Onward
  <2>3. \A d \in Calls \ {c} : call'[d] = call[d]
    BY <1>3, Types DEF M!Connected
  <2> QED
    BY <2>1, <2>2, <2>3, OtherRequests
<1>4. ASSUME NEW c \in Calls, M!ConnectFails(c) \/ M!Removed(c) PROVE RoutesInv'
  <2>1. call[c].op # "route" /\ UNCHANGED M!routeVars /\ call' = [call EXCEPT ![c] = M!Done]
    BY <1>4 DEF M!ConnectFails, M!Removed
  <2> QED
    BY <2>1, Types, OtherRequests
<1>5. ASSUME NEW c \in Calls, M!Register(c) PROVE RoutesInv'
  <2>1. call[c].op = "register" /\ UNCHANGED M!routeVars /\ call[c] \in Registrations
    BY <1>5, Types DEF M!Register
  <2>2. \/ call' = [call EXCEPT ![c] = M!Done]
        \/ call' = [call EXCEPT ![c] = [call[c] EXCEPT !.configs = Tail(@)]]
    BY <1>5 DEF M!Register
  <2>3. [call[c] EXCEPT !.configs = Tail(@)].op = "register"
    BY <2>1 DEF Registrations
  <2>4. call'[c].op # "route" /\ \A d \in Calls \ {c} : call'[d] = call[d]
    BY <2>2, <2>3, Types
  <2> QED
    BY <2>1, <2>4, OtherRequests
<1>6. ASSUME NEW c \in Calls, NEW addr \in Addresses, M!AddNode(c, addr) PROVE RoutesInv'
  <2>1. call[c].op # "route" /\ UNCHANGED M!routeVars
    BY <1>6, Types DEF M!AddNode
  <2>2. call'[c].op # "route"
    BY <1>6, Types DEF M!AddNode, M!Onward
  <2>3. \A d \in Calls \ {c} : call'[d] = call[d]
    BY <1>6, Types DEF M!AddNode
  <2> QED
    BY <2>1, <2>2, <2>3, OtherRequests
<1>7. ASSUME NEW c \in Calls, NEW addr \in Addresses, M!RemoveNode(c, addr) PROVE RoutesInv'
  <2>1. call[c].op # "route" /\ UNCHANGED M!routeVars
    BY <1>7, Types DEF M!RemoveNode
  <2>2. call'[c].op # "route" /\ \A d \in Calls \ {c} : call'[d] = call[d]
    BY <1>7, Types DEF M!RemoveNode
  <2> QED
    BY <2>1, <2>2, OtherRequests
<1>8. CASE UNCHANGED M!vars
  BY <1>8, OtherRequests DEF M!vars, M!routeVars
<1> QED
  BY <1>1, <1>2, <1>3, <1>4, <1>5, <1>6, <1>7, <1>8, SetRouteKeeps, RouteAnsweredKeeps DEF M!Next

LEMMA RoutesInit == M!Init => RoutesInv
  BY DEF M!Init, RoutesInv, RoutesOf, M!Active, M!Done

\* The addresses in a list.
LEMMA Sets ==
  /\ ToSet(<<>>) = {}
  /\ \A s \in Seq(Addresses), x \in Addresses : ToSet(Append(s, x)) = ToSet(s) \cup {x}
  /\ \A s \in Seq(Addresses) : s # <<>> => ToSet(s) = {Head(s)} \cup ToSet(Tail(s))
<1>1. ToSet(<<>>) = {}
  BY DEF ToSet
<1>2. ASSUME NEW s \in Seq(Addresses), NEW x \in Addresses PROVE ToSet(Append(s, x)) = ToSet(s) \cup {x}
  <2>1. /\ DOMAIN Append(s, x) = DOMAIN s \cup {Len(s) + 1} /\ Append(s, x)[Len(s) + 1] = x
        /\ \A i \in DOMAIN s : Append(s, x)[i] = s[i]
    OBVIOUS
  <2> QED
    BY <2>1 DEF ToSet
<1>3. ASSUME NEW s \in Seq(Addresses), s # <<>> PROVE ToSet(s) = {Head(s)} \cup ToSet(Tail(s))
  <2>1. /\ Head(s) = s[1] /\ 1 \in DOMAIN s
        /\ \A i \in DOMAIN s : i = 1 \/ (i - 1 \in DOMAIN Tail(s) /\ Tail(s)[i - 1] = s[i])
        /\ \A i \in DOMAIN Tail(s) : i + 1 \in DOMAIN s /\ Tail(s)[i] = s[i + 1]
    BY <1>3
  <2>2. \A x : (\E i \in DOMAIN s : s[i] = x) <=> x = Head(s) \/ \E i \in DOMAIN Tail(s) : Tail(s)[i] = x
    <3>1. ASSUME NEW x, NEW i \in DOMAIN s, s[i] = x PROVE x = Head(s) \/ \E j \in DOMAIN Tail(s) : Tail(s)[j] = x
      BY <2>1, <3>1
    <3>2. ASSUME NEW x, NEW i \in DOMAIN Tail(s), Tail(s)[i] = x PROVE \E j \in DOMAIN s : s[j] = x
      BY <2>1, <3>2
    <3> QED
      BY <2>1, <3>1, <3>2
  <2> QED
    BY <2>2 DEF ToSet
<1> QED
  BY <1>1, <1>2, <1>3

LEMMA CarriedBy ==
  \A x : x \in Carried <=> \E c \in M!Active({"register"}) \cup Viable : x \in ToSet(call[c].configs)
  BY DEF Carried

LEMMA CarriedNext ==
  \A x : x \in Carried' <=> \E c \in M!Active({"register"})' \cup Viable' : x \in ToSet(call'[c].configs)
  BY DEF Carried

\* Steps that leave the nodes and what is done about them alone.
LEMMA OtherWalks ==
  ASSUME NodesInv, UNCHANGED <<nodes, targets, failures, crowd>>,
         \A c \in Calls : call'[c].op \in {"walk", "register"} \/ call[c].op \in {"walk", "register"} => call'[c] = call[c]
  PROVE  NodesInv'
<1>1. /\ M!Active({"walk"})' = M!Active({"walk"}) /\ M!Active({"register"})' = M!Active({"register"}) /\ Busy' = Busy
      /\ \A c \in Busy : call'[c] = call[c]
  BY DEF Busy, M!Active
<1>2. M!Active({"walk"}) \subseteq Busy /\ M!Active({"register"}) \subseteq Busy
  BY DEF Busy, M!Active
<1>3. Viable' = Viable /\ Viable \subseteq M!Active({"walk"})
  BY <1>1, <1>2 DEF Viable
<1>4. Carried' = Carried
  BY <1>1, <1>2, <1>3, CarriedBy, CarriedNext
<1>5. InHand' = InHand /\ Missing' = Missing /\ Connections' = Connections
  BY <1>1, <1>2, <1>3 DEF InHand, Missing, Connections
<1> QED
  BY <1>1, <1>2, <1>3, <1>4, <1>5 DEF NodesInv, Overlap, InOrderOfWalk, Accounted

LEMMA ConnectedKeeps ==
  ASSUME ManagerTyped, NodesInv, NEW c \in Calls, M!Connected(c)
  PROVE  NodesInv'
<1> SUFFICES ASSUME crowd' # M!Crowded PROVE (Overlap /\ InOrderOfWalk /\ Accounted)'
  BY DEF NodesInv
<1>0. /\ Overlap /\ InOrderOfWalk /\ Accounted /\ crowd' = crowd /\ targets' = targets /\ failures' = failures
      /\ crowd \in 0..3 /\ crowd # 3
  BY Types DEF NodesInv, M!Connected, M!Crowded
<1>1. PICK w \in Walks : w = call[c]
  BY Types DEF M!Connected
<1>2. PICK k \in DOMAIN nodes : k = w.at
  BY <1>1, Types DEF M!Connected
<1>3. c \in M!Active({"walk"}) /\ c \in Busy /\ nodes[k].alive
  BY <1>0, <1>1, <1>2 DEF M!Connected, M!Active, Busy, InOrderOfWalk
<1>4. PICK addr \in Addresses : addr = nodes[k].addr
  BY Types DEF Node
<1>5. nodes' = Joined(nodes, k)
  BY <1>1, <1>2 DEF M!Connected, Joined
<1>6. /\ nodes' \in Seq(Node) /\ DOMAIN nodes' = DOMAIN nodes /\ M!Size(nodes') = M!Size(nodes)
      /\ \A i \in DOMAIN nodes :
           /\ nodes'[i].addr = nodes[i].addr /\ nodes'[i].alive = nodes[i].alive
           /\ nodes'[i].connected <=> nodes[i].connected \/ i = k
  <2>1. nodes \in Seq(Node)
    BY Types
  <2> QED
    BY <1>5, <2>1, ConnectedNodes
<1>7. Missing' = Missing \ {k} /\ Connections' = Connections \cup {addr}
  BY <1>3, <1>4, <1>6 DEF Missing, Connections
<1> DEFINE w2 == [w EXCEPT !.configs = Append(@, addr)]
<1>8. /\ w2 \in Walks /\ w2.at = k /\ w2.size = w.size /\ w2.configs = Append(w.configs, addr)
      /\ w.configs \in Seq(Addresses) /\ w2.configs # <<>>
  <2>1. w.configs \in Seq(Addresses)
    BY DEF Walks
  <2>2. Append(w.configs, addr) \in Seq(Addresses) /\ Append(w.configs, addr) # <<>>
    BY <2>1
  <2> QED
    BY <1>2, <2>1, <2>2 DEF Walks
<1>9. call' = [call EXCEPT ![c] = M!Onward(nodes', w2)]
  BY <1>1, <1>2, <1>4 DEF M!Connected
<1> HIDE DEF w2
<1>10. call'[c] = M!Onward(nodes', w2) /\ \A d \in Calls \ {c} : call'[d] = call[d]
  BY <1>9, Types
<1>11. crowd = 1 => Busy = {c} /\ c \in Viable
  BY <1>0, <1>3 DEF Overlap
<1>12. crowd # 0
  BY <1>0, <1>3 DEF Overlap
<1>13. CASE c \notin Viable
  <2>1. call'[c] = M!Done
    BY <1>1, <1>3, <1>6, <1>8, <1>10, <1>13, Onwards DEF Viable
  <2>2. /\ M!Active({"walk"})' = M!Active({"walk"}) \ {c} /\ M!Active({"register"})' = M!Active({"register"}) \ {c}
        /\ c \notin M!Active({"register"}) /\ Busy' = Busy \ {c}
    BY <1>3, <1>10, <2>1, Types DEF M!Active, Busy
  <2>3. Viable' = Viable /\ Viable \subseteq M!Active({"walk"})
    BY <1>6, <1>10, <1>13, <2>2 DEF Viable, M!Active
  <2>4. Carried' = Carried
    <3>1. M!Active({"register"})' = M!Active({"register"})
      BY <2>2
    <3>2. \A d \in M!Active({"register"}) \cup Viable : call'[d] = call[d]
      BY <1>10, <1>13, <2>2, <2>3 DEF M!Active
    <3> QED
      BY <2>3, <3>1, <3>2, CarriedBy, CarriedNext
  <2>5. \A d \in Viable : call'[d] = call[d] /\ call[d].at \in DOMAIN nodes
    BY <1>10, <1>13, Types DEF Viable, M!Active
  <2>6. InHand \subseteq InHand' /\ \A d \in Viable : call[d].at = k => addr \in InHand'
    BY <1>4, <1>6, <2>3, <2>5 DEF InHand
  <2>7. addr \in targets \cup Carried \cup InHand'
    BY <1>0, <1>1, <1>2, <1>3, <1>4, <1>13, <2>6 DEF InOrderOfWalk
  <2>8. Overlap'
    BY <1>0, <1>11, <1>12, <1>13, <2>3 DEF Overlap
  <2>9. InOrderOfWalk'
    <3> SUFFICES ASSUME NEW d \in M!Active({"walk"})'
                 PROVE  /\ nodes'[call'[d].at].alive
                        /\ d \in Viable' => \A i \in Missing' : call'[d].at <= i
                        /\ d \notin Viable' =>
                             /\ call'[d].configs = <<>>
                             /\ \/ nodes'[call'[d].at].addr \in (targets \cup Carried)'
                                \/ \E e \in Viable' : call'[e].at = call'[d].at
      BY DEF InOrderOfWalk
    <3>1. d \in M!Active({"walk"}) /\ d \in Calls /\ d # c /\ call'[d] = call[d] /\ call[d].at \in DOMAIN nodes
      BY <1>10, <2>2, Types DEF M!Active
    <3>2. /\ nodes[call[d].at].alive
          /\ d \in Viable => \A i \in Missing : call[d].at <= i
          /\ d \notin Viable =>
               /\ call[d].configs = <<>>
               /\ \/ nodes[call[d].at].addr \in targets \cup Carried
                  \/ \E e \in Viable : call[e].at = call[d].at
      BY <1>0, <3>1 DEF InOrderOfWalk
    <3> QED
      BY <1>0, <1>6, <1>7, <2>3, <2>4, <2>5, <3>1, <3>2
  <2>10. Accounted'
    BY <1>0, <1>7, <2>3, <2>4, <2>6, <2>7 DEF Accounted
  <2> QED
    BY <2>8, <2>9, <2>10
<1>14. CASE c \in Viable
  <2>1. Viable = {c} /\ w.size = M!Size(nodes)
    BY <1>0, <1>1, <1>14 DEF Overlap, Viable
  <2>2. Missing' = {j \in DOMAIN nodes' : j > w2.at /\ nodes'[j].alive /\ ~nodes'[j].connected}
    <3>1. \A i \in Missing : k <= i
      BY <1>0, <1>1, <1>2, <1>3, <1>14 DEF InOrderOfWalk
    <3>2. Missing' = {j \in DOMAIN nodes' : nodes'[j].alive /\ ~nodes'[j].connected}
      BY DEF Missing
    <3> QED
      BY <1>6, <1>7, <1>8, <3>1, <3>2, Types
  <2>3. \/ /\ Missing' # {} /\ call'[c] = [w2 EXCEPT !.at = M!Least(Missing')] /\ call'[c] \in Walks
           /\ M!Least(Missing') \in Missing' /\ \A i \in Missing' : M!Least(Missing') <= i
        \/ Missing' = {} /\ call'[c] = [op |-> "register", configs |-> w2.configs]
    <3>1. nodes' \in Seq(Node) /\ w2 \in Walks /\ M!Size(nodes') = w2.size /\ w2.configs # <<>>
      BY <1>6, <1>8, <2>1
    <3>2. /\ Missing' # {} =>
               /\ M!Onward(nodes', w2) = [w2 EXCEPT !.at = M!Least(Missing')] /\ M!Onward(nodes', w2) \in Walks
               /\ M!Least(Missing') \in Missing' /\ \A i \in Missing' : M!Least(Missing') <= i
          /\ Missing' = {} => M!Onward(nodes', w2) = [op |-> "register", configs |-> w2.configs]
      <4> DEFINE rest == {j \in DOMAIN nodes' : j > w2.at /\ nodes'[j].alive /\ ~nodes'[j].connected}
      <4>1. /\ rest # {} =>
               /\ M!Onward(nodes', w2) = [w2 EXCEPT !.at = M!Least(rest)] /\ M!Onward(nodes', w2) \in Walks
               /\ M!Least(rest) \in rest /\ \A i \in rest : M!Least(rest) <= i
            /\ rest = {} => M!Onward(nodes', w2) = [op |-> "register", configs |-> w2.configs]
        BY <3>1, Onwards
      <4> QED
        BY <2>2, <4>1
    <3> QED
      BY <1>10, <3>2
  <2>4. call'[c].configs = Append(w.configs, addr)
    BY <1>8, <2>3 DEF Walks
  <2>5. /\ Missing' # {} => call'[c].op = "walk" /\ call'[c].at = M!Least(Missing') /\ call'[c].size = M!Size(nodes)
        /\ Missing' = {} => call'[c].op = "register"
    BY <1>8, <2>1, <2>3 DEF Walks
  <2>6. /\ M!Active({"walk"})' = IF Missing' # {} THEN M!Active({"walk"}) ELSE M!Active({"walk"}) \ {c}
        /\ M!Active({"register"})' = IF Missing' # {} THEN M!Active({"register"}) ELSE M!Active({"register"}) \cup {c}
        /\ Busy' = Busy /\ c \notin M!Active({"register"})
    BY <1>3, <1>10, <2>5 DEF M!Active, Busy
  <2>7. Viable' = IF Missing' # {} THEN {c} ELSE {}
    BY <1>6, <1>10, <2>1, <2>5, <2>6 DEF Viable, M!Active
  <2>8. ToSet(call'[c].configs) = ToSet(call[c].configs) \cup {addr}
    BY <1>1, <1>8, <2>4, Sets
  <2>9. Carried' = Carried \cup {addr}
    <3>1. c \in M!Active({"register"})' \cup Viable'
      BY <2>6, <2>7
    <3>2. \A d \in M!Active({"register"}) : d # c /\ call'[d] = call[d]
      BY <1>10, <2>6 DEF M!Active
    <3>3. \A x : x \in Carried' <=> x \in ToSet(call'[c].configs) \/ \E d \in M!Active({"register"}) : x \in ToSet(call[d].configs)
      BY <2>6, <2>7, <3>1, <3>2, CarriedNext
    <3>4. \A x : x \in Carried <=> x \in ToSet(call[c].configs) \/ \E d \in M!Active({"register"}) : x \in ToSet(call[d].configs)
      BY <2>1, CarriedBy
    <3> QED
      BY <2>8, <3>3, <3>4
  <2>10. InHand \subseteq {addr}
    BY <1>1, <1>2, <1>4, <2>1 DEF InHand
  <2>11. Overlap'
    BY <1>0, <1>11, <1>12, <2>3, <2>5, <2>6, <2>7 DEF Overlap, Busy, M!Active
  <2>12. InOrderOfWalk'
    <3> SUFFICES ASSUME NEW d \in M!Active({"walk"})'
                 PROVE  /\ nodes'[call'[d].at].alive
                        /\ d \in Viable' => \A i \in Missing' : call'[d].at <= i
                        /\ d \notin Viable' =>
                             /\ call'[d].configs = <<>>
                             /\ \/ nodes'[call'[d].at].addr \in (targets \cup Carried)'
                                \/ \E e \in Viable' : call'[e].at = call'[d].at
      BY DEF InOrderOfWalk
    <3>1. CASE d = c
      <4>1. Missing' # {} /\ d \in Viable'
        BY <2>5, <2>6, <2>7, <3>1 DEF M!Active
      <4>2. call'[d].at \in Missing' /\ \A i \in Missing' : call'[d].at <= i
        BY <2>3, <2>5, <3>1, <4>1
      <4> QED
        BY <4>1, <4>2 DEF Missing
    <3>2. CASE d # c
      <4>1. d \in M!Active({"walk"}) /\ call'[d] = call[d] /\ d \notin Viable /\ d \notin Viable' /\ call[d].at \in DOMAIN nodes
        BY <1>10, <2>1, <2>6, <2>7, <3>2, Types DEF M!Active
      <4>2. /\ nodes[call[d].at].alive /\ call[d].configs = <<>>
            /\ nodes[call[d].at].addr \in targets \cup Carried \/ call[d].at = k
        BY <1>0, <1>1, <1>2, <2>1, <4>1 DEF InOrderOfWalk
      <4> QED
        BY <1>0, <1>4, <1>6, <2>9, <4>1, <4>2
    <3> QED
      BY <3>1, <3>2
  <2>13. Accounted'
    BY <1>0, <1>7, <2>7, <2>9, <2>10 DEF Accounted
  <2> QED
    BY <2>11, <2>12, <2>13
<1> QED
  BY <1>13, <1>14

LEMMA ConnectFailsKeeps ==
  ASSUME ManagerTyped, NodesInv, NEW c \in Calls, M!ConnectFails(c)
  PROVE  NodesInv'
<1> SUFFICES ASSUME crowd' # M!Crowded PROVE (Overlap /\ InOrderOfWalk /\ Accounted)'
  BY DEF NodesInv
<1>1. /\ crowd' = crowd /\ crowd \in 0..3 /\ ~(crowd > 1) /\ call[c].configs = <<>> /\ call[c].op = "walk"
      /\ UNCHANGED <<nodes, targets>> /\ failures' = failures + 1 /\ failures \in Nat
      /\ call' = [call EXCEPT ![c] = M!Done]
  BY Types DEF M!ConnectFails
<1>2. crowd # M!Crowded /\ Overlap /\ InOrderOfWalk /\ Accounted
  BY <1>1 DEF NodesInv, M!Crowded
<1>3. c \in Busy /\ c \in M!Active({"walk"})
  BY <1>1 DEF Busy, M!Active
<1>4. crowd = 1 /\ Busy = {c} /\ c \in Viable /\ call[c].at \in Missing
  BY <1>1, <1>2, <1>3 DEF Overlap
<1>5. M!Active({"walk"}) = {c} /\ M!Active({"register"}) = {} /\ Viable = {c}
  BY <1>1, <1>3, <1>4 DEF Busy, M!Active, Viable
<1>6. Carried = {} /\ InHand = {}
  BY <1>1, <1>4, <1>5, CarriedBy, Sets DEF InHand, Missing
<1>7. Busy' = {}
  BY <1>1, <1>4, Types DEF Busy, M!Active
<1>8. M!Active({"walk"})' = {} /\ M!Active({"register"})' = {} /\ Viable' = {}
  BY <1>7 DEF Busy, M!Active, Viable
<1>9. Carried' = {} /\ InHand' = {} /\ Connections' = Connections
  BY <1>1, <1>8, CarriedNext DEF InHand, Connections
<1> QED
  BY <1>1, <1>2, <1>4, <1>6, <1>7, <1>8, <1>9 DEF Overlap, InOrderOfWalk, Accounted

LEMMA RegisterKeeps ==
  ASSUME ManagerTyped, NodesInv, NEW c \in Calls, M!Register(c)
  PROVE  NodesInv'
<1> SUFFICES ASSUME crowd' # M!Crowded PROVE (Overlap /\ InOrderOfWalk /\ Accounted)'
  BY DEF NodesInv
<1>1. /\ UNCHANGED <<nodes, crowd, failures>> /\ call[c].op = "register" /\ call[c] \in Registrations
  BY Types DEF M!Register
<1>2. Overlap /\ InOrderOfWalk /\ Accounted
  BY <1>1 DEF NodesInv
<1>3. PICK s \in Seq(Addresses) : s = call[c].configs
  BY <1>1 DEF Registrations
<1>4. \/ s = <<>> /\ call' = [call EXCEPT ![c] = M!Done] /\ targets' = targets
      \/ /\ s # <<>> /\ targets' = targets \cup {Head(s)}
         /\ call' = [call EXCEPT ![c] = [call[c] EXCEPT !.configs = Tail(@)]]
  BY <1>3 DEF M!Register
<1>5. /\ [call[c] EXCEPT !.configs = Tail(@)].op = "register"
      /\ [call[c] EXCEPT !.configs = Tail(@)].configs = Tail(s)
  BY <1>1, <1>3 DEF Registrations
<1>6. /\ \A d \in Calls \ {c} : call'[d] = call[d]
      /\ s = <<>> => call'[c] = M!Done
      /\ s # <<>> => call'[c].op = "register" /\ call'[c].configs = Tail(s)
  BY <1>4, <1>5, Types
<1>op. call'[c].op = IF s = <<>> THEN "none" ELSE "register"
  BY <1>6, Types
<1>7. /\ M!Active({"walk"})' = M!Active({"walk"}) /\ c \notin M!Active({"walk"})
      /\ M!Active({"register"})' = IF s = <<>> THEN M!Active({"register"}) \ {c} ELSE M!Active({"register"})
      /\ Busy' \subseteq Busy /\ c \in M!Active({"register"})
  BY <1>1, <1>6, <1>op DEF M!Active, Busy
<1>8. \A d \in M!Active({"walk"}) : call'[d] = call[d]
  BY <1>6, <1>7 DEF M!Active
<1>9. Viable' = Viable /\ c \notin Viable /\ Viable \subseteq M!Active({"walk"})
  BY <1>1, <1>7, <1>8 DEF Viable
<1>10. \A d \in (M!Active({"register"}) \cup Viable) \ {c} : call'[d] = call[d]
  BY <1>6 DEF M!Active, Viable
<1>11. targets' \cup Carried' = targets \cup Carried
  <2>1. CASE s = <<>>
    <3>1. ToSet(call[c].configs) = {}
      BY <1>3, <2>1, Sets
    <3>2. Carried' = Carried
      BY <1>7, <1>9, <1>10, <2>1, <3>1, CarriedBy, CarriedNext
    <3> QED
      BY <1>4, <2>1, <3>2
  <2>2. CASE s # <<>>
    <3>1. ToSet(call[c].configs) = {Head(s)} \cup ToSet(call'[c].configs)
      <4>1. ToSet(s) = {Head(s)} \cup ToSet(Tail(s))
        BY <2>2, Sets
      <4>2. call'[c].configs = Tail(s)
        BY <1>6, <2>2
      <4> QED
        BY <1>3, <4>1, <4>2
    <3>2. Carried = Carried' \cup {Head(s)}
      BY <1>7, <1>9, <1>10, <2>2, <3>1, CarriedBy, CarriedNext
    <3> QED
      BY <1>4, <2>2, <3>2
  <2> QED
    BY <2>1, <2>2
<1>12. InHand' = InHand /\ Missing' = Missing /\ Connections' = Connections
  BY <1>1, <1>8, <1>9 DEF InHand, Missing, Connections
<1>13. Overlap'
  BY <1>1, <1>2, <1>7, <1>8, <1>9, <1>12 DEF Overlap
<1>14. InOrderOfWalk'
  BY <1>1, <1>2, <1>7, <1>8, <1>9, <1>11, <1>12 DEF InOrderOfWalk
<1>15. Accounted'
  <2>1. targets' \cup Carried' \subseteq Connections' /\ Connections' \subseteq targets' \cup Carried' \cup InHand'
    BY <1>2, <1>11, <1>12 DEF Accounted
  <2> QED
    BY <1>1, <1>2, <1>9, <1>12, <2>1 DEF Accounted
<1> QED
  BY <1>13, <1>14, <1>15

LEMMA RemoveNodeKeeps ==
  ASSUME ManagerTyped, NodesInv, NEW c \in Calls, NEW addr \in Addresses, M!RemoveNode(c, addr)
  PROVE  NodesInv'
<1> SUFFICES ASSUME crowd' # M!Crowded PROVE (Overlap /\ InOrderOfWalk /\ Accounted)'
  BY DEF NodesInv
<1>1. /\ Busy = {} /\ crowd' = crowd /\ failures' = failures /\ targets' = targets \ {addr}
      /\ nodes' = Without(nodes, addr) /\ call[c] = M!Done
  BY DEF M!RemoveNode, Busy, Without
<1>2. Overlap /\ InOrderOfWalk /\ Accounted
  BY <1>1 DEF NodesInv
<1>3. /\ DOMAIN nodes' = DOMAIN nodes
      /\ \A i \in DOMAIN nodes :
           /\ nodes'[i].addr = nodes[i].addr /\ nodes'[i].connected = nodes[i].connected
           /\ nodes'[i].alive <=> nodes[i].alive /\ nodes[i].addr # addr
  <2>1. nodes \in Seq(Node)
    BY Types
  <2> QED
    BY <1>1, <2>1, RemovedNodes
<1>4. Busy' = {}
  <2>1. call'[c].op \notin {"walk", "register"} /\ \A d \in Calls \ {c} : call'[d] = call[d]
    BY Types DEF M!RemoveNode
  <2> QED
    BY <1>1, <2>1 DEF Busy, M!Active
<1>5. /\ Viable = {} /\ Carried = {} /\ InHand = {}
      /\ Viable' = {} /\ Carried' = {} /\ InHand' = {} /\ M!Active({"walk"})' = {}
  <2>1. M!Active({"walk"}) = {} /\ M!Active({"register"}) = {} /\ Viable = {}
    BY <1>1 DEF Busy, M!Active, Viable
  <2>2. M!Active({"walk"})' = {} /\ M!Active({"register"})' = {} /\ Viable' = {}
    BY <1>4 DEF Busy, M!Active, Viable
  <2> QED
    BY <2>1, <2>2, CarriedBy, CarriedNext DEF InHand
<1>6. Missing' \subseteq Missing /\ Connections' = Connections \ {addr}
  BY <1>3 DEF Missing, Connections
<1>7. targets = Connections /\ (failures = 0 => Missing = {})
  BY <1>2, <1>5 DEF Accounted
<1>8. Accounted'
  BY <1>1, <1>5, <1>6, <1>7 DEF Accounted
<1> QED
  BY <1>4, <1>5, <1>8 DEF Overlap, InOrderOfWalk

LEMMA AddNodeKeeps ==
  ASSUME ManagerTyped, NodesInv, NEW c \in Calls, NEW addr \in Addresses, M!AddNode(c, addr)
  PROVE  NodesInv'
<1> SUFFICES ASSUME crowd' # M!Crowded PROVE (Overlap /\ InOrderOfWalk /\ Accounted)'
  BY DEF NodesInv
<1> DEFINE new == [addr |-> addr, alive |-> TRUE, connected |-> FALSE]
<1>1. /\ addr \notin M!Live /\ M!Carrying = {} /\ crowd # M!Crowded /\ crowd \in 0..3 /\ call[c] = M!Done
      /\ crowd' = IF Busy = {} THEN 1 ELSE crowd + 1
      /\ UNCHANGED <<targets, failures>>
  BY Types DEF M!AddNode, Busy
<1>2. Overlap /\ InOrderOfWalk /\ Accounted
  BY <1>1 DEF NodesInv
<1>3. Busy # {} => crowd = 1 /\ crowd' = 2
  BY <1>1, <1>2 DEF Overlap, M!Crowded
<1>4. nodes' = Append(nodes, new) /\ new \in Node /\ nodes \in Seq(Node) /\ nodes' \in Seq(Node)
  BY <1>1, PlacedTyped, Types DEF M!AddNode, Node
<1>5. M!Size(nodes') = M!Size(nodes) + 1 /\ M!Size(nodes) \in Nat
  BY <1>4, Grows, SizeIsNat
<1> DEFINE n == Len(nodes) + 1
<1>6. /\ DOMAIN nodes' = DOMAIN nodes \cup {n} /\ nodes'[n] = new
      /\ \A i \in DOMAIN nodes : nodes'[i] = nodes[i] /\ i \in Nat \ {0} /\ i < n
  BY <1>4
<1>n. n \in Nat \ {0}
  BY <1>4
<1> HIDE DEF n
<1>7. Missing' = Missing \cup {n} /\ Connections' = Connections /\ Missing' \subseteq Nat \ {0}
  BY <1>6, <1>n DEF Missing, Connections
<1> DEFINE w == [op |-> "walk", at |-> 0, configs |-> <<>>, size |-> M!Size(nodes')]
<1>8. w \in Walks /\ w.at = 0 /\ w.size = M!Size(nodes') /\ w.configs = <<>>
  <2>1. <<>> \in Seq(Addresses)
    OBVIOUS
  <2> QED
    BY <1>5, <2>1 DEF Walks
<1>9. call' = [call EXCEPT ![c] = M!Onward(nodes', w)]
  BY DEF M!AddNode
<1> HIDE DEF w
<1>10. /\ call'[c] = [w EXCEPT !.at = M!Least(Missing')]
       /\ M!Least(Missing') \in Missing' /\ \A i \in Missing' : M!Least(Missing') <= i
  <2> DEFINE rest == {j \in DOMAIN nodes' : j > w.at /\ nodes'[j].alive /\ ~nodes'[j].connected}
  <2>1. rest = Missing'
    BY <1>6, <1>7, <1>8, <1>n DEF Missing
  <2>2. rest # {} => /\ M!Onward(nodes', w) = [w EXCEPT !.at = M!Least(rest)]
                     /\ M!Least(rest) \in rest /\ \A k \in rest : M!Least(rest) <= k
    BY <1>4, <1>8, Onwards
  <2>3. call'[c] = M!Onward(nodes', w)
    BY <1>9, Types
  <2> HIDE DEF rest
  <2> QED
    BY <1>7, <2>1, <2>2, <2>3
<1>11. call'[c].op = "walk" /\ call'[c].at = M!Least(Missing') /\ call'[c].size = M!Size(nodes') /\ call'[c].configs = <<>>
  BY <1>8, <1>10 DEF Walks
<1>12. \A d \in Calls \ {c} : call'[d] = call[d]
  BY <1>9, Types
<1>13. /\ M!Active({"walk"})' = M!Active({"walk"}) \cup {c} /\ M!Active({"register"})' = M!Active({"register"})
       /\ Busy' = Busy \cup {c} /\ c \notin Busy
  BY <1>1, <1>11, <1>12, Types DEF M!Active, Busy
<1>14. \A d \in M!Active({"walk"}) : /\ d \in Viable /\ call[d].at \in Missing /\ call[d].configs = <<>>
                                   /\ d # c /\ call'[d] = call[d] /\ \A i \in Missing : call[d].at <= i
  <2> SUFFICES ASSUME NEW d \in M!Active({"walk"})
               PROVE  /\ d \in Viable /\ call[d].at \in Missing /\ call[d].configs = <<>>
                      /\ d # c /\ call'[d] = call[d] /\ \A i \in Missing : call[d].at <= i
    OBVIOUS
  <2>1. Busy # {} /\ d # c /\ d \in Calls
    BY <1>13 DEF Busy, M!Active
  <2>2. d \in Viable /\ call[d].at \in Missing
    BY <1>2, <1>3, <2>1 DEF Overlap
  <2>3. call[d].configs = <<>>
    BY <1>1 DEF M!Carrying
  <2> QED
    BY <1>2, <1>12, <2>1, <2>2, <2>3 DEF InOrderOfWalk
<1>15. Viable' = {c}
  <2>1. \A d \in M!Active({"walk"}) : call'[d].size # M!Size(nodes')
    BY <1>5, <1>14 DEF Viable
  <2> QED
    BY <1>11, <1>13, <2>1 DEF Viable
<1>16. Carried' = Carried
  <2>1. \A d \in Viable \cup {c} : ToSet(call'[d].configs) = {}
    BY <1>11, <1>14, Sets DEF Viable
  <2>2. \A d \in Viable : ToSet(call[d].configs) = {}
    BY <1>14, Sets DEF Viable
  <2>3. \A d \in M!Active({"register"}) : call'[d] = call[d]
    BY <1>12, <1>13 DEF M!Active, Busy
  <2> QED
    BY <1>13, <1>15, <2>1, <2>2, <2>3, CarriedBy, CarriedNext
<1>17. InHand = {}
  BY <1>14 DEF InHand, Missing, Viable
<1>18. Overlap'
  <2>1. crowd' = 1 => Busy = {}
    BY <1>3
  <2>2. crowd' # 0
    BY <1>1
  <2>3. crowd' = 1 => Busy' = {c} /\ M!Active({"walk"})' = {c}
    BY <1>13, <2>1 DEF Busy, M!Active
  <2> QED
    BY <1>10, <1>11, <1>15, <2>2, <2>3 DEF Overlap
<1>19. InOrderOfWalk'
  <2> SUFFICES ASSUME NEW d \in M!Active({"walk"})'
               PROVE  /\ nodes'[call'[d].at].alive
                      /\ d \in Viable' => \A i \in Missing' : call'[d].at <= i
                      /\ d \notin Viable' =>
                           /\ call'[d].configs = <<>>
                           /\ \/ nodes'[call'[d].at].addr \in (targets \cup Carried)'
                              \/ \E e \in Viable' : call'[e].at = call'[d].at
    BY DEF InOrderOfWalk
  <2>1. CASE d = c
    BY <1>10, <1>11, <1>15, <2>1 DEF Missing
  <2>2. CASE d # c
    <3>1. d \in M!Active({"walk"})
      BY <1>13, <2>2
    <3>2. call'[d].at \in Missing' /\ call'[d].configs = <<>> /\ \A i \in Missing' : call'[d].at <= i
      BY <1>6, <1>7, <1>14, <1>n, <3>1 DEF Missing
    <3>3. call'[c].at = call'[d].at
      <4>1. call'[c].at \in Missing' /\ \A i \in Missing' : call'[c].at <= i
        BY <1>10, <1>11
      <4>2. call'[c].at \in Nat /\ call'[d].at \in Nat
        BY <1>7, <3>2, <4>1
      <4>3. call'[c].at <= call'[d].at /\ call'[d].at <= call'[c].at
        BY <3>2, <4>1
      <4> QED
        BY <4>2, <4>3
    <3> QED
      BY <1>15, <2>2, <3>2, <3>3 DEF Missing
  <2> QED
    BY <2>1, <2>2
<1>20. Accounted'
  BY <1>1, <1>2, <1>7, <1>15, <1>16, <1>17 DEF Accounted
<1> QED
  BY <1>18, <1>19, <1>20

LEMMA NodesStep == ManagerTyped /\ NodesInv /\ [M!Next]_(M!vars) => NodesInv'
<1> SUFFICES ASSUME ManagerTyped, NodesInv, [M!Next]_(M!vars) PROVE NodesInv'
  OBVIOUS
<1>1. CASE M!Ready
  BY <1>1, OtherWalks DEF M!Ready
<1>2. CASE M!Restart
  <2>1. /\ \A c \in Calls : call'[c].op = "none"
        /\ nodes' = <<>> /\ targets' = {} /\ crowd' = 0
    BY <1>2, Types DEF M!Restart
  <2>2. M!Active({"walk"})' = {} /\ M!Active({"register"})' = {} /\ Busy' = {} /\ Viable' = {}
    BY <2>1 DEF Busy, M!Active, Viable
  <2>3. Carried' = {} /\ InHand' = {} /\ Missing' = {} /\ Connections' = {}
    BY <2>1, <2>2, CarriedNext DEF InHand, Missing, Connections
  <2> QED
    BY <2>1, <2>2, <2>3 DEF NodesInv, Overlap, InOrderOfWalk, Accounted
<1>3. ASSUME NEW c \in Calls, M!Removed(c) PROVE NodesInv'
  <2>1. /\ call[c].op = "remove" /\ call' = [call EXCEPT ![c] = M!Done]
        /\ UNCHANGED <<nodes, targets, failures, crowd>>
    BY <1>3 DEF M!Removed, M!nodeVars
  <2>2. call'[c].op = "none" /\ \A d \in Calls \ {c} : call'[d] = call[d]
    BY <2>1, Types
  <2> QED
    BY <2>1, <2>2, OtherWalks
<1>4. ASSUME NEW c \in Calls, M!RouteAnswered(c) PROVE NodesInv'
  <2>1. /\ call[c].op = "route" /\ call' = [call EXCEPT ![c] = M!Done]
        /\ UNCHANGED <<nodes, targets, failures, crowd>>
    BY <1>4 DEF M!RouteAnswered, M!nodeVars
  <2>2. call'[c].op = "none" /\ \A d \in Calls \ {c} : call'[d] = call[d]
    BY <2>1, Types
  <2> QED
    BY <2>1, <2>2, OtherWalks
<1>5. ASSUME NEW c \in Calls, NEW s \in Sources, NEW p \in Ports, M!SetRoute(c, s, p) PROVE NodesInv'
  <2>1. /\ call[c] = M!Done /\ UNCHANGED <<nodes, targets, failures, crowd>>
        /\ call' = [call EXCEPT ![c] = [op |-> "route", source |-> s, port |-> p, insert |-> s \notin known]]
    BY <1>5 DEF M!SetRoute, M!nodeVars
  <2>2. call'[c].op = "route" /\ \A d \in Calls \ {c} : call'[d] = call[d]
    BY <2>1, Types
  <2> QED
    BY <2>1, <2>2, Types, OtherWalks
<1>6. CASE UNCHANGED M!vars
  BY <1>6, OtherWalks DEF M!vars
<1> QED
  BY <1>1, <1>2, <1>3, <1>4, <1>5, <1>6, ConnectedKeeps, ConnectFailsKeeps, RegisterKeeps,
     RemoveNodeKeeps, AddNodeKeeps DEF M!Next

LEMMA NodesInit == M!Init => NodesInv
<1> SUFFICES ASSUME M!Init PROVE NodesInv
  OBVIOUS
<1>1. M!Active({"walk"}) = {} /\ M!Active({"register"}) = {} /\ Busy = {} /\ Viable = {}
  BY DEF M!Init, Busy, M!Active, Viable, M!Done
<1>2. Carried = {} /\ InHand = {} /\ Missing = {} /\ Connections = {}
  BY <1>1, CarriedBy DEF M!Init, InHand, Missing, Connections
<1> QED
  BY <1>1, <1>2 DEF M!Init, NodesInv, Overlap, InOrderOfWalk, Accounted

\* The inductive invariant of the node manager, however many requests overlap.
THEOREM ManagerInductive == M!PortNumbers => (M!Spec => []ManagerInv)
<1> SUFFICES ASSUME M!PortNumbers PROVE M!Spec => []ManagerInv
  OBVIOUS
<1>1. M!Init => ManagerInv
  BY TypedInit, NodesInit, RoutesInit DEF ManagerInv
<1>2. ManagerInv /\ [M!Next]_(M!vars) => ManagerInv'
  BY TypedStep, NodesStep, RoutesStep DEF ManagerInv
<1> QED
  BY <1>1, <1>2, PTL DEF M!Spec

\* However add_node, remove_node and the walks of init overlap, refused
\* connections and restarts included: when all is over the proxy's targets are
\* the nodes that have a connection, and all nodes if no connection failed,
\* unless something happened that is known to lose a node.
THEOREM NodesAreTargets == M!PortNumbers => (M!Spec => []TargetsAreNodes)
<1>1. ManagerInv => TargetsAreNodes
  <2> SUFFICES ASSUME ManagerTyped, NodesInv, M!Quiet, crowd # M!Crowded
               PROVE  targets = Connections /\ (failures = 0 => targets = M!Live)
    BY DEF ManagerInv, TargetsAreNodes, M!TargetsAreNodes, Connections
  <2>1. M!Active({"walk"}) = {} /\ M!Active({"register"}) = {} /\ Viable = {}
    BY DEF M!Quiet, M!Active, Viable, M!Done
  <2>2. Carried = {} /\ InHand = {}
    BY <2>1, CarriedBy DEF InHand
  <2>3. targets = Connections /\ (failures = 0 => Missing = {})
    BY <2>1, <2>2 DEF NodesInv, Accounted
  <2>4. Missing = {} => M!Live = Connections
    BY DEF Missing, M!Live, Connections
  <2> QED
    BY <2>3, <2>4
<1> QED
  BY <1>1, ManagerInductive, PTL

\* Through refusals and restarts, with any number of sources and requests: no
\* source is refused twice in a row, and one whose last request succeeded is
\* routed where that request said.
THEOREM RoutesAreHeld == M!PortNumbers => (M!Spec => []RoutesHeld)
<1>1. ManagerInv => RoutesHeld
  <2> SUFFICES ASSUME RoutesInv PROVE M!RetryHeals /\ M!RouteFollows
    BY DEF ManagerInv, RoutesHeld, M!RoutesHeld
  <2>1. M!RetryHeals
    BY DEF RoutesInv, M!RetryHeals
  <2>2. M!Quiet => \A s \in Sources : RoutesOf(s) = {}
    BY DEF M!Quiet, RoutesOf, M!Active, M!Done
  <2>3. M!RouteFollows
    BY <2>2 DEF RoutesInv, M!RouteFollows
  <2> QED
    BY <2>1, <2>3
<1> QED
  BY <1>1, ManagerInductive, PTL

-----------------------------------------------------------------------------
(***************************************************************************)
(* A client of a switch.                                                   *)
(*                                                                         *)
(* Numbers and bytes tell each other, so do keys and what they mean, and a *)
(* description that was read builds what it was read from; the entries and *)
(* the counters of the switch then follow what callers ask for.            *)
(***************************************************************************)
(***************************************************************************)
(* Numbers as bytes.                                                       *)
(***************************************************************************)
LEMMA Weights ==
  /\ C!Weight(0) = 1
  /\ \A k \in Nat : C!Weight(k) \in Nat \ {0} /\ C!Weight(k + 1) = C!Weight(k) * C!Base
  /\ C!Base \in Nat /\ C!Base > 1
<1>1. ByteBits \in Nat \ {0}
  BY ClientAssumption DEF C!SoundProgram
<1>2. C!Weight(0) = 1
  <2>1. ByteBits * 0 = 0
    BY <1>1
  <2> QED BY <2>1, PowerZero DEF C!Weight
<1>3. ASSUME NEW k \in Nat PROVE C!Weight(k) \in Nat \ {0} /\ C!Weight(k + 1) = C!Weight(k) * C!Base
  <2> DEFINE m == ByteBits * k
             n == ByteBits * (k + 1)
             b == ByteBits * 1
  <2>1. m \in Nat /\ b \in Nat /\ n = m + b
    BY <1>1
  <2> HIDE DEF m, n, b
  <2>2. 2 ^ m \in Nat \ {0} /\ 2 ^ n = 2 ^ m * 2 ^ b
    BY <2>1, PowerPositive, PowerSum
  <2> QED BY <2>2 DEF m, n, b, C!Weight, C!Base
<1>4. C!Base \in Nat /\ C!Base > 1
  <2> DEFINE b == ByteBits * 1
  <2>1. b \in Nat /\ 1 <= b
    BY <1>1
  <2> HIDE DEF b
  <2>2. 2 ^ 1 <= 2 ^ b /\ 2 ^ b \in Nat
    BY <2>1, PowerGrows, PowerIs
  <2>3. 2 ^ 1 = 2
    BY PowerNext, PowerZero, 0 + 1 = 1
  <2> QED BY <2>2, <2>3 DEF b, C!Weight, C!Base
<1> QED BY <1>2, <1>3, <1>4

\* What the last k bytes amount to.
Part(s) == [i \in DOMAIN s |-> s[i] * C!Weight(Len(s) - i)]
Low(s, k) == SumOver(Part(s), (Len(s) - k + 1)..Len(s))

LEMMA LowSteps ==
  ASSUME NEW s \in Seq(Nat)
  PROVE  /\ Low(s, 0) = 0 /\ C!DecodeNum(s) = Low(s, Len(s))
         /\ \A k \in 0..Len(s) : Low(s, k) \in Nat
         /\ \A k \in 0..(Len(s) - 1) : Low(s, k + 1) = s[Len(s) - k] * C!Weight(k) + Low(s, k)
<1> DEFINE c == Part(s)
           n == Len(s)
<1>1. n \in Nat /\ DOMAIN s = 1..n /\ \A i \in 1..n : s[i] \in Nat
  BY LenProperties, ElementOfSeq
<1>2. \A i \in 1..n : c[i] = s[i] * C!Weight(n - i) /\ c[i] \in Nat
  <2> SUFFICES ASSUME NEW i \in 1..n PROVE c[i] = s[i] * C!Weight(n - i) /\ c[i] \in Nat
    OBVIOUS
  <2>1. c[i] = s[i] * C!Weight(n - i)
    BY <1>1 DEF Part
  <2>2. s[i] \in Nat /\ C!Weight(n - i) \in Nat
    BY <1>1, Weights, n - i \in Nat
  <2> DEFINE a == s[i]
             w == C!Weight(n - i)
  <2>3. a \in Nat /\ w \in Nat /\ c[i] = a * w
    BY <2>1, <2>2
  <2> HIDE DEF a, w, c
  <2>4. c[i] \in Nat
    BY <2>3
  <2> QED BY <2>1, <2>4
<1>3. C!DecodeNum(s) = SumOver(c, 1..n)
  <2>1. C!DecodeNum(s) = SumOver(Part(s), DOMAIN s)
    BY DEF C!DecodeNum, C!MapThenSumSet, C!MapThenFoldSet, SumOver, MapThenSumSet, MapThenFoldSet, Part
  <2> QED BY <1>1, <2>1
<1> HIDE DEF c
<1>4. Low(s, 0) = 0
  <2>1. (n - 0 + 1)..n = {}
    BY <1>1
  <2> QED BY <2>1, FS_EmptySet, SumSteps DEF Low
<1>5. C!DecodeNum(s) = Low(s, n)
  <2>1. n - n + 1 = 1
    BY <1>1
  <2> QED BY <1>3, <2>1 DEF Low, c
<1>6. ASSUME NEW k \in 0..n PROVE Low(s, k) \in Nat
  <2> DEFINE S == (n - k + 1)..n
  <2>1. IsFiniteSet(S) /\ \A i \in S : c[i] \in Nat
    BY <1>1, <1>2, FS_Interval
  <2> HIDE DEF S
  <2>2. SumOver(c, S) \in Nat
    BY <2>1, SumType
  <2> QED BY <2>2 DEF S, Low, c
<1>7. ASSUME NEW k \in 0..(n - 1) PROVE Low(s, k + 1) = s[n - k] * C!Weight(k) + Low(s, k)
  <2> DEFINE S == (n - k + 1)..n
             y == n - k
  <2>0. IsFiniteSet(S)
    BY <1>1, FS_Interval
  <2>a. S \cup {y} \subseteq 1..n /\ y \notin S
    BY <1>1
  <2>1. y \notin S /\ \A i \in S \cup {y} : c[i] \in Nat
    BY <1>2, <2>a
  <2>2. (n - (k + 1) + 1)..n = S \cup {y}
    BY <1>1
  <2>3. c[y] = s[n - k] * C!Weight(k)
    <3>1. y \in 1..n /\ n - y = k
      BY <1>1
    <3> QED BY <1>2, <3>1
  <2> HIDE DEF S, y
  <2>4. SumOver(c, S \cup {y}) = c[y] + SumOver(c, S)
    BY <2>0, <2>1, SumAdd
  <2> QED BY <2>2, <2>3, <2>4 DEF S, Low, c
<1> QED BY <1>4, <1>5, <1>6, <1>7

LEMMA LowBound ==
  ASSUME NEW s \in Seq(0..(C!Base - 1)), NEW k \in 0..Len(s)
  PROVE  Low(s, k) \in 0..(C!Weight(k) - 1)
<1>0. /\ Len(s) \in Nat /\ C!Base \in Nat /\ s \in Seq(Nat)
      /\ \A i \in 1..Len(s) : s[i] \in 0..(C!Base - 1)
  <2>1. \A i \in 1..Len(s) : s[i] \in 0..(C!Base - 1)
    BY ElementOfSeq
  <2>2. s \in Seq(Nat)
    BY Weights
  <2> QED BY <2>1, <2>2, LenProperties, Weights
<1> DEFINE S == {j \in Nat : j <= Len(s) => Low(s, j) < C!Weight(j)}
<1>1. 0 \in S
  BY <1>0, LowSteps, Weights
<1>2. ASSUME NEW j \in Nat, j \in S PROVE j + 1 \in S
  <2> SUFFICES ASSUME j + 1 <= Len(s) PROVE Low(s, j + 1) < C!Weight(j + 1)
    OBVIOUS
  <2> DEFINE a == s[Len(s) - j]
             w == C!Weight(j)
             v == C!Weight(j + 1)
             l == Low(s, j)
             m == Low(s, j + 1)
             b == C!Base
  <2>1. j \in 0..(Len(s) - 1) /\ j \in 0..Len(s) /\ Len(s) - j \in 1..Len(s)
    BY <1>0
  <2>a. a \in 0..(b - 1) /\ b \in Nat
    BY <1>0, <2>1
  <2>b. w \in Nat \ {0} /\ v = w * b
    BY Weights
  <2>c. l \in Nat /\ m = a * w + l
    BY <1>0, <2>1, LowSteps
  <2>d. l < w
    BY <1>2, <2>1
  <2>2. a \in 0..(b - 1) /\ w \in Nat \ {0} /\ b \in Nat /\ v = w * b /\ l \in Nat /\ l < w /\ m = a * w + l
    BY <2>a, <2>b, <2>c, <2>d
  <2> HIDE DEF a, w, v, l, m, b
  <2>3. a * w <= (b - 1) * w
    BY <2>2, TimesGrows
  <2>4. (b - 1) * w = w * b - w
    BY <2>2
  <2> DEFINE p == a * w
             q == w * b
  <2>5. p \in Nat /\ q \in Nat /\ p <= q - w /\ m = p + l /\ v = q
    BY <2>2, <2>3, <2>4
  <2> HIDE DEF p, q
  <2>6. m < v
    BY <2>2, <2>5
  <2> QED BY <2>6 DEF m, v
<1>3. Low(s, k) < C!Weight(k)
  <2>1. Nat \subseteq S
    <3> HIDE DEF S
    <3> QED BY <1>1, <1>2, Induction
  <2> QED BY <1>0, <2>1
<1>4. Low(s, k) \in Nat /\ C!Weight(k) \in Nat
  BY <1>0, LowSteps, Weights
<1> QED BY <1>3, <1>4

\* Bytes of a length tell numbers apart.
LEMMA BytesTell ==
  ASSUME NEW s \in Seq(0..(C!Base - 1)), NEW t \in Seq(0..(C!Base - 1)), Len(s) = Len(t),
         C!DecodeNum(s) = C!DecodeNum(t)
  PROVE  s = t
<1> DEFINE n == Len(s)
<1>0. /\ n \in Nat /\ C!Base \in Nat /\ s \in Seq(Nat) /\ t \in Seq(Nat) /\ Len(t) = n
      /\ \A i \in 1..n : s[i] \in 0..(C!Base - 1) /\ t[i] \in 0..(C!Base - 1)
  <2>1. \A i \in 1..n : s[i] \in 0..(C!Base - 1) /\ t[i] \in 0..(C!Base - 1)
    BY ElementOfSeq
  <2>2. s \in Seq(Nat) /\ t \in Seq(Nat)
    <3>1. s \in Seq(Nat)
      BY Weights
    <3>2. t \in Seq(Nat)
      BY Weights
    <3> QED BY <3>1, <3>2
  <2> QED BY <2>1, <2>2, LenProperties, Weights
<1>1. ASSUME NEW k \in 0..(n - 1), Low(s, k + 1) = Low(t, k + 1)
      PROVE  Low(s, k) = Low(t, k) /\ s[n - k] = t[n - k]
  <2>1. k \in 0..n /\ n - k \in 1..n /\ k \in Nat
    BY <1>0
  <2> DEFINE a == s[n - k]
             b == t[n - k]
             w == C!Weight(k)
             l == Low(s, k)
             m == Low(t, k)
  <2>a. a \in Nat /\ b \in Nat
    BY <1>0, <2>1
  <2>b. w \in Nat \ {0}
    BY <2>1, Weights
  <2>c. Low(s, k + 1) = a * w + l
    BY <1>0, LowSteps
  <2>d. Low(t, k + 1) = b * w + m
    BY <1>0, LowSteps
  <2>2. a \in Nat /\ b \in Nat /\ w \in Nat \ {0} /\ a * w + l = b * w + m
    BY <1>1, <2>a, <2>b, <2>c, <2>d
  <2>3. l \in 0..(w - 1) /\ m \in 0..(w - 1)
    BY <1>0, <2>1, LowBound
  <2> HIDE DEF a, b, w, l, m
  <2>4. a = b /\ l = m
    BY <2>2, <2>3, DivideOnce
  <2> QED BY <2>4 DEF a, b, l, m
<1> DEFINE S == {j \in Nat : j <= n => Low(s, n - j) = Low(t, n - j)}
<1>2. 0 \in S
  BY <1>0, LowSteps, n - 0 = n
<1>3. ASSUME NEW j \in Nat, j \in S PROVE j + 1 \in S
  <2> SUFFICES ASSUME j + 1 <= n PROVE Low(s, n - (j + 1)) = Low(t, n - (j + 1))
    OBVIOUS
  <2> DEFINE k == n - (j + 1)
  <2>1. k \in 0..(n - 1) /\ k + 1 = n - j /\ j <= n
    BY <1>0
  <2>2. Low(s, k + 1) = Low(t, k + 1)
    BY <1>3, <2>1
  <2> QED BY <1>1, <2>1, <2>2
<1>4. ASSUME NEW i \in 1..n PROVE s[i] = t[i]
  <2>1. i - 1 \in Nat /\ i - 1 <= n /\ n - i \in 0..(n - 1) /\ (n - i) + 1 = n - (i - 1) /\ n - (n - i) = i
    BY <1>0
  <2>2. i - 1 \in S
    <3> HIDE DEF S
    <3> QED BY <1>2, <1>3, <2>1, Induction
  <2>3. Low(s, (n - i) + 1) = Low(t, (n - i) + 1)
    BY <2>1, <2>2
  <2>4. s[n - (n - i)] = t[n - (n - i)]
    <3> DEFINE k == n - i
    <3>1. k \in 0..(n - 1) /\ Low(s, k + 1) = Low(t, k + 1)
      BY <2>1, <2>3
    <3> HIDE DEF k
    <3>2. s[n - k] = t[n - k]
      BY <1>1, <3>1
    <3> QED BY <3>2 DEF k
  <2> QED BY <2>1, <2>4
<1> QED BY <1>0, <1>4, SeqEqual

LEMMA Lengths ==
  ASSUME NEW w \in Nat \ {0}
  PROVE  /\ C!BitwidthToBytes(w) \in Nat \ {0} /\ ByteBits * C!BitwidthToBytes(w) \in Nat
         /\ w <= ByteBits * C!BitwidthToBytes(w)
<1> DEFINE b == ByteBits
           m == w + b - 1
           q == m \div b
<1>0. b \in Nat \ {0}
  BY ClientAssumption DEF C!SoundProgram
<1>1. b \in Nat \ {0} /\ m \in Nat
  BY <1>0
<1> HIDE DEF b, m
<1>2. q \in Nat /\ m % b \in 0..(b - 1) /\ m = q * b + (m % b)
  BY <1>1, Divided
<1> DEFINE r == m % b
           p == q * b
<1> HIDE DEF q, r
<1>3. p \in Nat /\ m = p + r /\ r \in 0..(b - 1) /\ q \in Nat
  BY <1>1, <1>2 DEF r
<1>4. w <= p
  <2> HIDE DEF p
  <2> QED BY <1>1, <1>3 DEF m
<1>5. q # 0
  BY <1>1, <1>4
<1>6. b * q = p
  BY <1>1, <1>3
<1> QED BY <1>3, <1>4, <1>5, <1>6 DEF q, b, m, C!BitwidthToBytes

\* Bytes of a number, and the number of the bytes.
LEMMA BytesOfNumber ==
  ASSUME NEW w \in Nat \ {0}, NEW n \in Nat, n < 2 ^ w
  PROVE  /\ C!Padded(n, w) \in Seq(0..(C!Base - 1)) /\ Len(C!Padded(n, w)) = C!BitwidthToBytes(w)
         /\ C!DecodeNum(C!Padded(n, w)) = n
<1> DEFINE s == C!Padded(n, w)
           l == C!BitwidthToBytes(w)
<1>1. l \in Nat /\ C!Base \in Nat \ {0}
  BY Lengths, Weights
<1>2. \A i \in 1..l : s[i] = (n \div C!Weight(l - i)) % C!Base /\ s[i] \in 0..(C!Base - 1)
  <2> SUFFICES ASSUME NEW i \in 1..l PROVE s[i] = (n \div C!Weight(l - i)) % C!Base /\ s[i] \in 0..(C!Base - 1)
    OBVIOUS
  <2>1. s[i] = (n \div C!Weight(l - i)) % C!Base
    BY DEF C!Padded
  <2>2. C!Weight(l - i) \in Nat \ {0}
    BY <1>1, Weights, l - i \in Nat
  <2>3. n \div C!Weight(l - i) \in Nat
    BY <2>2, Divided
  <2> QED BY <1>1, <2>1, <2>3, Divided
<1>3. s \in Seq(0..(C!Base - 1)) /\ Len(s) = l
  <2>1. s = [i \in 1..l |-> s[i]]
    BY DEF C!Padded
  <2>2. s \in [1..l -> 0..(C!Base - 1)]
    BY <1>2, <2>1
  <2> HIDE DEF s, l
  <2>3. s \in Seq(0..(C!Base - 1))
    BY <1>1, <2>2, SeqDef
  <2> QED BY <1>1, <2>2, <2>3, LenProperties
<1> HIDE DEF s
<1>4. s \in Seq(Nat)
  BY <1>3, Weights
<1> DEFINE S == {k \in Nat : k <= l => Low(s, k) = n % C!Weight(k)}
<1>5. 0 \in S
  <2>1. n % 1 = 0
    OBVIOUS
  <2> QED BY <1>4, <2>1, LowSteps, Weights
<1>6. ASSUME NEW k \in Nat, k \in S PROVE k + 1 \in S
  <2> SUFFICES ASSUME k + 1 <= l PROVE Low(s, k + 1) = n % C!Weight(k + 1)
    OBVIOUS
  <2>1. k \in 0..(Len(s) - 1) /\ l - k \in 1..l /\ l - (l - k) = k
    BY <1>1, <1>3
  <2> DEFINE v == C!Weight(k)
             x == C!Weight(k + 1)
             b == C!Base
             q == n \div v
             r == n % v
             p == q \div b
             d == q % b
  <2>2. v \in Nat \ {0} /\ x = v * b /\ b \in Nat \ {0} /\ x \in Nat \ {0}
    BY <1>1, Weights, k + 1 \in Nat
  <2>3. Low(s, k + 1) = d * v + r
    <3>1. Low(s, k + 1) = s[l - k] * v + Low(s, k)
      BY <1>3, <1>4, <2>1, LowSteps
    <3>2. s[l - k] = d
      BY <1>2, <2>1
    <3>3. Low(s, k) = r
      BY <1>1, <1>6
    <3> QED BY <3>1, <3>2, <3>3
  <2> HIDE DEF v, x, b
  <2>4. q \in Nat /\ r \in 0..(v - 1) /\ n = q * v + r
    BY <2>2, Divided
  <2>5. p \in Nat /\ d \in 0..(b - 1) /\ q = p * b + d
    BY <2>2, <2>4, Divided
  <2> HIDE DEF q, r, p, d
  <2>6. n = p * x + (d * v + r)
    <3>1. q * v = p * (v * b) + d * v
      BY <2>2, <2>5
    <3> QED BY <2>2, <2>4, <2>5, <3>1
  <2>7. d * v + r \in 0..(x - 1)
    <3>1. d * v <= (b - 1) * v /\ (b - 1) * v = v * b - v
      BY <2>2, <2>5, TimesGrows
    <3> DEFINE e == d * v
               f == v * b
    <3>2. e \in Nat /\ f \in Nat /\ e <= f - v /\ x = f
      BY <2>2, <2>5, <3>1
    <3> HIDE DEF e, f
    <3>3. e + r \in 0..(x - 1)
      BY <2>2, <2>4, <3>2
    <3> QED BY <3>3 DEF e
  <2> DEFINE y == d * v + r
  <2>a. n = p * x + y /\ y \in 0..(x - 1)
    BY <2>6, <2>7
  <2> HIDE DEF y
  <2>8. n % x = y
    BY <2>2, <2>5, <2>a, DividedAs
  <2> QED BY <2>3, <2>8 DEF y, x, v
<1>7. Low(s, l) = n % C!Weight(l)
  <2>1. l \in S
    <3> HIDE DEF S
    <3> QED BY <1>1, <1>5, <1>6, Induction
  <2> QED BY <1>1, <2>1
<1>8. n < C!Weight(l) /\ C!Weight(l) \in Nat \ {0}
  <2> DEFINE m == ByteBits * l
  <2>1. m \in Nat /\ w <= m
    BY Lengths
  <2> HIDE DEF m
  <2>2. 2 ^ w <= 2 ^ m /\ 2 ^ w \in Nat /\ 2 ^ m \in Nat \ {0}
    BY <2>1, PowerGrows, PowerIs, PowerPositive
  <2> DEFINE a == 2 ^ w
             c == 2 ^ m
  <2>3. a <= c /\ a \in Nat /\ c \in Nat \ {0} /\ n < a
    BY <2>2
  <2> HIDE DEF a, c
  <2>4. n < c /\ c \in Nat \ {0}
    BY <2>3
  <2> QED BY <2>4 DEF c, m, C!Weight
<1>9. n % C!Weight(l) = n
  BY <1>8
<1> QED BY <1>3, <1>4, <1>7, <1>9, LowSteps DEF s

(***************************************************************************)
(* Values and their bytes.                                                 *)
(***************************************************************************)
Filling(w) == {b \in Seq(0..(C!Base - 1)) : Len(b) = C!BitwidthToBytes(w)}

\* What a value is encoded to has its number.
LEMMA Encoded ==
  ASSUME NEW w \in Nat \ {0}, NEW v \in C!PythonValues, NEW b \in C!Encode(v, w)
  PROVE  b \in Filling(w) /\ C!DecodeNum(b) = C!Number(v)
<1>0. Len(b) = C!BitwidthToBytes(w)
  BY DEF C!Encode
<1>1. CASE v.kind = "int"
  <2>1. v.of \in Int
    BY <1>1 DEF C!PythonValues
  <2>2. b \in C!EncodeNum(v.of, w)
    BY <1>1 DEF C!Encode
  <2>3. v.of \in Nat /\ v.of < 2 ^ w /\ b = C!Padded(v.of, w)
    BY <2>1, <2>2 DEF C!EncodeNum
  <2>4. b \in Seq(0..(C!Base - 1)) /\ C!DecodeNum(b) = v.of
    BY <2>3, BytesOfNumber
  <2> QED BY <1>0, <1>1, <2>4 DEF Filling, C!Number
<1>2. CASE v.kind \in {"bytes", "mac"}
  <2>1. v.of \in Seq(0..(C!Base - 1)) /\ b = v.of
    BY <1>2 DEF C!PythonValues, C!Encode
  <2> QED BY <1>0, <1>2, <2>1 DEF Filling, C!Number
<1>3. CASE v.kind = "ip"
  <2>1. v.of \in Seq(Nat) /\ b = v.of /\ \A i \in DOMAIN b : b[i] < C!Base
    BY <1>3 DEF C!PythonValues, C!Encode
  <2>2. Len(b) \in Nat /\ DOMAIN b = 1..Len(b) /\ C!Base \in Nat /\ \A i \in 1..Len(b) : b[i] \in Nat
    BY <2>1, LenProperties, ElementOfSeq, Weights
  <2>3. b \in [1..Len(b) -> Nat]
    BY <2>1, LenProperties
  <2>4. ASSUME NEW i \in 1..Len(b) PROVE b[i] \in 0..(C!Base - 1)
    <3>1. b[i] < C!Base
      BY <2>1, <2>2
    <3> QED BY <2>2, <3>1
  <2>5. b \in Seq(0..(C!Base - 1))
    <3>1. b \in [1..Len(b) -> 0..(C!Base - 1)]
      BY <2>3, <2>4
    <3> QED BY <2>2, <3>1, SeqDef
  <2> QED BY <1>0, <1>3, <2>1, <2>5 DEF Filling, C!Number
<1> QED BY <1>1, <1>2, <1>3 DEF C!PythonValues

\* Bytes that fill a field are encoded to themselves.
LEMMA EncodedAgain ==
  ASSUME NEW w, NEW b \in Filling(w)
  PROVE  C!Encode(C!Octets("bytes", b), w) = {b} /\ C!Number(C!Octets("bytes", b)) = C!DecodeNum(b)
BY DEF Filling, C!Encode, C!Octets, C!Number

(***************************************************************************)
(* Names and ids in a program.                                             *)
(***************************************************************************)
FieldTypes == {"exact", "lpm", "ternary", "range"}

LEMMA Fields ==
  ASSUME NEW t \in P4Tables, NEW i \in DOMAIN t.fields
  PROVE  /\ t.fields[i].width \in Nat \ {0} /\ t.fields[i].type \in FieldTypes
         /\ \A j \in DOMAIN t.fields : t.fields[i].name = t.fields[j].name \/ t.fields[i].id = t.fields[j].id => i = j
<1>1. t.fields \in Seq([name : STRING, id : Int, width : Nat \ {0}, type : FieldTypes]) /\ C!Distinct(t.fields)
  BY ClientAssumption DEF C!SoundProgram, FieldTypes
<1>2. t.fields[i] \in [name : STRING, id : Int, width : Nat \ {0}, type : FieldTypes]
  <2>1. DOMAIN t.fields = 1..Len(t.fields)
    BY <1>1, LenProperties
  <2> QED BY <1>1, <2>1, ElementOfSeq
<1> QED BY <1>1, <1>2 DEF C!Distinct

LEMMA TablesAre ==
  ASSUME NEW t \in P4Tables
  PROVE  /\ C!TablesNamed(t.name) = {t}
         /\ {u \in P4Tables : u.name = t.name} = {t} /\ {u \in P4Tables : u.id = t.id} = {t}
         /\ C!TableName(t.id) = t.name
         /\ \A name : t \in C!TablesNamed(name) => C!TablesNamed(name) = {t}
<1>1. \A u \in P4Tables : {t.name, t.alias} \cap {u.name, u.alias} # {} \/ t.id = u.id => t = u
  BY ClientAssumption DEF C!SoundProgram
<1>2. {u \in P4Tables : u.name = t.name} = {t} /\ {u \in P4Tables : u.id = t.id} = {t}
  BY <1>1
<1>3. \A name : t \in C!TablesNamed(name) => C!TablesNamed(name) = {t}
  BY <1>1 DEF C!TablesNamed
<1>4. t \in C!TablesNamed(t.name)
  BY DEF C!TablesNamed
<1>5. C!TableName(t.id) = t.name
  <2>1. (CHOOSE u \in P4Tables : u.id = t.id) = t
    BY <1>2
  <2> QED BY <2>1 DEF C!TableName
<1> QED BY <1>2, <1>3, <1>4, <1>5

LEMMA MatchFieldIs ==
  ASSUME NEW t \in P4Tables, NEW i \in DOMAIN t.fields
  PROVE  /\ C!MatchField(t.name, "name", t.fields[i].name) = {t.fields[i]}
         /\ C!MatchField(t.name, "id", t.fields[i].id) = {t.fields[i]}
<1>1. \A key, x : C!MatchField(t.name, key, x) = C!Members(t.fields, key, x)
  BY TablesAre DEF C!MatchField
<1>2. C!Members(t.fields, "name", t.fields[i].name) = {t.fields[i]}
  BY Fields DEF C!Members
<1>3. C!Members(t.fields, "id", t.fields[i].id) = {t.fields[i]}
  BY Fields DEF C!Members
<1> QED BY <1>1, <1>2, <1>3

LEMMA MatchFieldFound ==
  ASSUME NEW name, NEW key, NEW x, NEW f \in C!MatchField(name, key, x)
  PROVE  \E t \in P4Tables : t.name = name /\ \E i \in DOMAIN t.fields : f = t.fields[i] /\ f[key] = x
BY DEF C!MatchField, C!Members

(***************************************************************************)
(* Matches.                                                                *)
(***************************************************************************)
Contents(f) ==
  CASE f.type = "exact" -> {<<b>> : b \in Filling(f.width)}
    [] f.type = "lpm" -> {<<b, <<p>> >> : b \in Filling(f.width), p \in Int}
    [] OTHER -> {<<b, c>> : b \in Filling(f.width), c \in Filling(f.width)}
Matches(f) == {[id |-> f.id, type |-> f.type, of |-> o] : o \in Contents(f)}
Amount(args) == [j \in DOMAIN args |-> C!Number(args[j])]

\* What is built of values has their numbers.
LEMMA MatchBuilt ==
  ASSUME NEW spec \in Specs, NEW n \in DOMAIN spec.fields, NEW m \in C!MatchFieldPb(spec.table, n, spec.fields[n])
  PROVE  \E t \in P4Tables : t.name = spec.table /\ \E i \in DOMAIN t.fields :
           t.fields[i].name = n /\ m \in Matches(t.fields[i]) /\ Amount(C!MatchFieldValue(m)) = Amount(spec.fields[n])
<1> DEFINE args == spec.fields[n]
           Pb(f) == CASE f.type = "exact" /\ Len(args) = 1 ->
                           {[id |-> f.id, type |-> f.type, of |-> <<b>>] : b \in C!Encode(args[1], f.width)}
                      [] f.type = "lpm" /\ Len(args) = 2 ->
                           {[id |-> f.id, type |-> f.type, of |-> <<b, <<args[2].of>> >>] : b \in C!Encode(args[1], f.width)}
                      [] f.type \in {"ternary", "range"} /\ Len(args) = 2 ->
                           {[id |-> f.id, type |-> f.type, of |-> <<b, c>>] :
                              b \in C!Encode(args[1], f.width), c \in C!Encode(args[2], f.width)}
                      [] OTHER -> {}
<1>1. PICK f \in C!MatchField(spec.table, "name", n) : m \in Pb(f)
  BY DEF C!MatchFieldPb
<1>a. PICK t \in P4Tables : t.name = spec.table /\ \E i \in DOMAIN t.fields : f = t.fields[i] /\ f.name = n
  BY MatchFieldFound
<1>2. PICK i \in DOMAIN t.fields : t.name = spec.table /\ f = t.fields[i] /\ f.name = n
  BY <1>a
<1>3. f.width \in Nat \ {0} /\ f.type \in FieldTypes
  BY <1>2, Fields
<1>4. args \in Seq(C!PythonValues)
  BY ClientAssumption DEF C!SoundRequests
<1>5. \A j \in 1..Len(args) : args[j] \in C!PythonValues
  BY <1>4, ElementOfSeq
<1>6. DOMAIN args = 1..Len(args)
  BY <1>4, LenProperties
<1>7. f.type = "lpm" /\ Len(args) = 2 => args[2].kind = "int"
  <2>1. t \in C!TablesNamed(spec.table)
    BY <1>2 DEF C!TablesNamed
  <2> QED BY <1>2, <2>1, ClientAssumption DEF C!SoundRequests
<1> HIDE DEF args
<1>8. m \in Matches(f) /\ Amount(C!MatchFieldValue(m)) = Amount(args)
  <2>1. CASE f.type = "exact"
    <3>1. Len(args) = 1
      BY <1>1, <2>1
    <3>2. PICK b \in C!Encode(args[1], f.width) : m = [id |-> f.id, type |-> f.type, of |-> <<b>>]
      BY <1>1, <2>1, <3>1
    <3>3. b \in Filling(f.width) /\ C!DecodeNum(b) = C!Number(args[1])
      BY <1>3, <1>5, <3>1, Encoded
    <3>4. m \in Matches(f)
      BY <2>1, <3>2, <3>3 DEF Matches, Contents
    <3>5. C!MatchFieldValue(m) = <<C!Octets("bytes", b)>>
      BY <2>1, <3>2 DEF C!MatchFieldValue
    <3>6. Amount(C!MatchFieldValue(m)) = <<C!DecodeNum(b)>>
      BY <3>3, <3>5, EncodedAgain DEF Amount
    <3>7. Amount(args) = <<C!Number(args[1])>>
      BY <1>6, <3>1 DEF Amount
    <3> QED BY <3>3, <3>4, <3>6, <3>7
  <2>2. CASE f.type = "lpm"
    <3>1. Len(args) = 2
      BY <1>1, <2>2
    <3>2. PICK b \in C!Encode(args[1], f.width) : m = [id |-> f.id, type |-> f.type, of |-> <<b, <<args[2].of>> >>]
      BY <1>1, <2>2, <3>1
    <3>3. b \in Filling(f.width) /\ C!DecodeNum(b) = C!Number(args[1])
      BY <1>3, <1>5, <3>1, Encoded
    <3>4. args[2].of \in Int /\ C!Number(args[2]) = args[2].of
      BY <1>5, <1>7, <2>2, <3>1 DEF C!PythonValues, C!Number
    <3>5. m \in Matches(f)
      BY <2>2, <3>2, <3>3, <3>4 DEF Matches, Contents
    <3>6. C!MatchFieldValue(m) = <<C!Octets("bytes", b), C!IntValue(args[2].of)>>
      BY <2>2, <3>2 DEF C!MatchFieldValue
    <3>7. C!Number(C!IntValue(args[2].of)) = args[2].of
      BY DEF C!Number, C!IntValue
    <3>8. Amount(C!MatchFieldValue(m)) = <<C!DecodeNum(b), args[2].of>>
      BY <3>3, <3>6, <3>7, EncodedAgain DEF Amount
    <3>9. Amount(args) = <<C!Number(args[1]), C!Number(args[2])>>
      BY <1>6, <3>1 DEF Amount
    <3> QED BY <3>3, <3>4, <3>5, <3>8, <3>9
  <2>3. CASE f.type \in {"ternary", "range"}
    <3>1. Len(args) = 2
      BY <1>1, <2>3
    <3>2. PICK b \in C!Encode(args[1], f.width), c \in C!Encode(args[2], f.width) :
            m = [id |-> f.id, type |-> f.type, of |-> <<b, c>>]
      BY <1>1, <2>3, <3>1
    <3>3. /\ b \in Filling(f.width) /\ C!DecodeNum(b) = C!Number(args[1])
          /\ c \in Filling(f.width) /\ C!DecodeNum(c) = C!Number(args[2])
      BY <1>3, <1>5, <3>1, Encoded
    <3>4. m \in Matches(f)
      BY <2>3, <3>2, <3>3 DEF Matches, Contents
    <3>5. C!MatchFieldValue(m) = <<C!Octets("bytes", b), C!Octets("bytes", c)>>
      BY <2>3, <3>2 DEF C!MatchFieldValue
    <3>6. Amount(C!MatchFieldValue(m)) = <<C!DecodeNum(b), C!DecodeNum(c)>>
      BY <3>3, <3>5, EncodedAgain DEF Amount
    <3>7. Amount(args) = <<C!Number(args[1]), C!Number(args[2])>>
      BY <1>6, <3>1 DEF Amount
    <3> QED BY <3>3, <3>4, <3>6, <3>7
  <2> QED BY <1>3, <2>1, <2>2, <2>3 DEF FieldTypes
<1> QED BY <1>2, <1>8 DEF args

\* What is read of a match builds the match again.
LEMMA MatchAgain ==
  ASSUME NEW t \in P4Tables, NEW i \in DOMAIN t.fields, NEW m \in Matches(t.fields[i])
  PROVE  C!MatchFieldPb(t.name, t.fields[i].name, C!MatchFieldValue(m)) = {m}
<1> DEFINE f == t.fields[i]
           args == C!MatchFieldValue(m)
           Pb(g) == CASE g.type = "exact" /\ Len(args) = 1 ->
                           {[id |-> g.id, type |-> g.type, of |-> <<b>>] : b \in C!Encode(args[1], g.width)}
                      [] g.type = "lpm" /\ Len(args) = 2 ->
                           {[id |-> g.id, type |-> g.type, of |-> <<b, <<args[2].of>> >>] : b \in C!Encode(args[1], g.width)}
                      [] g.type \in {"ternary", "range"} /\ Len(args) = 2 ->
                           {[id |-> g.id, type |-> g.type, of |-> <<b, c>>] :
                              b \in C!Encode(args[1], g.width), c \in C!Encode(args[2], g.width)}
                      [] OTHER -> {}
<1>1. f.type \in FieldTypes
  BY Fields
<1>2. C!MatchFieldPb(t.name, f.name, args) = Pb(f)
  <2>1. C!MatchFieldPb(t.name, f.name, args) = UNION {Pb(g) : g \in C!MatchField(t.name, "name", f.name)}
    BY DEF C!MatchFieldPb
  <2>2. C!MatchField(t.name, "name", f.name) = {f}
    BY MatchFieldIs
  <2> HIDE DEF Pb, f, args
  <2> QED BY <2>1, <2>2
<1> SUFFICES Pb(f) = {m}
  BY <1>2
<1>3. PICK o \in Contents(f) : m = [id |-> f.id, type |-> f.type, of |-> o]
  BY DEF Matches
<1> HIDE DEF f
<1>4. CASE f.type = "exact"
  <2>1. PICK b \in Filling(f.width) : o = <<b>>
    BY <1>3, <1>4 DEF Contents
  <2>2. args = <<C!Octets("bytes", b)>>
    BY <1>3, <1>4, <2>1 DEF C!MatchFieldValue
  <2> HIDE DEF args
  <2>3. Len(args) = 1 /\ C!Encode(args[1], f.width) = {b}
    BY <2>2, EncodedAgain
  <2> QED BY <1>3, <1>4, <2>1, <2>3
<1>5. CASE f.type = "lpm"
  <2>1. PICK b \in Filling(f.width), p \in Int : o = <<b, <<p>> >>
    BY <1>3, <1>5 DEF Contents
  <2>2. args = <<C!Octets("bytes", b), C!IntValue(p)>>
    BY <1>3, <1>5, <2>1 DEF C!MatchFieldValue
  <2> HIDE DEF args
  <2>3. Len(args) = 2 /\ C!Encode(args[1], f.width) = {b} /\ args[2].of = p
    BY <2>2, EncodedAgain DEF C!IntValue
  <2> QED BY <1>3, <1>5, <2>1, <2>3
<1>6. CASE f.type \in {"ternary", "range"}
  <2>1. PICK b \in Filling(f.width), c \in Filling(f.width) : o = <<b, c>>
    BY <1>3, <1>6 DEF Contents
  <2>2. args = <<C!Octets("bytes", b), C!Octets("bytes", c)>>
    BY <1>3, <1>6, <2>1 DEF C!MatchFieldValue
  <2> HIDE DEF args
  <2>3. Len(args) = 2 /\ C!Encode(args[1], f.width) = {b} /\ C!Encode(args[2], f.width) = {c}
    BY <2>2, EncodedAgain
  <2> QED BY <1>3, <1>6, <2>1, <2>3
<1> QED BY <1>1, <1>4, <1>5, <1>6 DEF FieldTypes

\* The numbers of a match tell it from others of its field.
LEMMA MatchTells ==
  ASSUME NEW f, NEW m \in Matches(f), NEW p \in Matches(f),
         Amount(C!MatchFieldValue(m)) = Amount(C!MatchFieldValue(p))
  PROVE  m = p
<1>1. PICK o \in Contents(f) : m = [id |-> f.id, type |-> f.type, of |-> o]
  BY DEF Matches
<1>2. PICK q \in Contents(f) : p = [id |-> f.id, type |-> f.type, of |-> q]
  BY DEF Matches
<1>3. \A b, c \in Filling(f.width) : C!DecodeNum(b) = C!DecodeNum(c) => b = c
  BY BytesTell DEF Filling
<1> DEFINE B(x) == C!Octets("bytes", x)
<1>4. \A b \in Filling(f.width) : C!Number(B(b)) = C!DecodeNum(b)
  BY EncodedAgain
<1>5. CASE f.type = "exact"
  <2>1. PICK b \in Filling(f.width) : o = <<b>>
    BY <1>5 DEF Contents
  <2>2. PICK c \in Filling(f.width) : q = <<c>>
    BY <1>5 DEF Contents
  <2>3. C!MatchFieldValue(m) = <<B(b)>> /\ C!MatchFieldValue(p) = <<B(c)>>
    BY <1>1, <1>2, <1>5, <2>1, <2>2 DEF C!MatchFieldValue
  <2> HIDE DEF B
  <2>4. <<C!DecodeNum(b)>> = <<C!DecodeNum(c)>>
    BY <1>4, <2>3 DEF Amount
  <2> QED BY <1>1, <1>2, <1>3, <2>1, <2>2, <2>4
<1>6. CASE f.type = "lpm"
  <2>1. PICK b \in Filling(f.width), x \in Int : o = <<b, <<x>> >>
    BY <1>6 DEF Contents
  <2>2. PICK c \in Filling(f.width), y \in Int : q = <<c, <<y>> >>
    BY <1>6 DEF Contents
  <2>3. /\ C!MatchFieldValue(m) = <<B(b), C!IntValue(x)>>
        /\ C!MatchFieldValue(p) = <<B(c), C!IntValue(y)>>
    BY <1>1, <1>2, <1>6, <2>1, <2>2 DEF C!MatchFieldValue
  <2>4. C!Number(C!IntValue(x)) = x /\ C!Number(C!IntValue(y)) = y
    BY DEF C!Number, C!IntValue
  <2> HIDE DEF B
  <2>5. <<C!DecodeNum(b), x>> = <<C!DecodeNum(c), y>>
    BY <1>4, <2>3, <2>4 DEF Amount
  <2> QED BY <1>1, <1>2, <1>3, <2>1, <2>2, <2>5
<1>7. CASE f.type # "exact" /\ f.type # "lpm"
  <2>1. PICK b \in Filling(f.width), d \in Filling(f.width) : o = <<b, d>>
    BY <1>7 DEF Contents
  <2>2. PICK c \in Filling(f.width), e \in Filling(f.width) : q = <<c, e>>
    BY <1>7 DEF Contents
  <2>3. /\ C!MatchFieldValue(m) = <<B(b), B(d)>>
        /\ C!MatchFieldValue(p) = <<B(c), B(e)>>
    BY <1>1, <1>2, <1>7, <2>1, <2>2 DEF C!MatchFieldValue
  <2> HIDE DEF B
  <2>4. <<C!DecodeNum(b), C!DecodeNum(d)>> = <<C!DecodeNum(c), C!DecodeNum(e)>>
    BY <1>4, <2>3 DEF Amount
  <2> QED BY <1>1, <1>2, <1>3, <2>1, <2>2, <2>4
<1> QED BY <1>5, <1>6, <1>7

(***************************************************************************)
(* Keys of entries.                                                        *)
(***************************************************************************)
IsKey(k) ==
  /\ k = [table |-> k.table, match |-> k.match, default |-> k.default, priority |-> k.priority]
  /\ \E t \in P4Tables : t.id = k.table /\ \A m \in k.match : \E i \in DOMAIN t.fields : m \in Matches(t.fields[i])
  /\ \A m, p \in k.match : m.id = p.id => m = p

NameOf(k, m) == (CHOOSE f \in C!MatchField(C!TableName(k.table), "id", m.id) : TRUE).name
Meaning(k) == C!KeyMeaning(C!KeySpec(k))

LEMMA NamesOfMatches ==
  ASSUME NEW k, IsKey(k), NEW t \in P4Tables, t.id = k.table
  PROVE  /\ \A m \in k.match : \E i \in DOMAIN t.fields :
              m \in Matches(t.fields[i]) /\ m.id = t.fields[i].id /\ NameOf(k, m) = t.fields[i].name
         /\ \A m, p \in k.match : NameOf(k, m) = NameOf(k, p) => m = p
<1>1. \A u \in P4Tables : u.id = k.table => u = t
  BY TablesAre
<1>2. \A m \in k.match : \E i \in DOMAIN t.fields : m \in Matches(t.fields[i])
  BY <1>1 DEF IsKey
<1>3. C!TableName(k.table) = t.name
  BY TablesAre
<1>4. ASSUME NEW m \in k.match, NEW i \in DOMAIN t.fields, m \in Matches(t.fields[i])
      PROVE  m.id = t.fields[i].id /\ NameOf(k, m) = t.fields[i].name
  <2>1. m.id = t.fields[i].id
    BY <1>4 DEF Matches
  <2>2. C!MatchField(C!TableName(k.table), "id", m.id) = {t.fields[i]}
    BY <1>3, <2>1, MatchFieldIs
  <2> QED BY <2>1, <2>2 DEF NameOf
<1>5. \A m \in k.match : \E i \in DOMAIN t.fields :
              m \in Matches(t.fields[i]) /\ m.id = t.fields[i].id /\ NameOf(k, m) = t.fields[i].name
  BY <1>2, <1>4
<1>6. ASSUME NEW m \in k.match, NEW p \in k.match, NameOf(k, m) = NameOf(k, p) PROVE m = p
  <2>1. PICK i \in DOMAIN t.fields : m.id = t.fields[i].id /\ NameOf(k, m) = t.fields[i].name
    BY <1>5
  <2>2. PICK j \in DOMAIN t.fields : p.id = t.fields[j].id /\ NameOf(k, p) = t.fields[j].name
    BY <1>5
  <2>3. i = j
    BY <1>6, <2>1, <2>2, Fields
  <2> QED BY <2>1, <2>2, <2>3 DEF IsKey
<1> QED BY <1>5, <1>6

LEMMA KeyRead ==
  ASSUME NEW k, IsKey(k), NEW t \in P4Tables, t.id = k.table
  PROVE  /\ C!KeySpec(k).table = t.name /\ C!KeySpec(k).default = k.default /\ C!KeySpec(k).priority = k.priority
         /\ DOMAIN C!KeySpec(k).fields = {NameOf(k, m) : m \in k.match}
         /\ \A m \in k.match : C!KeySpec(k).fields[NameOf(k, m)] = C!MatchFieldValue(m)
<1>1. C!KeySpec(k) =
        [table |-> t.name, default |-> k.default, priority |-> k.priority,
         fields |-> [n \in {NameOf(k, m) : m \in k.match} |-> C!MatchFieldValue(CHOOSE m \in k.match : NameOf(k, m) = n)]]
  BY TablesAre DEF C!KeySpec, NameOf
<1> DEFINE names == {NameOf(k, m) : m \in k.match}
           F == [n \in names |-> C!MatchFieldValue(CHOOSE m \in k.match : NameOf(k, m) = n)]
<1>2. \A m \in k.match : F[NameOf(k, m)] = C!MatchFieldValue(m)
  <2> SUFFICES ASSUME NEW m \in k.match PROVE F[NameOf(k, m)] = C!MatchFieldValue(m)
    OBVIOUS
  <2>1. (CHOOSE p \in k.match : NameOf(k, p) = NameOf(k, m)) = m
    BY NamesOfMatches
  <2>2. NameOf(k, m) \in names
    OBVIOUS
  <2>3. F[NameOf(k, m)] = C!MatchFieldValue(CHOOSE p \in k.match : NameOf(k, p) = NameOf(k, m))
    BY <2>2, Zenon
  <2> QED BY <2>1, <2>3
<1>3. DOMAIN F = names
  OBVIOUS
<1>4. C!KeySpec(k).fields = F
  BY <1>1
<1> QED BY <1>1, <1>2, <1>3, <1>4

LEMMA KeyMeans ==
  ASSUME NEW k, IsKey(k), NEW t \in P4Tables, t.id = k.table
  PROVE  /\ Meaning(k).table = t.name /\ Meaning(k).default = k.default /\ Meaning(k).priority = k.priority
         /\ DOMAIN Meaning(k).fields = {NameOf(k, m) : m \in k.match}
         /\ \A m \in k.match : Meaning(k).fields[NameOf(k, m)] = Amount(C!MatchFieldValue(m))
<1> DEFINE s == C!KeySpec(k)
<1>1. /\ s.table = t.name /\ s.default = k.default /\ s.priority = k.priority
      /\ DOMAIN s.fields = {NameOf(k, m) : m \in k.match}
      /\ \A m \in k.match : s.fields[NameOf(k, m)] = C!MatchFieldValue(m)
  BY KeyRead
<1>2. (CHOOSE u \in C!TablesNamed(s.table) : TRUE) = t
  BY <1>1, TablesAre
<1> HIDE DEF s
<1>3. C!KeyMeaning(s) =
        [table |-> t.name, default |-> s.default, priority |-> s.priority,
         fields |-> [n \in DOMAIN s.fields |-> Amount(s.fields[n])]]
  BY <1>2 DEF C!KeyMeaning, Amount
<1> QED BY <1>1, <1>3 DEF Meaning, s

\* Keys that mean the same are the same.
LEMMA KeysTell ==
  ASSUME NEW k, IsKey(k), NEW l, IsKey(l), Meaning(k) = Meaning(l)
  PROVE  k = l
<1>1. PICK t \in P4Tables : t.id = k.table
  BY DEF IsKey
<1>2. PICK u \in P4Tables : u.id = l.table
  BY DEF IsKey
<1>3. t = u /\ k.table = l.table /\ k.default = l.default /\ k.priority = l.priority
  BY <1>1, <1>2, KeyMeans, TablesAre
<1>4. ASSUME NEW x, IsKey(x), NEW y, IsKey(y), Meaning(x) = Meaning(y), x.table = y.table, NEW m \in x.match
      PROVE  m \in y.match
  <2>1. PICK v \in P4Tables : v.id = x.table
    BY <1>4 DEF IsKey
  <2>2. NameOf(x, m) \in {NameOf(y, p) : p \in y.match}
    BY <1>4, <2>1, KeyMeans
  <2>3. PICK p \in y.match : NameOf(x, m) = NameOf(y, p)
    BY <2>2
  <2>4. PICK i \in DOMAIN v.fields : m \in Matches(v.fields[i]) /\ NameOf(x, m) = v.fields[i].name
    BY <1>4, <2>1, NamesOfMatches
  <2>5. PICK j \in DOMAIN v.fields : p \in Matches(v.fields[j]) /\ NameOf(y, p) = v.fields[j].name
    BY <1>4, <2>1, NamesOfMatches
  <2>6. i = j
    BY <2>3, <2>4, <2>5, Fields
  <2>7. Amount(C!MatchFieldValue(m)) = Amount(C!MatchFieldValue(p))
    BY <1>4, <2>1, <2>3, KeyMeans
  <2>8. m = p
    BY <2>4, <2>5, <2>6, <2>7, MatchTells
  <2> QED BY <2>8
<1>5. k.match = l.match
  <2>1. \A m \in k.match : m \in l.match
    BY <1>3, <1>4
  <2>2. \A m \in l.match : m \in k.match
    BY <1>3, <1>4
  <2> QED BY <2>1, <2>2
<1> QED BY <1>3, <1>5 DEF IsKey

\* What is read of an entry's key builds the key again.
LEMMA KeyAgain ==
  ASSUME NEW k, IsKey(k), NEW spec, spec.table = C!KeySpec(k).table, spec.fields = C!KeySpec(k).fields,
         spec.default = C!KeySpec(k).default, spec.priority = C!KeySpec(k).priority
  PROVE  C!BuildKey(spec) = {k}
<1>1. PICK t \in P4Tables : t.id = k.table
  BY DEF IsKey
<1>2. /\ spec.table = t.name /\ spec.default = k.default /\ spec.priority = k.priority
      /\ DOMAIN spec.fields = {NameOf(k, m) : m \in k.match}
      /\ \A m \in k.match : spec.fields[NameOf(k, m)] = C!MatchFieldValue(m)
  BY <1>1, KeyRead
<1> DEFINE pb == [n \in DOMAIN spec.fields |-> C!MatchFieldPb(spec.table, n, spec.fields[n])]
<1>3. \A m \in k.match : pb[NameOf(k, m)] = {m}
  <2> SUFFICES ASSUME NEW m \in k.match PROVE pb[NameOf(k, m)] = {m}
    OBVIOUS
  <2>1. PICK i \in DOMAIN t.fields : m \in Matches(t.fields[i]) /\ NameOf(k, m) = t.fields[i].name
    BY <1>1, NamesOfMatches
  <2>2. pb[NameOf(k, m)] = C!MatchFieldPb(t.name, t.fields[i].name, C!MatchFieldValue(m))
    BY <1>2, <2>1
  <2> QED BY <2>1, <2>2, MatchAgain
<1>4. DOMAIN pb = {NameOf(k, m) : m \in k.match}
  BY <1>2
<1> HIDE DEF pb
<1>5. C!All(pb) = {k.match}
  <2>1. \A n \in DOMAIN pb : pb[n] # {}
    BY <1>3, <1>4
  <2>2. {CHOOSE x \in pb[n] : TRUE : n \in DOMAIN pb} = k.match
    BY <1>3, <1>4
  <2> QED BY <2>1, <2>2 DEF C!All
<1>6. C!TablesNamed(spec.table) = {t}
  BY <1>2, TablesAre
<1>7. C!BuildKey(spec) = {[table |-> u.id, match |-> m, default |-> spec.default, priority |-> spec.priority] :
                            u \in C!TablesNamed(spec.table), m \in C!All(pb)}
  BY DEF C!BuildKey, pb
<1> QED BY <1>1, <1>2, <1>5, <1>6, <1>7 DEF IsKey

\* A key that is built means what its description means.
LEMMA KeyBuilt ==
  ASSUME NEW spec \in Specs, NEW k \in C!BuildKey(spec)
  PROVE  /\ IsKey(k) /\ Meaning(k) = C!KeyMeaning(spec)
         /\ k.default = spec.default /\ k.priority = spec.priority
         /\ DOMAIN spec.fields # {} => k.match # {}
         /\ \E t \in C!TablesNamed(spec.table) : t.id = k.table
<1> DEFINE pb == [n \in DOMAIN spec.fields |-> C!MatchFieldPb(spec.table, n, spec.fields[n])]
           X(n) == CHOOSE x \in pb[n] : TRUE
<1>1. PICK t \in C!TablesNamed(spec.table), ms \in C!All(pb) :
         k = [table |-> t.id, match |-> ms, default |-> spec.default, priority |-> spec.priority]
  BY DEF C!BuildKey
<1>2. DOMAIN pb = DOMAIN spec.fields /\ \A n \in DOMAIN spec.fields : pb[n] = C!MatchFieldPb(spec.table, n, spec.fields[n])
  OBVIOUS
<1> HIDE DEF pb
<1>3. ms = {X(n) : n \in DOMAIN spec.fields} /\ \A n \in DOMAIN spec.fields : X(n) \in pb[n]
  BY <1>2 DEF C!All
<1>4. t \in P4Tables /\ C!TablesNamed(spec.table) = {t}
  <2>1. t \in P4Tables
    BY DEF C!TablesNamed
  <2> QED BY <2>1, TablesAre
<1> HIDE DEF X
<1>5. ASSUME NEW n \in DOMAIN spec.fields
      PROVE  \E i \in DOMAIN t.fields :
               t.fields[i].name = n /\ X(n) \in Matches(t.fields[i]) /\ Amount(C!MatchFieldValue(X(n))) = Amount(spec.fields[n])
  <2>1. X(n) \in C!MatchFieldPb(spec.table, n, spec.fields[n])
    BY <1>2, <1>3
  <2>2. PICK u \in P4Tables : u.name = spec.table /\ \E i \in DOMAIN u.fields :
           u.fields[i].name = n /\ X(n) \in Matches(u.fields[i]) /\ Amount(C!MatchFieldValue(X(n))) = Amount(spec.fields[n])
    BY <2>1, MatchBuilt
  <2>3. u = t
    BY <1>4, <2>2 DEF C!TablesNamed
  <2> QED BY <2>2, <2>3
<1>6. IsKey(k)
  <2>1. ASSUME NEW m \in k.match PROVE \E i \in DOMAIN t.fields : m \in Matches(t.fields[i])
    BY <1>1, <1>3, <1>5
  <2>2. ASSUME NEW m \in k.match, NEW p \in k.match, m.id = p.id PROVE m = p
    <3>1. PICK n \in DOMAIN spec.fields : m = X(n)
      BY <1>1, <1>3
    <3>2. PICK o \in DOMAIN spec.fields : p = X(o)
      BY <1>1, <1>3
    <3>3. PICK i \in DOMAIN t.fields : t.fields[i].name = n /\ m \in Matches(t.fields[i])
      BY <1>5, <3>1
    <3>4. PICK j \in DOMAIN t.fields : t.fields[j].name = o /\ p \in Matches(t.fields[j])
      BY <1>5, <3>2
    <3>5. m.id = t.fields[i].id /\ p.id = t.fields[j].id
      BY <3>3, <3>4 DEF Matches
    <3>6. i = j
      BY <1>4, <2>2, <3>5, Fields
    <3> QED BY <3>1, <3>2, <3>3, <3>4, <3>6
  <2> QED BY <1>1, <1>4, <2>1, <2>2 DEF IsKey
<1>7. \A n \in DOMAIN spec.fields : NameOf(k, X(n)) = n
  <2> SUFFICES ASSUME NEW n \in DOMAIN spec.fields PROVE NameOf(k, X(n)) = n
    OBVIOUS
  <2>1. PICK i \in DOMAIN t.fields : t.fields[i].name = n /\ X(n) \in Matches(t.fields[i])
    BY <1>5
  <2>2. X(n) \in k.match
    BY <1>1, <1>3
  <2>3. PICK j \in DOMAIN t.fields : X(n).id = t.fields[j].id /\ NameOf(k, X(n)) = t.fields[j].name
    BY <1>1, <1>4, <1>6, <2>2, NamesOfMatches
  <2>4. X(n).id = t.fields[i].id
    BY <2>1 DEF Matches
  <2>5. i = j
    BY <1>4, <2>3, <2>4, Fields
  <2> QED BY <2>1, <2>3, <2>5
<1>8. Meaning(k) = C!KeyMeaning(spec)
  <2> DEFINE s == C!KeySpec(k)
  <2>1. /\ s.table = t.name /\ s.default = k.default /\ s.priority = k.priority
        /\ DOMAIN s.fields = {NameOf(k, m) : m \in k.match}
        /\ \A m \in k.match : s.fields[NameOf(k, m)] = C!MatchFieldValue(m)
    BY <1>1, <1>4, <1>6, KeyRead
  <2> HIDE DEF s
  <2>2. DOMAIN s.fields = DOMAIN spec.fields
    BY <1>1, <1>3, <1>7, <2>1
  <2>3. \A n \in DOMAIN spec.fields : Amount(s.fields[n]) = Amount(spec.fields[n])
    BY <1>1, <1>3, <1>5, <1>7, <2>1
  <2>4. /\ (CHOOSE u \in C!TablesNamed(s.table) : TRUE) = t
        /\ (CHOOSE u \in C!TablesNamed(spec.table) : TRUE) = t
    BY <1>4, <2>1, TablesAre
  <2>5. C!KeyMeaning(s) = [table |-> t.name, default |-> s.default, priority |-> s.priority,
                           fields |-> [n \in DOMAIN s.fields |-> Amount(s.fields[n])]]
    BY <2>4 DEF C!KeyMeaning, Amount
  <2>6. C!KeyMeaning(spec) = [table |-> t.name, default |-> spec.default, priority |-> spec.priority,
                              fields |-> [n \in DOMAIN spec.fields |-> Amount(spec.fields[n])]]
    BY <2>4 DEF C!KeyMeaning, Amount
  <2>7. s.default = spec.default /\ s.priority = spec.priority
    BY <1>1, <2>1
  <2>8. C!KeyMeaning(s) = C!KeyMeaning(spec)
    BY <2>2, <2>3, <2>5, <2>6, <2>7
  <2> QED BY <2>8 DEF Meaning, s
<1> QED BY <1>1, <1>3, <1>6, <1>8

(***************************************************************************)
(* Actions of entries: the same of their parameters.                       *)
(***************************************************************************)
LEMMA Parameters ==
  ASSUME NEW a \in Actions, NEW i \in DOMAIN a.params
  PROVE  /\ a.params[i].width \in Nat \ {0}
         /\ \A j \in DOMAIN a.params : a.params[i].name = a.params[j].name \/ a.params[i].id = a.params[j].id => i = j
<1>1. a.params \in Seq([name : STRING, id : Int, width : Nat \ {0}]) /\ C!Distinct(a.params)
  BY ClientAssumption DEF C!SoundProgram
<1>2. a.params[i] \in [name : STRING, id : Int, width : Nat \ {0}]
  <2>1. DOMAIN a.params = 1..Len(a.params)
    BY <1>1, LenProperties
  <2> QED BY <1>1, <2>1, ElementOfSeq
<1> QED BY <1>1, <1>2 DEF C!Distinct

LEMMA ActionsAre ==
  ASSUME NEW a \in Actions
  PROVE  C!ActionsNamed(a.name) = {a} /\ (CHOOSE b \in Actions : b.id = a.id) = a
<1>1. \A b \in Actions : a.name = b.name \/ a.id = b.id => a = b
  BY ClientAssumption DEF C!SoundProgram
<1> QED BY <1>1 DEF C!ActionsNamed

LEMMA ActionParamIs ==
  ASSUME NEW a \in Actions, NEW i \in DOMAIN a.params
  PROVE  /\ C!ActionParam(a.name, "name", a.params[i].name) = {a.params[i]}
         /\ C!ActionParam(a.name, "id", a.params[i].id) = {a.params[i]}
<1>1. \A key, x : C!ActionParam(a.name, key, x) = C!Members(a.params, key, x)
  BY ActionsAre DEF C!ActionParam
<1>2. C!Members(a.params, "name", a.params[i].name) = {a.params[i]}
  BY Parameters DEF C!Members
<1>3. C!Members(a.params, "id", a.params[i].id) = {a.params[i]}
  BY Parameters DEF C!Members
<1> QED BY <1>1, <1>2, <1>3

Arguments(q) == {[id |-> q.id, of |-> b] : b \in Filling(q.width)}

IsAction(c) ==
  /\ c = [id |-> c.id, params |-> c.params]
  /\ \E a \in Actions : a.id = c.id /\ \A p \in c.params : \E i \in DOMAIN a.params : p \in Arguments(a.params[i])
  /\ \A p, q \in c.params : p.id = q.id => p = q

ParamOf(a, p) == (CHOOSE q \in C!ActionParam(a.name, "id", p.id) : TRUE).name

LEMMA NamesOfArguments ==
  ASSUME NEW c, IsAction(c), NEW a \in Actions, a.id = c.id
  PROVE  /\ \A p \in c.params : \E i \in DOMAIN a.params :
              p \in Arguments(a.params[i]) /\ p.id = a.params[i].id /\ ParamOf(a, p) = a.params[i].name
         /\ \A p, q \in c.params : ParamOf(a, p) = ParamOf(a, q) => p = q
<1>1. \A b \in Actions : b.id = c.id => b = a
  BY ClientAssumption DEF C!SoundProgram
<1>2. \A p \in c.params : \E i \in DOMAIN a.params : p \in Arguments(a.params[i])
  BY <1>1 DEF IsAction
<1>3. ASSUME NEW p \in c.params, NEW i \in DOMAIN a.params, p \in Arguments(a.params[i])
      PROVE  p.id = a.params[i].id /\ ParamOf(a, p) = a.params[i].name
  <2>1. p.id = a.params[i].id
    BY <1>3 DEF Arguments
  <2>2. C!ActionParam(a.name, "id", p.id) = {a.params[i]}
    BY <2>1, ActionParamIs
  <2> QED BY <2>1, <2>2 DEF ParamOf
<1>4. \A p \in c.params : \E i \in DOMAIN a.params :
              p \in Arguments(a.params[i]) /\ p.id = a.params[i].id /\ ParamOf(a, p) = a.params[i].name
  BY <1>2, <1>3
<1>5. ASSUME NEW p \in c.params, NEW q \in c.params, ParamOf(a, p) = ParamOf(a, q) PROVE p = q
  <2>1. PICK i \in DOMAIN a.params : p.id = a.params[i].id /\ ParamOf(a, p) = a.params[i].name
    BY <1>4
  <2>2. PICK j \in DOMAIN a.params : q.id = a.params[j].id /\ ParamOf(a, q) = a.params[j].name
    BY <1>4
  <2>3. i = j
    BY <1>5, <2>1, <2>2, Parameters
  <2> QED BY <2>1, <2>2, <2>3 DEF IsAction
<1> QED BY <1>4, <1>5

LEMMA ActionRead ==
  ASSUME NEW c, IsAction(c), NEW a \in Actions, a.id = c.id
  PROVE  /\ C!ActionSpec(c).action = a.name
         /\ DOMAIN C!ActionSpec(c).params = {ParamOf(a, p) : p \in c.params}
         /\ \A p \in c.params : C!ActionSpec(c).params[ParamOf(a, p)] = C!Octets("bytes", p.of)
<1> DEFINE names == {ParamOf(a, p) : p \in c.params}
           F == [n \in names |-> C!Octets("bytes", (CHOOSE p \in c.params : ParamOf(a, p) = n).of)]
<1>0. (CHOOSE b \in Actions : b.id = c.id) = a
  BY ActionsAre
<1>1. C!ActionSpec(c) = [action |-> a.name, params |-> F]
  <2> DEFINE act == (CHOOSE b \in Actions : b.id = c.id).name
             name(p) == (CHOOSE q \in C!ActionParam(act, "id", p.id) : TRUE).name
  <2>1. C!ActionSpec(c) = [action |-> act, params |-> [n \in {name(p) : p \in c.params} |->
                             C!Octets("bytes", (CHOOSE p \in c.params : name(p) = n).of)]]
    BY DEF C!ActionSpec
  <2>2. act = a.name
    BY <1>0
  <2> HIDE DEF act
  <2> QED BY <2>1, <2>2 DEF ParamOf
<1>2. \A p \in c.params : F[ParamOf(a, p)] = C!Octets("bytes", p.of)
  <2> SUFFICES ASSUME NEW p \in c.params PROVE F[ParamOf(a, p)] = C!Octets("bytes", p.of)
    OBVIOUS
  <2>1. (CHOOSE q \in c.params : ParamOf(a, q) = ParamOf(a, p)) = p
    BY NamesOfArguments
  <2>2. ParamOf(a, p) \in names
    OBVIOUS
  <2>3. F[ParamOf(a, p)] = C!Octets("bytes", (CHOOSE q \in c.params : ParamOf(a, q) = ParamOf(a, p)).of)
    BY <2>2, Zenon
  <2> QED BY <2>1, <2>3
<1>3. DOMAIN F = names
  OBVIOUS
<1> HIDE DEF F, names
<1>4. C!ActionSpec(c).action = a.name /\ C!ActionSpec(c).params = F
  BY <1>1
<1> QED BY <1>2, <1>3, <1>4 DEF names

\* What is read of an action builds the action again.
LEMMA ActionAgain ==
  ASSUME NEW c, IsAction(c), NEW spec, spec.action = C!ActionSpec(c).action, spec.params = C!ActionSpec(c).params
  PROVE  C!BuildAction(spec) = {c}
<1>1. PICK a \in Actions : a.id = c.id
  BY DEF IsAction
<1>2. /\ spec.action = a.name
      /\ DOMAIN spec.params = {ParamOf(a, p) : p \in c.params}
      /\ \A p \in c.params : spec.params[ParamOf(a, p)] = C!Octets("bytes", p.of)
  BY <1>1, ActionRead
<1> DEFINE pb == [n \in DOMAIN spec.params |-> C!ActionParamPb(spec.action, n, spec.params[n])]
<1>3. \A p \in c.params : pb[ParamOf(a, p)] = {p}
  <2> SUFFICES ASSUME NEW p \in c.params PROVE pb[ParamOf(a, p)] = {p}
    OBVIOUS
  <2>1. PICK i \in DOMAIN a.params : p \in Arguments(a.params[i]) /\ ParamOf(a, p) = a.params[i].name
    BY <1>1, NamesOfArguments
  <2>2. pb[ParamOf(a, p)] = C!ActionParamPb(a.name, a.params[i].name, C!Octets("bytes", p.of))
    BY <1>2, <2>1
  <2>3. C!ActionParam(a.name, "name", a.params[i].name) = {a.params[i]}
    BY ActionParamIs
  <2>4. PICK b \in Filling(a.params[i].width) : p = [id |-> a.params[i].id, of |-> b]
    BY <2>1 DEF Arguments
  <2>5. C!Encode(C!Octets("bytes", b), a.params[i].width) = {b} /\ p.of = b
    BY <2>4, EncodedAgain
  <2> DEFINE v == C!Octets("bytes", p.of)
             q == a.params[i]
  <2>6. C!ActionParamPb(a.name, q.name, v) =
          UNION {{[id |-> r.id, of |-> x] : x \in C!Encode(v, r.width)} : r \in C!ActionParam(a.name, "name", q.name)}
    BY DEF C!ActionParamPb
  <2>7. C!Encode(v, q.width) = {b} /\ C!ActionParam(a.name, "name", q.name) = {q}
        /\ p = [id |-> q.id, of |-> b] /\ pb[ParamOf(a, p)] = C!ActionParamPb(a.name, q.name, v)
    BY <2>2, <2>3, <2>4, <2>5
  <2> HIDE DEF v, q, pb
  <2> QED BY <2>6, <2>7
<1>4. DOMAIN pb = {ParamOf(a, p) : p \in c.params}
  BY <1>2
<1> HIDE DEF pb
<1>5. C!All(pb) = {c.params}
  <2>1. \A n \in DOMAIN pb : pb[n] # {}
    BY <1>3, <1>4
  <2>2. {CHOOSE x \in pb[n] : TRUE : n \in DOMAIN pb} = c.params
    BY <1>3, <1>4
  <2> QED BY <2>1, <2>2 DEF C!All
<1>6. C!ActionsNamed(spec.action) = {a}
  BY <1>2, ActionsAre
<1>7. C!BuildAction(spec) = {[id |-> b.id, params |-> ps] : b \in C!ActionsNamed(spec.action), ps \in C!All(pb)}
  BY DEF C!BuildAction, pb
<1> QED BY <1>1, <1>5, <1>6, <1>7 DEF IsAction

\* An action that is built means what its description means.
LEMMA ActionBuilt ==
  ASSUME NEW spec \in Specs, NEW c \in C!BuildAction(spec)
  PROVE  IsAction(c) /\ C!ActionMeaning(C!ActionSpec(c)) = C!ActionMeaning(spec)
<1> DEFINE pb == [n \in DOMAIN spec.params |-> C!ActionParamPb(spec.action, n, spec.params[n])]
           X(n) == CHOOSE x \in pb[n] : TRUE
<1>1. PICK a \in C!ActionsNamed(spec.action), ps \in C!All(pb) : c = [id |-> a.id, params |-> ps]
  BY DEF C!BuildAction
<1>2. DOMAIN pb = DOMAIN spec.params /\ \A n \in DOMAIN spec.params : pb[n] = C!ActionParamPb(spec.action, n, spec.params[n])
  OBVIOUS
<1> HIDE DEF pb
<1>3. ps = {X(n) : n \in DOMAIN spec.params} /\ \A n \in DOMAIN spec.params : X(n) \in pb[n]
  BY <1>2 DEF C!All
<1>4. a \in Actions /\ a.name = spec.action
  BY DEF C!ActionsNamed
<1> HIDE DEF X
<1>5. ASSUME NEW n \in DOMAIN spec.params
      PROVE  \E i \in DOMAIN a.params :
               a.params[i].name = n /\ X(n) \in Arguments(a.params[i]) /\ C!DecodeNum(X(n).of) = C!Number(spec.params[n])
  <2>1. X(n) \in C!ActionParamPb(a.name, n, spec.params[n])
    BY <1>2, <1>3, <1>4
  <2>2. PICK q \in C!ActionParam(a.name, "name", n) : \E b \in C!Encode(spec.params[n], q.width) : X(n) = [id |-> q.id, of |-> b]
    BY <2>1 DEF C!ActionParamPb
  <2>3. PICK b \in C!Encode(spec.params[n], q.width) : X(n) = [id |-> q.id, of |-> b]
    BY <2>2
  <2>4. C!ActionParam(a.name, "name", n) = C!Members(a.params, "name", n)
    BY <1>4, ActionsAre DEF C!ActionParam
  <2>5. PICK i \in DOMAIN a.params : q = a.params[i] /\ q.name = n
    BY <2>4 DEF C!Members
  <2>6. spec.params[n] \in C!PythonValues
    BY ClientAssumption DEF C!SoundRequests
  <2>7. b \in Filling(q.width) /\ C!DecodeNum(b) = C!Number(spec.params[n])
    BY <1>4, <2>5, <2>6, Parameters, Encoded
  <2> QED BY <2>3, <2>5, <2>7 DEF Arguments
<1>6. IsAction(c)
  <2>1. ASSUME NEW p \in c.params PROVE \E i \in DOMAIN a.params : p \in Arguments(a.params[i])
    BY <1>1, <1>3, <1>5
  <2>2. ASSUME NEW p \in c.params, NEW q \in c.params, p.id = q.id PROVE p = q
    <3>1. PICK n \in DOMAIN spec.params : p = X(n)
      BY <1>1, <1>3
    <3>2. PICK o \in DOMAIN spec.params : q = X(o)
      BY <1>1, <1>3
    <3>3. PICK i \in DOMAIN a.params : a.params[i].name = n /\ p \in Arguments(a.params[i])
      BY <1>5, <3>1
    <3>4. PICK j \in DOMAIN a.params : a.params[j].name = o /\ q \in Arguments(a.params[j])
      BY <1>5, <3>2
    <3>5. p.id = a.params[i].id /\ q.id = a.params[j].id
      BY <3>3, <3>4 DEF Arguments
    <3>6. i = j
      BY <1>4, <2>2, <3>5, Parameters
    <3> QED BY <3>1, <3>2, <3>3, <3>4, <3>6
  <2> QED BY <1>1, <1>4, <2>1, <2>2 DEF IsAction
<1>7. \A n \in DOMAIN spec.params : ParamOf(a, X(n)) = n
  <2> SUFFICES ASSUME NEW n \in DOMAIN spec.params PROVE ParamOf(a, X(n)) = n
    OBVIOUS
  <2>1. PICK i \in DOMAIN a.params : a.params[i].name = n /\ X(n) \in Arguments(a.params[i])
    BY <1>5
  <2>2. X(n) \in c.params
    BY <1>1, <1>3
  <2>3. PICK j \in DOMAIN a.params : X(n).id = a.params[j].id /\ ParamOf(a, X(n)) = a.params[j].name
    BY <1>1, <1>4, <1>6, <2>2, NamesOfArguments
  <2>4. X(n).id = a.params[i].id
    BY <2>1 DEF Arguments
  <2>5. i = j
    BY <1>4, <2>3, <2>4, Parameters
  <2> QED BY <2>1, <2>3, <2>5
<1>8. C!ActionMeaning(C!ActionSpec(c)) = C!ActionMeaning(spec)
  <2> DEFINE s == C!ActionSpec(c)
  <2>1. /\ s.action = a.name
        /\ DOMAIN s.params = {ParamOf(a, p) : p \in c.params}
        /\ \A p \in c.params : s.params[ParamOf(a, p)] = C!Octets("bytes", p.of)
    BY <1>1, <1>4, <1>6, ActionRead
  <2> HIDE DEF s
  <2>2. DOMAIN s.params = DOMAIN spec.params
    BY <1>1, <1>3, <1>7, <2>1
  <2>3. \A n \in DOMAIN spec.params : C!Number(s.params[n]) = C!Number(spec.params[n])
    <3> SUFFICES ASSUME NEW n \in DOMAIN spec.params PROVE C!Number(s.params[n]) = C!Number(spec.params[n])
      OBVIOUS
    <3>1. s.params[n] = C!Octets("bytes", X(n).of)
      BY <1>1, <1>3, <1>7, <2>1
    <3>2. C!Number(C!Octets("bytes", X(n).of)) = C!DecodeNum(X(n).of)
      BY DEF C!Number, C!Octets
    <3> QED BY <1>5, <3>1, <3>2
  <2>4. s.action = spec.action
    BY <1>4, <2>1
  <2>5. C!ActionMeaning(s) = C!ActionMeaning(spec)
    BY <2>2, <2>3, <2>4 DEF C!ActionMeaning
  <2> QED BY <2>5 DEF s
<1> QED BY <1>6, <1>8

DirectKinds == {"direct counter", "direct meter"}
Direct(kind, k) == [kind |-> kind, key |-> k]

\* One field that matches exactly or by prefix: its value tells entries apart.
OneField(t) == Len(t.fields) = 1 /\ t.fields[1].type \in {"exact", "lpm"}

\* The switch has what was asked for, under keys and with actions that can be built.
EntriesInv ==
  \A k \in DOMAIN entries :
    /\ IsKey(k) /\ k.default \in BOOLEAN /\ Meaning(k) \in DOMAIN wanted
    /\ entries[k] # C!NoAction => wanted[Meaning(k)] = C!ActionMeaning(C!ActionSpec(entries[k]))
    /\ ~k.default =>
         /\ IsAction(entries[k])
         /\ \A t \in P4Tables : t.id = k.table /\ OneField(t) => k.match # {} /\ k.priority = 0

\* Counters and meters are those of the program and those of entries; all but
\* the counters that clients may write without waiting are as was asked for.
CellsInv ==
  /\ \A x \in DOMAIN cells : x \in Cells \/ \E k \in DOMAIN entries : x \in C!CellsOf(k)
  /\ \A x \in DOMAIN cells : x.kind # "counter" =>
       C!MeaningOf(x) \in DOMAIN wantedCells /\ cells[x] = wantedCells[C!MeaningOf(x)]
  /\ \A y \in DOMAIN wantedCells : y \in Cells \/ \E x \in DOMAIN cells : x.kind \in DirectKinds /\ y = C!MeaningOf(x)
  /\ \A w \in pending : w.cell.kind = "counter"

\* Clients that are connected have election ids of their own; the one that may
\* write and is about to push has a reason.
PushInv ==
  /\ DOMAIN phase = Clients
  /\ \A c, d \in C!Connected : ElectionId[c] = ElectionId[d] => c = d
  /\ \A c \in Clients : phase[c] = "push" /\ ElectionId[c] = 1 => Resets[c] \/ ~pipeline \/ c \in unread

ClientInv == EntriesInv /\ CellsInv /\ PushInv

(***************************************************************************)
(* Counters and meters by what they mean.                                  *)
(***************************************************************************)
LEMMA CellsMean ==
  /\ \A x \in Cells : C!MeaningOf(x) = x /\ x.kind \in {"counter", "meter"}
  /\ \A kind \in DirectKinds : \A k :
       C!MeaningOf(Direct(kind, k)) = Direct(kind, Meaning(k)) /\ Direct(kind, k).kind = kind
<1>1. \A x \in Cells : x.kind \in {"counter", "meter"}
  BY ClientAssumption DEF C!SoundRequests
<1>2. \A x \in Cells : C!MeaningOf(x) = x
  BY <1>1 DEF C!MeaningOf
<1>3. ASSUME NEW kind \in DirectKinds, NEW k
      PROVE  C!MeaningOf(Direct(kind, k)) = Direct(kind, Meaning(k)) /\ Direct(kind, k).kind = kind
  BY DEF C!MeaningOf, Direct, DirectKinds, Meaning
<1> QED BY <1>1, <1>2, <1>3

LEMMA CellsOfKey ==
  ASSUME NEW k, NEW x \in C!CellsOf(k)
  PROVE  \E kind \in DirectKinds : x = Direct(kind, k)
<1>1. \A t \in P4Tables : t.direct \subseteq DirectKinds
  BY ClientAssumption DEF C!SoundProgram, DirectKinds
<1> QED BY <1>1 DEF C!CellsOf, Direct

\* What may be a counter or a meter of the switch.
IsCell(x) == x \in Cells \/ \E kind \in DirectKinds : \E k : IsKey(k) /\ x = Direct(kind, k)

LEMMA CellsAre ==
  /\ EntriesInv /\ CellsInv => \A x \in DOMAIN cells : IsCell(x)
  /\ \A k : IsKey(k) => \A x \in C!CellsOf(k) : IsCell(x)
  /\ \A k : \A x \in C!CellsOf(k) : x.kind \in DirectKinds /\ x.key = k
<1>1. ASSUME NEW k, IsKey(k), NEW x \in C!CellsOf(k) PROVE IsCell(x)
  BY <1>1, CellsOfKey DEF IsCell
<1>2. ASSUME EntriesInv, CellsInv, NEW x \in DOMAIN cells PROVE IsCell(x)
  <2>1. CASE x \in Cells
    BY <2>1 DEF IsCell
  <2>2. CASE \E k \in DOMAIN entries : x \in C!CellsOf(k)
    BY <1>1, <1>2, <2>2 DEF EntriesInv
  <2> QED BY <1>2, <2>1, <2>2 DEF CellsInv
<1>3. ASSUME NEW k, NEW x \in C!CellsOf(k) PROVE x.kind \in DirectKinds /\ x.key = k
  BY CellsOfKey DEF Direct
<1> QED BY <1>1, <1>2, <1>3

LEMMA CellsTell ==
  ASSUME NEW x, IsCell(x), NEW y, IsCell(y), C!MeaningOf(x) = C!MeaningOf(y)
  PROVE  x = y
<1>1. ASSUME NEW a \in Cells, NEW b, NEW kind \in DirectKinds, NEW k, b = Direct(kind, k)
      PROVE  C!MeaningOf(a) # C!MeaningOf(b)
  <2>1. C!MeaningOf(b).kind = kind
    BY <1>1, CellsMean DEF Direct
  <2>2. C!MeaningOf(a).kind \in {"counter", "meter"}
    BY CellsMean
  <2> QED BY <2>1, <2>2 DEF DirectKinds
<1>3. CASE x \in Cells /\ y \in Cells
  BY <1>3, CellsMean
<1>4. CASE x \in Cells /\ y \notin Cells
  BY <1>1, <1>4 DEF IsCell
<1>5. CASE y \in Cells /\ x \notin Cells
  BY <1>1, <1>5 DEF IsCell
<1>6. CASE x \notin Cells /\ y \notin Cells
  <2>1. PICK kind \in DirectKinds : \E k : IsKey(k) /\ x = Direct(kind, k)
    BY <1>6 DEF IsCell
  <2>2. PICK k : IsKey(k) /\ x = Direct(kind, k)
    BY <2>1
  <2>3. PICK kind2 \in DirectKinds : \E l : IsKey(l) /\ y = Direct(kind2, l)
    BY <1>6 DEF IsCell
  <2>4. PICK l : IsKey(l) /\ y = Direct(kind2, l)
    BY <2>3
  <2>5. Direct(kind, Meaning(k)) = Direct(kind2, Meaning(l))
    BY <2>2, <2>4, CellsMean
  <2>6. kind = kind2 /\ Meaning(k) = Meaning(l)
    BY <2>5 DEF Direct
  <2>7. k = l
    BY <2>2, <2>4, <2>6, KeysTell
  <2> QED BY <2>2, <2>4, <2>6, <2>7
<1> QED BY <1>3, <1>4, <1>5, <1>6

(***************************************************************************)
(* The properties.                                                         *)
(***************************************************************************)
LEMMA AsAskedHolds == ASSUME EntriesInv PROVE C!AsAsked
BY DEF EntriesInv, C!AsAsked, Meaning

LEMMA BuildsAgainHolds == ASSUME EntriesInv PROVE C!BuildsAgain
<1> SUFFICES ASSUME NEW e \in C!TableEntriesRead({t.id : t \in P4Tables})
             PROVE  C!BuildTableEntry(C!EntrySpec(e)) = {e}
  BY DEF C!BuildsAgain
<1>1. PICK k \in DOMAIN entries : ~k.default /\ e = [key |-> k, action |-> entries[k]]
  BY DEF C!TableEntriesRead
<1>2. IsKey(k) /\ IsAction(entries[k])
  BY <1>1 DEF EntriesInv
<1> DEFINE spec == C!EntrySpec(e)
<1>3. /\ spec.table = C!KeySpec(k).table /\ spec.fields = C!KeySpec(k).fields
      /\ spec.default = C!KeySpec(k).default /\ spec.priority = C!KeySpec(k).priority
      /\ spec.action = C!ActionSpec(entries[k]).action /\ spec.params = C!ActionSpec(entries[k]).params
  BY <1>1 DEF C!EntrySpec
<1> HIDE DEF spec
<1>4. C!BuildKey(spec) = {k}
  BY <1>2, <1>3, KeyAgain
<1>5. C!BuildAction(spec) = {entries[k]}
  BY <1>2, <1>3, ActionAgain
<1>6. C!BuildTableEntry(spec) = {e}
  BY <1>1, <1>4, <1>5 DEF C!BuildTableEntry
<1> QED BY <1>6 DEF spec

LEMMA LastWriteStaysHolds == ASSUME EntriesInv, CellsInv PROVE C!LastWriteStays
<1>1. ASSUME NEW t \in P4Tables, NEW kind \in DirectKinds, NEW o \in C!DirectRead(kind, t.id)
      PROVE  o.value = wantedCells[C!MeaningOf([kind |-> kind, key |-> o.of])]
  <2>1. PICK k \in DOMAIN entries : /\ Direct(kind, k) \in DOMAIN cells
                                    /\ o = [of |-> k, value |-> cells[Direct(kind, k)]]
    BY DEF C!DirectRead, Direct
  <2>2. Direct(kind, k).kind # "counter"
    BY CellsMean DEF DirectKinds
  <2>3. cells[Direct(kind, k)] = wantedCells[C!MeaningOf(Direct(kind, k))]
    BY <2>1, <2>2 DEF CellsInv
  <2> QED BY <2>1, <2>3 DEF Direct
<1>2. ASSUME NEW x \in Cells, NEW o \in C!MetersRead(x.id, {x.index})
      PROVE  o.value = wantedCells[o.cell]
  <2>1. PICK y \in DOMAIN cells \cap Cells : y.kind = "meter" /\ o = [cell |-> y, value |-> cells[y]]
    BY DEF C!MetersRead, C!CellsRead
  <2>2. cells[y] = wantedCells[C!MeaningOf(y)] /\ C!MeaningOf(y) = y
    BY <2>1, CellsMean DEF CellsInv
  <2> QED BY <2>1, <2>2
<1> QED BY <1>1, <1>2 DEF C!LastWriteStays, DirectKinds

LEMMA OneIndex == ASSUME NEW t \in P4Tables, Len(t.fields) = 1 PROVE DOMAIN t.fields = {1}
<1>1. t.fields \in Seq([name : STRING, id : Int, width : Nat \ {0}, type : FieldTypes])
  BY ClientAssumption DEF C!SoundProgram, FieldTypes
<1>2. DOMAIN t.fields = 1..1
  BY <1>1, LenProperties
<1>3. ASSUME NEW i \in 1..1 PROVE i = 1
  OBVIOUS
<1>4. 1 \in 1..1
  OBVIOUS
<1> QED BY <1>2, <1>3, <1>4

LEMMA ToldApartHolds == ASSUME EntriesInv PROVE C!ToldApart
<1> SUFFICES ASSUME NEW t \in P4Tables, NEW objects \in C!DirectCounterObjects(t.name),
                    NEW o \in objects, NEW q \in objects, o.match = q.match
             PROVE  o = q
  BY DEF C!ToldApart
<1>1. /\ OneField(t) /\ objects = {[match |-> (CHOOSE m \in r.of.match : TRUE).of, value |-> r.value] :
                                      r \in C!DirectRead("direct counter", t.id)}
  <2>1. PICK u \in C!TablesNamed(t.name) :
          /\ \E f \in C!TheMatchField(t.name) : f.type \in {"exact", "lpm"}
          /\ objects = {[match |-> (CHOOSE m \in r.of.match : TRUE).of, value |-> r.value] :
                          r \in C!DirectRead("direct counter", u.id)}
    BY DEF C!DirectCounterObjects
  <2>2. u = t
    BY TablesAre
  <2>3. PICK f \in C!TheMatchField(t.name) : f.type \in {"exact", "lpm"}
    BY <2>1
  <2>4. f = t.fields[1] /\ Len(t.fields) = 1
    BY TablesAre DEF C!TheMatchField, C!FirstMatchField
  <2> QED BY <2>1, <2>2, <2>3, <2>4 DEF OneField
<1>2. ASSUME NEW r \in C!DirectRead("direct counter", t.id)
      PROVE  /\ r.of \in DOMAIN entries /\ IsKey(r.of) /\ r.of.table = t.id /\ r.of.default = FALSE /\ r.of.priority = 0
             /\ \E m \in Matches(t.fields[1]) : r.of.match = {m}
             /\ r = [of |-> r.of, value |-> cells[Direct("direct counter", r.of)]]
  <2>1. PICK k \in DOMAIN entries : /\ k.table = t.id /\ ~k.default
                                    /\ r = [of |-> k, value |-> cells[Direct("direct counter", k)]]
    BY DEF C!DirectRead, Direct
  <2>2. IsKey(k) /\ k.match # {} /\ k.priority = 0
    BY <1>1, <2>1 DEF EntriesInv
  <2>3. \A m \in k.match : \E i \in DOMAIN t.fields : m \in Matches(t.fields[i]) /\ m.id = t.fields[i].id
    BY <2>1, <2>2, NamesOfMatches
  <2>4. DOMAIN t.fields = {1}
    BY <1>1, OneIndex DEF OneField
  <2>5. \A m \in k.match : m \in Matches(t.fields[1]) /\ m.id = t.fields[1].id
    BY <2>3, <2>4
  <2>7. \A m, p \in k.match : m.id = p.id => m = p
    BY <2>2 DEF IsKey
  <2>6. \E m \in Matches(t.fields[1]) : k.match = {m}
    <3>1. PICK m : m \in k.match
      BY <2>2
    <3>2. \A p \in k.match : p = m
      BY <2>5, <2>7, <3>1
    <3>3. k.match = {m}
      BY <3>1, <3>2
    <3> QED BY <2>5, <3>1, <3>3
  <2>8. k.default = FALSE /\ r.of = k
    BY <2>1 DEF EntriesInv
  <2>9. r = [of |-> r.of, value |-> cells[Direct("direct counter", r.of)]]
    BY <2>1, <2>8
  <2> QED BY <2>1, <2>2, <2>6, <2>8, <2>9
<1>3. PICK r \in C!DirectRead("direct counter", t.id) :
         o = [match |-> (CHOOSE m \in r.of.match : TRUE).of, value |-> r.value]
  BY <1>1
<1>4. PICK s \in C!DirectRead("direct counter", t.id) :
         q = [match |-> (CHOOSE m \in s.of.match : TRUE).of, value |-> s.value]
  BY <1>1
<1>5. PICK m \in Matches(t.fields[1]) : r.of.match = {m}
  BY <1>2
<1>6. PICK p \in Matches(t.fields[1]) : s.of.match = {p}
  BY <1>2
<1>7. m.of = p.of
  BY <1>3, <1>4, <1>5, <1>6
<1>8. m = p
  <2>1. \A n \in Matches(t.fields[1]) : n = [id |-> t.fields[1].id, type |-> t.fields[1].type, of |-> n.of]
    <3> SUFFICES ASSUME NEW n \in Matches(t.fields[1])
                 PROVE  n = [id |-> t.fields[1].id, type |-> t.fields[1].type, of |-> n.of]
      OBVIOUS
    <3>1. PICK z \in Contents(t.fields[1]) : n = [id |-> t.fields[1].id, type |-> t.fields[1].type, of |-> z]
      BY DEF Matches
    <3> QED BY <3>1
  <2> QED BY <1>7, <2>1
<1>9. r.of = s.of
  <2>1. \A z \in C!DirectRead("direct counter", t.id) :
          z.of = [table |-> t.id, match |-> z.of.match, default |-> FALSE, priority |-> 0]
    BY <1>2 DEF IsKey
  <2> QED BY <1>5, <1>6, <1>8, <2>1
<1>10. r.value = s.value
  BY <1>2, <1>9
<1> QED BY <1>3, <1>4, <1>5, <1>6, <1>8, <1>10

LEMMA SetIs ==
  ASSUME NEW f, NEW x, NEW v
  PROVE  /\ DOMAIN C!Set(f, x, v) = DOMAIN f \cup {x} /\ C!Set(f, x, v)[x] = v
         /\ \A y \in DOMAIN f : y # x => C!Set(f, x, v)[y] = f[y]
BY DEF C!Set

LEMMA WithoutIs ==
  ASSUME NEW f, NEW x
  PROVE  /\ DOMAIN C!Without(f, x) = DOMAIN f \ {x}
         /\ \A y \in DOMAIN f : y # x => C!Without(f, x)[y] = f[y]
BY DEF C!Without

(***************************************************************************)
(* The invariant is kept.                                                  *)
(***************************************************************************)
LEMMA EntriesStay == EntriesInv /\ UNCHANGED <<entries, wanted>> => EntriesInv'
BY DEF EntriesInv

LEMMA CellsStay ==
  CellsInv /\ UNCHANGED <<entries, cells, wantedCells>> /\ pending' \subseteq pending => CellsInv'
BY DEF CellsInv

LEMMA PushStays == PushInv /\ UNCHANGED <<phase, unread, pipeline>> => PushInv'
BY DEF PushInv, C!Connected

LEMMA ClientBegins == C!Init => ClientInv
<1> SUFFICES ASSUME C!Init PROVE ClientInv
  OBVIOUS
<1>1. DOMAIN entries = {} /\ DOMAIN cells = {} /\ DOMAIN wantedCells = {} /\ pending = {}
  BY DEF C!Init, C!Empty
<1>2. DOMAIN phase = Clients /\ C!Connected = {} /\ \A c \in Clients : phase[c] # "push"
  BY DEF C!Init, C!Connected
<1> QED BY <1>1, <1>2 DEF ClientInv, EntriesInv, CellsInv, PushInv

LEMMA StartKeeps == ASSUME ClientInv, NEW c \in Clients, C!Start(c) PROVE ClientInv'
<1>1. UNCHANGED <<pipeline, entries, cells, wanted, wantedCells, pending, unread>>
  BY DEF C!Start, C!switch
<1>2. EntriesInv' /\ CellsInv'
  BY <1>1, EntriesStay, CellsStay DEF ClientInv
<1>3. DOMAIN phase' = Clients /\ phase'[c] \in {"started", "up"} /\ \A d \in Clients \ {c} : phase'[d] = phase[d]
  BY DEF C!Start, ClientInv, PushInv
<1>4. \A d, e \in C!Connected' : ElectionId[d] = ElectionId[e] => d = e
  <2>1. \A d \in C!Connected : ElectionId[d] # ElectionId[c]
    BY DEF C!Start, C!MayStart
  <2>2. C!Connected' \subseteq C!Connected \cup {c}
    BY <1>3 DEF C!Connected
  <2>3. \A d, e \in C!Connected : ElectionId[d] = ElectionId[e] => d = e
    BY DEF ClientInv, PushInv
  <2> QED BY <2>1, <2>2, <2>3
<1>5. \A d \in Clients : phase'[d] = "push" => phase[d] = "push"
  BY <1>3
<1>6. PushInv'
  BY <1>1, <1>3, <1>4, <1>5 DEF ClientInv, PushInv
<1> QED BY <1>2, <1>6 DEF ClientInv

LEMMA ReadKeeps == ASSUME ClientInv, NEW c \in Clients, NEW fails \in BOOLEAN, C!ReadPipeline(c, fails) PROVE ClientInv'
<1>1. UNCHANGED <<pipeline, entries, cells, wanted, wantedCells, pending>>
  BY DEF C!ReadPipeline, C!switch
<1>2. EntriesInv' /\ CellsInv'
  BY <1>1, EntriesStay, CellsStay DEF ClientInv
<1>3. /\ DOMAIN phase' = Clients /\ phase[c] = "started" /\ \A d \in Clients \ {c} : phase'[d] = phase[d]
      /\ phase'[c] = IF C!MustPush(c, fails) THEN "push" ELSE "up"
  BY DEF C!ReadPipeline, ClientInv, PushInv
<1>4. C!Connected' = C!Connected
  BY <1>3 DEF C!Connected
<1>5. unread \subseteq unread' /\ (fails => c \in unread')
  BY DEF C!ReadPipeline
<1>6. phase'[c] = "push" => Resets[c] \/ ~pipeline \/ c \in unread'
  BY <1>3, <1>5 DEF C!MustPush
<1>7. PushInv'
  BY <1>1, <1>3, <1>4, <1>5, <1>6 DEF ClientInv, PushInv
<1> QED BY <1>2, <1>7 DEF ClientInv

LEMMA LeaveKeeps == ASSUME ClientInv, NEW c \in Clients, C!Leave(c) PROVE ClientInv'
<1>1. UNCHANGED <<pipeline, entries, cells, wanted, wantedCells>> /\ pending' \subseteq pending
  BY DEF C!Leave
<1>2. EntriesInv' /\ CellsInv'
  BY <1>1, EntriesStay, CellsStay DEF ClientInv
<1>3. DOMAIN phase' = Clients /\ phase'[c] = "off" /\ \A d \in Clients \ {c} : phase'[d] = phase[d]
  BY DEF C!Leave, ClientInv, PushInv
<1>4. C!Connected' \subseteq C!Connected
  BY <1>3 DEF C!Connected
<1>5. unread' = unread \ {c}
  BY DEF C!Leave
<1>6. PushInv'
  BY <1>1, <1>3, <1>4, <1>5 DEF ClientInv, PushInv
<1> QED BY <1>2, <1>6 DEF ClientInv

LEMMA DefaultsAre ==
  ASSUME NEW k \in C!DefaultEntries
  PROVE  IsKey(k) /\ k.default = TRUE
BY DEF C!DefaultEntries, IsKey

LEMMA PushKeeps == ASSUME ClientInv, NEW c \in Clients, C!Push(c) PROVE ClientInv'
<1>1. DOMAIN phase' = Clients /\ phase[c] = "push" /\ \A d \in Clients \ {c} : phase'[d] = phase[d]
  BY DEF C!Push, ClientInv, PushInv
<1>2. phase'[c] # "push" /\ unread' = unread \ {c}
  BY DEF C!Push, ClientInv, PushInv
<1>3. C!Connected' \subseteq C!Connected
  BY <1>1 DEF C!Connected
<1>4. CASE C!MayWrite(c)
  <2>1. /\ pipeline' = TRUE /\ entries' = C!FreshEntries /\ wanted' = C!FreshAsked
        /\ cells' = C!Fresh /\ wantedCells' = C!Fresh /\ pending' = pending /\ ElectionId[c] = 1
    BY <1>4 DEF C!Push, C!MayWrite
  <2>2. EntriesInv'
    <3>1. DOMAIN entries' = C!DefaultEntries /\ \A k \in C!DefaultEntries : entries'[k] = C!NoAction
      BY <2>1 DEF C!FreshEntries
    <3>2. DOMAIN wanted' = {Meaning(k) : k \in C!DefaultEntries}
      BY <2>1 DEF C!FreshAsked, Meaning
    <3> QED BY <3>1, <3>2, DefaultsAre DEF EntriesInv
  <2>3. CellsInv'
    <3>1. /\ DOMAIN cells' = Cells /\ DOMAIN wantedCells' = Cells
          /\ \A x \in Cells : cells'[x] = 0 /\ wantedCells'[x] = 0
      BY <2>1 DEF C!Fresh
    <3> QED BY <2>1, <3>1, CellsMean DEF ClientInv, CellsInv
  <2>4. \A d \in Clients : phase'[d] = "push" => ElectionId[d] # 1
    BY <1>1, <1>2, <2>1 DEF ClientInv, PushInv, C!Connected
  <2>5. PushInv'
    BY <1>1, <1>3, <2>4 DEF ClientInv, PushInv
  <2> QED BY <2>2, <2>3, <2>5 DEF ClientInv
<1>5. CASE ~C!MayWrite(c)
  <2>1. UNCHANGED <<pipeline, entries, cells, wanted, wantedCells, pending>>
    BY <1>5 DEF C!Push, C!switch
  <2>2. EntriesInv' /\ CellsInv'
    BY <2>1, EntriesStay, CellsStay DEF ClientInv
  <2>3. PushInv'
    BY <1>1, <1>2, <1>3, <2>1 DEF ClientInv, PushInv
  <2> QED BY <2>2, <2>3 DEF ClientInv
<1> QED BY <1>4, <1>5

\* An entry that is written or removed, by the key and action that are built.
LEMMA CarriedIs ==
  ASSUME NEW c, NEW spec \in Specs, NEW type, C!Carried(c, spec, type)
  PROVE  \E k \in C!BuildKey(spec), a \in C!BuildAction(spec) :
           LET gone == C!CellsOf(k) IN
           /\ type = "INSERT" => ~k.default /\ k \notin DOMAIN entries
           /\ type # "INSERT" => k \in DOMAIN entries /\ (k.default => type = "MODIFY")
           /\ type = "DELETE" =>
                /\ entries' = C!Without(entries, k) /\ wanted' = C!Without(wanted, C!KeyMeaning(spec))
                /\ cells' = [x \in DOMAIN cells \ gone |-> cells[x]]
                /\ wantedCells' = [x \in DOMAIN wantedCells \ {C!MeaningOf(g) : g \in gone} |-> wantedCells[x]]
           /\ type # "DELETE" =>
                entries' = C!Set(entries, k, a) /\ wanted' = C!Set(wanted, C!KeyMeaning(spec), C!ActionMeaning(spec))
           /\ type = "INSERT" =>
                /\ cells' = [x \in DOMAIN cells \cup gone |-> IF x \in gone THEN 0 ELSE cells[x]]
                /\ wantedCells' = [x \in DOMAIN wantedCells \cup {C!MeaningOf(g) : g \in gone} |->
                                    IF x \in DOMAIN wantedCells THEN wantedCells[x] ELSE 0]
           /\ type \notin {"INSERT", "DELETE"} => cells' = cells /\ wantedCells' = wantedCells
<1> DEFINE Step(e) ==
       LET k == C!KeyMeaning(spec) gone == C!CellsOf(e.key) IN
       /\ C!Accepts(type, e)
       /\ IF type = "DELETE"
          THEN /\ entries' = C!Without(entries, e.key) /\ wanted' = C!Without(wanted, k)
               /\ cells' = [x \in DOMAIN cells \ gone |-> cells[x]]
               /\ wantedCells' = [x \in DOMAIN wantedCells \ {C!MeaningOf(g) : g \in gone} |-> wantedCells[x]]
          ELSE /\ entries' = C!Set(entries, e.key, e.action) /\ wanted' = C!Set(wanted, k, C!ActionMeaning(spec))
               /\ IF type = "INSERT"
                  THEN /\ cells' = [x \in DOMAIN cells \cup gone |-> IF x \in gone THEN 0 ELSE cells[x]]
                       /\ wantedCells' = [x \in DOMAIN wantedCells \cup {C!MeaningOf(g) : g \in gone} |->
                                           IF x \in DOMAIN wantedCells THEN wantedCells[x] ELSE 0]
                  ELSE UNCHANGED <<cells, wantedCells>>
<1>1. \E e \in C!BuildTableEntry(spec) : Step(e)
  BY DEF C!Carried
<1> HIDE DEF Step
<1>2. PICK e \in C!BuildTableEntry(spec) : Step(e)
  BY <1>1
<1>3. PICK k \in C!BuildKey(spec), a \in C!BuildAction(spec) : e = [key |-> k, action |-> a]
  BY <1>2 DEF C!BuildTableEntry
<1>4. e.key = k /\ e.action = a
  BY <1>3
<1>5. C!Accepts(type, e)
  BY <1>2 DEF Step
<1>6. /\ type = "INSERT" => ~k.default /\ k \notin DOMAIN entries
      /\ type # "INSERT" => k \in DOMAIN entries /\ (k.default => type = "MODIFY")
  BY <1>4, <1>5 DEF C!Accepts
<1>7. type = "DELETE" =>
        /\ entries' = C!Without(entries, k) /\ wanted' = C!Without(wanted, C!KeyMeaning(spec))
        /\ cells' = [x \in DOMAIN cells \ C!CellsOf(k) |-> cells[x]]
        /\ wantedCells' = [x \in DOMAIN wantedCells \ {C!MeaningOf(g) : g \in C!CellsOf(k)} |-> wantedCells[x]]
  BY <1>2, <1>4 DEF Step
<1>8. type # "DELETE" =>
        entries' = C!Set(entries, k, a) /\ wanted' = C!Set(wanted, C!KeyMeaning(spec), C!ActionMeaning(spec))
  BY <1>2, <1>4 DEF Step
<1>9. type = "INSERT" =>
        /\ cells' = [x \in DOMAIN cells \cup C!CellsOf(k) |-> IF x \in C!CellsOf(k) THEN 0 ELSE cells[x]]
        /\ wantedCells' = [x \in DOMAIN wantedCells \cup {C!MeaningOf(g) : g \in C!CellsOf(k)} |->
                            IF x \in DOMAIN wantedCells THEN wantedCells[x] ELSE 0]
  BY <1>2, <1>4 DEF Step
<1>10. type \notin {"INSERT", "DELETE"} => cells' = cells /\ wantedCells' = wantedCells
  BY <1>2, <1>4 DEF Step
<1> QED BY <1>3, <1>6, <1>7, <1>8, <1>9, <1>10

\* An entry is removed, with its counter or meter.
LEMMA RemovalKeeps ==
  ASSUME EntriesInv, CellsInv, NEW k \in DOMAIN entries,
         entries' = C!Without(entries, k), wanted' = C!Without(wanted, Meaning(k)), pending' = pending,
         cells' = [x \in DOMAIN cells \ C!CellsOf(k) |-> cells[x]],
         wantedCells' = [x \in DOMAIN wantedCells \ {C!MeaningOf(g) : g \in C!CellsOf(k)} |-> wantedCells[x]]
  PROVE  EntriesInv' /\ CellsInv'
<1>1. DOMAIN entries' = DOMAIN entries \ {k} /\ \A l \in DOMAIN entries' : entries'[l] = entries[l]
  BY WithoutIs
<1>2. /\ \A l \in DOMAIN entries : l # k => Meaning(l) # Meaning(k)
      /\ DOMAIN wanted' = DOMAIN wanted \ {Meaning(k)}
      /\ \A y \in DOMAIN wanted' : wanted'[y] = wanted[y]
  <2>1. \A l \in DOMAIN entries : l # k => Meaning(l) # Meaning(k)
    BY KeysTell DEF EntriesInv
  <2>2. /\ DOMAIN wanted' = DOMAIN wanted \ {Meaning(k)}
        /\ \A y \in DOMAIN wanted' : wanted'[y] = wanted[y]
    BY WithoutIs
  <2> QED BY <2>1, <2>2
<1>3. EntriesInv'
  BY <1>1, <1>2 DEF EntriesInv
<1> DEFINE gone == C!CellsOf(k)
           lost == {C!MeaningOf(g) : g \in gone}
<1>4. /\ DOMAIN cells' = DOMAIN cells \ gone /\ DOMAIN wantedCells' = DOMAIN wantedCells \ lost
      /\ \A x \in DOMAIN cells' : cells'[x] = cells[x]
      /\ \A y \in DOMAIN wantedCells' : wantedCells'[y] = wantedCells[y]
  OBVIOUS
<1>5. IsKey(k)
  BY DEF EntriesInv
<1>6. \A x \in DOMAIN cells \ gone : C!MeaningOf(x) \notin lost
  <2> SUFFICES ASSUME NEW x \in DOMAIN cells, x \notin gone, NEW g \in gone, C!MeaningOf(x) = C!MeaningOf(g) PROVE FALSE
    OBVIOUS
  <2>1. IsCell(x) /\ IsCell(g)
    BY <1>5, CellsAre
  <2> QED BY <2>1, CellsTell
<1> HIDE DEF gone, lost
<1>7. \A x \in DOMAIN cells' : x \in Cells \/ \E l \in DOMAIN entries' : x \in C!CellsOf(l)
  BY <1>1, <1>4 DEF CellsInv, gone
<1>8. \A x \in DOMAIN cells' : x.kind # "counter" =>
        C!MeaningOf(x) \in DOMAIN wantedCells' /\ cells'[x] = wantedCells'[C!MeaningOf(x)]
  BY <1>4, <1>6 DEF CellsInv
<1>9. \A y \in DOMAIN wantedCells' : y \in Cells \/ \E x \in DOMAIN cells' : x.kind \in DirectKinds /\ y = C!MeaningOf(x)
  BY <1>4 DEF CellsInv, lost
<1>10. CellsInv'
  BY <1>7, <1>8, <1>9 DEF CellsInv
<1> QED BY <1>3, <1>10

\* An entry is written.
LEMMA EntryKeeps ==
  ASSUME EntriesInv, NEW k, IsKey(k), k.default \in BOOLEAN, NEW a, IsAction(a),
         ~k.default => \A t \in P4Tables : t.id = k.table /\ OneField(t) => k.match # {} /\ k.priority = 0,
         entries' = C!Set(entries, k, a),
         wanted' = C!Set(wanted, Meaning(k), C!ActionMeaning(C!ActionSpec(a)))
  PROVE  EntriesInv'
<1>1. /\ DOMAIN entries' = DOMAIN entries \cup {k} /\ entries'[k] = a
      /\ \A l \in DOMAIN entries : l # k => entries'[l] = entries[l]
  BY DEF C!Set
<1>2. \A l \in DOMAIN entries : l # k => Meaning(l) # Meaning(k)
  BY KeysTell DEF EntriesInv
<1>3. /\ DOMAIN wanted' = DOMAIN wanted \cup {Meaning(k)} /\ wanted'[Meaning(k)] = C!ActionMeaning(C!ActionSpec(a))
      /\ \A y \in DOMAIN wanted : y # Meaning(k) => wanted'[y] = wanted[y]
  <2> DEFINE y == Meaning(k)
             m == C!ActionMeaning(C!ActionSpec(a))
  <2> HIDE DEF y, m
  <2>1. wanted' = C!Set(wanted, y, m)
    BY DEF y, m
  <2>2. /\ DOMAIN wanted' = DOMAIN wanted \cup {y} /\ wanted'[y] = m
        /\ \A z \in DOMAIN wanted : z # y => wanted'[z] = wanted[z]
    BY <2>1 DEF C!Set
  <2> QED BY <2>2 DEF y, m
<1> SUFFICES ASSUME NEW l \in DOMAIN entries'
             PROVE  /\ IsKey(l) /\ l.default \in BOOLEAN /\ Meaning(l) \in DOMAIN wanted'
                    /\ entries'[l] # C!NoAction => wanted'[Meaning(l)] = C!ActionMeaning(C!ActionSpec(entries'[l]))
                    /\ ~l.default =>
                         /\ IsAction(entries'[l])
                         /\ \A t \in P4Tables : t.id = l.table /\ OneField(t) => l.match # {} /\ l.priority = 0
  BY DEF EntriesInv
<1>4. CASE l = k
  BY <1>1, <1>3, <1>4
<1>5. CASE l # k
  BY <1>1, <1>2, <1>3, <1>5 DEF EntriesInv
<1> QED BY <1>4, <1>5

\* A new entry begins with a counter or a meter at zero.
LEMMA InsertKeeps ==
  ASSUME EntriesInv, CellsInv, NEW k, IsKey(k), k \notin DOMAIN entries,
         DOMAIN entries' = DOMAIN entries \cup {k}, pending' = pending,
         cells' = [x \in DOMAIN cells \cup C!CellsOf(k) |-> IF x \in C!CellsOf(k) THEN 0 ELSE cells[x]],
         wantedCells' = [x \in DOMAIN wantedCells \cup {C!MeaningOf(g) : g \in C!CellsOf(k)} |->
                          IF x \in DOMAIN wantedCells THEN wantedCells[x] ELSE 0]
  PROVE  CellsInv'
<1> DEFINE new == C!CellsOf(k)
           fresh == {C!MeaningOf(g) : g \in new}
<1>1. /\ DOMAIN cells' = DOMAIN cells \cup new /\ DOMAIN wantedCells' = DOMAIN wantedCells \cup fresh
      /\ \A x \in DOMAIN cells' : cells'[x] = IF x \in new THEN 0 ELSE cells[x]
      /\ \A y \in DOMAIN wantedCells' : wantedCells'[y] = IF y \in DOMAIN wantedCells THEN wantedCells[y] ELSE 0
  OBVIOUS
<1>2. \A x \in DOMAIN cells : x \notin new
  <2> SUFFICES ASSUME NEW x \in DOMAIN cells, x \in new PROVE FALSE
    OBVIOUS
  <2>1. x.key = k /\ x.kind \in DirectKinds
    BY CellsAre
  <2>2. x \notin Cells
    BY <2>1, CellsMean DEF DirectKinds
  <2>3. PICK l \in DOMAIN entries : x \in C!CellsOf(l)
    BY <2>2 DEF CellsInv
  <2>4. x.key = l
    BY <2>3, CellsAre
  <2> QED BY <2>1, <2>3, <2>4
<1>3. \A g \in new : C!MeaningOf(g) \notin DOMAIN wantedCells
  <2> SUFFICES ASSUME NEW g \in new, C!MeaningOf(g) \in DOMAIN wantedCells PROVE FALSE
    OBVIOUS
  <2>1. IsCell(g) /\ g.kind \in DirectKinds
    BY CellsAre
  <2>2. PICK kind \in DirectKinds : g = Direct(kind, k)
    BY CellsOfKey
  <2>3. C!MeaningOf(g).kind = kind
    BY <2>2, CellsMean DEF Direct
  <2>4. C!MeaningOf(g) \notin Cells
    BY <2>3, CellsMean DEF DirectKinds
  <2>5. PICK x \in DOMAIN cells : C!MeaningOf(g) = C!MeaningOf(x)
    BY <2>4 DEF CellsInv
  <2>6. IsCell(x)
    BY CellsAre
  <2> QED BY <1>2, <2>1, <2>5, <2>6, CellsTell
<1> HIDE DEF new
<1>4. \A x \in DOMAIN cells' : x \in Cells \/ \E l \in DOMAIN entries' : x \in C!CellsOf(l)
  BY <1>1 DEF CellsInv, new
<1>5. ASSUME NEW x \in DOMAIN cells', x.kind # "counter"
      PROVE  C!MeaningOf(x) \in DOMAIN wantedCells' /\ cells'[x] = wantedCells'[C!MeaningOf(x)]
  <2>1. CASE x \in new
    BY <1>1, <1>3, <2>1
  <2>2. CASE x \notin new
    BY <1>1, <1>5, <2>2 DEF CellsInv
  <2> QED BY <2>1, <2>2
<1>6. \A g \in new : g \in DOMAIN cells' /\ g.kind \in DirectKinds
  BY <1>1, CellsAre DEF new
<1>7. \A y \in DOMAIN wantedCells' : y \in Cells \/ \E x \in DOMAIN cells' : x.kind \in DirectKinds /\ y = C!MeaningOf(x)
  BY <1>1, <1>6 DEF CellsInv
<1> QED BY <1>4, <1>5, <1>7 DEF CellsInv

LEMMA CarriedKeeps == ASSUME ClientInv, NEW c, NEW spec \in Specs, NEW type, C!Carried(c, spec, type) PROVE ClientInv'
<1>1. UNCHANGED <<phase, unread, pipeline, pending>>
  BY DEF C!Carried
<1>2. PushInv'
  BY <1>1, PushStays DEF ClientInv
<1>3. PICK k \in C!BuildKey(spec), a \in C!BuildAction(spec) :
           LET gone == C!CellsOf(k) IN
           /\ type = "INSERT" => ~k.default /\ k \notin DOMAIN entries
           /\ type # "INSERT" => k \in DOMAIN entries /\ (k.default => type = "MODIFY")
           /\ type = "DELETE" =>
                /\ entries' = C!Without(entries, k) /\ wanted' = C!Without(wanted, C!KeyMeaning(spec))
                /\ cells' = [x \in DOMAIN cells \ gone |-> cells[x]]
                /\ wantedCells' = [x \in DOMAIN wantedCells \ {C!MeaningOf(g) : g \in gone} |-> wantedCells[x]]
           /\ type # "DELETE" =>
                entries' = C!Set(entries, k, a) /\ wanted' = C!Set(wanted, C!KeyMeaning(spec), C!ActionMeaning(spec))
           /\ type = "INSERT" =>
                /\ cells' = [x \in DOMAIN cells \cup gone |-> IF x \in gone THEN 0 ELSE cells[x]]
                /\ wantedCells' = [x \in DOMAIN wantedCells \cup {C!MeaningOf(g) : g \in gone} |->
                                    IF x \in DOMAIN wantedCells THEN wantedCells[x] ELSE 0]
           /\ type \notin {"INSERT", "DELETE"} => cells' = cells /\ wantedCells' = wantedCells
  BY CarriedIs
<1>4. IsKey(k) /\ Meaning(k) = C!KeyMeaning(spec)
  BY KeyBuilt
<1>5. k.default = spec.default /\ spec.default \in BOOLEAN
  BY KeyBuilt, ClientAssumption DEF C!SoundRequests
<1>6. IsAction(a) /\ C!ActionMeaning(C!ActionSpec(a)) = C!ActionMeaning(spec)
  BY ActionBuilt
<1>7. EntriesInv /\ CellsInv
  BY DEF ClientInv
<1>8. CASE type = "DELETE"
  <2>1. k \in DOMAIN entries /\ pending' = pending
    BY <1>1, <1>3, <1>8
  <2>2. entries' = C!Without(entries, k) /\ wanted' = C!Without(wanted, Meaning(k))
    BY <1>3, <1>4, <1>8
  <2>3. /\ cells' = [x \in DOMAIN cells \ C!CellsOf(k) |-> cells[x]]
        /\ wantedCells' = [x \in DOMAIN wantedCells \ {C!MeaningOf(g) : g \in C!CellsOf(k)} |-> wantedCells[x]]
    BY <1>3, <1>8
  <2>4. EntriesInv' /\ CellsInv'
    BY <1>7, <2>1, <2>2, <2>3, RemovalKeeps
  <2> QED BY <1>2, <2>4 DEF ClientInv
<1>9. CASE type # "DELETE"
  <2>1. entries' = C!Set(entries, k, a) /\ wanted' = C!Set(wanted, Meaning(k), C!ActionMeaning(C!ActionSpec(a)))
    BY <1>3, <1>4, <1>6, <1>9
  <2>2. ASSUME ~k.default, NEW t \in P4Tables, t.id = k.table, OneField(t)
        PROVE  k.match # {} /\ k.priority = 0
    <3>1. PICK u \in C!TablesNamed(spec.table) : u.id = k.table
      BY KeyBuilt
    <3>2. t \in C!TablesNamed(spec.table)
      <4>1. u \in P4Tables
        BY DEF C!TablesNamed
      <4> QED BY <2>2, <3>1, <4>1, TablesAre
    <3>3. DOMAIN t.fields = {1} /\ t.fields[1].type \in {"exact", "lpm"} /\ Len(t.fields) = 1
      BY <2>2, OneIndex DEF OneField
    <3>4. DOMAIN spec.fields # {} /\ spec.priority = 0
      BY <1>5, <2>2, <3>2, <3>3, ClientAssumption DEF C!SoundRequests
    <3> QED BY <3>4, KeyBuilt
  <2>3. EntriesInv'
    BY <1>4, <1>5, <1>6, <1>7, <2>1, <2>2, EntryKeeps
  <2>4. DOMAIN entries' = DOMAIN entries \cup {k}
    BY <2>1, SetIs
  <2>5. CASE type = "INSERT"
    <3>1. k \notin DOMAIN entries /\ pending' = pending
      BY <1>1, <1>3, <2>5
    <3>2. /\ cells' = [x \in DOMAIN cells \cup C!CellsOf(k) |-> IF x \in C!CellsOf(k) THEN 0 ELSE cells[x]]
          /\ wantedCells' = [x \in DOMAIN wantedCells \cup {C!MeaningOf(g) : g \in C!CellsOf(k)} |->
                              IF x \in DOMAIN wantedCells THEN wantedCells[x] ELSE 0]
      BY <1>3, <2>5
    <3>3. CellsInv'
      BY <1>4, <1>7, <2>4, <3>1, <3>2, InsertKeeps
    <3> QED BY <1>2, <2>3, <3>3 DEF ClientInv
  <2>6. CASE type # "INSERT"
    <3>1. k \in DOMAIN entries /\ cells' = cells /\ wantedCells' = wantedCells /\ pending' = pending
      BY <1>1, <1>3, <1>9, <2>6
    <3>2. DOMAIN entries' = DOMAIN entries
      BY <2>4, <3>1
    <3>3. CellsInv'
      BY <1>7, <3>1, <3>2 DEF CellsInv
    <3> QED BY <1>2, <2>3, <3>3 DEF ClientInv
  <2> QED BY <2>5, <2>6
<1> QED BY <1>8, <1>9

\* A counter or a meter takes a value, and that is what was asked for.
LEMMA CellKeeps ==
  ASSUME EntriesInv, CellsInv, entries' = entries, NEW cell, NEW v,
         cell \in Cells \/ cell.kind \in DirectKinds,
         wantedCells' = C!Set(wantedCells, C!MeaningOf(cell), v),
         \/ cell \in DOMAIN cells /\ cells' = [cells EXCEPT ![cell] = v] /\ pending' = pending
         \/ /\ cell \in Cells /\ cell.kind = "counter" /\ cells' = cells
            /\ \A w \in pending' : w \in pending \/ w.cell = cell
  PROVE  CellsInv'
<1> DEFINE y == C!MeaningOf(cell)
<1>1. /\ DOMAIN wantedCells' = DOMAIN wantedCells \cup {y} /\ wantedCells'[y] = v
      /\ \A z \in DOMAIN wantedCells : z # y => wantedCells'[z] = wantedCells[z]
  BY DEF C!Set
<1>2. /\ DOMAIN cells' = DOMAIN cells
      /\ \A x \in DOMAIN cells : x # cell => cells'[x] = cells[x]
      /\ cell \in DOMAIN cells => cells'[cell] = v \/ cell.kind = "counter"
  OBVIOUS
<1>3. \A x \in DOMAIN cells : IsCell(x)
  BY CellsAre
<1>4. \A x \in DOMAIN cells : x # cell => C!MeaningOf(x) # y
  <2>1. IsCell(cell)
    BY <1>3 DEF IsCell
  <2> QED BY <1>3, <2>1, CellsTell
<1>5. cell \in Cells => y = cell
  BY CellsMean
<1>6. cell \notin Cells => cell \in DOMAIN cells /\ cell.kind \in DirectKinds
  OBVIOUS
<1>7. y = C!MeaningOf(cell)
  OBVIOUS
<1> HIDE DEF y
<1>8. \A x \in DOMAIN cells' : x \in Cells \/ \E k \in DOMAIN entries' : x \in C!CellsOf(k)
  BY <1>2 DEF CellsInv
<1>9. ASSUME NEW x \in DOMAIN cells', x.kind # "counter"
      PROVE  C!MeaningOf(x) \in DOMAIN wantedCells' /\ cells'[x] = wantedCells'[C!MeaningOf(x)]
  <2>1. CASE x = cell
    BY <1>1, <1>2, <1>7, <1>9, <2>1
  <2>2. CASE x # cell
    BY <1>1, <1>2, <1>4, <1>9, <2>2 DEF CellsInv
  <2> QED BY <2>1, <2>2
<1>10. \A z \in DOMAIN wantedCells' : z \in Cells \/ \E x \in DOMAIN cells' : x.kind \in DirectKinds /\ z = C!MeaningOf(x)
  <2> SUFFICES ASSUME NEW z \in DOMAIN wantedCells', z \notin Cells
               PROVE  \E x \in DOMAIN cells' : x.kind \in DirectKinds /\ z = C!MeaningOf(x)
    OBVIOUS
  <2>1. CASE z \in DOMAIN wantedCells
    BY <1>2, <2>1 DEF CellsInv
  <2>2. CASE z = y
    BY <1>2, <1>5, <1>6, <1>7, <2>2
  <2> QED BY <1>1, <2>1, <2>2
<1>11. \A w \in pending' : w.cell.kind = "counter"
  BY DEF CellsInv
<1> QED BY <1>8, <1>9, <1>10, <1>11 DEF CellsInv

LEMMA WriteCellKeeps ==
  ASSUME ClientInv, NEW c, NEW cell, cell \in Cells \/ cell.kind \in DirectKinds, NEW v, C!WriteCell(c, cell, v)
  PROVE  ClientInv'
<1>1. /\ UNCHANGED <<phase, unread, pipeline, entries, wanted>>
      /\ wantedCells' = C!Set(wantedCells, C!MeaningOf(cell), v)
  BY DEF C!WriteCell
<1>2. EntriesInv' /\ PushInv'
  BY <1>1, EntriesStay, PushStays DEF ClientInv
<1>3. \/ cell \in DOMAIN cells /\ cells' = [cells EXCEPT ![cell] = v] /\ pending' = pending
      \/ /\ cell \in Cells /\ cell.kind = "counter" /\ cells' = cells
         /\ \A w \in pending' : w \in pending \/ w.cell = cell
  <2>1. CASE C!Awaited(c, cell)
    BY <2>1 DEF C!WriteCell
  <2>2. CASE ~C!Awaited(c, cell)
    <3>1. cell.kind = "counter"
      BY <2>2 DEF C!Awaited
    <3>2. cell \in Cells
      BY <3>1 DEF DirectKinds
    <3>3. cells' = cells /\ pending' = pending \cup {[client |-> c, cell |-> cell, value |-> v]}
      BY <2>2 DEF C!WriteCell
    <3> QED BY <3>1, <3>2, <3>3
  <2> QED BY <2>1, <2>2
<1>4. EntriesInv /\ CellsInv
  BY DEF ClientInv
<1>5. CellsInv'
  BY <1>1, <1>3, <1>4, CellKeeps
<1> QED BY <1>2, <1>5 DEF ClientInv

LEMMA WriteKeeps == ASSUME ClientInv, NEW c \in Clients, C!Write(c) PROVE ClientInv'
<1>1. ASSUME NEW spec \in Specs, NEW type \in {"INSERT", "MODIFY", "DELETE"},
             C!WriteTableEntry(c, spec, type) \/ C!WriteUpdate(c, spec, type)
      PROVE  ClientInv'
  BY <1>1, CarriedKeeps DEF C!WriteTableEntry, C!WriteUpdate
<1>2. ASSUME NEW v \in Values, C!WriteCounter(c, v) \/ C!WriteMeter(c, v)
      PROVE  ClientInv'
  BY <1>2, WriteCellKeeps DEF C!WriteCounter, C!WriteMeter
<1>3. ASSUME NEW v \in Values, C!WriteDirectCounter(c, v) \/ C!WriteDirectMeter(c, v)
      PROVE  ClientInv'
  <2>1. PICK kind \in DirectKinds, k \in UNION {C!BuildKey(spec) : spec \in Specs} :
          C!WriteCell(c, [kind |-> kind, key |-> k], v)
    BY <1>3 DEF C!WriteDirectCounter, C!WriteDirectMeter, DirectKinds
  <2> DEFINE cell == [kind |-> kind, key |-> k]
  <2>2. cell.kind \in DirectKinds
    OBVIOUS
  <2> HIDE DEF cell
  <2>3. C!WriteCell(c, cell, v)
    BY <2>1 DEF cell
  <2> QED BY <2>2, <2>3, WriteCellKeeps
<1>4. ASSUME NEW x \in Once, C!InsertOnce(c, x)
      PROVE  ClientInv'
  <2>1. UNCHANGED <<phase, unread, pipeline, entries, cells, wanted, wantedCells, pending>>
    BY <1>4 DEF C!InsertOnce
  <2> QED BY <2>1, EntriesStay, CellsStay, PushStays DEF ClientInv
<1> QED BY <1>1, <1>2, <1>3, <1>4 DEF C!Write

LEMMA LandKeeps == ASSUME ClientInv, NEW w \in pending, C!Land(w) PROVE ClientInv'
<1>1. UNCHANGED <<phase, unread, pipeline, entries, wanted, wantedCells>> /\ pending' = pending \ {w}
  BY DEF C!Land
<1>2. EntriesInv' /\ PushInv'
  BY <1>1, EntriesStay, PushStays DEF ClientInv
<1>3. DOMAIN cells' = DOMAIN cells /\ \A x \in DOMAIN cells : x.kind # "counter" => cells'[x] = cells[x]
  <2>1. w.cell.kind = "counter"
    BY DEF ClientInv, CellsInv
  <2>2. cells' = cells \/ cells' = [cells EXCEPT ![w.cell] = w.value]
    BY DEF C!Land
  <2> QED BY <2>1, <2>2
<1>4. CellsInv'
  BY <1>1, <1>3 DEF ClientInv, CellsInv
<1> QED BY <1>2, <1>4 DEF ClientInv

LEMMA ClientKeeps == ClientInv /\ [C!Next]_C!vars => ClientInv'
<1> SUFFICES ASSUME ClientInv, [C!Next]_C!vars PROVE ClientInv'
  OBVIOUS
<1>1. ASSUME NEW c \in Clients, C!Connect(c) PROVE ClientInv'
  BY <1>1, StartKeeps, ReadKeeps, PushKeeps DEF C!Connect
<1>2. ASSUME NEW c \in Clients, C!Leave(c) PROVE ClientInv'
  BY <1>2, LeaveKeeps
<1>3. ASSUME NEW c \in Clients, C!Write(c) PROVE ClientInv'
  BY <1>3, WriteKeeps
<1>4. ASSUME NEW w \in pending, C!Land(w) PROVE ClientInv'
  BY <1>4, LandKeeps
<1>5. CASE UNCHANGED C!vars
  <2>1. UNCHANGED <<phase, unread, pipeline, entries, cells, wanted, wantedCells, pending>>
    BY <1>5 DEF C!vars
  <2> QED BY <2>1, EntriesStay, CellsStay, PushStays DEF ClientInv
<1> QED BY <1>1, <1>2, <1>3, <1>4, <1>5 DEF C!Next

\* Only a push that the switch accepts ends with a client that is up.
Pushes == \A c \in Clients : phase[c] = "push" /\ phase'[c] = "up" => Resets[c] \/ ~pipeline \/ c \in unread

LEMMA PushHasReason == ClientInv /\ [C!Next]_C!vars => Pushes
<1> SUFFICES ASSUME ClientInv, [C!Next]_C!vars, NEW c \in Clients, phase[c] = "push", phase'[c] = "up"
             PROVE  Resets[c] \/ ~pipeline \/ c \in unread
  BY DEF Pushes
<1>1. phase' # phase
  OBVIOUS
<1>2. DOMAIN phase = Clients
  BY DEF ClientInv, PushInv
<1>3. ASSUME NEW d \in Clients, C!Start(d) \/ (\E fails \in BOOLEAN : C!ReadPipeline(d, fails)) \/ C!Leave(d)
      PROVE  FALSE
  <2>1. d = c => phase[c] # "push" \/ phase'[c] = "off"
    BY <1>2, <1>3 DEF C!Start, C!ReadPipeline, C!Leave
  <2>2. d # c => phase'[c] = phase[c]
    BY <1>2, <1>3 DEF C!Start, C!ReadPipeline, C!Leave
  <2> QED BY <2>1, <2>2
<1>4. ASSUME NEW d \in Clients, C!Push(d)
      PROVE  d = c /\ ElectionId[c] = 1
  <2>1. d # c => phase'[c] = phase[c]
    BY <1>2, <1>4 DEF C!Push
  <2>2. d = c
    BY <2>1
  <2>3. ~C!MayWrite(c) => phase'[c] = "off"
    BY <1>2, <1>4, <2>2 DEF C!Push
  <2> QED BY <2>2, <2>3 DEF C!MayWrite
<1>5. ASSUME NEW d \in Clients, C!Write(d) PROVE FALSE
  <2>1. phase' = phase
    BY <1>5 DEF C!Write, C!WriteTableEntry, C!WriteUpdate, C!Carried, C!WriteCounter, C!WriteMeter,
      C!WriteDirectCounter, C!WriteDirectMeter, C!WriteCell, C!InsertOnce
  <2> QED BY <1>1, <2>1
<1>6. ASSUME NEW w \in pending, C!Land(w) PROVE FALSE
  BY <1>1, <1>6 DEF C!Land
<1>7. ~UNCHANGED C!vars
  BY <1>1 DEF C!vars
<1>8. PICK d \in Clients : C!Push(d)
  BY <1>3, <1>5, <1>6, <1>7 DEF C!Next, C!Connect
<1> QED BY <1>4, <1>8 DEF ClientInv, PushInv

\* What the switch holds, what is read of it and what clients that connect do
\* to it: the invariant holds in every state of the client's specification.
THEOREM ClientInductive == C!Spec => []ClientInv
BY ClientBegins, ClientKeeps, PTL DEF C!Spec

\* The switch has what callers asked for, tells it in a form that asks for the
\* same again, and keeps it when another client connects
\* (HighLevelSwitchConnection, SwitchConnection, P4InfoHelper and convert.py):
\* for every sound program, all descriptions of entries and all sets of clients.
THEOREM ClientIsFaithful == C!Spec => Faithful
<1> DEFINE Safe == C!AsAsked /\ C!BuildsAgain /\ C!LastWriteStays /\ C!ToldApart
<1>1. ClientInv => Safe
  BY AsAskedHolds, BuildsAgainHolds, LastWriteStaysHolds, ToldApartHolds DEF ClientInv
<1> HIDE DEF Safe
<1>2. C!Spec => []Safe
  BY <1>1, ClientInductive, PTL
<1>3. C!Spec => [][Pushes]_C!vars
  BY ClientInductive, PushHasReason, PTL DEF C!Spec
<1>4. C!Kept <=> [][Pushes]_C!vars
  BY PTL DEF C!Kept, Pushes
<1>5. Faithful <=> []Safe /\ C!Kept
  BY DEF Faithful, C!Faithful, Safe
<1> QED BY <1>2, <1>3, <1>4, <1>5, PTL
=============================================================================
