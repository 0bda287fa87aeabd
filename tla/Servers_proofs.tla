--------------------------- MODULE Servers_proofs ---------------------------
(***************************************************************************)
(* What holds of the servicers' way up, of the way of their digests and of *)
(* tenants that share targets, for any configuration.                      *)
(*                                                                         *)
(*   A sound start, for any mappings, sources and preload entries: the     *)
(*   invariant follows the loop over the mappings and then the fills that  *)
(*   run side by side.                                                     *)
(*                                                                         *)
(*   Digests once and in order, for any switches, servicers, controllers   *)
(*   and number of digests: the invariant keeps the digests of one switch  *)
(*   in line all the way from the stream over the queue to the controller. *)
(*                                                                         *)
(*   Tenants apart, for any setups and calls: what a name is converted to  *)
(*   begins with its tenant's prefix, so no id of one is that of another.  *)
(*                                                                         *)
(*   Targets that mirror their tenants' virtual devices, for any setups    *)
(*   and calls: all that a servicer wrote has a twin at each target it was *)
(*   told to, and all that is there of a tenant has one in its device.     *)
(*                                                                         *)
(*   What controllers are told, for any setups, calls and packets: each    *)
(*   count of a tenant is what its targets have counted together, so what  *)
(*   comes back of the twins, merged, is what was asked for.               *)
(***************************************************************************)
EXTENDS MCServers, CommunityLaws

----------------------------------------------------------------------------
\* The way up.

\* What configuration files have to keep apart: sources have keys and entries
\* of their own, and those of one target do not both insert what could have
\* been a preload entry.
Apart ==
  \A s, t \in Sources : s # t =>
    Key(s) # Key(t) /\ s.name # t.name /\ (s.mapping = t.mapping => Preloads[s.mapping] > 0)

Entry == ({"preload"} \cup {s.name : s \in Sources}) \X Nat
Preloaded(n) == {<<"preload", i>> : i \in 1..n}
LogOf(s) == log[Key(s)]

Typed ==
  /\ resets \in BOOLEAN /\ reading \in BOOLEAN /\ own \in BOOLEAN /\ failed \in BOOLEAN
  /\ phase \in {"down", "set up", "starting", "ready"} /\ at \in Mappings
  /\ step \in {"target", "servers", "preload"} /\ done \in 0..Preloads[at]
  /\ server \in [Sources -> {"none", "created", "open"}] /\ filled \in [Sources -> Nat]
  /\ table \in [Mappings -> SUBSET Entry] /\ log \in [Keys -> Seq(Entry)]

Started == phase \in {"starting", "ready"}

\* Ports are open only once all targets are set up; before, nothing is filled.
Served ==
  /\ ~Started => \A s \in Sources : server[s] # "open"
  /\ phase = "set up" => \A s \in Sources : filled[s] = 0
  /\ phase = "ready" => AllOpen

\* The mappings that have been set up have their preload entries.
SetUp(m) == Started \/ (phase = "set up" /\ m < at)
Preloading == phase = "set up" /\ step = "preload"
Loaded ==
  /\ \A m \in Mappings : SetUp(m) => Preloaded(Preloads[m]) \subseteq table[m]
  /\ Preloading => Preloaded(done) \subseteq table[at]

\* The target of a source has what the source has filled; once its port is
\* open, all that it has logged.
FilledIn ==
  Started /\ reading => \A s \in Sources :
    /\ filled[s] <= Len(LogOf(s))
    /\ \A i \in 1..Len(LogOf(s)) :
         i <= filled[s] \/ server[s] = "open" => LogOf(s)[i] \in table[s.mapping]

\* Sources log entries of their own, or such as might be preloaded.
Logged ==
  \A s \in Sources : \A i \in 1..Len(LogOf(s)) : LogOf(s)[i][1] \in {"preload", s.name}

\* If targets are reset and controllers insert what is new: a log has no entry
\* twice and none that is preloaded, ...
NewOnly ==
  \A s \in Sources : \A i \in 1..Len(LogOf(s)) :
    /\ \A j \in 1..Len(LogOf(s)) : LogOf(s)[i] = LogOf(s)[j] => i = j
    /\ LogOf(s)[i] \notin Preloaded(Preloads[s.mapping])
    /\ LogOf(s)[i][1] = "preload" => LogOf(s)[i] = <<"preload", 1>>

\* ... until the servers start a target has its preload entries and nothing
\* else, ...
Clean ==
  /\ \A m \in Mappings : phase = "set up" /\ m < at => table[m] = Preloaded(Preloads[m])
  /\ phase = "set up" /\ step = "servers" => table[at] = {}
  /\ Preloading => table[at] = Preloaded(done)

\* ... and what is still to be filled is not there yet.
StillToFill ==
  phase = "starting" /\ reading => \A s \in Sources : server[s] # "open" =>
    \A i \in 1..Len(LogOf(s)) : i > filled[s] => LogOf(s)[i] \notin table[s.mapping]

Repeatable == own /\ resets => ~failed /\ NewOnly /\ Clean /\ StillToFill

IInv == Typed /\ Served /\ Loaded /\ FilledIn /\ Logged /\ OwnLog /\ Repeatable
-----------------------------------------------------------------------------
LEMMA Preloadings ==
  /\ Preloaded(0) = {}
  /\ \A n \in Nat : /\ Preloaded(n) \subseteq Entry
                    /\ Preloaded(n + 1) = Preloaded(n) \cup {<<"preload", n + 1>>}
                    /\ <<"preload", n + 1>> \notin Preloaded(n)
  /\ \A n \in Nat : \A e \in Preloaded(n) : e[1] = "preload"
BY DEF Preloaded, Entry

LEMMA Constants ==
  /\ 1 \in Mappings /\ NumMappings \in Nat
  /\ \A m \in Mappings : m \in Nat /\ 1 <= m /\ m <= NumMappings /\ Preloads[m] \in Nat
  /\ \A s \in Sources : Key(s) \in Keys /\ s.mapping \in Mappings
BY LaunchAssumption DEF Mappings, Keys, LaunchAssumption

LEMMA Logs ==
  ASSUME Typed, NEW s \in Sources
  PROVE  /\ LogOf(s) \in Seq(Entry) /\ Len(LogOf(s)) \in Nat
         /\ \A i \in 1..Len(LogOf(s)) : LogOf(s)[i] \in Entry
<1>1. LogOf(s) \in Seq(Entry)
  BY Constants DEF Typed, LogOf
<1> QED BY <1>1

\* Steps that log nothing.
LEMMA NothingLogged ==
  ASSUME UNCHANGED log
  PROVE  /\ \A s \in Sources : LogOf(s)' = LogOf(s)
         /\ Logged => Logged'
         /\ NewOnly => NewOnly'
<1>1. \A s \in Sources : LogOf(s)' = LogOf(s)
  BY DEF LogOf
<1>2. Logged => Logged'
  BY <1>1 DEF Logged
<1>3. NewOnly => NewOnly'
  BY <1>1 DEF NewOnly
<1> QED BY <1>1, <1>2, <1>3

LEMMA InitInv == Init => IInv
<1> SUFFICES ASSUME Init PROVE IInv
  OBVIOUS
<1>1. Typed
  <2>1. /\ resets \in BOOLEAN /\ reading \in BOOLEAN /\ own \in BOOLEAN /\ failed \in BOOLEAN
    BY DEF Init
  <2>2. at \in Mappings /\ done \in 0..Preloads[at]
    BY Constants DEF Init
  <2>3. server \in [Sources -> {"none", "created", "open"}] /\ filled \in [Sources -> Nat]
    BY DEF Init, None
  <2>4. table \in [Mappings -> SUBSET Entry] /\ log \in [Keys -> Seq(Entry)]
    BY DEF Init
  <2> QED BY <2>1, <2>2, <2>3, <2>4 DEF Init, Typed
<1>2. \A s \in Sources : LogOf(s) = <<>> /\ Len(LogOf(s)) = 0
  BY Constants DEF Init, LogOf
<1>3. Served /\ Loaded /\ FilledIn
  BY DEF Init, Served, Loaded, SetUp, Started, Preloading, FilledIn, None
<1>4. Logged /\ OwnLog
  BY <1>2 DEF Init, Logged, OwnLog
<1>5. Repeatable
  <2>1. NewOnly
    BY <1>2 DEF NewOnly
  <2>2. ~failed /\ Clean /\ StillToFill
    BY DEF Init, Clean, StillToFill, Preloading
  <2> QED BY <2>1, <2>2 DEF Repeatable
<1> QED BY <1>1, <1>3, <1>4, <1>5 DEF IInv

LEMMA StartInv == ASSUME IInv, Start PROVE IInv'
<1>1. Typed /\ Served /\ Loaded /\ FilledIn /\ Logged /\ OwnLog /\ Repeatable
  BY DEF IInv
<1>2. Typed'
  <2>1. at' = 1 /\ done' = 0 /\ 1 \in Mappings /\ Preloads[1] \in Nat
    BY Constants DEF Start
  <2>2. at' \in Mappings /\ done' \in 0..Preloads[at']
    BY <2>1
  <2>3. filled' \in [Sources -> Nat]
    BY DEF Start
  <2>4. resets' \in BOOLEAN /\ reading' \in BOOLEAN /\ own' \in BOOLEAN /\ failed' \in BOOLEAN
    BY <1>1 DEF Start, Typed, config
  <2> QED BY <1>1, <2>2, <2>3, <2>4 DEF Start, Typed
<1>3. Served'
  BY <1>1 DEF Start, Served, Started
<1>4. \A m \in Mappings : ~(m < at') /\ ~SetUp(m)'
  <2>1. at' = 1 /\ phase' = "set up"
    BY DEF Start
  <2>2. \A m \in Mappings : ~(m < 1)
    BY Constants
  <2>3. \A m \in Mappings : ~(m < at')
    BY <2>1, <2>2
  <2>4. ~Started'
    BY <2>1 DEF Started
  <2> QED BY <2>3, <2>4 DEF SetUp
<1>5. Loaded'
  BY <1>4 DEF Start, Loaded, Preloading
<1>6. FilledIn' /\ Logged' /\ OwnLog'
  BY <1>1, NothingLogged DEF Start, FilledIn, Started, OwnLog
<1>7. Repeatable'
  <2>1. NewOnly => NewOnly'
    BY NothingLogged DEF Start
  <2>2. Clean' /\ StillToFill'
    BY <1>4 DEF Start, Clean, StillToFill, Preloading
  <2>3. own' = own /\ resets' = resets /\ failed' = failed
    BY DEF Start, config
  <2> QED BY <1>1, <2>1, <2>2, <2>3 DEF Repeatable
<1> QED BY <1>2, <1>3, <1>5, <1>6, <1>7 DEF IInv

LEMMA InitTargetInv == ASSUME IInv, InitTarget PROVE IInv'
<1>1. Typed /\ Served /\ Loaded /\ FilledIn /\ Logged /\ OwnLog /\ Repeatable
  BY DEF IInv
<1>2. Typed'
  <2>1. resets' \in BOOLEAN /\ reading' \in BOOLEAN /\ own' \in BOOLEAN /\ failed' \in BOOLEAN
    BY <1>1 DEF InitTarget, Typed, config
  <2>2. TableAfterInit \in SUBSET Entry
    BY <1>1 DEF TableAfterInit, Typed
  <2>3. table' \in [Mappings -> SUBSET Entry]
    BY <1>1, <2>2 DEF InitTarget, Typed
  <2> QED BY <1>1, <2>1, <2>3 DEF InitTarget, Typed
<1>3. Served'
  BY <1>1 DEF InitTarget, Served, Started
<1>4. /\ \A m \in Mappings : table'[m] \subseteq table[m] /\ (m < at => table'[m] = table[m])
      /\ resets => table'[at] = {}
  <2>1. at \in Nat /\ at \in Mappings /\ resets \in BOOLEAN /\ table \in [Mappings -> SUBSET Entry]
    BY <1>1, Constants DEF Typed
  <2>2. table'[at] = TableAfterInit /\ \A m \in Mappings : m # at => table'[m] = table[m]
    BY <2>1 DEF InitTarget
  <2>3. TableAfterInit \subseteq table[at] /\ (resets => TableAfterInit = {})
    BY <2>1 DEF TableAfterInit
  <2>4. ASSUME NEW m \in Mappings PROVE table'[m] \subseteq table[m] /\ (m < at => table'[m] = table[m])
    <3>1. m \in Nat
      BY Constants
    <3> QED BY <2>1, <2>2, <2>3, <3>1
  <2> QED BY <2>2, <2>3, <2>4
<1>5. Loaded'
  <2>1. \A m \in Mappings : SetUp(m)' => SetUp(m) /\ m < at
    BY DEF InitTarget, SetUp, Started
  <2>2. ~Preloading'
    BY DEF InitTarget, Preloading
  <2> QED BY <1>1, <1>4, <2>1, <2>2 DEF Loaded
<1>6. FilledIn' /\ Logged'
  BY <1>1, NothingLogged DEF InitTarget, FilledIn, Started
<1>7. OwnLog'
  BY <1>1, <1>4 DEF OwnLog
<1>8. Repeatable'
  <2>1. NewOnly => NewOnly'
    BY NothingLogged DEF InitTarget
  <2>2. resets /\ Clean => Clean'
    BY <1>4 DEF InitTarget, Clean, Preloading
  <2>3. StillToFill'
    BY DEF InitTarget, StillToFill
  <2>4. own' = own /\ resets' = resets /\ failed' = failed
    BY DEF InitTarget, config
  <2> QED BY <1>1, <2>1, <2>2, <2>3, <2>4 DEF Repeatable
<1> QED BY <1>2, <1>3, <1>5, <1>6, <1>7, <1>8 DEF IInv

LEMMA CreateServersInv == ASSUME IInv, CreateServers PROVE IInv'
<1>1. Typed /\ Served /\ Loaded /\ FilledIn /\ Logged /\ OwnLog /\ Repeatable
  BY DEF IInv
<1>2. Typed'
  <2>1. server' \in [Sources -> {"none", "created", "open"}]
    BY <1>1 DEF CreateServers, Typed
  <2>2. at \in Mappings /\ at' = at /\ done' = 0 /\ Preloads[at] \in Nat
    BY <1>1, Constants DEF CreateServers, Typed
  <2>3. at' \in Mappings /\ done' \in 0..Preloads[at']
    BY <2>2
  <2>4. resets' \in BOOLEAN /\ reading' \in BOOLEAN /\ own' \in BOOLEAN /\ failed' \in BOOLEAN
    BY <1>1 DEF CreateServers, Typed, config
  <2> QED BY <1>1, <2>1, <2>3, <2>4 DEF CreateServers, Typed
<1>3. Served'
  BY <1>1 DEF CreateServers, Served, Started
<1>4. Loaded'
  BY <1>1, Preloadings DEF CreateServers, Loaded, SetUp, Started, Preloading
<1>5. FilledIn' /\ Logged' /\ OwnLog'
  BY <1>1, NothingLogged DEF CreateServers, FilledIn, Started, OwnLog
<1>6. Repeatable'
  <2>1. NewOnly => NewOnly'
    BY NothingLogged DEF CreateServers
  <2>2. Clean => Clean' /\ StillToFill'
    BY Preloadings DEF CreateServers, Clean, StillToFill, Preloading
  <2>3. own' = own /\ resets' = resets /\ failed' = failed
    BY DEF CreateServers, config
  <2> QED BY <1>1, <2>1, <2>2, <2>3 DEF Repeatable
<1> QED BY <1>2, <1>3, <1>4, <1>5, <1>6 DEF IInv

LEMMA NextMappingInv == ASSUME IInv, NextMapping PROVE IInv'
<1>1. Typed /\ Served /\ Loaded /\ FilledIn /\ Logged /\ OwnLog /\ Repeatable
  BY DEF IInv
<1>2. /\ at \in Mappings /\ at \in Nat /\ Preloads[at] \in Nat /\ done = Preloads[at]
      /\ at' \in Mappings /\ at' \in Nat /\ Preloads[at'] \in Nat /\ done' = 0
      /\ Preloading /\ ~Preloading'
  <2>1. at \in Mappings /\ at \in Nat
    BY <1>1, Constants DEF Typed
  <2>2. CASE at < NumMappings
    <3>1. at' = at + 1 /\ at + 1 \in Mappings
      <4>1. NumMappings \in Nat
        BY Constants
      <4>2. at + 1 \in Mappings
        BY <2>1, <2>2, <4>1 DEF Mappings
      <4> QED BY <2>2, <4>2 DEF NextMapping
    <3>2. at' \in Nat /\ Preloads[at'] \in Nat
      BY <3>1, Constants
    <3> QED BY <2>1, <3>1, <3>2, Constants DEF NextMapping, MappingDone, Preloading
  <2>3. CASE ~(at < NumMappings)
    BY <2>1, <2>3, Constants DEF NextMapping, MappingDone, Preloading
  <2> QED BY <2>2, <2>3
<1>3. Typed'
  <2>1. done' \in 0..Preloads[at']
    BY <1>2
  <2>2. resets' \in BOOLEAN /\ reading' \in BOOLEAN /\ own' \in BOOLEAN /\ failed' \in BOOLEAN
    BY <1>1 DEF NextMapping, Typed, config
  <2> QED BY <1>1, <1>2, <2>1, <2>2 DEF NextMapping, Typed
<1>4. Served'
  BY <1>1 DEF NextMapping, Served, Started
<1>5. \A m \in Mappings : SetUp(m)' => SetUp(m) \/ m = at
  <2> SUFFICES ASSUME NEW m \in Mappings, m # at, SetUp(m)' PROVE m < at
    BY <1>2 DEF SetUp, Preloading
  <2>1. m \in Nat /\ m <= NumMappings /\ NumMappings \in Nat
    BY Constants
  <2>2. CASE at < NumMappings
    <3>1. m < at + 1
      BY <2>2 DEF NextMapping, SetUp, Started
    <3> QED BY <1>2, <2>1, <3>1
  <2>3. CASE ~(at < NumMappings)
    BY <1>2, <2>1, <2>3
  <2> QED BY <2>2, <2>3
<1>6. Loaded'
  BY <1>1, <1>2, <1>5 DEF NextMapping, Loaded
<1>7. FilledIn' /\ Logged' /\ OwnLog'
  <2>1. \A s \in Sources : filled'[s] = 0 /\ server'[s] # "open" /\ LogOf(s)' = LogOf(s) /\ Len(LogOf(s)) \in Nat
    BY <1>1, NothingLogged, Logs DEF NextMapping, Served, Started
  <2>2. FilledIn'
    BY <2>1 DEF FilledIn
  <2> QED BY <1>1, <2>2, NothingLogged DEF NextMapping, OwnLog
<1>8. Repeatable'
  <2>1. own' = own /\ resets' = resets /\ failed' = failed
    BY DEF NextMapping, config
  <2>2. SUFFICES ASSUME own, resets PROVE NewOnly' /\ Clean' /\ StillToFill' /\ ~failed
    BY <2>1 DEF Repeatable
  <2>3. ~failed /\ NewOnly /\ Clean
    BY <1>1, <2>2 DEF Repeatable
  <2>4. NewOnly'
    BY <2>3, NothingLogged DEF NextMapping
  <2>5. \A m \in Mappings : SetUp(m)' => table[m] = Preloaded(Preloads[m])
    BY <1>2, <1>5, <2>3 DEF Clean, SetUp, Started, NextMapping
  <2>6. Clean'
    BY <1>2, <2>5 DEF Clean, SetUp, NextMapping, Preloading
  <2>7. StillToFill'
    <3> SUFFICES ASSUME phase' = "starting", NEW s \in Sources, NEW i \in 1..Len(LogOf(s)')
                 PROVE  LogOf(s)'[i] \notin table'[s.mapping]
      BY DEF StillToFill
    <3>1. s.mapping \in Mappings /\ table'[s.mapping] = Preloaded(Preloads[s.mapping])
      BY <2>5, Constants DEF SetUp, Started, NextMapping
    <3>2. LogOf(s)' = LogOf(s)
      BY NothingLogged DEF NextMapping
    <3> QED BY <2>3, <3>1, <3>2 DEF NewOnly
  <2> QED BY <2>3, <2>4, <2>6, <2>7
<1> QED BY <1>3, <1>4, <1>6, <1>7, <1>8 DEF IInv

LEMMA ReadyInv == ASSUME IInv, Ready PROVE IInv'
<1>1. Typed /\ Served /\ Loaded /\ FilledIn /\ Logged /\ OwnLog /\ Repeatable
  BY DEF IInv
<1>2. Typed'
  <2>1. resets' \in BOOLEAN /\ reading' \in BOOLEAN /\ own' \in BOOLEAN /\ failed' \in BOOLEAN
    BY <1>1 DEF Ready, Typed, config
  <2> QED BY <1>1, <2>1 DEF Ready, Typed
<1>3. Served'
  BY <1>1 DEF Ready, Served, Started, AllOpen
<1>4. Loaded'
  BY <1>1 DEF Ready, Loaded, SetUp, Started, Preloading
<1>5. FilledIn' /\ Logged' /\ OwnLog'
  <2>1. FilledIn'
    BY <1>1, NothingLogged DEF Ready, FilledIn, Started, config
  <2> QED BY <1>1, <2>1, NothingLogged DEF Ready, OwnLog
<1>6. Repeatable'
  <2>1. NewOnly => NewOnly'
    BY NothingLogged DEF Ready
  <2>2. Clean' /\ StillToFill'
    BY DEF Ready, Clean, StillToFill, Preloading
  <2>3. own' = own /\ resets' = resets /\ failed' = failed
    BY DEF Ready, config
  <2> QED BY <1>1, <2>1, <2>2, <2>3 DEF Repeatable
<1> QED BY <1>2, <1>3, <1>4, <1>5, <1>6 DEF IInv

\* The end of a process, however it comes: only failed may have changed.
LEMMA DownInv ==
  ASSUME IInv, Down, UNCHANGED <<config, table, log>>, at' \in Mappings, done' \in 0..Preloads[at'],
         step' = step, filled' \in [Sources -> Nat], failed' \in BOOLEAN, failed' /\ ~failed => ~(own /\ resets)
  PROVE  IInv'
<1>1. Typed /\ Logged /\ OwnLog /\ Repeatable
  BY DEF IInv
<1>2. Typed'
  <2>1. resets' \in BOOLEAN /\ reading' \in BOOLEAN /\ own' \in BOOLEAN
    BY <1>1 DEF Typed, config
  <2>2. server' \in [Sources -> {"none", "created", "open"}]
    BY DEF Down, None
  <2> QED BY <1>1, <2>1, <2>2 DEF Down, Typed
<1>3. Served' /\ Loaded' /\ FilledIn'
  BY DEF Down, None, Served, Started, Loaded, SetUp, Preloading, FilledIn
<1>4. Logged' /\ OwnLog'
  BY <1>1, NothingLogged DEF OwnLog
<1>5. Repeatable'
  <2>1. NewOnly => NewOnly'
    BY NothingLogged
  <2>2. Clean' /\ StillToFill'
    BY DEF Down, Clean, StillToFill, Preloading
  <2>3. own' = own /\ resets' = resets
    BY DEF config
  <2> QED BY <1>1, <2>1, <2>2, <2>3 DEF Repeatable
<1> QED BY <1>2, <1>3, <1>4, <1>5 DEF IInv

LEMMA StopInv == ASSUME IInv, Stop PROVE IInv'
<1>1. Typed
  BY DEF IInv
<1>2. at' \in Mappings /\ done' \in 0..Preloads[at'] /\ filled' \in [Sources -> Nat] /\ failed' \in BOOLEAN
  BY <1>1 DEF Stop, Typed
<1>3. failed' /\ ~failed => ~(own /\ resets)
  BY DEF Stop
<1> QED BY <1>2, <1>3, DownInv DEF Stop

LEMMA OpenInv == ASSUME IInv, NEW u \in Sources, Open(u) PROVE IInv'
<1>1. Typed /\ Served /\ Loaded /\ FilledIn /\ Logged /\ OwnLog /\ Repeatable
  BY DEF IInv
<1>2. Typed'
  <2>1. resets' \in BOOLEAN /\ reading' \in BOOLEAN /\ own' \in BOOLEAN /\ failed' \in BOOLEAN
    BY <1>1 DEF Open, Typed, config
  <2> QED BY <1>1, <2>1 DEF Open, Typed
<1>3. Served'
  BY <1>1 DEF Open, Served, Started
<1>4. Loaded'
  BY <1>1 DEF Open, Loaded, SetUp, Started, Preloading
<1>5. \A s \in Sources : server'[s] = "open" => server[s] = "open" \/ s = u
  BY <1>1 DEF Open, Typed
<1>6. FilledIn'
  <2> SUFFICES ASSUME reading, NEW s \in Sources
               PROVE  /\ filled[s] <= Len(LogOf(s))
                      /\ \A i \in 1..Len(LogOf(s)) :
                           i <= filled[s] \/ server'[s] = "open" => LogOf(s)[i] \in table[s.mapping]
    BY NothingLogged DEF Open, FilledIn, config
  <2>1. /\ filled[s] <= Len(LogOf(s))
        /\ \A i \in 1..Len(LogOf(s)) : i <= filled[s] \/ server[s] = "open" => LogOf(s)[i] \in table[s.mapping]
    BY <1>1 DEF FilledIn, Open, Started
  <2>2. CASE s = u
    <3>1. filled[s] = Len(LogOf(s))
      BY <2>2 DEF Open, Filled, LogOf
    <3> QED BY <1>1, <2>1, <3>1, Logs
  <2>3. CASE s # u
    BY <1>5, <2>1, <2>3
  <2> QED BY <2>2, <2>3
<1>7. Logged' /\ OwnLog'
  BY <1>1, NothingLogged DEF Open, OwnLog
<1>8. Repeatable'
  <2>1. NewOnly => NewOnly'
    BY NothingLogged DEF Open
  <2>2. Clean'
    BY DEF Open, Clean, Preloading
  <2>3. \A s \in Sources : server'[s] # "open" => server[s] # "open"
    BY <1>1 DEF Open, Typed
  <2>4. StillToFill => StillToFill'
    BY <2>3, NothingLogged DEF Open, StillToFill, config
  <2>5. own' = own /\ resets' = resets /\ failed' = failed
    BY DEF Open, config
  <2> QED BY <1>1, <2>1, <2>2, <2>4, <2>5 DEF Repeatable
<1> QED BY <1>2, <1>3, <1>4, <1>6, <1>7, <1>8 DEF IInv

LEMMA PreloadInv == ASSUME IInv, Preload PROVE IInv'
<1> DEFINE e == <<"preload", done + 1>>
<1>1. Typed /\ Served /\ Loaded /\ FilledIn /\ Logged /\ OwnLog /\ Repeatable
  BY DEF IInv
<1>2. /\ at \in Mappings /\ at \in Nat /\ at' = at /\ Preloads[at] \in Nat
      /\ done \in Nat /\ done' = done + 1 /\ done + 1 \in 0..Preloads[at] /\ e \in Entry
  <2>1. at \in Mappings /\ at \in Nat /\ Preloads[at] \in Nat
    BY <1>1, Constants DEF Typed
  <2>2. done \in 0..Preloads[at] /\ done < Preloads[at]
    BY <1>1 DEF Typed, Preload
  <2>3. done \in Nat /\ done + 1 \in 0..Preloads[at]
    BY <2>1, <2>2
  <2>4. e \in Entry
    BY <2>3 DEF Entry
  <2> QED BY <2>1, <2>3, <2>4 DEF Preload
<1>3. CASE e \in table[at]
  <2>1. Raise
    BY <1>3 DEF Preload
  <2>2. failed' /\ ~failed => ~(own /\ resets)
    <3> SUFFICES ASSUME own, resets PROVE FALSE
      OBVIOUS
    <3>1. table[at] = Preloaded(done)
      BY <1>1 DEF Repeatable, Clean, Preloading, Preload
    <3> QED BY <1>2, <1>3, <3>1, Preloadings
  <2>3. at' \in Mappings /\ done' \in 0..Preloads[at'] /\ filled' \in [Sources -> Nat] /\ failed' \in BOOLEAN
    BY <1>1, <1>2, <2>1 DEF Typed, Preload, Raise
  <2>4. Down /\ step' = step /\ UNCHANGED <<config, table, log>>
    BY <2>1 DEF Preload, Raise
  <2> QED BY <2>2, <2>3, <2>4, DownInv
<1>4. CASE e \notin table[at]
  <2>1. /\ table' = [table EXCEPT ![at] = @ \cup {e}]
        /\ UNCHANGED <<phase, server, log, failed, at, step, filled, starts>> /\ UNCHANGED config
    BY <1>4 DEF Preload
  <2>2. /\ \A m \in Mappings : table[m] \subseteq table'[m] /\ (m # at => table'[m] = table[m])
        /\ table'[at] = table[at] \cup {e}
    BY <1>1, <1>2, <2>1 DEF Typed
  <2>3. Typed'
    <3>1. table' \in [Mappings -> SUBSET Entry]
      BY <1>1, <1>2, <2>1 DEF Typed
    <3>2. resets' \in BOOLEAN /\ reading' \in BOOLEAN /\ own' \in BOOLEAN /\ failed' \in BOOLEAN
      BY <1>1, <2>1 DEF Typed, config
    <3>3. done' \in 0..Preloads[at'] /\ at' \in Mappings
      BY <1>2
    <3> QED BY <1>1, <2>1, <3>1, <3>2, <3>3 DEF Typed
  <2>4. phase = "set up" /\ step = "preload"
    BY DEF Preload
  <2>5. Served' /\ FilledIn'
    BY <1>1, <2>1, <2>4 DEF Served, FilledIn, Started, AllOpen
  <2>6. Preloaded(done + 1) = Preloaded(done) \cup {e}
    BY <1>2, Preloadings
  <2>7. Loaded'
    <3>1. \A m \in Mappings : SetUp(m)' => SetUp(m)
      BY <2>1 DEF SetUp, Started
    <3>2. Preloaded(done) \subseteq table[at]
      BY <1>1, <2>4 DEF Loaded, Preloading
    <3>3. Preloaded(done') \subseteq table'[at']
      BY <1>2, <2>2, <2>6, <3>2
    <3> QED BY <1>1, <2>2, <3>1, <3>3 DEF Loaded
  <2>8. Logged'
    BY <1>1, <2>1, NothingLogged
  <2>9. OwnLog'
    <3>1. e[1] = "preload"
      OBVIOUS
    <3>2. \A m \in Mappings : \A x \in table'[m] : x \in table[m] \/ x = e
      BY <1>2, <2>2
    <3> QED BY <1>1, <3>1, <3>2 DEF OwnLog
  <2>10. Repeatable'
    <3>1. own' = own /\ resets' = resets /\ failed' = failed
      BY <2>1 DEF config
    <3>2. NewOnly => NewOnly'
      BY <2>1, NothingLogged
    <3>3. Clean => Clean'
      <4> SUFFICES ASSUME Clean PROVE Clean'
        OBVIOUS
      <4>1. table'[at'] = Preloaded(done')
        BY <1>2, <2>2, <2>4, <2>6 DEF Clean, Preloading
      <4>2. \A m \in Mappings : m < at' => table'[m] = Preloaded(Preloads[m])
        <5>1. \A m \in Mappings : m < at' => m < at /\ m # at
          BY <1>2, Constants
        <5> QED BY <2>2, <2>4, <5>1 DEF Clean
      <4> QED BY <2>1, <2>4, <4>1, <4>2 DEF Clean
    <3>4. StillToFill'
      BY <2>1, <2>4 DEF StillToFill
    <3> QED BY <1>1, <3>1, <3>2, <3>3, <3>4 DEF Repeatable
  <2> QED BY <2>3, <2>5, <2>7, <2>8, <2>9, <2>10 DEF IInv
<1> QED BY <1>3, <1>4

\* What one source of a target logs another one does not.
LEMMA LogsApart ==
  ASSUME Apart, Typed, Logged, NewOnly, NEW s \in Sources, NEW t \in Sources, s # t, s.mapping = t.mapping,
         NEW i \in 1..Len(LogOf(s)), NEW j \in 1..Len(LogOf(t))
  PROVE  LogOf(s)[i] # LogOf(t)[j]
<1> SUFFICES ASSUME LogOf(s)[i] = LogOf(t)[j] PROVE FALSE
  OBVIOUS
<1>1. LogOf(s)[i][1] = "preload"
  BY DEF Logged, Apart
<1>2. LogOf(s)[i] = <<"preload", 1>>
  BY <1>1 DEF NewOnly
<1>3. Preloads[s.mapping] \in Nat /\ Preloads[s.mapping] > 0
  BY Constants DEF Apart
<1>4. <<"preload", 1>> \in Preloaded(Preloads[s.mapping])
  BY <1>3 DEF Preloaded
<1> QED BY <1>2, <1>4 DEF NewOnly

LEMMA FillInv == ASSUME IInv, Apart, NEW u \in Sources, Fill(u) PROVE IInv'
<1> DEFINE k == filled[u] + 1
           e == LogOf(u)[k]
           m == u.mapping
<1>1. Typed /\ Served /\ Loaded /\ FilledIn /\ Logged /\ OwnLog /\ Repeatable
  BY DEF IInv
<1>2. /\ m \in Mappings /\ filled[u] \in Nat /\ k \in Nat /\ Len(LogOf(u)) \in Nat
      /\ k \in 1..Len(LogOf(u)) /\ e \in Entry
  <2>1. m \in Mappings /\ filled[u] \in Nat /\ Len(LogOf(u)) \in Nat
    BY <1>1, Constants, Logs DEF Typed
  <2>2. k \in 1..Len(LogOf(u))
    BY <2>1 DEF Fill, LogOf
  <2> QED BY <1>1, <2>1, <2>2, Logs
<1>3. phase = "starting" /\ reading /\ server[u] # "open" /\ UNCHANGED <<config, at, step, done>>
  BY DEF Fill
<1>4. filled' = [filled EXCEPT ![u] = k] /\ filled' \in [Sources -> Nat]
  BY <1>1, <1>2 DEF Fill, Typed
<1>5. filled'[u] = k /\ \A s \in Sources : filled[s] \in Nat /\ (s # u => filled'[s] = filled[s])
  <2>1. filled \in [Sources -> Nat]
    BY <1>1 DEF Typed
  <2> QED BY <1>4, <2>1
<1>6. own /\ resets => e \notin table[m]
  BY <1>1, <1>2, <1>3 DEF Repeatable, StillToFill
<1>7. CASE e \in table[m]
  <2>1. Raise
    BY <1>7 DEF Fill, LogOf
  <2>2. at' \in Mappings /\ done' \in 0..Preloads[at'] /\ failed' \in BOOLEAN
    BY <1>1, <1>3, <2>1 DEF Typed, Raise
  <2>3. Down /\ UNCHANGED <<table, log>>
    BY <2>1 DEF Raise
  <2> QED BY <1>3, <1>4, <1>6, <1>7, <2>2, <2>3, DownInv
<1>8. CASE e \notin table[m]
  <2>1. table' = [table EXCEPT ![m] = @ \cup {e}] /\ UNCHANGED <<phase, server, log, failed>>
    BY <1>8 DEF Fill, LogOf
  <2>2. /\ \A n \in Mappings : table[n] \subseteq table'[n] /\ (n # m => table'[n] = table[n])
        /\ table'[m] = table[m] \cup {e}
    BY <1>1, <1>2, <2>1 DEF Typed
  <2>3. Typed'
    <3>1. table' \in [Mappings -> SUBSET Entry]
      BY <1>1, <1>2, <2>1 DEF Typed
    <3>2. resets' \in BOOLEAN /\ reading' \in BOOLEAN /\ own' \in BOOLEAN /\ failed' \in BOOLEAN
      BY <1>1, <1>3, <2>1 DEF Typed, config
    <3> QED BY <1>1, <1>3, <1>4, <2>1, <3>1, <3>2 DEF Typed
  <2>4. Served'
    BY <1>1, <1>3, <2>1 DEF Served, Started
  <2>5. Loaded'
    BY <1>1, <1>3, <2>1, <2>2 DEF Loaded, SetUp, Started, Preloading
  <2>6. \A s \in Sources : LogOf(s)' = LogOf(s) /\ s.mapping \in Mappings
    BY <2>1, NothingLogged, Constants
  <2>7. FilledIn'
    <3> SUFFICES ASSUME NEW s \in Sources
                 PROVE  /\ filled'[s] <= Len(LogOf(s))
                        /\ \A i \in 1..Len(LogOf(s)) :
                             i <= filled'[s] \/ server[s] = "open" => LogOf(s)[i] \in table'[s.mapping]
      BY <2>1, <2>6 DEF FilledIn
    <3>1. /\ filled[s] <= Len(LogOf(s))
          /\ \A i \in 1..Len(LogOf(s)) : i <= filled[s] \/ server[s] = "open" => LogOf(s)[i] \in table[s.mapping]
      BY <1>1, <1>3 DEF FilledIn, Started
    <3>2. CASE s = u
      <4>1. filled'[s] = k /\ k <= Len(LogOf(s))
        BY <1>2, <1>5, <3>2
      <4>2. ASSUME NEW i \in 1..Len(LogOf(s)), i <= k PROVE LogOf(s)[i] \in table'[s.mapping]
        <5>1. i = k \/ i <= filled[s]
          BY <1>2, <3>2, <4>2
        <5> QED BY <1>2, <2>2, <3>1, <3>2, <5>1
      <4> QED BY <1>3, <3>2, <4>1, <4>2
    <3>3. CASE s # u
      <4>1. filled'[s] = filled[s]
        BY <1>5, <3>3
      <4> QED BY <2>2, <2>6, <3>1, <4>1
    <3> QED BY <3>2, <3>3
  <2>8. Logged'
    BY <1>1, <2>1, NothingLogged
  <2>9. OwnLog'
    <3>1. e[1] = "preload" \/ e[1] = u.name
      BY <1>1, <1>2 DEF Logged
    <3>2. \A n \in Mappings : \A x \in table'[n] : x \in table[n] \/ (x = e /\ n = m)
      BY <1>2, <2>2
    <3> QED BY <1>1, <3>1, <3>2 DEF OwnLog
  <2>10. Repeatable'
    <3>1. own' = own /\ resets' = resets /\ failed' = failed
      BY <1>3, <2>1 DEF config
    <3>2. SUFFICES ASSUME own, resets PROVE NewOnly' /\ Clean' /\ StillToFill' /\ ~failed
      BY <3>1 DEF Repeatable
    <3>3. ~failed /\ NewOnly /\ StillToFill
      BY <1>1, <3>2 DEF Repeatable
    <3>4. NewOnly'
      BY <2>1, <3>3, NothingLogged
    <3>5. Clean'
      BY <1>3, <2>1 DEF Clean, Preloading
    <3>6. StillToFill'
      <4> SUFFICES ASSUME NEW s \in Sources, server[s] # "open", NEW i \in 1..Len(LogOf(s)), i > filled'[s]
                   PROVE  LogOf(s)[i] \notin table'[s.mapping]
        BY <2>1, <2>6 DEF StillToFill
      <4>1. i > filled[s] /\ (s = u => i # k)
        <5>1. i \in Nat
          BY <1>1, Logs
        <5> QED BY <1>2, <1>5, <5>1
      <4>2. LogOf(s)[i] \notin table[s.mapping]
        BY <1>3, <3>3, <4>1 DEF StillToFill
      <4>3. s.mapping = m => LogOf(s)[i] # e
        <5>1. CASE s = u
          BY <1>2, <3>3, <4>1, <5>1 DEF NewOnly
        <5>2. CASE s # u
          BY <1>1, <1>2, <3>3, <5>2, LogsApart
        <5> QED BY <5>1, <5>2
      <4> QED BY <2>2, <2>6, <4>2, <4>3
    <3> QED BY <3>3, <3>4, <3>5, <3>6
  <2> QED BY <2>3, <2>4, <2>5, <2>7, <2>8, <2>9, <2>10 DEF IInv
<1> QED BY <1>7, <1>8

LEMMA InsertInv == ASSUME IInv, Apart, NEW u \in Sources, NEW e \in Entries(u), Insert(u, e) PROVE IInv'
<1> DEFINE m == u.mapping
<1>1. Typed /\ Served /\ Loaded /\ FilledIn /\ Logged /\ OwnLog /\ Repeatable
  BY DEF IInv
<1>2. e \in Entry /\ e[1] \in {"preload", u.name} /\ (e[1] = "preload" => e = <<"preload", 1>>)
  BY LaunchAssumption DEF LaunchAssumption, Entries, Entry
<1>3. /\ server[u] = "open" /\ Started
      /\ UNCHANGED <<config, phase, at, step, done, server, filled, failed>>
      /\ table' = [table EXCEPT ![m] = @ \cup {e}]
      /\ own => e \notin ToSet(log[Key(u)]) /\ e \notin table[m]
  BY <1>1 DEF Insert, Served
<1>4. /\ m \in Mappings
      /\ \A n \in Mappings : table[n] \subseteq table'[n] /\ (n # m => table'[n] = table[n])
      /\ table'[m] = table[m] \cup {e}
  BY <1>1, <1>3, Constants DEF Typed
\* The log grows or stays as it is.
<1>5. \A s \in Sources :
        /\ LogOf(s)' \in Seq(Entry) /\ Len(LogOf(s)') \in Nat /\ Len(LogOf(s)) \in Nat
        /\ Len(LogOf(s)) <= Len(LogOf(s)')
        /\ \A i \in 1..Len(LogOf(s)) : LogOf(s)'[i] = LogOf(s)[i]
        /\ \A i \in 1..Len(LogOf(s)') : i \in 1..Len(LogOf(s)) \/ (s = u /\ i = Len(LogOf(u)) + 1 /\ LogOf(s)'[i] = e)
  <2> SUFFICES ASSUME NEW s \in Sources
               PROVE  /\ LogOf(s)' \in Seq(Entry) /\ Len(LogOf(s)') \in Nat /\ Len(LogOf(s)) \in Nat
                      /\ Len(LogOf(s)) <= Len(LogOf(s)')
                      /\ \A i \in 1..Len(LogOf(s)) : LogOf(s)'[i] = LogOf(s)[i]
                      /\ \A i \in 1..Len(LogOf(s)') :
                           i \in 1..Len(LogOf(s)) \/ (s = u /\ i = Len(LogOf(u)) + 1 /\ LogOf(s)'[i] = e)
    OBVIOUS
  <2>1. LogOf(s) \in Seq(Entry)
    BY <1>1, Logs
  <2>2. CASE LogOf(s)' = LogOf(s)
    BY <2>1, <2>2
  <2>3. CASE LogOf(s)' # LogOf(s)
    <3>1. log' = [log EXCEPT ![Key(u)] = Append(@, e)]
      BY <2>3 DEF Insert, LogOf
    <3>2. s = u
      BY <1>1, <2>3, <3>1, Constants DEF Typed, Apart, LogOf
    <3>3. LogOf(s)' = Append(LogOf(s), e)
      BY <1>1, <3>1, <3>2, Constants DEF Typed, LogOf
    <3> QED BY <1>2, <2>1, <3>2, <3>3
  <2> QED BY <2>2, <2>3
<1>6. Typed'
  <2>1. table' \in [Mappings -> SUBSET Entry]
    BY <1>1, <1>2, <1>3, <1>4 DEF Typed
  <2>2. log' \in [Keys -> Seq(Entry)]
    <3>1. Key(u) \in Keys /\ log \in [Keys -> Seq(Entry)]
      BY <1>1, Constants DEF Typed
    <3>2. log' = log \/ log' = [log EXCEPT ![Key(u)] = Append(@, e)]
      BY DEF Insert
    <3>3. Append(log[Key(u)], e) \in Seq(Entry)
      BY <1>2, <3>1
    <3> QED BY <3>1, <3>2, <3>3
  <2>3. resets' \in BOOLEAN /\ reading' \in BOOLEAN /\ own' \in BOOLEAN /\ failed' \in BOOLEAN
    BY <1>1, <1>3 DEF Typed, config
  <2> QED BY <1>1, <1>3, <2>1, <2>2, <2>3 DEF Typed
<1>7. Served'
  BY <1>1, <1>3 DEF Served, Started, AllOpen
<1>8. Loaded'
  BY <1>1, <1>3, <1>4 DEF Loaded, SetUp, Started, Preloading
<1>9. FilledIn'
  <2> SUFFICES ASSUME reading, NEW s \in Sources
               PROVE  /\ filled[s] <= Len(LogOf(s)')
                      /\ \A i \in 1..Len(LogOf(s)') :
                           i <= filled[s] \/ server[s] = "open" => LogOf(s)'[i] \in table'[s.mapping]
    BY <1>3 DEF FilledIn, config
  <2>1. /\ filled[s] <= Len(LogOf(s)) /\ filled[s] \in Nat /\ s.mapping \in Mappings
        /\ \A i \in 1..Len(LogOf(s)) : i <= filled[s] \/ server[s] = "open" => LogOf(s)[i] \in table[s.mapping]
    BY <1>1, <1>3, Constants DEF FilledIn, Started, Typed
  <2>2. filled[s] <= Len(LogOf(s)')
    BY <1>5, <2>1
  <2>3. ASSUME NEW i \in 1..Len(LogOf(s)'), i <= filled[s] \/ server[s] = "open"
        PROVE  LogOf(s)'[i] \in table'[s.mapping]
    <3>1. CASE i \in 1..Len(LogOf(s))
      BY <1>4, <1>5, <2>1, <2>3, <3>1
    <3>2. CASE s = u /\ LogOf(s)'[i] = e
      BY <1>4, <3>2
    <3> QED BY <1>5, <3>1, <3>2
  <2> QED BY <2>2, <2>3
<1>10. Logged'
  BY <1>1, <1>2, <1>5 DEF Logged
<1>11. OwnLog'
  <2>1. \A n \in Mappings : \A x \in table'[n] : x \in table[n] \/ (x = e /\ n = m)
    BY <1>4
  <2> QED BY <1>1, <1>2, <2>1 DEF OwnLog
<1>12. Repeatable'
  <2>1. own' = own /\ resets' = resets /\ failed' = failed
    BY <1>3 DEF config
  <2>2. SUFFICES ASSUME own, resets PROVE NewOnly' /\ Clean' /\ StillToFill' /\ ~failed
    BY <2>1 DEF Repeatable
  <2>3. ~failed /\ NewOnly /\ StillToFill
    BY <1>1, <2>2 DEF Repeatable
  <2>4. \A i \in 1..Len(LogOf(u)) : LogOf(u)[i] # e
    <3>1. e \notin ToSet(LogOf(u)) /\ LogOf(u) \in Seq(Entry)
      BY <1>1, <1>3, <2>2, Logs DEF LogOf
    <3> QED BY <3>1 DEF ToSet
  <2>5. e \notin Preloaded(Preloads[m])
    BY <1>1, <1>3, <1>4, <2>2 DEF Loaded, SetUp
  <2>6. NewOnly'
    <3> SUFFICES ASSUME NEW s \in Sources, NEW i \in 1..Len(LogOf(s)')
                 PROVE  /\ \A j \in 1..Len(LogOf(s)') : LogOf(s)'[i] = LogOf(s)'[j] => i = j
                        /\ LogOf(s)'[i] \notin Preloaded(Preloads[s.mapping])
                        /\ LogOf(s)'[i][1] = "preload" => LogOf(s)'[i] = <<"preload", 1>>
      BY DEF NewOnly
    <3>1. CASE i \in 1..Len(LogOf(s))
      <4>1. LogOf(s)'[i] = LogOf(s)[i]
        BY <1>5, <3>1
      <4> QED BY <1>5, <2>3, <2>4, <3>1, <4>1 DEF NewOnly
    <3>2. CASE s = u /\ i = Len(LogOf(u)) + 1 /\ LogOf(s)'[i] = e
      BY <1>2, <1>5, <2>4, <2>5, <3>2
    <3> QED BY <1>5, <3>1, <3>2
  <2>7. Clean'
    BY <1>3 DEF Clean, Preloading, Started
  <2>8. StillToFill'
    <3> SUFFICES ASSUME phase = "starting", reading, NEW s \in Sources, server[s] # "open",
                        NEW i \in 1..Len(LogOf(s)'), i > filled[s]
                 PROVE  LogOf(s)'[i] \notin table'[s.mapping]
      BY <1>3 DEF StillToFill, config
    <3>1. s # u /\ s.mapping \in Mappings
      BY <1>3, Constants
    <3>2. i \in 1..Len(LogOf(s)) /\ LogOf(s)'[i] = LogOf(s)[i]
      BY <1>5, <3>1
    <3>3. LogOf(s)[i] \notin table[s.mapping]
      BY <2>3, <3>2 DEF StillToFill
    <3>4. s.mapping = m => LogOf(s)[i] # e
      <4> SUFFICES ASSUME s.mapping = m, LogOf(s)[i] = e PROVE FALSE
        OBVIOUS
      <4>1. e = <<"preload", 1>>
        BY <1>1, <1>2, <3>1, <3>2, LaunchAssumption DEF Logged, Apart, LaunchAssumption
      <4>2. Preloads[m] \in Nat /\ Preloads[m] > 0
        BY <1>4, <3>1, Constants DEF Apart
      <4>3. <<"preload", 1>> \in Preloaded(Preloads[m])
        BY <4>2 DEF Preloaded
      <4> QED BY <2>5, <4>1, <4>3
    <3> QED BY <1>4, <3>1, <3>2, <3>3, <3>4
  <2> QED BY <2>3, <2>6, <2>7, <2>8
<1> QED BY <1>6, <1>7, <1>8, <1>9, <1>10, <1>11, <1>12 DEF IInv

\* The invariant holds of every configuration that keeps its sources apart.
THEOREM AlwaysInductive == Apart => (Spec => []IInv)
<1> SUFFICES ASSUME Apart PROVE Spec => []IInv
  OBVIOUS
<1>1. IInv /\ [Next]_vars => IInv'
  <2> SUFFICES ASSUME IInv, [Next]_vars PROVE IInv'
    OBVIOUS
  <2>1. CASE Start
    BY <2>1, StartInv
  <2>2. CASE InitTarget
    BY <2>2, InitTargetInv
  <2>3. CASE CreateServers
    BY <2>3, CreateServersInv
  <2>4. CASE Preload
    BY <2>4, PreloadInv
  <2>5. CASE NextMapping
    BY <2>5, NextMappingInv
  <2>6. CASE Ready
    BY <2>6, ReadyInv
  <2>7. CASE \E s \in Sources : Fill(s) \/ Open(s)
    BY <2>7, FillInv, OpenInv
  <2>8. CASE Stop
    BY <2>8, StopInv
  <2>9. CASE \E s \in Sources : \E e \in Entries(s) : Insert(s, e)
    BY <2>9, InsertInv
  <2>10. CASE UNCHANGED vars
    <3>1. UNCHANGED log
      BY <2>10 DEF vars
    <3>2. Logged' /\ (NewOnly => NewOnly')
      BY <3>1, NothingLogged DEF IInv
    <3>3. \A s \in Sources : LogOf(s)' = LogOf(s)
      BY <3>1, NothingLogged
    <3>4. Typed'
      BY <2>10 DEF vars, config, IInv, Typed
    <3>5. Served'
      BY <2>10 DEF vars, config, IInv, Served, Started, AllOpen
    <3>6. Loaded'
      BY <2>10 DEF vars, config, IInv, Loaded, SetUp, Started, Preloading
    <3>7. FilledIn'
      BY <2>10, <3>3 DEF vars, config, IInv, FilledIn, Started
    <3>8. OwnLog'
      BY <2>10 DEF vars, config, IInv, OwnLog
    <3>9. Repeatable'
      <4>1. (Clean => Clean') /\ (StillToFill => StillToFill')
        BY <2>10, <3>3 DEF vars, config, Clean, Preloading, StillToFill
      <4> QED BY <2>10, <3>2, <4>1 DEF vars, config, IInv, Repeatable
    <3> QED BY <3>2, <3>4, <3>5, <3>6, <3>7, <3>8, <3>9 DEF IInv
  <2> QED
    BY <2>1, <2>2, <2>3, <2>4, <2>5, <2>6, <2>7, <2>8, <2>9, <2>10 DEF Next, Launching
<1> QED BY <1>1, InitInv, PTL DEF Spec

\* Whatever mappings, sources and preload entries the configuration has, and
\* whenever the process is stopped: only complete targets are served, each has
\* the entries of its own sources, and a start fails only if targets are not
\* reset or a controller inserts what is there (start_servers_by_proxy_config,
\* fill_from_redis).
THEOREM AlwaysSound == Apart => (Spec => []SoundStart)
<1> SUFFICES ASSUME Apart PROVE Spec => []SoundStart
  OBVIOUS
<1>1. IInv => SoundStart
  <2> SUFFICES ASSUME IInv PROVE SoundStart
    OBVIOUS
  <2>1. Typed /\ Served /\ Loaded /\ FilledIn /\ OwnLog /\ Repeatable
    BY DEF IInv
  <2>2. ASSUME NEW s \in Sources, server[s] = "open"
        PROVE  /\ \A n \in 1..Preloads[s.mapping] : <<"preload", n>> \in table[s.mapping]
               /\ reading => ToSet(log[Key(s)]) \subseteq table[s.mapping]
    <3>1. Started /\ s.mapping \in Mappings
      BY <2>1, <2>2, Constants DEF Served
    <3>2. Preloaded(Preloads[s.mapping]) \subseteq table[s.mapping]
      BY <2>1, <3>1 DEF Loaded, SetUp
    <3>3. reading => ToSet(LogOf(s)) \subseteq table[s.mapping]
      BY <2>1, <2>2, <3>1, Logs DEF FilledIn, ToSet
    <3> QED BY <3>2, <3>3 DEF Preloaded, LogOf
  <2>3. phase = "ready" => \A s \in Sources : server[s] = "open"
    BY <2>1 DEF Served, AllOpen
  <2>4. StartsAgain
    BY <2>1 DEF Typed, Repeatable, StartsAgain
  <2> QED BY <2>1, <2>2, <2>3, <2>4 DEF SoundStart, ServedComplete
<1>2. Spec => []IInv
  BY AlwaysInductive
<1> QED BY <1>1, <1>2, PTL

----------------------------------------------------------------------------
\* The way of a digest.

SentDigest == [kind : {"digest"}, n : Nat, of : Servicers, to : SUBSET Servicers, by : Switches]
Message == {D!Arbitration} \cup SentDigest
Queued == [from : Switches, msg : Message]

StreamsTyped ==
  /\ conn \in [Switches -> {"new", "arbitrating", "forwarding"}] /\ stream \in [Switches -> Seq(Message)]
  /\ subs \in [Switches -> Seq(Servicers)] /\ members \in [Servicers -> SUBSET Switches]
  /\ queue \in [Servicers -> Seq(Queued)] /\ chan \in [Controllers -> {"closed", "open", "dead"}]
  /\ inbox \in [Controllers -> Seq(SentDigest)] /\ got \in [Controllers -> Seq(SentDigest)]
  /\ worker \subseteq Controllers /\ sent \in Nat

IsDigest(m) == m.kind = "digest"
Waiting(s) == D!Messages(queue[s])

\* Of two digests of one switch, x has been sent first.
Ahead(x, y) == IsDigest(x) /\ IsDigest(y) /\ x.by = y.by => x.n < y.n
InLine(seq) == \A i, j \in 1..Len(seq) : i < j => Ahead(seq[i], seq[j])
AllAhead(X, Y) == \A x \in X, y \in Y : Ahead(x, y)

\* The digests of one switch are in the order of their numbers all the way.
Ordered ==
  /\ \A t \in Switches : InLine(stream[t])
  /\ \A s \in Servicers : InLine(Waiting(s)) /\ \A t \in Switches : AllAhead(ToSet(Waiting(s)), ToSet(stream[t]))
  /\ \A c \in Controllers :
       /\ InLine(D!Seen(c)) /\ AllAhead(ToSet(D!Seen(c)), ToSet(Waiting(ServicerOf[c])))
       /\ \A t \in Switches : AllAhead(ToSet(D!Seen(c)), ToSet(stream[t]))

OfItsSwitch == \A t \in Switches : \A m \in ToSet(stream[t]) : IsDigest(m) => m.by = t

\* A number is that of one digest.
Everywhere ==
  (UNION {ToSet(stream[t]) : t \in Switches}) \cup (UNION {ToSet(Waiting(s)) : s \in Servicers})
    \cup (UNION {ToSet(D!Seen(c)) : c \in Controllers})
Numbered ==
  /\ \A x \in Everywhere : IsDigest(x) => x.n <= sent
  /\ \A x, y \in Everywhere : IsDigest(x) /\ IsDigest(y) /\ x.n = y.n => x.by = y.by

\* What one channel of a servicer took no other one has.
TakenOnce ==
  \A c, d \in Controllers : c # d /\ ServicerOf[c] = ServicerOf[d] =>
    \A x \in ToSet(D!Seen(c)), y \in ToSet(D!Seen(d)) : x.n # y.n

OwnOnly == \A c \in Controllers : \A m \in ToSet(D!Seen(c)) : m.of = ServicerOf[c]

StreamsInv ==
  StreamsTyped /\ Ordered /\ OfItsSwitch /\ Numbered /\ TakenOnce /\ OwnOnly /\ D!SubscribedOnce

LEMMA AppendSet ==
  ASSUME NEW S, NEW q \in Seq(S), NEW m \in S
  PROVE  ToSet(Append(q, m)) = ToSet(q) \cup {m}
<1>1. /\ Len(q) \in Nat /\ DOMAIN q = 1..Len(q) /\ DOMAIN Append(q, m) = 1..(Len(q) + 1)
      /\ Append(q, m)[Len(q) + 1] = m /\ \A i \in 1..Len(q) : Append(q, m)[i] = q[i]
  OBVIOUS
<1>2. ToSet(Append(q, m)) \subseteq ToSet(q) \cup {m}
  BY <1>1 DEF ToSet
<1>3. ToSet(q) \cup {m} \subseteq ToSet(Append(q, m))
  BY <1>1 DEF ToSet
<1> QED BY <1>2, <1>3

LEMMA TailSet ==
  ASSUME NEW S, NEW q \in Seq(S), q # <<>>
  PROVE  ToSet(Tail(q)) \subseteq ToSet(q) /\ Head(q) \in ToSet(q)
<1>1. \A i \in 1..Len(Tail(q)) : Tail(q)[i] = q[i + 1] /\ i + 1 \in 1..Len(q)
  OBVIOUS
<1>2. 1 \in 1..Len(q) /\ Head(q) = q[1]
  OBVIOUS
<1> QED BY <1>1, <1>2 DEF ToSet

\* What comes in comes last; what is read stays where it is.
LEMMA SeenAppended ==
  ASSUME NEW S, NEW q \in Seq(S), NEW r \in Seq(S), NEW m \in S
  PROVE  q \o Append(r, m) = Append(q \o r, m)
<1> DEFINE a == q \o Append(r, m)
           b == Append(q \o r, m)
<1>1. a \in Seq(S) /\ b \in Seq(S) /\ Len(a) = Len(b) /\ Len(b) = Len(q) + Len(r) + 1
  OBVIOUS
<1>2. ASSUME NEW i \in 1..Len(a) PROVE a[i] = b[i]
  <2>1. Len(q) \in Nat /\ Len(r) \in Nat /\ i \in Nat /\ Len(q \o r) = Len(q) + Len(r)
    OBVIOUS
  <2>2. CASE i <= Len(q)
    BY <2>1, <2>2
  <2>3. CASE i > Len(q) /\ i <= Len(q) + Len(r)
    BY <1>1, <2>1, <2>3
  <2>4. CASE i = Len(q) + Len(r) + 1
    BY <1>1, <2>1, <2>4
  <2> QED BY <1>1, <2>1, <2>2, <2>3, <2>4
<1> HIDE DEF a, b
<1>3. a = b
  BY <1>1, <1>2, SeqEqual
<1> QED BY <1>3 DEF a, b

LEMMA SeenRead ==
  ASSUME NEW S, NEW q \in Seq(S), NEW r \in Seq(S), r # <<>>
  PROVE  Append(q, Head(r)) \o Tail(r) = q \o r
<1> DEFINE a == Append(q, Head(r)) \o Tail(r)
           b == q \o r
<1>1. a \in Seq(S) /\ b \in Seq(S) /\ Len(a) = Len(b) /\ Len(b) = Len(q) + Len(r)
  OBVIOUS
<1>2. ASSUME NEW i \in 1..Len(a) PROVE a[i] = b[i]
  <2>1. Len(q) \in Nat /\ Len(r) \in Nat /\ i \in Nat /\ Len(r) > 0
    OBVIOUS
  <2>2. CASE i <= Len(q)
    BY <2>1, <2>2
  <2>3. CASE i = Len(q) + 1
    BY <2>1, <2>3
  <2>4. CASE i > Len(q) + 1
    BY <1>1, <2>1, <2>4
  <2> QED BY <2>1, <2>2, <2>3, <2>4
<1> HIDE DEF a, b
<1>3. a = b
  BY <1>1, <1>2, SeqEqual
<1> QED BY <1>3 DEF a, b

LEMMA AppendInLine ==
  ASSUME NEW S, NEW q \in Seq(S), NEW m \in S, InLine(q), AllAhead(ToSet(q), {m})
  PROVE  InLine(Append(q, m))
<1> SUFFICES ASSUME NEW i \in 1..Len(Append(q, m)), NEW j \in 1..Len(Append(q, m)), i < j
             PROVE  Ahead(Append(q, m)[i], Append(q, m)[j])
  BY DEF InLine
<1>1. i \in 1..Len(q) /\ Append(q, m)[i] = q[i] /\ q[i] \in ToSet(q)
  BY DEF ToSet
<1>2. CASE j \in 1..Len(q)
  BY <1>1, <1>2 DEF InLine
<1>3. CASE j = Len(q) + 1
  BY <1>1, <1>3 DEF AllAhead
<1> QED BY <1>2, <1>3

LEMMA TailInLine ==
  ASSUME NEW S, NEW q \in Seq(S), q # <<>>, InLine(q)
  PROVE  InLine(Tail(q)) /\ AllAhead({Head(q)}, ToSet(Tail(q)))
<1>1. \A i \in 1..Len(Tail(q)) : Tail(q)[i] = q[i + 1] /\ i + 1 \in 1..Len(q)
  OBVIOUS
<1>2. InLine(Tail(q))
  BY <1>1 DEF InLine
<1>3. AllAhead({Head(q)}, ToSet(Tail(q)))
  BY <1>1 DEF InLine, AllAhead, ToSet
<1> QED BY <1>2, <1>3

LEMMA WaitingSeq ==
  ASSUME StreamsTyped, NEW s \in Servicers
  PROVE  Waiting(s) \in Seq(Message) /\ Len(Waiting(s)) = Len(queue[s])
<1>1. queue[s] \in Seq(Queued)
  BY DEF StreamsTyped
<1>2. \A i \in 1..Len(queue[s]) : queue[s][i].msg \in Message
  <2>1. \A i \in 1..Len(queue[s]) : queue[s][i] \in Queued
    BY <1>1
  <2> QED BY <2>1 DEF Queued
<1> QED BY <1>1, <1>2 DEF Waiting, D!Messages

LEMMA SeenSeq ==
  ASSUME StreamsTyped, NEW c \in Controllers
  PROVE  D!Seen(c) \in Seq(SentDigest)
BY DEF StreamsTyped, D!Seen

\* What is somewhere is a message.
LEMMA EverywhereTyped ==
  ASSUME StreamsTyped
  PROVE  \A m \in Everywhere : m \in Message /\ (IsDigest(m) => m.n \in Nat)
<1>1. ASSUME NEW S, NEW q \in Seq(S) PROVE ToSet(q) \subseteq S
  BY <1>1 DEF ToSet
<1>2. \A t \in Switches : ToSet(stream[t]) \subseteq Message
  BY <1>1 DEF StreamsTyped
<1>3. \A s \in Servicers : ToSet(Waiting(s)) \subseteq Message
  BY <1>1, WaitingSeq
<1>4. \A c \in Controllers : ToSet(D!Seen(c)) \subseteq Message
  BY <1>1, SeenSeq DEF Message
<1>5. Everywhere \subseteq Message
  BY <1>2, <1>3, <1>4 DEF Everywhere
<1> QED BY <1>5 DEF Message, SentDigest, IsDigest, D!Arbitration

LEMMA AppendWaiting ==
  ASSUME StreamsTyped, NEW s \in Servicers, NEW item \in Queued, queue'[s] = Append(queue[s], item)
  PROVE  Waiting(s)' = Append(Waiting(s), item.msg)
BY DEF StreamsTyped, Waiting, D!Messages

LEMMA TailWaiting ==
  ASSUME StreamsTyped, NEW s \in Servicers, queue[s] # <<>>, queue'[s] = Tail(queue[s])
  PROVE  /\ Waiting(s)' = Tail(Waiting(s)) /\ Waiting(s) # <<>> /\ Head(Waiting(s)) = Head(queue[s]).msg
         /\ Head(queue[s]) \in Queued
BY DEF StreamsTyped, Waiting, D!Messages

\* Steps after which everything is in line where it was.
LEMMA StillInv ==
  ASSUME StreamsInv, StreamsTyped', UNCHANGED <<stream, queue, inbox, got, sent>>, D!SubscribedOnce'
  PROVE  StreamsInv'
BY DEF StreamsInv, Ordered, OfItsSwitch, Numbered, Everywhere, TakenOnce, OwnOnly, Waiting, D!Messages, D!Seen

\* Steps that only change a stream, and add at most a new digest of the switch.
LEMMA StreamInv ==
  ASSUME StreamsInv, StreamsTyped', UNCHANGED <<subs, queue, inbox, got>>, sent <= sent',
         NEW t \in Switches, \A u \in Switches : u # t => stream'[u] = stream[u],
         InLine(stream'[t]),
         \A m \in ToSet(stream'[t]) : m \in ToSet(stream[t]) \/ (IsDigest(m) => m.n = sent' /\ m.by = t /\ sent < sent')
  PROVE  StreamsInv'
<1>1. \A s \in Servicers : Waiting(s)' = Waiting(s)
  BY DEF Waiting, D!Messages
<1>2. \A c \in Controllers : D!Seen(c)' = D!Seen(c)
  BY DEF D!Seen
<1>3. \A u \in Switches : \A m \in ToSet(stream'[u]) :
        m \in ToSet(stream[u]) \/ (u = t /\ (IsDigest(m) => m.n = sent' /\ m.by = t /\ sent < sent'))
  OBVIOUS
<1>4. \A x \in Everywhere' :
        x \in Everywhere \/ (IsDigest(x) => x.n = sent' /\ x.by = t /\ sent < sent')
  BY <1>1, <1>2, <1>3 DEF Everywhere
<1>5. sent \in Nat /\ sent' \in Nat /\ \A x \in Everywhere : IsDigest(x) => x.n \in Nat /\ x.n <= sent
  BY EverywhereTyped DEF StreamsInv, StreamsTyped, Numbered
<1>6. Numbered'
  BY <1>4, <1>5 DEF StreamsInv, Numbered
<1>7. OfItsSwitch'
  BY <1>3 DEF StreamsInv, OfItsSwitch
<1>8. Ordered'
  <2>1. ASSUME NEW X, X \subseteq Everywhere, NEW u \in Switches, AllAhead(X, ToSet(stream[u]))
        PROVE  AllAhead(X, ToSet(stream'[u]))
    BY <1>3, <1>5, <2>1 DEF AllAhead, Ahead
  <2>2. ASSUME NEW s \in Servicers PROVE ToSet(Waiting(s)) \subseteq Everywhere
    BY DEF Everywhere
  <2>3. ASSUME NEW c \in Controllers PROVE ToSet(D!Seen(c)) \subseteq Everywhere
    BY DEF Everywhere
  <2>4. \A u \in Switches : InLine(stream'[u])
    BY DEF StreamsInv, Ordered
  <2>5. \A s \in Servicers : InLine(Waiting(s)') /\ \A u \in Switches : AllAhead(ToSet(Waiting(s)'), ToSet(stream'[u]))
    BY <1>1, <2>1, <2>2 DEF StreamsInv, Ordered
  <2>6. \A c \in Controllers :
          /\ InLine(D!Seen(c)') /\ AllAhead(ToSet(D!Seen(c)'), ToSet(Waiting(ServicerOf[c])'))
          /\ \A u \in Switches : AllAhead(ToSet(D!Seen(c)'), ToSet(stream'[u]))
    BY <1>1, <1>2, <2>1, <2>3, StreamsAssumption DEF StreamsInv, Ordered
  <2> QED BY <2>4, <2>5, <2>6 DEF Ordered
<1>9. TakenOnce' /\ OwnOnly' /\ D!SubscribedOnce'
  BY <1>2 DEF StreamsInv, TakenOnce, OwnOnly, D!SubscribedOnce
<1> QED BY <1>6, <1>7, <1>8, <1>9 DEF StreamsInv

LEMMA ArbitrationInv == ASSUME StreamsInv, NEW t \in Switches, D!MasterArbitrationUpdate(t) PROVE StreamsInv'
<1>1. StreamsTyped /\ Ordered
  BY DEF StreamsInv
<1>2. /\ stream[t] \in Seq(Message) /\ stream'[t] = Append(stream[t], D!Arbitration)
      /\ \A u \in Switches : u # t => stream'[u] = stream[u]
      /\ UNCHANGED <<subs, members, queue, chan, inbox, worker, got, sent>>
  BY <1>1 DEF D!MasterArbitrationUpdate, D!servicerVars, D!controllerVars, StreamsTyped
<1>3. D!Arbitration \in Message /\ ~IsDigest(D!Arbitration)
  BY DEF Message, IsDigest, D!Arbitration
<1>4. StreamsTyped'
  BY <1>1, <1>2, <1>3 DEF D!MasterArbitrationUpdate, StreamsTyped
<1>5. InLine(stream'[t])
  <2>1. AllAhead(ToSet(stream[t]), {D!Arbitration})
    BY <1>3 DEF AllAhead, Ahead
  <2> QED BY <1>1, <1>2, <1>3, <2>1, AppendInLine DEF Ordered
<1>6. \A m \in ToSet(stream'[t]) : m \in ToSet(stream[t]) \/ ~IsDigest(m)
  BY <1>2, <1>3, AppendSet
<1>7. sent <= sent'
  BY <1>1, <1>2 DEF StreamsTyped
<1> QED BY <1>2, <1>4, <1>5, <1>6, <1>7, StreamInv

LEMMA InitConnectionInv == ASSUME StreamsInv, NEW t \in Switches, D!InitConnection(t) PROVE StreamsInv'
<1>1. StreamsTyped /\ Ordered
  BY DEF StreamsInv
<1>2. /\ stream[t] \in Seq(Message) /\ stream[t] # <<>> /\ stream'[t] = Tail(stream[t])
      /\ \A u \in Switches : u # t => stream'[u] = stream[u]
      /\ UNCHANGED <<subs, members, queue, chan, inbox, worker, got, sent>>
  BY <1>1 DEF D!InitConnection, D!servicerVars, D!controllerVars, StreamsTyped
<1>3. StreamsTyped'
  BY <1>1, <1>2 DEF D!InitConnection, StreamsTyped
<1>4. InLine(stream'[t])
  BY <1>1, <1>2, TailInLine DEF Ordered
<1>5. \A m \in ToSet(stream'[t]) : m \in ToSet(stream[t])
  BY <1>2, TailSet
<1>6. sent <= sent'
  BY <1>1, <1>2 DEF StreamsTyped
<1> QED BY <1>2, <1>3, <1>4, <1>5, <1>6, StreamInv

LEMMA SwitchSendsInv == ASSUME StreamsInv, NEW t \in Switches, D!SwitchSends(t) PROVE StreamsInv'
<1>1. StreamsTyped /\ Ordered /\ Numbered
  BY DEF StreamsInv
<1>2. PICK m \in {D!Arbitration} \cup
              [kind : {"digest"}, n : {sent'}, of : Servicers, to : {D!ToSet(subs[t])}, by : {t}] :
        stream' = [stream EXCEPT ![t] = Append(@, m)]
  BY DEF D!SwitchSends
<1>3. sent \in Nat /\ sent' = sent + 1 /\ UNCHANGED <<conn, subs, members, queue, chan, inbox, worker, got>>
  BY <1>1 DEF D!SwitchSends, D!servicerVars, D!controllerVars, StreamsTyped
<1>4. m \in Message /\ (IsDigest(m) => m.n = sent' /\ m.by = t)
  <2>1. D!ToSet(subs[t]) \subseteq Servicers
    BY <1>1 DEF D!ToSet, StreamsTyped
  <2> QED BY <1>2, <1>3, <2>1 DEF Message, SentDigest, IsDigest, D!Arbitration
<1>5. /\ stream[t] \in Seq(Message) /\ stream'[t] = Append(stream[t], m)
      /\ \A u \in Switches : u # t => stream'[u] = stream[u]
  BY <1>1, <1>2 DEF StreamsTyped
<1>6. StreamsTyped'
  BY <1>1, <1>2, <1>3, <1>4, <1>5 DEF StreamsTyped
<1>7. InLine(stream'[t])
  <2>1. \A x \in ToSet(stream[t]) : IsDigest(x) => x.n \in Nat /\ x.n <= sent
    BY <1>1, EverywhereTyped DEF Everywhere, Numbered
  <2>2. AllAhead(ToSet(stream[t]), {m})
    BY <1>3, <1>4, <2>1 DEF AllAhead, Ahead
  <2> QED BY <1>1, <1>4, <1>5, <2>2, AppendInLine DEF Ordered
<1>8. \A x \in ToSet(stream'[t]) : x \in ToSet(stream[t]) \/ (IsDigest(x) => x.n = sent' /\ x.by = t /\ sent < sent')
  BY <1>3, <1>4, <1>5, AppendSet
<1>9. sent <= sent'
  BY <1>3
<1> QED BY <1>3, <1>5, <1>6, <1>7, <1>8, <1>9, StreamInv

LEMMA AddTargetInv == ASSUME StreamsInv, NEW s \in Servicers, NEW t \in Switches, D!AddTargetSwitch(s, t) PROVE StreamsInv'
<1>1. StreamsTyped /\ D!SubscribedOnce
  BY DEF StreamsInv
<1>2. /\ UNCHANGED <<conn, stream, queue, chan, inbox, worker, got, sent>>
      /\ s \notin D!ToSet(subs[t]) /\ subs' = [subs EXCEPT ![t] = Append(@, s)]
      /\ members' = [members EXCEPT ![s] = @ \cup {t}]
  BY DEF D!AddTargetSwitch, D!connVars, D!controllerVars
<1>3. StreamsTyped'
  BY <1>1, <1>2 DEF StreamsTyped
<1>4. D!SubscribedOnce'
  <2> SUFFICES ASSUME NEW u \in Switches PROVE D!IsInjective(subs'[u])
    BY DEF D!SubscribedOnce
  <2>1. subs[u] \in Seq(Servicers) /\ D!IsInjective(subs[u])
    BY <1>1 DEF StreamsTyped, D!SubscribedOnce
  <2>2. CASE u = t
    <3>1. subs'[t] = Append(subs[t], s) /\ \A i \in 1..Len(subs[t]) : subs[t][i] # s
      BY <1>1, <1>2, <2>1, <2>2 DEF StreamsTyped, D!ToSet
    <3> QED BY <2>1, <2>2, <3>1 DEF D!IsInjective
  <2>3. CASE u # t
    BY <1>1, <1>2, <2>1, <2>3 DEF StreamsTyped
  <2> QED BY <2>2, <2>3
<1> QED BY <1>2, <1>3, <1>4, StillInv

LEMMA QuietInv ==
  ASSUME StreamsInv, UNCHANGED <<conn, stream, subs, queue, inbox, got, sent>>,
         members' \in [Servicers -> SUBSET Switches],
         chan' \in [Controllers -> {"closed", "open", "dead"}], worker' \subseteq Controllers
  PROVE  StreamsInv'
<1>1. StreamsTyped'
  BY DEF StreamsInv, StreamsTyped
<1>2. D!SubscribedOnce'
  BY DEF StreamsInv, D!SubscribedOnce
<1> QED BY <1>1, <1>2, StillInv

LEMMA ForwardInv == ASSUME StreamsInv, NEW t \in Switches, D!Forward(t) PROVE StreamsInv'
<1> DEFINE m == Head(stream[t])
<1>1. StreamsTyped /\ Ordered /\ OfItsSwitch /\ Numbered
  BY DEF StreamsInv
<1>2. /\ stream[t] # <<>> /\ UNCHANGED <<conn, subs, members, chan, inbox, worker, got, sent>>
      /\ stream' = [stream EXCEPT ![t] = Tail(@)]
      /\ queue' = [s \in Servicers |->
           IF s \in D!ToSet(subs[t]) THEN Append(queue[s], [from |-> t, msg |-> m]) ELSE queue[s]]
  BY DEF D!Forward, D!controllerVars
<1>3. /\ stream[t] \in Seq(Message) /\ stream'[t] = Tail(stream[t]) /\ stream' \in [Switches -> Seq(Message)]
      /\ \A u \in Switches : u # t => stream'[u] = stream[u]
  BY <1>1, <1>2 DEF StreamsTyped
<1>4. /\ m \in ToSet(stream[t]) /\ m \in Message /\ [from |-> t, msg |-> m] \in Queued
      /\ \A u \in Switches : ToSet(stream'[u]) \subseteq ToSet(stream[u])
  BY <1>2, <1>3, TailSet DEF Queued
<1>5. StreamsTyped'
  BY <1>1, <1>2, <1>3, <1>4 DEF StreamsTyped
<1>6. ASSUME NEW s \in Servicers
      PROVE  /\ Waiting(s)' = Waiting(s) \/ Waiting(s)' = Append(Waiting(s), m)
             /\ ToSet(Waiting(s)') \subseteq ToSet(Waiting(s)) \cup {m}
  <2>1. queue'[s] = queue[s] \/ queue'[s] = Append(queue[s], [from |-> t, msg |-> m])
    BY <1>2
  <2>2. Waiting(s)' = Waiting(s) \/ Waiting(s)' = Append(Waiting(s), m)
    <3>1. CASE queue'[s] = queue[s]
      BY <3>1 DEF Waiting, D!Messages
    <3>2. CASE queue'[s] = Append(queue[s], [from |-> t, msg |-> m])
      BY <1>1, <1>4, <3>2, AppendWaiting
    <3> QED BY <2>1, <3>1, <3>2
  <2>3. ToSet(Append(Waiting(s), m)) = ToSet(Waiting(s)) \cup {m}
    <3>1. Waiting(s) \in Seq(Message)
      BY <1>1, WaitingSeq
    <3> QED BY <1>4, <3>1, AppendSet
  <2> QED BY <2>2, <2>3
<1>7. \A c \in Controllers : D!Seen(c)' = D!Seen(c)
  BY <1>2 DEF D!Seen
<1>8. Everywhere' \subseteq Everywhere
  BY <1>4, <1>6, <1>7 DEF Everywhere
<1>9. Numbered'
  BY <1>1, <1>2, <1>8 DEF Numbered
<1>10. OfItsSwitch'
  BY <1>1, <1>4 DEF OfItsSwitch
<1>11. Ordered'
  <2>1. \A u \in Switches : InLine(stream'[u])
    BY <1>1, <1>2, <1>3, TailInLine DEF Ordered
  <2>2. ASSUME NEW s \in Servicers PROVE InLine(Waiting(s)')
    <3>1. Waiting(s) \in Seq(Message) /\ InLine(Waiting(s)) /\ AllAhead(ToSet(Waiting(s)), {m})
      BY <1>1, <1>4, WaitingSeq DEF Ordered, AllAhead
    <3> QED BY <1>4, <1>6, <3>1, AppendInLine
  <2>3. ASSUME NEW u \in Switches PROVE AllAhead({m}, ToSet(stream'[u]))
    <3>1. CASE u = t
      BY <1>1, <1>2, <1>3, <3>1, TailInLine DEF Ordered
    <3>2. CASE u # t
      BY <1>1, <1>4, <3>2 DEF OfItsSwitch, AllAhead, Ahead
    <3> QED BY <3>1, <3>2
  <2>4. ASSUME NEW s \in Servicers, NEW u \in Switches PROVE AllAhead(ToSet(Waiting(s)'), ToSet(stream'[u]))
    <3>1. AllAhead(ToSet(Waiting(s)), ToSet(stream[u]))
      BY <1>1 DEF Ordered
    <3> QED BY <1>4, <1>6, <2>3, <3>1 DEF AllAhead
  <2>5. ASSUME NEW c \in Controllers
        PROVE  /\ InLine(D!Seen(c)') /\ AllAhead(ToSet(D!Seen(c)'), ToSet(Waiting(ServicerOf[c])'))
               /\ \A u \in Switches : AllAhead(ToSet(D!Seen(c)'), ToSet(stream'[u]))
    <3>1. ServicerOf[c] \in Servicers
      BY StreamsAssumption
    <3>2. /\ InLine(D!Seen(c)) /\ AllAhead(ToSet(D!Seen(c)), ToSet(Waiting(ServicerOf[c])))
          /\ \A u \in Switches : AllAhead(ToSet(D!Seen(c)), ToSet(stream[u]))
      BY <1>1 DEF Ordered
    <3> QED BY <1>4, <1>6, <1>7, <3>1, <3>2 DEF AllAhead
  <2> QED BY <2>1, <2>2, <2>4, <2>5 DEF Ordered
<1>12. TakenOnce' /\ OwnOnly' /\ D!SubscribedOnce'
  BY <1>2, <1>7 DEF StreamsInv, TakenOnce, OwnOnly, D!SubscribedOnce
<1> QED BY <1>5, <1>9, <1>10, <1>11, <1>12 DEF StreamsInv

LEMMA StreamChannelInv == ASSUME StreamsInv, NEW c \in Controllers, D!StreamChannel(c) PROVE StreamsInv'
<1> DEFINE s == ServicerOf[c]
           m == Head(queue[s]).msg
<1>1. StreamsTyped /\ Ordered /\ OfItsSwitch /\ Numbered /\ TakenOnce /\ OwnOnly
  BY DEF StreamsInv
<1>2. /\ s \in Servicers /\ queue[s] # <<>> /\ queue' = [queue EXCEPT ![s] = Tail(@)]
      /\ UNCHANGED <<conn, stream, subs, members, worker, got, sent>>
  BY StreamsAssumption DEF D!StreamChannel, D!connVars
<1>3. \/ chan' = [chan EXCEPT ![c] = "dead"] /\ inbox' = inbox
      \/ chan' = chan /\ inbox' = inbox
      \/ chan' = chan /\ inbox' = [inbox EXCEPT ![c] = Append(@, m)] /\ IsDigest(m) /\ m.of = s
  <2>1. CASE Head(queue[s]).from \notin members[s] \/ Head(queue[s]).msg.kind # "digest"
    BY <2>1 DEF D!StreamChannel
  <2>2. CASE ~(Head(queue[s]).from \notin members[s] \/ Head(queue[s]).msg.kind # "digest")
    <3>1. chan' = chan /\ inbox' = [inbox EXCEPT ![c] = IF D!IsMine(s, m) THEN Append(@, m) ELSE @]
      BY <2>2 DEF D!StreamChannel
    <3>2. inbox \in [Controllers -> Seq(SentDigest)]
      BY <1>1 DEF StreamsTyped
    <3>3. CASE D!IsMine(s, m)
      BY <3>1, <3>3 DEF D!IsMine, IsDigest
    <3>4. CASE ~D!IsMine(s, m)
      BY <3>1, <3>2, <3>4
    <3> QED BY <3>3, <3>4
  <2> QED BY <2>1, <2>2
<1>4. /\ queue'[s] = Tail(queue[s]) /\ queue' \in [Servicers -> Seq(Queued)]
      /\ \A r \in Servicers : r # s => queue'[r] = queue[r]
  BY <1>1, <1>2 DEF StreamsTyped
<1>5. /\ Waiting(s)' = Tail(Waiting(s)) /\ Waiting(s) # <<>> /\ Head(Waiting(s)) = m
      /\ m \in Message /\ \A r \in Servicers : r # s => Waiting(r)' = Waiting(r)
  <2>1. \A r \in Servicers : r # s => Waiting(r)' = Waiting(r)
    BY <1>4 DEF Waiting, D!Messages
  <2> QED BY <1>1, <1>2, <1>4, <2>1, TailWaiting DEF Queued
<1>6. m \in ToSet(Waiting(s)) /\ \A r \in Servicers : ToSet(Waiting(r)') \subseteq ToSet(Waiting(r))
  BY <1>1, <1>2, <1>5, WaitingSeq, TailSet
<1>7. m \in SentDigest \/ ~IsDigest(m)
  BY <1>5 DEF Message, IsDigest, D!Arbitration
<1>8. StreamsTyped'
  <2>1. inbox' \in [Controllers -> Seq(SentDigest)] /\ chan' \in [Controllers -> {"closed", "open", "dead"}]
    <3>1. inbox \in [Controllers -> Seq(SentDigest)] /\ chan \in [Controllers -> {"closed", "open", "dead"}]
      BY <1>1 DEF StreamsTyped
    <3>2. IsDigest(m) => Append(inbox[c], m) \in Seq(SentDigest)
      BY <1>7, <3>1
    <3> QED BY <1>3, <3>1, <3>2
  <2> QED BY <1>1, <1>2, <1>4, <2>1 DEF StreamsTyped
<1>9. /\ D!Seen(c)' = D!Seen(c) \/ (D!Seen(c)' = Append(D!Seen(c), m) /\ m \in SentDigest /\ IsDigest(m) /\ m.of = s)
      /\ \A d \in Controllers : d # c => D!Seen(d)' = D!Seen(d)
  <2>1. got \in [Controllers -> Seq(SentDigest)] /\ inbox \in [Controllers -> Seq(SentDigest)]
    BY <1>1 DEF StreamsTyped
  <2>2. CASE inbox' = inbox
    BY <1>2, <2>2 DEF D!Seen
  <2>3. CASE inbox' = [inbox EXCEPT ![c] = Append(@, m)] /\ IsDigest(m) /\ m.of = s
    <3>1. inbox'[c] = Append(inbox[c], m) /\ \A d \in Controllers : d # c => inbox'[d] = inbox[d]
      BY <2>1, <2>3
    <3>2. D!Seen(c)' = Append(D!Seen(c), m)
      <4>1. got[c] \in Seq(SentDigest) /\ inbox[c] \in Seq(SentDigest) /\ m \in SentDigest
        BY <1>7, <2>1, <2>3
      <4>2. \A q, r \in Seq(SentDigest), x \in SentDigest : q \o Append(r, x) = Append(q \o r, x)
        BY ONLY SeenAppended, SMT
      <4>3. got[c] \o Append(inbox[c], m) = Append(got[c] \o inbox[c], m)
        BY <4>1, <4>2, Zenon
      <4> QED BY <1>2, <3>1, <4>3 DEF D!Seen
    <3> QED BY <1>2, <1>7, <2>3, <3>1, <3>2 DEF D!Seen
  <2> QED BY <1>3, <2>2, <2>3
<1>10. /\ ToSet(D!Seen(c)') \subseteq ToSet(D!Seen(c)) \cup {m}
       /\ \A x \in ToSet(D!Seen(c)') : x \in ToSet(D!Seen(c)) \/ (x = m /\ IsDigest(m) /\ m.of = s)
  <2>1. m \in SentDigest => ToSet(Append(D!Seen(c), m)) = ToSet(D!Seen(c)) \cup {m}
    <3>1. D!Seen(c) \in Seq(SentDigest)
      BY <1>1, SeenSeq
    <3> QED BY <3>1, AppendSet
  <2> QED BY <1>9, <2>1
<1>11. Everywhere' \subseteq Everywhere
  <2>1. \A d \in Controllers : ToSet(D!Seen(d)') \subseteq ToSet(D!Seen(d)) \cup {m}
    BY <1>9, <1>10
  <2> QED BY <1>2, <1>6, <2>1 DEF Everywhere
<1>12. Numbered' /\ OfItsSwitch'
  BY <1>1, <1>2, <1>11 DEF Numbered, OfItsSwitch
<1>13. Ordered'
  <2>1. \A r \in Servicers : InLine(Waiting(r)')
    BY <1>1, <1>2, <1>5, WaitingSeq, TailInLine DEF Ordered
  <2>2. ASSUME NEW r \in Servicers, NEW u \in Switches PROVE AllAhead(ToSet(Waiting(r)'), ToSet(stream'[u]))
    BY <1>1, <1>2, <1>6 DEF Ordered, AllAhead
  <2>3. \A u \in Switches : InLine(stream'[u])
    BY <1>1, <1>2 DEF Ordered
  <2>4. ASSUME NEW d \in Controllers
        PROVE  /\ InLine(D!Seen(d)') /\ AllAhead(ToSet(D!Seen(d)'), ToSet(Waiting(ServicerOf[d])'))
               /\ \A u \in Switches : AllAhead(ToSet(D!Seen(d)'), ToSet(stream'[u]))
    <3>1. ServicerOf[d] \in Servicers
      BY StreamsAssumption
    <3>2. /\ InLine(D!Seen(d)) /\ AllAhead(ToSet(D!Seen(d)), ToSet(Waiting(ServicerOf[d])))
          /\ \A u \in Switches : AllAhead(ToSet(D!Seen(d)), ToSet(stream[u]))
      BY <1>1 DEF Ordered
    <3>3. CASE d # c
      BY <1>2, <1>6, <1>9, <3>1, <3>2, <3>3 DEF AllAhead
    <3>4. CASE d = c
      <4>1. InLine(D!Seen(c)')
        <5>1. AllAhead(ToSet(D!Seen(c)), {m})
          BY <1>6, <3>2, <3>4 DEF AllAhead
        <5> QED BY <1>1, <1>9, <3>2, <3>4, <5>1, SeenSeq, AppendInLine
      <4>2. AllAhead({m}, ToSet(Waiting(s)'))
        BY <1>1, <1>2, <1>5, WaitingSeq, TailInLine DEF Ordered
      <4>3. \A u \in Switches : AllAhead({m}, ToSet(stream[u]))
        BY <1>1, <1>2, <1>6 DEF Ordered, AllAhead
      <4> QED BY <1>2, <1>6, <1>10, <3>2, <3>4, <4>1, <4>2, <4>3 DEF AllAhead
    <3> QED BY <3>3, <3>4
  <2> QED BY <2>1, <2>2, <2>3, <2>4 DEF Ordered
\* What has been taken just now was still in the queue, behind all that the
\* other channels took.
<1>14. ASSUME NEW d \in Controllers, d # c, ServicerOf[d] = s, NEW x \in ToSet(D!Seen(d)), IsDigest(m)
       PROVE  x.n # m.n
  <2>1. x \in SentDigest /\ IsDigest(x)
    <3>1. D!Seen(d) \in Seq(SentDigest)
      BY <1>1, SeenSeq
    <3>2. x \in SentDigest
      BY <3>1, <1>14 DEF ToSet
    <3> QED BY <3>2 DEF SentDigest, IsDigest
  <2>2. x \in Everywhere /\ m \in Everywhere
    BY <1>2, <1>6, <1>14 DEF Everywhere
  <2>3. Ahead(x, m)
    BY <1>1, <1>6, <1>14 DEF Ordered, AllAhead
  <2>4. x.n \in Nat /\ m.n \in Nat
    BY <1>7, <1>14, <2>1 DEF SentDigest
  <2> QED BY <1>1, <1>14, <2>1, <2>2, <2>3, <2>4 DEF Numbered, Ahead
<1>15. TakenOnce'
  <2> SUFFICES ASSUME NEW a \in Controllers, NEW b \in Controllers, a # b, ServicerOf[a] = ServicerOf[b],
                      NEW x \in ToSet(D!Seen(a)'), NEW y \in ToSet(D!Seen(b)')
               PROVE  x.n # y.n
    BY DEF TakenOnce
  <2>1. CASE a = c
    BY <1>1, <1>9, <1>10, <1>14, <2>1 DEF TakenOnce
  <2>2. CASE b = c
    BY <1>1, <1>9, <1>10, <1>14, <2>2 DEF TakenOnce
  <2>3. CASE a # c /\ b # c
    BY <1>1, <1>9, <2>3 DEF TakenOnce
  <2> QED BY <2>1, <2>2, <2>3
<1>16. OwnOnly'
  BY <1>1, <1>9, <1>10 DEF OwnOnly
<1>17. D!SubscribedOnce'
  BY <1>2 DEF StreamsInv, D!SubscribedOnce
<1> QED BY <1>8, <1>12, <1>13, <1>15, <1>16, <1>17 DEF StreamsInv

LEMMA WorkerThreadInv == ASSUME StreamsInv, NEW c \in Controllers, D!WorkerThread(c) PROVE StreamsInv'
<1>1. StreamsTyped
  BY DEF StreamsInv
<1>2. /\ inbox[c] # <<>> /\ got' = [got EXCEPT ![c] = Append(@, Head(inbox[c]))]
      /\ inbox' = [inbox EXCEPT ![c] = Tail(@)]
      /\ UNCHANGED <<conn, stream, subs, members, queue, chan, worker, sent>>
  BY DEF D!WorkerThread, D!connVars, D!servicerVars
<1>3. /\ got[c] \in Seq(SentDigest) /\ inbox[c] \in Seq(SentDigest)
      /\ got'[c] = Append(got[c], Head(inbox[c])) /\ inbox'[c] = Tail(inbox[c])
      /\ \A d \in Controllers : d # c => got'[d] = got[d] /\ inbox'[d] = inbox[d]
  BY <1>1, <1>2 DEF StreamsTyped
<1>4. Head(inbox[c]) \in SentDigest /\ Tail(inbox[c]) \in Seq(SentDigest)
  BY <1>2, <1>3
<1>5. StreamsTyped'
  <2>1. got' \in [Controllers -> Seq(SentDigest)] /\ inbox' \in [Controllers -> Seq(SentDigest)]
    BY <1>1, <1>2, <1>3, <1>4 DEF StreamsTyped
  <2> QED BY <1>1, <1>2, <2>1 DEF StreamsTyped
<1>6. \A d \in Controllers : D!Seen(d)' = D!Seen(d)
  <2>1. Append(got[c], Head(inbox[c])) \o Tail(inbox[c]) = got[c] \o inbox[c]
    BY <1>2, <1>3, SeenRead
  <2> QED BY <1>3, <2>1 DEF D!Seen
<1>7. \A s \in Servicers : Waiting(s)' = Waiting(s)
  BY <1>2 DEF Waiting, D!Messages
<1>8. Everywhere' = Everywhere
  BY <1>2, <1>6, <1>7 DEF Everywhere
<1>9. Ordered'
  BY <1>2, <1>6, <1>7, StreamsAssumption DEF StreamsInv, Ordered
<1> QED BY <1>2, <1>5, <1>6, <1>7, <1>8, <1>9 DEF StreamsInv, OfItsSwitch, Numbered, TakenOnce, OwnOnly, D!SubscribedOnce

LEMMA StreamsInitInv == ASSUME D!Init PROVE StreamsInv
<1>1. /\ \A t \in Switches : stream[t] = <<>> /\ subs[t] = <<>>
      /\ \A s \in Servicers : queue[s] = <<>>
      /\ \A c \in Controllers : inbox[c] = <<>> /\ got[c] = <<>>
  BY DEF D!Init
<1>2. StreamsTyped
  BY DEF D!Init, StreamsTyped
<1>3. /\ \A s \in Servicers : Waiting(s) = <<>>
      /\ \A c \in Controllers : D!Seen(c) = <<>>
  BY <1>1 DEF Waiting, D!Messages, D!Seen
<1>4. ToSet(<<>>) = {} /\ InLine(<<>>)
  BY DEF ToSet, InLine
<1>5. Everywhere = {}
  BY <1>1, <1>3, <1>4 DEF Everywhere
<1>6. Ordered
  BY <1>1, <1>3, <1>4 DEF Ordered, AllAhead
<1> QED
  BY <1>1, <1>2, <1>3, <1>4, <1>5, <1>6
  DEF StreamsInv, OfItsSwitch, Numbered, TakenOnce, OwnOnly, D!SubscribedOnce, D!IsInjective

LEMMA StreamsNextInv == ASSUME StreamsInv, [D!Next]_(D!vars) PROVE StreamsInv'
<1>1. StreamsTyped
  BY DEF StreamsInv
<1>2. ASSUME NEW t \in Switches, NEW s \in Servicers, D!RemoveTargetSwitch(s, t) PROVE StreamsInv'
  BY <1>1, <1>2, QuietInv DEF D!RemoveTargetSwitch, D!connVars, D!controllerVars, StreamsTyped
<1>3. ASSUME NEW c \in Controllers, D!OpenStream(c) PROVE StreamsInv'
  BY <1>1, <1>3, QuietInv DEF D!OpenStream, D!connVars, D!servicerVars, StreamsTyped
<1>4. ASSUME NEW c \in Controllers, D!Subscribe(c) PROVE StreamsInv'
  BY <1>1, <1>4, QuietInv DEF D!Subscribe, D!connVars, D!servicerVars, StreamsTyped
<1>5. CASE UNCHANGED D!vars
  BY <1>1, <1>5, QuietInv DEF D!vars, StreamsTyped
<1> QED
  BY <1>2, <1>3, <1>4, <1>5, ArbitrationInv, InitConnectionInv, SwitchSendsInv, ForwardInv, AddTargetInv,
     StreamChannelInv, WorkerThreadInv
  DEF D!Next

\* The places of a digest: two of them would put it ahead of itself.
LEMMA OnePlace == ASSUME StreamsInv PROVE D!AtMostOnce
<1> SUFFICES ASSUME NEW s \in Servicers, NEW n \in 1..sent, NEW p \in D!Places(s, n), NEW q \in D!Places(s, n)
             PROVE  p = q
  BY DEF D!AtMostOnce
<1>1. StreamsTyped /\ Ordered /\ OfItsSwitch /\ Numbered /\ TakenOnce
  BY DEF StreamsInv
<1> DEFINE It(m) == m \in Everywhere /\ IsDigest(m) /\ m.n = n
<1>2. \A x, y : It(x) /\ It(y) => x.by = y.by /\ ~Ahead(x, y)
  BY <1>1 DEF Numbered, Ahead
<1>3. ASSUME NEW t \in Switches, NEW i \in D!At(stream[t], n)
      PROVE  /\ i \in 1..Len(stream[t]) /\ stream[t][i] \in ToSet(stream[t]) /\ It(stream[t][i])
             /\ stream[t][i].by = t
  <2>1. stream[t] \in Seq(Message)
    BY <1>1 DEF StreamsTyped
  <2>2. /\ i \in 1..Len(stream[t]) /\ stream[t][i] \in ToSet(stream[t])
        /\ IsDigest(stream[t][i]) /\ stream[t][i].n = n
    BY <2>1 DEF D!At, ToSet, IsDigest
  <2> QED BY <1>1, <2>2 DEF Everywhere, OfItsSwitch
<1>4. ASSUME NEW i \in D!At(Waiting(s), n)
      PROVE  i \in 1..Len(Waiting(s)) /\ Waiting(s)[i] \in ToSet(Waiting(s)) /\ It(Waiting(s)[i])
  <2>1. Waiting(s) \in Seq(Message)
    BY <1>1, WaitingSeq
  <2>2. /\ i \in 1..Len(Waiting(s)) /\ Waiting(s)[i] \in ToSet(Waiting(s))
        /\ IsDigest(Waiting(s)[i]) /\ Waiting(s)[i].n = n
    BY <2>1 DEF D!At, ToSet, IsDigest
  <2> QED BY <2>2 DEF Everywhere
<1>5. ASSUME NEW c \in D!Of(s), NEW i \in D!At(D!Seen(c), n)
      PROVE  /\ c \in Controllers /\ ServicerOf[c] = s
             /\ i \in 1..Len(D!Seen(c)) /\ D!Seen(c)[i] \in ToSet(D!Seen(c)) /\ It(D!Seen(c)[i])
  <2>1. c \in Controllers /\ ServicerOf[c] = s /\ D!Seen(c) \in Seq(SentDigest)
    BY <1>1, SeenSeq DEF D!Of
  <2>2. /\ i \in 1..Len(D!Seen(c)) /\ D!Seen(c)[i] \in ToSet(D!Seen(c))
        /\ IsDigest(D!Seen(c)[i]) /\ D!Seen(c)[i].n = n
    BY <2>1 DEF D!At, ToSet, IsDigest
  <2> QED BY <2>1, <2>2 DEF Everywhere
<1>6. ASSUME NEW r \in D!Places(s, n)
      PROVE  \/ \E i \in D!At(Waiting(s), n) : r = <<"queue", s, i>>
             \/ \E t \in Switches : \E i \in D!At(stream[t], n) : r = <<"stream", t, i>>
             \/ \E c \in D!Of(s) : \E i \in D!At(D!Seen(c), n) : r = <<"seen", c, i>>
  BY DEF D!Places, Waiting
<1>7. ASSUME NEW seq, InLine(seq), NEW i \in 1..Len(seq), NEW j \in 1..Len(seq), It(seq[i]), It(seq[j]), Len(seq) \in Nat
      PROVE  i = j
  <2>1. ~Ahead(seq[i], seq[j]) /\ ~Ahead(seq[j], seq[i])
    BY <1>2, <1>7
  <2>2. ~(i < j) /\ ~(j < i)
    BY <1>7, <2>1 DEF InLine
  <2> QED BY <1>7, <2>2
<1> HIDE DEF It
<1>8. ASSUME NEW i \in D!At(Waiting(s), n), NEW j \in D!At(Waiting(s), n) PROVE i = j
  BY <1>1, <1>4, <1>7, WaitingSeq DEF Ordered
<1>9. ASSUME NEW t \in Switches, NEW u \in Switches, NEW i \in D!At(stream[t], n), NEW j \in D!At(stream[u], n)
      PROVE  t = u /\ i = j
  <2>1. t = u
    <3>1. It(stream[t][i]) /\ stream[t][i].by = t
      BY <1>3
    <3>2. It(stream[u][j]) /\ stream[u][j].by = u
      BY <1>3
    <3> QED BY <1>2, <3>1, <3>2
  <2>2. Len(stream[t]) \in Nat /\ InLine(stream[t])
    BY <1>1 DEF StreamsTyped, Ordered
  <2>3. j \in D!At(stream[t], n)
    BY <2>1
  <2> QED BY <1>3, <1>7, <2>1, <2>2, <2>3
<1>10. ASSUME NEW c \in D!Of(s), NEW d \in D!Of(s), NEW i \in D!At(D!Seen(c), n), NEW j \in D!At(D!Seen(d), n)
       PROVE  c = d /\ i = j
  <2>1. D!Seen(c)[i].n = n /\ D!Seen(d)[j].n = n
    BY <1>5 DEF It
  <2>2. c = d
    BY <1>1, <1>5, <2>1 DEF TakenOnce
  <2>3. Len(D!Seen(c)) \in Nat /\ InLine(D!Seen(c))
    BY <1>1, <1>5, SeenSeq DEF Ordered
  <2>4. j \in D!At(D!Seen(c), n)
    BY <2>2
  <2> QED BY <1>5, <1>7, <2>2, <2>3, <2>4
<1>11. ASSUME NEW i \in D!At(Waiting(s), n), NEW t \in Switches, NEW j \in D!At(stream[t], n) PROVE FALSE
  <2>1. AllAhead(ToSet(Waiting(s)), ToSet(stream[t]))
    BY <1>1 DEF Ordered
  <2>2. Ahead(Waiting(s)[i], stream[t][j])
    BY <1>3, <1>4, <2>1 DEF AllAhead
  <2>3. It(Waiting(s)[i]) /\ It(stream[t][j])
    BY <1>3, <1>4
  <2> QED BY <1>2, <2>2, <2>3
<1>12. ASSUME NEW c \in D!Of(s), NEW i \in D!At(D!Seen(c), n), NEW t \in Switches, NEW j \in D!At(stream[t], n)
       PROVE  FALSE
  <2>1. AllAhead(ToSet(D!Seen(c)), ToSet(stream[t]))
    BY <1>1, <1>5 DEF Ordered
  <2>2. Ahead(D!Seen(c)[i], stream[t][j])
    BY <1>3, <1>5, <2>1 DEF AllAhead
  <2>3. It(D!Seen(c)[i]) /\ It(stream[t][j])
    BY <1>3, <1>5
  <2> QED BY <1>2, <2>2, <2>3
<1>13. ASSUME NEW c \in D!Of(s), NEW i \in D!At(D!Seen(c), n), NEW j \in D!At(Waiting(s), n) PROVE FALSE
  <2>1. AllAhead(ToSet(D!Seen(c)), ToSet(Waiting(s)))
    BY <1>1, <1>5 DEF Ordered
  <2>2. Ahead(D!Seen(c)[i], Waiting(s)[j])
    BY <1>4, <1>5, <2>1 DEF AllAhead
  <2>3. It(D!Seen(c)[i]) /\ It(Waiting(s)[j])
    BY <1>4, <1>5
  <2> QED BY <1>2, <2>2, <2>3
<1> QED BY <1>6, <1>8, <1>9, <1>10, <1>11, <1>12, <1>13

\* However many switches, servicers and controllers there are and however many
\* digests come: every digest comes once, to the right servicer and in order
\* (proxy_digest_forwarding, StreamChannel, StreamHandlerWorkerThread.run).
THEOREM DigestsOnceInOrder == D!Spec => []OnceInOrder
<1>1. StreamsInv => OnceInOrder
  <2> SUFFICES ASSUME StreamsInv PROVE D!SubscribedOnce /\ D!AtMostOnce /\ D!InOrder
    BY DEF OnceInOrder, D!OnceInOrder
  <2>1. ASSUME NEW c \in Controllers
        PROVE  /\ \A i \in DOMAIN D!Seen(c) : D!Seen(c)[i].of = ServicerOf[c]
               /\ \A i, j \in DOMAIN D!Seen(c) :
                    i < j /\ D!Seen(c)[i].by = D!Seen(c)[j].by => D!Seen(c)[i].n < D!Seen(c)[j].n
    <3>1. D!Seen(c) \in Seq(SentDigest) /\ InLine(D!Seen(c)) /\ \A m \in ToSet(D!Seen(c)) : m.of = ServicerOf[c]
      BY SeenSeq DEF StreamsInv, Ordered, OwnOnly
    <3>2. DOMAIN D!Seen(c) = 1..Len(D!Seen(c)) /\ \A i \in DOMAIN D!Seen(c) : IsDigest(D!Seen(c)[i])
      <4>1. \A i \in DOMAIN D!Seen(c) : D!Seen(c)[i] \in SentDigest
        BY <3>1
      <4> QED BY <3>1, <4>1 DEF SentDigest, IsDigest
    <3> QED BY <3>1, <3>2 DEF InLine, Ahead, ToSet
  <2> QED BY <2>1, OnePlace DEF StreamsInv, D!InOrder
<1> QED BY <1>1, StreamsInitInv, StreamsNextInv, PTL DEF D!Spec

----------------------------------------------------------------------------
\* Tenants apart.

LEMMA OneIsPrefix ==
  ASSUME NEW E, NEW p \in Seq(E), NEW q \in Seq(E), NEW x \in Seq(E), NEW y \in Seq(E), p \o x = q \o y
  PROVE  IsPrefix(p, q) \/ IsPrefix(q, p)
<1> DEFINE w == p \o x
<1>1. w \in Seq(E)
  BY ConcatProperties
<1>2. IsPrefix(p, w) /\ IsPrefix(q, w)
  BY PrefixOfSelf, PrefixOfMore
<1> HIDE DEF w
<1> QED BY <1>1, <1>2, OneOfTwoPrefixes

(***************************************************************************)
(* The names of tenants that share a target.                               *)
(***************************************************************************)
Tidied == setup \in Setups /\ V!TidyNames /\ V!TidyPrefixes
Proper == Kinds \ {"action"}

LEMMA SetupTyped ==
  ASSUME setup \in Setups, NEW a \in V!Tenants
  PROVE  /\ setup.prefix[a] \in Seq(STRING) /\ setup.info[a] \in P4Info
         /\ V!Targets(a) \in Seq(V!AllTargets) /\ DOMAIN V!Targets(a) = 1..Len(V!Targets(a))
         /\ Len(V!Targets(a)) \in Nat /\ V!Range(V!Targets(a)) \subseteq V!AllTargets
         /\ \A k \in Proper : NoAction \notin setup.info[a].names[k]
<1>1. /\ setup.prefix[a] \in Seq(STRING) /\ setup.info[a] \in P4Info /\ V!Targets(a) \in Seq(V!AllTargets)
      /\ \A k \in Proper : NoAction \notin setup.info[a].names[k]
  BY SetupsAssumption DEF V!Tenants, V!Targets, V!AllTargets, Proper
<1>2. DOMAIN V!Targets(a) = 1..Len(V!Targets(a)) /\ Len(V!Targets(a)) \in Nat
  BY <1>1, LenProperties
<1>3. V!Range(V!Targets(a)) \subseteq V!AllTargets
  BY <1>1, <1>2, ElementOfSeq DEF V!Range
<1> QED BY <1>1, <1>2, <1>3

Shares(a, b, t) == t \in V!Range(V!Targets(a)) /\ t \in V!Range(V!Targets(b))

LEMMA SharedPrefixes ==
  ASSUME Tidied, NEW a \in V!Tenants, NEW b \in V!Tenants, a # b, NEW t, Shares(a, b, t)
  PROVE  /\ setup.prefix[a] # <<>> /\ setup.prefix[b] # <<>>
         /\ \A x, y \in Seq(STRING) : setup.prefix[a] \o x # setup.prefix[b] \o y
<1> DEFINE p == setup.prefix[a]
           q == setup.prefix[b]
<1>1. p \in Seq(STRING) /\ q \in Seq(STRING)
  BY SetupTyped DEF Tidied
<1>2. V!Range(V!Targets(a)) \cap V!Range(V!Targets(b)) # {} /\ V!Range(V!Targets(b)) \cap V!Range(V!Targets(a)) # {}
  BY DEF Shares
<1>3. ~V!IsPrefix(p, q) /\ ~V!IsPrefix(q, p)
  BY <1>2 DEF Tidied, V!TidyPrefixes
<1>4. ~IsPrefix(p, q) /\ ~IsPrefix(q, p)
  BY <1>3 DEF V!IsPrefix, IsPrefix
<1> HIDE DEF p, q
<1>5. p # <<>> /\ q # <<>>
  BY <1>1, <1>4, PrefixEmpty
<1>6. \A x, y \in Seq(STRING) : p \o x # q \o y
  BY <1>1, <1>4, OneIsPrefix
<1> QED BY <1>5, <1>6 DEF p, q

\* Ids of the names that a tenant with a prefix has on its targets.
Under(prefix, id) == \E rest \in Seq(STRING) : id[3].base = prefix \o rest

LEMMA ConvertsUnder ==
  ASSUME Tidied, NEW a \in V!Tenants, NEW t \in V!Range(V!Targets(a)), setup.prefix[a] # <<>>,
         NEW k \in Proper, NEW id, NEW i \in V!ConvertId(V!Conv(a, t), k, id)
  PROVE  Under(setup.prefix[a], i) /\ i # Zero
<1> DEFINE prefix == setup.prefix[a]
           info == setup.info[a]
           map == setup.names[a][t].map
<1>1. /\ V!Conv(a, t).from = info /\ V!Conv(a, t).to = setup.program[t] /\ V!Conv(a, t).prefix = prefix
      /\ V!Conv(a, t).converts = map
  BY DEF V!Conv
<1>2. PICK name \in V!GetName(info, k, id) :
        i \in V!GetId(setup.program[t], k, V!PrefixP4Name(V!Renamed(V!Conv(a, t), name), prefix))
  BY <1>1 DEF V!ConvertId
<1>3. name \in info.names[k] /\ name \in Named /\ name # NoAction
  <2>1. info \in P4Info /\ NoAction \notin info.names[k] /\ k \in Kinds
    BY SetupTyped DEF Tidied, Proper
  <2> QED BY <1>2, <2>1 DEF V!GetName, P4Info
<1>4. V!Renamed(V!Conv(a, t), name) = name
  BY <1>1 DEF V!Renamed, Tidied, V!TidyNames, V!IsPlain
<1>5. V!PrefixP4Name(name, prefix) = [name EXCEPT !.base = prefix \o name.base]
  BY <1>3 DEF V!PrefixP4Name, V!NoAction, NoAction
<1>6. V!PrefixP4Name(name, prefix).base = prefix \o name.base /\ name.base \in Seq(STRING)
  BY <1>3, <1>5 DEF Named
<1>7. PICK o : i = <<k, setup.program[t].numbering, o>> /\ o.base = prefix \o name.base
  BY <1>2, <1>4, <1>6 DEF V!GetId, V!IdIn
<1>8. i[3].base = prefix \o name.base /\ i # Zero
  BY <1>7 DEF Zero
<1> QED BY <1>6, <1>8 DEF Under

\* The same id is never that of two tenants on one target.
LEMMA NoIdOfTwo ==
  ASSUME Tidied, NEW a \in V!Tenants, NEW b \in V!Tenants, a # b, NEW t, Shares(a, b, t),
         NEW i, Under(setup.prefix[a], i), Under(setup.prefix[b], i)
  PROVE  FALSE
BY SharedPrefixes DEF Under

(***************************************************************************)
(* The loop over the targets of an update.                                 *)
(***************************************************************************)
IsAfter(F, a, ts, e, m) ==
  F = [n \in 0..m |-> IF n = 0 THEN {e} ELSE UNION {V!ConvertEntity(V!Conv(a, ts[n]), x) : x \in F[n - 1]}]
After(a, ts, e) == CHOOSE F : IsAfter(F, a, ts, e, Len(ts))

LEMMA ConvertedIs == ASSUME NEW a, NEW ts, NEW e PROVE V!Converted(a, ts, e) = After(a, ts, e)[Len(ts)]
BY DEF V!Converted, After, IsAfter

LEMMA AfterExists ==
  ASSUME NEW a, NEW ts, NEW e, Len(ts) \in Nat
  PROVE  IsAfter(After(a, ts, e), a, ts, e, Len(ts))
<1> DEFINE Next1(n, es) == UNION {V!ConvertEntity(V!Conv(a, ts[n]), x) : x \in es}
           Is(F, m) == F = [n \in 0..m |-> IF n = 0 THEN {e} ELSE Next1(n, F[n - 1])]
           There == {m \in Nat : \E F : Is(F, m)}
<1>1. 0 \in There
  <2>1. Is([n \in 0..0 |-> {e}], 0)
    OBVIOUS
  <2> QED BY <2>1
<1> HIDE DEF Next1
<1>2. ASSUME NEW m \in Nat, NEW F, Is(F, m) PROVE \E G : Is(G, m + 1)
  <2> DEFINE G == [n \in 0..(m + 1) |-> IF n = m + 1 THEN Next1(m + 1, F[m]) ELSE F[n]]
  <2>1. \A n \in 0..m : G[n] = F[n]
    OBVIOUS
  <2>2. G[m + 1] = Next1(m + 1, G[m])
    <3>0. m + 1 \in 0..(m + 1)
      OBVIOUS
    <3>1. G[m + 1] = Next1(m + 1, F[m])
      BY <3>0, Zenon
    <3>2. G[m] = F[m]
      BY <2>1
    <3> QED BY <3>1, <3>2
  <2>3. \A n \in 0..m : G[n] = IF n = 0 THEN {e} ELSE Next1(n, G[n - 1])
    <3> TAKE n \in 0..m
    <3>1. F[n] = IF n = 0 THEN {e} ELSE Next1(n, F[n - 1])
      BY <1>2
    <3>2. n # 0 => n - 1 \in 0..m
      OBVIOUS
    <3> HIDE DEF G
    <3> QED BY <2>1, <3>1, <3>2
  <2>4. G = [n \in 0..(m + 1) |-> G[n]]
    OBVIOUS
  <2> HIDE DEF G
  <2>5. \A n \in 0..(m + 1) : G[n] = IF n = 0 THEN {e} ELSE Next1(n, G[n - 1])
    <3> TAKE n \in 0..(m + 1)
    <3>1. n \in 0..m \/ n = m + 1
      OBVIOUS
    <3>2. m + 1 # 0 /\ (m + 1) - 1 = m
      OBVIOUS
    <3> QED BY <2>2, <2>3, <3>1, <3>2
  <2>6. Is(G, m + 1)
    BY <2>4, <2>5
  <2> QED BY <2>6
<1> HIDE DEF Is
<1>3. Len(ts) \in There
  <2>1. \A m \in Nat : m \in There => m + 1 \in There
    BY <1>2
  <2> HIDE DEF There
  <2> QED BY <1>1, <2>1, Induction
<1>4. \E F : IsAfter(F, a, ts, e, Len(ts))
  BY <1>3 DEF IsAfter, Is, Next1
<1> QED BY <1>4 DEF After

LEMMA AfterSteps ==
  ASSUME NEW a, NEW ts, NEW e, Len(ts) \in Nat
  PROVE  /\ After(a, ts, e)[0] = {e}
         /\ \A n \in 1..Len(ts) :
              After(a, ts, e)[n] = UNION {V!ConvertEntity(V!Conv(a, ts[n]), x) : x \in After(a, ts, e)[n - 1]}
<1> DEFINE F == After(a, ts, e)
           Next1(n, es) == UNION {V!ConvertEntity(V!Conv(a, ts[n]), x) : x \in es}
<1>1. F = [n \in 0..Len(ts) |-> IF n = 0 THEN {e} ELSE Next1(n, F[n - 1])]
  BY AfterExists DEF IsAfter
<1> HIDE DEF F, Next1
<1>2. F[0] = {e}
  BY <1>1
<1>3. ASSUME NEW n \in 1..Len(ts) PROVE F[n] = Next1(n, F[n - 1])
  <2>1. n \in 0..Len(ts) /\ n # 0
    OBVIOUS
  <2> QED BY <1>1, <2>1, Zenon
<1> QED BY <1>2, <1>3 DEF F, Next1

IsEntity(x) == x = V!Entity(x.which, x.id, x.action, x.key, x.data)

\* A converted entity differs in its id and its action.
LEMMA ConvertedEntityIs ==
  ASSUME NEW conv, NEW x, IsEntity(x), NEW c \in V!ConvertEntity(conv, x)
  PROVE  /\ IsEntity(c) /\ c.which = x.which /\ c.key = x.key /\ c.data = x.data
         /\ IF x.id = Zero THEN c.id = Zero ELSE c.id \in V!ConvertId(conv, V!IdType(x.which), x.id)
         /\ IF x.action = Zero THEN c.action = Zero ELSE c.action \in V!ConvertId(conv, "action", x.action)
<1> DEFINE Tos(kind, id) == IF id = V!Zero THEN {V!Zero}
                            ELSE IF FALSE THEN V!ConvertIdBack(conv, kind, id) ELSE V!ConvertId(conv, kind, id)
           ids == Tos(V!IdType(x.which), x.id)
           acts == Tos("action", x.action)
<1>0. c \in {V!Entity(x.which, i, act, x.key, x.data) : i \in ids, act \in acts}
  BY DEF V!ConvertEntity, V!ConvertedEntity
<1>1. PICK i, act :
        /\ c = V!Entity(x.which, i, act, x.key, x.data)
        /\ IF x.id = Zero THEN i = Zero ELSE i \in V!ConvertId(conv, V!IdType(x.which), x.id)
        /\ IF x.action = Zero THEN act = Zero ELSE act \in V!ConvertId(conv, "action", x.action)
  <2>1. /\ \A i \in ids : IF x.id = Zero THEN i = Zero ELSE i \in V!ConvertId(conv, V!IdType(x.which), x.id)
        /\ \A i \in acts : IF x.action = Zero THEN i = Zero ELSE i \in V!ConvertId(conv, "action", x.action)
    BY DEF V!Zero, Zero
  <2> HIDE DEF ids, acts
  <2>2. PICK i \in ids, act \in acts : c = V!Entity(x.which, i, act, x.key, x.data)
    BY <1>0
  <2> QED BY <2>1, <2>2
<1> QED BY <1>1 DEF IsEntity, V!Entity

LEMMA HandlingType ==
  ASSUME setup \in Setups, NEW a \in V!Tenants, NEW name
  PROVE  V!Handling(a, name) \in Seq({t \in V!Range(V!Targets(a)) : V!Handles(a, t, name)})
<1> DEFINE ts == V!Targets(a)
           E == {t \in V!Range(ts) : V!Handles(a, t, name)}
           Q == Seq(E)
           part == [i \in DOMAIN ts |-> IF V!Handles(a, ts[i], name) THEN <<ts[i]>> ELSE <<>>]
<1>1. DOMAIN ts = 1..Len(ts) /\ Len(ts) \in Nat
  BY SetupTyped
<1>2. \A i \in DOMAIN ts : part[i] \in Q
  <2>1. \A i \in DOMAIN ts : V!Handles(a, ts[i], name) => ts[i] \in E
    BY DEF V!Range
  <2> HIDE DEF E
  <2> QED BY <2>1, EmptySeq
<1>3. part = [i \in 1..Len(ts) |-> part[i]]
  BY <1>1
<1> HIDE DEF Q, part, ts
<1>4. part \in Seq(Q)
  <2>1. part \in [1..Len(ts) -> Q]
    BY <1>1, <1>2, <1>3
  <2> QED BY <1>1, <2>1, SeqDef
<1>5. FlattenSeq(part) \in Seq(E)
  BY <1>4, FlattenType DEF Q
<1>6. V!Handling(a, name) = FlattenSeq(part)
  BY DEF V!Handling, part, ts, V!FlattenSeq, FlattenSeq
<1> QED BY <1>5, <1>6 DEF ts

\* What an update is sent to: targets of its tenant.
LEMMA TargetsOfType ==
  ASSUME setup \in Setups, NEW a \in V!Tenants, NEW e, NEW ts \in V!TargetsOf(a, e)
  PROVE  ts \in Seq(V!Range(V!Targets(a)))
<1> DEFINE R == V!Range(V!Targets(a))
<1>1. V!Targets(a) \in Seq(R)
  <2>1. /\ V!Targets(a) \in Seq(V!AllTargets) /\ Len(V!Targets(a)) \in Nat
        /\ \A i \in 1..Len(V!Targets(a)) : V!Targets(a)[i] \in R
    BY SetupTyped DEF V!Range
  <2> HIDE DEF R
  <2>2. V!Targets(a) \in [1..Len(V!Targets(a)) -> R]
    BY <2>1
  <2> QED BY <2>1, <2>2, SeqDef
<1>2. ASSUME NEW s \in V!MultiTargets(a, e) PROVE s \in Seq(R)
  <2>1. CASE s = V!Targets(a)
    BY <1>1, <2>1
  <2>2. ASSUME NEW name, s = V!Handling(a, name) PROVE s \in Seq(R)
    <3> DEFINE E == {t \in R : V!Handles(a, t, name)}
    <3>1. s \in Seq(E) /\ E \subseteq R
      BY <2>2, HandlingType
    <3> HIDE DEF E, R
    <3> QED BY <3>1, SeqMonotonic
  <2> QED BY <1>2, <2>1, <2>2 DEF V!MultiTargets
<1> SUFFICES ts \in Seq(R)
  OBVIOUS
<1> HIDE DEF R
<1>3. CASE ts \in V!MultiTargets(a, e)
  BY <1>2, <1>3
<1>4. CASE ts \in V!FirstTarget(a, e)
  <2>1. PICK s \in V!MultiTargets(a, e) : s # <<>> /\ ts = <<s[1]>>
    BY <1>4 DEF V!FirstTarget
  <2>2. s \in Seq(R) /\ Len(s) \in Nat \ {0}
    BY <1>2, <2>1, EmptySeq
  <2>3. s[1] \in R
    BY <2>2, ElementOfSeq
  <2> QED BY <2>1, <2>3
<1>5. ts \in V!MultiTargets(a, e) \/ ts \in V!FirstTarget(a, e)
  BY DEF V!TargetsOf
<1> QED BY <1>3, <1>4, <1>5

LEMMA ConvertedUnder ==
  ASSUME Tidied, NEW a \in V!Tenants, setup.prefix[a] # <<>>,
         NEW ts \in Seq(V!Range(V!Targets(a))), ts # <<>>,
         NEW e, IsEntity(e), e.id # Zero, V!IdType(e.which) \in Proper, NEW c \in V!Converted(a, ts, e)
  PROVE  IsEntity(c) /\ c.which = e.which /\ Under(setup.prefix[a], c.id)
<1> DEFINE F == After(a, ts, e)
           Good(x) == IsEntity(x) /\ x.which = e.which /\ x.id # Zero
           There == {n \in Nat : n <= Len(ts) => \A x \in F[n] : Good(x)}
<1>0. Len(ts) \in Nat \ {0} /\ \A n \in 1..Len(ts) : ts[n] \in V!Range(V!Targets(a))
  BY EmptySeq, LenProperties, ElementOfSeq
<1>1. F[0] = {e} /\ \A n \in 1..Len(ts) : F[n] = UNION {V!ConvertEntity(V!Conv(a, ts[n]), x) : x \in F[n - 1]}
  BY <1>0, AfterSteps
<1> HIDE DEF F
<1>2. ASSUME NEW n \in 1..Len(ts), \A x \in F[n - 1] : Good(x), NEW d \in F[n]
      PROVE  Good(d) /\ Under(setup.prefix[a], d.id)
  <2>1. PICK x \in F[n - 1] : d \in V!ConvertEntity(V!Conv(a, ts[n]), x)
    BY <1>1
  <2>2. Good(x)
    BY <1>2
  <2>3. IsEntity(d) /\ d.which = x.which /\ d.id \in V!ConvertId(V!Conv(a, ts[n]), V!IdType(x.which), x.id)
    BY <2>1, <2>2, ConvertedEntityIs
  <2> QED BY <1>0, <2>2, <2>3, ConvertsUnder
<1>3. 0 \in There
  BY <1>1
<1> HIDE DEF Good
<1>4. ASSUME NEW n \in Nat, n \in There PROVE n + 1 \in There
  <2> SUFFICES ASSUME n + 1 <= Len(ts) PROVE \A x \in F[n + 1] : Good(x)
    OBVIOUS
  <2>1. n + 1 \in 1..Len(ts) /\ (n + 1) - 1 = n /\ n <= Len(ts)
    BY <1>0
  <2> QED BY <1>2, <1>4, <2>1
<1>5. Nat \subseteq There
  <2> HIDE DEF There
  <2> QED BY <1>3, <1>4, Induction
<1>6. Len(ts) \in 1..Len(ts) /\ Len(ts) - 1 \in Nat /\ Len(ts) - 1 <= Len(ts)
  BY <1>0
<1>7. c \in F[Len(ts)]
  BY ConvertedIs DEF F
<1>8. Good(c) /\ Under(setup.prefix[a], c.id)
  BY <1>2, <1>5, <1>6, <1>7
<1> QED BY <1>8 DEF Good

(***************************************************************************)
(* Writes.                                                                 *)
(***************************************************************************)
LEMMA WritesAre ==
  ASSUME NEW info, NEW w \in V!Writes(info)
  PROVE  /\ w[1] \in {"INSERT", "MODIFY", "DELETE"} /\ IsEntity(w[2]) /\ w[2].id # Zero /\ V!IdType(w[2].which) \in Proper
         /\ w[2].which \in {"table_entry", "counter_entry", "meter_entry", "digest_entry"}
<1>1. \A k : \A i \in V!Ids(info, k) : i # Zero
  BY DEF V!Ids, V!IdIn, Zero
<1>2. PICK type, which, i, act, key, d, k :
        /\ w = <<type, V!Entity(which, i, act, key, d)>> /\ type \in {"INSERT", "MODIFY", "DELETE"} /\ i \in V!Ids(info, k)
        /\ which \in {"table_entry", "counter_entry", "meter_entry", "digest_entry"}
  BY DEF V!Writes
<1> QED BY <1>1, <1>2 DEF IsEntity, V!Entity, V!IdType, Proper, Kinds

\* A switch changes cells of the entity's id only.
LEMMA ApplyIsLocal ==
  ASSUME NEW cells, NEW type \in {"INSERT", "MODIFY", "DELETE"}, NEW e, NEW x, x.id # e.id
  PROVE  x \in V!Apply(cells, type, e) <=> x \in cells
<1> DEFINE counted == V!Entity("direct_counter_entry", e.id, V!Zero, e.key, 0)
<1>1. counted.id = e.id /\ x # counted /\ x # e
  BY DEF V!Entity
<1> HIDE DEF counted
<1>2. ~V!SameCell(x, e) /\ ~V!SameCell(x, counted)
  BY <1>1 DEF V!SameCell
<1>3. CASE type = "INSERT"
  BY <1>1, <1>3 DEF V!Apply, counted
<1>4. CASE type = "MODIFY"
  BY <1>1, <1>2, <1>4 DEF V!Apply, counted
<1>5. CASE type = "DELETE"
  BY <1>2, <1>5 DEF V!Apply, counted
<1> QED BY <1>3, <1>4, <1>5

\* What a Write of a changes at a target.
LEMMA WriteSteps ==
  ASSUME setup \in Setups, NEW a \in V!Tenants, NEW type, NEW e, V!Write(a, type, e),
         NEW t \in V!AllTargets, dev'[t] # dev[t]
  PROVE  \E ts \in V!TargetsOf(a, e) : \E c \in V!Converted(a, ts, e) :
           t \in V!Range(ts) /\ dev'[t] = V!Apply(dev[t], type, c)
<1>1. \A job \in UNION {{ts} \X V!Converted(a, ts, e) : ts \in V!TargetsOf(a, e)} :
        job[1] \in V!TargetsOf(a, e) /\ job[2] \in V!Converted(a, job[1], e)
  OBVIOUS
<1>2. PICK job \in UNION {{ts} \X V!Converted(a, ts, e) : ts \in V!TargetsOf(a, e)} :
        dev' = [u \in V!AllTargets |->
                  IF u \in V!Range(job[1]) /\ V!Accepts(dev[u], setup.program[u], type, job[2])
                  THEN V!Apply(dev[u], type, job[2]) ELSE dev[u]]
  BY DEF V!Write
<1> QED BY <1>1, <1>2

\* The ids under which b's tables, counters and meters are at t.
His(b, t) ==
  UNION {V!ConvertId(V!Conv(b, t), k, i) : k \in {"table", "counter", "meter"},
                                          i \in UNION {V!Ids(setup.info[b], j) : j \in V!Kinds}}

LEMMA WriteIsLocal ==
  ASSUME Tidied, NEW a \in V!Tenants, NEW b \in V!Tenants, a # b, NEW t \in V!Range(V!Targets(b)),
         NEW w \in V!Writes(setup.info[a]), V!Write(a, w[1], w[2])
  PROVE  \A x : x.id \in His(b, t) => (x \in dev[t] <=> x \in dev'[t])
<1> SUFFICES ASSUME dev'[t] # dev[t], NEW x, x.id \in His(b, t) PROVE x \in dev[t] <=> x \in dev'[t]
  OBVIOUS
<1> USE DEF Tidied
<1>1. t \in V!AllTargets
  BY SetupTyped
<1>0. PICK ts \in V!TargetsOf(a, w[2]) : \E c \in V!Converted(a, ts, w[2]) :
        t \in V!Range(ts) /\ dev'[t] = V!Apply(dev[t], w[1], c)
  BY <1>1, WriteSteps
<1>2. PICK c \in V!Converted(a, ts, w[2]) : t \in V!Range(ts) /\ dev'[t] = V!Apply(dev[t], w[1], c)
  BY <1>0
<1>3. ts \in Seq(V!Range(V!Targets(a))) /\ ts # <<>> /\ t \in V!Range(V!Targets(a))
  <2>1. ts \in Seq(V!Range(V!Targets(a)))
    BY TargetsOfType
  <2>2. PICK i \in DOMAIN ts : ts[i] = t
    BY <1>2 DEF V!Range
  <2>3. DOMAIN ts = 1..Len(ts) /\ Len(ts) \in Nat
    BY <2>1, LenProperties
  <2> QED BY <2>1, <2>2, <2>3, ElementOfSeq, EmptySeq
<1>4. Shares(a, b, t)
  BY <1>3 DEF Shares
<1>5. setup.prefix[a] # <<>> /\ setup.prefix[b] # <<>>
  BY <1>4, SharedPrefixes
<1>6. Under(setup.prefix[a], c.id)
  BY <1>3, <1>5, WritesAre, ConvertedUnder
<1>7. Under(setup.prefix[b], x.id)
  <2>1. PICK k, i : k \in {"table", "counter", "meter"} /\ x.id \in V!ConvertId(V!Conv(b, t), k, i)
    BY DEF His
  <2>2. k \in Proper
    BY <2>1 DEF Proper, Kinds
  <2> QED BY <1>5, <2>1, <2>2, ConvertsUnder
<1>8. x.id # c.id
  BY <1>4, <1>6, <1>7, NoIdOfTwo
<1>9. w[1] \in {"INSERT", "MODIFY", "DELETE"}
  BY WritesAre
<1>10. x \in V!Apply(dev[t], w[1], c) <=> x \in dev[t]
  BY <1>8, <1>9, ApplyIsLocal
<1> QED BY <1>2, <1>10

LEMMA SetupStays == ASSUME [V!Next]_(V!vars) PROVE setup' = setup
<1>1. ASSUME NEW a, NEW type, NEW e, V!Write(a, type, e) PROVE setup' = setup
  BY <1>1 DEF V!Write
<1>2. ASSUME NEW a, NEW e, V!Read(a, e) PROVE setup' = setup
  BY <1>2 DEF V!Read
<1>3. ASSUME NEW a, NEW t, NEW e, V!Packet(a, t, e) PROVE setup' = setup
  BY <1>3 DEF V!Packet
<1>4. ASSUME NEW a, NEW t, NEW b, NEW id, V!Digest(a, t, b, id) PROVE setup' = setup
  BY <1>4 DEF V!Digest
<1>5. CASE UNCHANGED V!vars
  BY <1>5 DEF V!vars
<1> QED BY <1>1, <1>2, <1>3, <1>4, <1>5 DEF V!Next

\* No controller changes a table, counter or meter that another one has, in any
\* setup whose names do not get into each other's way.
THEOREM TenantsIsolated == V!Spec /\ V!TidyNames /\ V!TidyPrefixes => Isolated
<1> DEFINE A == \A b \in V!Tenants : answer'.op = "write" /\ answer'.by # b =>
                  \A t \in V!Range(V!Targets(b)) :
                    LET his == UNION {V!ConvertId(V!Conv(b, t), k, i) :
                                        k \in {"table", "counter", "meter"},
                                        i \in UNION {V!Ids(setup.info[b], j) : j \in V!Kinds}}
                    IN {x \in dev[t] : x.id \in his} = {x \in dev'[t] : x.id \in his}
<1>1. V!Init /\ V!TidyNames /\ V!TidyPrefixes => Tidied
  BY DEF V!Init, Tidied
<1>2. ASSUME Tidied, [V!Next]_(V!vars) PROVE Tidied'
  <2>1. setup' = setup
    BY <1>2, SetupStays
  <2> QED BY <1>2, <2>1 DEF Tidied, V!TidyNames, V!TidyPrefixes, V!Tenants, V!Targets, V!IsPlain
<1>3. ASSUME Tidied, [V!Next]_(V!vars) PROVE [A]_(V!vars)
  <2> SUFFICES ASSUME V!Next, NEW b \in V!Tenants, answer'.op = "write", answer'.by # b, NEW t \in V!Range(V!Targets(b))
               PROVE  {x \in dev[t] : x.id \in His(b, t)} = {x \in dev'[t] : x.id \in His(b, t)}
    BY <1>3 DEF His
  <2>3. ASSUME NEW a, NEW e, V!Read(a, e) PROVE FALSE
    BY <2>3 DEF V!Read, V!Answer
  <2>4. ASSUME NEW a, NEW u, NEW e, V!Packet(a, u, e) PROVE FALSE
    BY <2>4 DEF V!Packet, V!NoAnswer
  <2>5. ASSUME NEW a, NEW u, NEW d, NEW id, V!Digest(a, u, d, id) PROVE FALSE
    BY <2>5 DEF V!Digest, V!Answer
  <2>0. PICK a \in V!Tenants : \E w \in V!Writes(setup.info[a]) : V!Write(a, w[1], w[2])
    BY <2>3, <2>4, <2>5 DEF V!Next
  <2>1. PICK w \in V!Writes(setup.info[a]) : V!Write(a, w[1], w[2])
    BY <2>0
  <2>2. answer'.by = a
    BY <2>1 DEF V!Write, V!Answer
  <2>6. \A x : x.id \in His(b, t) => (x \in dev[t] <=> x \in dev'[t])
    BY <1>3, <2>1, <2>2, WriteIsLocal
  <2> QED BY <2>6
<1> QED BY <1>1, <1>2, <1>3, PTL DEF V!Spec, Isolated, V!Isolated

----------------------------------------------------------------------------
\* Targets that mirror the virtual devices of their tenants.

(***************************************************************************)
(* Names and ids of a tenant and of its targets stand for each other.      *)
(***************************************************************************)
Orderly == setup \in Setups /\ V!Tidy
OnTarget(a, t) == a \in V!Tenants /\ t \in V!Range(V!Targets(a))

LEMMA OrderlyIsTidied == ASSUME Orderly PROVE Tidied
BY DEF Orderly, Tidied, V!Tidy

LEMMA WithoutConcat ==
  ASSUME NEW E, NEW p \in Seq(E), NEW s \in Seq(E)
  PROVE  V!Without(p \o s, p) = s
<1> DEFINE u == SubSeq(p \o s, Len(p) + 1, Len(p \o s))
<1>1. /\ p \o s \in Seq(E) /\ Len(p \o s) = Len(p) + Len(s) /\ Len(p) \in Nat /\ Len(s) \in Nat
      /\ \A i \in 1..(Len(p) + Len(s)) : (p \o s)[i] = IF i <= Len(p) THEN p[i] ELSE s[i - Len(p)]
  BY ConcatProperties, LenProperties
<1>2. /\ u \in Seq(E) /\ Len(u) = Len(s)
      /\ \A i \in 1..Len(s) : u[i] = (p \o s)[Len(p) + 1 + i - 1]
  <2> DEFINE m == Len(p) + 1
             n == Len(p \o s)
             w == p \o s
  <2>1. w \in Seq(E) /\ m \in Int /\ n \in Int /\ n - m + 1 = Len(s) /\ (m <= n <=> Len(s) # 0)
        /\ \A i \in m..n : i \in 1..Len(w)
    BY <1>1
  <2> HIDE DEF m, n, w
  <2>2. \A i \in m..n : w[i] \in E
    BY <2>1, ElementOfSeq
  <2>3. /\ SubSeq(w, m, n) \in Seq(E)
        /\ Len(SubSeq(w, m, n)) = IF m <= n THEN n - m + 1 ELSE 0
        /\ \A i \in 1 .. n - m + 1 : SubSeq(w, m, n)[i] = w[m + i - 1]
    BY <2>1, <2>2, SubSeqProperties
  <2> QED BY <1>1, <2>1, <2>3 DEF m, n, w
<1>3. \A i \in 1..Len(s) : u[i] = s[i]
  <2> TAKE i \in 1..Len(s)
  <2>1. Len(p) + 1 + i - 1 \in 1..(Len(p) + Len(s)) /\ ~(Len(p) + 1 + i - 1 <= Len(p)) /\ (Len(p) + 1 + i - 1) - Len(p) = i
    BY <1>1
  <2> QED BY <1>1, <1>2, <2>1
<1> HIDE DEF u
<1>4. u = s
  BY <1>1, <1>2, <1>3, SeqEqual
<1> QED BY <1>4 DEF u, V!Without

LEMMA NoActionIs == NoAction.base = <<"NoAction">> /\ NoAction.space = <<>>
BY Zenon DEF NoAction

LEMMA LongerThanOne ==
  ASSUME NEW E, NEW p \in Seq(E), NEW s \in Seq(E), p # <<>>, s # <<>>
  PROVE  p \o s \in Seq(E) /\ p \o s # <<>> /\ \A x : p \o s # <<x>>
<1> DEFINE w == p \o s
<1>1. Len(p) \in Nat \ {0} /\ Len(s) \in Nat \ {0}
  BY EmptySeq, LenProperties
<1>2. w \in Seq(E) /\ Len(w) = Len(p) + Len(s)
  BY ConcatProperties
<1> HIDE DEF w
<1>3. Len(w) \in Nat /\ Len(w) > 1
  BY <1>1, <1>2
<1>4. w # <<>>
  BY <1>1, <1>3
<1>5. ASSUME NEW x, w = <<x>> PROVE FALSE
  <2>1. Len(<<x>>) = 1
    OBVIOUS
  <2> QED BY ONLY <1>3, <1>5, <2>1, SMT
<1>6. \A x : w # <<x>>
  BY <1>5
<1> QED BY <1>2, <1>4, <1>6 DEF w

LEMMA PrefixOfConcat ==
  ASSUME NEW E, NEW p \in Seq(E), NEW s \in Seq(E)
  PROVE  IsPrefix(p, p \o s)
BY PrefixOfSelf, PrefixOfMore

\* The name that stands for n at t leads back to n.
LEMMA NameBack ==
  ASSUME Orderly, NEW a, NEW t, OnTarget(a, t), NEW k \in Kinds, NEW n \in setup.info[a].names[k]
  PROVE  /\ V!NameAt(a, t, n) \in Named
         /\ V!RemovePrefixP4Name(V!RenamedBack(V!Conv(a, t), V!NameAt(a, t, n)), setup.prefix[a]) = {n}
         /\ n # NoAction => V!IsPrefix(setup.prefix[a], V!NameAt(a, t, n).base)
<1> DEFINE p == setup.prefix[a]
           conv == V!Conv(a, t)
           map == setup.names[a][t].map
           names == setup.info[a].names
           o == V!NameAt(a, t, n)
<1>0. conv.prefix = p /\ conv.converts = map /\ conv.from = setup.info[a] /\ conv.to = setup.program[t]
  BY DEF V!Conv
<1>1. p \in Seq(STRING) /\ n \in Named /\ n = [space |-> n.space, base |-> n.base]
      /\ n.base \in Seq(STRING) /\ n.base # <<>> /\ n.space \in Seq(STRING) /\ n \in V!AllNames(setup.info[a])
  <2>1. setup.info[a] \in P4Info /\ p \in Seq(STRING)
    BY SetupTyped DEF Orderly, OnTarget
  <2>2. n \in Named
    BY <2>1 DEF P4Info
  <2> QED BY <2>1, <2>2 DEF Named, V!AllNames, V!Kinds, Kinds
<1>2. /\ p # <<>> => V!IsPlain(a, t) /\ ~V!IsPrefix(p, n.space)
      /\ V!IsInjective(map) /\ V!Range(map) \subseteq V!AllNames(setup.program[t])
      /\ V!Range(map) \cap (V!AllNames(setup.info[a]) \ DOMAIN map) = {}
  BY <1>1 DEF Orderly, V!Tidy, V!TidyNames, OnTarget
<1>3. CASE p # <<>>
  <2>1. \A m \in DOMAIN map : map[m] = m
    BY <1>2, <1>3 DEF V!IsPlain
  <2>2. V!Renamed(conv, n) = n
    BY <1>0, <2>1 DEF V!Renamed
  <2>3. o = V!PrefixP4Name(n, p)
    BY <2>2 DEF V!NameAt
  <2>4. V!RenamedBack(conv, o) = o
    <3>1. CASE o \in V!Range(map)
      <4>1. o \in DOMAIN map /\ map[o] = o
        BY <2>1, <3>1 DEF V!Range
      <4>2. V!AntiFunction(map)[o] = o
        BY <2>1, <4>1 DEF V!AntiFunction, V!Inverse, V!Range
      <4> QED BY <1>0, <3>1, <4>2 DEF V!RenamedBack
    <3>2. CASE o \notin V!Range(map)
      BY <1>0, <3>2 DEF V!RenamedBack
    <3> QED BY <3>1, <3>2
  <2>5. CASE n = NoAction
    <3>1. o = n
      BY <2>3, <2>5 DEF V!PrefixP4Name, V!NoAction, NoAction
    <3> QED BY <1>1, <2>4, <2>5, <3>1 DEF V!RemovePrefixP4Name, V!NoAction, NoAction
  <2>6. CASE n # NoAction
    <3>1. o = [space |-> n.space, base |-> p \o n.base]
      BY <1>1, <2>3, <2>6 DEF V!PrefixP4Name, V!NoAction, NoAction
    <3>2. p \o n.base \in Seq(STRING) /\ p \o n.base # <<>> /\ o # NoAction /\ o.base = p \o n.base /\ o.space = n.space
      <4>1. p \o n.base \in Seq(STRING) /\ p \o n.base # <<>> /\ p \o n.base # <<"NoAction">>
        BY <1>1, <1>3, LongerThanOne
      <4> HIDE DEF o, p
      <4>2. o.base = p \o n.base /\ o.space = n.space
        BY ONLY <3>1, Zenon
      <4>3. o # NoAction
        BY <4>1, <4>2, NoActionIs
      <4> QED BY <4>1, <4>2, <4>3
    <3>3. IsPrefix(p, o.base)
      BY <1>1, <3>2, PrefixOfConcat
    <3>4. V!IsPrefix(p, o.base)
      BY <3>3 DEF V!IsPrefix, IsPrefix
    <3>5. V!Without(o.base, p) = n.base
      BY <1>1, <3>2, WithoutConcat
    <3>6. [o EXCEPT !.base = V!Without(o.base, p)] = n
      BY <1>1, <3>1, <3>5
    <3>7. V!RemovePrefixP4Name(o, p) = {n}
      <4>1. CASE n.space = <<>>
        <5>1. V!StartsWith(o, p)
          BY <3>2, <3>4, <4>1 DEF V!StartsWith
        <5> QED BY <3>2, <3>6, <4>1, <5>1 DEF V!RemovePrefixP4Name, V!NoAction, NoAction
      <4>2. CASE n.space # <<>>
        <5>1. ~V!StartsWith(o, p)
          BY <1>2, <1>3, <3>2, <4>2 DEF V!StartsWith
        <5> QED BY <3>2, <3>4, <3>6, <4>2, <5>1 DEF V!RemovePrefixP4Name, V!NoAction, NoAction
      <4> QED BY <4>1, <4>2
    <3>8. o \in Named
      BY <1>1, <3>1, <3>2 DEF Named
    <3> QED BY <2>4, <3>4, <3>7, <3>8
  <2> QED BY <2>4, <2>5, <2>6, <1>1, <2>3 DEF V!PrefixP4Name, V!NoAction, NoAction
<1>4. CASE p = <<>>
  <2>1. \A m \in Named : V!PrefixP4Name(m, p) = m
    <3> TAKE m \in Named
    <3>1. m = [space |-> m.space, base |-> m.base] /\ <<>> \o m.base = m.base
      BY DEF Named
    <3> QED BY <1>4, <3>1 DEF V!PrefixP4Name
  <2>2. V!Renamed(conv, n) \in Named
    <3>1. CASE n \in DOMAIN map
      <4>1. map[n] \in V!AllNames(setup.program[t])
        BY <1>2, <3>1 DEF V!Range
      <4>2. setup.program[t] \in P4Info
        BY SetupTyped, SetupsAssumption DEF Orderly, OnTarget, V!AllTargets
      <4>3. map[n] \in Named
        BY <4>1, <4>2 DEF V!AllNames, P4Info, V!Kinds, Kinds
      <4> QED BY <1>0, <3>1, <4>3 DEF V!Renamed
    <3>2. CASE n \notin DOMAIN map
      BY <1>0, <1>1, <3>2 DEF V!Renamed
    <3> QED BY <3>1, <3>2
  <2>3. o = V!Renamed(conv, n)
    BY <2>1, <2>2 DEF V!NameAt
  <2>4. V!RenamedBack(conv, o) = n
    <3>1. CASE n \in DOMAIN map
      <4>1. o = map[n] /\ o \in V!Range(map)
        BY <1>0, <2>3, <3>1 DEF V!Renamed, V!Range
      <4>2. \A m \in DOMAIN map : map[m] = o => m = n
        BY <1>2, <3>1, <4>1 DEF V!IsInjective
      <4>3. V!AntiFunction(map)[o] = n
        BY <3>1, <4>1, <4>2 DEF V!AntiFunction, V!Inverse, V!Range
      <4> QED BY <1>0, <4>1, <4>3 DEF V!RenamedBack
    <3>2. CASE n \notin DOMAIN map
      <4>1. o = n /\ n \notin V!Range(map)
        BY <1>0, <1>1, <1>2, <2>3, <3>2 DEF V!Renamed
      <4> QED BY <1>0, <4>1 DEF V!RenamedBack
    <3> QED BY <3>1, <3>2
  <2>5. V!RemovePrefixP4Name(n, p) = {n}
    <3>1. V!IsPrefix(p, n.base) /\ V!IsPrefix(p, n.space)
      BY <1>1, <1>4, PrefixEmpty DEF V!IsPrefix, IsPrefix
    <3>2. V!StartsWith(n, p)
      BY <3>1 DEF V!StartsWith
    <3>3. V!Without(n.base, p) = n.base /\ V!Without(n.space, p) = n.space
      <4>1. <<>> \o n.base = n.base /\ <<>> \o n.space = n.space
        BY <1>1
      <4> QED BY <1>1, <1>4, <4>1, WithoutConcat
    <3> QED BY <1>1, <3>2, <3>3 DEF V!RemovePrefixP4Name
  <2>6. V!IsPrefix(p, o.base)
    <3>1. o.base \in Seq(STRING)
      BY <2>2, <2>3 DEF Named
    <3> QED BY <1>4, <3>1, PrefixEmpty DEF V!IsPrefix, IsPrefix
  <2> QED BY <2>2, <2>3, <2>4, <2>5, <2>6
<1> QED BY <1>3, <1>4

\* The ids of a name of a tenant, on its own device and at a target.
MyId(a, k, n) == V!IdIn(setup.info[a], k, n)
IdAt(a, t, k, n) == V!IdIn(setup.program[t], k, V!NameAt(a, t, n))

LEMMA IdParts ==
  ASSUME NEW info, NEW k, NEW n, NEW l, NEW m
  PROVE  /\ V!IdIn(info, k, n) # Zero
         /\ V!IdIn(info, k, n) = V!IdIn(info, l, m) => k = l /\ n = m
BY DEF V!IdIn, Zero

LEMMA NamesTyped ==
  ASSUME Orderly, NEW a, NEW t, OnTarget(a, t), NEW k \in Kinds
  PROVE  /\ setup.info[a].names[k] \subseteq Named /\ setup.program[t].names[k] \subseteq Named
         /\ \A m, n \in setup.info[a].names[k] : m.base = n.base => m = n
         /\ \A m, n \in setup.program[t].names[k] : m.base = n.base => m = n
         /\ k # "action" => NoAction \notin setup.info[a].names[k] /\ NoAction \notin setup.program[t].names[k]
         /\ t \in V!AllTargets /\ a \in V!Tenants
<1>1. t \in V!AllTargets /\ a \in V!Tenants /\ setup \in Setups
  BY SetupTyped DEF Orderly, OnTarget
<1>2. setup.info[a] \in P4Info /\ setup.program[t] \in P4Info
  BY <1>1, SetupsAssumption DEF V!Tenants, V!AllTargets
<1>3. setup.info[a].names[k] \in Aliased /\ setup.program[t].names[k] \in Aliased
  BY <1>2 DEF P4Info
<1>4. k # "action" => NoAction \notin setup.info[a].names[k] /\ NoAction \notin setup.program[t].names[k]
  BY <1>1, SetupsAssumption DEF V!Tenants, V!AllTargets
<1> QED BY <1>1, <1>3, <1>4 DEF Aliased

LEMMA OwnNames ==
  ASSUME Orderly, NEW a, NEW t, OnTarget(a, t), NEW k \in Kinds
  PROVE  /\ V!Own(a, t, k) \subseteq setup.info[a].names[k]
         /\ \A n \in V!Own(a, t, k) : V!NameAt(a, t, n) \in setup.program[t].names[k]
         /\ k # "action" => \A o \in setup.program[t].names[k] :
              V!IsPrefix(setup.prefix[a], o.base) => \E n \in V!Own(a, t, k) : o = V!NameAt(a, t, n)
         /\ k \in {"table", "counter", "meter"} => \A o \in setup.program[t].names[k] : o.space # <<>>
         /\ k = "digest" => \A o \in setup.program[t].names[k] : o.space = <<>>
<1>1. V!Kinds = Kinds
  BY DEF V!Kinds, Kinds
<1> QED BY <1>1 DEF Orderly, V!Tidy, V!TidyPrograms, V!Own, OnTarget

LEMMA NamesApart ==
  ASSUME Orderly, NEW a, NEW t, OnTarget(a, t), NEW k \in Kinds, NEW l \in Kinds,
         NEW m \in setup.info[a].names[k], NEW n \in setup.info[a].names[l], V!NameAt(a, t, m) = V!NameAt(a, t, n)
  PROVE  m = n
<1>1. {m} = {n}
  BY NameBack
<1> QED BY <1>1

\* An object is found by its full name.
LEMMA Found ==
  ASSUME NEW info, NEW k, NEW n \in info.names[k], \A m \in info.names[k] : m.base = n.base => m = n
  PROVE  V!GetId(info, k, n) = {V!IdIn(info, k, n)}
BY DEF V!GetId

LEMMA Gotten ==
  ASSUME NEW info, NEW k, NEW n \in info.names[k]
  PROVE  V!GetName(info, k, V!IdIn(info, k, n)) = {n}
BY DEF V!GetName, V!IdIn

LEMMA ConvertsTo ==
  ASSUME Orderly, NEW a, NEW t, OnTarget(a, t), NEW k \in Kinds, NEW n \in V!Own(a, t, k)
  PROVE  V!ConvertId(V!Conv(a, t), k, MyId(a, k, n)) = {IdAt(a, t, k, n)}
<1> DEFINE conv == V!Conv(a, t)
           o == V!NameAt(a, t, n)
<1>1. conv.prefix = setup.prefix[a] /\ conv.from = setup.info[a] /\ conv.to = setup.program[t]
  BY DEF V!Conv
<1>2. n \in setup.info[a].names[k] /\ o \in setup.program[t].names[k]
  BY OwnNames
<1>3. V!GetName(conv.from, k, MyId(a, k, n)) = {n}
  BY <1>1, <1>2, Gotten DEF MyId
<1>4. V!GetId(conv.to, k, o) = {IdAt(a, t, k, n)}
  BY <1>1, <1>2, NamesTyped, Found DEF IdAt
<1>5. V!PrefixP4Name(V!Renamed(conv, n), conv.prefix) = o
  BY <1>1 DEF V!NameAt
<1>6. V!ConvertId(conv, k, MyId(a, k, n)) = UNION {V!GetId(conv.to, k, V!PrefixP4Name(V!Renamed(conv, name), conv.prefix)) : name \in {n}}
  BY <1>3 DEF V!ConvertId
<1> QED BY <1>4, <1>5, <1>6

LEMMA ConvertsBack ==
  ASSUME Orderly, NEW a, NEW t, OnTarget(a, t), NEW k \in Kinds, NEW n \in V!Own(a, t, k)
  PROVE  V!ConvertIdBack(V!Conv(a, t), k, IdAt(a, t, k, n)) = {MyId(a, k, n)}
<1> DEFINE conv == V!Conv(a, t)
           o == V!NameAt(a, t, n)
<1>1. conv.prefix = setup.prefix[a] /\ conv.from = setup.info[a] /\ conv.to = setup.program[t]
  BY DEF V!Conv
<1>2. n \in setup.info[a].names[k] /\ o \in setup.program[t].names[k]
  BY OwnNames
<1>3. V!GetName(conv.to, k, IdAt(a, t, k, n)) = {o}
  BY <1>1, <1>2, Gotten DEF IdAt
<1>4. V!GetId(conv.from, k, n) = {MyId(a, k, n)}
  BY <1>1, <1>2, NamesTyped, Found DEF MyId
<1>5. V!RemovePrefixP4Name(V!RenamedBack(conv, o), conv.prefix) = {n}
  BY <1>1, <1>2, NameBack
<1>6. V!ConvertIdBack(conv, k, IdAt(a, t, k, n)) =
        UNION {UNION {V!GetId(conv.from, k, plain) :
                        plain \in V!RemovePrefixP4Name(V!RenamedBack(conv, name), conv.prefix)} : name \in {o}}
  BY <1>3 DEF V!ConvertIdBack
<1> QED BY <1>4, <1>5, <1>6

(***************************************************************************)
(* Twins: what a tenant has and what stands for it at a target.            *)
(***************************************************************************)
Stands(a, t, k, i, j) == \E n \in V!Own(a, t, k) : i = MyId(a, k, n) /\ j = IdAt(a, t, k, n)
StandsAct(a, t, i, j) == (i = Zero /\ j = Zero) \/ Stands(a, t, "action", i, j)
Twins(a, t, x, y) ==
  /\ IsEntity(x) /\ IsEntity(y) /\ x.which = y.which /\ x.key = y.key
  /\ x.which \in WhichOnes \ {"register_entry"}
  /\ x.which \in V!Counts \/ x.data = y.data
  /\ Stands(a, t, V!IdType(x.which), x.id, y.id) /\ StandsAct(a, t, x.action, y.action)

LEMMA IdTypes == ASSUME NEW which \in WhichOnes PROVE V!IdType(which) \in Kinds /\ V!IdType(which) # "action" /\ V!IdType(which) \in Proper
BY DEF WhichOnes, V!IdType, Kinds, Proper

LEMMA StandsIs ==
  ASSUME Orderly, NEW a, NEW t, OnTarget(a, t), NEW k \in Kinds, NEW i, NEW j, Stands(a, t, k, i, j)
  PROVE  /\ i # Zero /\ j # Zero
         /\ V!ConvertId(V!Conv(a, t), k, i) = {j} /\ V!ConvertIdBack(V!Conv(a, t), k, j) = {i}
         /\ i \in V!Ids(setup.info[a], k) /\ j \in V!Ids(setup.program[t], k)
<1>1. PICK n \in V!Own(a, t, k) : i = MyId(a, k, n) /\ j = IdAt(a, t, k, n)
  BY DEF Stands
<1>2. i # Zero /\ j # Zero
  BY <1>1, IdParts DEF MyId, IdAt
<1>3. V!ConvertId(V!Conv(a, t), k, i) = {j} /\ V!ConvertIdBack(V!Conv(a, t), k, j) = {i}
  BY <1>1, ConvertsTo, ConvertsBack
<1>4. i \in V!Ids(setup.info[a], k) /\ j \in V!Ids(setup.program[t], k)
  BY <1>1, OwnNames DEF V!Ids, MyId, IdAt
<1> QED BY <1>2, <1>3, <1>4

LEMMA StandsOne ==
  ASSUME Orderly, NEW a, NEW t, OnTarget(a, t), NEW k \in Kinds, NEW i, NEW j, Stands(a, t, k, i, j),
         NEW l \in Kinds, NEW u, NEW v, Stands(a, t, l, u, v)
  PROVE  (i = u <=> j = v) /\ (i = u => k = l)
<1>1. PICK n \in V!Own(a, t, k) : i = MyId(a, k, n) /\ j = IdAt(a, t, k, n)
  BY DEF Stands
<1>2. PICK m \in V!Own(a, t, l) : u = MyId(a, l, m) /\ v = IdAt(a, t, l, m)
  BY DEF Stands
<1>3. i = u <=> k = l /\ n = m
  BY <1>1, <1>2 DEF MyId, V!IdIn
<1>4. j = v <=> k = l /\ V!NameAt(a, t, n) = V!NameAt(a, t, m)
  BY <1>1, <1>2 DEF IdAt, V!IdIn
<1>5. V!NameAt(a, t, n) = V!NameAt(a, t, m) => n = m
  BY OwnNames, NamesApart
<1> QED BY <1>3, <1>4, <1>5

LEMMA TwinCells ==
  ASSUME Orderly, NEW a, NEW t, OnTarget(a, t), NEW x, NEW y, Twins(a, t, x, y), NEW u, NEW v, Twins(a, t, u, v)
  PROVE  V!SameCell(x, u) <=> V!SameCell(y, v)
<1>1. x.id = u.id <=> y.id = v.id
  BY StandsOne, IdTypes DEF Twins
<1> QED BY <1>1 DEF V!SameCell, Twins

LEMMA OneEntity ==
  ASSUME NEW w, NEW i, NEW b, NEW k, NEW d
  PROVE  {V!Entity(w, j, c, k, d) : j \in {i}, c \in {b}} = {V!Entity(w, i, b, k, d)}
<1> DEFINE S == {V!Entity(w, j, c, k, d) : j \in {i}, c \in {b}}
<1>1. V!Entity(w, i, b, k, d) \in S
  OBVIOUS
<1>2. \A x \in S : x = V!Entity(w, i, b, k, d)
  OBVIOUS
<1> HIDE DEF S
<1>3. S = {V!Entity(w, i, b, k, d)}
  BY <1>1, <1>2
<1> QED BY <1>3 DEF S

\* Conversion and its reverse take twins to each other.
LEMMA TwinConverts ==
  ASSUME Orderly, NEW a, NEW t, OnTarget(a, t), NEW x, NEW y, Twins(a, t, x, y)
  PROVE  /\ V!ConvertEntity(V!Conv(a, t), x) = {V!Entity(x.which, y.id, y.action, x.key, x.data)}
         /\ V!ConvertEntityBack(V!Conv(a, t), y) = {V!Entity(y.which, x.id, x.action, y.key, y.data)}
<1> DEFINE conv == V!Conv(a, t)
           k == V!IdType(x.which)
<1>1. /\ k \in Kinds /\ "action" \in Kinds /\ Stands(a, t, k, x.id, y.id) /\ k = V!IdType(y.which)
      /\ V!Zero = Zero
  BY IdTypes DEF Twins, Kinds, V!Zero, Zero
<1>2. x.id # Zero /\ y.id # Zero /\ V!ConvertId(conv, k, x.id) = {y.id} /\ V!ConvertIdBack(conv, k, y.id) = {x.id}
  BY <1>1, StandsIs
<1>3. \/ x.action = Zero /\ y.action = Zero
      \/ /\ x.action # Zero /\ y.action # Zero
         /\ V!ConvertId(conv, "action", x.action) = {y.action}
         /\ V!ConvertIdBack(conv, "action", y.action) = {x.action}
  BY <1>1, StandsIs DEF Twins, StandsAct
<1> DEFINE To(kind, id) == IF id = V!Zero THEN {V!Zero} ELSE IF FALSE THEN V!ConvertIdBack(conv, kind, id) ELSE V!ConvertId(conv, kind, id)
           Back(kind, id) == IF id = V!Zero THEN {V!Zero} ELSE IF TRUE THEN V!ConvertIdBack(conv, kind, id) ELSE V!ConvertId(conv, kind, id)
<1>4. To(k, x.id) = {y.id} /\ To("action", x.action) = {y.action}
  BY <1>1, <1>2, <1>3
<1>5. Back(k, y.id) = {x.id} /\ Back("action", y.action) = {x.action}
  BY <1>1, <1>2, <1>3
<1>6. V!ConvertEntity(conv, x) = {V!Entity(x.which, i, act, x.key, x.data) : i \in To(k, x.id), act \in To("action", x.action)}
  BY DEF V!ConvertEntity, V!ConvertedEntity
<1>7. V!ConvertEntityBack(conv, y) = {V!Entity(y.which, i, act, y.key, y.data) : i \in Back(V!IdType(y.which), y.id), act \in Back("action", y.action)}
  BY DEF V!ConvertEntityBack, V!ConvertedEntity
<1> HIDE DEF To, Back
<1>8. V!ConvertEntity(conv, x) = {V!Entity(x.which, i, act, x.key, x.data) : i \in {y.id}, act \in {y.action}}
  BY <1>4, <1>6
<1>9. V!ConvertEntityBack(conv, y) = {V!Entity(y.which, i, act, y.key, y.data) : i \in {x.id}, act \in {x.action}}
  BY <1>1, <1>5, <1>7
<1> QED BY <1>8, <1>9, OneEntity

(***************************************************************************)
(* A target reflects a tenant: twins on both sides.                        *)
(***************************************************************************)
Told == WhichOnes \ {"register_entry"}
Part(a, t, x) == x.which \in Told /\ \E n \in V!Own(a, t, V!IdType(x.which)) : x.id = MyId(a, V!IdType(x.which), n)
Image(a, t, y) == y.which \in Told /\ \E n \in V!Own(a, t, V!IdType(y.which)) : y.id = IdAt(a, t, V!IdType(y.which), n)
MyCell(a, x) ==
  /\ IsEntity(x) /\ x.which \in WhichOnes
  /\ x.which \in Told => \E n \in setup.info[a].names[V!IdType(x.which)] : x.id = MyId(a, V!IdType(x.which), n)
CellAt(t, y) ==
  /\ IsEntity(y) /\ y.which \in WhichOnes
  /\ y.which \in Told => \E o \in setup.program[t].names[V!IdType(y.which)] :
                           y.id = V!IdIn(setup.program[t], V!IdType(y.which), o)
Reflects(a, t, xs, ys) ==
  /\ \A x \in xs : Part(a, t, x) => \E y \in ys : Twins(a, t, x, y)
  /\ \A y \in ys : Image(a, t, y) => \E x \in xs : Twins(a, t, x, y)

Bare(x) == [x EXCEPT !.data = IF x.which \in V!Counts THEN 0 ELSE @]

LEMMA BareIs ==
  ASSUME NEW x, IsEntity(x)
  PROVE  Bare(x) = V!Entity(x.which, x.id, x.action, x.key, IF x.which \in V!Counts THEN 0 ELSE x.data)
BY DEF Bare, IsEntity, V!Entity

LEMMA NamesOf ==
  ASSUME NEW info, NEW x, x.which \in Told, NEW n \in info.names[V!IdType(x.which)], x.id = V!IdIn(info, V!IdType(x.which), n)
  PROVE  V!EntityName(info, x) = {n}
<1>1. V!GetName(info, V!IdType(x.which), x.id) = {n} /\ x.id # Zero /\ V!Zero = Zero
  BY Gotten, IdParts DEF V!Zero, Zero
<1> QED BY <1>1 DEF V!EntityName, Told

\* The part of the device that a target has.
LEMMA PartIs ==
  ASSUME Orderly, NEW a, NEW t, OnTarget(a, t), NEW x, MyCell(a, x), x.which \in Told
  PROVE  Part(a, t, x) <=> Len(V!Targets(a)) = 1 \/ \A n \in V!EntityName(setup.info[a], x) : V!Handles(a, t, n)
<1> DEFINE k == V!IdType(x.which)
<1>1. k \in Kinds /\ k # "action"
  BY IdTypes DEF Told
<1>2. PICK n \in setup.info[a].names[k] : x.id = MyId(a, k, n)
  BY DEF MyCell
<1>3. V!EntityName(setup.info[a], x) = {n}
  BY <1>2, NamesOf DEF MyId
<1>4. Part(a, t, x) <=> n \in V!Own(a, t, k)
  BY <1>1, <1>2, IdParts DEF Part, MyId
<1> QED BY <1>1, <1>2, <1>3, <1>4 DEF V!Own

\* What is read back under a's names is the image of something a has.
LEMMA ImageIs ==
  ASSUME Orderly, NEW a, NEW t, OnTarget(a, t), NEW y, CellAt(t, y), y.which \in Told
  PROVE  /\ (\A n \in V!EntityName(setup.program[t], y) : y.which = "digest_entry" \/ V!Mine(a, n))
            /\ V!ConvertEntityBack(V!Conv(a, t), y) # {} => Image(a, t, y)
         /\ Image(a, t, y) =>
              \A n \in V!EntityName(setup.program[t], y) : y.which = "digest_entry" \/ V!Mine(a, n)
<1> DEFINE k == V!IdType(y.which)
           prefix == setup.prefix[a]
           conv == V!Conv(a, t)
<1>1. k \in Kinds /\ k # "action" /\ (y.which = "digest_entry" <=> k = "digest")
      /\ (k # "digest" => k \in {"table", "counter", "meter"})
  BY IdTypes DEF V!IdType, Told, WhichOnes
<1>2. PICK o \in setup.program[t].names[k] : y.id = V!IdIn(setup.program[t], k, o)
  BY DEF CellAt
<1>3. V!EntityName(setup.program[t], y) = {o}
  BY <1>2, NamesOf
<1>4. Image(a, t, y) <=> \E n \in V!Own(a, t, k) : o = V!NameAt(a, t, n)
  BY <1>1, <1>2, IdParts DEF Image, IdAt
<1>5. o \in Named /\ o # NoAction
  BY <1>1, <1>2, NamesTyped
<1>6. V!IsPrefix(prefix, o.base) => Image(a, t, y)
  BY <1>1, <1>2, <1>4, OwnNames
<1>7. V!Mine(a, o) <=> o.space # <<>> /\ V!IsPrefix(prefix, o.base)
  BY DEF V!Mine, V!PureP4Name
<1>8. CASE k # "digest"
  <2>1. Image(a, t, y) => V!Mine(a, o)
    <3> SUFFICES ASSUME Image(a, t, y) PROVE V!Mine(a, o)
      OBVIOUS
    <3>1. PICK n \in V!Own(a, t, k) : o = V!NameAt(a, t, n)
      BY <1>4
    <3>2. n \in setup.info[a].names[k] /\ n # NoAction
      BY <1>1, <3>1, OwnNames, NamesTyped
    <3>3. V!IsPrefix(prefix, o.base)
      BY <1>1, <3>1, <3>2, NameBack
    <3>4. o.space # <<>>
      BY <1>1, <1>2, <1>8, OwnNames
    <3> QED BY <1>7, <3>3, <3>4
  <2> QED BY <1>1, <1>3, <1>6, <1>7, <1>8, <2>1
<1>9. CASE k = "digest"
  <2>1. SUFFICES ASSUME V!ConvertEntityBack(conv, y) # {} PROVE V!IsPrefix(prefix, o.base)
    BY <1>1, <1>3, <1>6, <1>9
  <2>2. o.space = <<>>
    BY <1>1, <1>2, <1>9, OwnNames
  <2>3. CASE prefix = <<>>
    <3>1. o.base \in Seq(STRING)
      BY <1>5 DEF Named
    <3> QED BY <2>3, <3>1, PrefixEmpty DEF V!IsPrefix, IsPrefix
  <2>4. CASE prefix # <<>>
    <3>1. \A m \in DOMAIN setup.names[a][t].map : setup.names[a][t].map[m] = m
      BY <2>4 DEF Orderly, V!Tidy, V!TidyNames, V!IsPlain, OnTarget
    <3>2. V!RenamedBack(conv, o) = o
      BY <3>1 DEF V!RenamedBack, V!Conv, V!AntiFunction, V!Inverse, V!Range
    <3>3. V!ConvertIdBack(conv, k, y.id) # {}
      <4>1. y.id # Zero /\ V!Zero = Zero
        BY <1>2, IdParts DEF V!Zero, Zero
      <4> QED BY <2>1, <4>1 DEF V!ConvertEntityBack, V!ConvertedEntity
    <3>4. V!GetName(conv.to, k, y.id) = {o}
      BY <1>2, Gotten DEF V!Conv
    <3>5. V!RemovePrefixP4Name(o, prefix) # {}
      <4>1. conv.prefix = prefix
        BY DEF V!Conv
      <4>2. V!ConvertIdBack(conv, k, y.id) =
              UNION {UNION {V!GetId(conv.from, k, plain) :
                        plain \in V!RemovePrefixP4Name(V!RenamedBack(conv, name), conv.prefix)} : name \in {o}}
        BY <3>4 DEF V!ConvertIdBack
      <4> QED BY <3>2, <3>3, <4>1, <4>2
    <3>6. V!StartsWith(o, prefix)
      <4>1. V!NoAction = NoAction
        BY DEF V!NoAction, NoAction
      <4> QED BY <1>5, <2>2, <3>5, <4>1 DEF V!RemovePrefixP4Name
    <3> QED BY <2>2, <3>6 DEF V!StartsWith
  <2> QED BY <2>3, <2>4
<1> QED BY <1>8, <1>9

\* A twin is had, and what stands for it is read back as the same but for counts.
LEMMA TwinParts ==
  ASSUME NEW a, NEW t, NEW x, NEW y, Twins(a, t, x, y)
  PROVE  Part(a, t, x) /\ Image(a, t, y) /\ x.which \in Told /\ y.which \in Told
BY DEF Twins, Stands, Part, Image, Told

LEMMA TwinBare ==
  ASSUME Orderly, NEW a, NEW t, OnTarget(a, t), NEW x, NEW y, Twins(a, t, x, y),
         NEW z \in V!ConvertEntityBack(V!Conv(a, t), y)
  PROVE  Bare(z) = Bare(x) /\ z.which = x.which
<1>1. z = V!Entity(y.which, x.id, x.action, y.key, y.data)
  BY TwinConverts
<1>2. /\ IsEntity(z) /\ z.which = x.which /\ z.id = x.id /\ z.action = x.action /\ z.key = x.key
      /\ z.which \in V!Counts \/ z.data = x.data
  BY <1>1 DEF IsEntity, V!Entity, Twins
<1>3. Bare(z) = V!Entity(z.which, z.id, z.action, z.key, IF z.which \in V!Counts THEN 0 ELSE z.data)
  BY <1>2, BareIs
<1>4. Bare(x) = V!Entity(x.which, x.id, x.action, x.key, IF x.which \in V!Counts THEN 0 ELSE x.data)
  BY BareIs DEF Twins
<1> QED BY <1>2, <1>3, <1>4

LEMMA ReflectsMirrors ==
  ASSUME Orderly, NEW a, NEW t, OnTarget(a, t), \A x \in virtual[a] : MyCell(a, x), \A y \in dev[t] : CellAt(t, y),
         Reflects(a, t, virtual[a], dev[t])
  PROVE  V!Uncounted(V!PartAt(a, t)) =
           V!Uncounted({x \in virtual[a] : Len(V!Targets(a)) = 1
                                          \/ \A n \in V!EntityName(setup.info[a], x) : V!Handles(a, t, n)})
<1> DEFINE conv == V!Conv(a, t)
           Shown(y) == \A n \in V!EntityName(setup.program[t], y) : y.which = "digest_entry" \/ V!Mine(a, n)
           Had(x) == Len(V!Targets(a)) = 1 \/ \A n \in V!EntityName(setup.info[a], x) : V!Handles(a, t, n)
           L == V!Uncounted(V!PartAt(a, t))
           R == V!Uncounted({x \in virtual[a] : Had(x)})
<1>1. \A c : c \in L <=> \E y \in dev[t] : Shown(y) /\ \E z \in V!ConvertEntityBack(conv, y) :
                            z.which # "register_entry" /\ c = Bare(z)
  BY DEF V!Uncounted, V!PartAt, Bare
<1>2. \A c : c \in R <=> \E x \in virtual[a] : Had(x) /\ x.which # "register_entry" /\ c = Bare(x)
  BY DEF V!Uncounted, Bare
<1>3. ASSUME NEW y \in dev[t], NEW z \in V!ConvertEntityBack(conv, y) PROVE z.which = y.which
  <2>1. IsEntity(y)
    BY DEF CellAt
  <2> QED BY <2>1 DEF V!ConvertEntityBack, V!ConvertedEntity, V!Entity
<1>4. ASSUME NEW y \in dev[t], Shown(y), NEW z \in V!ConvertEntityBack(conv, y), z.which # "register_entry"
      PROVE  Bare(z) \in R
  <2>1. CellAt(t, y) /\ y.which \in Told
    BY <1>3, <1>4 DEF CellAt, Told
  <2>2. Image(a, t, y)
    BY <1>4, <2>1, ImageIs
  <2>3. PICK x \in virtual[a] : Twins(a, t, x, y)
    BY <2>2 DEF Reflects
  <2>4. Bare(z) = Bare(x) /\ Part(a, t, x) /\ x.which \in Told /\ MyCell(a, x)
    BY <1>4, <2>3, TwinBare, TwinParts
  <2>5. Had(x) /\ x.which # "register_entry"
    BY <2>4, PartIs DEF Told
  <2> HIDE DEF R, Had
  <2> QED BY <1>2, <2>4, <2>5
<1>5. ASSUME NEW x \in virtual[a], Had(x), x.which # "register_entry" PROVE Bare(x) \in L
  <2>1. MyCell(a, x) /\ x.which \in Told
    BY <1>5 DEF MyCell, Told
  <2>2. PICK y \in dev[t] : Twins(a, t, x, y)
    BY <1>5, <2>1, PartIs DEF Reflects
  <2>3. Image(a, t, y) /\ y.which \in Told /\ CellAt(t, y)
    BY <2>2, TwinParts
  <2>4. Shown(y)
    BY <2>3, ImageIs
  <2>5. PICK z : z \in V!ConvertEntityBack(conv, y)
    BY <2>2, TwinConverts
  <2>6. Bare(z) = Bare(x) /\ z.which # "register_entry"
    BY <1>5, <2>2, <2>5, TwinBare
  <2> HIDE DEF L, Shown
  <2> QED BY <1>1, <2>4, <2>5, <2>6
<1>6. L \subseteq R
  <2> HIDE DEF L, R, Shown
  <2> QED BY <1>1, <1>4
<1>7. R \subseteq L
  <2> HIDE DEF L, R, Had
  <2> QED BY <1>2, <1>5
<1>8. L = R
  BY <1>6, <1>7
<1> QED BY <1>8

(***************************************************************************)
(* An update of a switch and its twin at a target.                         *)
(***************************************************************************)
Types == {"INSERT", "MODIFY", "DELETE"}
Counted(e) == V!Entity("direct_counter_entry", e.id, V!Zero, e.key, 0)

LEMMA ApplyIs ==
  ASSUME NEW cells, NEW e, NEW x
  PROVE  /\ x \in V!Apply(cells, "INSERT", e) <=> x \in cells \/ x = e \/ (e.which = "table_entry" /\ x = Counted(e))
         /\ x \in V!Apply(cells, "MODIFY", e) <=> (x \in cells /\ ~V!SameCell(x, e)) \/ x = e
         /\ x \in V!Apply(cells, "DELETE", e) <=> x \in cells /\ ~V!SameCell(x, e) /\ ~V!SameCell(x, Counted(e))
BY DEF V!Apply, Counted

LEMMA ApplyKeeps ==
  ASSUME NEW cells, NEW type \in Types, NEW e, NEW x \in V!Apply(cells, type, e)
  PROVE  x \in cells \/ x = e \/ (e.which = "table_entry" /\ x = Counted(e))
BY ApplyIs DEF Types

LEMMA CountedTwins ==
  ASSUME NEW a, NEW t, NEW e, NEW c, Twins(a, t, e, c), e.which = "table_entry"
  PROVE  Twins(a, t, Counted(e), Counted(c))
<1>1. /\ Counted(e).which = "direct_counter_entry" /\ Counted(c).which = "direct_counter_entry"
      /\ Counted(e).id = e.id /\ Counted(c).id = c.id /\ Counted(e).key = c.key /\ Counted(c).key = c.key
      /\ Counted(e).action = Zero /\ Counted(c).action = Zero /\ Counted(e).data = 0 /\ Counted(c).data = 0
      /\ IsEntity(Counted(e)) /\ IsEntity(Counted(c))
  BY DEF Counted, V!Entity, IsEntity, V!Zero, Zero, Twins
<1>2. V!IdType("direct_counter_entry") = V!IdType("table_entry") /\ "direct_counter_entry" \in WhichOnes \ {"register_entry"}
  BY DEF V!IdType, WhichOnes
<1> QED BY <1>1, <1>2 DEF Twins, StandsAct

LEMMA TakesAlike ==
  ASSUME Orderly, NEW a, NEW t, OnTarget(a, t), NEW xs, NEW ys, Reflects(a, t, xs, ys),
         NEW type, NEW e, NEW c, Twins(a, t, e, c)
  PROVE  V!Accepts(xs, setup.info[a], type, e) <=> V!Accepts(ys, setup.program[t], type, c)
<1>1. e.id \in V!Ids(setup.info[a], V!IdType(e.which)) /\ c.id \in V!Ids(setup.program[t], V!IdType(c.which))
      /\ e.which = c.which
  BY StandsIs, IdTypes DEF Twins
<1>2. e.action \in V!Ids(setup.info[a], "action") \cup {V!Zero} /\ c.action \in V!Ids(setup.program[t], "action") \cup {V!Zero}
  <2>1. V!Zero = Zero /\ "action" \in Kinds
    BY DEF V!Zero, Zero, Kinds
  <2> QED BY <2>1, StandsIs DEF Twins, StandsAct
<1>3. (\E x \in xs : V!SameCell(x, e)) <=> \E y \in ys : V!SameCell(y, c)
  <2>1. ASSUME NEW x \in xs, V!SameCell(x, e) PROVE \E y \in ys : V!SameCell(y, c)
    <3>1. Part(a, t, x)
      BY <2>1, TwinParts DEF Part, V!SameCell
    <3>2. PICK y \in ys : Twins(a, t, x, y)
      BY <3>1 DEF Reflects
    <3> QED BY <2>1, <3>2, TwinCells
  <2>2. ASSUME NEW y \in ys, V!SameCell(y, c) PROVE \E x \in xs : V!SameCell(x, e)
    <3>1. Image(a, t, y)
      BY <2>2, TwinParts DEF Image, V!SameCell
    <3>2. PICK x \in xs : Twins(a, t, x, y)
      BY <3>1 DEF Reflects
    <3> QED BY <2>2, <3>2, TwinCells
  <2> QED BY <2>1, <2>2
<1> QED BY <1>1, <1>2, <1>3 DEF V!Accepts

LEMMA AppliesAlike ==
  ASSUME Orderly, NEW a, NEW t, OnTarget(a, t), NEW xs, NEW ys, Reflects(a, t, xs, ys),
         NEW type \in Types, NEW e, NEW c, Twins(a, t, e, c), type = "DELETE" => e.which = "table_entry"
  PROVE  Reflects(a, t, V!Apply(xs, type, e), V!Apply(ys, type, c))
<1> DEFINE As == V!Apply(xs, type, e)
           Bs == V!Apply(ys, type, c)
<1>1. e.which = c.which /\ (e.which = "table_entry" => Twins(a, t, Counted(e), Counted(c)))
  BY CountedTwins DEF Twins
<1>2. ASSUME NEW x, NEW y, Twins(a, t, x, y)
      PROVE  /\ V!SameCell(x, e) <=> V!SameCell(y, c)
             /\ e.which = "table_entry" => (V!SameCell(x, Counted(e)) <=> V!SameCell(y, Counted(c)))
  BY <1>1, <1>2, TwinCells
<1>3. ASSUME NEW x \in As, Part(a, t, x) PROVE \E y \in Bs : Twins(a, t, x, y)
  <2>1. CASE x = e
    <3>1. type # "DELETE" => c \in Bs
      BY ApplyIs DEF Types
    <3>2. type # "DELETE"
      <4>1. V!SameCell(e, e)
        BY DEF V!SameCell
      <4> QED BY <1>3, <2>1, <4>1, ApplyIs
    <3> QED BY <2>1, <3>1, <3>2
  <2>2. CASE e.which = "table_entry" /\ x = Counted(e) /\ type = "INSERT"
    <3>1. Counted(c) \in Bs
      BY <1>1, <2>2, ApplyIs
    <3> QED BY <1>1, <2>2, <3>1
  <2>3. CASE x \in xs /\ (type = "MODIFY" => ~V!SameCell(x, e))
             /\ (type = "DELETE" => ~V!SameCell(x, e) /\ ~V!SameCell(x, Counted(e)))
    <3>1. PICK y \in ys : Twins(a, t, x, y)
      BY <1>3, <2>3 DEF Reflects
    <3>2. y \in Bs
      BY <1>2, <2>3, <3>1, ApplyIs DEF Types
    <3> QED BY <3>1, <3>2
  <2> QED BY <1>3, <2>1, <2>2, <2>3, ApplyIs DEF Types
<1>4. ASSUME NEW y \in Bs, Image(a, t, y) PROVE \E x \in As : Twins(a, t, x, y)
  <2>1. CASE y = c
    <3>1. type # "DELETE" => e \in As
      BY ApplyIs DEF Types
    <3>2. type # "DELETE"
      <4>1. V!SameCell(c, c)
        BY DEF V!SameCell
      <4> QED BY <1>4, <2>1, <4>1, ApplyIs
    <3> QED BY <2>1, <3>1, <3>2
  <2>2. CASE c.which = "table_entry" /\ y = Counted(c) /\ type = "INSERT"
    <3>1. Counted(e) \in As
      BY <1>1, <2>2, ApplyIs
    <3> QED BY <1>1, <2>2, <3>1
  <2>3. CASE y \in ys /\ (type = "MODIFY" => ~V!SameCell(y, c))
             /\ (type = "DELETE" => ~V!SameCell(y, c) /\ ~V!SameCell(y, Counted(c)))
    <3>1. PICK x \in xs : Twins(a, t, x, y)
      BY <1>4, <2>3 DEF Reflects
    <3>2. x \in As
      BY <1>2, <2>3, <3>1, ApplyIs DEF Types
    <3> QED BY <3>1, <3>2
  <2> QED BY <1>4, <2>1, <2>2, <2>3, ApplyIs DEF Types
<1> QED BY <1>3, <1>4 DEF Reflects

\* An update of a part of a's device that t does not have changes nothing there.
LEMMA AppliesElsewhere ==
  ASSUME Orderly, NEW a, NEW t, OnTarget(a, t), NEW xs, NEW ys, Reflects(a, t, xs, ys),
         NEW type \in Types, NEW e, MyCell(a, e), e.which \in Told, ~Part(a, t, e)
  PROVE  Reflects(a, t, V!Apply(xs, type, e), ys)
<1>1. PICK n \in setup.info[a].names[V!IdType(e.which)] : e.id = MyId(a, V!IdType(e.which), n)
  BY DEF MyCell
<1>2. n \notin V!Own(a, t, V!IdType(e.which))
  BY <1>1 DEF Part
<1>3. ASSUME NEW x, Part(a, t, x) PROVE x.id # e.id
  <2>1. PICK m \in V!Own(a, t, V!IdType(x.which)) : x.id = MyId(a, V!IdType(x.which), m)
    BY <1>3 DEF Part
  <2> QED BY <1>1, <1>2, <2>1, IdParts DEF MyId
<1>4. ASSUME NEW x, Part(a, t, x) PROVE x \in V!Apply(xs, type, e) <=> x \in xs
  BY <1>3, <1>4, ApplyIsLocal DEF Types
<1> QED BY <1>4, TwinParts DEF Reflects

\* Nor does an update of another tenant.
LEMMA ImageUnder ==
  ASSUME Orderly, NEW a, NEW t, OnTarget(a, t), NEW y, Image(a, t, y), setup.prefix[a] # <<>>
  PROVE  Under(setup.prefix[a], y.id)
<1>1. PICK n \in V!Own(a, t, V!IdType(y.which)) : y.id = IdAt(a, t, V!IdType(y.which), n)
  BY DEF Image
<1>2. V!IdType(y.which) \in Kinds /\ V!IdType(y.which) \in Proper
  BY IdTypes DEF Image, Told
<1>3. y.id \in V!ConvertId(V!Conv(a, t), V!IdType(y.which), MyId(a, V!IdType(y.which), n))
  BY <1>1, <1>2, ConvertsTo
<1> QED BY <1>2, <1>3, ConvertsUnder, OrderlyIsTidied DEF OnTarget

LEMMA AppliesOfOthers ==
  ASSUME Orderly, NEW a, NEW b, a # b, NEW t, OnTarget(a, t), OnTarget(b, t),
         NEW xs, NEW ys, Reflects(b, t, xs, ys), NEW type \in Types, NEW c, Image(a, t, c)
  PROVE  Reflects(b, t, xs, V!Apply(ys, type, c))
<1>1. setup.prefix[a] # <<>> /\ setup.prefix[b] # <<>> /\ Shares(a, b, t)
  BY SharedPrefixes, OrderlyIsTidied DEF OnTarget, Shares
<1>2. Under(setup.prefix[a], c.id)
  BY <1>1, ImageUnder
<1>3. ASSUME NEW y, Image(b, t, y) PROVE y \in V!Apply(ys, type, c) <=> y \in ys
  <2>1. Under(setup.prefix[b], y.id)
    BY <1>1, <1>3, ImageUnder
  <2>2. y.id # c.id
    BY <1>1, <1>2, <2>1, NoIdOfTwo, OrderlyIsTidied DEF OnTarget
  <2> QED BY <2>2, ApplyIsLocal DEF Types
<1> QED BY <1>3, TwinParts DEF Reflects

(***************************************************************************)
(* What a Write sends, and to whom.                                        *)
(***************************************************************************)
Places(s) == {s[i] : i \in 1..Len(s)}

LEMMA PlacesIs == ASSUME NEW E, NEW s \in Seq(E) PROVE V!Range(s) = Places(s) /\ Len(s) \in Nat /\ DOMAIN s = 1..Len(s)
BY LenProperties DEF V!Range, Places

LEMMA HandlingIs ==
  ASSUME setup \in Setups, NEW a \in V!Tenants, V!IsInjective(V!Targets(a)), NEW name
  PROVE  LET s == V!Handling(a, name)
         IN /\ s \in Seq(V!Range(V!Targets(a))) /\ \A i, j \in 1..Len(s) : s[i] = s[j] => i = j
            /\ Places(s) = {t \in V!Range(V!Targets(a)) : V!Handles(a, t, name)}
<1> DEFINE ts == V!Targets(a)
           R == V!Range(ts)
           Q == Seq(R)
           H(t) == V!Handles(a, t, name)
           part == [i \in DOMAIN ts |-> IF H(ts[i]) THEN <<ts[i]>> ELSE <<>>]
           F == FlatOf(part)
           Good(n) == /\ F[n] \in Seq(R) /\ \A i, j \in 1..Len(F[n]) : F[n][i] = F[n][j] => i = j
                      /\ \A t : t \in Places(F[n]) <=> \E i \in 1..n : t = ts[i] /\ H(t)
<1>1. DOMAIN ts = 1..Len(ts) /\ Len(ts) \in Nat /\ \A i \in 1..Len(ts) : ts[i] \in R
  BY SetupTyped DEF V!Range
<1>2. \A i, j \in 1..Len(ts) : ts[i] = ts[j] => i = j
  BY <1>1 DEF V!IsInjective
<1>3. R = {ts[i] : i \in 1..Len(ts)}
  BY <1>1 DEF V!Range
<1>4. V!Handling(a, name) = FlattenSeq(part)
  BY DEF V!Handling, V!FlattenSeq, FlattenSeq
<1> HIDE DEF ts, R, H
<1>5. /\ \A i \in 1..Len(ts) : part[i] = IF H(ts[i]) THEN <<ts[i]>> ELSE <<>>
      /\ part = [i \in 1..Len(ts) |-> part[i]]
  BY <1>1
<1> HIDE DEF part, F
<1>6. \A i \in 1..Len(ts) : part[i] \in Q
  <2> TAKE i \in 1..Len(ts)
  <2>1. <<ts[i]>> \in Q /\ <<>> \in Q
    BY <1>1, EmptySeq
  <2> QED BY <1>5, <2>1
<1> HIDE DEF Q
<1>7. part \in Seq(Q) /\ Len(part) = Len(ts)
  <2>1. part \in [1..Len(ts) -> Q]
    BY <1>5, <1>6
  <2>2. part \in Seq(Q)
    BY <1>1, <2>1, SeqDef
  <2> QED BY <1>1, <2>1, <2>2, LenProperties
<1> USE DEF Q
<1>8. F[0] = <<>> /\ \A n \in 1..Len(ts) : F[n] = F[n - 1] \o part[n]
  BY <1>7, FlatSteps DEF F
<1>9. Good(0)
  BY <1>8, EmptySeq DEF Places
<1>10. ASSUME NEW n \in Nat, n + 1 <= Len(ts), Good(n) PROVE Good(n + 1)
  <2> DEFINE r == ts[n + 1]
             s == F[n]
  <2>1. n + 1 \in 1..Len(ts) /\ (n + 1) - 1 = n /\ r \in R
    BY <1>1, <1>10
  <2>2. F[n + 1] = s \o part[n + 1]
    BY <1>8, <2>1
  <2>3. s \in Seq(R) /\ Len(s) \in Nat
    BY <1>10, LenProperties
  <2>4. \A t : (\E i \in 1..(n + 1) : t = ts[i] /\ H(t)) <=> (\E i \in 1..n : t = ts[i] /\ H(t)) \/ (t = r /\ H(t))
    <3>1. \A i : i \in 1..(n + 1) <=> i \in 1..n \/ i = n + 1
      OBVIOUS
    <3> HIDE DEF r
    <3>2. r = ts[n + 1]
      BY DEF r
    <3> QED BY <3>1, <3>2
  <2>5. CASE H(r)
    <3>1. part[n + 1] = <<r>>
      BY <1>5, <2>1, <2>5
    <3> HIDE DEF r, s
    <3>2. /\ F[n + 1] = Append(s, r) /\ F[n + 1] \in Seq(R) /\ Len(F[n + 1]) = Len(s) + 1
          /\ \A i \in 1..Len(s) : F[n + 1][i] = s[i]
          /\ F[n + 1][Len(s) + 1] = r
      <4>1. s \o <<r>> = Append(s, r)
        BY <2>1, <2>3
      <4>2. F[n + 1] = Append(s, r)
        BY <2>2, <3>1, <4>1
      <4> QED BY <2>1, <2>3, <4>2, AppendProperties
    <3>3. \A i : i \in 1..Len(F[n + 1]) <=> i \in 1..Len(s) \/ i = Len(s) + 1
      BY <2>3, <3>2
    <3>4. r \notin Places(s)
      <4>1. ~\E i \in 1..n : r = ts[i] /\ H(r)
        <5> SUFFICES ASSUME NEW i \in 1..n, r = ts[i] PROVE FALSE
          OBVIOUS
        <5>1. i \in 1..Len(ts) /\ i # n + 1
          BY <2>1
        <5> QED BY <1>2, <2>1, <5>1 DEF r
      <4> QED BY <1>10, <4>1 DEF s
    <3>5. \A i, j \in 1..Len(s) : s[i] = s[j] => i = j
      BY <1>10 DEF s
    <3>6. \A i, j \in 1..Len(F[n + 1]) : F[n + 1][i] = F[n + 1][j] => i = j
      BY <3>2, <3>3, <3>4, <3>5 DEF Places
    <3>7. \A t : t \in Places(F[n + 1]) <=> t \in Places(s) \/ t = r
      BY <3>2, <3>3 DEF Places
    <3>8. \A t : t \in Places(s) <=> \E i \in 1..n : t = ts[i] /\ H(t)
      BY <1>10 DEF s
    <3> QED BY <2>4, <2>5, <3>2, <3>6, <3>7, <3>8
  <2>6. CASE ~H(r)
    <3>1. part[n + 1] = <<>>
      BY <1>5, <2>1, <2>6
    <3>2. F[n + 1] = F[n]
      BY <2>2, <2>3, <3>1
    <3> QED BY <1>10, <2>4, <2>6, <3>2
  <2> QED BY <2>5, <2>6
<1>11. Good(Len(ts))
  <2> DEFINE There == {n \in Nat : n <= Len(ts) => Good(n)}
  <2> HIDE DEF Good
  <2>1. 0 \in There
    BY <1>9
  <2>2. \A n \in Nat : n \in There => n + 1 \in There
    BY <1>1, <1>10
  <2> HIDE DEF There
  <2>3. Len(ts) \in There
    BY <1>1, <2>1, <2>2, Induction
  <2> QED BY <2>3 DEF There
<1>12. FlattenSeq(part) = F[Len(ts)]
  BY <1>7, FlattenIsFlat DEF F, Flat
<1>13. \A t : t \in Places(F[Len(ts)]) <=> t \in R /\ H(t)
  BY <1>3, <1>11
<1>14. Places(F[Len(ts)]) = {t \in R : H(t)}
  BY <1>13
<1> QED BY <1>4, <1>11, <1>12, <1>14 DEF ts, R, H

\* What tenants have or write themselves.
Written(a, e) ==
  /\ MyCell(a, e) /\ e.which \in Told
  /\ e.action = Zero \/ \E m \in setup.info[a].names["action"] : e.action = MyId(a, "action", m)
Homes(a, e) == {t \in V!Range(V!Targets(a)) : Part(a, t, e)}

LEMMA TwinOf ==
  ASSUME Orderly, NEW a, NEW t, OnTarget(a, t), NEW e, Written(a, e), Part(a, t, e)
  PROVE  \E c : Twins(a, t, e, c) /\ c.data = e.data /\ V!ConvertEntity(V!Conv(a, t), e) = {c}
<1>1. PICK n \in V!Own(a, t, V!IdType(e.which)) : e.id = MyId(a, V!IdType(e.which), n)
  BY DEF Part
<1>2. PICK act : StandsAct(a, t, e.action, act)
  BY DEF Written, StandsAct, Stands, V!Own
<1> DEFINE c == V!Entity(e.which, IdAt(a, t, V!IdType(e.which), n), act, e.key, e.data)
<1>3. c.which = e.which /\ c.id = IdAt(a, t, V!IdType(e.which), n) /\ c.action = act /\ c.key = e.key /\ c.data = e.data /\ IsEntity(c)
  BY DEF V!Entity, IsEntity
<1> HIDE DEF c
<1>5. Twins(a, t, e, c)
  BY <1>1, <1>2, <1>3 DEF Twins, Stands, Written, MyCell, Told
<1>6. c = V!Entity(e.which, c.id, c.action, e.key, e.data)
  BY <1>3 DEF IsEntity
<1>7. V!ConvertEntity(V!Conv(a, t), e) = {c}
  BY <1>5, <1>6, TwinConverts
<1> QED BY <1>3, <1>5, <1>7

\* Of replicas each has the names and ids of the tenant.
LEMMA ReplicaTwin ==
  ASSUME Orderly, NEW a, NEW t, OnTarget(a, t), NEW e, Written(a, e), NEW c, Twins(a, t, e, c), c.data = e.data,
         setup.prefix[a] = <<>>, V!IsPlain(a, t), setup.program[t].numbering = setup.info[a].numbering
  PROVE  c = e
<1>1. ASSUME NEW k \in Kinds, NEW n \in setup.info[a].names[k] PROVE IdAt(a, t, k, n) = MyId(a, k, n)
  <2>1. V!Renamed(V!Conv(a, t), n) = n
    BY DEF V!Renamed, V!Conv, V!IsPlain
  <2>2. n \in Named
    BY <1>1, NamesTyped
  <2>3. n = [space |-> n.space, base |-> n.base] /\ <<>> \o n.base = n.base
    BY <2>2 DEF Named
  <2>4. V!PrefixP4Name(n, <<>>) = n
    BY <2>3 DEF V!PrefixP4Name
  <2>5. V!NameAt(a, t, n) = n
    BY <2>1, <2>4 DEF V!NameAt
  <2> QED BY <2>5 DEF IdAt, MyId, V!IdIn
<1>2. ASSUME NEW k \in Kinds, NEW i, NEW j, Stands(a, t, k, i, j) PROVE i = j
  BY <1>1, <1>2, OwnNames DEF Stands
<1>3. e.id = c.id /\ e.action = c.action
  <2>1. V!IdType(e.which) \in Kinds /\ "action" \in Kinds
    BY IdTypes DEF Written, Told, Kinds
  <2> QED BY <1>2, <2>1 DEF Twins, StandsAct
<1> QED BY <1>3 DEF Twins, IsEntity

LEMMA ConvertedOnce ==
  ASSUME NEW a, NEW ts, NEW e, Len(ts) = 1, NEW c, V!ConvertEntity(V!Conv(a, ts[1]), e) = {c}
  PROVE  V!Converted(a, ts, e) = {c}
<1>1. /\ After(a, ts, e)[0] = {e}
      /\ After(a, ts, e)[1] = UNION {V!ConvertEntity(V!Conv(a, ts[1]), x) : x \in After(a, ts, e)[1 - 1]}
  BY AfterSteps
<1>2. 1 - 1 = 0
  OBVIOUS
<1>3. After(a, ts, e)[1] = UNION {V!ConvertEntity(V!Conv(a, ts[1]), x) : x \in {e}}
  BY <1>1, <1>2
<1> QED BY <1>3, ConvertedIs

LEMMA ConvertedSame ==
  ASSUME NEW a, NEW ts, NEW e, Len(ts) \in Nat,
         \A i \in 1..Len(ts) : V!ConvertEntity(V!Conv(a, ts[i]), e) = {e}
  PROVE  V!Converted(a, ts, e) = {e}
<1> DEFINE F == After(a, ts, e)
           There == {n \in Nat : n <= Len(ts) => F[n] = {e}}
<1>1. F[0] = {e} /\ \A n \in 1..Len(ts) : F[n] = UNION {V!ConvertEntity(V!Conv(a, ts[n]), x) : x \in F[n - 1]}
  BY AfterSteps
<1> HIDE DEF F
<1>2. 0 \in There
  BY <1>1
<1>3. ASSUME NEW n \in Nat, n \in There PROVE n + 1 \in There
  <2> SUFFICES ASSUME n + 1 <= Len(ts) PROVE F[n + 1] = {e}
    OBVIOUS
  <2>1. n + 1 \in 1..Len(ts) /\ (n + 1) - 1 = n /\ n <= Len(ts)
    OBVIOUS
  <2>2. F[n + 1] = UNION {V!ConvertEntity(V!Conv(a, ts[n + 1]), x) : x \in {e}}
    BY <1>1, <1>3, <2>1
  <2> QED BY <2>1, <2>2
<1>4. Len(ts) \in There
  <2> HIDE DEF There
  <2> QED BY <1>2, <1>3, Induction
<1> QED BY <1>4, ConvertedIs DEF F

LEMMA OneLong ==
  ASSUME NEW E, NEW s \in Seq(E), Len(s) = 1
  PROVE  s # <<>> /\ s = <<s[1]>>
<1>1. s[1] \in E /\ s # <<>>
  BY EmptySeq, ElementOfSeq
<1>2. <<s[1]>> \in Seq(E) /\ Len(<<s[1]>>) = 1 /\ <<s[1]>>[1] = s[1]
  BY <1>1
<1> QED BY <1>1, <1>2, SeqEqual

\* An update has one set of targets: those that have its name.
LEMMA SentTo ==
  ASSUME Orderly, NEW a \in V!Tenants, NEW e, Written(a, e)
  PROVE  \E ts : /\ V!TargetsOf(a, e) = {ts} /\ Len(ts) \in Nat \ {0} /\ V!Range(ts) = Places(ts)
                 /\ Places(ts) = Homes(a, e)
                 /\ Len(ts) = 1 \/ \A t \in Homes(a, e) :
                      setup.prefix[a] = <<>> /\ V!IsPlain(a, t) /\ setup.program[t].numbering = setup.info[a].numbering
<1> DEFINE k == V!IdType(e.which)
           R == V!Range(V!Targets(a))
           Ok(ts) == /\ V!TargetsOf(a, e) = {ts} /\ Len(ts) \in Nat \ {0} /\ V!Range(ts) = Places(ts)
                     /\ Places(ts) = Homes(a, e)
                     /\ Len(ts) = 1 \/ \A t \in Homes(a, e) :
                          setup.prefix[a] = <<>> /\ V!IsPlain(a, t) /\ setup.program[t].numbering = setup.info[a].numbering
<1> SUFFICES \E ts : Ok(ts)
  OBVIOUS
<1>1. k \in Kinds /\ k # "action"
  BY IdTypes DEF Written, Told
<1>2. PICK n \in setup.info[a].names[k] : e.id = MyId(a, k, n)
  BY DEF Written, MyCell
<1>3. V!EntityName(setup.info[a], e) = {n}
  BY <1>2, NamesOf DEF MyId, Written
<1>4. /\ V!IsInjective(V!Targets(a))
      /\ Len(V!Targets(a)) = 1 \/ \E t \in R : V!Handles(a, t, n)
      /\ V!Replicated(a, n) =>
           /\ ~setup.threads /\ setup.prefix[a] = <<>>
           /\ \A t \in R : V!IsPlain(a, t) /\ setup.program[t].numbering = setup.info[a].numbering
  <2>1. n \in V!EntityNames(setup.info[a])
    BY <1>1, <1>2 DEF V!EntityNames, V!Kinds, Kinds
  <2> QED BY <2>1 DEF Orderly, V!Tidy, V!TidyTargets
<1>5. \A t : Part(a, t, e) <=> Len(V!Targets(a)) = 1 \/ V!Handles(a, t, n)
  <2>1. \A t : Part(a, t, e) <=> n \in V!Own(a, t, k)
    BY <1>2, IdParts DEF Part, MyId, Written
  <2> QED BY <1>1, <1>2, <2>1 DEF V!Own
<1>6. /\ V!Targets(a) \in Seq(V!AllTargets) /\ V!Targets(a) \in Seq(R) /\ Len(V!Targets(a)) \in Nat
      /\ R = Places(V!Targets(a))
  <2>1. V!Targets(a) \in Seq(V!AllTargets) /\ Len(V!Targets(a)) \in Nat /\ R = Places(V!Targets(a))
    BY SetupTyped, PlacesIs DEF Orderly
  <2>2. \A i \in 1..Len(V!Targets(a)) : V!Targets(a)[i] \in R
    BY <2>1 DEF Places
  <2>3. V!Targets(a) \in Seq(R)
    <3> HIDE DEF R
    <3>1. V!Targets(a) \in [1..Len(V!Targets(a)) -> R]
      BY <2>1, <2>2
    <3> QED BY <2>1, <3>1, SeqDef
  <2> QED BY <2>1, <2>3
<1>7. ASSUME NEW r PROVE Len(<<r>>) = 1 /\ <<r>>[1] = r /\ Places(<<r>>) = {r} /\ V!Range(<<r>>) = {r}
  BY DEF Places, V!Range
<1>8. CASE Len(V!Targets(a)) = 1
  <2>1. V!MultiTargets(a, e) = {V!Targets(a)}
    BY <1>8 DEF V!MultiTargets
  <2>2. V!Targets(a) # <<>> /\ V!Targets(a) = <<V!Targets(a)[1]>>
    <3> DEFINE s == V!Targets(a)
    <3>1. s \in Seq(R) /\ Len(s) = 1
      BY <1>6, <1>8
    <3> HIDE DEF s, R
    <3> QED BY <3>1, OneLong DEF s
  <2>3. V!FirstTarget(a, e) = {V!Targets(a)}
    BY <2>1, <2>2 DEF V!FirstTarget
  <2>4. V!TargetsOf(a, e) = {V!Targets(a)}
    BY <2>1, <2>3 DEF V!TargetsOf
  <2>5. R = Homes(a, e)
    BY <1>5, <1>8 DEF Homes
  <2>6. Ok(V!Targets(a))
    BY <1>6, <1>8, <2>4, <2>5
  <2> QED BY <2>6
<1>9. CASE Len(V!Targets(a)) # 1
  <2> DEFINE H == V!Handling(a, n)
  <2>1. H \in Seq(R) /\ (\A i, j \in 1..Len(H) : H[i] = H[j] => i = j) /\ Places(H) = {t \in R : V!Handles(a, t, n)}
    BY <1>4, HandlingIs DEF Orderly
  <2>2. Places(H) = Homes(a, e)
    BY <1>5, <1>9, <2>1 DEF Homes
  <2>3. V!MultiTargets(a, e) = {H}
    BY <1>3, <1>9 DEF V!MultiTargets
  <2> HIDE DEF H
  <2>4. H # <<>> /\ Len(H) \in Nat \ {0} /\ V!Range(H) = Places(H)
    <3>1. PICK t \in R : t \in Places(H)
      BY <1>4, <1>9, <2>1
    <3>2. Len(H) \in Nat /\ V!Range(H) = Places(H)
      BY <2>1, PlacesIs
    <3> QED BY <3>1, <3>2 DEF Places
  <2>5. \A t, u \in Homes(a, e) : t # u => V!Replicated(a, n)
    BY <2>1, <2>2 DEF V!Replicated
  <2>6. H[1] \in Homes(a, e)
    BY <2>2, <2>4 DEF Places
  <2>7. CASE setup.threads
    <3>1. V!TargetsOf(a, e) = {<<H[1]>>}
      BY <2>3, <2>4, <2>7 DEF V!TargetsOf, V!FirstTarget
    <3>2. Homes(a, e) = {H[1]}
      BY <1>4, <2>5, <2>6, <2>7
    <3>3. Ok(<<H[1]>>)
      BY <1>7, <3>1, <3>2
    <3> QED BY <3>3
  <2>8. CASE ~setup.threads
    <3>1. V!TargetsOf(a, e) = {H}
      BY <2>3, <2>8 DEF V!TargetsOf
    <3>2. ASSUME Len(H) # 1 PROVE V!Replicated(a, n)
      <4>0. Len(H) \in Nat /\ Len(H) # 0
        BY <2>4
      <4>1. 1 \in 1..Len(H) /\ 2 \in 1..Len(H)
        <5> DEFINE m == Len(H)
        <5>1. m \in Nat /\ m # 0 /\ m # 1
          BY <3>2, <4>0
        <5> HIDE DEF m
        <5>2. 1 \in 1..m /\ 2 \in 1..m
          BY ONLY <5>1
        <5> QED BY <5>2 DEF m
      <4>2. H[1] # H[2] /\ H[2] \in Homes(a, e)
        BY <2>1, <2>2, <4>1 DEF Places
      <4> QED BY <2>5, <2>6, <4>2
    <3>3. Ok(H)
      BY <1>4, <2>2, <2>4, <3>1, <3>2 DEF Homes
    <3> QED BY <3>3
  <2> QED BY <2>7, <2>8
<1> QED BY <1>8, <1>9

LEMMA JobIs ==
  ASSUME Orderly, NEW a \in V!Tenants, NEW e, Written(a, e)
  PROVE  \E ts, c : /\ V!TargetsOf(a, e) = {ts} /\ V!Converted(a, ts, e) = {c} /\ V!Range(ts) = Homes(a, e)
                    /\ Homes(a, e) # {} /\ c.data = e.data /\ \A t \in Homes(a, e) : Twins(a, t, e, c)
<1>1. PICK ts : /\ V!TargetsOf(a, e) = {ts} /\ Len(ts) \in Nat \ {0} /\ V!Range(ts) = Places(ts)
                /\ Places(ts) = Homes(a, e)
                /\ Len(ts) = 1 \/ \A t \in Homes(a, e) :
                     setup.prefix[a] = <<>> /\ V!IsPlain(a, t) /\ setup.program[t].numbering = setup.info[a].numbering
  BY SentTo
<1>2. \A i \in 1..Len(ts) : ts[i] \in Homes(a, e)
  BY <1>1 DEF Places
<1>3. ASSUME NEW t \in Homes(a, e) PROVE OnTarget(a, t) /\ Part(a, t, e)
  BY DEF Homes, OnTarget
<1>4. ts[1] \in Homes(a, e) /\ Homes(a, e) # {}
  BY <1>1, <1>2
<1>5. CASE Len(ts) = 1
  <2>1. PICK c : Twins(a, ts[1], e, c) /\ c.data = e.data /\ V!ConvertEntity(V!Conv(a, ts[1]), e) = {c}
    BY <1>3, <1>4, TwinOf
  <2>2. V!Converted(a, ts, e) = {c}
    BY <1>5, <2>1, ConvertedOnce
  <2>3. \A t \in Homes(a, e) : t = ts[1]
    BY <1>1, <1>5 DEF Places
  <2> QED BY <1>1, <1>4, <2>1, <2>2, <2>3
<1>6. CASE Len(ts) # 1
  <2>1. ASSUME NEW t \in Homes(a, e) PROVE Twins(a, t, e, e) /\ V!ConvertEntity(V!Conv(a, t), e) = {e}
    <3>1. PICK c : Twins(a, t, e, c) /\ c.data = e.data /\ V!ConvertEntity(V!Conv(a, t), e) = {c}
      BY <1>3, TwinOf
    <3>2. c = e
      BY <1>1, <1>3, <1>6, <3>1, ReplicaTwin
    <3> QED BY <3>1, <3>2
  <2>2. V!Converted(a, ts, e) = {e}
    BY <1>1, <1>2, <2>1, ConvertedSame
  <2> QED BY <1>1, <1>4, <2>1, <2>2
<1> QED BY <1>5, <1>6

(***************************************************************************)
(* Each target reflects all its tenants.                                   *)
(***************************************************************************)
Kept(v, d) ==
  /\ \A a \in V!Tenants : \A x \in v[a] : MyCell(a, x)
  /\ \A t \in V!AllTargets : \A y \in d[t] : CellAt(t, y)
  /\ \A a, t : OnTarget(a, t) => Reflects(a, t, v[a], d[t])
MirrorInv ==
  /\ Orderly /\ Kept(virtual, dev)
  /\ DOMAIN virtual = V!Tenants /\ virtual = [a \in V!Tenants |-> virtual[a]]
  /\ DOMAIN dev = V!AllTargets /\ dev = [t \in V!AllTargets |-> dev[t]]

\* The setup is the same in every state.
LEMMA SameNames ==
  ASSUME setup' = setup, NEW a, NEW t, NEW k, NEW n
  PROVE  /\ V!Targets(a)' = V!Targets(a) /\ V!Tenants' = V!Tenants /\ V!AllTargets' = V!AllTargets
         /\ MyId(a, k, n)' = MyId(a, k, n) /\ IdAt(a, t, k, n)' = IdAt(a, t, k, n) /\ V!Own(a, t, k)' = V!Own(a, t, k)
         /\ OnTarget(a, t)' <=> OnTarget(a, t)
<1>1. V!Targets(a)' = V!Targets(a) /\ V!Tenants' = V!Tenants /\ V!AllTargets' = V!AllTargets
  BY DEF V!Targets, V!Tenants, V!AllTargets
<1>2. MyId(a, k, n)' = MyId(a, k, n)
  BY DEF MyId
<1>3. V!NameAt(a, t, n)' = V!NameAt(a, t, n)
  BY DEF V!NameAt, V!Conv
<1>4. IdAt(a, t, k, n)' = IdAt(a, t, k, n)
  BY <1>3 DEF IdAt
<1>5. V!Own(a, t, k)' = V!Own(a, t, k)
  BY <1>1 DEF V!Own, V!Handles
<1>6. OnTarget(a, t)' <=> OnTarget(a, t)
  BY <1>1 DEF OnTarget
<1> QED BY <1>1, <1>2, <1>4, <1>5, <1>6

LEMMA SameTidy == ASSUME setup' = setup PROVE V!Tidy' <=> V!Tidy
<1>1. /\ V!TidyNames' <=> V!TidyNames
      /\ V!TidyPrefixes' <=> V!TidyPrefixes
  BY DEF V!TidyNames, V!TidyPrefixes, V!Tenants, V!Targets, V!IsPlain
<1>2. /\ V!Tenants' = V!Tenants /\ \A a : V!Targets(a)' = V!Targets(a)
      /\ \A a, t, k : V!Own(a, t, k)' = V!Own(a, t, k)
      /\ \A a, t, n : V!NameAt(a, t, n)' = V!NameAt(a, t, n)
  BY SameNames DEF V!NameAt, V!Conv
<1>3. /\ \A a, n : V!Replicated(a, n)' <=> V!Replicated(a, n)
      /\ \A a, t, n : V!Handles(a, t, n)' <=> V!Handles(a, t, n)
      /\ \A a, t : V!IsPlain(a, t)' <=> V!IsPlain(a, t)
  BY <1>2 DEF V!Replicated, V!Handles, V!IsPlain
<1>4. V!TidyTargets' <=> V!TidyTargets
  BY <1>2, <1>3 DEF V!TidyTargets
<1>5. V!TidyPrograms' <=> V!TidyPrograms
  BY <1>2 DEF V!TidyPrograms
<1> QED BY <1>1, <1>4, <1>5 DEF V!Tidy

LEMMA SameOrder == ASSUME setup' = setup, Orderly PROVE Orderly'
BY SameTidy DEF Orderly

LEMMA SameTwins ==
  ASSUME setup' = setup, NEW a, NEW t, NEW x, NEW y
  PROVE  /\ MyCell(a, x)' <=> MyCell(a, x)
         /\ CellAt(t, y)' <=> CellAt(t, y)
         /\ Part(a, t, x)' <=> Part(a, t, x)
         /\ Image(a, t, y)' <=> Image(a, t, y)
         /\ Twins(a, t, x, y)' <=> Twins(a, t, x, y)
<1>1. MyCell(a, x)' <=> MyCell(a, x)
  BY SameNames DEF MyCell
<1>2. CellAt(t, y)' <=> CellAt(t, y)
  BY DEF CellAt
<1>3. Part(a, t, x)' <=> Part(a, t, x)
  BY SameNames DEF Part
<1>4. Image(a, t, y)' <=> Image(a, t, y)
  BY SameNames DEF Image
<1>5. \A k, i, j : Stands(a, t, k, i, j)' <=> Stands(a, t, k, i, j)
  BY SameNames DEF Stands
<1>6. Twins(a, t, x, y)' <=> Twins(a, t, x, y)
  BY <1>5 DEF Twins, StandsAct
<1> QED BY <1>1, <1>2, <1>3, <1>4, <1>6

LEMMA SameKept == ASSUME setup' = setup, Kept(virtual', dev') PROVE Kept(virtual, dev)'
<1>1. \A a, t : OnTarget(a, t)' => Reflects(a, t, virtual[a], dev[t])'
  <2> SUFFICES ASSUME NEW a, NEW t, OnTarget(a, t)' PROVE Reflects(a, t, virtual[a], dev[t])'
    OBVIOUS
  <2>1. Reflects(a, t, virtual'[a], dev'[t])
    BY SameNames DEF Kept
  <2> QED BY <2>1, SameTwins DEF Reflects
<1>2. \A a \in V!Tenants' : \A x \in virtual'[a] : MyCell(a, x)'
  BY SameNames, SameTwins DEF Kept
<1>3. \A t \in V!AllTargets' : \A y \in dev'[t] : CellAt(t, y)'
  BY SameNames, SameTwins DEF Kept
<1> QED BY <1>1, <1>2, <1>3 DEF Kept

LEMMA FreshIs ==
  ASSUME NEW info, NEW x
  PROVE  x \in V!Fresh(info) <=>
           \E n, key : /\ key \in V!Keys
                       /\ \/ n \in info.names["counter"] /\ x = V!Entity("counter_entry", V!IdIn(info, "counter", n), Zero, key, 0)
                          \/ n \in info.names["meter"] /\ x = V!Entity("meter_entry", V!IdIn(info, "meter", n), Zero, key, 0)
                          \/ n \in info.names["register"] /\ x = V!Entity("register_entry", V!IdIn(info, "register", n), Zero, key, 0)
BY DEF V!Fresh, V!Ids, V!Zero, Zero

LEMMA FreshTold ==
  ASSUME NEW info, NEW x \in V!Fresh(info)
  PROVE  /\ IsEntity(x) /\ x.which \in WhichOnes /\ x.action = Zero /\ x.data = 0 /\ x.key \in V!Keys
         /\ x.which \in Told => /\ x.which \in {"counter_entry", "meter_entry"}
                                /\ \E n \in info.names[V!IdType(x.which)] : x.id = V!IdIn(info, V!IdType(x.which), n)
<1>1. PICK n, key : /\ key \in V!Keys
                    /\ \/ n \in info.names["counter"] /\ x = V!Entity("counter_entry", V!IdIn(info, "counter", n), Zero, key, 0)
                       \/ n \in info.names["meter"] /\ x = V!Entity("meter_entry", V!IdIn(info, "meter", n), Zero, key, 0)
                       \/ n \in info.names["register"] /\ x = V!Entity("register_entry", V!IdIn(info, "register", n), Zero, key, 0)
  BY FreshIs
<1>2. V!IdType("counter_entry") = "counter" /\ V!IdType("meter_entry") = "meter"
  BY DEF V!IdType
<1>3. CASE n \in info.names["counter"] /\ x = V!Entity("counter_entry", V!IdIn(info, "counter", n), Zero, key, 0)
  BY <1>1, <1>2, <1>3 DEF V!Entity, IsEntity, WhichOnes
<1>4. CASE n \in info.names["meter"] /\ x = V!Entity("meter_entry", V!IdIn(info, "meter", n), Zero, key, 0)
  BY <1>1, <1>2, <1>4 DEF V!Entity, IsEntity, WhichOnes
<1>5. CASE n \in info.names["register"] /\ x = V!Entity("register_entry", V!IdIn(info, "register", n), Zero, key, 0)
  BY <1>1, <1>5 DEF V!Entity, IsEntity, WhichOnes, Told
<1> QED BY <1>1, <1>3, <1>4, <1>5

LEMMA FreshHas ==
  ASSUME NEW info, NEW which \in {"counter_entry", "meter_entry"}, NEW n \in info.names[V!IdType(which)], NEW key \in V!Keys
  PROVE  V!Entity(which, V!IdIn(info, V!IdType(which), n), Zero, key, 0) \in V!Fresh(info)
<1>1. V!IdType("counter_entry") = "counter" /\ V!IdType("meter_entry") = "meter"
  BY DEF V!IdType
<1> QED BY <1>1, FreshIs

LEMMA FreshReflects ==
  ASSUME Orderly, NEW a, NEW t, OnTarget(a, t)
  PROVE  Reflects(a, t, V!Fresh(setup.info[a]), V!Fresh(setup.program[t]))
<1>0. {"counter_entry", "meter_entry"} \subseteq WhichOnes \ {"register_entry"}
  BY DEF WhichOnes
<1>1. ASSUME NEW which \in {"counter_entry", "meter_entry"}, NEW n \in V!Own(a, t, V!IdType(which)), NEW key
      PROVE  Twins(a, t, V!Entity(which, MyId(a, V!IdType(which), n), Zero, key, 0),
                         V!Entity(which, IdAt(a, t, V!IdType(which), n), Zero, key, 0))
  <2> DEFINE x == V!Entity(which, MyId(a, V!IdType(which), n), Zero, key, 0)
             y == V!Entity(which, IdAt(a, t, V!IdType(which), n), Zero, key, 0)
  <2>1. /\ x.which = which /\ y.which = which /\ x.key = key /\ y.key = key /\ x.data = 0 /\ y.data = 0
        /\ x.action = Zero /\ y.action = Zero /\ x.id = MyId(a, V!IdType(which), n) /\ y.id = IdAt(a, t, V!IdType(which), n)
        /\ IsEntity(x) /\ IsEntity(y)
    BY DEF V!Entity, IsEntity
  <2> HIDE DEF x, y
  <2>2. Twins(a, t, x, y)
    BY <1>0, <2>1 DEF Twins, Stands, StandsAct
  <2> QED BY <2>2 DEF x, y
<1>2. ASSUME NEW x \in V!Fresh(setup.info[a]), Part(a, t, x)
      PROVE  \E y \in V!Fresh(setup.program[t]) : Twins(a, t, x, y)
  <2>1. IsEntity(x) /\ x.action = Zero /\ x.data = 0 /\ x.key \in V!Keys /\ x.which \in {"counter_entry", "meter_entry"}
    BY <1>2, FreshTold DEF Part
  <2>2. PICK n \in V!Own(a, t, V!IdType(x.which)) : x.id = MyId(a, V!IdType(x.which), n)
    BY <1>2 DEF Part
  <2>3. x = V!Entity(x.which, MyId(a, V!IdType(x.which), n), Zero, x.key, 0)
    BY <2>1, <2>2 DEF IsEntity
  <2>4. V!NameAt(a, t, n) \in setup.program[t].names[V!IdType(x.which)]
    BY <1>0, <2>1, <2>2, OwnNames, IdTypes
  <2>5. V!Entity(x.which, IdAt(a, t, V!IdType(x.which), n), Zero, x.key, 0) \in V!Fresh(setup.program[t])
    BY <2>1, <2>4, FreshHas DEF IdAt
  <2> QED BY <1>1, <2>1, <2>2, <2>3, <2>5
<1>3. ASSUME NEW y \in V!Fresh(setup.program[t]), Image(a, t, y)
      PROVE  \E x \in V!Fresh(setup.info[a]) : Twins(a, t, x, y)
  <2>1. IsEntity(y) /\ y.action = Zero /\ y.data = 0 /\ y.key \in V!Keys /\ y.which \in {"counter_entry", "meter_entry"}
    BY <1>3, FreshTold DEF Image
  <2>2. PICK n \in V!Own(a, t, V!IdType(y.which)) : y.id = IdAt(a, t, V!IdType(y.which), n)
    BY <1>3 DEF Image
  <2>3. y = V!Entity(y.which, IdAt(a, t, V!IdType(y.which), n), Zero, y.key, 0)
    BY <2>1, <2>2 DEF IsEntity
  <2>4. n \in setup.info[a].names[V!IdType(y.which)]
    BY <1>0, <2>1, <2>2, OwnNames, IdTypes
  <2>5. V!Entity(y.which, MyId(a, V!IdType(y.which), n), Zero, y.key, 0) \in V!Fresh(setup.info[a])
    BY <2>1, <2>4, FreshHas DEF MyId
  <2> QED BY <1>1, <2>1, <2>2, <2>3, <2>5
<1> QED BY <1>2, <1>3 DEF Reflects

LEMMA MirrorInit == ASSUME V!Init, V!Tidy PROVE MirrorInv
<1>1. /\ setup \in Setups /\ dev = [t \in V!AllTargets |-> V!Fresh(setup.program[t])]
      /\ virtual = [a \in V!Tenants |-> V!Fresh(setup.info[a])]
  BY DEF V!Init
<1>2. Orderly
  BY <1>1 DEF Orderly
<1>3. \A a \in V!Tenants : \A x \in virtual[a] : MyCell(a, x)
  BY <1>1, FreshTold DEF MyCell, MyId
<1>4. \A t \in V!AllTargets : \A y \in dev[t] : CellAt(t, y)
  BY <1>1, FreshTold DEF CellAt
<1>5. ASSUME NEW a, NEW t, OnTarget(a, t) PROVE Reflects(a, t, virtual[a], dev[t])
  <2>1. a \in V!Tenants /\ t \in V!AllTargets
    BY <1>1, <1>5, SetupTyped DEF OnTarget
  <2> QED BY <1>1, <1>2, <1>5, <2>1, FreshReflects
<1> QED BY <1>1, <1>2, <1>3, <1>4, <1>5 DEF MirrorInv, Kept

(***************************************************************************)
(* Writes.                                                                 *)
(***************************************************************************)
Listed(a, w) ==
  LET info == setup.info[a]
  IN \/ \E type \in Types, i \in V!Ids(info, "table"), act \in V!Ids(info, "action"), key \in V!Keys, d \in Params :
          w = <<type, V!Entity("table_entry", i, act, key, d)>>
     \/ \E i \in V!Ids(info, "counter"), key \in V!Keys : w = <<"MODIFY", V!Entity("counter_entry", i, Zero, key, 0)>>
     \/ \E i \in V!Ids(info, "meter"), key \in V!Keys, d \in Params : w = <<"MODIFY", V!Entity("meter_entry", i, Zero, key, d)>>
     \/ \E i \in V!Ids(info, "digest") : \E key : w = <<"INSERT", V!Entity("digest_entry", i, Zero, key, 0)>>

LEMMA WritesListed == ASSUME NEW a, NEW w \in V!Writes(setup.info[a]) PROVE Listed(a, w)
BY DEF V!Writes, Listed, Types, V!Zero, Zero

LEMMA WritesWritten ==
  ASSUME NEW a, NEW w \in V!Writes(setup.info[a])
  PROVE  Written(a, w[2]) /\ w[1] \in Types /\ (w[1] = "DELETE" => w[2].which = "table_entry")
<1> DEFINE info == setup.info[a]
<1>1. \A k : \A i \in V!Ids(info, k) : \E n \in info.names[k] : i = MyId(a, k, n)
  BY DEF V!Ids, MyId
<1>2. PICK type, which, i, act, key, d, k :
        /\ w = <<type, V!Entity(which, i, act, key, d)>> /\ type \in Types
        /\ type = "DELETE" => which = "table_entry"
        /\ i \in V!Ids(info, k) /\ k = V!IdType(which) /\ (act = Zero \/ act \in V!Ids(info, "action"))
        /\ which \in {"table_entry", "counter_entry", "meter_entry", "digest_entry"}
  <2>1. Listed(a, w)
    BY WritesListed
  <2>2. V!IdType("table_entry") = "table" /\ V!IdType("counter_entry") = "counter" /\ V!IdType("meter_entry") = "meter"
        /\ V!IdType("digest_entry") = "digest"
    BY DEF V!IdType
  <2> QED BY <2>1, <2>2 DEF Listed, Types
<1> DEFINE e == V!Entity(which, i, act, key, d)
<1>3. e.which = which /\ e.id = i /\ e.action = act /\ IsEntity(e)
  BY DEF V!Entity, IsEntity
<1>4. w[1] = type /\ w[2] = e
  BY <1>2
<1> HIDE DEF e
<1>5. which \in WhichOnes /\ which \in Told
  BY <1>2 DEF WhichOnes, Told
<1> QED BY <1>1, <1>2, <1>3, <1>4, <1>5 DEF Written, MyCell

\* A Write reaches all targets that have the name, and they answer as one switch.
LEMMA WriteIs ==
  ASSUME MirrorInv, NEW a \in V!Tenants, NEW type, NEW e, Written(a, e), V!Write(a, type, e)
  PROVE  \E c : LET due == V!Accepts(virtual[a], setup.info[a], type, e)
                IN /\ c.data = e.data /\ \A t \in Homes(a, e) : Twins(a, t, e, c)
                   /\ dev' = [t \in V!AllTargets |-> IF t \in Homes(a, e) /\ due THEN V!Apply(dev[t], type, c) ELSE dev[t]]
                   /\ virtual' = [virtual EXCEPT ![a] = IF due THEN V!Apply(@, type, e) ELSE @]
                   /\ setup' = setup /\ answer'.op = "write" /\ answer'.ok = due /\ answer'.due = due
<1> DEFINE due == V!Accepts(virtual[a], setup.info[a], type, e)
           Takes(t, c) == V!Accepts(dev[t], setup.program[t], type, c)
<1>1. PICK ts, c : /\ V!TargetsOf(a, e) = {ts} /\ V!Converted(a, ts, e) = {c} /\ V!Range(ts) = Homes(a, e)
                   /\ Homes(a, e) # {} /\ c.data = e.data /\ \A t \in Homes(a, e) : Twins(a, t, e, c)
  BY JobIs DEF MirrorInv
<1>2. UNION {{s} \X V!Converted(a, s, e) : s \in V!TargetsOf(a, e)} = {<<ts, c>>}
  <2>1. UNION {{s} \X V!Converted(a, s, e) : s \in {ts}} = {ts} \X {c}
    BY <1>1
  <2> QED BY <1>1, <2>1
<1>3. ASSUME NEW t \in Homes(a, e) PROVE Takes(t, c) <=> due
  <2>1. OnTarget(a, t)
    BY DEF Homes, OnTarget
  <2> QED BY <1>1, <2>1, TakesAlike DEF MirrorInv, Kept
<1> DEFINE jobs == UNION {{s} \X V!Converted(a, s, e) : s \in V!TargetsOf(a, e)}
<1>4. /\ \/ jobs = {}
         \/ \E job \in jobs :
              /\ dev' = [t \in V!AllTargets |-> IF t \in V!Range(job[1]) /\ Takes(t, job[2])
                                               THEN V!Apply(dev[t], type, job[2]) ELSE dev[t]]
              /\ V!Answer("write", a, e.which, \A t \in V!Range(job[1]) : Takes(t, job[2]), due, {}, 0)
      /\ virtual' = [virtual EXCEPT ![a] = IF due THEN V!Apply(@, type, e) ELSE @]
      /\ setup' = setup
  BY DEF V!Write
<1>5. jobs = {<<ts, c>>}
  BY <1>2
<1> HIDE DEF jobs, Takes, due
<1>6. /\ dev' = [t \in V!AllTargets |-> IF t \in Homes(a, e) /\ Takes(t, c) THEN V!Apply(dev[t], type, c) ELSE dev[t]]
      /\ V!Answer("write", a, e.which, \A t \in Homes(a, e) : Takes(t, c), due, {}, 0)
  <2>1. PICK job \in jobs :
          /\ dev' = [t \in V!AllTargets |-> IF t \in V!Range(job[1]) /\ Takes(t, job[2])
                                            THEN V!Apply(dev[t], type, job[2]) ELSE dev[t]]
          /\ V!Answer("write", a, e.which, \A t \in V!Range(job[1]) : Takes(t, job[2]), due, {}, 0)
    BY <1>4, <1>5
  <2>2. job[1] = ts /\ job[2] = c
    BY <1>5
  <2>3. V!Range(job[1]) = Homes(a, e)
    BY <1>1, <2>2
  <2> QED BY <2>1, <2>2, <2>3
<1>7. dev' = [t \in V!AllTargets |-> IF t \in Homes(a, e) /\ due THEN V!Apply(dev[t], type, c) ELSE dev[t]]
  BY <1>3, <1>6
<1>8. answer'.op = "write" /\ answer'.ok = (\A t \in Homes(a, e) : Takes(t, c)) /\ answer'.due = due
  BY <1>6 DEF V!Answer
<1>9. answer'.ok = due
  BY <1>1, <1>3, <1>8 DEF due, V!Accepts
<1> QED BY <1>1, <1>4, <1>7, <1>8, <1>9 DEF due

LEMMA CountedCell ==
  ASSUME NEW e, e.which = "table_entry"
  PROVE  /\ \A a : MyCell(a, e) => MyCell(a, Counted(e))
         /\ \A t : CellAt(t, e) => CellAt(t, Counted(e))
<1>1. /\ Counted(e).which = "direct_counter_entry" /\ Counted(e).id = e.id /\ IsEntity(Counted(e))
  BY DEF Counted, V!Entity, IsEntity
<1>2. V!IdType("direct_counter_entry") = V!IdType("table_entry") /\ "direct_counter_entry" \in WhichOnes
      /\ "table_entry" \in Told
  BY DEF V!IdType, WhichOnes, Told
<1> QED BY <1>1, <1>2 DEF MyCell, CellAt

LEMMA TwinIsCell ==
  ASSUME Orderly, NEW a, NEW t, OnTarget(a, t), NEW x, NEW y, Twins(a, t, x, y)
  PROVE  CellAt(t, y)
<1>1. V!IdType(y.which) \in Kinds /\ y.which \in WhichOnes
  BY IdTypes DEF Twins
<1> QED BY <1>1, OwnNames DEF Twins, CellAt, Stands, IdAt

LEMMA WriteKeeps ==
  ASSUME MirrorInv, NEW a \in V!Tenants, NEW type \in Types, NEW e, Written(a, e),
         type = "DELETE" => e.which = "table_entry", V!Write(a, type, e)
  PROVE  MirrorInv'
<1> DEFINE due == V!Accepts(virtual[a], setup.info[a], type, e)
<1>1. PICK c : /\ \A t \in Homes(a, e) : Twins(a, t, e, c)
               /\ dev' = [t \in V!AllTargets |-> IF t \in Homes(a, e) /\ due THEN V!Apply(dev[t], type, c) ELSE dev[t]]
               /\ virtual' = [virtual EXCEPT ![a] = IF due THEN V!Apply(@, type, e) ELSE @]
               /\ setup' = setup
  BY WriteIs
<1> HIDE DEF due
<1>2. /\ Orderly /\ DOMAIN virtual = V!Tenants /\ virtual = [b \in V!Tenants |-> virtual[b]]
      /\ \A b \in V!Tenants : \A x \in virtual[b] : MyCell(b, x)
      /\ \A t \in V!AllTargets : \A y \in dev[t] : CellAt(t, y)
      /\ \A b, t : OnTarget(b, t) => Reflects(b, t, virtual[b], dev[t])
      /\ MyCell(a, e) /\ e.which \in Told
  BY DEF MirrorInv, Kept, Written
<1>3. /\ virtual'[a] = IF due THEN V!Apply(virtual[a], type, e) ELSE virtual[a]
      /\ \A b \in V!Tenants : b # a => virtual'[b] = virtual[b]
      /\ \A t \in V!AllTargets : dev'[t] = IF t \in Homes(a, e) /\ due THEN V!Apply(dev[t], type, c) ELSE dev[t]
      /\ DOMAIN virtual' = V!Tenants /\ virtual' = [b \in V!Tenants |-> virtual'[b]]
      /\ DOMAIN dev' = V!AllTargets /\ dev' = [t \in V!AllTargets |-> dev'[t]]
  BY <1>1, <1>2
<1>4. \A t \in Homes(a, e) : OnTarget(a, t)
  BY DEF Homes, OnTarget
<1>5. ASSUME NEW b \in V!Tenants, NEW x \in virtual'[b] PROVE MyCell(b, x)
  BY <1>2, <1>3, ApplyKeeps, CountedCell
<1>6. ASSUME NEW t \in V!AllTargets, NEW y \in dev'[t] PROVE CellAt(t, y)
  <2>1. CASE t \in Homes(a, e)
    <3>1. CellAt(t, c)
      BY <1>1, <1>2, <1>4, <2>1, TwinIsCell
    <3> QED BY <1>2, <1>3, <1>6, <3>1, ApplyKeeps, CountedCell
  <2>2. CASE t \notin Homes(a, e)
    BY <1>2, <1>3, <1>6, <2>2
  <2> QED BY <2>1, <2>2
<1>7. ASSUME NEW b, NEW t, OnTarget(b, t) PROVE Reflects(b, t, virtual'[b], dev'[t])
  <2>1. b \in V!Tenants /\ t \in V!AllTargets /\ Reflects(b, t, virtual[b], dev[t])
    BY <1>2, <1>7, SetupTyped DEF OnTarget, Orderly
  <2>2. CASE ~due
    BY <1>3, <2>1, <2>2
  <2>3. CASE due /\ b = a /\ t \in Homes(a, e)
    BY <1>1, <1>2, <1>3, <1>7, <2>1, <2>3, AppliesAlike
  <2>4. CASE due /\ b = a /\ t \notin Homes(a, e)
    <3>1. ~Part(a, t, e)
      BY <1>7, <2>4 DEF Homes, OnTarget
    <3> QED BY <1>2, <1>3, <1>7, <2>1, <2>4, <3>1, AppliesElsewhere
  <2>5. CASE due /\ b # a /\ t \in Homes(a, e)
    <3>1. Image(a, t, c)
      BY <1>1, <2>5, TwinParts
    <3> QED BY <1>2, <1>3, <1>4, <1>7, <2>1, <2>5, <3>1, AppliesOfOthers
  <2>6. CASE b # a /\ t \notin Homes(a, e)
    BY <1>3, <2>1, <2>6
  <2> QED BY <2>2, <2>3, <2>4, <2>5, <2>6
<1>8. Kept(virtual', dev')
  BY <1>5, <1>6, <1>7 DEF Kept
<1>9. Orderly' /\ Kept(virtual, dev)' /\ V!Tenants' = V!Tenants /\ V!AllTargets' = V!AllTargets
  BY <1>1, <1>2, <1>8, SameOrder, SameKept, SameNames
<1> QED BY <1>3, <1>9 DEF MirrorInv

(***************************************************************************)
(* Packets.                                                                *)
(***************************************************************************)
\* What a packet changes of a cell.
Recounted(x, z) ==
  /\ IsEntity(z) /\ z.which \in V!Counts /\ z.which = x.which /\ z.id = x.id /\ z.action = x.action /\ z.key = x.key
Like(x, z) == x = z \/ (IsEntity(x) /\ Recounted(x, z))
AllLike(xs, zs) == (\A x \in xs : \E z \in zs : Like(x, z)) /\ \A z \in zs : \E x \in xs : Like(x, z)

LEMMA AlikeParts ==
  ASSUME NEW x, NEW z, Like(x, z)
  PROVE  /\ \A a, t : Part(a, t, x) <=> Part(a, t, z)
         /\ \A a, t : Image(a, t, x) <=> Image(a, t, z)
         /\ \A a : MyCell(a, x) <=> MyCell(a, z)
         /\ \A t : CellAt(t, x) <=> CellAt(t, z)
         /\ \A a, t, y : Twins(a, t, x, y) <=> Twins(a, t, z, y)
         /\ \A a, t, y : Twins(a, t, y, x) <=> Twins(a, t, y, z)
<1>1. \/ x = z
      \/ /\ IsEntity(x) /\ IsEntity(z) /\ z.which = x.which /\ z.id = x.id /\ z.action = x.action /\ z.key = x.key
         /\ z.which \in V!Counts
  BY DEF Like, Recounted
<1>2. /\ \A a, t : Part(a, t, x) <=> Part(a, t, z)
      /\ \A a, t : Image(a, t, x) <=> Image(a, t, z)
  BY <1>1 DEF Part, Image
<1>3. /\ \A a : MyCell(a, x) <=> MyCell(a, z)
      /\ \A t : CellAt(t, x) <=> CellAt(t, z)
  BY <1>1 DEF MyCell, CellAt
<1>4. /\ \A a, t, y : Twins(a, t, x, y) <=> Twins(a, t, z, y)
      /\ \A a, t, y : Twins(a, t, y, x) <=> Twins(a, t, y, z)
  BY <1>1 DEF Twins
<1> QED BY <1>2, <1>3, <1>4

LEMMA AlikeReflects ==
  ASSUME NEW a, NEW t, NEW xs, NEW ys, Reflects(a, t, xs, ys), NEW zs, AllLike(xs, zs), NEW ws, AllLike(ys, ws)
  PROVE  Reflects(a, t, zs, ws)
<1>1. ASSUME NEW z \in zs, Part(a, t, z) PROVE \E w \in ws : Twins(a, t, z, w)
  <2>1. PICK x \in xs : Like(x, z)
    BY DEF AllLike
  <2>2. PICK y \in ys : Twins(a, t, x, y)
    BY <1>1, <2>1, AlikeParts DEF Reflects
  <2>3. PICK w \in ws : Like(y, w)
    BY DEF AllLike
  <2>4. Twins(a, t, z, y)
    BY <2>1, <2>2, AlikeParts
  <2>5. Twins(a, t, z, w)
    BY <2>3, <2>4, AlikeParts
  <2> QED BY <2>5
<1>2. ASSUME NEW w \in ws, Image(a, t, w) PROVE \E z \in zs : Twins(a, t, z, w)
  <2>1. PICK y \in ys : Like(y, w)
    BY DEF AllLike
  <2>2. PICK x \in xs : Twins(a, t, x, y)
    BY <1>2, <2>1, AlikeParts DEF Reflects
  <2>3. PICK z \in zs : Like(x, z)
    BY DEF AllLike
  <2>4. Twins(a, t, x, w)
    BY <2>1, <2>2, AlikeParts
  <2>5. Twins(a, t, z, w)
    BY <2>3, <2>4, AlikeParts
  <2> QED BY <2>5
<1> QED BY <1>1, <1>2 DEF Reflects

LEMMA AlikeSelf == ASSUME NEW xs PROVE AllLike(xs, xs)
BY DEF AllLike, Like

LEMMA CountsUp ==
  ASSUME NEW xs, NEW x \in xs, IsEntity(x), x.which \in V!Counts
  PROVE  AllLike(xs, (xs \ {x}) \cup {[x EXCEPT !.data = x.data + 1]})
<1> DEFINE z == [x EXCEPT !.data = x.data + 1]
<1>1. IsEntity(z) /\ z.which = x.which /\ z.id = x.id /\ z.action = x.action /\ z.key = x.key
  BY DEF IsEntity, V!Entity
<1> HIDE DEF z
<1>2. Like(x, z)
  BY <1>1 DEF Like, Recounted
<1>3. \A w : Like(w, w)
  BY DEF Like
<1>4. AllLike(xs, (xs \ {x}) \cup {z})
  BY <1>2, <1>3 DEF AllLike
<1> QED BY <1>4 DEF z

LEMMA PacketKeeps ==
  ASSUME MirrorInv, NEW a \in V!Tenants, NEW t \in V!Range(V!Targets(a)), NEW e, V!Packet(a, t, e)
  PROVE  MirrorInv'
<1>1. /\ Orderly /\ DOMAIN virtual = V!Tenants /\ virtual = [b \in V!Tenants |-> virtual[b]]
      /\ DOMAIN dev = V!AllTargets /\ dev = [u \in V!AllTargets |-> dev[u]]
      /\ \A b \in V!Tenants : \A x \in virtual[b] : MyCell(b, x)
      /\ \A u \in V!AllTargets : \A y \in dev[u] : CellAt(u, y)
      /\ \A b, u : OnTarget(b, u) => Reflects(b, u, virtual[b], dev[u])
  BY DEF MirrorInv, Kept
<1>2. /\ e \in virtual[a] /\ e.which \in V!Counts /\ setup' = setup
      /\ virtual' = [virtual EXCEPT ![a] = (@ \ {e}) \cup {[e EXCEPT !.data = @ + 1]}]
  BY DEF V!Packet, V!Counts
<1>3. PICK c \in V!ConvertEntity(V!Conv(a, t), e) : \E x \in dev[t] :
        /\ V!SameCell(x, c) /\ dev' = [dev EXCEPT ![t] = (@ \ {x}) \cup {[x EXCEPT !.data = @ + 1]}]
  BY DEF V!Packet
<1>4. PICK x \in dev[t] :
        /\ V!SameCell(x, c) /\ dev' = [dev EXCEPT ![t] = (@ \ {x}) \cup {[x EXCEPT !.data = @ + 1]}]
  BY <1>3
<1>5. t \in V!AllTargets /\ IsEntity(e) /\ IsEntity(x)
  BY <1>1, <1>2, SetupTyped DEF MyCell, CellAt, Orderly
<1>6. x.which \in V!Counts
  BY <1>2, <1>4, <1>5, ConvertedEntityIs DEF V!SameCell
<1>7. /\ virtual'[a] = (virtual[a] \ {e}) \cup {[e EXCEPT !.data = e.data + 1]}
      /\ \A b \in V!Tenants : b # a => virtual'[b] = virtual[b]
      /\ DOMAIN virtual' = V!Tenants /\ virtual' = [b \in V!Tenants |-> virtual'[b]]
  BY <1>1, <1>2
<1>8. /\ dev'[t] = (dev[t] \ {x}) \cup {[x EXCEPT !.data = x.data + 1]}
      /\ \A u \in V!AllTargets : u # t => dev'[u] = dev[u]
      /\ DOMAIN dev' = V!AllTargets /\ dev' = [u \in V!AllTargets |-> dev'[u]]
  BY <1>1, <1>4, <1>5
<1>9. AllLike(virtual[a], virtual'[a]) /\ AllLike(dev[t], dev'[t])
  BY <1>2, <1>5, <1>6, <1>7, <1>8, CountsUp
<1>10. \A b \in V!Tenants : AllLike(virtual[b], virtual'[b])
  BY <1>7, <1>9, AlikeSelf
<1>11. \A u \in V!AllTargets : AllLike(dev[u], dev'[u])
  BY <1>8, <1>9, AlikeSelf
<1>12. Kept(virtual', dev')
  <2>1. \A b \in V!Tenants : \A z \in virtual'[b] : MyCell(b, z)
    BY <1>1, <1>10, AlikeParts DEF AllLike
  <2>2. \A u \in V!AllTargets : \A z \in dev'[u] : CellAt(u, z)
    BY <1>1, <1>11, AlikeParts DEF AllLike
  <2>3. ASSUME NEW b, NEW u, OnTarget(b, u) PROVE Reflects(b, u, virtual'[b], dev'[u])
    <3>1. b \in V!Tenants /\ u \in V!AllTargets
      BY <1>1, <2>3, SetupTyped DEF OnTarget, Orderly
    <3> QED BY <1>1, <1>10, <1>11, <2>3, <3>1, AlikeReflects
  <2> QED BY <2>1, <2>2, <2>3 DEF Kept
<1>13. Orderly' /\ Kept(virtual, dev)' /\ V!Tenants' = V!Tenants /\ V!AllTargets' = V!AllTargets
  BY <1>1, <1>2, <1>12, SameOrder, SameKept, SameNames
<1> QED BY <1>7, <1>8, <1>13 DEF MirrorInv

LEMMA MirrorStays == ASSUME MirrorInv, UNCHANGED <<setup, dev, virtual>> PROVE MirrorInv'
<1>1. Kept(virtual', dev') /\ setup' = setup /\ virtual' = virtual /\ dev' = dev
  BY DEF MirrorInv
<1>2. Orderly' /\ Kept(virtual, dev)' /\ V!Tenants' = V!Tenants /\ V!AllTargets' = V!AllTargets
  BY <1>1, SameOrder, SameKept, SameNames DEF MirrorInv
<1> QED BY <1>1, <1>2 DEF MirrorInv

LEMMA MirrorNext == ASSUME MirrorInv, [V!Next]_(V!vars) PROVE MirrorInv'
<1>1. ASSUME NEW a \in V!Tenants, NEW w \in V!Writes(setup.info[a]), V!Write(a, w[1], w[2]) PROVE MirrorInv'
  BY <1>1, WritesWritten, WriteKeeps
<1>2. ASSUME NEW a, NEW e, V!Read(a, e) PROVE MirrorInv'
  BY <1>2, MirrorStays DEF V!Read
<1>3. ASSUME NEW a \in V!Tenants, NEW t \in V!Range(V!Targets(a)), NEW e, V!Packet(a, t, e) PROVE MirrorInv'
  BY <1>3, PacketKeeps
<1>4. ASSUME NEW a, NEW t, NEW b, NEW id, V!Digest(a, t, b, id) PROVE MirrorInv'
  BY <1>4, MirrorStays DEF V!Digest
<1>5. CASE UNCHANGED V!vars
  BY <1>5, MirrorStays DEF V!vars
<1> QED BY <1>1, <1>2, <1>3, <1>4, <1>5 DEF V!Next

LEMMA InvMirrors == MirrorInv => V!Mirrors
<1> SUFFICES ASSUME MirrorInv, NEW a \in V!Tenants, NEW t \in V!Range(V!Targets(a))
             PROVE  V!Uncounted(V!PartAt(a, t)) =
                      V!Uncounted({x \in virtual[a] : Len(V!Targets(a)) = 1
                                                     \/ \A n \in V!EntityName(setup.info[a], x) : V!Handles(a, t, n)})
  BY DEF V!Mirrors
<1>1. OnTarget(a, t) /\ t \in V!AllTargets
  BY SetupTyped DEF OnTarget, MirrorInv, Orderly
<1> QED BY <1>1, ReflectsMirrors DEF MirrorInv, Kept

\* Whatever the setup, if it is tidy, and whatever controllers write, each target holds
\* its part of each tenant's virtual device.
THEOREM TargetsMirror == V!Spec => []Mirrors
<1> DEFINE J == V!Tidy => MirrorInv
<1>1. V!Init => J
  BY MirrorInit
<1>2. J /\ [V!Next]_(V!vars) => J'
  BY SetupStays, SameTidy, MirrorNext
<1>3. J => Mirrors
  BY InvMirrors DEF Mirrors, V!Mirrors
<1> HIDE DEF J
<1> QED BY <1>1, <1>2, <1>3, PTL DEF V!Spec

----------------------------------------------------------------------------
\* What controllers are told.

(***************************************************************************)
(* Cells of a switch, each there once, and counts that are kept.           *)
(***************************************************************************)
Sound(cells) ==
  /\ \A x, y \in cells : V!SameCell(x, y) => x = y
  /\ \A x \in cells : x.which \in V!Counts => x.data \in Nat
  /\ \A x \in cells : x.which = "direct_counter_entry" =>
       \E y \in cells : y.which = "table_entry" /\ y.id = x.id /\ y.key = x.key

LEMMA CountedIs ==
  ASSUME NEW e
  PROVE  /\ Counted(e).which = "direct_counter_entry" /\ Counted(e).id = e.id /\ Counted(e).key = e.key
         /\ Counted(e).data = 0 /\ IsEntity(Counted(e))
BY DEF Counted, V!Entity, IsEntity

\* What controllers update: no direct counters, and counters only to nothing.
Settable(type, e) ==
  /\ IsEntity(e) /\ type \in Types /\ e.which \in {"table_entry", "counter_entry", "meter_entry", "digest_entry"}
  /\ e.which \in V!Counts => e.data = 0
  /\ type = "DELETE" => e.which = "table_entry"

LEMMA AcceptsIs ==
  ASSUME NEW cells, NEW info, NEW type, NEW e, V!Accepts(cells, info, type, e)
  PROVE  /\ type = "INSERT" => e.which \in {"table_entry", "digest_entry"} /\ \A x \in cells : ~V!SameCell(x, e)
         /\ type # "INSERT" => \E x \in cells : V!SameCell(x, e)
BY DEF V!Accepts

\* A switch that accepts an INSERT has no direct counter for it.
LEMMA NoneCounted ==
  ASSUME NEW cells, Sound(cells), NEW e, e.which = "table_entry", \A x \in cells : ~V!SameCell(x, e)
  PROVE  \A x \in cells : ~V!SameCell(x, Counted(e))
<1> SUFFICES ASSUME NEW x \in cells, V!SameCell(x, Counted(e)) PROVE FALSE
  OBVIOUS
<1>1. x.which = "direct_counter_entry" /\ x.id = e.id /\ x.key = e.key
  BY CountedIs DEF V!SameCell
<1>2. PICK y \in cells : y.which = "table_entry" /\ y.id = x.id /\ y.key = x.key
  BY <1>1 DEF Sound
<1> QED BY <1>1, <1>2 DEF V!SameCell

LEMMA SameCells ==
  /\ \A x : V!SameCell(x, x)
  /\ \A x, y : V!SameCell(x, y) <=> V!SameCell(y, x)
  /\ \A x, y, z : V!SameCell(x, y) /\ V!SameCell(y, z) => V!SameCell(x, z)
BY DEF V!SameCell

LEMMA SoundApply ==
  ASSUME NEW cells, Sound(cells), NEW info, NEW type, NEW e, Settable(type, e), V!Accepts(cells, info, type, e)
  PROVE  Sound(V!Apply(cells, type, e))
<1> DEFINE zs == V!Apply(cells, type, e)
<1>1. CASE type = "INSERT"
  <2>1. /\ \A x : x \in zs <=> x \in cells \/ x = e \/ (e.which = "table_entry" /\ x = Counted(e))
        /\ e.which \in {"table_entry", "digest_entry"} /\ \A x \in cells : ~V!SameCell(x, e)
    BY <1>1, ApplyIs, AcceptsIs
  <2>2. e.which = "table_entry" => \A x \in cells : ~V!SameCell(x, Counted(e))
    BY <2>1, NoneCounted
  <2>3. ~V!SameCell(e, Counted(e))
    BY <2>1, CountedIs DEF V!SameCell
  <2> HIDE DEF zs
  <2>4. ASSUME NEW x \in zs, NEW y \in zs, V!SameCell(x, y) PROVE x = y
    BY <2>1, <2>2, <2>3, <2>4, SameCells DEF Sound
  <2>5. \A x \in zs : x.which \in V!Counts => x.data \in Nat
    BY <2>1, CountedIs DEF Sound, V!Counts
  <2>6. ASSUME NEW x \in zs, x.which = "direct_counter_entry"
        PROVE  \E y \in zs : y.which = "table_entry" /\ y.id = x.id /\ y.key = x.key
    <3>1. CASE x \in cells
      BY <2>1, <2>6, <3>1 DEF Sound
    <3>2. CASE x \notin cells
      <4>1. x = Counted(e) /\ e.which = "table_entry"
        BY <2>1, <2>6, <3>2
      <4> QED BY <2>1, <4>1, CountedIs
    <3> QED BY <3>1, <3>2
  <2> QED BY <2>4, <2>5, <2>6 DEF Sound, zs
<1>2. CASE type = "MODIFY"
  <2>1. /\ \A x : x \in zs <=> (x \in cells /\ ~V!SameCell(x, e)) \/ x = e
        /\ e.which # "direct_counter_entry" /\ (e.which \in V!Counts => e.data = 0)
    BY <1>2, ApplyIs DEF Settable
  <2> HIDE DEF zs
  <2>2. ASSUME NEW x \in zs, NEW y \in zs, V!SameCell(x, y) PROVE x = y
    BY <2>1, <2>2, SameCells DEF Sound
  <2>3. \A x \in zs : x.which \in V!Counts => x.data \in Nat
    BY <2>1 DEF Sound
  <2>4. ASSUME NEW x \in zs, x.which = "direct_counter_entry"
        PROVE  \E y \in zs : y.which = "table_entry" /\ y.id = x.id /\ y.key = x.key
    <3>1. PICK y \in cells : y.which = "table_entry" /\ y.id = x.id /\ y.key = x.key
      BY <2>1, <2>4 DEF Sound
    <3>2. CASE V!SameCell(y, e)
      BY <2>1, <3>1, <3>2 DEF V!SameCell
    <3> QED BY <2>1, <3>1, <3>2
  <2> QED BY <2>2, <2>3, <2>4 DEF Sound, zs
<1>3. CASE type = "DELETE"
  <2>1. /\ \A x : x \in zs <=> x \in cells /\ ~V!SameCell(x, e) /\ ~V!SameCell(x, Counted(e))
        /\ e.which = "table_entry"
    BY <1>3, ApplyIs DEF Settable
  <2> HIDE DEF zs
  <2>2. ASSUME NEW x \in zs, x.which = "direct_counter_entry"
        PROVE  \E y \in zs : y.which = "table_entry" /\ y.id = x.id /\ y.key = x.key
    <3>1. PICK y \in cells : y.which = "table_entry" /\ y.id = x.id /\ y.key = x.key
      BY <2>1, <2>2 DEF Sound
    <3>2. ~V!SameCell(y, e) /\ ~V!SameCell(y, Counted(e))
      BY <2>1, <2>2, <3>1, CountedIs DEF V!SameCell
    <3> QED BY <2>1, <3>1, <3>2
  <2> QED BY <2>1, <2>2 DEF Sound, zs
<1> QED BY <1>1, <1>2, <1>3 DEF Settable, Types

\* A packet is counted.
LEMMA SoundCount ==
  ASSUME NEW cells, Sound(cells), NEW x \in cells, IsEntity(x), x.which \in V!Counts
  PROVE  Sound((cells \ {x}) \cup {[x EXCEPT !.data = x.data + 1]})
<1> DEFINE z == [x EXCEPT !.data = x.data + 1]
           zs == (cells \ {x}) \cup {z}
<1>1. z.which = x.which /\ z.id = x.id /\ z.key = x.key /\ z.data = x.data + 1
  BY DEF IsEntity, V!Entity
<1>2. x.data \in Nat
  BY DEF Sound
<1> HIDE DEF z
<1>3. \A y : (V!SameCell(y, z) <=> V!SameCell(y, x)) /\ (V!SameCell(z, y) <=> V!SameCell(x, y))
  BY <1>1 DEF V!SameCell
<1>4. ASSUME NEW u \in zs, NEW v \in zs, V!SameCell(u, v) PROVE u = v
  BY <1>3, <1>4, SameCells DEF Sound
<1>5. \A u \in zs : u.which \in V!Counts => u.data \in Nat
  BY <1>1, <1>2 DEF Sound
<1>6. ASSUME NEW u \in zs, u.which = "direct_counter_entry"
      PROVE  \E y \in zs : y.which = "table_entry" /\ y.id = u.id /\ y.key = u.key
  <2>1. \E w \in cells : w.which = "direct_counter_entry" /\ w.id = u.id /\ w.key = u.key
    BY <1>1, <1>6
  <2>2. PICK y \in cells : y.which = "table_entry" /\ y.id = u.id /\ y.key = u.key
    BY <2>1 DEF Sound
  <2>3. y # x
    BY <2>2 DEF V!Counts
  <2> QED BY <2>2, <2>3
<1> QED BY <1>4, <1>5, <1>6 DEF Sound, z

(***************************************************************************)
(* What stands for a cell at a target, and all its counts together.        *)
(***************************************************************************)
At(a, t, x, ys) == {y \in ys : Twins(a, t, x, y)}
Data(a, t, x, ys) == (CHOOSE y \in At(a, t, x, ys) : TRUE).data
Total(a, x, d) == SumOver([t \in Homes(a, x) |-> Data(a, t, x, d[t])], Homes(a, x))

LEMMA OneTwin ==
  ASSUME Orderly, NEW a, NEW t, OnTarget(a, t), NEW ys, Sound(ys), NEW x, NEW y \in ys, Twins(a, t, x, y)
  PROVE  At(a, t, x, ys) = {y} /\ Data(a, t, x, ys) = y.data
<1>1. ASSUME NEW z \in ys, Twins(a, t, x, z) PROVE z = y
  BY <1>1, TwinCells, SameCells DEF Sound
<1>2. At(a, t, x, ys) = {y}
  BY <1>1 DEF At
<1> QED BY <1>2 DEF Data

LEMMA HomesFinite == ASSUME Orderly, NEW a \in V!Tenants, NEW x PROVE IsFiniteSet(Homes(a, x))
<1> DEFINE ts == V!Targets(a)
<1>1. Len(ts) \in Nat /\ DOMAIN ts = 1..Len(ts)
  BY SetupTyped DEF Orderly
<1>2. V!Range(ts) = {ts[i] : i \in 1..Len(ts)}
  BY <1>1 DEF V!Range
<1>3. IsFiniteSet(1..Len(ts))
  BY <1>1, FS_Interval
<1> DEFINE S == 1..Len(ts)
           T == {ts[i] : i \in S}
           f == [i \in S |-> ts[i]]
<1>4. f \in Surjection(S, T)
  <2>1. f \in [S -> T]
    OBVIOUS
  <2>2. \A z \in T : \E i \in S : f[i] = z
    OBVIOUS
  <2> HIDE DEF S, T, f
  <2> QED BY <2>1, <2>2 DEF Surjection
<1>5. IsFiniteSet(T)
  <2> HIDE DEF T, f
  <2> QED BY <1>3, <1>4, FS_Surjection
<1> QED BY <1>2, <1>5, FS_Subset DEF Homes

LEMMA HomesAre ==
  ASSUME Orderly, NEW a \in V!Tenants, NEW x, NEW t
  PROVE  t \in Homes(a, x) <=> OnTarget(a, t) /\ Part(a, t, x)
BY DEF Homes, OnTarget

LEMMA TotalSame ==
  ASSUME NEW a, NEW x, NEW d, NEW f, \A t \in Homes(a, x) : At(a, t, x, d[t]) = At(a, t, x, f[t])
  PROVE  Total(a, x, d) = Total(a, x, f)
<1>1. \A t \in Homes(a, x) : Data(a, t, x, d[t]) = Data(a, t, x, f[t])
  BY DEF Data
<1>2. [t \in Homes(a, x) |-> Data(a, t, x, d[t])] = [t \in Homes(a, x) |-> Data(a, t, x, f[t])]
  BY <1>1
<1> QED BY <1>2 DEF Total

LEMMA TotalZero ==
  ASSUME Orderly, NEW a \in V!Tenants, NEW x, NEW d,
         \A t \in Homes(a, x) : At(a, t, x, d[t]) # {} /\ \A y \in At(a, t, x, d[t]) : y.data = 0
  PROVE  Total(a, x, d) = 0
<1> DEFINE c == [t \in Homes(a, x) |-> Data(a, t, x, d[t])]
<1>1. \A t \in Homes(a, x) : c[t] = 0
  BY DEF Data
<1> HIDE DEF c
<1>2. SumOver(c, Homes(a, x)) = 0
  BY <1>1, HomesFinite, SumZero
<1> QED BY <1>2 DEF Total, c

\* Cells with the same name have the same homes.
LEMMA SameHomes ==
  ASSUME NEW a, NEW x, NEW y, x.id = y.id, V!IdType(x.which) = V!IdType(y.which), x.which \in Told, y.which \in Told
  PROVE  Homes(a, x) = Homes(a, y)
BY DEF Homes, Part

(***************************************************************************)
(* Updates.                                                                *)
(***************************************************************************)
\* What an update sets anew.
Reset(type, e, x) == x = e \/ (type = "INSERT" /\ e.which = "table_entry" /\ x = Counted(e))

LEMMA CountsKept ==
  ASSUME Orderly, NEW a, NEW t, OnTarget(a, t), NEW xs, NEW ys, Sound(xs), NEW info,
         NEW type, NEW e, NEW c, Twins(a, t, e, c), Settable(type, e), V!Accepts(xs, info, type, e),
         NEW x \in V!Apply(xs, type, e), ~Reset(type, e, x)
  PROVE  x \in xs /\ At(a, t, x, V!Apply(ys, type, c)) = At(a, t, x, ys)
<1> DEFINE zs == V!Apply(ys, type, c)
<1>1. x \in xs
  BY ApplyIs DEF Reset, Settable, Types
<1>2. e.which = c.which /\ (e.which = "table_entry" => Twins(a, t, Counted(e), Counted(c)))
  BY CountedTwins DEF Twins
<1>3. /\ ~V!SameCell(x, e)
      /\ type # "MODIFY" /\ e.which = "table_entry" => ~V!SameCell(x, Counted(e))
  <2>1. CASE type = "INSERT"
    BY <1>1, <2>1, AcceptsIs, NoneCounted
  <2>2. CASE type # "INSERT"
    BY <2>2, ApplyIs DEF Reset, Settable, Types
  <2> QED BY <2>1, <2>2
<1>4. ASSUME NEW y, Twins(a, t, x, y)
      PROVE  /\ ~V!SameCell(y, c)
             /\ type # "MODIFY" /\ e.which = "table_entry" => ~V!SameCell(y, Counted(c))
  BY <1>2, <1>3, <1>4, TwinCells
<1>5. ASSUME NEW y, Twins(a, t, x, y) PROVE y \in zs <=> y \in ys
  <2>1. ~V!SameCell(y, c) /\ (type # "MODIFY" /\ e.which = "table_entry" => ~V!SameCell(y, Counted(c)))
    BY <1>4, <1>5
  <2>2. y # c /\ (type # "MODIFY" /\ e.which = "table_entry" => y # Counted(c))
    BY <2>1, SameCells
  <2> QED BY <1>2, <2>1, <2>2, ApplyIs DEF Settable, Types
<1> QED BY <1>1, <1>5 DEF At

LEMMA CountsReset ==
  ASSUME Orderly, NEW a, NEW t, OnTarget(a, t), NEW xs, NEW ys, Sound(xs), Reflects(a, t, xs, ys), NEW info,
         NEW type, NEW e, NEW c, Twins(a, t, e, c), c.data = e.data, Settable(type, e), V!Accepts(xs, info, type, e),
         NEW x \in V!Apply(xs, type, e), Reset(type, e, x), x.which \in V!Counts
  PROVE  x.data = 0 /\ \A y \in At(a, t, x, V!Apply(ys, type, c)) : y.data = 0
<1> SUFFICES ASSUME NEW y \in V!Apply(ys, type, c), Twins(a, t, x, y) PROVE x.data = 0 /\ y.data = 0
  <2>1. x.data = 0
    BY CountedIs DEF Reset, Settable
  <2> QED BY <2>1 DEF At
<1>1. e.which = c.which /\ (e.which = "table_entry" => Twins(a, t, Counted(e), Counted(c)))
  BY CountedTwins DEF Twins
<1>2. CASE x = e
  <2>1. type = "MODIFY" /\ e.data = 0
    <3>1. type # "INSERT" /\ e.which # "table_entry"
      BY <1>2, AcceptsIs DEF V!Counts
    <3> QED BY <1>2, <3>1 DEF Settable, Types
  <2>2. V!SameCell(y, c)
    BY <1>2, TwinCells, SameCells
  <2>3. y = c
    BY <2>1, <2>2, ApplyIs
  <2> QED BY <1>2, <2>1, <2>3
<1>3. CASE x # e
  <2>1. type = "INSERT" /\ e.which = "table_entry" /\ x = Counted(e)
    BY <1>3 DEF Reset
  <2>2. y # c
    BY <1>1, <2>1, CountedIs DEF Twins
  <2>3. y \notin ys
    <3> SUFFICES ASSUME y \in ys PROVE FALSE
      OBVIOUS
    <3>1. PICK z \in xs : Twins(a, t, z, y)
      BY TwinParts DEF Reflects
    <3>2. V!SameCell(z, Counted(e))
      BY <2>1, <3>1, TwinCells, SameCells
    <3> QED BY <2>1, <3>2, AcceptsIs, NoneCounted
  <2>4. y = Counted(c)
    BY <2>1, <2>2, <2>3, ApplyIs
  <2> QED BY <2>1, <2>4, CountedIs
<1> QED BY <1>2, <1>3

\* An update of another tenant, or a packet.
LEMMA OthersApart ==
  ASSUME Orderly, NEW a, NEW b, a # b, NEW t, OnTarget(a, t), OnTarget(b, t), NEW y, Image(a, t, y), NEW z, Image(b, t, z)
  PROVE  y.id # z.id
<1>1. setup.prefix[a] # <<>> /\ setup.prefix[b] # <<>> /\ Shares(a, b, t)
  BY SharedPrefixes, OrderlyIsTidied DEF OnTarget, Shares
<1>2. Under(setup.prefix[a], y.id) /\ Under(setup.prefix[b], z.id)
  BY <1>1, ImageUnder
<1> QED BY <1>1, <1>2, NoIdOfTwo, OrderlyIsTidied DEF OnTarget

LEMMA OthersAt ==
  ASSUME Orderly, NEW a, NEW b, a # b, NEW t, OnTarget(a, t), OnTarget(b, t),
         NEW ys, NEW type \in Types, NEW c, Image(a, t, c), NEW x
  PROVE  At(b, t, x, V!Apply(ys, type, c)) = At(b, t, x, ys)
<1>1. ASSUME NEW y, Twins(b, t, x, y) PROVE y \in V!Apply(ys, type, c) <=> y \in ys
  <2>1. y.id # c.id
    BY <1>1, OthersApart, TwinParts
  <2> QED BY <2>1, ApplyIsLocal DEF Types
<1> QED BY <1>1 DEF At

(***************************************************************************)
(* Each count of a tenant is what its targets have counted together.       *)
(***************************************************************************)
Tallied(v, d) ==
  /\ \A a \in V!Tenants : Sound(v[a]) /\ IsFiniteSet(v[a])
  /\ \A t \in V!AllTargets : Sound(d[t])
  /\ \A a \in V!Tenants : \A x \in v[a] : x.which \in V!Counts => x.data = Total(a, x, d)
\* A target that is the only one has the registers.
Registered(v, d) ==
  \A a \in V!Tenants : \A t \in V!Range(V!Targets(a)) : Len(V!Targets(a)) = 1 =>
    \A x \in v[a] : x.which = "register_entry" => \E y \in d[t] : y.which = "register_entry" /\ y.key = x.key
TallyInv == MirrorInv /\ Tallied(virtual, dev) /\ Registered(virtual, dev)

LEMMA SameTotal ==
  ASSUME setup' = setup, NEW a, NEW x
  PROVE  Total(a, x, dev)' = Total(a, x, dev')
<1>1. Homes(a, x)' = Homes(a, x)
  BY SameNames, SameTwins DEF Homes
<1>2. ASSUME NEW t PROVE Data(a, t, x, dev[t])' = Data(a, t, x, dev'[t])
  <2>1. At(a, t, x, dev[t])' = At(a, t, x, dev'[t])
    BY SameTwins DEF At
  <2> QED BY <2>1 DEF Data
<1>3. [t \in Homes(a, x)' |-> Data(a, t, x, dev[t])'] = [t \in Homes(a, x) |-> Data(a, t, x, dev'[t])]
  BY <1>1, <1>2
<1> QED BY <1>1, <1>3 DEF Total

LEMMA SameTally ==
  ASSUME setup' = setup, Tallied(virtual', dev'), Registered(virtual', dev')
  PROVE  Tallied(virtual, dev)' /\ Registered(virtual, dev)'
<1>1. V!Tenants' = V!Tenants /\ V!AllTargets' = V!AllTargets /\ \A a : V!Targets(a)' = V!Targets(a)
  BY SameNames
<1>2. \A a \in V!Tenants' : Sound(virtual[a])' /\ IsFiniteSet(virtual[a])'
  BY <1>1 DEF Tallied, Sound
<1>3. \A t \in V!AllTargets' : Sound(dev[t])'
  BY <1>1 DEF Tallied, Sound
<1>4. \A a \in V!Tenants' : \A x \in virtual'[a] : x.which \in V!Counts => x.data = Total(a, x, dev)'
  BY <1>1, SameTotal DEF Tallied
<1>5. Registered(virtual, dev)'
  BY <1>1 DEF Registered
<1> QED BY <1>2, <1>3, <1>4, <1>5 DEF Tallied

LEMMA ApplyFinite ==
  ASSUME NEW cells, IsFiniteSet(cells), NEW type \in Types, NEW e
  PROVE  IsFiniteSet(V!Apply(cells, type, e))
<1>1. IsFiniteSet((cells \cup {e}) \cup {Counted(e)})
  BY FS_AddElement
<1>2. V!Apply(cells, type, e) \subseteq (cells \cup {e}) \cup {Counted(e)}
  BY ApplyKeeps
<1> QED BY <1>1, <1>2, FS_Subset

LEMMA WriteTallies ==
  ASSUME TallyInv, NEW a \in V!Tenants, NEW type, NEW e, Written(a, e), Settable(type, e), V!Write(a, type, e)
  PROVE  Tallied(virtual', dev') /\ Registered(virtual', dev')
<1> DEFINE due == V!Accepts(virtual[a], setup.info[a], type, e)
<1>1. PICK c : /\ c.data = e.data /\ \A t \in Homes(a, e) : Twins(a, t, e, c)
               /\ dev' = [t \in V!AllTargets |-> IF t \in Homes(a, e) /\ due THEN V!Apply(dev[t], type, c) ELSE dev[t]]
               /\ virtual' = [virtual EXCEPT ![a] = IF due THEN V!Apply(@, type, e) ELSE @]
               /\ setup' = setup
  BY WriteIs DEF TallyInv
<1>2. CASE ~due
  <2>1. \A b \in V!Tenants : virtual'[b] = virtual[b]
    BY <1>1, <1>2 DEF TallyInv, MirrorInv
  <2>2. \A t \in V!AllTargets : dev'[t] = dev[t]
    BY <1>1, <1>2
  <2>3. ASSUME NEW b \in V!Tenants, NEW x PROVE Total(b, x, dev') = Total(b, x, dev)
    <3>1. \A t \in Homes(b, x) : dev'[t] = dev[t]
      BY <2>2, SetupTyped DEF Homes, TallyInv, MirrorInv, Orderly
    <3>2. \A t \in Homes(b, x) : At(b, t, x, dev'[t]) = At(b, t, x, dev[t])
      BY <3>1
    <3> QED BY <3>2, TotalSame
  <2>4. Tallied(virtual', dev')
    BY <2>1, <2>2, <2>3 DEF TallyInv, Tallied
  <2>5. \A b \in V!Tenants : V!Range(V!Targets(b)) \subseteq V!AllTargets
    BY SetupTyped DEF TallyInv, MirrorInv, Orderly
  <2>6. Registered(virtual', dev')
    BY <2>1, <2>2, <2>5 DEF TallyInv, Registered
  <2> QED BY <2>4, <2>6
<1>3. CASE due
  <2> HIDE DEF due
  <2>1. /\ Orderly /\ DOMAIN virtual = V!Tenants /\ virtual = [b \in V!Tenants |-> virtual[b]]
        /\ \A b \in V!Tenants : \A x \in virtual[b] : MyCell(b, x)
        /\ \A b, t : OnTarget(b, t) => Reflects(b, t, virtual[b], dev[t])
        /\ MyCell(a, e) /\ e.which \in Told /\ type \in Types /\ IsEntity(e)
        /\ Tallied(virtual, dev) /\ Registered(virtual, dev)
    BY DEF TallyInv, MirrorInv, Kept, Written, Settable
  <2>2. /\ virtual'[a] = V!Apply(virtual[a], type, e)
        /\ \A b \in V!Tenants : b # a => virtual'[b] = virtual[b]
        /\ \A t \in V!AllTargets : dev'[t] = IF t \in Homes(a, e) THEN V!Apply(dev[t], type, c) ELSE dev[t]
    BY <1>1, <1>3, <2>1
  <2>3. \A t : t \in Homes(a, e) <=> OnTarget(a, t) /\ Part(a, t, e)
    BY <2>1, HomesAre
  <2>4. \A b, t : OnTarget(b, t) => b \in V!Tenants /\ t \in V!AllTargets
    BY <2>1, SetupTyped DEF OnTarget, Orderly
  <2>5. ASSUME NEW t \in Homes(a, e)
        PROVE  /\ Settable(type, c) /\ V!Accepts(dev[t], setup.program[t], type, c)
               /\ Image(a, t, c) /\ OnTarget(a, t) /\ t \in V!AllTargets
    <3>1. OnTarget(a, t) /\ t \in V!AllTargets /\ Twins(a, t, e, c)
      BY <1>1, <2>3, <2>4
    <3>2. Settable(type, c)
      BY <1>1, <3>1 DEF Settable, Twins
    <3>3. V!Accepts(dev[t], setup.program[t], type, c)
      BY <1>3, <2>1, <3>1, TakesAlike DEF due
    <3> QED BY <3>1, <3>2, <3>3, TwinParts
  <2>6. \A b \in V!Tenants : Sound(virtual'[b]) /\ IsFiniteSet(virtual'[b])
    <3>1. Sound(virtual'[a]) /\ IsFiniteSet(virtual'[a])
      BY <1>3, <2>1, <2>2, SoundApply, ApplyFinite DEF Tallied, due
    <3> QED BY <2>1, <2>2, <3>1 DEF Tallied
  <2>7. \A t \in V!AllTargets : Sound(dev'[t])
    BY <2>1, <2>2, <2>5, SoundApply DEF Tallied
  <2>8. ASSUME NEW b \in V!Tenants, NEW x \in virtual'[b], x.which \in V!Counts PROVE x.data = Total(b, x, dev')
    <3>1. CASE b # a
      <4>1. x \in virtual[b] /\ x.data = Total(b, x, dev)
        BY <2>1, <2>2, <2>8, <3>1 DEF Tallied
      <4>2. ASSUME NEW t \in Homes(b, x) PROVE At(b, t, x, dev'[t]) = At(b, t, x, dev[t])
        <5>1. OnTarget(b, t) /\ t \in V!AllTargets
          BY <2>1, <2>4, HomesAre
        <5>2. CASE t \in Homes(a, e)
          BY <2>1, <2>2, <2>5, <3>1, <5>1, <5>2, OthersAt
        <5>3. CASE t \notin Homes(a, e)
          BY <2>2, <5>1, <5>3
        <5> QED BY <5>2, <5>3
      <4> QED BY <4>1, <4>2, TotalSame
    <3>2. CASE b = a /\ ~Reset(type, e, x)
      <4>1. x \in V!Apply(virtual[a], type, e) /\ Sound(virtual[a])
        BY <2>1, <2>2, <2>8, <3>2 DEF Tallied
      <4>2. x \in virtual[a]
        BY <2>1, <3>2, <4>1, ApplyIs DEF Reset, Types
      <4>3. ASSUME NEW t \in Homes(a, x) PROVE At(a, t, x, dev'[t]) = At(a, t, x, dev[t])
        <5>1. OnTarget(a, t) /\ t \in V!AllTargets
          BY <2>1, <2>4, HomesAre
        <5>2. CASE t \in Homes(a, e)
          <6>1. Twins(a, t, e, c) /\ V!Accepts(virtual[a], setup.info[a], type, e)
            BY <1>1, <1>3, <5>2 DEF due
          <6>2. At(a, t, x, V!Apply(dev[t], type, c)) = At(a, t, x, dev[t])
            BY <2>1, <3>2, <4>1, <5>1, <6>1, CountsKept
          <6> QED BY <2>2, <5>1, <5>2, <6>2
        <5>3. CASE t \notin Homes(a, e)
          BY <2>2, <5>1, <5>3
        <5> QED BY <5>2, <5>3
      <4>4. x.data = Total(a, x, dev)
        BY <2>1, <2>8, <4>2 DEF Tallied
      <4> QED BY <3>2, <4>3, <4>4, TotalSame
    <3>3. CASE b = a /\ Reset(type, e, x)
      <4>1. x \in V!Apply(virtual[a], type, e) /\ Sound(virtual[a])
        BY <2>1, <2>2, <2>8, <3>3 DEF Tallied
      <4>2. Homes(a, x) = Homes(a, e)
        <5>1. x.id = e.id /\ V!IdType(x.which) = V!IdType(e.which) /\ x.which \in Told
          BY <2>8, <3>3, CountedIs DEF Reset, V!IdType, V!Counts, Told, WhichOnes
        <5> QED BY <2>1, <5>1, SameHomes
      <4>3. ASSUME NEW t \in Homes(a, x)
            PROVE  x.data = 0 /\ At(a, t, x, dev'[t]) # {} /\ \A y \in At(a, t, x, dev'[t]) : y.data = 0
        <5>1. OnTarget(a, t) /\ t \in V!AllTargets /\ t \in Homes(a, e) /\ Part(a, t, x)
          BY <2>1, <2>4, <4>2, HomesAre
        <5>2. Twins(a, t, e, c) /\ V!Accepts(virtual[a], setup.info[a], type, e) /\ Reflects(a, t, virtual[a], dev[t])
          BY <1>1, <1>3, <2>1, <5>1 DEF due
        <5>3. dev'[t] = V!Apply(dev[t], type, c)
          BY <2>2, <5>1
        <5>4. x.data = 0 /\ \A y \in At(a, t, x, V!Apply(dev[t], type, c)) : y.data = 0
          BY <1>1, <2>8, <3>3, <4>1, <5>1, <5>2, <2>1, CountsReset
        <5>5. Reflects(a, t, V!Apply(virtual[a], type, e), V!Apply(dev[t], type, c))
          BY <2>1, <5>1, <5>2, AppliesAlike DEF Settable
        <5>6. \E y \in V!Apply(dev[t], type, c) : Twins(a, t, x, y)
          BY <4>1, <5>1, <5>5 DEF Reflects
        <5> QED BY <5>3, <5>4, <5>6 DEF At
      <4>4. Homes(a, e) # {}
        BY <2>1, JobIs
      <4>5. Total(a, x, dev') = 0
        BY <2>1, <4>3, TotalZero
      <4> QED BY <3>3, <4>2, <4>3, <4>4, <4>5
    <3> QED BY <3>1, <3>2, <3>3
  <2>9. Registered(virtual', dev')
    <3> SUFFICES ASSUME NEW b \in V!Tenants, NEW t \in V!Range(V!Targets(b)), Len(V!Targets(b)) = 1,
                        NEW x \in virtual'[b], x.which = "register_entry"
                 PROVE  \E y \in dev'[t] : y.which = "register_entry" /\ y.key = x.key
      BY DEF Registered
    <3>1. e.which # "register_entry" /\ e.which # "direct_counter_entry"
      BY DEF Settable
    <3>2. x \in virtual[b]
      BY <2>1, <2>2, <3>1, ApplyKeeps, CountedIs
    <3>3. PICK y \in dev[t] : y.which = "register_entry" /\ y.key = x.key
      BY <2>1, <3>2 DEF Registered
    <3>4. t \in V!AllTargets
      BY <2>4 DEF OnTarget
    <3>5. CASE t \in Homes(a, e)
      <4>1. c.which # "register_entry"
        BY <2>5, <3>5 DEF Settable
      <4>2. ~V!SameCell(y, c) /\ ~V!SameCell(y, Counted(c))
        BY <3>3, <4>1, CountedIs DEF V!SameCell
      <4>3. y \in V!Apply(dev[t], type, c)
        BY <2>1, <4>2, ApplyIs DEF Types
      <4> QED BY <2>2, <3>3, <3>4, <3>5, <4>3
    <3>6. CASE t \notin Homes(a, e)
      BY <2>2, <3>3, <3>4, <3>6
    <3> QED BY <3>5, <3>6
  <2> QED BY <2>6, <2>7, <2>8, <2>9 DEF Tallied
<1> QED BY <1>2, <1>3

(***************************************************************************)
(* Packets are tallied.                                                    *)
(***************************************************************************)
LEMMA CountIs ==
  ASSUME NEW x, IsEntity(x), x.which \in V!Counts, NEW z, z = [x EXCEPT !.data = x.data + 1]
  PROVE  /\ Like(x, z) /\ z.which = x.which /\ z.id = x.id /\ z.key = x.key /\ z.data = x.data + 1 /\ IsEntity(z)
<1>1. /\ IsEntity(z) /\ z.which = x.which /\ z.id = x.id /\ z.action = x.action /\ z.key = x.key /\ z.data = x.data + 1
  BY DEF IsEntity, V!Entity
<1> QED BY <1>1 DEF Like, Recounted

LEMMA DataNat ==
  ASSUME Orderly, NEW a, NEW t, OnTarget(a, t), NEW xs, NEW ys, Reflects(a, t, xs, ys), Sound(ys),
         NEW x \in xs, x.which \in V!Counts, Part(a, t, x)
  PROVE  Data(a, t, x, ys) \in Nat
<1>1. PICK y \in ys : Twins(a, t, x, y)
  BY DEF Reflects
<1>2. y.which \in V!Counts
  BY <1>1 DEF Twins
<1>3. y.data \in Nat
  BY <1>2 DEF Sound
<1> QED BY <1>1, <1>3, OneTwin

\* What a packet is counted at, on both sides.
LEMMA PacketIs ==
  ASSUME TallyInv, NEW a \in V!Tenants, NEW t \in V!Range(V!Targets(a)), NEW e, V!Packet(a, t, e)
  PROVE  \E x \in dev[t] :
           /\ e \in virtual[a] /\ e.which \in V!Counts /\ IsEntity(e) /\ IsEntity(x) /\ x.which \in V!Counts
           /\ Part(a, t, e) /\ Twins(a, t, e, x) /\ setup' = setup /\ answer' = V!NoAnswer
           /\ dev' = [dev EXCEPT ![t] = (@ \ {x}) \cup {[x EXCEPT !.data = x.data + 1]}]
           /\ virtual' = [virtual EXCEPT ![a] = (@ \ {e}) \cup {[e EXCEPT !.data = e.data + 1]}]
<1>1. /\ e \in virtual[a] /\ e.which \in V!Counts /\ setup' = setup /\ answer' = V!NoAnswer
      /\ virtual' = [virtual EXCEPT ![a] = (@ \ {e}) \cup {[e EXCEPT !.data = e.data + 1]}]
      /\ \E n \in V!EntityName(setup.info[a], e) : Len(V!Targets(a)) = 1 \/ V!Handles(a, t, n)
  BY DEF V!Packet, V!Counts
<1>2. PICK c \in V!ConvertEntity(V!Conv(a, t), e) : \E x \in dev[t] :
        /\ V!SameCell(x, c) /\ dev' = [dev EXCEPT ![t] = (@ \ {x}) \cup {[x EXCEPT !.data = x.data + 1]}]
  BY DEF V!Packet
<1>3. PICK x \in dev[t] :
        /\ V!SameCell(x, c) /\ dev' = [dev EXCEPT ![t] = (@ \ {x}) \cup {[x EXCEPT !.data = x.data + 1]}]
  BY <1>2
<1>4. /\ Orderly /\ OnTarget(a, t) /\ t \in V!AllTargets /\ MyCell(a, e) /\ e.which \in Told /\ IsEntity(e)
      /\ Reflects(a, t, virtual[a], dev[t]) /\ Sound(dev[t])
  <2>1. Orderly /\ OnTarget(a, t) /\ t \in V!AllTargets
    BY SetupTyped DEF TallyInv, MirrorInv, OnTarget, Orderly
  <2>2. MyCell(a, e) /\ Reflects(a, t, virtual[a], dev[t]) /\ Sound(dev[t])
    BY <1>1, <2>1 DEF TallyInv, MirrorInv, Kept, Tallied
  <2> QED BY <1>1, <2>1, <2>2 DEF MyCell, Told, V!Counts, WhichOnes
<1>5. Part(a, t, e)
  <2>1. PICK n \in setup.info[a].names[V!IdType(e.which)] : e.id = MyId(a, V!IdType(e.which), n)
    BY <1>4 DEF MyCell
  <2>2. V!EntityName(setup.info[a], e) = {n}
    BY <1>4, <2>1, NamesOf DEF MyId
  <2> QED BY <1>1, <1>4, <2>2, PartIs
<1>6. PICK y \in dev[t] : Twins(a, t, e, y)
  BY <1>1, <1>4, <1>5 DEF Reflects
<1>7. c = V!Entity(e.which, y.id, y.action, e.key, e.data)
  BY <1>2, <1>4, <1>6, TwinConverts
<1>8. V!SameCell(x, y)
  BY <1>3, <1>6, <1>7 DEF V!SameCell, V!Entity, Twins
<1>9. x = y
  BY <1>4, <1>8 DEF Sound
<1> QED BY <1>1, <1>3, <1>4, <1>5, <1>6, <1>9 DEF Twins

LEMMA PacketTallies ==
  ASSUME TallyInv, NEW a \in V!Tenants, NEW t \in V!Range(V!Targets(a)), NEW e, V!Packet(a, t, e)
  PROVE  Tallied(virtual', dev') /\ Registered(virtual', dev')
<1>1. PICK x \in dev[t] :
        /\ e \in virtual[a] /\ e.which \in V!Counts /\ IsEntity(e) /\ IsEntity(x) /\ x.which \in V!Counts
        /\ Part(a, t, e) /\ Twins(a, t, e, x) /\ setup' = setup
        /\ dev' = [dev EXCEPT ![t] = (@ \ {x}) \cup {[x EXCEPT !.data = x.data + 1]}]
        /\ virtual' = [virtual EXCEPT ![a] = (@ \ {e}) \cup {[e EXCEPT !.data = e.data + 1]}]
  BY PacketIs
<1> DEFINE z == [e EXCEPT !.data = e.data + 1]
           w == [x EXCEPT !.data = x.data + 1]
<1>2. /\ Orderly /\ OnTarget(a, t) /\ t \in V!AllTargets
      /\ DOMAIN virtual = V!Tenants /\ virtual = [b \in V!Tenants |-> virtual[b]]
      /\ DOMAIN dev = V!AllTargets /\ dev = [u \in V!AllTargets |-> dev[u]]
      /\ \A b, u : OnTarget(b, u) => Reflects(b, u, virtual[b], dev[u])
      /\ Tallied(virtual, dev) /\ Registered(virtual, dev)
  BY SetupTyped DEF TallyInv, MirrorInv, OnTarget, Orderly, Kept
<1>3. /\ virtual'[a] = (virtual[a] \ {e}) \cup {z}
      /\ \A b \in V!Tenants : b # a => virtual'[b] = virtual[b]
      /\ dev'[t] = (dev[t] \ {x}) \cup {w}
      /\ \A u \in V!AllTargets : u # t => dev'[u] = dev[u]
  BY <1>1, <1>2
<1>4. /\ Like(e, z) /\ z.which = e.which /\ z.id = e.id /\ z.key = e.key /\ z.data = e.data + 1
      /\ Like(x, w) /\ w.which = x.which /\ w.id = x.id /\ w.key = x.key /\ w.data = x.data + 1
  BY <1>1, CountIs
<1>5. \A b \in V!Tenants : Sound(virtual'[b]) /\ IsFiniteSet(virtual'[b])
  <2>1. Sound(virtual'[a])
    BY <1>1, <1>2, <1>3, SoundCount DEF Tallied
  <2>2. IsFiniteSet(virtual[a])
    BY <1>2 DEF Tallied
  <2>3. IsFiniteSet(virtual[a] \cup {z}) /\ virtual'[a] \subseteq virtual[a] \cup {z}
    BY <1>3, <2>2, FS_AddElement
  <2>4. IsFiniteSet(virtual'[a])
    BY <2>3, FS_Subset
  <2> QED BY <1>2, <1>3, <2>1, <2>4 DEF Tallied
<1>6. \A u \in V!AllTargets : Sound(dev'[u])
  <2>1. Sound(dev'[t])
    BY <1>1, <1>2, <1>3, SoundCount DEF Tallied
  <2> QED BY <1>2, <1>3, <2>1 DEF Tallied
<1> HIDE DEF z, w
<1>7. \A b, u : OnTarget(b, u) => b \in V!Tenants /\ u \in V!AllTargets
  BY <1>2, SetupTyped DEF OnTarget, Orderly
<1>8. ASSUME NEW b \in V!Tenants, NEW v \in virtual[b], b = a => v # e, v.which \in V!Counts
      PROVE  v.data = Total(b, v, dev')
  <2>1. v.data = Total(b, v, dev)
    BY <1>2, <1>8 DEF Tallied
  <2>2. ASSUME NEW u \in Homes(b, v) PROVE At(b, u, v, dev'[u]) = At(b, u, v, dev[u])
    <3>1. OnTarget(b, u) /\ u \in V!AllTargets
      BY <1>2, <1>7, HomesAre
    <3>2. CASE u # t
      BY <1>3, <3>1, <3>2
    <3>3. CASE u = t
      <4>1. ~Twins(b, t, v, x)
        <5> SUFFICES ASSUME Twins(b, t, v, x) PROVE FALSE
          OBVIOUS
        <5>1. CASE b = a
          <6>1. V!SameCell(v, e)
            BY <1>1, <1>2, <5>1, TwinCells, SameCells
          <6> QED BY <1>1, <1>2, <1>8, <5>1, <6>1 DEF Tallied, Sound
        <5>2. CASE b # a
          <6>1. Image(a, t, x) /\ Image(b, t, x)
            BY <1>1, TwinParts
          <6> QED BY <1>2, <3>1, <3>3, <5>2, <6>1, OthersApart
        <5> QED BY <5>1, <5>2
      <4>2. ~Twins(b, t, v, w)
        BY <1>4, <4>1, AlikeParts
      <4> QED BY <1>3, <3>3, <4>1, <4>2 DEF At
    <3> QED BY <3>2, <3>3
  <2> QED BY <2>1, <2>2, TotalSame
<1>9. z.data = Total(a, z, dev')
  <2> DEFINE H == Homes(a, e)
             c == [u \in H |-> Data(a, u, e, dev[u])]
             d == [u \in H |-> Data(a, u, z, dev'[u])]
  <2>1. Homes(a, z) = H
    <3>1. e.which \in Told
      BY <1>1 DEF Told, V!Counts, WhichOnes
    <3> QED BY <1>4, <3>1, SameHomes
  <2>2. IsFiniteSet(H) /\ t \in H
    BY <1>1, <1>2, HomesFinite, HomesAre
  <2>3. ASSUME NEW u \in H PROVE c[u] \in Nat /\ OnTarget(a, u) /\ u \in V!AllTargets
    <3>1. OnTarget(a, u) /\ Part(a, u, e) /\ u \in V!AllTargets
      BY <1>2, <1>7, HomesAre
    <3>2. Reflects(a, u, virtual[a], dev[u]) /\ Sound(dev[u])
      BY <1>2, <3>1 DEF Tallied
    <3> QED BY <1>1, <1>2, <3>1, <3>2, DataNat
  <2>4. ASSUME NEW u \in H, u # t PROVE d[u] = c[u]
    <3>1. dev'[u] = dev[u]
      BY <1>3, <2>3, <2>4
    <3>2. At(a, u, z, dev[u]) = At(a, u, e, dev[u])
      BY <1>4, AlikeParts DEF At
    <3>3. Data(a, u, z, dev'[u]) = Data(a, u, e, dev[u])
      BY <3>1, <3>2 DEF Data
    <3> HIDE DEF H
    <3> QED BY <2>4, <3>3
  <2>5. c[t] = x.data
    BY <1>1, <1>2, <2>2, OneTwin DEF Tallied
  <2>6. d[t] = x.data + 1
    <3>1. w \in dev'[t] /\ Twins(a, t, z, w)
      BY <1>1, <1>3, <1>4, AlikeParts
    <3>2. Data(a, t, z, dev'[t]) = w.data
      BY <1>2, <1>6, <3>1, OneTwin
    <3> QED BY <1>4, <2>2, <3>2
  <2>7. Total(a, z, dev') = SumOver(d, H) /\ e.data = SumOver(c, H)
    <3>1. e.data = Total(a, e, dev)
      BY <1>1, <1>2 DEF Tallied
    <3> QED BY <2>1, <3>1 DEF Total
  <2> HIDE DEF c, d, H
  <2>8. x.data \in Nat
    BY <2>2, <2>3, <2>5
  <2>9. \A u \in H : c[u] \in Nat /\ d[u] \in Nat
    BY <2>3, <2>4, <2>6, <2>8
  <2>10. SumOver(d, H) - SumOver(c, H) = d[t] - c[t]
    BY <2>2, <2>4, <2>9, SumChange
  <2>11. SumOver(d, H) \in Nat /\ SumOver(c, H) \in Nat
    BY <2>2, <2>9, SumType
  <2>12. SumOver(d, H) = SumOver(c, H) + 1
    BY <2>5, <2>6, <2>8, <2>10, <2>11
  <2> QED BY <1>4, <2>7, <2>12
<1>10. Tallied(virtual', dev')
  <2>1. ASSUME NEW b \in V!Tenants, NEW v \in virtual'[b], v.which \in V!Counts PROVE v.data = Total(b, v, dev')
    BY <1>3, <1>8, <1>9, <2>1
  <2> QED BY <1>5, <1>6, <2>1 DEF Tallied
<1>11. Registered(virtual', dev')
  <2> SUFFICES ASSUME NEW b \in V!Tenants, NEW u \in V!Range(V!Targets(b)), Len(V!Targets(b)) = 1,
                      NEW v \in virtual'[b], v.which = "register_entry"
               PROVE  \E y \in dev'[u] : y.which = "register_entry" /\ y.key = v.key
    BY DEF Registered
  <2>1. e.which # "register_entry" /\ x.which # "register_entry" /\ u \in V!AllTargets
    BY <1>1, <1>7 DEF V!Counts, OnTarget
  <2>2. v \in virtual[b]
    BY <1>3, <1>4, <2>1
  <2>3. PICK y \in dev[u] : y.which = "register_entry" /\ y.key = v.key
    BY <1>2, <2>2 DEF Registered
  <2>4. y \in dev'[u]
    BY <1>3, <2>1, <2>3
  <2> QED BY <2>3, <2>4
<1> QED BY <1>10, <1>11

(***************************************************************************)
(* At first nothing has been counted.                                      *)
(***************************************************************************)
LEMMA GridFinite ==
  ASSUME NEW S, IsFiniteSet(S), NEW K, IsFiniteSet(K), NEW f
  PROVE  IsFiniteSet({f[p] : p \in S \X K})
<1> DEFINE G == S \X K
           T == {f[p] : p \in G}
           g == [p \in G |-> f[p]]
<1>1. IsFiniteSet(G)
  BY FS_Product
<1>2. g \in [G -> T] /\ \A z \in T : \E p \in G : g[p] = z
  OBVIOUS
<1> HIDE DEF G, T, g
<1>3. g \in Surjection(G, T)
  BY <1>2 DEF Surjection
<1>4. IsFiniteSet(T)
  BY <1>1, <1>3, FS_Surjection
<1> QED BY <1>4 DEF T, G

\* The cells of one kind that a switch has from the start.
FreshOnes(info, which, k) == {V!Entity(which, V!IdIn(info, k, p[1]), Zero, p[2], 0) : p \in info.names[k] \X V!Keys}

LEMMA FreshOnesFinite ==
  ASSUME NEW info, NEW which, NEW k, IsFiniteSet(info.names[k]), IsFiniteSet(V!Keys)
  PROVE  IsFiniteSet(FreshOnes(info, which, k))
<1> DEFINE f == [p \in info.names[k] \X V!Keys |-> V!Entity(which, V!IdIn(info, k, p[1]), Zero, p[2], 0)]
<1>1. FreshOnes(info, which, k) = {f[p] : p \in info.names[k] \X V!Keys}
  BY DEF FreshOnes
<1> HIDE DEF f
<1> QED BY <1>1, GridFinite

LEMMA FreshFinite == ASSUME setup \in Setups, NEW a \in V!Tenants PROVE IsFiniteSet(V!Fresh(setup.info[a]))
<1> DEFINE info == setup.info[a]
           A == FreshOnes(info, "counter_entry", "counter")
           B == FreshOnes(info, "meter_entry", "meter")
           C == FreshOnes(info, "register_entry", "register")
<1>1. IsFiniteSet(V!Keys) /\ \A k \in Kinds : IsFiniteSet(info.names[k])
  BY SetupsAssumption, SetupTyped DEF V!Keys, P4Info, Aliased
<1>2. "counter" \in Kinds /\ "meter" \in Kinds /\ "register" \in Kinds
  BY DEF Kinds
<1>3. IsFiniteSet(A) /\ IsFiniteSet(B) /\ IsFiniteSet(C)
  BY <1>1, <1>2, FreshOnesFinite
<1>4. ASSUME NEW which, NEW k, NEW n \in info.names[k], NEW key \in V!Keys
      PROVE  V!Entity(which, V!IdIn(info, k, n), Zero, key, 0) \in FreshOnes(info, which, k)
  <2> DEFINE p == <<n, key>>
  <2>1. p \in info.names[k] \X V!Keys /\ p[1] = n /\ p[2] = key
    BY <1>4
  <2> HIDE DEF p
  <2> QED BY <2>1 DEF FreshOnes
<1>5. ASSUME NEW x \in V!Fresh(info) PROVE x \in (A \cup B) \cup C
  <2>1. PICK n, key : /\ key \in V!Keys
                      /\ \/ n \in info.names["counter"] /\ x = V!Entity("counter_entry", V!IdIn(info, "counter", n), Zero, key, 0)
                         \/ n \in info.names["meter"] /\ x = V!Entity("meter_entry", V!IdIn(info, "meter", n), Zero, key, 0)
                         \/ n \in info.names["register"] /\ x = V!Entity("register_entry", V!IdIn(info, "register", n), Zero, key, 0)
    BY <1>5, FreshIs
  <2> QED BY <1>4, <2>1
<1> HIDE DEF A, B, C, info
<1>6. IsFiniteSet((A \cup B) \cup C)
  BY <1>3, FS_Union
<1> QED BY <1>5, <1>6, FS_Subset DEF info

LEMMA FreshSound == ASSUME NEW info PROVE Sound(V!Fresh(info))
<1>1. ASSUME NEW x \in V!Fresh(info), NEW y \in V!Fresh(info), V!SameCell(x, y) PROVE x = y
  <2>1. x = V!Entity(x.which, x.id, Zero, x.key, 0) /\ y = V!Entity(y.which, y.id, Zero, y.key, 0)
    BY FreshTold DEF IsEntity
  <2> QED BY <1>1, <2>1 DEF V!SameCell
<1>2. \A x \in V!Fresh(info) : x.data = 0 /\ (x.which \in V!Counts => x.which # "direct_counter_entry")
  BY FreshTold DEF V!Counts, Told, WhichOnes
<1>3. \A x \in V!Fresh(info) : x.which # "direct_counter_entry"
  BY <1>2 DEF V!Counts
<1> QED BY <1>1, <1>2, <1>3 DEF Sound

LEMMA TallyInit == ASSUME V!Init, V!Tidy PROVE TallyInv
<1>1. /\ dev = [t \in V!AllTargets |-> V!Fresh(setup.program[t])] /\ virtual = [a \in V!Tenants |-> V!Fresh(setup.info[a])]
      /\ Orderly /\ MirrorInv /\ setup \in Setups
  BY MirrorInit DEF V!Init, MirrorInv, Orderly
<1>2. \A a \in V!Tenants : Sound(virtual[a]) /\ IsFiniteSet(virtual[a])
  BY <1>1, FreshSound, FreshFinite
<1>3. \A t \in V!AllTargets : Sound(dev[t])
  BY <1>1, FreshSound
<1>4. \A a, t : OnTarget(a, t) => a \in V!Tenants /\ t \in V!AllTargets
  BY <1>1, SetupTyped DEF OnTarget
<1>5. ASSUME NEW a \in V!Tenants, NEW x \in virtual[a], x.which \in V!Counts PROVE x.data = Total(a, x, dev)
  <2>1. x.data = 0
    BY <1>1, FreshTold
  <2>2. ASSUME NEW t \in Homes(a, x) PROVE At(a, t, x, dev[t]) # {} /\ \A y \in At(a, t, x, dev[t]) : y.data = 0
    <3>1. OnTarget(a, t) /\ Part(a, t, x) /\ t \in V!AllTargets
      BY <1>1, <1>4, HomesAre
    <3>2. \E y \in dev[t] : Twins(a, t, x, y)
      BY <1>1, <3>1 DEF MirrorInv, Kept, Reflects
    <3>3. \A y \in dev[t] : y.data = 0
      BY <1>1, <3>1, FreshTold
    <3> QED BY <3>2, <3>3 DEF At
  <2> QED BY <1>1, <2>1, <2>2, TotalZero
<1>6. Registered(virtual, dev)
  <2> SUFFICES ASSUME NEW a \in V!Tenants, NEW t \in V!Range(V!Targets(a)), Len(V!Targets(a)) = 1,
                      NEW x \in virtual[a], x.which = "register_entry"
               PROVE  \E y \in dev[t] : y.which = "register_entry" /\ y.key = x.key
    BY DEF Registered
  <2>1. OnTarget(a, t) /\ t \in V!AllTargets /\ "register" \in Kinds
    BY <1>4 DEF OnTarget, Kinds
  <2>2. PICK n, key : /\ key \in V!Keys /\ n \in setup.info[a].names["register"]
                      /\ x = V!Entity("register_entry", V!IdIn(setup.info[a], "register", n), Zero, key, 0)
    <3>1. x \in V!Fresh(setup.info[a])
      BY <1>1
    <3> QED BY <3>1, FreshIs DEF V!Entity
  <2>3. n \in V!Own(a, t, "register")
    BY <2>2 DEF V!Own
  <2>4. V!NameAt(a, t, n) \in setup.program[t].names["register"]
    BY <1>1, <2>1, <2>3, OwnNames
  <2> DEFINE y == V!Entity("register_entry", V!IdIn(setup.program[t], "register", V!NameAt(a, t, n)), Zero, key, 0)
  <2>5. y \in V!Fresh(setup.program[t])
    BY <2>2, <2>4, FreshIs
  <2>6. y.which = "register_entry" /\ y.key = x.key
    BY <2>2 DEF V!Entity
  <2> HIDE DEF y
  <2> QED BY <1>1, <2>1, <2>5, <2>6
<1> QED BY <1>1, <1>2, <1>3, <1>5, <1>6 DEF TallyInv, Tallied

\* Counts of entities that are read, added up.
SumOfEntities(S) == V!MapThenSumSet(LAMBDA s : s.entity.data, S)
Datum(S) == [s \in S |-> s.entity.data]
IsEntitySums(I, S) ==
  I = [s \in SUBSET S |-> IF s = {} THEN 0
                          ELSE LET x == CHOOSE x \in s : TRUE IN x.entity.data + I[s \ {x}]]

LEMMA EntitySumIs == ASSUME NEW S PROVE SumOfEntities(S) = (CHOOSE I : IsEntitySums(I, S))[S]
BY DEF SumOfEntities, IsEntitySums, V!MapThenSumSet, V!MapThenFoldSet

LEMMA EntitySums == ASSUME NEW S PROVE SumOfEntities(S) = SumOver(Datum(S), S)
<1>1. ASSUME NEW I PROVE IsEntitySums(I, S) <=> IsSums(I, Datum(S), S)
  <2>1. ASSUME NEW s \in SUBSET S, s # {}
        PROVE  Datum(S)[CHOOSE x \in s : TRUE] = (CHOOSE x \in s : TRUE).entity.data
    <3>1. (CHOOSE x \in s : TRUE) \in S
      BY <2>1
    <3> QED BY <3>1 DEF Datum
  <2>2. [s \in SUBSET S |-> IF s = {} THEN 0
                            ELSE LET x == CHOOSE x \in s : TRUE IN x.entity.data + I[s \ {x}]]
        = [s \in SUBSET S |-> IF s = {} THEN 0
                            ELSE LET x == CHOOSE x \in s : TRUE IN Datum(S)[x] + I[s \ {x}]]
    BY <2>1
  <2> QED BY <2>2 DEF IsEntitySums, IsSums
<1>2. (CHOOSE I : IsEntitySums(I, S)) = SumsOf(Datum(S), S)
  <2> DEFINE A(I) == IsEntitySums(I, S)
             B(I) == IsSums(I, Datum(S), S)
  <2>1. \A I : A(I) <=> B(I)
    BY <1>1
  <2> HIDE DEF A, B
  <2>2. (CHOOSE I : A(I)) = (CHOOSE I : B(I))
    BY <2>1
  <2> QED BY <2>2 DEF A, B, SumsOf
<1> QED BY <1>2, EntitySumIs, SumIs

(***************************************************************************)
(* Whom a Read asks, and what comes back.                                  *)
(***************************************************************************)
\* Kinds of entities that have names with dots.
Dotted == {"table_entry", "counter_entry", "direct_counter_entry", "meter_entry"}
Due(a, e) == V!Asked(virtual[a], e)
Asking(a, e) == UNION {V!Range(s) : s \in V!ReadTargets(a, e)}
Got(a, t, e) == UNION {V!Asked(dev[t], c) : c \in V!ConvertEntity(V!Conv(a, t), e)}
Received(a, e) == UNION {UNION {V!Translated(a, t, x) : x \in Got(a, t, e)} : t \in Asking(a, e)}
Raises(a, e) ==
  \/ V!ReadTargets(a, e) = {}
  \/ \E t \in Asking(a, e) : \/ V!ConvertEntity(V!Conv(a, t), e) = {}
                            \/ \E x \in Got(a, t, e) : V!Untranslatable(a, t, x)
  \/ ~setup.threads /\ V!Unmergeable(Received(a, e))
Entities(a, e) == IF setup.threads THEN {r.entity : r \in Received(a, e)} ELSE V!Merged(Received(a, e))

LEMMA ReadIs ==
  ASSUME NEW a, NEW e, V!Read(a, e)
  PROVE  /\ answer'.op = "read" /\ answer'.of = e.which /\ answer'.due = Due(a, e)
         /\ Raises(a, e) => answer'.ok = FALSE
         /\ ~Raises(a, e) => /\ answer'.ok = TRUE /\ answer'.entities = Entities(a, e)
                             /\ answer'.size = V!Cardinality(IF setup.threads THEN Received(a, e) ELSE Entities(a, e))
         /\ UNCHANGED <<setup, dev, virtual>>
<1> DEFINE size == V!Cardinality(IF setup.threads THEN Received(a, e) ELSE Entities(a, e))
<1>1. /\ IF Raises(a, e) THEN V!Answer("read", a, e.which, FALSE, Due(a, e), {}, 0)
         ELSE V!Answer("read", a, e.which, TRUE, Due(a, e), Entities(a, e), size)
      /\ UNCHANGED <<setup, dev, virtual>>
  BY DEF V!Read, Raises, Received, Got, Asking, Due, Entities
<1> HIDE DEF size
<1>2. Raises(a, e) => V!Answer("read", a, e.which, FALSE, Due(a, e), {}, 0)
  BY <1>1
<1>3. ~Raises(a, e) => V!Answer("read", a, e.which, TRUE, Due(a, e), Entities(a, e), size)
  BY <1>1
<1>4. /\ Raises(a, e) => answer' = [op |-> "read", by |-> a, of |-> e.which, ok |-> FALSE, due |-> Due(a, e),
                                    entities |-> {}, size |-> 0]
      /\ ~Raises(a, e) => answer' = [op |-> "read", by |-> a, of |-> e.which, ok |-> TRUE, due |-> Due(a, e),
                                     entities |-> Entities(a, e), size |-> size]
  BY <1>2, <1>3 DEF V!Answer
<1>5. CASE Raises(a, e)
  BY <1>1, <1>4, <1>5
<1>6. CASE ~Raises(a, e)
  BY <1>1, <1>4, <1>6 DEF size
<1> QED BY <1>5, <1>6

\* What controllers ask for.
Question(a, e) ==
  /\ IsEntity(e) /\ e.action = Zero /\ e.which \in Dotted \cup {"register_entry", "digest_entry"}
  /\ e.id # Zero => \E n : /\ n \in setup.info[a].names[IF e.which = "register_entry" THEN "register" ELSE V!IdType(e.which)]
                           /\ e.id = MyId(a, IF e.which = "register_entry" THEN "register" ELSE V!IdType(e.which), n)

LEMMA ReadsAsk == ASSUME NEW a, NEW e \in V!Reads(setup.info[a]) PROVE Question(a, e)
<1> DEFINE Of(w) == {V!Entity(w, i, V!Zero, k, 0) : i \in {V!Zero} \cup V!ReadIds(setup.info[a], w), k \in V!Keys \cup {V!AnyKey}}
           W == {w \in V!WhichOnes \ {"direct_meter_entry"} : V!ReadIds(setup.info[a], w) # {}}
<1>0. V!WhichOnes = WhichOnes /\ V!Zero = Zero
  BY DEF V!WhichOnes, WhichOnes, V!Zero, Zero
<1>1. PICK which \in WhichOnes \ {"direct_meter_entry"} :
        \E i \in {Zero} \cup V!ReadIds(setup.info[a], which) : \E k : e = V!Entity(which, i, Zero, k, 0)
  <2>1. e \in UNION {Of(w) : w \in W}
    BY DEF V!Reads
  <2>2. PICK w \in W : e \in Of(w)
    BY <2>1
  <2> QED BY <1>0, <2>2
<1>2. PICK i \in {Zero} \cup V!ReadIds(setup.info[a], which) : \E k : e = V!Entity(which, i, Zero, k, 0)
  BY <1>1
<1>3. e.which = which /\ e.id = i /\ e.action = Zero /\ IsEntity(e)
  BY <1>2 DEF V!Entity, IsEntity
<1>4. which \in Dotted \cup {"register_entry", "digest_entry"}
  BY DEF WhichOnes, Dotted
<1> QED BY <1>3, <1>4 DEF Question, V!ReadIds, V!Ids, MyId

Matches(x, e) == x.which = e.which /\ e.id \in {Zero, x.id} /\ e.key \in {V!AnyKey, x.key}

LEMMA AskedIs == ASSUME NEW cells, NEW e, NEW x PROVE x \in V!Asked(cells, e) <=> x \in cells /\ Matches(x, e)
BY DEF V!Asked, Matches, V!Zero, Zero

LEMMA DottedIs ==
  ASSUME NEW which \in Dotted
  PROVE  /\ which \in Told /\ which \in WhichOnes /\ which # "register_entry" /\ which # "digest_entry"
         /\ V!IdType(which) \in {"table", "counter", "meter"} /\ V!IdType(which) \in Kinds
BY DEF Dotted, Told, WhichOnes, V!IdType, Kinds

LEMMA QuestionWritten ==
  ASSUME NEW a, NEW e, Question(a, e), e.which \in Told, e.id # Zero
  PROVE  Written(a, e)
BY DEF Question, Written, MyCell, Told

\* Whom a Read asks for an entity with a name, and in which words.
LEMMA AskingIs ==
  ASSUME Orderly, NEW a \in V!Tenants, NEW e, Question(a, e), e.which \in Told
  PROVE  /\ V!ReadTargets(a, e) # {}
         /\ \A t : t \in Asking(a, e) <=> OnTarget(a, t) /\ (e.id = Zero \/ Part(a, t, e))
<1>1. CASE e.id = Zero
  <2>1. V!ReadTargets(a, e) = {V!Targets(a)}
    BY <1>1 DEF V!ReadTargets, Told, V!Zero, Zero
  <2> QED BY <1>1, <2>1 DEF Asking, OnTarget
<1>2. CASE e.id # Zero
  <2>1. PICK ts : V!TargetsOf(a, e) = {ts} /\ V!Range(ts) = Homes(a, e)
    BY <1>2, QuestionWritten, JobIs
  <2>2. V!ReadTargets(a, e) = {ts}
    BY <1>2, <2>1 DEF V!ReadTargets, V!Zero, Zero
  <2>3. Asking(a, e) = Homes(a, e)
    BY <2>1, <2>2 DEF Asking
  <2> QED BY <1>2, <2>2, <2>3, HomesAre
<1> QED BY <1>1, <1>2

LEMMA QuestionIs ==
  ASSUME Orderly, NEW a \in V!Tenants, NEW e, Question(a, e), e.which \in Told, NEW t \in Asking(a, e)
  PROVE  \E c : /\ V!ConvertEntity(V!Conv(a, t), e) = {c} /\ c.which = e.which /\ c.key = e.key
                /\ IF e.id = Zero THEN c.id = Zero ELSE Stands(a, t, V!IdType(e.which), e.id, c.id)
<1>1. OnTarget(a, t) /\ (e.id = Zero \/ Part(a, t, e))
  BY AskingIs
<1>2. CASE e.id = Zero
  <2> DEFINE c == V!Entity(e.which, Zero, Zero, e.key, e.data)
  <2>1. V!ConvertEntity(V!Conv(a, t), e) = {V!Entity(e.which, i, b, e.key, e.data) : i \in {Zero}, b \in {Zero}}
    BY <1>2 DEF V!ConvertEntity, V!ConvertedEntity, V!Zero, Zero, Question
  <2>2. V!ConvertEntity(V!Conv(a, t), e) = {c}
    BY <2>1, OneEntity
  <2>3. c.which = e.which /\ c.key = e.key /\ c.id = Zero
    BY DEF V!Entity
  <2> HIDE DEF c
  <2> QED BY <1>2, <2>2, <2>3
<1>3. CASE e.id # Zero
  <2>1. Written(a, e)
    BY <1>3, QuestionWritten
  <2>2. PICK c : Twins(a, t, e, c) /\ V!ConvertEntity(V!Conv(a, t), e) = {c}
    BY <1>1, <1>3, <2>1, TwinOf
  <2> QED BY <1>3, <2>2 DEF Twins
<1> QED BY <1>2, <1>3

LEMMA GotTwins ==
  ASSUME Orderly, NEW a \in V!Tenants, NEW e, Question(a, e), e.which \in Told, NEW t \in Asking(a, e),
         NEW x, NEW y, Twins(a, t, x, y)
  PROVE  y \in Got(a, t, e) <=> y \in dev[t] /\ Matches(x, e)
<1>1. PICK c : /\ V!ConvertEntity(V!Conv(a, t), e) = {c} /\ c.which = e.which /\ c.key = e.key
               /\ IF e.id = Zero THEN c.id = Zero ELSE Stands(a, t, V!IdType(e.which), e.id, c.id)
  BY QuestionIs
<1>2. y \in Got(a, t, e) <=> y \in dev[t] /\ Matches(y, c)
  BY <1>1, AskedIs DEF Got
<1>3. Matches(y, c) <=> Matches(x, e)
  <2>1. x.which = y.which /\ x.key = y.key /\ Stands(a, t, V!IdType(x.which), x.id, y.id) /\ x.which \in WhichOnes
    BY DEF Twins
  <2>2. OnTarget(a, t)
    BY AskingIs
  <2>3. CASE e.id = Zero
    BY <1>1, <2>1, <2>3 DEF Matches
  <2>4. CASE e.id # Zero
    <3>1. Stands(a, t, V!IdType(e.which), e.id, c.id) /\ e.which \in WhichOnes
      BY <1>1, <2>4 DEF Told
    <3>2. c.id # Zero /\ (x.id = e.id <=> y.id = c.id)
      BY <2>1, <2>2, <3>1, StandsIs, StandsOne, IdTypes
    <3> QED BY <1>1, <2>1, <2>4, <3>2 DEF Matches
  <2> QED BY <2>3, <2>4
<1> QED BY <1>2, <1>3

Seen(t, x, y) == [at |-> t, entity |-> V!Entity(y.which, x.id, x.action, y.key, y.data)]

\* What is there under a's names is understood, and the rest left out.
LEMMA TranslatedIs ==
  ASSUME Orderly, NEW a, NEW t, OnTarget(a, t), NEW xs, Reflects(a, t, xs, dev[t]), NEW y \in dev[t], CellAt(t, y), y.which \in Dotted
  PROVE  /\ ~V!Untranslatable(a, t, y)
         /\ Image(a, t, y) => \A x : Twins(a, t, x, y) => V!Translated(a, t, y) = {Seen(t, x, y)}
         /\ ~Image(a, t, y) => V!Translated(a, t, y) = {}
<1> DEFINE k == V!IdType(y.which)
<1>1. k \in {"table", "counter", "meter"} /\ k \in Kinds /\ y.which \in Told /\ k # "action" /\ y.which # "digest_entry"
  BY DottedIs
<1>2. PICK o \in setup.program[t].names[k] : y.id = V!IdIn(setup.program[t], k, o)
  BY <1>1 DEF CellAt
<1>3. V!EntityName(setup.program[t], y) = {o}
  BY <1>1, <1>2, NamesOf
<1>4. V!PureP4Name(o) = {o.base}
  BY <1>1, OwnNames DEF V!PureP4Name
<1>5. V!Mine(a, o) <=> V!IsPrefix(setup.prefix[a], o.base)
  BY <1>4 DEF V!Mine
<1>6. Image(a, t, y) <=> V!Mine(a, o)
  <2>1. ASSUME V!Mine(a, o) PROVE Image(a, t, y)
    <3>1. PICK n \in V!Own(a, t, k) : o = V!NameAt(a, t, n)
      BY <1>1, <1>5, <2>1, OwnNames
    <3> QED BY <1>1, <1>2, <3>1 DEF Image, IdAt
  <2>2. ASSUME Image(a, t, y) PROVE V!Mine(a, o)
    BY <1>1, <1>3, <2>2, ImageIs
  <2> QED BY <2>1, <2>2
<1>7. V!Translated(a, t, y) = IF V!Mine(a, o) THEN {[at |-> t, entity |-> b] : b \in V!ConvertEntityBack(V!Conv(a, t), y)} ELSE {}
  <2>1. {m \in V!EntityName(setup.program[t], y) : V!Mine(a, m)} = IF V!Mine(a, o) THEN {o} ELSE {}
    BY <1>3
  <2> QED BY <2>1 DEF V!Translated
<1>8. ASSUME NEW x, Twins(a, t, x, y), V!Mine(a, o) PROVE V!Translated(a, t, y) = {Seen(t, x, y)}
  <2>1. V!ConvertEntityBack(V!Conv(a, t), y) = {V!Entity(y.which, x.id, x.action, y.key, y.data)}
    BY <1>8, TwinConverts
  <2> QED BY <1>7, <1>8, <2>1 DEF Seen
<1>9. V!Mine(a, o) => V!Translated(a, t, y) # {}
  <2> SUFFICES ASSUME V!Mine(a, o) PROVE V!Translated(a, t, y) # {}
    OBVIOUS
  <2>1. PICK x \in xs : Twins(a, t, x, y)
    BY <1>6 DEF Reflects
  <2> QED BY <1>8, <2>1
<1>10. ~V!Untranslatable(a, t, y)
  BY <1>3, <1>4, <1>9 DEF V!Untranslatable
<1> QED BY <1>6, <1>7, <1>8, <1>10

(***************************************************************************)
(* What is received.                                                       *)
(***************************************************************************)
\* What target t's twin of x becomes.
Row(a, t, x) == [at |-> t, entity |-> V!Entity(x.which, x.id, x.action, x.key, Data(a, t, x, dev[t]))]

LEMMA DueIs ==
  ASSUME TallyInv, NEW a \in V!Tenants, NEW e, NEW x \in Due(a, e)
  PROVE  x \in virtual[a] /\ Matches(x, e) /\ x.which = e.which /\ MyCell(a, x) /\ IsEntity(x)
<1>1. x \in virtual[a] /\ Matches(x, e)
  BY AskedIs DEF Due
<1>2. MyCell(a, x)
  BY <1>1 DEF TallyInv, MirrorInv, Kept
<1> QED BY <1>1, <1>2 DEF Matches, MyCell

\* Everything a tenant has stands somewhere.
LEMMA HasHome ==
  ASSUME Orderly, NEW a \in V!Tenants, NEW x, MyCell(a, x), x.which \in Told
  PROVE  Homes(a, x) # {}
<1> DEFINE e == V!Entity(x.which, x.id, Zero, x.key, x.data)
<1>1. e.which = x.which /\ e.id = x.id /\ e.action = Zero /\ IsEntity(e)
  BY DEF V!Entity, IsEntity
<1> HIDE DEF e
<1>2. Written(a, e)
  BY <1>1 DEF Written, MyCell
<1>3. Homes(a, e) # {}
  BY <1>2, JobIs
<1>4. Homes(a, e) = Homes(a, x)
  BY <1>1, SameHomes
<1> QED BY <1>3, <1>4

LEMMA TwinHome ==
  ASSUME TallyInv, NEW a \in V!Tenants, NEW x \in virtual[a], NEW t \in Homes(a, x)
  PROVE  /\ OnTarget(a, t) /\ t \in V!AllTargets /\ Sound(dev[t]) /\ x.which \in Told
         /\ \E y \in dev[t] : /\ Twins(a, t, x, y) /\ CellAt(t, y)
                              /\ Data(a, t, x, dev[t]) = y.data /\ Row(a, t, x) = Seen(t, x, y)
<1>1. Orderly /\ OnTarget(a, t) /\ Part(a, t, x)
  BY HomesAre DEF TallyInv, MirrorInv
<1>2. t \in V!AllTargets
  BY <1>1, SetupTyped DEF OnTarget, Orderly
<1>3. Sound(dev[t]) /\ Reflects(a, t, virtual[a], dev[t])
  BY <1>1, <1>2 DEF TallyInv, MirrorInv, Kept, Tallied
<1>4. PICK y \in dev[t] : Twins(a, t, x, y)
  BY <1>1, <1>3 DEF Reflects
<1>5. CellAt(t, y)
  BY <1>2 DEF TallyInv, MirrorInv, Kept
<1>6. Data(a, t, x, dev[t]) = y.data
  BY <1>1, <1>3, <1>4, OneTwin
<1>7. x.which = y.which /\ x.key = y.key /\ x.which \in Told
  BY <1>4 DEF Twins, Told
<1> QED BY <1>1, <1>2, <1>3, <1>4, <1>5, <1>6, <1>7 DEF Row, Seen

LEMMA ReceivedIs ==
  ASSUME TallyInv, NEW a \in V!Tenants, NEW e, Question(a, e), e.which \in Dotted
  PROVE  /\ Received(a, e) = UNION {{Row(a, t, x) : t \in Homes(a, x)} : x \in Due(a, e)}
         /\ Raises(a, e) <=> ~setup.threads /\ V!Unmergeable(Received(a, e))
<1>0. Orderly /\ e.which \in Told /\ Tallied(virtual, dev)
  BY DottedIs DEF TallyInv, MirrorInv
<1>1. ASSUME NEW t \in Asking(a, e), NEW y \in Got(a, t, e)
      PROVE  /\ ~V!Untranslatable(a, t, y)
             /\ \A r \in V!Translated(a, t, y) : \E x \in Due(a, e) : t \in Homes(a, x) /\ r = Row(a, t, x)
  <2>1. OnTarget(a, t) /\ t \in V!AllTargets
    <3>1. OnTarget(a, t)
      BY <1>0, AskingIs
    <3> QED BY <1>0, <3>1, SetupTyped DEF OnTarget, Orderly
  <2>2. PICK c : V!ConvertEntity(V!Conv(a, t), e) = {c} /\ c.which = e.which
    BY <1>0, QuestionIs
  <2>3. y \in dev[t] /\ y.which = e.which
    BY <2>2, AskedIs DEF Got, Matches
  <2>4. CellAt(t, y) /\ Reflects(a, t, virtual[a], dev[t])
    BY <2>1, <2>3 DEF TallyInv, MirrorInv, Kept
  <2>5. /\ ~V!Untranslatable(a, t, y)
        /\ Image(a, t, y) => \A x : Twins(a, t, x, y) => V!Translated(a, t, y) = {Seen(t, x, y)}
        /\ ~Image(a, t, y) => V!Translated(a, t, y) = {}
    BY <1>0, <2>1, <2>3, <2>4, TranslatedIs
  <2>6. ASSUME NEW r \in V!Translated(a, t, y) PROVE \E x \in Due(a, e) : t \in Homes(a, x) /\ r = Row(a, t, x)
    <3>1. Image(a, t, y)
      BY <2>5, <2>6
    <3>2. PICK x \in virtual[a] : Twins(a, t, x, y)
      BY <2>3, <2>4, <3>1 DEF Reflects
    <3>3. r = Seen(t, x, y)
      BY <2>5, <2>6, <3>1, <3>2
    <3>4. x \in Due(a, e)
      <4>1. Matches(x, e)
        BY <1>0, <3>2, GotTwins
      <4> QED BY <3>2, <4>1, AskedIs DEF Due
    <3>5. t \in Homes(a, x)
      BY <1>0, <2>1, <3>2, TwinParts, HomesAre
    <3>6. Row(a, t, x) = Seen(t, x, y)
      <4>1. Data(a, t, x, dev[t]) = y.data
        BY <1>0, <2>1, <2>3, <3>2, OneTwin DEF Tallied
      <4>2. x.which = y.which /\ x.key = y.key
        BY <3>2 DEF Twins
      <4> QED BY <4>1, <4>2 DEF Row, Seen
    <3> QED BY <3>3, <3>4, <3>5, <3>6
  <2> QED BY <2>5, <2>6
<1>2. ASSUME NEW x \in Due(a, e), NEW t \in Homes(a, x) PROVE Row(a, t, x) \in Received(a, e)
  <2>1. x \in virtual[a] /\ Matches(x, e) /\ x.which = e.which
    BY DueIs
  <2>2. PICK y \in dev[t] : Twins(a, t, x, y) /\ CellAt(t, y) /\ Row(a, t, x) = Seen(t, x, y)
    BY <2>1, TwinHome
  <2>3. OnTarget(a, t) /\ Part(a, t, x) /\ t \in V!AllTargets
    BY <1>0, <2>1, TwinHome, HomesAre
  <2>4. t \in Asking(a, e)
    <3>1. e.id = Zero \/ e.id = x.id
      BY <2>1 DEF Matches
    <3>2. e.id = Zero \/ Part(a, t, e)
      BY <2>1, <2>3, <3>1 DEF Part
    <3> QED BY <1>0, <2>3, <3>2, AskingIs
  <2>5. y \in Got(a, t, e)
    BY <1>0, <2>1, <2>2, <2>4, GotTwins
  <2>6. y.which \in Dotted /\ Reflects(a, t, virtual[a], dev[t]) /\ Image(a, t, y)
    BY <2>1, <2>2, <2>3, TwinParts DEF Twins, TallyInv, MirrorInv, Kept
  <2>7. V!Translated(a, t, y) = {Seen(t, x, y)}
    BY <1>0, <2>2, <2>3, <2>6, TranslatedIs
  <2>8. Seen(t, x, y) \in UNION {V!Translated(a, t, z) : z \in Got(a, t, e)}
    BY <2>5, <2>7
  <2> QED BY <2>2, <2>4, <2>8 DEF Received
<1>3. Received(a, e) = UNION {{Row(a, t, x) : t \in Homes(a, x)} : x \in Due(a, e)}
  <2>1. ASSUME NEW r \in Received(a, e) PROVE \E x \in Due(a, e) : r \in {Row(a, t, x) : t \in Homes(a, x)}
    <3>1. PICK t \in Asking(a, e) : r \in UNION {V!Translated(a, t, y) : y \in Got(a, t, e)}
      BY <2>1 DEF Received
    <3>2. PICK y \in Got(a, t, e) : r \in V!Translated(a, t, y)
      BY <3>1
    <3> QED BY <1>1, <3>2
  <2>2. ASSUME NEW x \in Due(a, e), NEW r \in {Row(a, t, x) : t \in Homes(a, x)} PROVE r \in Received(a, e)
    BY <1>2
  <2> QED BY <2>1, <2>2
<1>4. V!ReadTargets(a, e) # {} /\ \A t \in Asking(a, e) : V!ConvertEntity(V!Conv(a, t), e) # {}
  BY <1>0, AskingIs, QuestionIs
<1>5. Raises(a, e) <=> ~setup.threads /\ V!Unmergeable(Received(a, e))
  BY <1>1, <1>4 DEF Raises
<1> QED BY <1>3, <1>5

(***************************************************************************)
(* What is merged.                                                         *)
(***************************************************************************)
LEMMA RowIs ==
  ASSUME TallyInv, NEW a \in V!Tenants, NEW x \in virtual[a], NEW t \in Homes(a, x)
  PROVE  /\ Row(a, t, x).at = t /\ Row(a, t, x).entity.which = x.which /\ Row(a, t, x).entity.id = x.id
         /\ Row(a, t, x).entity.key = x.key /\ Row(a, t, x).entity.action = x.action
         /\ Row(a, t, x).entity.data = Data(a, t, x, dev[t]) /\ IsEntity(Row(a, t, x).entity)
         /\ x.which \notin V!Counts => Row(a, t, x).entity = x
<1>1. MyCell(a, x)
  BY DEF TallyInv, MirrorInv, Kept
<1>2. x = V!Entity(x.which, x.id, x.action, x.key, x.data)
  BY <1>1 DEF MyCell, IsEntity
<1>3. x.which \notin V!Counts => Data(a, t, x, dev[t]) = x.data
  <2>1. PICK y \in dev[t] : Twins(a, t, x, y) /\ Data(a, t, x, dev[t]) = y.data
    BY TwinHome
  <2> QED BY <2>1 DEF Twins
<1>4. x.which \notin V!Counts => Row(a, t, x).entity = x
  BY <1>2, <1>3 DEF Row
<1> QED BY <1>4 DEF Row, IsEntity, V!Entity

\* Two rows are of one counter if they are of one cell.
LEMMA SameIdentifier ==
  ASSUME TallyInv, NEW a \in V!Tenants, NEW x \in virtual[a], NEW t \in Homes(a, x), x.which \in V!Counts,
         NEW z \in virtual[a], NEW u \in Homes(a, z), z.which \in V!Counts
  PROVE  V!Identifier(Row(a, t, x).entity) = V!Identifier(Row(a, u, z).entity) <=> x = z
<1>1. \A e : e.which \in V!Counts => V!Identifier(e) = <<e.which, e.id, e.key>>
  BY DEF V!Identifier, V!Counts
<1>2. V!Identifier(Row(a, t, x).entity) = <<x.which, x.id, x.key>> /\ V!Identifier(Row(a, u, z).entity) = <<z.which, z.id, z.key>>
  BY <1>1, RowIs
<1>3. V!SameCell(x, z) => x = z
  BY DEF TallyInv, Tallied, Sound
<1> QED BY <1>2, <1>3 DEF V!SameCell

LEMMA RowsAdd ==
  ASSUME TallyInv, NEW a \in V!Tenants, NEW x \in virtual[a], x.which \in V!Counts
  PROVE  SumOfEntities({Row(a, t, x) : t \in Homes(a, x)}) = x.data
<1> DEFINE H == Homes(a, x)
           f == [t \in H |-> Row(a, t, x)]
           c == [t \in H |-> Data(a, t, x, dev[t])]
           S == {Row(a, t, x) : t \in H}
           d == Datum(S)
<1>1. SumOfEntities(S) = SumOver(d, S)
  BY EntitySums
<1>2. IsFiniteSet(H)
  BY HomesFinite DEF TallyInv, MirrorInv
<1>3. S = {f[t] : t \in H}
  OBVIOUS
<1>4. \A t, u \in H : f[t] = f[u] => t = u
  BY RowIs
<1>5. \A t \in H : c[t] \in Nat
  <2> SUFFICES ASSUME NEW t \in H PROVE Data(a, t, x, dev[t]) \in Nat
    OBVIOUS
  <2>1. PICK y \in dev[t] : Twins(a, t, x, y) /\ Data(a, t, x, dev[t]) = y.data
    BY TwinHome
  <2>2. y.which \in V!Counts /\ Sound(dev[t])
    BY <2>1, TwinHome DEF Twins
  <2> QED BY <2>1, <2>2 DEF Sound
<1>6. \A t \in H : d[f[t]] = c[t]
  BY RowIs DEF Datum
<1> HIDE DEF H, f, c, d
<1>7. SumOver(d, {f[t] : t \in H}) = SumOver(c, H)
  BY <1>2, <1>4, <1>5, <1>6, SumRenamed
<1>8. x.data = SumOver(c, H)
  BY DEF TallyInv, Tallied, Total, c, H
<1> QED BY <1>1, <1>3, <1>7, <1>8 DEF H

\* Reads of the proxies that merge.
LEMMA MergedIs ==
  ASSUME TallyInv, NEW a \in V!Tenants, NEW e, Question(a, e), e.which \in Dotted
  PROVE  V!Merged(Received(a, e)) = Due(a, e)
<1>1. \A r : r \in Received(a, e) <=> \E x \in Due(a, e) : r \in {Row(a, t, x) : t \in Homes(a, x)}
  BY ReceivedIs
<1>2. \A x \in Due(a, e) : x \in virtual[a] /\ x.which = e.which /\ MyCell(a, x) /\ IsEntity(x) /\ Homes(a, x) # {}
  BY DueIs, HasHome, DottedIs DEF TallyInv, MirrorInv
<1> DEFINE Peers(r) == {s \in Received(a, e) : V!Identifier(s.entity) = V!Identifier(r.entity)}
           Made(r) == [r.entity EXCEPT !.data = IF r.entity.which \in V!Counts THEN SumOfEntities(Peers(r)) ELSE r.entity.data]
<1>3. V!Merged(Received(a, e)) = {Made(r) : r \in Received(a, e)}
  BY DEF V!Merged, SumOfEntities, V!Counts
<1>4. ASSUME NEW x \in Due(a, e), NEW t \in Homes(a, x) PROVE Made(Row(a, t, x)) = x
  <2> DEFINE r == Row(a, t, x)
  <2>1. r.entity.which = x.which /\ r.entity.id = x.id /\ r.entity.key = x.key /\ r.entity.action = x.action /\ IsEntity(r.entity)
        /\ (x.which \notin V!Counts => r.entity = x)
    BY <1>2, RowIs
  <2>2. x.which \in V!Counts => SumOfEntities(Peers(r)) = x.data
    <3> SUFFICES ASSUME x.which \in V!Counts PROVE SumOfEntities(Peers(r)) = x.data
      OBVIOUS
    <3>1. ASSUME NEW z \in Due(a, e), NEW u \in Homes(a, z) PROVE V!Identifier(Row(a, u, z).entity) = V!Identifier(r.entity) <=> z = x
      BY <1>2, <3>1, SameIdentifier
    <3>2. ASSUME NEW s PROVE s \in Peers(r) <=> s \in {Row(a, u, x) : u \in Homes(a, x)}
      BY <1>1, <3>1
    <3>3. Peers(r) = {Row(a, u, x) : u \in Homes(a, x)}
      BY <3>2
    <3> QED BY <1>2, <3>3, RowsAdd
  <2> HIDE DEF r, Peers
  <2>3. x.which \in V!Counts => Made(r) = x
    <3> SUFFICES ASSUME x.which \in V!Counts PROVE Made(r) = x
      OBVIOUS
    <3>1. Made(r) = [r.entity EXCEPT !.data = x.data]
      BY <2>1, <2>2
    <3>2. x = V!Entity(x.which, x.id, x.action, x.key, x.data)
          /\ r.entity = V!Entity(x.which, x.id, x.action, x.key, r.entity.data)
      BY <1>2, <2>1 DEF IsEntity
    <3> QED BY <3>1, <3>2 DEF V!Entity
  <2>4. x.which \notin V!Counts => Made(r) = x
    <3> SUFFICES ASSUME x.which \notin V!Counts PROVE Made(r) = x
      OBVIOUS
    <3>1. Made(r) = [x EXCEPT !.data = x.data]
      BY <2>1
    <3>2. x = V!Entity(x.which, x.id, x.action, x.key, x.data)
      BY <1>2 DEF IsEntity
    <3> QED BY <3>1, <3>2 DEF V!Entity
  <2> QED BY <2>3, <2>4 DEF r
<1> HIDE DEF Made
<1>5. \A z : z \in {Made(r) : r \in Received(a, e)} <=> z \in Due(a, e)
  BY <1>1, <1>2, <1>4
<1> QED BY <1>3, <1>5

LEMMA UnmergeableIs ==
  ASSUME TallyInv, NEW a \in V!Tenants, NEW e, Question(a, e), e.which \in Dotted
  PROVE  V!Unmergeable(Received(a, e)) <=> /\ e.which \in {"table_entry", "meter_entry"}
                                           /\ \E x, y \in Due(a, e) : x.id = y.id /\ x # y
<1>1. \A r : r \in Received(a, e) <=> \E x \in Due(a, e) : r \in {Row(a, t, x) : t \in Homes(a, x)}
  BY ReceivedIs
<1>2. \A x \in Due(a, e) : x \in virtual[a] /\ x.which = e.which /\ Homes(a, x) # {}
  BY DueIs, HasHome, DottedIs DEF TallyInv, MirrorInv
<1>3. CASE e.which \in V!Counts
  <2>1. \A r \in Received(a, e) : r.entity.which = e.which
    BY <1>1, <1>2, RowIs
  <2>2. e.which \notin {"table_entry", "meter_entry", "direct_meter_entry", "register_entry", "digest_entry"}
    BY <1>3 DEF V!Counts
  <2> QED BY <2>1, <2>2 DEF V!Unmergeable
<1>4. CASE e.which \notin V!Counts
  <2>1. e.which \in {"table_entry", "meter_entry"}
    BY <1>4 DEF V!Counts, Dotted
  <2>2. \A x \in Due(a, e) : \A t \in Homes(a, x) : Row(a, t, x).entity = x
    BY <1>2, <1>4, RowIs
  <2>3. \A r \in Received(a, e) : r.entity \in Due(a, e)
    BY <1>1, <2>2
  <2>4. \A x \in Due(a, e) : \E r \in Received(a, e) : r.entity = x
    BY <1>1, <1>2, <2>2
  <2>5. \A x, y \in Due(a, e) : V!Identifier(x) = V!Identifier(y) <=> x.id = y.id
    BY <1>2, <2>1 DEF V!Identifier
  <2>6. \A x \in Due(a, e) : x.which \in {"table_entry", "meter_entry", "direct_meter_entry"} /\ x.which \notin {"register_entry", "digest_entry"}
    BY <1>2, <2>1
  <2>7. V!Unmergeable(Received(a, e)) <=> \E x, y \in Due(a, e) : V!Identifier(x) = V!Identifier(y) /\ x # y
    BY <2>3, <2>4, <2>6 DEF V!Unmergeable
  <2> QED BY <2>1, <2>5, <2>7
<1> QED BY <1>3, <1>4

(***************************************************************************)
(* Reads are answered truly.                                               *)
(***************************************************************************)
LEMMA SameCardinality == ASSUME NEW S PROVE V!Cardinality(S) = Cardinality(S)
BY DEF V!Cardinality, Cardinality

\* The proxy with threads has one home for everything.
LEMMA OneHome ==
  ASSUME Orderly, setup.threads, NEW a \in V!Tenants, NEW x, NEW t \in Homes(a, x), NEW u \in Homes(a, x)
  PROVE  t = u
<1> DEFINE k == V!IdType(x.which)
<1>1. OnTarget(a, t) /\ Part(a, t, x) /\ OnTarget(a, u) /\ Part(a, u, x)
  BY HomesAre
<1>2. k \in Kinds /\ k # "action" /\ V!Kinds = Kinds
  BY <1>1, IdTypes DEF Part, Told, V!Kinds, Kinds
<1>3. PICK n \in V!Own(a, t, k) : x.id = MyId(a, k, n)
  BY <1>1 DEF Part
<1>4. PICK m \in V!Own(a, u, k) : x.id = MyId(a, k, m)
  BY <1>1 DEF Part
<1>5. m = n /\ n \in setup.info[a].names[k]
  <2>1. V!IdIn(setup.info[a], k, n) = V!IdIn(setup.info[a], k, m)
    BY <1>3, <1>4 DEF MyId
  <2>2. m = n
    BY <2>1, IdParts
  <2> QED BY <1>3, <2>2 DEF V!Own
<1>6. CASE Len(V!Targets(a)) = 1
  <2>1. DOMAIN V!Targets(a) = 1..1
    BY <1>6, SetupTyped DEF Orderly
  <2> QED BY <1>1, <2>1 DEF OnTarget, V!Range
<1>7. CASE Len(V!Targets(a)) # 1
  <2>1. V!Handles(a, t, n) /\ V!Handles(a, u, n)
    BY <1>2, <1>3, <1>4, <1>5, <1>7 DEF V!Own
  <2>2. n \in V!EntityNames(setup.info[a])
    BY <1>2, <1>5 DEF V!EntityNames
  <2>3. ~V!Replicated(a, n)
    BY <2>2 DEF Orderly, V!Tidy, V!TidyTargets
  <2> QED BY <1>1, <2>1, <2>3 DEF V!Replicated, OnTarget
<1> QED BY <1>6, <1>7

LEMMA ThreadsIs ==
  ASSUME TallyInv, setup.threads, NEW a \in V!Tenants, NEW e, Question(a, e), e.which \in Dotted
  PROVE  /\ {r.entity : r \in Received(a, e)} = Due(a, e)
         /\ V!Cardinality(Received(a, e)) = V!Cardinality(Due(a, e))
<1>1. \A r : r \in Received(a, e) <=> \E x \in Due(a, e) : r \in {Row(a, t, x) : t \in Homes(a, x)}
  BY ReceivedIs
<1>2. \A x \in Due(a, e) : x \in virtual[a] /\ x.which = e.which /\ MyCell(a, x) /\ IsEntity(x) /\ Homes(a, x) # {}
  BY DueIs, HasHome, DottedIs DEF TallyInv, MirrorInv
<1>3. ASSUME NEW x \in Due(a, e), NEW t \in Homes(a, x) PROVE Row(a, t, x).entity = x /\ Homes(a, x) = {t}
  <2>1. Homes(a, x) = {t}
    BY <1>2, OneHome DEF TallyInv, MirrorInv
  <2>2. CASE x.which \notin V!Counts
    BY <1>2, <2>1, <2>2, RowIs
  <2>3. CASE x.which \in V!Counts
    <3> DEFINE c == [u \in Homes(a, x) |-> Data(a, u, x, dev[u])]
    <3>1. x.data = SumOver(c, Homes(a, x))
      BY <1>2, <2>3 DEF TallyInv, Tallied, Total
    <3>2. c[t] = Data(a, t, x, dev[t]) /\ c[t] \in Nat
      <4>1. PICK y \in dev[t] : Twins(a, t, x, y) /\ Data(a, t, x, dev[t]) = y.data
        BY <1>2, TwinHome
      <4>2. y.which \in V!Counts /\ Sound(dev[t])
        BY <1>2, <2>3, <4>1, TwinHome DEF Twins
      <4> QED BY <4>1, <4>2 DEF Sound
    <3> HIDE DEF c
    <3>3. x.data = Data(a, t, x, dev[t])
      BY <2>1, <3>1, <3>2, SumOne
    <3>4. x = V!Entity(x.which, x.id, x.action, x.key, x.data)
      BY <1>2 DEF IsEntity
    <3> QED BY <2>1, <3>3, <3>4 DEF Row
  <2> QED BY <2>1, <2>2, <2>3
<1>4. {r.entity : r \in Received(a, e)} = Due(a, e)
  <2>1. \A r \in Received(a, e) : r.entity \in Due(a, e)
    BY <1>1, <1>3
  <2>2. \A x \in Due(a, e) : \E r \in Received(a, e) : r.entity = x
    BY <1>1, <1>2, <1>3
  <2> QED BY <2>1, <2>2
<1>5. Cardinality(Received(a, e)) = Cardinality(Due(a, e))
  <2> DEFINE S == Due(a, e)
             T == Received(a, e)
             f == [x \in S |-> CHOOSE r \in T : r.entity = x]
  <2>1. ASSUME NEW x \in S PROVE f[x] \in T /\ f[x].entity = x
    BY <1>4
  <2>2. ASSUME NEW r \in T PROVE r = f[r.entity] /\ r.entity \in S
    <3>1. PICK x \in S : r \in {Row(a, t, x) : t \in Homes(a, x)}
      BY <1>1
    <3>2. PICK t \in Homes(a, x) : r = Row(a, t, x)
      BY <3>1
    <3>3. r.entity = x
      BY <1>3, <3>2
    <3>4. ASSUME NEW s \in T, s.entity = x PROVE s = r
      <4>1. PICK z \in S : s \in {Row(a, u, z) : u \in Homes(a, z)}
        BY <1>1
      <4>2. PICK u \in Homes(a, z) : s = Row(a, u, z)
        BY <4>1
      <4>3. z = x
        BY <1>3, <3>4, <4>2
      <4> QED BY <1>3, <3>2, <4>2, <4>3
    <3>5. f[x] = r
      BY <2>1, <3>4
    <3> QED BY <3>3, <3>5
  <2>3. IsFiniteSet(S)
    <3>1. S \subseteq virtual[a] /\ IsFiniteSet(virtual[a])
      BY <1>2 DEF TallyInv, Tallied
    <3> QED BY <3>1, FS_Subset
  <2>4. f \in [S -> T]
    BY <2>1
  <2> HIDE DEF S, T, f
  <2>5. f \in Injection(S, T) /\ f \in Surjection(S, T)
    BY <2>1, <2>2, <2>4 DEF Injection, Surjection, IsInjective
  <2>6. f \in Bijection(S, T)
    BY <2>5 DEF Bijection
  <2> QED BY <2>3, <2>5, FS_Surjection DEF S, T
<1> QED BY <1>4, <1>5, SameCardinality

\* Digests and registers cannot be read: what is there is refused, and what is answered
\* is nothing.
LEMMA DigestsUnread ==
  ASSUME TallyInv, NEW a \in V!Tenants, NEW e, Question(a, e), e.which = "digest_entry", ~Raises(a, e)
  PROVE  Due(a, e) = {} /\ Received(a, e) = {}
<1>0. Orderly /\ e.which \in Told /\ V!IdType(e.which) = "digest" /\ "digest" \in Kinds
  BY DEF Told, WhichOnes, TallyInv, MirrorInv, V!IdType, Kinds
<1>1. ASSUME NEW t \in Asking(a, e), NEW y \in Got(a, t, e) PROVE FALSE
  <2>1. OnTarget(a, t) /\ t \in V!AllTargets
    <3>1. OnTarget(a, t)
      BY <1>0, AskingIs
    <3> QED BY <1>0, <3>1, SetupTyped DEF OnTarget, Orderly
  <2>2. PICK c : V!ConvertEntity(V!Conv(a, t), e) = {c} /\ c.which = e.which
    BY <1>0, QuestionIs
  <2>3. y \in dev[t] /\ y.which = e.which
    BY <2>2, AskedIs DEF Got, Matches
  <2>4. CellAt(t, y)
    BY <2>1, <2>3 DEF TallyInv, MirrorInv, Kept
  <2>5. PICK o \in setup.program[t].names["digest"] : y.id = V!IdIn(setup.program[t], "digest", o)
    BY <1>0, <2>3, <2>4 DEF CellAt
  <2>6. V!EntityName(setup.program[t], y) = {o}
    BY <1>0, <2>3, <2>5, NamesOf
  <2>7. V!PureP4Name(o) = {}
    BY <1>0, <2>1, <2>5, OwnNames DEF V!PureP4Name
  <2>8. V!Untranslatable(a, t, y)
    BY <2>6, <2>7 DEF V!Untranslatable
  <2> QED BY <1>1, <2>8 DEF Raises
<1>2. ASSUME NEW x \in Due(a, e) PROVE FALSE
  <2>1. x \in virtual[a] /\ Matches(x, e) /\ x.which = e.which /\ MyCell(a, x)
    BY DueIs
  <2>2. PICK t : t \in Homes(a, x)
    BY <1>0, <2>1, HasHome
  <2>3. PICK y \in dev[t] : Twins(a, t, x, y)
    BY <2>1, <2>2, TwinHome
  <2>4. OnTarget(a, t) /\ Part(a, t, x)
    BY <1>0, <2>2, HomesAre
  <2>5. t \in Asking(a, e)
    <3>1. e.id = Zero \/ Part(a, t, e)
      BY <2>1, <2>4 DEF Part, Matches
    <3> QED BY <1>0, <2>4, <3>1, AskingIs
  <2>6. y \in Got(a, t, e)
    BY <1>0, <2>1, <2>3, <2>5, GotTwins
  <2> QED BY <1>1, <2>5, <2>6
<1> QED BY <1>1, <1>2 DEF Received

LEMMA RegistersUnread ==
  ASSUME TallyInv, NEW a \in V!Tenants, NEW e, Question(a, e), e.which = "register_entry", ~Raises(a, e)
  PROVE  Due(a, e) = {} /\ Received(a, e) = {}
<1> DEFINE ts == V!Targets(a)
<1>0. Orderly /\ Len(ts) \in Nat /\ DOMAIN ts = 1..Len(ts) /\ V!IdType(e.which) = "counter"
  BY SetupTyped DEF TallyInv, MirrorInv, Orderly, V!IdType
<1>1. V!EntityName(setup.info[a], e) = {}
  BY DEF V!EntityName
<1>2. V!ReadTargets(a, e) = V!TargetsOf(a, e) /\ V!ReadTargets(a, e) # {}
  BY DEF V!ReadTargets, Raises
<1>3. Len(ts) = 1 /\ V!MultiTargets(a, e) = {ts}
  BY <1>1, <1>2 DEF V!MultiTargets, V!TargetsOf, V!FirstTarget
<1>4. Asking(a, e) = {ts[1]} /\ V!Range(ts) = {ts[1]}
  <2>1. V!Range(ts) = {ts[1]} /\ V!Range(<<ts[1]>>) = {ts[1]}
    BY <1>0, <1>3 DEF V!Range
  <2>2. V!TargetsOf(a, e) = {ts} \/ V!TargetsOf(a, e) = {<<ts[1]>>}
    <3>1. ts # <<>>
      BY <1>3
    <3> QED BY <1>3, <3>1 DEF V!TargetsOf, V!FirstTarget
  <2> QED BY <1>2, <2>1, <2>2 DEF Asking
<1> DEFINE t == ts[1]
<1> HIDE DEF t, ts
<1>5. t \in Asking(a, e) /\ V!ConvertEntity(V!Conv(a, t), e) # {}
  BY <1>4 DEF Raises, t
<1>6. PICK c : c \in V!ConvertEntity(V!Conv(a, t), e)
  BY <1>5
<1>7. c.which = e.which /\ c.key = e.key
  BY <1>6 DEF V!ConvertEntity, V!ConvertedEntity, V!Entity
<1>8. e.id = Zero
  <2> SUFFICES ASSUME e.id # Zero PROVE FALSE
    OBVIOUS
  <2>1. PICK n \in setup.info[a].names["register"] : e.id = MyId(a, "register", n)
    BY DEF Question
  <2>2. V!GetName(V!Conv(a, t).from, "counter", e.id) = {}
    BY <2>1, IdParts DEF V!GetName, MyId, V!Conv
  <2>3. V!ConvertId(V!Conv(a, t), "counter", e.id) = {}
    BY <2>2 DEF V!ConvertId
  <2>4. V!ConvertEntity(V!Conv(a, t), e) = {}
    BY <1>0, <2>3 DEF V!ConvertEntity, V!ConvertedEntity, V!Zero, Zero
  <2> QED BY <1>5, <2>4
<1>9. c.id = Zero
  BY <1>0, <1>6, <1>8 DEF V!ConvertEntity, V!ConvertedEntity, V!Entity, V!Zero, Zero
<1>10. ASSUME NEW y \in Got(a, t, e) PROVE FALSE
  <2>1. PICK d \in V!ConvertEntity(V!Conv(a, t), e) : y \in V!Asked(dev[t], d)
    BY <1>10 DEF Got
  <2>2. y.which = "register_entry"
    BY <2>1, AskedIs DEF Matches, V!ConvertEntity, V!ConvertedEntity, V!Entity
  <2>3. V!EntityName(setup.program[t], y) = {}
    BY <2>2 DEF V!EntityName
  <2>4. V!Untranslatable(a, t, y)
    BY <2>3 DEF V!Untranslatable
  <2> QED BY <1>5, <1>10, <2>4 DEF Raises
<1>11. ASSUME NEW x \in Due(a, e) PROVE FALSE
  <2>1. x \in virtual[a] /\ x.which = e.which /\ Matches(x, e)
    BY DueIs
  <2>2. t \in V!Range(V!Targets(a)) /\ Len(V!Targets(a)) = 1
    BY <1>3, <1>4 DEF t, ts
  <2>3. PICK y \in dev[t] : y.which = "register_entry" /\ y.key = x.key
    BY <2>1, <2>2 DEF TallyInv, Registered
  <2>4. Matches(y, c)
    BY <1>7, <1>9, <2>1, <2>3 DEF Matches
  <2>5. y \in Got(a, t, e)
    BY <1>6, <2>3, <2>4, AskedIs DEF Got
  <2> QED BY <1>10, <2>5
<1>12. Received(a, e) = {}
  <2>1. Asking(a, e) = {t}
    BY <1>4 DEF t
  <2> QED BY <1>10, <2>1 DEF Received
<1> QED BY <1>11, <1>12

LEMMA NotTold ==
  ASSUME answer'.op \notin {"read", "write", "digest"}
  PROVE  V!ToldTrue'
BY DEF V!ToldTrue, V!ReadsTrue, V!ReadsServed, V!WritesTold, V!DigestsTrue

LEMMA ReadTold ==
  ASSUME TallyInv, NEW a \in V!Tenants, NEW e \in V!Reads(setup.info[a]), V!Read(a, e)
  PROVE  V!ToldTrue'
<1>1. Question(a, e) /\ Orderly
  BY ReadsAsk DEF TallyInv, MirrorInv
<1>2. /\ answer'.op = "read" /\ answer'.of = e.which /\ answer'.due = Due(a, e) /\ setup' = setup
      /\ Raises(a, e) => answer'.ok = FALSE
      /\ ~Raises(a, e) => /\ answer'.ok = TRUE /\ answer'.entities = Entities(a, e)
                          /\ answer'.size = V!Cardinality(IF setup.threads THEN Received(a, e) ELSE Entities(a, e))
  BY ReadIs
<1>3. V!WritesTold' /\ V!DigestsTrue'
  BY <1>2 DEF V!WritesTold, V!DigestsTrue
<1>4. CASE e.which \in Dotted
  <2>1. setup.threads => Entities(a, e) = Due(a, e) /\ V!Cardinality(Received(a, e)) = V!Cardinality(Due(a, e))
    BY <1>1, <1>4, ThreadsIs DEF Entities
  <2>2. ~setup.threads => Entities(a, e) = Due(a, e)
    BY <1>1, <1>4, MergedIs DEF Entities
  <2>3. Raises(a, e) <=> /\ ~setup.threads /\ e.which \in {"table_entry", "meter_entry"}
                         /\ \E x, y \in Due(a, e) : x.id = y.id /\ x # y
    BY <1>1, <1>4, ReceivedIs, UnmergeableIs
  <2>4. ~Raises(a, e) => answer'.entities = answer'.due /\ answer'.size = V!Cardinality(answer'.due)
    BY <1>2, <2>1, <2>2
  <2>5. V!ReadsTrue'
    BY <1>2, <2>4 DEF V!ReadsTrue
  <2>6. ~answer'.ok <=> Raises(a, e)
    BY <1>2
  <2>7. V!ReadsServed'
    BY <1>2, <2>3, <2>6 DEF V!ReadsServed
  <2> QED BY <1>3, <2>5, <2>7 DEF V!ToldTrue
<1>5. CASE e.which \in {"register_entry", "digest_entry"}
  <2>1. ~Raises(a, e) => Due(a, e) = {} /\ Received(a, e) = {}
    BY <1>1, <1>5, DigestsUnread, RegistersUnread
  <2>2. ~Raises(a, e) => Entities(a, e) = {}
    BY <2>1 DEF Entities, V!Merged
  <2>3. ~Raises(a, e) => answer'.entities = answer'.due /\ answer'.size = V!Cardinality(answer'.due)
    BY <1>2, <2>1, <2>2
  <2>4. V!ReadsTrue'
    BY <1>2, <2>3 DEF V!ReadsTrue
  <2>5. V!ReadsServed'
    BY <1>2, <1>5 DEF V!ReadsServed
  <2> QED BY <1>3, <2>4, <2>5 DEF V!ToldTrue
<1> QED BY <1>1, <1>4, <1>5 DEF Question

LEMMA WriteTold ==
  ASSUME TallyInv, NEW a \in V!Tenants, NEW type, NEW e, Written(a, e), V!Write(a, type, e)
  PROVE  V!ToldTrue'
<1>1. answer'.op = "write" /\ answer'.ok = answer'.due
  BY WriteIs DEF TallyInv
<1> QED BY <1>1 DEF V!ToldTrue, V!ReadsTrue, V!ReadsServed, V!WritesTold, V!DigestsTrue

(***************************************************************************)
(* Digests.                                                                *)
(***************************************************************************)
\* A digest that is sent has the name of one of the tenant's.
LEMMA DigestSent ==
  ASSUME Orderly, NEW b, NEW t, OnTarget(b, t), NEW id \in V!Ids(setup.info[b], "digest"),
         V!ConvertId(V!Conv(b, t), "digest", id) # {}
  PROVE  \E n \in V!Own(b, t, "digest") : /\ id = MyId(b, "digest", n)
                                          /\ V!ConvertId(V!Conv(b, t), "digest", id) = {IdAt(b, t, "digest", n)}
<1> DEFINE conv == V!Conv(b, t)
           k == "digest"
<1>0. k \in Kinds /\ k # "action"
  BY DEF Kinds
<1>1. conv.prefix = setup.prefix[b] /\ conv.from = setup.info[b] /\ conv.to = setup.program[t]
  BY DEF V!Conv
<1>2. PICK n \in setup.info[b].names[k] : id = MyId(b, k, n)
  BY DEF V!Ids, MyId
<1>3. V!GetName(conv.from, k, id) = {n}
  BY <1>1, <1>2, Gotten DEF MyId
<1>4. V!ConvertId(conv, k, id) = V!GetId(conv.to, k, V!NameAt(b, t, n))
  <2>1. V!ConvertId(conv, k, id) = UNION {V!GetId(conv.to, k, V!PrefixP4Name(V!Renamed(conv, name), conv.prefix)) : name \in {n}}
    BY <1>3 DEF V!ConvertId
  <2> QED BY <1>1, <2>1 DEF V!NameAt
<1> DEFINE o == V!NameAt(b, t, n)
<1>5. n # NoAction /\ o \in Named /\ V!IsPrefix(setup.prefix[b], o.base)
  <2>1. n # NoAction
    BY <1>0, <1>2, NamesTyped
  <2> QED BY <1>0, <1>2, <2>1, NameBack
<1> HIDE DEF o
<1>6. PICK m \in setup.program[t].names[k] : m = o \/ (o.space = <<>> /\ m.base = o.base)
  BY <1>1, <1>4 DEF V!GetId, o
<1>7. m = o
  <2>1. m.space = <<>> /\ m \in Named
    BY <1>0, <1>6, OwnNames, NamesTyped
  <2> QED BY <1>5, <1>6, <2>1 DEF Named
<1>8. PICK l \in V!Own(b, t, k) : o = V!NameAt(b, t, l)
  BY <1>0, <1>5, <1>6, <1>7, OwnNames
<1>9. l = n
  <2>1. l \in setup.info[b].names[k]
    BY <1>0, <1>8, OwnNames
  <2> QED BY <1>0, <1>2, <1>8, <2>1, NamesApart DEF o
<1> QED BY <1>0, <1>2, <1>8, <1>9, ConvertsTo

LEMMA DigestTold ==
  ASSUME Orderly, NEW a, NEW t, OnTarget(a, t), NEW b, OnTarget(b, t), NEW id \in V!Ids(setup.info[b], "digest"),
         V!Digest(a, t, b, id)
  PROVE  V!ToldTrue'
<1> DEFINE ids == V!ConvertId(V!Conv(b, t), "digest", id)
           names == UNION {V!GetName(setup.program[t], "digest", i) : i \in ids}
           mine == \E n \in names : V!StartsWith(n, setup.prefix[a])
           back == UNION {V!ConvertDigestBack(V!Conv(a, t), i) : i \in ids}
<1>0. "digest" \in Kinds /\ "digest" # "action" /\ "digest" \in Proper
  BY DEF Kinds, Proper
<1>1. ids # {} /\ V!Answer("digest", a, "digest_entry", mine => back # {}, IF a = b THEN {id} ELSE {}, IF mine THEN back ELSE {}, 0)
  BY DEF V!Digest
<1>2. PICK n \in V!Own(b, t, "digest") : id = MyId(b, "digest", n) /\ ids = {IdAt(b, t, "digest", n)}
  BY <1>1, DigestSent
<1> DEFINE o == V!NameAt(b, t, n)
<1>3. /\ o \in setup.program[t].names["digest"] /\ o.space = <<>> /\ n \in setup.info[b].names["digest"]
      /\ names = {o}
  <2>1. /\ o \in setup.program[t].names["digest"] /\ o.space = <<>> /\ n \in setup.info[b].names["digest"]
    BY <1>0, <1>2, OwnNames
  <2>2. V!GetName(setup.program[t], "digest", IdAt(b, t, "digest", n)) = {o}
    BY <2>1, Gotten DEF IdAt
  <2> QED BY <1>2, <2>1, <2>2
<1>4. V!IsPrefix(setup.prefix[b], o.base) /\ o \in Named
  <2>1. n # NoAction
    BY <1>0, <1>3, NamesTyped
  <2> QED BY <1>0, <1>3, <2>1, NameBack
<1> HIDE DEF o, names, ids
<1>5. mine <=> V!IsPrefix(setup.prefix[a], o.base)
  BY <1>3 DEF V!StartsWith
<1>6. CASE a = b
  <2>1. back = {id}
    <3>1. V!ConvertDigestBack(V!Conv(a, t), IdAt(b, t, "digest", n)) = {id}
      BY <1>0, <1>2, <1>6, ConvertsBack DEF V!ConvertDigestBack
    <3> QED BY <1>2, <3>1
  <2>2. mine
    BY <1>4, <1>5, <1>6
  <2> HIDE DEF mine, back
  <2>3. answer'.op = "digest" /\ answer'.ok = (mine => back # {}) /\ answer'.entities = {id} /\ answer'.due = {id}
    BY <1>1, <1>6, <2>1, <2>2 DEF V!Answer
  <2> QED BY <2>1, <2>3 DEF V!ToldTrue, V!ReadsTrue, V!ReadsServed, V!WritesTold, V!DigestsTrue
<1>7. CASE a # b
  <2>1. ~mine
    <3> SUFFICES ASSUME V!IsPrefix(setup.prefix[a], o.base) PROVE FALSE
      BY <1>5
    <3>1. Tidied /\ Shares(a, b, t) /\ Shares(b, a, t) /\ a \in V!Tenants /\ b \in V!Tenants
      BY OrderlyIsTidied DEF OnTarget, Shares
    <3>2. setup.prefix[a] \in Seq(STRING) /\ setup.prefix[b] \in Seq(STRING) /\ o.base \in Seq(STRING)
      BY <1>4, <3>1, SetupTyped DEF Tidied, Named
    <3> DEFINE p == setup.prefix[a]
               q == setup.prefix[b]
               w == o.base
    <3>3. ~V!IsPrefix(p, q) /\ ~V!IsPrefix(q, p)
      <4>1. V!Range(V!Targets(a)) \cap V!Range(V!Targets(b)) # {} /\ V!Range(V!Targets(b)) \cap V!Range(V!Targets(a)) # {}
        BY <3>1 DEF Shares
      <4> QED BY <1>7, <3>1, <4>1 DEF Tidied, V!TidyPrefixes
    <3> HIDE DEF p, q, w
    <3>4. p \in Seq(STRING) /\ q \in Seq(STRING) /\ w \in Seq(STRING)
      BY <3>2 DEF p, q, w
    <3>5. IsPrefix(p, w) /\ IsPrefix(q, w)
      BY <1>4 DEF p, q, w, V!IsPrefix, IsPrefix
    <3>6. ~IsPrefix(p, q) /\ ~IsPrefix(q, p)
      BY <3>3 DEF V!IsPrefix, IsPrefix
    <3> QED BY <3>4, <3>5, <3>6, OneOfTwoPrefixes
  <2> HIDE DEF mine, back
  <2>2. answer'.op = "digest" /\ answer'.ok = (mine => back # {}) /\ answer'.entities = {} /\ answer'.due = {}
    BY <1>1, <1>7, <2>1 DEF V!Answer
  <2> QED BY <2>1, <2>2 DEF V!ToldTrue, V!ReadsTrue, V!ReadsServed, V!WritesTold, V!DigestsTrue
<1> QED BY <1>6, <1>7

LEMMA WritesSettable ==
  ASSUME NEW a, NEW w \in V!Writes(setup.info[a])
  PROVE  Settable(w[1], w[2])
<1>1. /\ IsEntity(w[2]) /\ w[2].which \in {"table_entry", "counter_entry", "meter_entry", "digest_entry"}
      /\ w[1] \in Types /\ (w[1] = "DELETE" => w[2].which = "table_entry")
  BY WritesAre, WritesWritten
<1>2. Listed(a, w)
  BY WritesListed
<1>3. PICK type, which, i, act, key, d : /\ w = <<type, V!Entity(which, i, act, key, d)>>
                                         /\ \/ which = "counter_entry" /\ d = 0
                                            \/ which \in {"table_entry", "meter_entry", "digest_entry"}
  BY <1>2 DEF Listed
<1>4. w[2].which = which /\ w[2].data = d
  BY <1>3 DEF V!Entity
<1>5. w[2].which \in V!Counts => w[2].data = 0
  BY <1>3, <1>4 DEF V!Counts
<1> QED BY <1>1, <1>5 DEF Settable

LEMMA TallyStays == ASSUME TallyInv, UNCHANGED <<setup, dev, virtual>> PROVE TallyInv'
<1>1. MirrorInv' /\ Tallied(virtual', dev') /\ Registered(virtual', dev') /\ setup' = setup
  BY MirrorStays DEF TallyInv
<1> QED BY <1>1, SameTally DEF TallyInv

LEMMA ToldNext == ASSUME TallyInv, V!ToldTrue, [V!Next]_(V!vars) PROVE TallyInv' /\ V!ToldTrue'
<1>0. MirrorInv /\ MirrorInv' /\ setup' = setup
  BY MirrorNext, SetupStays DEF TallyInv
<1>1. ASSUME NEW a \in V!Tenants, NEW w \in V!Writes(setup.info[a]), V!Write(a, w[1], w[2])
      PROVE  TallyInv' /\ V!ToldTrue'
  <2>1. Written(a, w[2]) /\ Settable(w[1], w[2])
    BY WritesWritten, WritesSettable
  <2>2. Tallied(virtual', dev') /\ Registered(virtual', dev')
    BY <1>1, <2>1, WriteTallies
  <2>3. V!ToldTrue'
    BY <1>1, <2>1, WriteTold
  <2> QED BY <1>0, <2>2, <2>3, SameTally DEF TallyInv
<1>2. ASSUME NEW a \in V!Tenants, NEW e \in V!Reads(setup.info[a]), V!Read(a, e) PROVE TallyInv' /\ V!ToldTrue'
  <2>1. UNCHANGED <<setup, dev, virtual>>
    BY <1>2, ReadIs
  <2> QED BY <1>2, <2>1, TallyStays, ReadTold
<1>3. ASSUME NEW a \in V!Tenants, NEW t \in V!Range(V!Targets(a)), NEW e, V!Packet(a, t, e) PROVE TallyInv' /\ V!ToldTrue'
  <2>1. Tallied(virtual', dev') /\ Registered(virtual', dev')
    BY <1>3, PacketTallies
  <2>2. answer'.op = "none"
    BY <1>3 DEF V!Packet, V!NoAnswer
  <2> QED BY <1>0, <2>1, <2>2, SameTally, NotTold DEF TallyInv
<1>4. ASSUME NEW a \in V!Tenants, NEW t \in V!Range(V!Targets(a)), NEW b \in V!Tenants, t \in V!Range(V!Targets(b)),
             NEW id \in V!Ids(setup.info[b], "digest"), V!Digest(a, t, b, id)
      PROVE  TallyInv' /\ V!ToldTrue'
  <2>1. UNCHANGED <<setup, dev, virtual>>
    BY <1>4 DEF V!Digest
  <2>2. V!ToldTrue'
    BY <1>0, <1>4, DigestTold DEF MirrorInv, OnTarget
  <2> QED BY <2>1, <2>2, TallyStays
<1>5. CASE UNCHANGED V!vars
  <2>1. UNCHANGED <<setup, dev, virtual, answer>>
    BY <1>5 DEF V!vars
  <2>2. V!Tidy' <=> V!Tidy
    BY <2>1, SameTidy
  <2>3. V!ToldTrue'
    BY <2>1, <2>2 DEF V!ToldTrue, V!ReadsTrue, V!ReadsServed, V!WritesTold, V!DigestsTrue
  <2> QED BY <2>1, <2>3, TallyStays
<1> QED BY <1>1, <1>2, <1>3, <1>4, <1>5 DEF V!Next

\* Whatever the setup, if it is tidy, and wherever packets are counted, controllers are
\* told by Reads, Writes and digests what one switch of their own would tell them.
THEOREM WhatIsToldIsTrue == V!Spec => []ToldTrue
<1> DEFINE J == V!Tidy => TallyInv /\ V!ToldTrue
<1>1. V!Init => J
  <2> SUFFICES ASSUME V!Init, V!Tidy PROVE TallyInv /\ V!ToldTrue
    OBVIOUS
  <2>1. answer.op = "none"
    BY DEF V!Init, V!NoAnswer
  <2>2. V!ToldTrue
    BY <2>1 DEF V!ToldTrue, V!ReadsTrue, V!ReadsServed, V!WritesTold, V!DigestsTrue
  <2> QED BY <2>2, TallyInit
<1>2. J /\ [V!Next]_(V!vars) => J'
  BY SetupStays, SameTidy, ToldNext
<1>3. J => ToldTrue
  <2>1. ~V!Tidy => V!ToldTrue
    BY DEF V!ToldTrue, V!ReadsTrue, V!ReadsServed, V!WritesTold, V!DigestsTrue
  <2> QED BY <2>1 DEF ToldTrue
<1> HIDE DEF J
<1> QED BY <1>1, <1>2, <1>3, PTL DEF V!Spec

=============================================================================
