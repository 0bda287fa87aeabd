------------------------------- MODULE Launch -------------------------------
(***************************************************************************)
(* How the asyncio proxy comes up (proxy.py: start_servers_by_proxy_config *)
(* and main): mapping after mapping, its target is connected to, a server  *)
(* is created for each of its sources, and its preload entries are written *)
(* to the target; only then do all servers start, at the same time: each   *)
(* fills from redis what it has logged, and opens its port.  An exception  *)
(* anywhere ends the process.  A mapping has one target here; its entries  *)
(* are <<"preload", n>> and <<s, n>>, the n-th of source s's controller.   *)
(* MaxWrites bounds what each controller writes, MaxStarts the starts.     *)
(***************************************************************************)
EXTENDS Integers, Sequences, SequencesExt

CONSTANTS
  NumMappings,
  Sources,     \* [name, mapping, prefix, program] of each source
  Preloads,    \* number of preload_entries of each mapping
  MaxWrites, MaxStarts

ASSUME LaunchAssumption ==
  /\ NumMappings \in Nat \ {0} /\ Preloads \in [1..NumMappings -> Nat]
  /\ \A s \in Sources : s.mapping \in 1..NumMappings /\ s.name # "preload"
  /\ MaxWrites \in Nat /\ MaxStarts \in Nat

VARIABLES
  resets, reading, writing,  \* the configuration: reset_dataplane, the redis mode
  own,       \* controllers insert new entries only
  phase,     \* "down", "set up", "starting", "ready"
  at, step,  \* the mapping that is set up, and with what: "target", "servers", "preload"
  done,      \* preload entries written
  server,    \* of each source: "none", "created", "open"
  filled,    \* log entries each server has filled
  table,     \* the entries of each mapping's target
  log,       \* TABLE_ENTRIES in redis, by key
  failed,    \* an exception has ended a start
  starts

config == <<resets, reading, writing, own>>
vars == <<config, phase, at, step, done, server, filled, table, log, failed, starts>>

Mappings == 1..NumMappings
None == [s \in Sources |-> "none"]

\* The keys of a source carry its prefix, or its program's name.
Key(s) == IF s.prefix # "" THEN s.prefix ELSE s.program
Keys == {Key(s) : s \in Sources}

Start ==
  /\ phase = "down" /\ starts < MaxStarts
  /\ phase' = "set up" /\ at' = 1 /\ step' = "target" /\ done' = 0 /\ starts' = starts + 1
  /\ filled' = [s \in Sources |-> 0]
  /\ UNCHANGED <<config, server, table, log, failed>>

\* The process is gone, and its ports with it.
Down == phase' = "down" /\ server' = None

\* An exception reaches main; the coroutines that still run are cancelled.
Raise == Down /\ failed' = TRUE /\ UNCHANGED <<table, log>>

\* HighLevelSwitchConnection.init: the target begins anew if it is to be reset.
TableAfterInit == IF resets THEN {} ELSE table[at]

InitTarget ==
  /\ phase = "set up" /\ step = "target"
  /\ table' = [table EXCEPT ![at] = TableAfterInit]
  /\ step' = "servers"
  /\ UNCHANGED <<config, phase, at, done, server, filled, log, failed, starts>>

\* A coroutine of start() is made for each source; nothing of it runs yet.
CreateServers ==
  /\ phase = "set up" /\ step = "servers"
  /\ server' = [s \in Sources |-> IF s.mapping = at THEN "created" ELSE server[s]]
  /\ step' = "preload" /\ done' = 0
  /\ UNCHANGED <<config, phase, at, filled, table, log, failed, starts>>

\* A preload entry is inserted; the switch rejects what it has, and that raises.
Preload ==
  /\ phase = "set up" /\ step = "preload" /\ done < Preloads[at]
  /\ LET e == <<"preload", done + 1>> IN
     IF e \in table[at] THEN Raise
     ELSE table' = [table EXCEPT ![at] = @ \cup {e}] /\ UNCHANGED <<phase, server, log, failed>>
  /\ done' = done + 1
  /\ UNCHANGED <<config, at, step, filled, starts>>

MappingDone == done = Preloads[at]

\* The next mapping; after the last one main gathers the servers' start().
NextMapping ==
  /\ phase = "set up" /\ step = "preload" /\ MappingDone
  /\ IF at < NumMappings THEN at' = at + 1 /\ step' = "target" /\ UNCHANGED phase
                         ELSE phase' = "starting" /\ UNCHANGED <<at, step>>
  /\ done' = 0
  /\ UNCHANGED <<config, server, filled, table, log, failed, starts>>

\* fill_from_redis: one logged update after the other, of each server.
Fill(s) ==
  /\ phase = "starting" /\ server[s] = "created" /\ reading /\ filled[s] < Len(log[Key(s)])
  /\ LET e == log[Key(s)][filled[s] + 1] IN
     IF e \in table[s.mapping] THEN Raise
     ELSE table' = [table EXCEPT ![s.mapping] = @ \cup {e}] /\ UNCHANGED <<phase, server, log, failed>>
  /\ filled' = [filled EXCEPT ![s] = @ + 1]
  /\ UNCHANGED <<config, at, step, done, starts>>

\* Bug: the port is opened while the fill is running.
FilledSoon(s) == TRUE

Filled(s) == reading => filled[s] = Len(log[Key(s)])

Open(s) ==
  /\ phase = "starting" /\ server[s] = "created" /\ Filled(s)
  /\ server' = [server EXCEPT ![s] = "open"]
  /\ UNCHANGED <<config, phase, at, step, done, filled, table, log, failed, starts>>

AllOpen == \A s \in Sources : server[s] = "open"

\* Proxy is ready
Ready ==
  /\ phase = "starting" /\ AllOpen /\ phase' = "ready"
  /\ UNCHANGED <<config, at, step, done, server, filled, table, log, failed, starts>>

\* A controller inserts through an open port, as soon as it is open; the update
\* is logged, whether the switch accepts it or not.
Insert(s, e) ==
  /\ server[s] = "open" /\ Len(log[Key(s)]) < MaxWrites
  /\ own => e \notin ToSet(log[Key(s)]) \cup table[s.mapping]
  /\ log' = IF writing THEN [log EXCEPT ![Key(s)] = Append(@, e)] ELSE log
  /\ table' = [table EXCEPT ![s.mapping] = @ \cup {e}]
  /\ UNCHANGED <<config, phase, at, step, done, server, filled, failed, starts>>

\* SIGINT, or a crash; sigint_handler only schedules stop() before it exits.
Stop ==
  /\ phase # "down" /\ Down
  /\ UNCHANGED <<config, at, step, done, filled, table, log, failed, starts>>

Init ==
  /\ resets \in BOOLEAN /\ reading \in BOOLEAN /\ writing \in BOOLEAN /\ own \in BOOLEAN
  /\ phase = "down" /\ at = 1 /\ step = "target" /\ done = 0 /\ server = None
  /\ filled = [s \in Sources |-> 0] /\ table = [m \in Mappings |-> {}]
  /\ log = [k \in Keys |-> <<>>] /\ failed = FALSE /\ starts = 0

Entries(s) == {<<s.name, n>> : n \in 1..MaxWrites} \cup {<<"preload", 1>>}

Launching ==
  \/ InitTarget \/ CreateServers \/ Preload \/ NextMapping \/ Ready
  \/ \E s \in Sources : Fill(s) \/ Open(s)
Next ==
  \/ Start \/ Launching \/ Stop
  \/ \E s \in Sources : \E e \in Entries(s) : Insert(s, e)

Spec == Init /\ [][Next]_vars

-----------------------------------------------------------------------------
TypeOK ==
  /\ phase \in {"down", "set up", "starting", "ready"} /\ at \in Mappings
  /\ step \in {"target", "servers", "preload"} /\ done \in 0..Preloads[at]
  /\ \A s \in Sources : server[s] \in {"none", "created", "open"} /\ filled[s] \in 0..Len(log[Key(s)])

\* A controller's calls are served only when the target has the preload entries
\* and all that the source has logged; the proxy says that it is ready only
\* when every source is served.
ServedComplete ==
  /\ \A s \in Sources : server[s] = "open" =>
       /\ \A n \in 1..Preloads[s.mapping] : <<"preload", n>> \in table[s.mapping]
       /\ reading => ToSet(log[Key(s)]) \subseteq table[s.mapping]
  /\ phase = "ready" => \A s \in Sources : server[s] = "open"

\* A source is given what it has logged itself and nothing of another one.
OwnLog ==
  \A m \in Mappings : \A e \in table[m] :
    e[1] = "preload" \/ \E s \in Sources : s.mapping = m /\ s.name = e[1]

\* After a crash, a stop or a failure at any point the proxy can be started
\* again, if its targets are reset and controllers insert what is new only.
StartsAgain == failed => ~own \/ ~resets

\* A start is sound: only complete targets are served, each source finds what it
\* has logged and nothing else, and a start can be repeated under conditions
\* that the configuration and the controllers decide, not the moment of a crash.
SoundStart == ServedComplete /\ OwnLog /\ StartsAgain
=============================================================================
