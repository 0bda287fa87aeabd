---------------------------- MODULE RedisFixture ----------------------------
(***************************************************************************)
(* Redis as a test sees it: tester.py empties it and fills it from a file  *)
(* (redis.json), a proxy logs and archives entries and saves its counters  *)
(* with a heartbeat, a validator waits for a heartbeat before it compares  *)
(* the keys with the file (common/redis_helper.py), and tester.py          *)
(* saveredis writes such a file.  A string is a list of one element; time  *)
(* passes with every save.  MaxSaves bounds the saves, MaxLog the rest.   *)
(***************************************************************************)
EXTENDS Integers, Sequences, SequencesExt, FiniteSets

CONSTANTS Targets, MaxSaves, MaxLog

VARIABLES
  store,    \* the database: key -> list
  file,     \* redis.json: a sequence of [key, list]
  image,    \* what was in the store when the file was saved
  fresh,    \* the store was filled from the file and nothing has written since
  cells,    \* a counter of each target
  reading,  \* the save under way: the cells it has read, by target
  clock,
  saved,    \* the last save: the cells it has read, and when it ended
  waiting   \* start_time of a validator that waits, or 0

fixtureVars == <<store, file, image, fresh, cells, reading, clock, saved, waiting>>

Lists == {"TABLE_ENTRIES", "COUNTER_ENTRIES", "METER_ENTRIES", "REMOVED_COUNTER_ENTRIES"}
Fields == <<"TABLE_ENTRIES", "COUNTER_ENTRIES", "METER_ENTRIES", "REMOVED_COUNTER_ENTRIES">>
Keys == Lists \cup {"HEARTBEAT"}

\* Whether the name of a field is in a key.
In(field, key) == field = key \/ (field = "COUNTER_ENTRIES" /\ key = "REMOVED_COUNTER_ENTRIES")

Empty == [k \in Keys |-> <<>>]

\* save_redis_to_json_file: for each field, the keys its name is in.
FileOf(db) ==
  LET RowsOf(field) == SetToSeq({[key |-> k, list |-> db[k]] : k \in {q \in Lists : In(field, q) /\ db[q] # <<>>}})
  IN FlattenSeq([i \in DOMAIN Fields |-> RowsOf(Fields[i])])

\* prepare_environment: flushdb, and rpush of each row.
ListOf(rows, key) == FlattenSeq([i \in DOMAIN rows |-> IF rows[i].key = key THEN rows[i].list ELSE <<>>])
Loaded == [key \in Keys |-> ListOf(file, key)]

\* compare_redis looks at the elements the file has, and at no other.
Matches(db, rows) ==
  \A i \in DOMAIN rows : \A n \in DOMAIN rows[i].list :
    n \in DOMAIN db[rows[i].key] /\ db[rows[i].key][n] = rows[i].list[n]

Prepare ==
  /\ reading = <<>> /\ store' = Loaded /\ fresh' = TRUE
  /\ UNCHANGED <<file, image, cells, reading, clock, saved, waiting>>

SaveRedis ==
  /\ Len(store["REMOVED_COUNTER_ENTRIES"]) <= MaxLog
  /\ file' = FileOf(store) /\ image' = store
  /\ fresh' = FALSE
  /\ UNCHANGED <<store, cells, reading, clock, saved, waiting>>

\* The proxy logs an update or archives a counter.
Log(key) ==
  /\ Len(store[key]) < MaxLog
  /\ store' = [store EXCEPT ![key] = Append(@, clock)] /\ fresh' = FALSE
  /\ UNCHANGED <<file, image, cells, reading, clock, saved, waiting>>

\* A new pipeline configuration: delete_redis_entries_for_this_service.
DeleteEntries ==
  /\ store' = [store EXCEPT !["TABLE_ENTRIES"] = <<>>, !["COUNTER_ENTRIES"] = <<>>,
                            !["METER_ENTRIES"] = <<>>, !["HEARTBEAT"] = <<>>]
  /\ fresh' = FALSE
  /\ UNCHANGED <<file, image, cells, reading, clock, saved, waiting>>

Packet(t) ==
  /\ cells[t] < MaxLog /\ cells' = [cells EXCEPT ![t] = @ + 1]
  /\ UNCHANGED <<store, file, image, fresh, reading, clock, saved, waiting>>

\* save_counters_state_to_redis reads the targets in turn ...
ReadTarget ==
  /\ Len(reading) < Len(Targets) /\ clock <= MaxSaves
  /\ reading' = Append(reading, cells[Targets[Len(reading) + 1]])
  /\ UNCHANGED <<store, file, image, fresh, cells, clock, saved, waiting>>

\* Bug: no transaction; the heartbeat is there before the list.
ExecuteLater ==
  /\ Len(reading) = Len(Targets)
  /\ clock' = clock + 1
  /\ store' = [store EXCEPT !["COUNTER_ENTRIES"] = saved.cells,
                            !["HEARTBEAT"] = <<clock'>>]
  /\ saved' = [cells |-> reading, time |-> clock'] /\ reading' = <<>> /\ fresh' = FALSE
  /\ UNCHANGED <<file, image, cells, waiting>>

\* ... and replaces the list and the heartbeat in one transaction.
Execute ==
  /\ Len(reading) = Len(Targets)
  /\ clock' = clock + 1
  /\ store' = [store EXCEPT !["COUNTER_ENTRIES"] = reading, !["HEARTBEAT"] = <<clock'>>]
  /\ saved' = [cells |-> reading, time |-> clock'] /\ reading' = <<>> /\ fresh' = FALSE
  /\ UNCHANGED <<file, image, cells, waiting>>

\* wait_heartbeats_in_redis
StartWait ==
  /\ waiting = 0 /\ waiting' = clock
  /\ UNCHANGED <<store, file, image, fresh, cells, reading, clock, saved>>

EndWait ==
  /\ waiting > 0 /\ store["HEARTBEAT"] # <<>> /\ store["HEARTBEAT"][1] > waiting
  /\ waiting' = 0
  /\ UNCHANGED <<store, file, image, fresh, cells, reading, clock, saved>>

Init ==
  /\ store = Empty /\ file = <<>> /\ image = Empty /\ fresh = FALSE
  /\ cells \in [{Targets[i] : i \in DOMAIN Targets} -> {0}]
  /\ reading = <<>> /\ clock = 1 /\ saved = [cells |-> <<>>, time |-> 0] /\ waiting = 0

Next ==
  \/ Prepare \/ SaveRedis \/ DeleteEntries \/ ReadTarget \/ Execute \/ StartWait \/ EndWait
  \/ \E key \in {"TABLE_ENTRIES", "REMOVED_COUNTER_ENTRIES"} : Log(key)
  \/ \E t \in DOMAIN cells : Packet(t)

Spec == Init /\ [][Next]_fixtureVars

\* A test that starts from a file starts from what was in Redis when the file
\* was saved, without the heartbeat -- and the archived counters twice, because
\* the name of the counters is part of theirs.  It matches the file then.
FileRestores ==
  fresh => Matches(store, file) /\ \A key \in Lists :
    store[key] = IF key = "REMOVED_COUNTER_ENTRIES" THEN image[key] \o image[key] ELSE image[key]

\* Whoever sees a heartbeat finds all the counters of the save it is of, and of
\* no other; so a validator whose wait has ended sees a save that has ended
\* since it began (although it may have read the cells before).
WaitSeesSave ==
  LET heartbeat == store["HEARTBEAT"] IN
  heartbeat # <<>> =>
    /\ store["COUNTER_ENTRIES"] = saved.cells
    /\ waiting > 0 /\ heartbeat[1] > waiting => saved.time > waiting

\* A test finds in Redis what its fixture promises: the file before it begins,
\* a whole save when it compares.
FixtureTrue == FileRestores /\ WaitSeesSave
=============================================================================
