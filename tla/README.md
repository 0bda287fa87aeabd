# A verification development of the P4Runtime proxy

The proxy (`src/proxy.py`) stands between P4 controllers and P4 switches. A
controller sees one *virtual device*; behind it stand one or several *targets*,
which may be replicas of each other, share the tables between them, or be shared
with other controllers. This directory holds TLA+ models of the proxy's logic, of
the programs that use it and of the harness that tests and measures it, the TLC
configurations that check them, and theorems about them that TLAPS checks.

## The system

| Part | State | Operations | Hard because |
|---|---|---|---|
| `ProxyP4RuntimeServicer`, table entries (`proxy.py`) | `_target_switches` with their `filter_params_allow_only`; redis list `TABLE_ENTRIES`, redis key `P4INFO` | `Write`, `add_target_switch`, `remove_target_switch`, `add_filter_params_allow_only_to_host`, `remove_from_filter_params_allow_only_to_host`, `fill_from_redis`, `SetForwardingPipelineConfig` | handlers interleave at every `await`; the log is replayed while it grows; crashes with RPCs in flight |
| the same, counters | redis lists `COUNTER_ENTRIES`, `REMOVED_COUNTER_ENTRIES`; the switches' counters | `Read`, `save_counters_state_to_redis`, archiving on removal, restoring on fill | a read is a walk over the targets with an `await` at each; removal takes effect before its archive |
| the same, stream | `stream_queue_from_target`, each connection's subscribed queues | `StreamChannel`, `proxy_digest_forwarding`, `subscribe_to_stream_with_queue` | one queue, several channels, no unsubscribe; a digest goes through five queues |
| the same, what a controller is told (`get_multi_target_switch_and_index`, `entity_helper.py`) | none but the switches' | routing by name, the merge of the answers of several targets | names, prefixes, renames, ids and replicas combine |
| `P4NameConverter` (`p4_name_id_helper.py`) | none | `convert_entity`, `convert_id`, both ways, in place | shared message objects; tenants tell theirs apart by a prefix |
| Start-up (`start_servers_by_proxy_config`, `main`) | the mappings, preload entries, servers | connect, create servers, preload, start all at once | servers are created early and run late; a failure half way; restarts onto kept tables |
| `SwitchConnection`, `RateLimitedP4RuntimeStub`, `RateLimiter` (`high_level_switch_connection_async.py`) | `batch`, `buffered_commands`, `bucket`, `last_tick` | `WriteUpdates`, `batching_loop`, `heartbeat`, the generated `Write` | several tasks take from one bounded deque between awaits; errors kill tasks |
| The threaded connection (`p4runtime_lib/switch.py`) | the same, three locks, a pit of futures | `Batcher`, `WriteUpdates`, the limited stub | threads and locks; errors come out at somebody else's write |
| The threaded proxy (`proxy_nonasync.py`) | redis log, worker pool | `Write`, `StreamChannel`, fill, preload | streams hold workers for good; nothing is awaited |
| Client library (`p4runtime_lib/helper.py`, `convert.py`, `high_level_switch_connection*.py`, `controller_helper.py`) | the connection, the election | build and read entries, counters, meters, groups | values in many forms, cut to the width of a field; a call that is not awaited |
| `Balancer` (`balancer.py`) and its controllers | `user`, the tables of two nodes, the route | `load_entries`, `set_target_node`, `move_to_new_target` | a move is many writes on three switches |
| `ReplicatedNodeBalancerManager` (`replicated_node_balancer.py`) and its HTTP server (`balancer_manager.py`) | `_nodes`, `source_address_data` | `add_node`, `remove_node`, `init`, `set_route`, the filter calls | HTTP handlers overlap at every await |
| Redis helper (`redis_helper.py`) | `redis.json`, the database | `saveredis`, reload, `compare_redis`, `wait_heartbeats_in_redis` | a validator compares with a proxy that goes on saving |
| Test harness (`tester.py`, `traffic_helper.py`, `tmuxing.py`, `send.py`, `receive.py`) | flag files, a tmux session | run a case, close everything | five programs that may hang, die or finish in any order |
| Simulator and measurements (`simulator.py`, `measure/simulate.py`, `measure/controller.py`) | rows, results, configuration files, tick counters | `run`, `measure`, the measuring `Write` | kills half way, stale files, threads, clocks that wrap around |

The asyncio proxy is one program, and its redis client is synchronous: a handler
runs without interruption from one `await` to the next. What is awaited is an RPC
to a switch. So an action of the models is the code between two awaits, and a
switch's execution of an RPC is an action of its own. In the models of threads an
action is what a thread does between two points at which another one can see or
change what it uses: taking and releasing locks are actions.

`PROJECT.json` lists the parts, the hazards of each with the properties that are
about them, the lines each definition stands for, and what is left out.

## Modules

| Module | Models |
|---|---|
| `ProxyTables` | The table-entry path: controllers, log, targets, filters, fills, process crash and restart, switches |
| `ConcurrentInserts` | `ProxyTables` used as `balancer_manager.py` uses it: inserts overlap with everything the operator does; the invariants and the inductive invariant |
| `VirtualDevice` | The abstract specification of that use: one set of entries, and members that hold what they are allowed of it |
| `SerialUpdates` | `ProxyTables` with INSERT, MODIFY and DELETE, names and filters, calls that do not overlap: is replaying the history right? |
| `Counters` | The counters of one virtual device: Reads, nodes that come and go, saves by heartbeat, restarts |
| `P4Names`, `TenantView` | The conversion of names and ids; what the controllers of several proxies on shared switches are told under their own names |
| `DigestStream` | The way of a digest from a switch to a controller |
| `Launch` | How the proxy comes up, and comes up again |
| `RateLimiter` | The lazily drained bucket in ticks of time |
| `LeakyBucket` | The bucket that drains all the time: what `RateLimiter` implements and what both links build on |
| `WriteLink` | Batch, buffer, limiter and the tasks of one asyncio connection |
| `ThreadedLink`, `ThreadedProxy` | The same of the threaded connection; the threaded proxy above it |
| `P4Builder`, `P4Client` | Entries built from names and values; two clients of one switch |
| `Balancer` | Users that are moved between nodes |
| `NodeManager` | Overlapping requests to the manager of a replicated node |
| `TestRun`, `RedisFixture` | A run of `tester.py`; redis as a test sees it |
| `Simulator`, `Sweep`, `Measure` | Experiments, the sweep over the proxies, the data plane that measures |
| `CommunityLaws` | Laws of the operators that proofs share: beginnings of sequences, `FlattenSeq`, sums over sets, `SetToSeq`, `%`, powers of two |
| `*_proofs` | Theorems |
| `MC*` | Instances for TLC |

`MCServers`, `MCControllers`, `MCTestRun` and `MCThreadedProxy` (the proxy and the limiter
in ticks of time) each hold several components that do not share state: a variable `system` says which of them a behaviour is about, and
the others stay as they began. Where components do interact, one module extends or
instantiates the other: `ThreadedProxy` runs on `ThreadedLink`, `TenantView` on
`P4Names`, `P4Client` on `P4Builder`, both links on `LeakyBucket`.

A definition whose comment begins with "Bug:" is a form that the one after it might
have had and has not. No specification uses it; it is there to show that the
properties would notice.

## How state and actions correspond to the code

### ProxyTables

`members`, `filter`, `log` and `p4info` are the servicer's fields and redis keys.
`rpcs` holds the Write RPCs to switches that have not been answered, `waiting`
and `op` what their callers await: `waiting` for the controllers' requests, `op`
for the one call of the operator (or the fill at start), with the `lrange`
snapshot it walks. `dp` is the switches' tables. `phase` is the process.

* `Write` logs every update, then routes it (`Routed`: a single target gets
  everything, else by names), filters it, and starts one RPC per target.
* `AddTarget` registers the target and takes the snapshot in one step, since the
  code has no await between them. `OpSend` is one `_write_update_object`, whose
  answer is awaited; `OpDone` is the end of the loop.
* `RemoveTarget` drops the target before its first await; what is in flight to it
  stays in flight. The archive of its counters is not part of this module.
* `Apply` is the switch: it executes the updates of an RPC one by one, and
  refuses an INSERT of an entry it has and a MODIFY or DELETE of one it lacks.
  The last update answers the RPC; an error answer ends the caller's call
  (`asyncio.gather` raises at the first one).
* `Crash` loses the process; RPCs under way may still be executed or be lost.
  `Start` connects and fills the configured targets before the server listens.

Abstractions: an entry is identified by table and match; its name on the
target is the business of `P4NameConverter`. That is faithful where the
conversion of one update for several targets is harmless: one target, targets
that share the tables between them, or replicas of the controller's own program
(empty prefix, no renames), which is how the repository uses replicas. With a
prefix *and* replicas the in-place conversion would convert twice; see the
hazards. The filter is modelled for exact match fields of table entries, all that
the code looks at. `None` and `{}` filters behave alike and are the filter of no
field. The operator's calls do not overlap. Meters, rate limits, batches and
`production_mode` (which does not await the gather) are not in this module.

### WriteLink and RateLimiter

`WriteLink` has one `pc` per asyncio task. A task that awaits a Write is in
`call` (its own request) or in `flush` (one it took from the deque); `Answered`
goes on with the loop of `_flush_buffered_commands` without a gap, as the code
does. A task that is not a writer dies of an error answer. `setup` is chosen
once: with or without a batch delay, how much the buffer holds, and whether the
switch rejects anything. The limiter is
the abstract `LeakyBucket`, which `RateLimiter` is proved to implement (`LazyDrainIsDrain`).

### Counters

One cell stands for all counters. Whoever reads a target (`reads`, `removing`,
`heart`) is between its request and the answer, and gets a count the switch had
in that time; packets pass meanwhile. `count` belongs to the switches; `passed`, `gone`,
`routed` and `durable` only observe. The proxy has the two uses the repository has,
chosen once in `usage`: one configured target that is filled from redis, or the
manager's replicas, which join and leave and are not filled.

* `ReadBegin` fixes the list of targets, `ReadAnswered` walks it, looks the next one
  up in the dictionary as it is by then, and adds the archive at the end. A Read
  without targets answers nothing, the archive included.
* `RemoveTarget` takes the node out of the dictionary; `RemoveAnswered` archives it.
* `SaveBegin`, `SaveAnswered` iterate over the dictionary itself. Python raises in
  the iteration once a node has joined or left, and the heartbeat task is dead
  (`heart.pc = "dead"`): from then on nothing is saved until the next start.
* `Start` may find the switch cleared or as it was, and `FillStep` writes the saved
  counts back before the proxy listens and before `heartbeat` first runs. A crash may come
  at any point.
* `SetForwardingPipelineConfig` deletes the saved counts but not the archive.

Assumed of the operator: packets are routed away from a node before it is removed,
and a removed node is restarted before it is added again. Assumed besides: reads of
counters do not fail, and targets have no rate limit (the limited stub's `Read`
cannot be iterated over at all; see the hazards).

What the properties leave out because it goes wrong: a Read that a removal overlaps
fails, misses the node or counts it twice; with several configured replicas every
one of them is filled with each saved count in turn and ends with the last; the handler of
SIGINT exits before the counters are saved.

### ThreadedLink and ThreadedProxy

`pc` says where each thread is; `Hold` and `Leave` are the places where it takes and
leaves one of the three locks. A write is not awaited: `Issue` puts its future into
`pit`, and whoever comes next looks at the futures there (`Pit`). A failed one
never leaves the pit, so from then on every write raises: `FailStop`. The batch
thread holds `Batcher.lock` from `BatchCallback` to the end of its write.

`ThreadedProxy` uses this connection as its target. `Taken` counts the workers that open streams hold
for good; `Ask`, `Write`, `Send` and `Answer` are the life of a controller's Write in
a worker. `Fill` and `Preload` run in the main thread, one write at a time, `StartFails`
is an error among them, `Crash` ends the process and what its threads held. A log
without `P4INFO` is not replayed by the code; the model starts with a program that
is known.

### P4Names and TenantView

Names are sequences of the pieces a prefix can match, ids are tuples of kind,
numbering and name, so that two programs may number the same name differently. A
conversion that raises in Python is the empty set, one that returns is a set with
its result. `ConvertedEntity` converts in place what the code converts in place:
`Converted` of `TenantView` therefore chains the conversions for the targets of one Write.

`TenantView` runs a call of a servicer from beginning to end (overlapping calls are
the subject of other modules): `Write`, `Read` with the merge of the answers of
several targets, `Digest`, and `Packet`, which counts. `virtual` is what one switch of
its own would hold for each tenant. `Tidy` is what the answers depend on: names that
convert back to themselves (`TidyNames`), targets that are listed once and one for each name
(`TidyTargets`), programs that have the names converted to and no others under the
prefix, with a dot in all names but those of digests (`TidyPrograms`), and
prefixes that do not begin with one another (`TidyPrefixes`). `Isolated`, that a
tenant's calls change nothing of another's, is claimed by the run for every one of its setups; the
theorem needs `TidyNames` and `TidyPrefixes`. Two entries of
one table cannot be read from replicas at all: `Unmergeable` is part of the model, and
`ReadsServed` excepts it. Registers and digests can be asked for and are never answered.

### DigestStream

A digest goes from the switch into `stream`, by `Forward` into the `queue` of every
servicer in `subs`, by a `StreamChannel` into an `inbox`, by the `WorkerThread` of the
controller's connection to `got`. `InitConnection` takes the arbitration answer; one that is forwarded
later raises in a channel, as does the digest of a target that the servicer has
removed: the channel is then `dead`. `unsubscribe` does nothing in the code and has no
action. `Delivered` is claimed for servicers all of whose open channels are read and
alive: a channel without a reader takes digests that nobody gets.

### Launch

`InitTarget`, `CreateServers`, `Preload` and `NextMapping` are the body of the loop over the
mappings; `Fill` and `Open` are what the servers do later, all at once. A refused write
raises (`Raise`), and with it the whole process ends. `resets` says whether targets are cleared, `own`
whether controllers insert only what is new, `reading` and `writing` are the
redis modes. `StartsAgain` states what a restart needs: a start may fail only if targets are not
reset or somebody inserted a preload entry once more.

### P4Builder and P4Client

Tables, actions, fields and widths are parameters; a Python value is a record of its kind
and contents. `Encode` cuts a value into bytes as `convert.py` does and is empty where
that raises. `P4Client` writes and reads with what `P4Builder` builds. `AsAsked`, `BuildsAgain`
and `ToldApart` say that descriptions in different forms mean the same entry exactly
when they should. `SoundProgram` is what a compiler guarantees of a p4info (names and ids
are unique, nothing is without bits), `SoundRequests` what is asked of
descriptions: values that Python has, the length of a prefix as an integer; the entries of a table with
one field, by whose value `get_direct_counter_objects` tells them apart, name that field and have no
priority. `LastWriteStays` excepts `WriteCountersEntry` of the asyncio connection,
which does not await its RPC (`pending`, `Land`); `Kept`, that a client that does not reset never
clears the switch, excepts a program that could not be read. All requests
carry election id 1, so a client with another id is refused (`MayWrite`).

### Balancer

`move` is the point `move_to_new_target` has reached: reading a table of the old node
(`ReadSource`), copying (`Copy`), turning the route (`Turn`), deleting (`Delete`). Each write
may be refused and then ends the controller (`Fail`); nothing is undone. `mode` is one of the two
controllers of the repository: `meter` follows colours that come as digests, `counter` looks
at the routes' counters when its queue has been empty for a while. Colour 2 with two nodes is an
IndexError after `target_node` has been set.

### NodeManager

`call` holds the overlapping HTTP requests, each at one of its awaits. `nodes` is the
dictionary with the gaps that removals leave, because `init` walks it by position
across awaits and Python raises when its size has changed. A connection may fail
(`ConnectFails`); the node then stays in the dictionary and the next request tries it again. `crowd`
remembers how requests overlapped: `TargetsAreNodes` is claimed for two `add_node` requests. Three of them,
or a removal in between, lose a node, and so does a walk that has connected a node another request
left behind (`Carrying`) and then fails itself or is joined by a request. `RouteFollows` is claimed for `set_route` requests of one source that
follow each other, and `RetryHeals` for a request that is repeated after a refusal.

### TestRun, RedisFixture

`pc` is the line of `run_test_cases` the tester is at; the programs in the panes step on
their own or hang. Every wait has its answer (`Wait`) and its end (`Timeout`); `Interrupt` is any
other error or Ctrl-C at any place. A second Ctrl-C while closing is not modelled. If mininet never came up, closing waits for it in
vain and leaves the rest (`CloseFails`). `files` are the flag files and outputs; each
case removes what it is going to wait for.

`RedisFixture` has a proxy that logs and saves, the file that `saveredis` writes, and the
validator's wait for a heartbeat. The file names each archived counter twice, because
one key is part of the other's name; `FileRestores` says what is restored and what doubled.

### Simulator, Sweep, Measure

`Simulator` is `run()`: combination after combination, function after function, with reruns,
stops, results asked for before they are there (`Return`, `asks`), errors and
kills. `saved` maps the number in a file's name to its rows. A run that is killed while its generated
configuration is in place spoils the next backup (`spoilt`).

`Sweep` is `measure()` of the measuring script. Each process is tagged with the
combination it was started for; `ticks` may be those of an earlier combination if the data plane was never
heard (`heard`), which `RowsTrue` excepts.

`Measure` is the `Write` of the measuring data plane in a pool of threads: two of
them may each make a `TickCounter` (`creations`), the second one replaces what the first has counted, and
a table without updates in a window makes the report raise in the middle (`dead`).

## What is checked

| Run | Question | States |
|---|---|---|
| `any_use` | Any calls, any rejections, switches that keep their tables: does anyone wait in vain, does every call return? | 405 k |
| `inserts_safe` | Inserts, fills, removals, filter changes and crashes in any order: is anything lost, misplaced, rejected? | 370 k |
| `inserts_live` | Does it implement `VirtualDevice` with its fairness; do members get there? | 13 k |
| `serial_updates` | Is a replayed history, filtered by names and filter, the right table? | 182 k |
| `counters` | Do counts survive removals, crashes and restarts, and does a Read sum them up? | 1.4 M |
| `link` | Are writes on an asyncio connection sent in order, dropped only when the buffer is full, and sent at last? | 28 k |
| `threaded_proxy` | Do all threads together send what is logged, in order and once, with nobody starving; is a failed write noticed? What passes the limiter in a window of time; is lazy draining draining? | 205 k |
| `servers` | Are controllers told the truth, do digests get to them, does the proxy come up sound? | 141 k |
| `controllers` | Do balancer, node manager and client library leave on the switches what they were asked for? | 378 k |
| `test_run` | Can the results of tests and measurements be believed? | 153 k |
| `link_zero_rate` | A place where the code does not do what `docs/json_configuration.md` says (see `findings`) | |

A property that a run checks may be a conjunction of named parts: `ToldTrue` of
`ReadsTrue`, `ReadsServed`, `WritesTold` and `DigestsTrue`; `OnceInOrder` of
`SubscribedOnce`, `AtMostOnce` and `InOrder`; `SoundStart` of `ServedComplete`, `OwnLog` and `StartsAgain`;
`Placed` of `Homed` and `AtRest`; `RoutesHeld` of `RetryHeals` and `RouteFollows`; `Faithful` of `AsAsked`,
`BuildsAgain`, `LastWriteStays`, `ToldApart` and `Kept`; `LineMatchesLog` of `WireFollowsLog` and
`NothingLost`; `VerdictTrue`, `ResultsKept`, `MeasuredTrue`, `SweepTrue` and `FixtureTrue` likewise. Each part
has a comment of its own where it is defined.

`docs/json_configuration.md` differs from the code in three more places: a target with
`names` `{}` "receives none" of the entries (line 195), but a single target gets all
of them (`proxy.py:248`); the default of the buffer is given as 100 (line 198), but the
asyncio connection starts with a deque of length 0
(`high_level_switch_connection_async.py:79`), which drops every write that cannot
pass at once; and a `batch_delay` (line 199) sends batches until a switch answers one with an
error, which ends `batching_loop` (line 159 of the same file).

Besides these: the limiter lets a burst of almost `rate_limit` requests pass and
refills while it does, so one second can see close to twice `rate_limit`;
`RateBound` is the exact bound, for every window. A rate limit of 1 sends
nothing, as 0 does: `bucket + 1 < 1` never holds.

### Bounds

* Two targets, one of which is configured, are enough for a replica to join,
  leave, be refiltered and be refilled while the other serves. Three entries with two
  field values give entries that a filter change moves together and apart; requests
  carry up to two updates and two controllers can be in flight with them.
* `any_use` has one entry and a log of one: what it asks is about who waits for
  whom, and one update is enough to be accepted or rejected, lost or late.
* `serial_updates` has three targets (two share the tables, the third has both and
  a filter that widens), two values per entry and a history of four updates: insert,
  modify, delete and insert again.
* `link` makes seven writes, with buffers of six, of two and of none, which is what the asyncio
  connection starts with: the first write passes directly,
  so the largest one has room for all others, and the smaller ones drop requests many times over.
  Rate and ticks of 2 make the bucket full after one request, half full after a tick.
* `threaded_proxy` has two controllers with two writes each, one preload entry, three worker
  threads (one more than the streams take) and two starts; a batch, a rate limit
  and both on a switch that accepts everything, a plain connection on one that may reject. The
  limiter in ticks runs for three seconds of four ticks at rate 3.
* `counters` has two nodes, one Read at a time and two packets. Two packets tell a count that was
  lost from one that was doubled, and let one pass before and one after an answer.
  Both uses are checked in the one run.
* `servers`: fifteen setups, one for each way the configuration files of the test cases
  use the proxy (one target, tenants with prefixes on one switch, replicas, different
  numberings, tables split over targets, renames, threads) and some beyond it (prefixes
  of prefixes, names swapped, prefix with rename), with up to two keys; two servicers on
  one target, two controllers of one of them and two digests; two mappings, one preload
  entry, two writes a controller, three starts.
* `controllers`: two users, two nodes, three tables of which two are keyed by users, colours
  0 to 2, three changes; three addresses, two sources and ports, two overlapping requests
  out of four, one restart and two connections that fail; a synchronous client that resets and an
  asynchronous one that does not, bytes of two bits, so that fields of 3, 8 and
  12 bits fill their bytes or do not, thirteen descriptions, one write under way.
* `test_run`: five kinds of case, two at a time, two hosts; an experiment with two by two
  combinations of which one is excluded, two functions, one rerun, three runs; two
  threads, two tables, four updates and a clock that wraps at 4; three modes by
  two rates, two sweeps; two targets, two saves and one logged item.

`CHECK_DEADLOCK FALSE` stands where a behaviour may end: controllers need not write, a tester
ends, an experiment is over.

### Fairness

A switch answers every RPC it gets, the event loop runs what is ready, and a dead
process is started again (`Start`). Nothing is assumed of controllers, of the
operator, of crashes and of losses. In `WriteLink` the two loops run, time passes
and the switch answers. In `ThreadedProxy` every thread that can go on does, a lock that is free again
and again is got at last, the switch answers, and a process that has ended is started. In `DigestStream`
the forwarding tasks, the open channels and the worker threads of connections run; a controller
need not read. In `Balancer` the one program runs. In `TestRun` the tester runs, with its
time limits; the programs in its panes may hang for ever.

### What callers must respect

The models state what the code relies on as guards, as exceptions in a property, or by the
instances they are checked on. Each is needed, and TLC shows what happens without it.

Table entries:

* a field that a filter did not restrict before, or that some entries lack: the fill
  of `add_filter...` sends entries the target has, the switch rejects the first and
  the rest of the fill is not sent;
* `remove_from_filter...` while an INSERT it is to withdraw is in flight: the INSERT
  lands after the withdrawal and stays;
* a target that is added while RPCs to an earlier life of it are in flight: the
  fill collides with them;
* a withdrawal sends one DELETE per logged update, so after a MODIFY it deletes
  twice and aborts at the second;
* a MODIFY or DELETE during a fill overtakes the snapshot being played, and two of one entry
  at once may leave replicas that differ;
* an update a switch rejects stays in the log and aborts every later fill;
* without `reset_dataplane` the fill at start, or a preload entry, collides with what the switch kept;
* two sources of one program without a prefix share a log; of two sources of one target that log the same
  entry, the one that opens its port first may insert what the other one has yet to fill.

Counters:

* a Read that a removal overlaps fails, misses the node or counts it twice;
* a node that joins or leaves during a save ends the heartbeat, and with it all saving;
* with several configured replicas each is filled with every saved count in turn and keeps the last;
* the handler of SIGINT exits before the counters are saved;
* a rate-limited target cannot be read;
* in the threaded proxy the heartbeat starts before the fill and may save counts that have not been restored.

Names and streams:

* a prefix that another one starts with, a rename together with a prefix, and a rename to a name
  without its namespace are not undone when entries are read;
* a prefix on several replicas, or replicas that number names differently: one entity is
  converted for every target in turn, the second time from what is converted already;
* two entries of one table cannot be read from replicas through the asyncio proxy;
* an entity that no target names is sent nowhere, and its Write succeeds; the threaded proxy raises;
* registers cannot be read through the proxy;
* the digest of a target that has been removed, and a second arbitration answer, end the
  channel that takes them; a controller that has gone leaves a channel that swallows digests.

Threads:

* a switch that rejects a batch ends the batch thread, and nothing more is sent;
* with as many open streams as `worker_num` no Write is ever served;
* a log without `P4INFO` is not replayed.

Balancer, manager and client:

* three overlapping `add_node` requests, or a removal during one, leave a node that is connected and no target;
* after a failed connection the next `add_node` connects the node it left behind as well; should that request fail in
  turn, or another one join it, the node is connected and no target;
* `set_route` requests of one source that overlap may be carried out in either order;
* packets between the read of a counter and its reset are not counted;
* `WriteCountersEntry` of the asyncio connection comes when it comes;
* every client has to use election id 1.

Tests and measurements:

* with two receivers the verdict of the slower one is not looked at;
* `stop_flag` of a `Simulator` is never reset: a second `run` of one object ends after its first row;
* a measurement that is killed while its generated configuration is in place loses the original;
* a data plane that is not heard leaves the ticks of an earlier combination to be read;
* `saveredis` doubles the archived counters.

## What is proved

All proofs are checked by TLAPS for every value of the constants that the named
assumptions allow. A module of proofs extends the component's module, or the MC module
that holds several components; there the theorem is about the specification of the
component itself (`M!Spec`, `D!Spec`) and not about the small instance.

* `ProxyTables_proofs`: `TypeCorrect` and `NobodyWaitsInVain`. The argument for the
  second: an RPC leaves `rpcs` only through `Apply`, whose last update runs
  `Return`, or, when the process is down and nobody waits, through `Lose`.
* The same module, for `SerialUpdates`: `MembersHoldTheirView` and `NothingIsRejected`, under
  `Lasting` (the proxy reads and writes its log, targets are reset, and a target that has
  only some tables is never alone). What a history makes of a table
  (`After`) is computed along the whole log, so the proof has two halves. The first is about
  histories alone: when each update was accepted by the table before it, a part of the history that leaves out
  whole entries (those a filter or the names keep away) is accepted as well, update by update, and makes of an empty
  table just the part of the whole. The second is `SerialInv`: every table of a member
  is what the history comes to without the updates that are on the wire or still to be
  sent (`Completed`), the wire holds a stretch of the log in its order (`OnTrack`), and one call is
  under way at a time (`FillInv`).
* The same module, for `ConcurrentInserts`: `Inductive` and from it `NothingIsLost`,
  `NothingGoesAstray`, `NothingCollides`, `MembersConverge`. None of the four is
  inductive. `InsertInv` adds what makes them so: the log holds one INSERT per entry
  (`LogInv`); what is in flight to a target is the only update there about its
  entry, and the target is in the state that takes it (`RpcInv`); what the call in
  progress has left to send is not in flight, and missing or present as the call
  requires (`OpInv`); which calls go with which phase (`PhaseInv`). One lemma per
  action shows that it is preserved.
* The same module: `ProxyIsDevice`, the proxy implements the safety part of `VirtualDevice`. `table`
  of the device is what is logged, `allowed` what a member's filter lets through, `device` what it holds. A request that is
  logged is the device's insertion, each update that a switch executes a step of its member; all else
  stutters. `InsertInv` is needed to see that what a switch executes is an entry of the
  log that the member may have.
* `ThreadedProxy_proofs`, the proxy: `FailuresStop`, `LineIsLogWhileRoom` and `LineIsLog`. What the threads have in hand
  for a controller (the wire, the deque, the batch and what a thread has taken out of one and not yet put
  into the other) forms one line per controller. The line is the log of that controller, or
  the log less an update that is logged and still to be sent (`LineInv`). That the deque never drops
  is a matter of counting (`RoomInv`): each update that was made is in one place. `LineIsLogWhileRoom` says it of any behaviour in which
  the deque has room, `LineIsLog` of every behaviour when the deque is longer than all updates
  that can be made (`Roomy`), as it is in the run. `FailuresStop` rests on the types alone: nothing takes a failed future
  out of the pit.
* The same module, the limiter: `LimiterTypeCorrect`, `RateIsBounded` (the invariant is that a
  window's admissions are covered by the bucket and the time since it opened) and
  `LazyDrainIsDrain`, the refinement of `LeakyBucket`.
* `WriteLink_proofs`: `WritesKeepOrder` and `OnlyAFullBufferDrops`. All writes form
  one line (`Line`): what has gone out, then the deque, then the batch. `LineStep` says
  what any step does to it: it leaves the line as it is or puts the new write at its end, and it may cut one piece
  out, the oldest request of a deque that is full.
  A line that rises goes on rising either way; that its numbers are those of the writes made bounds them (`UpTo`).
* `Counters_proofs`: `TypeCorrect`, `NothingMiscounted`, `ReadsAreRegular` and `NothingSavedIsLost`, for a finite set of nodes.
  `Conserved` is not inductive: a packet that
  reached an archived node would be lost. `GoneInv` says that it does not happen,
  since archived nodes and nodes being archived are neither members nor routed to.
  `ReadRegular` speaks of a Read that is over; `WalkInv` says it of one half way: what it has summed up, with what
  the nodes it has yet to ask hold now, is no less than what there was when it began, and what it has
  summed up is no more than what there is now. Both rest on lemmas on sums over finite sets (`Total`): taking one element out,
  changing one, and growing all. `RestoreKeeps` needs to know that a save under way has read what is still the least
  the switch can have, and that a fill writes what was saved (`KeptInv`).
* `Controllers_proofs`, the balancer: `AlwaysHomed`, `AlwaysAtRest` and from them `AlwaysPlaced`. Both
  speak of certain moments only, so neither is inductive. `IInv` follows the move: a
  user who is not on the move has all entries on the node that `user` names and on no other
  (`Settled`); for the one who is, `OnTheMove` says at each step which of the copies
  and deletions have been made and which are still to come. A refused write
  ends the controller, and what held then stays. `Users` is finite because the
  controller enumerates them when it loads their entries.
* The same module, the node manager: `ManagerInductive`, `NodesAreTargets` and `RoutesAreHeld`, for ports that are not 0
  (`PortNumbers`; 0 stands for a source without a port). `TargetsAreNodes` speaks of moments at which nothing is under
  way. Before that, a node with a connection is a target, or is carried by a walk or a registration (`Accounted`).
  Of two walks that overlap one is bound to end in a RuntimeError, since the dictionary has
  grown under it; it carries nothing, because what it waits for is what the other one also waits for
  or has registered (`Overlap`, `InOrderOfWalk`). `RoutesInv` says that an INSERT is the first request of
  a source since the start, and that every later one meets an entry.
* The same module, a client: `ClientInductive` and `ClientIsFaithful`, for `SoundProgram` and `SoundRequests`. The
  first half is about data. Bytes of one length are as many as there are numbers that fit, and the
  digits that division gives are those of the number (`BytesOfNumber`, `BytesTell`), so a number has one
  way to fill a field (`Encoded`, `EncodedAgain`); a match, a key and an action that were built have the names
  and numbers of their description, two that mean the same are the same (`KeysTell`), and what is read of one builds
  it again (`KeyAgain`, `ActionAgain`). The second half is `ClientInv`: each entry is under a key that can be
  built, with the action that was asked for under its meaning (`EntriesInv`); all counters and meters but the
  counters that an asyncio client writes without waiting have the value asked for, and a new entry's has not been
  asked for before (`CellsInv`); among clients that are connected no two have one election id, so a client that is
  going to push the program and may do so has had a reason since it read the pipeline, and no other one can have pushed (`PushInv`).
* `Servers_proofs`, the start: `AlwaysSound`. The invariant goes along the loop over the mappings (`Loaded`: which
  targets have which preload entries), then along the fills (`FilledIn`: a target has what
  its source has filled so far). That a start can be repeated needs the opposite as
  well: what is still to be filled is not there yet (`StillToFill`), which rests on
  logs without repetitions or preloaded entries (`NewOnly`) and on what `Apart` asks of a configuration:
  sources have keys and entries of their own, and two sources of one target do not both log an
  entry that is not preloaded. Without the last one the first source to open its port may take
  an entry that the second one is about to fill, and the start fails.
* The same module, the streams: `DigestsOnceInOrder`, for any number of switches, servicers and controllers, where the run
  has one switch and controllers of one servicer. Digests of one switch are in the order of their numbers in each
  queue, and whatever a controller has got is ahead of the servicer's queue, which is ahead of the stream
  (`Ordered`). So a digest in two places would be ahead of itself, unless the places are two controllers of a
  servicer; what one of them takes was until then in the queue, behind all that the other one has (`TakenOnce`).
* `TestRun_proofs`, the tester: `VerdictsAreTrue`, for any hosts, any number of cases and any descriptions of them. The
  tester decides by flag files and by what it saw of a program earlier. `TestsInv` says that a case begins with nothing
  running and no flag (`Rested`), so that each flag tells of a program of this case that has got that far
  (`OwnFlags`), and that what was seen stays so until the case is closed (`Witnessed`): an exit code is written by the
  controller that ends, and the receiver that finishes first does not change its verdict.
* The same module, the simulator: `ResultsAreKept`, for any two parameters, conditions, functions and runs. `ArchiveKeeps`
  needs that files are numbered without a gap and one per run at most (`Numbered`), so that the
  first free number exists and overwrites nothing, and that the current file is the run's own while it goes on (`OwnFile`,
  `Archive`); `ConfigKept` needs to know where the configuration is at each phase (`Aside`).
* The same module, the sweep: `AlwaysSweepTrue`. `RowsTrue` speaks of what has been appended, so the
  invariant says whose the processes are: without a session nothing runs (`NoneLeft`),
  and while a combination is measured all that runs was started for it, with its parameters
  (`Current`), so that what is heard is what they say (`Measured`).

* `Servers_proofs`, the tenants: `TenantsIsolated`, `TargetsMirror` and `WhatIsToldIsTrue`, for any setups, tenants, calls, packets and
  digests. `NameBack` says that a name that is converted and converted back is itself again, which
  is where `TidyNames` comes in; `JobIs`, that a Write that is sent has one set of targets, and one conversion though it
  is made once per target in place. `TenantsIsolated` follows a single step: what a call writes is under a name
  that no other tenant on the target can have. `TargetsMirror` has the invariant that each part of a virtual device
  has a twin on the targets that were told of it (`Twins`), and each thing on a target under the
  tenant's names is a twin of something in the device (`Reflects`). `WhatIsToldIsTrue` adds the counts
  (`TallyInv`): a counter's count in the device is the sum of its twins' (`Tallied`). The merge of several answers
  adds up one row per twin; one target, or the proxy with threads, has a single home for each name, and registers and digests answer nothing.
* `TestRun_proofs`, the measuring data plane: `MeasureInductive` and `MeasuresAreTrue`. `CountingInv` says what each thread has counted
  and for which counter; `AliveInv`, that as long as no table is silent each table with ticks has an
  average, so nothing raises in the report.
* The same module, redis as a test sees it: `FixtureInductive` and `FixturesHold`. The file holds each list once for each name that was asked
  for (`FixtureInv`), which is what doubles the archived counters.

Where a definition computes over data (the table after a history, a sum over a set of nodes, the requests of a deque in a
row, the answers of several targets put together, the number that bytes stand for), the proof is by a least counterexample: the natural numbers are well founded (`WFMin`), the set of the
lengths or sizes at which the claim fails has a least member, and that cannot be. `CommunityLaws` does this once for the operators
of the community modules, from their definitions: none of its laws is taken on trust. Powers of two are the numbers of
subsets there, since the library has laws for those.

The assumptions are those that the modules name, each evaluated by the run of its module, and hypotheses in the
statements:

* of the constants of a component: `EntriesAssumption`, `TargetsAssumption`, `BoundsAssumption`, `Replicas`, `CountersAssumption`,
  `LinkAssumption`, `ThreadsAssumption`, `ProxyAssumption`, `LaunchAssumption`, `BalancerAssumption`, `SweepAssumption`: types,
  finiteness, bounds that are numbers;
* of what the MC modules hold: `LimiterAssumption` (numbers, and a tick in each second), `StreamsAssumption`, `TestsAssumption` (what a test
  case can ask for), `ExperimentAssumption` (there is something to measure), `MeasureAssumption` (requests have updates, tables
  are numbered from 1, no delay lasts a turn of the clock), `SwitchesAssumption` (targets are listed), `SetupsAssumption` (aliases are unique, names are
  not empty, `NoAction` is an action only, names and keys are finitely many), `ClientAssumption` (`SoundProgram` and `SoundRequests`);
* in the statements: `Lasting` (`MembersHoldTheirView`, `NothingIsRejected`), `M!PortNumbers` (the manager), `Apart` (the start),
  `TidyNames` and `TidyPrefixes` (`TenantsIsolated`), `Roomy` or `[]Room` (the line of the threaded proxy). `Lasting` and `M!PortNumbers` are also
  assumed by the MC modules of their instances. `Mirrors` and `ToldTrue` themselves speak of setups that are `Tidy`.

These are no properties of a run: the inductive invariants (`Inductive`, `AlwaysInductive`, `ManagerInductive`,
`ClientInductive`, `TestsInductive`, `ExperimentInductive`, `SweepInductive`, `MeasureInductive`, `FixtureInductive`), `TypeCorrect` of
`Counters_proofs` and of `ThreadedProxy_proofs`, `LimiterTypeCorrect`, and the safety refinement `ProxyIsDevice`, which the run
checks with fairness (`ImplementsFairDevice`). The others are, and the runs show on small instances what
the theorems say of all. Every invariant and every action property that a passing run checks is stated by a theorem, with the hypotheses above.

Only model-checked: what needs fairness (`CallsReturn`, `Settles`, `ImplementsFairDevice`, `EventuallySent`, `LoggedIsSent`,
`Served`, `Delivered`, `Followed`, `EndsClean`). Liveness and `ENABLED` are out of reach of the prover here. The disagreement
with `docs/json_configuration.md` (`link_zero_rate`) is a counterexample that TLC finds.

## Not modelled

* Meters beside counters: the log of meter entries, and the archive that
  `remove_from_filter_params_allow_only_to_host` makes of direct counters. Both store what
  they read as `Counters` does.
* Registers: the proxy cannot read them, the switches used do not support them.
* `proxy_nonasync.py`'s counters, which are those of the asyncio proxy without an archive;
  `purge_buffer`, which has no caller; `dry_run` and `GrpcRequestLogger`, which change nothing.
* Mininet, topologies and software switches (`run_exercise.py`, `p4_mininet.py` and their
  like): third-party code that starts what a test talks to. In `TestRun` they are a
  pane with or without a prompt; switches appear in every model by what they do with RPCs.
* `simple_controller.py`, which no topology here uses, drawing and debugging aids, and the pass-through
  proxies that the measurements compare with (a mode of `Sweep`).
* Older measuring scripts that no longer fit the proxy's interface.

## Plan

The modules were written in the order of the table above, those that the proxy's main promise rests on
first, and each was checked before it was proved about. What the runs check is proved as far as the prover reaches; what
remains are hazards that no property covers. Each is noted in `PROJECT.json` with the reason, and is a place where the code does
not keep a promise that one could state: two controllers that modify one entry of two replicas, a withdrawal that overlaps an insert, a read
that overlaps a removal, a save that overlaps a joining node, and counts that are restored to several replicas.
A change of the code at one of these would begin with the property, in `ProxyTables` or in `Counters`, that
then holds.
