----------------------------- MODULE MCTestRun -----------------------------
(***************************************************************************)
(* The test harness with its Redis, the simulator, the script it runs to   *)
(* measure the proxy, and the data plane that measures; a behaviour is one *)
(* of one of them.  Times wrap around at 4.                                *)
(***************************************************************************)
EXTENDS Sweep, FiniteSets, TLC

CONSTANTS Hosts, Descriptors, MaxCases, Sizes, Excluded, NumFunctions, MaxRerun, MaxRuns, Threads, Tables,
          Requests, Wrap, MaxUpdates, Switches, MaxSaves, MaxLog

ASSUME \A n \in {MaxCases, MaxRerun, MaxUpdates, MaxSaves, MaxLog} : n \in Nat

\* What a test_config.json can ask for, and hosts that have names.
ASSUME TestsAssumption ==
  /\ "none" \notin Hosts
  /\ Descriptors \subseteq [mininet : BOOLEAN, proxy : BOOLEAN, controller : {"none", "once", "ongoing"},
                            traffic : {"none", "ping", "packets"}, receivers : SUBSET Hosts, validator : BOOLEAN]

\* An experiment has parameters with values, and functions to call.
ASSUME ExperimentAssumption ==
  /\ Sizes \in (Nat \ {0}) \X (Nat \ {0})
  /\ NumFunctions \in Nat \ {0} /\ MaxRuns \in Nat

\* The proxy sends an update at least, and tables have numbers from 1.  The data
\* plane cannot tell a delay from one that is longer by a turn of the clock.
ASSUME MeasureAssumption ==
  /\ Wrap \in Nat \ {0} /\ IsFiniteSet(Tables) /\ 0 \notin Tables
  /\ Requests \subseteq Seq([table : Tables, delay : 0..(Wrap - 1)]) \ {<<>>}

\* The configuration lists the targets of a proxy.
ASSUME SwitchesAssumption == Switches \in Seq({Switches[i] : i \in DOMAIN Switches})

VARIABLES system, cases, pc, failed, files, session, mininet, proxy, controller, receiver, sender, first,
          phase, next, table, function, tries, results, seen, stop, saved, history, config, backup, spoilt, runs,
          at, request, began, warm, creations, counter, order, tick, average, data, dead, counted, delays, silent,
          store, file, image, fresh, cells, reading, clock, lastSave, waiting

\* The test cases of the repository, by what they run.
Usual == [mininet |-> TRUE, proxy |-> TRUE, controller |-> "once",
          traffic |-> "ping", receivers |-> {}, validator |-> TRUE]
MCDescriptors ==
  {Usual,
   [Usual EXCEPT !.mininet = FALSE, !.traffic = "none", !.controller = "none"],
   [Usual EXCEPT !.traffic = "packets", !.receivers = {"h2"}, !.controller = "ongoing", !.validator = FALSE],
   [Usual EXCEPT !.traffic = "packets", !.receivers = {"h1", "h2"}, !.proxy = FALSE, !.validator = FALSE],
   [Usual EXCEPT !.traffic = "packets", !.proxy = FALSE, !.controller = "none"]}

T == INSTANCE TestRun
S == INSTANCE Simulator

MCSizes == <<2, 2>>
MCExcluded == {<<0, 1>>}

Update(t, d) == [table |-> t, delay |-> d]
MCRequests == {<<Update(1, 0)>>, <<Update(2, 3)>>, <<Update(1, 1), Update(2, 2)>>}
M == INSTANCE Measure WITH first <- began

MCModes == <<"without_proxy", "fake_proxy", "real_proxy">>
MCRates == <<200, 400>>

MCSwitches == <<"s1", "s2">>
R == INSTANCE RedisFixture WITH saved <- lastSave, Targets <- Switches

tVars == <<cases, pc, failed, files, session, mininet, proxy, controller, receiver, sender, first>>
sVars == <<phase, next, table, function, tries, results, seen, stop, saved, history, config, backup, spoilt, runs>>
mVars == <<at, request, began, warm, creations, counter, order, tick, average, data, dead, counted, delays, silent>>
rVars == <<store, file, image, fresh, cells, reading, clock, lastSave, waiting>>

MCInit ==
  /\ system \in {"tests", "simulator", "measure", "sweep", "redis"}
  /\ T!Init /\ S!Init /\ M!Init /\ Init /\ R!Init
  /\ system # "tests" => cases = <<Usual>> /\ files = {} /\ ~session

TestStep == system = "tests" /\ T!Next /\ UNCHANGED <<system, sVars, mVars, vars, rVars>>
SimulatorStep == system = "simulator" /\ S!Next /\ UNCHANGED <<system, tVars, mVars, vars, rVars>>
MeasureStep == system = "measure" /\ M!Next /\ UNCHANGED <<system, tVars, sVars, vars, rVars>>
SweepStep == system = "sweep" /\ Next /\ UNCHANGED <<system, tVars, sVars, mVars, rVars>>
RedisStep == system = "redis" /\ R!Next /\ UNCHANGED <<system, tVars, sVars, mVars, vars>>
TesterRuns == system = "tests" /\ T!Tester /\ UNCHANGED <<system, sVars, mVars, vars, rVars>>

MCNext == TestStep \/ SimulatorStep \/ MeasureStep \/ SweepStep \/ RedisStep

MCSpec == MCInit /\ [][MCNext]_<<system, tVars, sVars, mVars, vars, rVars>> /\ WF_<<tVars>>(TesterRuns)

\* A case passes only with good outcomes of its own.
VerdictTrue == T!VerdictTrue

\* The run ends whatever hangs, and if mininet can still be told to quit what
\* the run has started ends with it.
EndsClean == T!NothingLeftRunning /\ (system = "tests" => T!RunEnds)

\* The rows of an experiment are complete, its own and kept.
ResultsKept == S!ResultsKept

\* The data plane reports what it measured.
MeasuredTrue == system = "measure" => M!MeasuredTrue

\* A test finds in Redis what its fixture promises.
FixtureTrue == R!FixtureTrue
=============================================================================
