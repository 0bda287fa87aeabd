------------------------------- MODULE Sweep -------------------------------
(***************************************************************************)
(* measure() of testcases/restructure/subtests/measure/simulate.py: for    *)
(* every combination of parameters it writes a configuration, starts a     *)
(* data plane, a proxy and senders in the panes of a tmux session, lets    *)
(* them run for a while, ends them, and reads ticks.json, which the data   *)
(* plane writes and nobody removes.  A process is the record of the        *)
(* combination it was started for and of what it has done; nothing the     *)
(* script waits for is certain to come.  MaxSweeps bounds the runs of      *)
(* simulate.py, any of which may be killed.                                *)
(***************************************************************************)
EXTENDS Integers, Sequences

CONSTANTS Modes, Rates,  \* sequences: the values of the parameters mode and sending_rate
          MaxSweeps

ASSUME SweepAssumption ==
  /\ Modes \in Seq({"without_proxy", "fake_proxy", "real_proxy"}) /\ Modes # <<>>
  /\ Rates \in Seq(Nat) /\ Rates # <<>> /\ MaxSweeps \in Nat

VARIABLES
  step,     \* where measure is; "over" between two runs
  combo,    \* the combination <<run, index>> it is called for
  written,  \* proxy_config.json: the combination it was written for, or None
  window,   \* the tmux session exists
  plane,    \* the data plane: [of, up]
  relay,    \* the proxy: [of, kind, config, phase]
  senders,  \* the validator: [of, to, rate, phase]
  ticks,    \* ticks.json: [of, via, rate], or None
  heard,    \* the data plane has reported in this combination
  rows      \* rows of this run: [of, params, ticks, heard]

vars == <<step, combo, written, window, plane, relay, senders, ticks, heard, rows>>
processes == <<plane, relay, senders>>

None == <<0, 0>>
NoPlane == [of |-> None, up |-> FALSE]
NoRelay == [of |-> None, kind |-> "none", config |-> None, phase |-> "off"]
NoSenders == [of |-> None, to |-> "none", rate |-> 0, phase |-> "off"]
NoTicks == [of |-> None, via |-> "none", rate |-> 0]

NumCombos == Len(Modes) * Len(Rates)
Mode(i) == Modes[((i - 1) % Len(Modes)) + 1]
Rate(i) == Rates[((i - 1) \div Len(Modes)) + 1]

\* Bug: the lambdas are called with the first value of mode.
PreparedOnce(i) == [mode |-> Mode(i), sending_rate |-> Rate(i),
                    fake_proxy |-> Mode(1) = "fake_proxy",
                    target |-> IF Mode(1) = "without_proxy" THEN "plane" ELSE "relay"]

\* Some parameters are functions of the ones before them.
Prepared(i) == [mode |-> Mode(i), sending_rate |-> Rate(i),
                fake_proxy |-> Mode(i) = "fake_proxy",
                target |-> IF Mode(i) = "without_proxy" THEN "plane" ELSE "relay"]
Params == Prepared(combo[2])

WriteConfig ==
  /\ step = "begin" /\ combo[2] <= NumCombos
  /\ written' = combo /\ heard' = FALSE /\ step' = "window"
  /\ UNCHANGED <<combo, window, processes, ticks, rows>>

\* With a session of that name the creation fails, three times, and raises.
CreateWindow ==
  /\ step = "window" /\ window' = TRUE
  /\ IF window
     THEN step' = "raise" /\ UNCHANGED plane
     ELSE step' = "plane" /\ plane' = [of |-> combo, up |-> FALSE]
  /\ UNCHANGED <<combo, written, relay, senders, ticks, heard, rows>>

\* After a second: the data plane may not be there yet.
StartProxy ==
  /\ step = "plane" /\ step' = "await"
  /\ relay' = [of |-> combo, kind |-> IF Params.fake_proxy THEN "fake_proxy" ELSE "real_proxy",
               config |-> None, phase |-> "starting"]
  /\ UNCHANGED <<combo, written, window, plane, senders, ticks, heard, rows>>

\* Proxy is ready; or it is not, after ten seconds, and measure goes on.
StartValidator ==
  /\ step = "await" /\ step' = "sleep"
  /\ senders' = [of |-> combo, to |-> Params.target, rate |-> Params.sending_rate, phase |-> "connecting"]
  /\ UNCHANGED <<combo, written, window, plane, relay, ticks, heard, rows>>

RemoveConfig ==
  /\ step = "sleep" /\ step' = "close" /\ written' = None
  /\ UNCHANGED <<combo, window, processes, ticks, heard, rows>>

\* The finally clause: C-c in all panes, and the end of the session.
Close ==
  /\ step \in {"close", "raise"} /\ step' = IF step = "close" THEN "read" ELSE "over"
  /\ window' = FALSE /\ plane' = NoPlane /\ relay' = NoRelay /\ senders' = NoSenders
  /\ UNCHANGED <<combo, written, ticks, heard, rows>>

\* Without a file this raises, and the run is over.
ReadTicks ==
  /\ step = "read"
  /\ IF ticks = NoTicks
     THEN step' = "over" /\ UNCHANGED <<combo, rows>>
     ELSE /\ step' = "begin" /\ combo' = <<combo[1], combo[2] + 1>>
          /\ rows' = Append(rows, [of |-> combo, params |-> Params, ticks |-> ticks, heard |-> heard])
  /\ UNCHANGED <<written, window, processes, ticks, heard>>

Finish ==
  /\ step = "begin" /\ combo[2] > NumCombos /\ step' = "over"
  /\ UNCHANGED <<combo, written, window, processes, ticks, heard, rows>>

\* The script is killed; tmux and what runs in its panes are not.
Kill ==
  /\ step \notin {"over", "begin"} /\ step' = "over"
  /\ UNCHANGED <<combo, written, window, processes, ticks, heard, rows>>

\* The configuration is put aside, and brought back at the end.
Again ==
  /\ step = "over" /\ combo[1] < MaxSweeps
  /\ step' = "begin" /\ combo' = <<combo[1] + 1, 1>> /\ written' = None /\ rows' = <<>>
  /\ UNCHANGED <<window, processes, ticks, heard>>

---------------------------------------------------------------------------
\* What runs in the panes.

PlaneUp ==
  /\ plane # NoPlane /\ ~plane.up /\ plane' = [plane EXCEPT !.up = TRUE]
  /\ UNCHANGED <<step, combo, written, window, relay, senders, ticks, heard, rows>>

\* proxy.py reads its configuration and connects to its targets, or ends;
\* the fake one knows its target, and does not care whether it is there.
ProxyStarts ==
  /\ relay.phase = "starting"
  /\ relay' = IF relay.kind = "fake_proxy" THEN [relay EXCEPT !.phase = "ready"]
              ELSE IF written = None \/ ~plane.up THEN [relay EXCEPT !.phase = "dead"]
              ELSE [relay EXCEPT !.phase = "ready", !.config = written]
  /\ UNCHANGED <<step, combo, written, window, plane, senders, ticks, heard, rows>>

Served == plane.up /\ (senders.to = "relay" => relay.phase = "ready")

\* HighLevelSwitchConnection.init does not try twice.
SenderConnects ==
  /\ senders.phase = "connecting"
  /\ senders' = [senders EXCEPT !.phase = IF Served THEN "sending" ELSE "dead"]
  /\ UNCHANGED <<step, combo, written, window, plane, relay, ticks, heard, rows>>

\* Messages have come for more than two seconds: the data plane writes what it
\* has counted since it was started.
Report ==
  /\ senders.phase = "sending" /\ Served
  /\ ticks' = [of |-> plane.of, rate |-> senders.rate,
               via |-> IF senders.to = "plane" THEN "without_proxy" ELSE relay.kind]
  /\ heard' = (heard \/ plane.of = combo)
  /\ UNCHANGED <<step, combo, written, window, processes, rows>>

Init ==
  /\ step = "over" /\ combo = None /\ written = None /\ window = FALSE
  /\ plane = NoPlane /\ relay = NoRelay /\ senders = NoSenders
  /\ ticks = NoTicks /\ heard = FALSE /\ rows = <<>>

Next ==
  \/ WriteConfig \/ CreateWindow \/ StartProxy \/ StartValidator \/ RemoveConfig
  \/ Close \/ ReadTicks \/ Finish \/ Kill \/ Again
  \/ PlaneUp \/ ProxyStarts \/ SenderConnects \/ Report

Spec == Init /\ [][Next]_vars

\* What a row says was measured in its own combination, through the program
\* and at the rate its parameters name -- unless the data plane had nothing
\* to report, because of a step that failed: then the row repeats what was
\* measured before.
RowsTrue ==
  \A i \in DOMAIN rows : rows[i].heard =>
    /\ rows[i].ticks.of = rows[i].of
    /\ rows[i].ticks.via = rows[i].params.mode /\ rows[i].ticks.rate = rows[i].params.sending_rate

\* Nothing of another combination, or left by a script that was killed, runs
\* while a combination is measured, and a proxy has the configuration written
\* for it.
OwnProcesses ==
  step \in {"plane", "await", "sleep", "close"} =>
    /\ \A of \in {plane.of, relay.of, senders.of} : of \in {None, combo}
    /\ relay.config \in {None, combo}

\* Every row of a sweep is a measurement of its own combination.
SweepTrue == RowsTrue /\ OwnProcesses
=============================================================================
