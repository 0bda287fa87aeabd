------------------------------ MODULE TestRun ------------------------------
(***************************************************************************)
(* run_test_cases of tester.py with the programs it starts in the panes of *)
(* a tmux session: mininet, the proxy, the controller, the receivers and   *)
(* the sender of traffic (traffic_helper.py, receive.py, send.py).  They   *)
(* talk through flag files in the test folder and through what the panes   *)
(* show.  The tester waits for either with a time limit; a wait that runs  *)
(* out, like any error, ends the case, and the first bad case ends the     *)
(* run.                                                                    *)
(***************************************************************************)
EXTENDS Integers, Sequences, FiniteSets, SequencesExt

CONSTANTS
  Hosts,        \* hosts that may run a receiver
  Descriptors,  \* what test_config.json and the files of a case ask for
  MaxCases

VARIABLES
  cases,       \* the cases to run, the current one first
  pc,          \* where the tester is
  failed,      \* an exception is on its way out of the current case
  files,       \* flag files, outputs and the exit code in the test folder
  session,     \* the tmux session exists
  mininet, proxy, controller, receiver, sender,
  first        \* the receiver that finished first, "none"

vars == <<cases, pc, failed, files, session, mininet, proxy, controller, receiver, sender, first>>
programs == <<mininet, proxy, controller, receiver, sender, first>>

Case == Head(cases)
Goto(there) == pc' = there /\ UNCHANGED <<cases, failed, files, session, programs>>
Raise == pc' = "close" /\ failed' = TRUE /\ UNCHANGED <<cases, files, session, programs>>

\* prepare_test_folder, prepare_environment: the folder is cleared and filled.
Prepare ==
  /\ pc = "prepare"
  /\ files' = {} /\ pc' = "window"
  /\ UNCHANGED <<cases, failed, session, programs>>

\* create_tmux_window_with_retry: a session that is left over makes all tries fail.
CreateWindow ==
  /\ pc = "window" /\ ~session
  /\ session' = TRUE /\ mininet' = (IF Case.mininet THEN "starting" ELSE "off")
  /\ pc' = "mininet"
  /\ UNCHANGED <<cases, failed, files, proxy, controller, receiver, sender, first>>

StartProxy ==
  /\ pc = "proxy"
  /\ proxy' = (IF Case.proxy THEN "starting" ELSE "off") /\ pc' = "proxy is ready"
  /\ UNCHANGED <<cases, failed, files, session, mininet, controller, receiver, sender, first>>

StartController ==
  /\ pc = "controller"
  /\ controller' = (IF Case.controller = "none" THEN "off" ELSE "running")
  /\ pc' = IF Case.controller = "once" THEN "exit code 1" ELSE "controller is ready"
  /\ UNCHANGED <<cases, failed, files, session, mininet, proxy, receiver, sender, first>>

\* wait_and_assert_controller_exit_code.  The prompt may be that of before the
\* command, and then there is no file.
ExitCode ==
  /\ pc \in {"exit code 1", "exit code 2"}
  /\ IF <<"exit", "ok">> \in files THEN Goto(IF pc = "exit code 1" THEN "traffic" ELSE "passed") ELSE Raise

\* A ping, which is answered or not; or the receivers, h1 first.
Traffic ==
  /\ pc = "traffic"
  /\ \/ Case.traffic = "packets" /\ Goto("receivers")
     \/ Case.traffic # "packets" /\ Goto("validator")
     \/ Case.traffic = "ping" /\ Raise

StartReceiver(h) ==
  /\ pc = "receivers" /\ h \in Case.receivers /\ receiver[h] = "off"
  /\ \A g \in Case.receivers : receiver[g] # "off" => <<"started", g>> \in files
  /\ receiver' = [receiver EXCEPT ![h] = "starting"]
  /\ UNCHANGED <<cases, pc, failed, files, session, mininet, proxy, controller, sender, first>>

\* The sender starts when every receiver has reported; without receivers the
\* tester does not know how to validate.
StartSender ==
  /\ pc = "receivers" /\ \A h \in Case.receivers : <<"started", h>> \in files
  /\ IF Case.receivers = {} THEN Raise
     ELSE /\ sender' = "sending" /\ pc' = "receive finished"
          /\ UNCHANGED <<cases, failed, files, session, mininet, proxy, controller, receiver, first>>

\* The outputs that are there when the first receiver has finished decide.
Verdict ==
  /\ pc = "verdict"
  /\ IF \E h \in Hosts : <<"output", h, "failed">> \in files THEN Raise ELSE Goto("validator")

Validate ==
  /\ pc = "validator"
  /\ \/ Goto(IF Case.controller = "ongoing" THEN "exit code 2" ELSE "passed")
     \/ Case.validator /\ Raise

\* What is awaited at a wait, and where it leads.
Waits == {"mininet", "proxy is ready", "controller is ready", "receive finished"}

Awaited ==
  \/ pc = "mininet" /\ (~Case.mininet \/ mininet = "up")
  \/ pc = "proxy is ready" /\ (~Case.proxy \/ proxy = "ready")
  \/ pc = "controller is ready" /\ (Case.controller = "none" \/ <<"ready">> \in files)
  \/ pc = "receive finished" /\ <<"finished">> \in files

Wait ==
  /\ Awaited
  /\ \/ pc = "mininet" /\ Goto("proxy")
     \/ pc = "proxy is ready" /\ Goto("controller")
     \/ pc = "controller is ready" /\ Goto("traffic")
     \/ pc = "receive finished" /\ Goto("verdict")

\* TimeoutError, or a session that cannot be created.
Timeout ==
  \/ pc \in Waits /\ ~Awaited /\ Raise
  \/ pc = "window" /\ session /\ Raise
  \/ pc = "receivers" /\ (\E h \in Case.receivers : receiver[h] # "off" /\ <<"started", h>> \notin files) /\ Raise

\* sigint_handler: SystemExit, through the same finally.  A second one while it
\* closes, which leaves everything as it is, is not modelled.
Interrupt == pc \notin {"close", "passed", "ended"} /\ Raise

Passed ==
  /\ pc = "passed"
  /\ files' = (IF Len(cases) > 1 THEN {} ELSE files)
  /\ pc' = "close"
  /\ UNCHANGED <<cases, failed, session, programs>>

AllOff ==
  /\ mininet' = "off" /\ proxy' = "off" /\ controller' = "off" /\ sender' = "off"
  /\ receiver' = [h \in Hosts |-> "off"] /\ first' = "none"

\* Bug: after an exception nothing is closed.
CloseIfPassed ==
  /\ pc = "close"
  /\ IF failed THEN UNCHANGED <<programs, session>> ELSE AllOff /\ session' = FALSE
  /\ cases' = (IF failed THEN cases ELSE Tail(cases))
  /\ pc' = IF failed \/ Len(cases) = 1 THEN "ended" ELSE "prepare"
  /\ UNCHANGED <<failed, files>>

\* close_everything_and_save_logs: with mininet back at its prompt everything is
\* stopped and the session killed.
Close ==
  /\ pc = "close" /\ mininet = "up" /\ session
  /\ AllOff /\ session' = FALSE
  /\ cases' = (IF failed THEN cases ELSE Tail(cases))
  /\ pc' = IF failed \/ Len(cases) = 1 THEN "ended" ELSE "prepare"
  /\ UNCHANGED <<failed, files>>

\* Without the prompt of mininet, which is not there if it was not started, the
\* closing times out, and the session stays.
CloseFails ==
  /\ pc = "close" /\ (mininet # "up" \/ ~session)
  /\ failed' = TRUE /\ pc' = "ended"
  /\ UNCHANGED <<cases, files, session, programs>>

\* The programs.  Each may take any time, or for ever.
MininetUp ==
  /\ mininet = "starting" /\ mininet' = "up"
  /\ UNCHANGED <<cases, pc, failed, files, session, proxy, controller, receiver, sender, first>>

ProxyReady ==
  /\ proxy = "starting" /\ proxy' = "ready"
  /\ UNCHANGED <<cases, pc, failed, files, session, mininet, controller, receiver, sender, first>>

ControllerReady ==
  /\ controller = "running" /\ Case.controller = "ongoing" /\ <<"ready">> \notin files
  /\ files' = files \cup {<<"ready">>}
  /\ UNCHANGED <<cases, pc, failed, session, programs>>

\* run_controller.sh notes the exit code.
ControllerExits ==
  /\ controller = "running"
  /\ \E code \in {"ok", "bad"} :
        controller' = code /\ files' = {f \in files : f[1] # "exit"} \cup {<<"exit", code>>}
  /\ UNCHANGED <<cases, pc, failed, session, mininet, proxy, receiver, sender, first>>

Receives(h, from, to) ==
  /\ receiver[h] = from /\ receiver' = [receiver EXCEPT ![h] = to]
  /\ UNCHANGED <<cases, pc, failed, session, mininet, proxy, controller, sender>>

\* PacketReceiver.__enter__: it sniffs, ...
Sniff(h) ==
  /\ Receives(h, "starting", "sniffing")
  /\ files' = files \cup {<<"started", h>>} /\ UNCHANGED first

\* ... until the sender has finished and no packet has come for a while; the
\* flag of the sender is removed.  Another receiver that has not seen the flag
\* sniffs on for ever.
Drain(h) ==
  /\ <<"sent">> \in files /\ Receives(h, "sniffing", "draining") /\ UNCHANGED <<files, first>>

Drained(h) ==
  /\ Receives(h, "draining", "comparing")
  /\ files' = files \ {<<"sent">>} /\ UNCHANGED first

\* The body of the with statement: the verdict is written, or an exception.
Compare(h) ==
  \/ \E v \in {"ok", "failed"} :
        Receives(h, "comparing", v) /\ files' = files \cup {<<"output", h, v>>} /\ UNCHANGED first
  \/ Receives(h, "comparing", "crashed") /\ UNCHANGED <<files, first>>

\* Bug: the flag is there before the output.
TouchEarly(h) ==
  /\ receiver[h] = "comparing" /\ <<"finished">> \notin files
  /\ files' = files \cup {<<"finished">>} /\ first' = h
  /\ UNCHANGED <<cases, pc, failed, session, mininet, proxy, controller, receiver, sender>>

\* PacketReceiver.__exit__
Touch(h) ==
  /\ receiver[h] \in {"ok", "failed", "crashed"} /\ <<"finished">> \notin files
  /\ files' = files \cup {<<"finished">>} /\ first' = h
  /\ UNCHANGED <<cases, pc, failed, session, mininet, proxy, controller, receiver, sender>>

Send ==
  /\ sender = "sending" /\ sender' = "done" /\ files' = files \cup {<<"sent">>}
  /\ UNCHANGED <<cases, pc, failed, session, mininet, proxy, controller, receiver, first>>

\* The folder may hold what an earlier run left.
Init ==
  /\ cases \in UNION {[1..n -> Descriptors] : n \in 1..MaxCases}
  /\ pc = "prepare" /\ failed = FALSE /\ session \in BOOLEAN
  /\ files \in {{}, {<<"ready">>, <<"exit", "ok">>, <<"finished">>}}
  /\ mininet = "off" /\ proxy = "off" /\ controller = "off" /\ sender = "off"
  /\ receiver = [h \in Hosts |-> "off"] /\ first = "none"

Tester ==
  \/ Prepare \/ CreateWindow \/ StartProxy \/ StartController \/ ExitCode \/ Traffic
  \/ StartSender \/ Verdict \/ Validate \/ Wait \/ Timeout \/ Passed \/ Close \/ CloseFails
  \/ \E h \in Hosts : StartReceiver(h)

Programs ==
  \/ MininetUp \/ ProxyReady \/ ControllerReady \/ ControllerExits \/ Send
  \/ \E h \in Hosts : Sniff(h) \/ Drain(h) \/ Drained(h) \/ Compare(h) \/ Touch(h)

Next == Tester \/ Programs \/ Interrupt

Spec == Init /\ [][Next]_vars /\ WF_vars(Tester)

\* A case that passes has a proxy that was ready, a controller that exited with
\* 0, and a receiver that finished and, if it could say, said that all is well.
PassMeansPassed ==
  pc = "passed" =>
    /\ Case.proxy => proxy = "ready"
    /\ Case.controller # "none" => controller = "ok"
    /\ Case.traffic = "packets" => first # "none" /\ receiver[first] \in {"ok", "crashed"}

\* No flag of an earlier case or an earlier run is taken for one of this case.
FreshFlags ==
  pc \notin {"prepare", "close", "ended"} =>
    /\ <<"ready">> \in files \/ (\E x \in files : x[1] = "exit") => controller # "off"
    /\ <<"finished">> \in files => \E h \in Case.receivers : receiver[h] \in {"ok", "failed", "crashed"}

\* However a case ends, failed, interrupted or passed: if mininet can still be
\* told to quit, neither it nor the session nor any program outlives the case.
NothingLeftRunning ==
  [][pc = "close" /\ pc' # "close" /\ mininet = "up" /\ session =>
       ~session' /\ {mininet', proxy', controller', sender'} \cup {receiver'[h] : h \in Hosts} = {"off"}]_vars

\* Whatever hangs, the run ends.
RunEnds == <>(pc = "ended")

\* A verdict is that of this case: no success without the good outcomes, no
\* outcome of another case.
VerdictTrue == PassMeansPassed /\ FreshFlags
=============================================================================
