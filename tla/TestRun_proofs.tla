--------------------------- MODULE TestRun_proofs ---------------------------
(***************************************************************************)
(* The tester, the simulator, the script that measures, the data plane     *)
(* that measures and Redis: each on its own, and for any number of cases,  *)
(* hosts, parameters, values, threads, tables and rows.                    *)
(***************************************************************************)
EXTENDS MCTestRun, CommunityLaws

\* The tester and the programs it starts.
Places == {"prepare", "window", "mininet", "proxy", "proxy is ready", "controller", "exit code 1",
           "controller is ready", "traffic", "receivers", "receive finished", "verdict", "validator",
           "exit code 2", "passed", "close", "ended"}
Running == pc \notin {"prepare", "close", "ended"}
Finished == {"ok", "failed", "crashed"}
Flags ==
  {<<"ready">>, <<"finished">>, <<"sent">>} \cup ({"exit"} \X {"ok", "bad"}) \cup ({"started"} \X Hosts)
    \cup ({"output"} \X Hosts \X {"ok", "failed"})

CasesTyped ==
  /\ pc \in Places /\ cases \in Seq(Descriptors) /\ (pc # "ended" => cases # <<>>)
  /\ files \subseteq Flags
  /\ DOMAIN receiver = Hosts

\* Before a case nothing of an earlier one runs, ...
Rested ==
  /\ pc \in {"prepare", "window"} =>
       proxy = "off" /\ controller = "off" /\ first = "none" /\ \A h \in Hosts : receiver[h] = "off"
  /\ pc \in {"mininet", "proxy", "proxy is ready", "controller"} => controller = "off"

\* ... so that each flag tells of a program of this case: the exit code is the
\* controller's, the first receiver is one of those asked for, and has finished, ...
OwnFlags ==
  Running =>
    /\ \A code \in {"ok", "bad"} : <<"exit", code>> \in files => controller = code
    /\ <<"ready">> \in files => controller # "off"
    /\ \A h \in Hosts : receiver[h] # "off" => h \in T!Case.receivers
    /\ \A h \in Hosts : receiver[h] = "failed" => <<"output", h, "failed">> \in files
    /\ <<"finished">> \in files => first \in Hosts /\ receiver[first] \in Finished

\* ... and what the tester has seen of them stays as it was.
Witnessed ==
  /\ pc \in {"controller", "exit code 1", "controller is ready", "traffic", "receivers", "receive finished",
             "verdict", "validator", "exit code 2", "passed"} => (T!Case.proxy => proxy = "ready")
  /\ pc \in {"traffic", "receivers", "receive finished", "verdict", "validator", "exit code 2", "passed"} =>
       (T!Case.controller = "once" => controller = "ok")
  /\ pc = "controller is ready" => T!Case.controller # "once"
  /\ pc = "passed" => (T!Case.controller = "ongoing" => controller = "ok")
  /\ pc = "verdict" => <<"finished">> \in files
  /\ pc \in {"validator", "exit code 2", "passed"} =>
       (T!Case.traffic = "packets" =>
          <<"finished">> \in files /\ first \in Hosts /\ receiver[first] \in {"ok", "crashed"})

TestsInv == CasesTyped /\ Rested /\ OwnFlags /\ Witnessed
-----------------------------------------------------------------------------
LEMMA CaseAsked ==
  ASSUME CasesTyped, pc # "ended"
  PROVE  /\ T!Case \in Descriptors /\ T!Case.controller \in {"none", "once", "ongoing"}
         /\ T!Case.receivers \subseteq Hosts
<1>1. cases \in Seq(Descriptors) /\ cases # <<>>
  BY DEF CasesTyped
<1>2. Head(cases) \in Descriptors
  BY <1>1, HeadTailProperties
<1> QED BY <1>2, TestsAssumption DEF TestsAssumption, T!Case

LEMMA FlagsOf ==
  ASSUME NEW h \in Hosts
  PROVE  \A v \in {"ok", "failed"} : <<"started", h>> \in Flags /\ <<"output", h, v>> \in Flags
BY DEF Flags

LEMMA ExitFlags == \A code \in {"ok", "bad"} : <<"exit", code>> \in Flags
BY DEF Flags

LEMMA TestsInit == T!Init => TestsInv
<1> SUFFICES ASSUME T!Init PROVE TestsInv
  OBVIOUS
<1>1. cases \in Seq(Descriptors) /\ cases # <<>>
  <2>1. PICK n \in 1..MaxCases : cases \in [1..n -> Descriptors]
    BY DEF T!Init
  <2> QED BY <2>1
<1>2. CasesTyped
  BY <1>1 DEF T!Init, CasesTyped, Flags, Places
<1> QED BY <1>2 DEF T!Init, TestsInv, Rested, OwnFlags, Witnessed, Running

LEMMA PrepareKeeps == ASSUME TestsInv, T!Prepare PROVE TestsInv'
<1>1. CasesTyped /\ Rested /\ OwnFlags /\ Witnessed
  BY DEF TestsInv
<1>2. CasesTyped'
  BY <1>1, CaseAsked DEF T!Prepare, T!Goto, T!Raise, T!programs, T!Case, CasesTyped, Places, Flags
<1>3. Rested'
  BY <1>1 DEF T!Prepare, T!Goto, T!Raise, T!programs, T!Case, Rested, CasesTyped
<1>4. OwnFlags'
  BY <1>1, CaseAsked DEF T!Prepare, T!Goto, T!Raise, T!programs, T!Case, Rested, OwnFlags, CasesTyped, Running, Finished
<1>5. Witnessed'
  BY <1>1, CaseAsked DEF T!Prepare, T!Goto, T!Raise, T!programs, T!Case, CasesTyped, OwnFlags, Witnessed, Running, Finished
<1> QED BY <1>2, <1>3, <1>4, <1>5 DEF TestsInv


LEMMA CreateWindowKeeps == ASSUME TestsInv, T!CreateWindow PROVE TestsInv'
<1>1. CasesTyped /\ Rested /\ OwnFlags /\ Witnessed
  BY DEF TestsInv
<1>2. CasesTyped'
  BY <1>1, CaseAsked DEF T!CreateWindow, T!Goto, T!Raise, T!programs, T!Case, CasesTyped, Places, Flags
<1>3. Rested'
  BY <1>1 DEF T!CreateWindow, T!Goto, T!Raise, T!programs, T!Case, Rested, CasesTyped
<1>4. OwnFlags'
  BY <1>1, CaseAsked DEF T!CreateWindow, T!Goto, T!Raise, T!programs, T!Case, Rested, OwnFlags, CasesTyped, Running, Finished
<1>5. Witnessed'
  BY <1>1, CaseAsked DEF T!CreateWindow, T!Goto, T!Raise, T!programs, T!Case, CasesTyped, OwnFlags, Witnessed, Running, Finished
<1> QED BY <1>2, <1>3, <1>4, <1>5 DEF TestsInv


LEMMA StartProxyKeeps == ASSUME TestsInv, T!StartProxy PROVE TestsInv'
<1>1. CasesTyped /\ Rested /\ OwnFlags /\ Witnessed
  BY DEF TestsInv
<1>2. CasesTyped'
  BY <1>1, CaseAsked DEF T!StartProxy, T!Goto, T!Raise, T!programs, T!Case, CasesTyped, Places, Flags
<1>3. Rested'
  BY <1>1 DEF T!StartProxy, T!Goto, T!Raise, T!programs, T!Case, Rested, CasesTyped
<1>4. OwnFlags'
  BY <1>1, CaseAsked DEF T!StartProxy, T!Goto, T!Raise, T!programs, T!Case, Rested, OwnFlags, CasesTyped, Running, Finished
<1>5. Witnessed'
  BY <1>1, CaseAsked DEF T!StartProxy, T!Goto, T!Raise, T!programs, T!Case, CasesTyped, OwnFlags, Witnessed, Running, Finished
<1> QED BY <1>2, <1>3, <1>4, <1>5 DEF TestsInv


LEMMA StartControllerKeeps == ASSUME TestsInv, T!StartController PROVE TestsInv'
<1>1. CasesTyped /\ Rested /\ OwnFlags /\ Witnessed
  BY DEF TestsInv
<1>2. CasesTyped'
  BY <1>1, CaseAsked DEF T!StartController, T!Goto, T!Raise, T!programs, T!Case, CasesTyped, Places, Flags
<1>3. Rested'
  BY <1>1 DEF T!StartController, T!Goto, T!Raise, T!programs, T!Case, Rested, CasesTyped
<1>4. OwnFlags'
  BY <1>1, CaseAsked DEF T!StartController, T!Goto, T!Raise, T!programs, T!Case, Rested, OwnFlags, CasesTyped, Running, Finished
<1>5. Witnessed'
  BY <1>1, CaseAsked DEF T!StartController, T!Goto, T!Raise, T!programs, T!Case, CasesTyped, OwnFlags, Witnessed, Running, Finished
<1> QED BY <1>2, <1>3, <1>4, <1>5 DEF TestsInv


LEMMA ExitCodeKeeps == ASSUME TestsInv, T!ExitCode PROVE TestsInv'
<1>1. CasesTyped /\ Rested /\ OwnFlags /\ Witnessed
  BY DEF TestsInv
<1>2. CasesTyped'
  BY <1>1, CaseAsked DEF T!ExitCode, T!Goto, T!Raise, T!programs, T!Case, CasesTyped, Places, Flags
<1>3. Rested'
  BY <1>1 DEF T!ExitCode, T!Goto, T!Raise, T!programs, T!Case, Rested, CasesTyped
<1>4. OwnFlags'
  BY <1>1, CaseAsked DEF T!ExitCode, T!Goto, T!Raise, T!programs, T!Case, Rested, OwnFlags, CasesTyped, Running, Finished
<1>5. Witnessed'
  BY <1>1, CaseAsked DEF T!ExitCode, T!Goto, T!Raise, T!programs, T!Case, CasesTyped, OwnFlags, Witnessed, Running, Finished
<1> QED BY <1>2, <1>3, <1>4, <1>5 DEF TestsInv


LEMMA TrafficKeeps == ASSUME TestsInv, T!Traffic PROVE TestsInv'
<1>1. CasesTyped /\ Rested /\ OwnFlags /\ Witnessed
  BY DEF TestsInv
<1>2. CasesTyped'
  BY <1>1, CaseAsked DEF T!Traffic, T!Goto, T!Raise, T!programs, T!Case, CasesTyped, Places, Flags
<1>3. Rested'
  BY <1>1 DEF T!Traffic, T!Goto, T!Raise, T!programs, T!Case, Rested, CasesTyped
<1>4. OwnFlags'
  BY <1>1, CaseAsked DEF T!Traffic, T!Goto, T!Raise, T!programs, T!Case, Rested, OwnFlags, CasesTyped, Running, Finished
<1>5. Witnessed'
  BY <1>1, CaseAsked DEF T!Traffic, T!Goto, T!Raise, T!programs, T!Case, CasesTyped, OwnFlags, Witnessed, Running, Finished
<1> QED BY <1>2, <1>3, <1>4, <1>5 DEF TestsInv


LEMMA StartSenderKeeps == ASSUME TestsInv, T!StartSender PROVE TestsInv'
<1>1. CasesTyped /\ Rested /\ OwnFlags /\ Witnessed
  BY DEF TestsInv
<1>2. CasesTyped'
  BY <1>1, CaseAsked DEF T!StartSender, T!Goto, T!Raise, T!programs, T!Case, CasesTyped, Places, Flags
<1>3. Rested'
  BY <1>1 DEF T!StartSender, T!Goto, T!Raise, T!programs, T!Case, Rested, CasesTyped
<1>4. OwnFlags'
  BY <1>1, CaseAsked DEF T!StartSender, T!Goto, T!Raise, T!programs, T!Case, Rested, OwnFlags, CasesTyped, Running, Finished
<1>5. Witnessed'
  BY <1>1, CaseAsked DEF T!StartSender, T!Goto, T!Raise, T!programs, T!Case, CasesTyped, OwnFlags, Witnessed, Running, Finished
<1> QED BY <1>2, <1>3, <1>4, <1>5 DEF TestsInv


LEMMA VerdictKeeps == ASSUME TestsInv, T!Verdict PROVE TestsInv'
<1>1. CasesTyped /\ Rested /\ OwnFlags /\ Witnessed
  BY DEF TestsInv
<1>2. CasesTyped'
  BY <1>1, CaseAsked DEF T!Verdict, T!Goto, T!Raise, T!programs, T!Case, CasesTyped, Places, Flags
<1>3. Rested'
  BY <1>1 DEF T!Verdict, T!Goto, T!Raise, T!programs, T!Case, Rested, CasesTyped
<1>4. OwnFlags'
  BY <1>1, CaseAsked DEF T!Verdict, T!Goto, T!Raise, T!programs, T!Case, Rested, OwnFlags, CasesTyped, Running, Finished
<1>5. Witnessed'
  BY <1>1, CaseAsked DEF T!Verdict, T!Goto, T!Raise, T!programs, T!Case, CasesTyped, OwnFlags, Witnessed, Running, Finished
<1> QED BY <1>2, <1>3, <1>4, <1>5 DEF TestsInv


LEMMA ValidateKeeps == ASSUME TestsInv, T!Validate PROVE TestsInv'
<1>1. CasesTyped /\ Rested /\ OwnFlags /\ Witnessed
  BY DEF TestsInv
<1>2. CasesTyped'
  BY <1>1, CaseAsked DEF T!Validate, T!Goto, T!Raise, T!programs, T!Case, CasesTyped, Places, Flags
<1>3. Rested'
  BY <1>1 DEF T!Validate, T!Goto, T!Raise, T!programs, T!Case, Rested, CasesTyped
<1>4. OwnFlags'
  BY <1>1, CaseAsked DEF T!Validate, T!Goto, T!Raise, T!programs, T!Case, Rested, OwnFlags, CasesTyped, Running, Finished
<1>5. Witnessed'
  BY <1>1, CaseAsked DEF T!Validate, T!Goto, T!Raise, T!programs, T!Case, CasesTyped, OwnFlags, Witnessed, Running, Finished
<1> QED BY <1>2, <1>3, <1>4, <1>5 DEF TestsInv


LEMMA WaitKeeps == ASSUME TestsInv, T!Wait PROVE TestsInv'
<1>1. CasesTyped /\ Rested /\ OwnFlags /\ Witnessed
  BY DEF TestsInv
<1>2. CasesTyped'
  BY <1>1, CaseAsked DEF T!Wait, T!Awaited, T!Waits, T!Goto, T!Raise, T!programs, T!Case, CasesTyped, Places, Flags
<1>3. Rested'
  BY <1>1 DEF T!Wait, T!Awaited, T!Waits, T!Goto, T!Raise, T!programs, T!Case, Rested, CasesTyped
<1>4. OwnFlags'
  BY <1>1, CaseAsked DEF T!Wait, T!Awaited, T!Waits, T!Goto, T!Raise, T!programs, T!Case, Rested, OwnFlags, CasesTyped, Running, Finished
<1>5. Witnessed'
  <2>1. pc \in Places /\ UNCHANGED <<cases, files, proxy, controller, receiver, first>>
    BY <1>1 DEF T!Wait, T!Goto, T!programs, CasesTyped
  <2>2. \/ pc = "mininet" /\ pc' = "proxy"
        \/ pc = "proxy is ready" /\ (~T!Case.proxy \/ proxy = "ready") /\ pc' = "controller"
        \/ pc = "controller is ready" /\ pc' = "traffic"
        \/ pc = "receive finished" /\ <<"finished">> \in files /\ pc' = "verdict"
    BY <2>1 DEF T!Wait, T!Awaited, T!Goto
  <2> QED BY <1>1, <2>1, <2>2 DEF Witnessed, T!Case
<1> QED BY <1>2, <1>3, <1>4, <1>5 DEF TestsInv


LEMMA TimeoutKeeps == ASSUME TestsInv, T!Timeout PROVE TestsInv'
<1>1. CasesTyped /\ Rested /\ OwnFlags /\ Witnessed
  BY DEF TestsInv
<1>2. CasesTyped'
  BY <1>1, CaseAsked DEF T!Timeout, T!Awaited, T!Waits, T!Goto, T!Raise, T!programs, T!Case, CasesTyped, Places, Flags
<1>3. Rested'
  BY <1>1 DEF T!Timeout, T!Awaited, T!Waits, T!Goto, T!Raise, T!programs, T!Case, Rested, CasesTyped
<1>4. OwnFlags'
  BY <1>1, CaseAsked DEF T!Timeout, T!Awaited, T!Waits, T!Goto, T!Raise, T!programs, T!Case, Rested, OwnFlags, CasesTyped, Running, Finished
<1>5. Witnessed'
  BY <1>1, CaseAsked DEF T!Timeout, T!Awaited, T!Waits, T!Goto, T!Raise, T!programs, T!Case, CasesTyped, OwnFlags, Witnessed, Running, Finished
<1> QED BY <1>2, <1>3, <1>4, <1>5 DEF TestsInv


LEMMA InterruptKeeps == ASSUME TestsInv, T!Interrupt PROVE TestsInv'
<1>1. CasesTyped /\ Rested /\ OwnFlags /\ Witnessed
  BY DEF TestsInv
<1>2. CasesTyped'
  BY <1>1, CaseAsked DEF T!Interrupt, T!Goto, T!Raise, T!programs, T!Case, CasesTyped, Places, Flags
<1>3. Rested'
  BY <1>1 DEF T!Interrupt, T!Goto, T!Raise, T!programs, T!Case, Rested, CasesTyped
<1>4. OwnFlags'
  BY <1>1, CaseAsked DEF T!Interrupt, T!Goto, T!Raise, T!programs, T!Case, Rested, OwnFlags, CasesTyped, Running, Finished
<1>5. Witnessed'
  BY <1>1, CaseAsked DEF T!Interrupt, T!Goto, T!Raise, T!programs, T!Case, CasesTyped, OwnFlags, Witnessed, Running, Finished
<1> QED BY <1>2, <1>3, <1>4, <1>5 DEF TestsInv


LEMMA PassedKeeps == ASSUME TestsInv, T!Passed PROVE TestsInv'
<1>1. CasesTyped /\ Rested /\ OwnFlags /\ Witnessed
  BY DEF TestsInv
<1>2. CasesTyped'
  BY <1>1, CaseAsked DEF T!Passed, T!Goto, T!Raise, T!programs, T!Case, CasesTyped, Places, Flags
<1>3. Rested'
  BY <1>1 DEF T!Passed, T!Goto, T!Raise, T!programs, T!Case, Rested, CasesTyped
<1>4. OwnFlags'
  BY <1>1, CaseAsked DEF T!Passed, T!Goto, T!Raise, T!programs, T!Case, Rested, OwnFlags, CasesTyped, Running, Finished
<1>5. Witnessed'
  BY <1>1, CaseAsked DEF T!Passed, T!Goto, T!Raise, T!programs, T!Case, CasesTyped, OwnFlags, Witnessed, Running, Finished
<1> QED BY <1>2, <1>3, <1>4, <1>5 DEF TestsInv


LEMMA CloseKeeps == ASSUME TestsInv, T!Close PROVE TestsInv'
<1>1. CasesTyped /\ Rested /\ OwnFlags /\ Witnessed
  BY DEF TestsInv
<1>2. CasesTyped'
  <2>1. cases \in Seq(Descriptors) /\ cases # <<>>
    BY <1>1 DEF CasesTyped, T!Close
  <2>2. Tail(cases) \in Seq(Descriptors) /\ Len(Tail(cases)) = Len(cases) - 1 /\ Len(cases) \in Nat
    BY <2>1, HeadTailProperties, LenProperties
  <2>3. Len(cases) # 1 => Tail(cases) # <<>>
    <3> DEFINE rest == Tail(cases)
    <3>1. rest = <<>> => Len(rest) = 0
      BY EmptySeq
    <3> HIDE DEF rest
    <3>2. Len(rest) = Len(cases) - 1
      BY <2>2 DEF rest
    <3> QED BY <2>2, <3>1, <3>2 DEF rest
  <2>4. cases' \in Seq(Descriptors) /\ (pc' # "ended" => cases' # <<>>) /\ pc' \in {"ended", "prepare"}
    BY <2>1, <2>2, <2>3 DEF T!Close
  <2> QED BY <1>1, <2>4 DEF T!Close, T!AllOff, CasesTyped, Places
<1>3. Rested'
  BY <1>1 DEF T!Close, T!AllOff, T!Goto, T!Raise, T!programs, T!Case, Rested, CasesTyped
<1>4. OwnFlags'
  BY <1>1, CaseAsked DEF T!Close, T!AllOff, T!Goto, T!Raise, T!programs, T!Case, Rested, OwnFlags, CasesTyped, Running, Finished
<1>5. Witnessed'
  BY <1>1, CaseAsked DEF T!Close, T!AllOff, T!Goto, T!Raise, T!programs, T!Case, CasesTyped, OwnFlags, Witnessed, Running, Finished
<1> QED BY <1>2, <1>3, <1>4, <1>5 DEF TestsInv


LEMMA CloseFailsKeeps == ASSUME TestsInv, T!CloseFails PROVE TestsInv'
<1>1. CasesTyped /\ Rested /\ OwnFlags /\ Witnessed
  BY DEF TestsInv
<1>2. CasesTyped'
  BY <1>1, CaseAsked DEF T!CloseFails, T!Goto, T!Raise, T!programs, T!Case, CasesTyped, Places, Flags
<1>3. Rested'
  BY <1>1 DEF T!CloseFails, T!Goto, T!Raise, T!programs, T!Case, Rested, CasesTyped
<1>4. OwnFlags'
  BY <1>1, CaseAsked DEF T!CloseFails, T!Goto, T!Raise, T!programs, T!Case, Rested, OwnFlags, CasesTyped, Running, Finished
<1>5. Witnessed'
  BY <1>1, CaseAsked DEF T!CloseFails, T!Goto, T!Raise, T!programs, T!Case, CasesTyped, OwnFlags, Witnessed, Running, Finished
<1> QED BY <1>2, <1>3, <1>4, <1>5 DEF TestsInv


LEMMA MininetUpKeeps == ASSUME TestsInv, T!MininetUp PROVE TestsInv'
<1>1. CasesTyped /\ Rested /\ OwnFlags /\ Witnessed
  BY DEF TestsInv
<1>2. CasesTyped'
  BY <1>1, CaseAsked DEF T!MininetUp, T!Case, CasesTyped, Places, Flags
<1>3. Rested'
  BY <1>1 DEF T!MininetUp, T!Case, Rested, CasesTyped
<1>4. OwnFlags'
  BY <1>1, CaseAsked DEF T!MininetUp, T!Case, Rested, OwnFlags, CasesTyped, Running, Finished
<1>5. Witnessed'
  BY <1>1, CaseAsked DEF T!MininetUp, T!Case, CasesTyped, OwnFlags, Witnessed, Running, Finished
<1> QED BY <1>2, <1>3, <1>4, <1>5 DEF TestsInv


LEMMA ProxyReadyKeeps == ASSUME TestsInv, T!ProxyReady PROVE TestsInv'
<1>1. CasesTyped /\ Rested /\ OwnFlags /\ Witnessed
  BY DEF TestsInv
<1>2. CasesTyped'
  BY <1>1, CaseAsked DEF T!ProxyReady, T!Case, CasesTyped, Places, Flags
<1>3. Rested'
  BY <1>1 DEF T!ProxyReady, T!Case, Rested, CasesTyped
<1>4. OwnFlags'
  BY <1>1, CaseAsked DEF T!ProxyReady, T!Case, Rested, OwnFlags, CasesTyped, Running, Finished
<1>5. Witnessed'
  BY <1>1, CaseAsked DEF T!ProxyReady, T!Case, CasesTyped, OwnFlags, Witnessed, Running, Finished
<1> QED BY <1>2, <1>3, <1>4, <1>5 DEF TestsInv


LEMMA ControllerReadyKeeps == ASSUME TestsInv, T!ControllerReady PROVE TestsInv'
<1>1. CasesTyped /\ Rested /\ OwnFlags /\ Witnessed
  BY DEF TestsInv
<1>2. CasesTyped'
  BY <1>1, CaseAsked DEF T!ControllerReady, T!Goto, T!Raise, T!programs, T!Case, CasesTyped, Places, Flags
<1>3. Rested'
  BY <1>1 DEF T!ControllerReady, T!Goto, T!Raise, T!programs, T!Case, Rested, CasesTyped
<1>4. OwnFlags'
  BY <1>1, CaseAsked DEF T!ControllerReady, T!Goto, T!Raise, T!programs, T!Case, Rested, OwnFlags, CasesTyped, Running, Finished
<1>5. Witnessed'
  BY <1>1, CaseAsked DEF T!ControllerReady, T!Goto, T!Raise, T!programs, T!Case, CasesTyped, OwnFlags, Witnessed, Running, Finished
<1> QED BY <1>2, <1>3, <1>4, <1>5 DEF TestsInv


LEMMA ControllerExitsKeeps == ASSUME TestsInv, T!ControllerExits PROVE TestsInv'
<1>1. CasesTyped /\ Rested /\ OwnFlags /\ Witnessed
  BY DEF TestsInv
<1>2. CasesTyped'
  <2>1. files' \subseteq Flags
    BY <1>1, ExitFlags DEF T!ControllerExits, CasesTyped
  <2> QED BY <1>1, <2>1 DEF T!ControllerExits, CasesTyped
<1>3. Rested'
  BY <1>1 DEF T!ControllerExits, T!Case, Rested, CasesTyped
<1>4. OwnFlags'
  BY <1>1, CaseAsked DEF T!ControllerExits, T!Case, Rested, OwnFlags, CasesTyped, Running, Finished
<1>5. Witnessed'
  BY <1>1, CaseAsked DEF T!ControllerExits, T!Case, CasesTyped, OwnFlags, Witnessed, Running, Finished
<1> QED BY <1>2, <1>3, <1>4, <1>5 DEF TestsInv


LEMMA SendKeeps == ASSUME TestsInv, T!Send PROVE TestsInv'
<1>1. CasesTyped /\ Rested /\ OwnFlags /\ Witnessed
  BY DEF TestsInv
<1>2. CasesTyped'
  BY <1>1, CaseAsked DEF T!Send, T!Case, CasesTyped, Places, Flags
<1>3. Rested'
  BY <1>1 DEF T!Send, T!Case, Rested, CasesTyped
<1>4. OwnFlags'
  BY <1>1, CaseAsked DEF T!Send, T!Case, Rested, OwnFlags, CasesTyped, Running, Finished
<1>5. Witnessed'
  BY <1>1, CaseAsked DEF T!Send, T!Case, CasesTyped, OwnFlags, Witnessed, Running, Finished
<1> QED BY <1>2, <1>3, <1>4, <1>5 DEF TestsInv


LEMMA StartReceiverKeeps == ASSUME TestsInv, NEW h \in Hosts, T!StartReceiver(h) PROVE TestsInv'
<1>1. CasesTyped /\ Rested /\ OwnFlags /\ Witnessed
  BY DEF TestsInv
<1>2. CasesTyped'
  BY <1>1, CaseAsked DEF T!StartReceiver, T!Case, CasesTyped, Places, Flags
<1>3. Rested'
  BY <1>1 DEF T!StartReceiver, T!Case, Rested, CasesTyped
<1>4. OwnFlags'
  BY <1>1, CaseAsked DEF T!StartReceiver, T!Case, Rested, OwnFlags, CasesTyped, Running, Finished
<1>5. Witnessed'
  BY <1>1, CaseAsked DEF T!StartReceiver, T!Case, CasesTyped, OwnFlags, Witnessed, Running, Finished
<1> QED BY <1>2, <1>3, <1>4, <1>5 DEF TestsInv


LEMMA SniffKeeps == ASSUME TestsInv, NEW h \in Hosts, T!Sniff(h) PROVE TestsInv'
<1>1. CasesTyped /\ Rested /\ OwnFlags /\ Witnessed
  BY DEF TestsInv
<1>2. CasesTyped'
  <2>1. files' \subseteq Flags
    BY <1>1, FlagsOf DEF T!Sniff, T!Receives, CasesTyped
  <2> QED BY <1>1, <2>1 DEF T!Sniff, T!Receives, CasesTyped
<1>3. Rested'
  BY <1>1 DEF T!Sniff, T!Receives, T!Case, Rested, CasesTyped
<1>4. OwnFlags'
  BY <1>1, CaseAsked DEF T!Sniff, T!Receives, T!Case, Rested, OwnFlags, CasesTyped, Running, Finished
<1>5. Witnessed'
  BY <1>1, CaseAsked DEF T!Sniff, T!Receives, T!Case, CasesTyped, OwnFlags, Witnessed, Running, Finished
<1> QED BY <1>2, <1>3, <1>4, <1>5 DEF TestsInv


LEMMA DrainKeeps == ASSUME TestsInv, NEW h \in Hosts, T!Drain(h) PROVE TestsInv'
<1>1. CasesTyped /\ Rested /\ OwnFlags /\ Witnessed
  BY DEF TestsInv
<1>2. CasesTyped'
  BY <1>1, CaseAsked DEF T!Drain, T!Receives, T!Case, CasesTyped, Places, Flags
<1>3. Rested'
  BY <1>1 DEF T!Drain, T!Receives, T!Case, Rested, CasesTyped
<1>4. OwnFlags'
  BY <1>1, CaseAsked DEF T!Drain, T!Receives, T!Case, Rested, OwnFlags, CasesTyped, Running, Finished
<1>5. Witnessed'
  BY <1>1, CaseAsked DEF T!Drain, T!Receives, T!Case, CasesTyped, OwnFlags, Witnessed, Running, Finished
<1> QED BY <1>2, <1>3, <1>4, <1>5 DEF TestsInv


LEMMA DrainedKeeps == ASSUME TestsInv, NEW h \in Hosts, T!Drained(h) PROVE TestsInv'
<1>1. CasesTyped /\ Rested /\ OwnFlags /\ Witnessed
  BY DEF TestsInv
<1>2. CasesTyped'
  BY <1>1, CaseAsked DEF T!Drained, T!Receives, T!Case, CasesTyped, Places, Flags
<1>3. Rested'
  BY <1>1 DEF T!Drained, T!Receives, T!Case, Rested, CasesTyped
<1>4. OwnFlags'
  BY <1>1, CaseAsked DEF T!Drained, T!Receives, T!Case, Rested, OwnFlags, CasesTyped, Running, Finished
<1>5. Witnessed'
  BY <1>1, CaseAsked DEF T!Drained, T!Receives, T!Case, CasesTyped, OwnFlags, Witnessed, Running, Finished
<1> QED BY <1>2, <1>3, <1>4, <1>5 DEF TestsInv


LEMMA CompareKeeps == ASSUME TestsInv, NEW h \in Hosts, T!Compare(h) PROVE TestsInv'
<1>1. CasesTyped /\ Rested /\ OwnFlags /\ Witnessed
  BY DEF TestsInv
<1>2. CasesTyped'
  <2>1. files' \subseteq Flags
    <3>1. files \subseteq Flags
      BY <1>1 DEF CasesTyped
    <3>2. files' = files \/ \E v \in {"ok", "failed"} : files' = files \cup {<<"output", h, v>>}
      BY DEF T!Compare
    <3>3. \A v \in {"ok", "failed"} : {<<"output", h, v>>} \subseteq Flags
      BY FlagsOf
    <3> QED BY <3>1, <3>2, <3>3
  <2> QED BY <1>1, <2>1 DEF T!Compare, T!Receives, CasesTyped
<1>3. Rested'
  BY <1>1 DEF T!Compare, T!Receives, T!Case, Rested, CasesTyped
<1>4. OwnFlags'
  <2>1. UNCHANGED <<cases, pc, controller, first>>
    BY DEF T!Compare, T!Receives
  <2>2. PICK v \in {"ok", "failed", "crashed"} :
          /\ receiver[h] = "comparing" /\ receiver' = [receiver EXCEPT ![h] = v]
          /\ files' = IF v = "crashed" THEN files ELSE files \cup {<<"output", h, v>>}
    BY DEF T!Compare, T!Receives
  <2>3. \A code \in {"ok", "bad"} : <<"exit", code>> \in files' <=> <<"exit", code>> \in files
    BY <2>2
  <2>4. /\ <<"ready">> \in files' <=> <<"ready">> \in files
        /\ <<"finished">> \in files' <=> <<"finished">> \in files
    BY <2>2
  <2>5. DOMAIN receiver = Hosts
    BY <1>1 DEF CasesTyped
  <2> SUFFICES ASSUME Running PROVE OwnFlags'
    BY <2>1 DEF OwnFlags, Running
  <2>6. \A g \in Hosts : receiver'[g] = "failed" => <<"output", g, "failed">> \in files'
    BY <1>1, <2>2, <2>5 DEF OwnFlags
  <2>7. \A g \in Hosts : receiver'[g] # "off" => g \in T!Case.receivers
    BY <1>1, <2>2, <2>5 DEF OwnFlags
  <2>8. <<"finished">> \in files' => first \in Hosts /\ receiver'[first] \in Finished
    BY <1>1, <2>2, <2>4, <2>5 DEF OwnFlags, Finished
  <2> QED BY <1>1, <2>1, <2>3, <2>4, <2>6, <2>7, <2>8 DEF OwnFlags, T!Case
<1>5. Witnessed'
  BY <1>1, CaseAsked DEF T!Compare, T!Receives, T!Case, CasesTyped, OwnFlags, Witnessed, Running, Finished
<1> QED BY <1>2, <1>3, <1>4, <1>5 DEF TestsInv


LEMMA TouchKeeps == ASSUME TestsInv, NEW h \in Hosts, T!Touch(h) PROVE TestsInv'
<1>1. CasesTyped /\ Rested /\ OwnFlags /\ Witnessed
  BY DEF TestsInv
<1>2. CasesTyped'
  BY <1>1, CaseAsked DEF T!Touch, T!Case, CasesTyped, Places, Flags
<1>3. Rested'
  BY <1>1 DEF T!Touch, T!Case, Rested, CasesTyped
<1>4. OwnFlags'
  BY <1>1, CaseAsked DEF T!Touch, T!Case, Rested, OwnFlags, CasesTyped, Running, Finished
<1>5. Witnessed'
  BY <1>1, CaseAsked DEF T!Touch, T!Case, CasesTyped, OwnFlags, Witnessed, Running, Finished
<1> QED BY <1>2, <1>3, <1>4, <1>5 DEF TestsInv


\* Whatever the programs do and wherever the tester is interrupted, the flags it
\* looks at are those of this case.
THEOREM TestsInductive == T!Spec => []TestsInv
<1>1. TestsInv /\ [T!Next]_T!vars => TestsInv'
  <2> SUFFICES ASSUME TestsInv, [T!Next]_T!vars PROVE TestsInv'
    OBVIOUS
  <2>1. CASE T!Prepare
    BY <2>1, PrepareKeeps
  <2>2. CASE T!CreateWindow
    BY <2>2, CreateWindowKeeps
  <2>3. CASE T!StartProxy
    BY <2>3, StartProxyKeeps
  <2>4. CASE T!StartController
    BY <2>4, StartControllerKeeps
  <2>5. CASE T!ExitCode
    BY <2>5, ExitCodeKeeps
  <2>6. CASE T!Traffic
    BY <2>6, TrafficKeeps
  <2>7. CASE T!StartSender
    BY <2>7, StartSenderKeeps
  <2>8. CASE T!Verdict
    BY <2>8, VerdictKeeps
  <2>9. CASE T!Validate
    BY <2>9, ValidateKeeps
  <2>10. CASE T!Wait
    BY <2>10, WaitKeeps
  <2>11. CASE T!Timeout
    BY <2>11, TimeoutKeeps
  <2>12. CASE T!Interrupt
    BY <2>12, InterruptKeeps
  <2>13. CASE T!Passed
    BY <2>13, PassedKeeps
  <2>14. CASE T!Close
    BY <2>14, CloseKeeps
  <2>15. CASE T!CloseFails
    BY <2>15, CloseFailsKeeps
  <2>16. CASE T!MininetUp
    BY <2>16, MininetUpKeeps
  <2>17. CASE T!ProxyReady
    BY <2>17, ProxyReadyKeeps
  <2>18. CASE T!ControllerReady
    BY <2>18, ControllerReadyKeeps
  <2>19. CASE T!ControllerExits
    BY <2>19, ControllerExitsKeeps
  <2>20. CASE T!Send
    BY <2>20, SendKeeps
  <2>21. CASE \E h \in Hosts : T!StartReceiver(h)
    BY <2>21, StartReceiverKeeps
  <2>22. CASE \E h \in Hosts : T!Sniff(h)
    BY <2>22, SniffKeeps
  <2>23. CASE \E h \in Hosts : T!Drain(h)
    BY <2>23, DrainKeeps
  <2>24. CASE \E h \in Hosts : T!Drained(h)
    BY <2>24, DrainedKeeps
  <2>25. CASE \E h \in Hosts : T!Compare(h)
    BY <2>25, CompareKeeps
  <2>26. CASE \E h \in Hosts : T!Touch(h)
    BY <2>26, TouchKeeps
  <2>27. CASE UNCHANGED T!vars
    BY <2>27 DEF T!vars, TestsInv, CasesTyped, Rested, OwnFlags, Witnessed, Running, T!Case
  <2> QED BY <2>1, <2>2, <2>3, <2>4, <2>5, <2>6, <2>7, <2>8, <2>9, <2>10, <2>11, <2>12, <2>13, <2>14, <2>15, <2>16, <2>17, <2>18, <2>19, <2>20, <2>21, <2>22, <2>23, <2>24, <2>25, <2>26, <2>27 DEF T!Next, T!Tester, T!Programs
<1> QED BY <1>1, TestsInit, PTL DEF T!Spec

\* A case that passes has a proxy that was ready, a controller that ended well and
\* a receiver whose verdict was not bad, and no flag of another case was taken for
\* one of its own (run_test_cases of tester.py).
THEOREM VerdictsAreTrue == T!Spec => []VerdictTrue
<1>1. TestsInv => T!PassMeansPassed
  <2> SUFFICES ASSUME TestsInv, pc = "passed" PROVE T!PassMeansPassed
    BY DEF T!PassMeansPassed
  <2>1. T!Case.controller \in {"none", "once", "ongoing"}
    BY CaseAsked DEF TestsInv
  <2>2. first \in Hosts => first # "none"
    BY TestsAssumption DEF TestsAssumption
  <2> QED BY <2>1, <2>2 DEF TestsInv, Witnessed, T!PassMeansPassed
<1>2. TestsInv => T!FreshFlags
  <2> SUFFICES ASSUME TestsInv, Running PROVE T!FreshFlags
    BY DEF T!FreshFlags, Running
  <2>1. (\E x \in files : x[1] = "exit") => controller # "off"
    <3> SUFFICES ASSUME NEW x \in files, x[1] = "exit" PROVE controller # "off"
      OBVIOUS
    <3>1. x \in {"exit"} \X {"ok", "bad"}
      BY DEF TestsInv, CasesTyped, Flags
    <3>2. PICK code \in {"ok", "bad"} : x = <<"exit", code>>
      BY <3>1
    <3> QED BY <3>2 DEF TestsInv, OwnFlags
  <2> QED BY <2>1 DEF TestsInv, OwnFlags, T!FreshFlags, Finished
<1>3. TestsInv => VerdictTrue
  BY <1>1, <1>2 DEF VerdictTrue, T!VerdictTrue
<1> QED BY <1>3, TestsInductive, PTL
-----------------------------------------------------------------------------
\* The simulator.  A file is a run's rows; its name is a number.
ResultsOf == UNION {[D -> [of : Nat, run : Nat]] : D \in SUBSET Nat}
RowSet == [of : {S!Combination(n) : n \in Nat}, results : ResultsOf]

RunTyped ==
  /\ phase \in {"idle", "running", "raised"} /\ next \in Nat /\ function \in Nat /\ runs \in 0..MaxRuns
  /\ table \in Seq(RowSet) /\ history \in Seq(Seq(RowSet)) /\ results \in ResultsOf

\* The results that can be asked for are those of the combination at hand, which
\* no condition excludes.
AtHand ==
  phase = "running" /\ function > 0 =>
    /\ S!Combination(next) \notin Excluded
    /\ \A f \in DOMAIN results : results[f].of = next

\* The files are numbered without a gap, one for each earlier run at most; while
\* a run goes on the current file is its own and no other's.
Numbered == \E k \in 0..runs : DOMAIN saved \in {1..k, 0..k}
OwnFile == phase # "idle" /\ table # <<>> => 0 \in DOMAIN saved /\ saved[0] = table
Archive ==
  \A i \in DOMAIN history : history[i] # <<>> =>
    \E n \in DOMAIN saved : (phase # "idle" => n # 0) /\ saved[n] = history[i]

\* The user's configuration is put aside while a run goes on.
Aside ==
  /\ phase = "running" => config = "none"
  /\ ~spoilt => IF phase = "idle" THEN config = "original" \/ (config = "none" /\ backup = "original")
                ELSE backup = "original"

RunInv ==
  RunTyped /\ AtHand /\ Numbered /\ OwnFile /\ Archive /\ Aside /\ S!RowsInOrder /\ S!OwnResults
-----------------------------------------------------------------------------
LEMMA ExperimentInit == S!Init => RunInv
<1> SUFFICES ASSUME S!Init PROVE RunInv
  OBVIOUS
<1>1. <<>> \in ResultsOf /\ <<>> \in Seq(RowSet) /\ <<>> \in Seq(Seq(RowSet)) /\ DOMAIN <<>> = {}
  <2>1. <<>> \in [{} -> [of : Nat, run : Nat]]
    OBVIOUS
  <2>2. <<>> \in ResultsOf
    BY <2>1 DEF ResultsOf
  <2> QED BY <2>2, EmptySeq
<1>2. RunTyped
  BY <1>1, ExperimentAssumption DEF ExperimentAssumption, S!Init, S!NoRows, RunTyped
<1>3. Numbered
  BY <1>1, <1>2 DEF S!Init, Numbered, RunTyped
<1> QED BY <1>1, <1>2, <1>3 DEF S!Init, S!NoRows, RunInv, AtHand, OwnFile, Archive, Aside, S!RowsInOrder, S!OwnResults

\* A free number is the next one.
LEMMA NextNumber ==
  ASSUME NEW k \in Nat, k < MaxRuns, DOMAIN saved = 0..k
  PROVE  S!Archived = [n \in 1..(k + 1) |-> IF n = k + 1 THEN saved[0] ELSE saved[n]]
<1> DEFINE Free(n) == n \notin DOMAIN saved /\ \A m \in 1..(n - 1) : m \in DOMAIN saved
           free == CHOOSE n \in 1..(MaxRuns + 1) : Free(n)
<1>1. MaxRuns \in Nat
  BY ExperimentAssumption DEF ExperimentAssumption
<1>2. k + 1 \in 1..(MaxRuns + 1) /\ Free(k + 1)
  BY <1>1
<1>3. free \in 1..(MaxRuns + 1) /\ Free(free)
  <2> HIDE DEF Free
  <2> QED BY <1>2
<1>4. \A n \in 1..(MaxRuns + 1) : Free(n) => n = k + 1
  <2> SUFFICES ASSUME NEW n \in 1..(MaxRuns + 1), Free(n) PROVE n = k + 1
    OBVIOUS
  <2>1. n > k
    BY <1>1
  <2>2. n - 1 = 0 \/ n - 1 \in 1..(n - 1)
    BY <1>1
  <2>3. n - 1 <= k
    BY <1>1, <2>2
  <2> QED BY <1>1, <2>1, <2>3
<1>5. free = k + 1
  <2> HIDE DEF Free, free
  <2> QED BY <1>3, <1>4
<1>6. 0 \in DOMAIN saved /\ {k + 1} \cup (DOMAIN saved \ {0}) = 1..(k + 1)
  OBVIOUS
<1> QED BY <1>5, <1>6 DEF S!Archived

LEMMA RunKeeps == ASSUME RunInv, S!Run PROVE RunInv'
<1>1. /\ RunTyped /\ AtHand /\ Numbered /\ OwnFile /\ Archive /\ Aside /\ S!RowsInOrder /\ S!OwnResults
      /\ phase = "idle" /\ runs < MaxRuns /\ runs \in Nat /\ MaxRuns \in Nat
  BY ExperimentAssumption DEF RunInv, RunTyped, S!Run, ExperimentAssumption
<1>2. CASE config = "none"
  <2>1. UNCHANGED <<phase, next, table, function, results, saved, runs, seen, history, spoilt>>
    BY <1>2 DEF S!Run
  <2>2. Aside'
    BY <1>1, <1>2, <2>1 DEF S!Run, Aside
  <2>3. RunTyped' /\ AtHand' /\ Numbered' /\ OwnFile' /\ Archive'
    BY <1>1, <2>1 DEF RunTyped, AtHand, Numbered, OwnFile, Archive, S!Combination
  <2>4. S!RowsInOrder' /\ S!OwnResults'
    BY <1>1, <2>1 DEF S!RowsInOrder, S!OwnResults, S!Combination
  <2> QED BY <2>2, <2>3, <2>4 DEF RunInv
<1>3. CASE config # "none"
  <2>1. /\ backup' = config /\ config' = "none" /\ runs' = runs + 1 /\ phase' = "running" /\ saved' = S!Archived
        /\ next' = 0 /\ table' = <<>> /\ function' = 0 /\ results' = <<>> /\ UNCHANGED <<seen, history, spoilt>>
    BY <1>3 DEF S!Run, S!NoRows
  <2>2. RunTyped'
    <3>1. <<>> \in [{} -> [of : Nat, run : Nat]]
      OBVIOUS
    <3>2. <<>> \in ResultsOf
      BY <3>1 DEF ResultsOf
    <3> QED BY <1>1, <2>1, <3>2 DEF RunTyped
  <2>3. Numbered' /\ Archive'
    <3>1. PICK k \in 0..runs : DOMAIN saved \in {1..k, 0..k}
      BY <1>1 DEF Numbered
    <3>2. CASE DOMAIN saved = 1..k
      <4>1. 0 \notin DOMAIN saved /\ saved' = saved
        BY <2>1, <3>2 DEF S!Archived
      <4>2. Numbered'
        BY <1>1, <2>1, <3>1, <3>2, <4>1 DEF Numbered
      <4> QED BY <1>1, <2>1, <4>1, <4>2 DEF Archive
    <3>3. CASE DOMAIN saved = 0..k
      <4>1. saved' = [n \in 1..(k + 1) |-> IF n = k + 1 THEN saved[0] ELSE saved[n]]
        BY <1>1, <2>1, <3>1, <3>3, NextNumber
      <4>2. Numbered'
        BY <1>1, <2>1, <3>1, <4>1 DEF Numbered
      <4>3. \A n \in DOMAIN saved : \E m \in DOMAIN saved' : m # 0 /\ saved'[m] = saved[n]
        <5> SUFFICES ASSUME NEW n \in 0..k PROVE \E m \in 1..(k + 1) : m # 0 /\ saved'[m] = saved[n]
          BY <3>3, <4>1
        <5>1. k \in Nat
          BY <1>1
        <5>2. CASE n = 0
          BY <4>1, <5>1, <5>2
        <5>3. CASE n # 0
          <6>1. n \in 1..(k + 1) /\ n # k + 1
            BY <5>1, <5>3
          <6> QED BY <4>1, <6>1
        <5> QED BY <5>2, <5>3
      <4>4. Archive'
        BY <1>1, <2>1, <4>3 DEF Archive
      <4> QED BY <4>2, <4>4
    <3> QED BY <3>1, <3>2, <3>3
  <2>4. AtHand' /\ OwnFile'
    BY <2>1 DEF AtHand, OwnFile
  <2>5. Aside'
    BY <1>1, <1>3, <2>1 DEF Aside
  <2>6. S!RowsInOrder'
    BY <2>1 DEF S!RowsInOrder
  <2>7. S!OwnResults'
    BY <1>1, <2>1 DEF S!OwnResults
  <2> QED BY <2>2, <2>3, <2>4, <2>5, <2>6, <2>7 DEF RunInv
<1> QED BY <1>2, <1>3

\* A saved row leaves the numbered files alone.
LEMMA SavedKeeps ==
  ASSUME RunInv, NEW kept, runs' = runs, saved' = S!Saved(kept)
  PROVE  /\ Numbered' /\ 0 \in DOMAIN saved' /\ saved'[0] = kept
         /\ \A n \in DOMAIN saved : n # 0 => n \in DOMAIN saved' /\ saved'[n] = saved[n]
<1>1. PICK k \in 0..runs : DOMAIN saved \in {1..k, 0..k}
  BY DEF RunInv, Numbered
<1>2. runs \in Nat /\ {0} \cup DOMAIN saved = 0..k
  BY <1>1 DEF RunInv, RunTyped
<1> QED BY <1>1, <1>2 DEF S!Saved, Numbered

LEMMA FinishKeeps == ASSUME RunInv, S!Finish PROVE RunInv'
<1>1. /\ RunTyped /\ AtHand /\ Numbered /\ OwnFile /\ Archive /\ Aside /\ S!RowsInOrder /\ S!OwnResults
      /\ phase = "running" /\ phase' = "idle" /\ saved' = S!Saved(table) /\ history' = Append(history, table)
      /\ UNCHANGED <<next, table, function, results, seen, spoilt, runs>> /\ config' = backup /\ backup' = "none"
  BY DEF RunInv, S!Finish
<1>2. /\ Numbered' /\ 0 \in DOMAIN saved' /\ saved'[0] = table
      /\ \A n \in DOMAIN saved : n # 0 => n \in DOMAIN saved' /\ saved'[n] = saved[n]
  BY <1>1, SavedKeeps
<1>3. RunTyped'
  BY <1>1 DEF RunTyped
<1>4. Archive'
  <2>1. \A i \in DOMAIN history' : (i \in DOMAIN history /\ history'[i] = history[i]) \/ history'[i] = table
    BY <1>1 DEF RunTyped
  <2> QED BY <1>1, <1>2, <2>1 DEF Archive
<1>5. AtHand' /\ OwnFile' /\ Aside'
  BY <1>1 DEF AtHand, OwnFile, Aside
<1>6. S!RowsInOrder' /\ S!OwnResults'
  BY <1>1 DEF S!RowsInOrder, S!OwnResults, S!Combination
<1> QED BY <1>2, <1>3, <1>4, <1>5, <1>6 DEF RunInv

LEMMA SkipKeeps == ASSUME RunInv, S!Skip PROVE RunInv'
<1>1. /\ RunTyped /\ AtHand /\ Numbered /\ OwnFile /\ Archive /\ Aside /\ S!RowsInOrder /\ S!OwnResults
      /\ phase = "running" /\ function = 0 /\ next' = next + 1 /\ S!Combination(next) \in Excluded
      /\ UNCHANGED <<phase, table, function, results, seen, saved, history, config, backup, spoilt, runs>>
  BY DEF RunInv, S!Skip
<1>2. RunTyped' /\ AtHand' /\ Numbered' /\ OwnFile' /\ Archive' /\ Aside'
  BY <1>1 DEF RunTyped, AtHand, Numbered, OwnFile, Archive, Aside
<1>3. S!RowsInOrder'
  <2>1. next \in Nat /\ 0..(next' - 1) = 0..(next - 1) \cup {next}
    BY <1>1 DEF RunTyped
  <2>2. {S!Combination(n) : n \in 0..(next' - 1)} \ Excluded = {S!Combination(n) : n \in 0..(next - 1)} \ Excluded
    BY <1>1, <2>1
  <2> QED BY <1>1, <2>1, <2>2 DEF S!RowsInOrder, S!Combination
<1>4. S!OwnResults'
  BY <1>1 DEF S!OwnResults, S!Combination
<1> QED BY <1>2, <1>3, <1>4 DEF RunInv

LEMMA BeginRowKeeps == ASSUME RunInv, S!BeginRow PROVE RunInv'
<1>1. /\ RunTyped /\ AtHand /\ Numbered /\ OwnFile /\ Archive /\ Aside /\ S!RowsInOrder /\ S!OwnResults
      /\ function' = 1 /\ results' = <<>> /\ S!Combination(next) \notin Excluded
      /\ UNCHANGED <<phase, next, table, seen, saved, history, config, backup, spoilt, runs>>
  BY DEF RunInv, S!BeginRow
<1>2. RunTyped'
  <2>1. <<>> \in [{} -> [of : Nat, run : Nat]]
    OBVIOUS
  <2>2. <<>> \in ResultsOf
    BY <2>1 DEF ResultsOf
  <2> QED BY <1>1, <2>2 DEF RunTyped
<1>3. AtHand' /\ Numbered' /\ OwnFile' /\ Archive' /\ Aside'
  BY <1>1 DEF AtHand, Numbered, OwnFile, Archive, Aside, S!Combination
<1>4. S!RowsInOrder' /\ S!OwnResults'
  BY <1>1 DEF S!RowsInOrder, S!OwnResults, S!Combination
<1> QED BY <1>2, <1>3, <1>4 DEF RunInv

LEMMA ReturnKeeps ==
  ASSUME RunInv, NEW stops \in BOOLEAN, NEW asks \in 1..NumFunctions, S!Return(stops, asks) PROVE RunInv'
<1> DEFINE mine == [of |-> next, run |-> runs]
           row == [of |-> S!Combination(next), results |-> results']
<1>1. /\ RunTyped /\ AtHand /\ Numbered /\ OwnFile /\ Archive /\ Aside /\ S!RowsInOrder /\ S!OwnResults
      /\ phase = "running" /\ function > 0 /\ config' = "none"
      /\ UNCHANGED <<phase, history, backup, spoilt, runs>>
  BY DEF RunInv, S!Return
<1>2. next \in Nat /\ function \in Nat /\ runs \in Nat /\ S!Combination(next) \notin Excluded
  BY <1>1 DEF RunTyped, AtHand
<1>3. results' = [f \in DOMAIN results \cup {function} |-> IF f = function THEN mine ELSE results[f]]
  BY DEF S!Return
<1>4. results' \in ResultsOf /\ \A f \in DOMAIN results' : results'[f].of = next
  <2>1. PICK D \in SUBSET Nat : results \in [D -> [of : Nat, run : Nat]]
    BY <1>1 DEF RunTyped, ResultsOf
  <2>2. mine \in [of : Nat, run : Nat] /\ mine.of = next
    BY <1>2
  <2> HIDE DEF mine
  <2>3. D \cup {function} \in SUBSET Nat /\ results' \in [D \cup {function} -> [of : Nat, run : Nat]]
    BY <1>2, <1>3, <2>1, <2>2
  <2>4. results' \in ResultsOf
    BY <2>3 DEF ResultsOf
  <2>5. \A f \in DOMAIN results' : results'[f].of = next
    BY <1>1, <1>3, <2>2 DEF AtHand
  <2> QED BY <2>4, <2>5
<1>5. \A s \in seen' : s.by = s.of
  <2>1. \A s \in seen : s.by = s.of
    BY <1>1 DEF S!OwnResults
  <2>2. CASE asks \in DOMAIN results
    <3>1. seen' = seen \cup {[by |-> next, of |-> results[asks].of]} /\ results[asks].of = next
      BY <1>1, <2>2 DEF S!Return, AtHand
    <3> QED BY <2>1, <3>1
  <2>3. CASE asks \notin DOMAIN results
    BY <2>1, <2>3 DEF S!Return
  <2> QED BY <2>2, <2>3
<1>6. Aside'
  BY <1>1 DEF Aside
<1>7. CASE function < NumFunctions
  <2>1. function' = function + 1 /\ UNCHANGED <<next, table, saved>>
    BY <1>7 DEF S!Return
  <2>2. RunTyped' /\ AtHand' /\ Numbered' /\ OwnFile' /\ Archive'
    BY <1>1, <1>2, <1>4, <2>1 DEF RunTyped, AtHand, Numbered, OwnFile, Archive, S!Combination
  <2>3. S!RowsInOrder' /\ S!OwnResults'
    BY <1>1, <1>5, <2>1 DEF S!RowsInOrder, S!OwnResults, S!Combination
  <2> QED BY <1>6, <2>2, <2>3 DEF RunInv
<1>8. CASE ~(function < NumFunctions)
  <2>1. function' = 0 /\ next' = next + 1 /\ table' = Append(table, row) /\ saved' = S!Saved(table')
    BY <1>8 DEF S!Return
  <2>2. row \in RowSet /\ row.of = S!Combination(next) /\ row.results = results'
    BY <1>2, <1>4 DEF RowSet
  <2> HIDE DEF row
  <2>3. /\ table \in Seq(RowSet) /\ table' \in Seq(RowSet) /\ DOMAIN table' = DOMAIN table \cup {Len(table) + 1}
        /\ Len(table) \in Nat /\ DOMAIN table = 1..Len(table)
        /\ table'[Len(table) + 1] = row /\ \A i \in DOMAIN table : table'[i] = table[i]
    BY <1>1, <2>1, <2>2 DEF RunTyped
  <2>4. RunTyped'
    BY <1>1, <1>2, <1>4, <2>1, <2>3 DEF RunTyped
  <2>5. /\ Numbered' /\ 0 \in DOMAIN saved' /\ saved'[0] = table'
        /\ \A n \in DOMAIN saved : n # 0 => n \in DOMAIN saved' /\ saved'[n] = saved[n]
    BY <1>1, <2>1, SavedKeeps
  <2>6. AtHand' /\ OwnFile'
    BY <2>1, <2>5 DEF AtHand, OwnFile
  <2>7. Archive'
    BY <1>1, <2>5 DEF Archive
  <2>8. S!RowsInOrder'
    <3> DEFINE C(n) == S!Combination(n)
               Done == {table[i].of : i \in DOMAIN table}
    <3>1. 0..(next' - 1) = 0..(next - 1) \cup {next} /\ \A n \in 0..(next - 1) : n < next
      BY <1>2, <2>1
    <3>2. Done = {C(n) : n \in 0..(next - 1)} \ Excluded
      BY <1>1 DEF S!RowsInOrder
    <3>3. {table'[i].of : i \in DOMAIN table'} = Done \cup {C(next)}
      BY <2>2, <2>3
    <3>4. {table'[i].of : i \in DOMAIN table'} = {C(n) : n \in 0..(next' - 1)} \ Excluded
      <4> HIDE DEF C, Done
      <4>1. C(next) \notin Excluded
        BY <1>2 DEF C
      <4> QED BY <3>1, <3>2, <3>3, <4>1
    <3>5. ASSUME NEW i \in DOMAIN table', NEW j \in DOMAIN table', i < j
          PROVE  \E m, n \in 0..(next' - 1) : m < n /\ table'[i].of = C(m) /\ table'[j].of = C(n)
      <4>1. i \in DOMAIN table
        BY <2>3, <3>5
      <4>2. CASE j \in DOMAIN table
        <5>1. PICK m \in 0..(next - 1), n \in 0..(next - 1) : m < n /\ table[i].of = C(m) /\ table[j].of = C(n)
          BY <1>1, <3>5, <4>1, <4>2 DEF S!RowsInOrder
        <5> HIDE DEF C
        <5> QED BY <2>3, <3>1, <4>1, <4>2, <5>1
      <4>3. CASE j = Len(table) + 1
        <5>1. table'[i].of \in Done
          BY <2>3, <4>1
        <5>2. PICK m \in 0..(next - 1) : table'[i].of = C(m)
          BY <3>2, <5>1
        <5>3. table'[j].of = C(next)
          BY <2>2, <2>3, <4>3
        <5> HIDE DEF C, Done
        <5> QED BY <3>1, <5>2, <5>3
      <4> QED BY <2>3, <4>2, <4>3
    <3> QED BY <3>4, <3>5 DEF S!RowsInOrder, S!Combination
  <2>9. S!OwnResults'
    <3>1. ASSUME NEW i \in DOMAIN table', NEW f \in DOMAIN table'[i].results
          PROVE  S!Combination(table'[i].results[f].of) = table'[i].of
      <4>1. CASE i \in DOMAIN table
        BY <1>1, <2>3, <3>1, <4>1 DEF S!OwnResults
      <4>2. CASE i = Len(table) + 1
        BY <1>4, <2>2, <2>3, <3>1, <4>2
      <4> QED BY <2>3, <4>1, <4>2
    <3> QED BY <1>5, <3>1 DEF S!OwnResults, S!Combination
  <2> QED BY <1>6, <2>4, <2>5, <2>6, <2>7, <2>8, <2>9 DEF RunInv
<1> QED BY <1>7, <1>8

LEMMA RerunKeeps == ASSUME RunInv, S!Rerun PROVE RunInv'
<1>1. /\ RunTyped /\ AtHand /\ Numbered /\ OwnFile /\ Archive /\ Aside /\ S!RowsInOrder /\ S!OwnResults
      /\ config' = "none" /\ phase = "running"
      /\ UNCHANGED <<phase, next, table, function, results, seen, saved, history, backup, spoilt, runs>>
  BY DEF RunInv, S!Rerun
<1>2. RunTyped' /\ AtHand' /\ Numbered' /\ OwnFile' /\ Archive' /\ Aside'
  BY <1>1 DEF RunTyped, AtHand, Numbered, OwnFile, Archive, Aside, S!Combination
<1>3. S!RowsInOrder' /\ S!OwnResults'
  BY <1>1 DEF S!RowsInOrder, S!OwnResults, S!Combination
<1> QED BY <1>2, <1>3 DEF RunInv

LEMMA RaiseErrorKeeps == ASSUME RunInv, S!RaiseError PROVE RunInv'
<1>1. /\ RunTyped /\ AtHand /\ Numbered /\ OwnFile /\ Archive /\ Aside /\ S!RowsInOrder /\ S!OwnResults
      /\ phase = "running" /\ phase' = "raised"
      /\ UNCHANGED <<next, table, function, results, seen, saved, history, backup, spoilt, runs>>
  BY DEF RunInv, S!RaiseError
<1>2. RunTyped' /\ AtHand' /\ Numbered' /\ OwnFile' /\ Archive' /\ Aside'
  BY <1>1 DEF RunTyped, AtHand, Numbered, OwnFile, Archive, Aside
<1>3. S!RowsInOrder' /\ S!OwnResults'
  BY <1>1 DEF S!RowsInOrder, S!OwnResults, S!Combination
<1> QED BY <1>2, <1>3 DEF RunInv

\* An error or a kill leaves the rows in the current file.
LEMMA LeftBehind ==
  ASSUME RunInv, phase # "idle", UNCHANGED <<table, saved>>, phase' = "idle",
         history' = IF table = <<>> THEN history ELSE Append(history, table)
  PROVE  Archive' /\ history' \in Seq(Seq(RowSet))
<1>1. table \in Seq(RowSet) /\ history \in Seq(Seq(RowSet)) /\ Archive
  BY DEF RunInv, RunTyped
<1>2. CASE table = <<>>
  BY <1>1, <1>2 DEF Archive
<1>3. CASE table # <<>>
  <2>1. 0 \in DOMAIN saved' /\ saved'[0] = table
    BY <1>3 DEF RunInv, OwnFile
  <2>2. /\ history' \in Seq(Seq(RowSet))
        /\ \A i \in DOMAIN history' : (i \in DOMAIN history /\ history'[i] = history[i]) \/ history'[i] = table
    BY <1>1, <1>3
  <2> QED BY <1>1, <2>1, <2>2 DEF Archive
<1> QED BY <1>2, <1>3

LEMMA CleanUpKeeps == ASSUME RunInv, S!CleanUp PROVE RunInv'
<1>1. /\ RunTyped /\ AtHand /\ Numbered /\ OwnFile /\ Archive /\ Aside /\ S!RowsInOrder /\ S!OwnResults
      /\ phase = "raised" /\ phase' = "idle" /\ function' = 0 /\ config' = backup /\ backup' = "none"
      /\ history' = IF table = <<>> THEN history ELSE Append(history, table)
      /\ UNCHANGED <<next, table, results, seen, saved, spoilt, runs>>
  BY DEF RunInv, S!CleanUp, S!NoRows
<1>2. Archive' /\ history' \in Seq(Seq(RowSet))
  BY <1>1, LeftBehind
<1>3. RunTyped' /\ AtHand' /\ Numbered' /\ OwnFile' /\ Aside'
  BY <1>1, <1>2 DEF RunTyped, AtHand, Numbered, OwnFile, Aside
<1>4. S!RowsInOrder' /\ S!OwnResults'
  BY <1>1 DEF S!RowsInOrder, S!OwnResults, S!Combination
<1> QED BY <1>2, <1>3, <1>4 DEF RunInv

LEMMA KillKeeps == ASSUME RunInv, S!Kill PROVE RunInv'
<1>1. /\ RunTyped /\ AtHand /\ Numbered /\ OwnFile /\ Archive /\ Aside /\ S!RowsInOrder /\ S!OwnResults
      /\ phase = "running" /\ phase' = "idle" /\ function' = 0 /\ ~spoilt
      /\ history' = IF table = <<>> THEN history ELSE Append(history, table)
      /\ UNCHANGED <<next, table, results, seen, saved, backup, runs>>
  BY DEF RunInv, S!Kill, S!NoRows
<1>2. Archive' /\ history' \in Seq(Seq(RowSet))
  BY <1>1, LeftBehind
<1>3. RunTyped' /\ AtHand' /\ Numbered' /\ OwnFile'
  BY <1>1, <1>2 DEF RunTyped, AtHand, Numbered, OwnFile
<1>4. Aside'
  <2>1. config' \in {"generated", "none"} /\ (spoilt' <=> config' = "generated") /\ backup' = "original"
    BY <1>1 DEF S!Kill, Aside
  <2> QED BY <1>1, <2>1 DEF Aside
<1>5. S!RowsInOrder' /\ S!OwnResults'
  BY <1>1 DEF S!RowsInOrder, S!OwnResults, S!Combination
<1> QED BY <1>2, <1>3, <1>4, <1>5 DEF RunInv

\* What a run has collected is known at every moment of it.
THEOREM ExperimentInductive == S!Spec => []RunInv
<1>1. RunInv /\ [S!Next]_S!vars => RunInv'
  <2> SUFFICES ASSUME RunInv, [S!Next]_S!vars PROVE RunInv'
    OBVIOUS
  <2>1. CASE S!Run
    BY <2>1, RunKeeps
  <2>2. CASE S!Finish
    BY <2>2, FinishKeeps
  <2>3. CASE S!Skip
    BY <2>3, SkipKeeps
  <2>4. CASE S!BeginRow
    BY <2>4, BeginRowKeeps
  <2>5. CASE S!Rerun
    BY <2>5, RerunKeeps
  <2>6. CASE S!RaiseError
    BY <2>6, RaiseErrorKeeps
  <2>7. CASE S!CleanUp
    BY <2>7, CleanUpKeeps
  <2>8. CASE S!Kill
    BY <2>8, KillKeeps
  <2>9. CASE \E stops \in BOOLEAN, asks \in 1..NumFunctions : S!Return(stops, asks)
    BY <2>9, ReturnKeeps
  <2>10. CASE UNCHANGED S!vars
    <3>1. RunTyped' /\ AtHand' /\ Numbered' /\ OwnFile' /\ Archive' /\ Aside'
      BY <2>10 DEF S!vars, RunInv, RunTyped, AtHand, Numbered, OwnFile, Archive, Aside, S!Combination
    <3>2. S!RowsInOrder' /\ S!OwnResults'
      BY <2>10 DEF S!vars, RunInv, S!RowsInOrder, S!OwnResults, S!Combination
    <3> QED BY <3>1, <3>2 DEF RunInv
  <2> QED BY <2>1, <2>2, <2>3, <2>4, <2>5, <2>6, <2>7, <2>8, <2>9, <2>10 DEF S!Next
<1> QED BY <1>1, ExperimentInit, PTL DEF S!Spec

\* However runs end, by an error, a kill or the last row: the rows are those of
\* the combinations asked for, in order and with results of their own, the rows
\* of every run stay in some file, and the user's configuration is in place or
\* comes back (simulator.py, simulate.py).
THEOREM ResultsAreKept == S!Spec => []ResultsKept
<1>1. RunInv => S!ArchiveKeeps
  BY DEF RunInv, Archive, S!ArchiveKeeps, S!NoRows
<1>2. RunInv => S!ConfigKept
  BY DEF RunInv, RunTyped, Aside, S!ConfigKept
<1>3. RunInv => ResultsKept
  BY <1>1, <1>2 DEF RunInv, ResultsKept, S!ResultsKept
<1> QED BY <1>3, ExperimentInductive, PTL

-----------------------------------------------------------------------------
\* The sweep.  The invariant says whose the processes in the panes are.
Combos == Nat \X Nat
Names == {"without_proxy", "fake_proxy", "real_proxy"}
RateSet == {0} \cup {Rate(i) : i \in Nat}
Tick == [of : Combos, via : Names \cup {"none"}, rate : RateSet]
Row == [of : Combos, params : {Prepared(i) : i \in Nat}, ticks : Tick, heard : BOOLEAN]
Planes == [of : Combos, up : BOOLEAN]
Relays == [of : Combos, kind : Names \cup {"none"}, config : Combos, phase : {"off", "starting", "ready", "dead"}]
Validators == [of : Combos, to : {"none", "plane", "relay"}, rate : RateSet,
               phase : {"off", "connecting", "sending", "dead"}]
Measuring == step \in {"plane", "await", "sleep", "close"}

SweepTyped ==
  /\ step \in {"over", "begin", "window", "raise", "plane", "await", "sleep", "close", "read"}
  /\ combo \in Combos /\ written \in Combos /\ window \in BOOLEAN /\ heard \in BOOLEAN
  /\ step # "over" => combo[2] # 0
  /\ plane \in Planes /\ relay \in Relays /\ senders \in Validators
  /\ ticks \in Tick /\ rows \in Seq(Row)

\* Without a session nothing runs, ...
NoneLeft == ~window => plane = NoPlane /\ relay = NoRelay /\ senders = NoSenders

\* ... while a combination is prepared its own configuration is written, and
\* unless a session is left nothing has been heard; once it is measured there
\* is none, ...
Prepares ==
  /\ step = "window" => written = combo /\ (~window => ~heard)
  /\ step = "read" => ~window

\* ... and in between all that runs was started for it, with its parameters.
Current ==
  Measuring =>
    /\ window /\ plane.of = combo /\ written \in {None, combo} /\ relay.config \in {None, combo}
    /\ \/ relay.of = None /\ relay.phase = "off"
       \/ relay.of = combo /\ relay.kind = IF Params.fake_proxy THEN "fake_proxy" ELSE "real_proxy"
    /\ \/ senders.of = None /\ senders.phase = "off"
       \/ senders.of = combo /\ senders.to = Params.target /\ senders.rate = Params.sending_rate

\* What has been heard is what the parameters say.
Measured ==
  (Measuring \/ step = "read") /\ heard =>
    ticks.of = combo /\ ticks.via = Params.mode /\ ticks.rate = Params.sending_rate

SweepInv == SweepTyped /\ NoneLeft /\ Prepares /\ Current /\ Measured /\ RowsTrue
-----------------------------------------------------------------------------
LEMMA ModeNamed ==
  ASSUME NEW i \in Nat, i # 0
  PROVE  Mode(i) \in Names
<1>1. Len(Modes) \in Nat /\ Len(Modes) # 0 /\ \A j \in 1..Len(Modes) : Modes[j] \in Names
  BY SweepAssumption DEF SweepAssumption, Names
<1>2. (i - 1) % Len(Modes) \in 0..(Len(Modes) - 1)
  BY <1>1
<1>3. ((i - 1) % Len(Modes)) + 1 \in 1..Len(Modes)
  BY <1>1, <1>2
<1> QED BY <1>1, <1>3 DEF Mode

\* The program a combination's messages go through is the one of its mode.
LEMMA ViaMode ==
  ASSUME SweepTyped, step # "over"
  PROVE  /\ Params.target = "plane" => Params.mode = "without_proxy"
         /\ Params.target # "plane" => Params.mode = IF Params.fake_proxy THEN "fake_proxy" ELSE "real_proxy"
         /\ Params.target \in {"plane", "relay"} /\ Params.sending_rate \in {Rate(i) : i \in Nat}
<1>1. combo[2] \in Nat /\ combo[2] # 0
  BY DEF SweepTyped, Combos
<1>2. Mode(combo[2]) \in Names
  BY <1>1, ModeNamed
<1> QED BY <1>1, <1>2 DEF Params, Prepared, Names

LEMMA SweepValues ==
  /\ None \in Combos /\ 0 \in RateSet /\ NoTicks \in Tick
  /\ NoPlane \in Planes /\ NoRelay \in Relays /\ NoSenders \in Validators
<1>1. None \in Combos /\ 0 \in RateSet
  BY DEF None, Combos, RateSet
<1> QED BY <1>1 DEF NoPlane, NoRelay, NoSenders, NoTicks, Planes, Relays, Validators, Tick, Names

LEMMA RateOfCombo ==
  ASSUME SweepTyped, step # "over"
  PROVE  Params.target \in {"none", "plane", "relay"} /\ Params.sending_rate \in RateSet
BY ViaMode DEF RateSet

LEMMA SweepInit == Init => SweepInv
<1> SUFFICES ASSUME Init PROVE SweepInv
  OBVIOUS
<1>1. SweepTyped
  <2>1. rows \in Seq(Row)
    BY DEF Init
  <2>2. combo \in Combos /\ written \in Combos /\ ticks \in Tick
    BY SweepValues DEF Init
  <2>3. plane \in Planes /\ relay \in Relays /\ senders \in Validators
    BY SweepValues DEF Init
  <2> QED BY <2>1, <2>2, <2>3 DEF Init, SweepTyped
<1>2. NoneLeft /\ Prepares /\ Current /\ Measured /\ RowsTrue
  BY DEF Init, NoneLeft, Prepares, Current, Measured, Measuring, RowsTrue
<1> QED BY <1>1, <1>2 DEF SweepInv

LEMMA WriteConfigInv == ASSUME SweepInv, WriteConfig PROVE SweepInv'
<1>1. SweepTyped /\ NoneLeft /\ Prepares /\ Current /\ Measured /\ RowsTrue
  BY DEF SweepInv
<1>2. SweepTyped'
  BY <1>1, SweepValues DEF WriteConfig, SweepTyped, processes
<1>3. NoneLeft'
  BY <1>1 DEF WriteConfig, NoneLeft, processes
<1>4. Prepares'
  BY <1>1 DEF WriteConfig, Prepares, processes
<1>5. Current'
  BY <1>1, SweepValues DEF WriteConfig, SweepTyped, Current, Prepares, Measuring, Params, processes
<1>6. Measured'
  BY <1>1 DEF WriteConfig, Measured, Measuring, Params, processes
<1>7. RowsTrue'
  BY <1>1 DEF WriteConfig, RowsTrue
<1> QED BY <1>2, <1>3, <1>4, <1>5, <1>6, <1>7 DEF SweepInv

LEMMA CreateWindowInv == ASSUME SweepInv, CreateWindow PROVE SweepInv'
<1>1. SweepTyped /\ NoneLeft /\ Prepares /\ Current /\ Measured /\ RowsTrue
  BY DEF SweepInv
<1>2. SweepTyped'
  <2>1. [of |-> combo, up |-> FALSE] \in Planes
    BY <1>1 DEF SweepTyped, Planes
  <2>2. plane' \in Planes
    BY <1>1, <2>1 DEF CreateWindow, SweepTyped
  <2>3. window' \in BOOLEAN /\ step' \in {"raise", "plane"}
    BY <1>1 DEF CreateWindow, SweepTyped
  <2> QED BY <1>1, <2>2, <2>3 DEF CreateWindow, SweepTyped
<1>3. NoneLeft'
  BY <1>1 DEF CreateWindow, NoneLeft
<1>4. Prepares'
  BY <1>1 DEF CreateWindow, Prepares
<1>5. Current'
  <2> SUFFICES ASSUME Measuring' PROVE Current'
    BY DEF Current
  <2>1. ~window /\ window' = TRUE /\ plane' = [of |-> combo, up |-> FALSE] /\ UNCHANGED <<combo, written, relay, senders>>
    BY <1>1 DEF CreateWindow, Measuring, SweepTyped
  <2>2. relay = NoRelay /\ senders = NoSenders /\ written = combo
    BY <1>1, <2>1 DEF NoneLeft, Prepares, CreateWindow
  <2> QED BY <2>1, <2>2 DEF Current, NoRelay, NoSenders
<1>6. Measured'
  <2>1. Measuring' => ~window
    BY <1>1 DEF CreateWindow, Measuring, SweepTyped
  <2>2. step' # "read" /\ heard' = heard
    BY <1>1 DEF CreateWindow, SweepTyped
  <2> QED BY <1>1, <2>1, <2>2 DEF CreateWindow, Prepares, Measured
<1>7. RowsTrue'
  BY <1>1 DEF CreateWindow, RowsTrue
<1> QED BY <1>2, <1>3, <1>4, <1>5, <1>6, <1>7 DEF SweepInv

LEMMA StartProxyInv == ASSUME SweepInv, StartProxy PROVE SweepInv'
<1>1. SweepTyped /\ NoneLeft /\ Prepares /\ Current /\ Measured /\ RowsTrue
  BY DEF SweepInv
<1>2. SweepTyped'
  <2>1. relay' = [of |-> combo, kind |-> IF Params.fake_proxy THEN "fake_proxy" ELSE "real_proxy",
          config |-> None, phase |-> "starting"]
    BY DEF StartProxy
  <2>2. relay' \in Relays
    BY <1>1, <2>1, SweepValues DEF StartProxy, SweepTyped, Relays, Names
  <2> QED BY <1>1, <2>2 DEF StartProxy, SweepTyped
<1>3. NoneLeft'
  BY <1>1 DEF StartProxy, NoneLeft, Current, Measuring
<1>4. Prepares'
  BY <1>1 DEF StartProxy, Prepares
<1>5. Current'
  BY <1>1, SweepValues DEF StartProxy, SweepTyped, Current, Prepares, Measuring, Params
<1>6. Measured'
  BY <1>1 DEF StartProxy, Measured, Measuring, Params
<1>7. RowsTrue'
  BY <1>1 DEF StartProxy, RowsTrue
<1> QED BY <1>2, <1>3, <1>4, <1>5, <1>6, <1>7 DEF SweepInv

LEMMA StartValidatorInv == ASSUME SweepInv, StartValidator PROVE SweepInv'
<1>1. SweepTyped /\ NoneLeft /\ Prepares /\ Current /\ Measured /\ RowsTrue
  BY DEF SweepInv
<1>2. SweepTyped'
  <2>1. senders' = [of |-> combo, to |-> Params.target, rate |-> Params.sending_rate, phase |-> "connecting"]
    BY DEF StartValidator
  <2>2. senders' \in Validators
    BY <1>1, <2>1, RateOfCombo DEF StartValidator, SweepTyped, Validators, Names
  <2> QED BY <1>1, <2>2 DEF StartValidator, SweepTyped
<1>3. NoneLeft'
  BY <1>1 DEF StartValidator, NoneLeft, Current, Measuring
<1>4. Prepares'
  BY <1>1 DEF StartValidator, Prepares
<1>5. Current'
  BY <1>1, SweepValues DEF StartValidator, SweepTyped, Current, Prepares, Measuring, Params
<1>6. Measured'
  BY <1>1 DEF StartValidator, Measured, Measuring, Params
<1>7. RowsTrue'
  BY <1>1 DEF StartValidator, RowsTrue
<1> QED BY <1>2, <1>3, <1>4, <1>5, <1>6, <1>7 DEF SweepInv

LEMMA RemoveConfigInv == ASSUME SweepInv, RemoveConfig PROVE SweepInv'
<1>1. SweepTyped /\ NoneLeft /\ Prepares /\ Current /\ Measured /\ RowsTrue
  BY DEF SweepInv
<1>2. SweepTyped'
  BY <1>1, SweepValues DEF RemoveConfig, SweepTyped, processes
<1>3. NoneLeft'
  BY <1>1 DEF RemoveConfig, NoneLeft, processes
<1>4. Prepares'
  BY <1>1 DEF RemoveConfig, Prepares, processes
<1>5. Current'
  BY <1>1, SweepValues DEF RemoveConfig, SweepTyped, Current, Prepares, Measuring, Params, processes
<1>6. Measured'
  BY <1>1 DEF RemoveConfig, Measured, Measuring, Params, processes
<1>7. RowsTrue'
  BY <1>1 DEF RemoveConfig, RowsTrue
<1> QED BY <1>2, <1>3, <1>4, <1>5, <1>6, <1>7 DEF SweepInv

LEMMA CloseInv == ASSUME SweepInv, Close PROVE SweepInv'
<1>1. SweepTyped /\ NoneLeft /\ Prepares /\ Current /\ Measured /\ RowsTrue
  BY DEF SweepInv
<1>2. SweepTyped'
  BY <1>1, SweepValues DEF Close, SweepTyped
<1>3. NoneLeft'
  BY <1>1 DEF Close, NoneLeft
<1>4. Prepares'
  BY <1>1 DEF Close, Prepares
<1>5. Current'
  BY <1>1, SweepValues DEF Close, SweepTyped, Current, Prepares, Measuring, Params
<1>6. Measured'
  BY <1>1 DEF Close, Measured, Measuring, Params
<1>7. RowsTrue'
  BY <1>1 DEF Close, RowsTrue
<1> QED BY <1>2, <1>3, <1>4, <1>5, <1>6, <1>7 DEF SweepInv

LEMMA ReadTicksInv == ASSUME SweepInv, ReadTicks PROVE SweepInv'
<1>1. SweepTyped /\ NoneLeft /\ Prepares /\ Current /\ Measured /\ RowsTrue
  BY DEF SweepInv
<1>2. SweepTyped'
  <2>1. CASE ticks = NoTicks
    BY <1>1, <2>1 DEF ReadTicks, SweepTyped, processes
  <2>2. CASE ticks # NoTicks
    <3>1. combo[1] \in Nat /\ combo[2] \in Nat /\ combo' = <<combo[1], combo[2] + 1>>
      BY <1>1, <2>2 DEF ReadTicks, SweepTyped, Combos
    <3>2. combo' \in Combos /\ combo'[2] # 0
      BY <3>1 DEF Combos
    <3>3. [of |-> combo, params |-> Params, ticks |-> ticks, heard |-> heard] \in Row
      BY <1>1, <3>1 DEF SweepTyped, Row, Params
    <3>4. rows' \in Seq(Row)
      BY <1>1, <2>2, <3>3 DEF ReadTicks, SweepTyped
    <3> QED BY <1>1, <2>2, <3>2, <3>4 DEF ReadTicks, SweepTyped, processes
  <2> QED BY <2>1, <2>2
<1>3. NoneLeft'
  BY <1>1 DEF ReadTicks, NoneLeft, processes
<1>4. Prepares'
  BY <1>1 DEF ReadTicks, Prepares, processes
<1>5. Current'
  BY <1>1, SweepValues DEF ReadTicks, SweepTyped, Current, Prepares, Measuring, Params, processes
<1>6. Measured'
  BY <1>1 DEF ReadTicks, Measured, Measuring, Params, processes
<1>7. RowsTrue'
  <2>1. CASE ticks = NoTicks
    BY <1>1, <2>1 DEF ReadTicks, RowsTrue
  <2>2. CASE ticks # NoTicks
    <3> DEFINE row == [of |-> combo, params |-> Params, ticks |-> ticks, heard |-> heard]
    <3>1. rows' = Append(rows, row) /\ rows \in Seq(Row)
      BY <1>1, <2>2 DEF ReadTicks, SweepTyped
    <3>2. heard => ticks.of = combo /\ ticks.via = Params.mode /\ ticks.rate = Params.sending_rate
      BY <1>1 DEF Measured, ReadTicks
    <3>3. row.of = combo /\ row.params = Params /\ row.ticks = ticks /\ row.heard = heard
      OBVIOUS
    <3> HIDE DEF row
    <3>4. \A i \in DOMAIN rows' : (i \in DOMAIN rows /\ rows'[i] = rows[i]) \/ rows'[i] = row
      BY <3>1
    <3> QED BY <1>1, <3>2, <3>3, <3>4 DEF RowsTrue
  <2> QED BY <2>1, <2>2
<1> QED BY <1>2, <1>3, <1>4, <1>5, <1>6, <1>7 DEF SweepInv

LEMMA FinishInv == ASSUME SweepInv, Finish PROVE SweepInv'
<1>1. SweepTyped /\ NoneLeft /\ Prepares /\ Current /\ Measured /\ RowsTrue
  BY DEF SweepInv
<1>2. SweepTyped'
  BY <1>1, SweepValues DEF Finish, SweepTyped, processes
<1>3. NoneLeft'
  BY <1>1 DEF Finish, NoneLeft, processes
<1>4. Prepares'
  BY <1>1 DEF Finish, Prepares, processes
<1>5. Current'
  BY <1>1, SweepValues DEF Finish, SweepTyped, Current, Prepares, Measuring, Params, processes
<1>6. Measured'
  BY <1>1 DEF Finish, Measured, Measuring, Params, processes
<1>7. RowsTrue'
  BY <1>1 DEF Finish, RowsTrue
<1> QED BY <1>2, <1>3, <1>4, <1>5, <1>6, <1>7 DEF SweepInv

LEMMA KillInv == ASSUME SweepInv, Kill PROVE SweepInv'
<1>1. SweepTyped /\ NoneLeft /\ Prepares /\ Current /\ Measured /\ RowsTrue
  BY DEF SweepInv
<1>2. SweepTyped'
  BY <1>1, SweepValues DEF Kill, SweepTyped, processes
<1>3. NoneLeft'
  BY <1>1 DEF Kill, NoneLeft, processes
<1>4. Prepares'
  BY <1>1 DEF Kill, Prepares, processes
<1>5. Current'
  BY <1>1, SweepValues DEF Kill, SweepTyped, Current, Prepares, Measuring, Params, processes
<1>6. Measured'
  BY <1>1 DEF Kill, Measured, Measuring, Params, processes
<1>7. RowsTrue'
  BY <1>1 DEF Kill, RowsTrue
<1> QED BY <1>2, <1>3, <1>4, <1>5, <1>6, <1>7 DEF SweepInv

LEMMA AgainInv == ASSUME SweepInv, Again PROVE SweepInv'
<1>1. SweepTyped /\ NoneLeft /\ Prepares /\ Current /\ Measured /\ RowsTrue
  BY DEF SweepInv
<1>2. SweepTyped'
  <2>1. combo' \in Combos /\ combo'[2] # 0
    BY <1>1 DEF Again, SweepTyped, Combos
  <2> QED BY <1>1, <2>1, SweepValues DEF Again, SweepTyped, processes
<1>3. NoneLeft'
  BY <1>1 DEF Again, NoneLeft, processes
<1>4. Prepares'
  BY <1>1 DEF Again, Prepares, processes
<1>5. Current'
  BY <1>1, SweepValues DEF Again, SweepTyped, Current, Prepares, Measuring, Params, processes
<1>6. Measured'
  BY <1>1 DEF Again, Measured, Measuring, Params, processes
<1>7. RowsTrue'
  BY <1>1 DEF Again, RowsTrue
<1> QED BY <1>2, <1>3, <1>4, <1>5, <1>6, <1>7 DEF SweepInv

LEMMA PlaneUpInv == ASSUME SweepInv, PlaneUp PROVE SweepInv'
<1>1. SweepTyped /\ NoneLeft /\ Prepares /\ Current /\ Measured /\ RowsTrue
  BY DEF SweepInv
<1>2. SweepTyped'
  <2>1. plane' \in Planes
    BY <1>1 DEF PlaneUp, SweepTyped, Planes
  <2> QED BY <1>1, <2>1 DEF PlaneUp, SweepTyped
<1>3. NoneLeft'
  BY <1>1 DEF PlaneUp, NoneLeft
<1>4. Prepares'
  BY <1>1 DEF PlaneUp, Prepares
<1>5. Current'
  BY <1>1, SweepValues DEF PlaneUp, SweepTyped, Current, Prepares, Measuring, Params
<1>6. Measured'
  BY <1>1 DEF PlaneUp, Measured, Measuring, Params
<1>7. RowsTrue'
  BY <1>1 DEF PlaneUp, RowsTrue
<1> QED BY <1>2, <1>3, <1>4, <1>5, <1>6, <1>7 DEF SweepInv

LEMMA ProxyStartsInv == ASSUME SweepInv, ProxyStarts PROVE SweepInv'
<1>1. SweepTyped /\ NoneLeft /\ Prepares /\ Current /\ Measured /\ RowsTrue
  BY DEF SweepInv
<1>2. SweepTyped'
  <2>1. relay' \in Relays
    BY <1>1 DEF ProxyStarts, SweepTyped, Relays
  <2> QED BY <1>1, <2>1 DEF ProxyStarts, SweepTyped
<1>3. NoneLeft'
  <2>1. relay # NoRelay
    BY DEF ProxyStarts, NoRelay
  <2> QED BY <1>1, <2>1 DEF ProxyStarts, NoneLeft
<1>4. Prepares'
  BY <1>1 DEF ProxyStarts, Prepares
<1>5. Current'
  BY <1>1, SweepValues DEF ProxyStarts, SweepTyped, Current, Prepares, Measuring, Params
<1>6. Measured'
  BY <1>1 DEF ProxyStarts, Measured, Measuring, Params
<1>7. RowsTrue'
  BY <1>1 DEF ProxyStarts, RowsTrue
<1> QED BY <1>2, <1>3, <1>4, <1>5, <1>6, <1>7 DEF SweepInv

LEMMA SenderConnectsInv == ASSUME SweepInv, SenderConnects PROVE SweepInv'
<1>1. SweepTyped /\ NoneLeft /\ Prepares /\ Current /\ Measured /\ RowsTrue
  BY DEF SweepInv
<1>2. SweepTyped'
  <2>1. senders' \in Validators
    BY <1>1 DEF SenderConnects, SweepTyped, Validators
  <2> QED BY <1>1, <2>1 DEF SenderConnects, SweepTyped
<1>3. NoneLeft'
  <2>1. senders # NoSenders
    BY DEF SenderConnects, NoSenders
  <2> QED BY <1>1, <2>1 DEF SenderConnects, NoneLeft
<1>4. Prepares'
  BY <1>1 DEF SenderConnects, Prepares
<1>5. Current'
  BY <1>1, SweepValues DEF SenderConnects, Served, SweepTyped, Current, Prepares, Measuring, Params
<1>6. Measured'
  BY <1>1 DEF SenderConnects, Served, Measured, Measuring, Params
<1>7. RowsTrue'
  BY <1>1 DEF SenderConnects, RowsTrue
<1> QED BY <1>2, <1>3, <1>4, <1>5, <1>6, <1>7 DEF SweepInv

LEMMA ReportInv == ASSUME SweepInv, Report PROVE SweepInv'
<1>1. SweepTyped /\ NoneLeft /\ Prepares /\ Current /\ Measured /\ RowsTrue
  BY DEF SweepInv
<1>2. SweepTyped'
  <2>1. plane.of \in Combos /\ senders.rate \in RateSet /\ relay.kind \in Names \cup {"none"}
    BY <1>1 DEF SweepTyped, Planes, Validators, Relays
  <2>2. ticks' \in Tick
    BY <2>1 DEF Report, Tick, Names
  <2>3. heard' \in BOOLEAN
    BY <1>1 DEF Report, SweepTyped
  <2> QED BY <1>1, <2>2, <2>3 DEF Report, SweepTyped, processes
<1>3. NoneLeft'
  BY <1>1 DEF Report, NoneLeft, processes
<1>4. Prepares'
  <2>1. window
    BY <1>1 DEF Report, NoneLeft, NoSenders, SweepTyped
  <2>2. window' = window /\ step' = step /\ written' = written /\ combo' = combo
    BY DEF Report
  <2> QED BY <1>1, <2>1, <2>2 DEF Prepares
<1>5. Current'
  BY <1>1, SweepValues DEF Report, Served, SweepTyped, Current, Prepares, Measuring, Params, processes
<1>6. Measured'
  <2>1. window /\ step # "read"
    BY <1>1 DEF Report, NoneLeft, NoSenders, SweepTyped, Prepares
  <2> SUFFICES ASSUME Measuring
               PROVE  ticks'.of = combo /\ ticks'.via = Params.mode /\ ticks'.rate = Params.sending_rate
    BY <2>1 DEF Report, Measured, Measuring, Params
  <2>2. /\ plane.of = combo /\ senders.to = Params.target /\ senders.rate = Params.sending_rate
        /\ relay.phase = "ready" => relay.kind = IF Params.fake_proxy THEN "fake_proxy" ELSE "real_proxy"
    BY <1>1 DEF Current, Report
  <2>3. senders.to # "plane" => relay.phase = "ready"
    BY <1>1, <2>2, ViaMode DEF Report, Served, Measuring
  <2>4. /\ Params.target = "plane" => Params.mode = "without_proxy"
        /\ Params.target # "plane" => Params.mode = IF Params.fake_proxy THEN "fake_proxy" ELSE "real_proxy"
    BY <1>1, ViaMode DEF Measuring
  <2> QED BY <2>2, <2>3, <2>4 DEF Report
<1>7. RowsTrue'
  BY <1>1 DEF Report, RowsTrue
<1> QED BY <1>2, <1>3, <1>4, <1>5, <1>6, <1>7 DEF SweepInv

\* Whose the processes are is known in every state that measure can reach.
THEOREM SweepInductive == Spec => []SweepInv
<1>1. SweepInv /\ [Next]_vars => SweepInv'
  <2> SUFFICES ASSUME SweepInv, [Next]_vars PROVE SweepInv'
    OBVIOUS
  <2>1. CASE WriteConfig
    BY <2>1, WriteConfigInv
  <2>2. CASE CreateWindow
    BY <2>2, CreateWindowInv
  <2>3. CASE StartProxy
    BY <2>3, StartProxyInv
  <2>4. CASE StartValidator
    BY <2>4, StartValidatorInv
  <2>5. CASE RemoveConfig
    BY <2>5, RemoveConfigInv
  <2>6. CASE Close
    BY <2>6, CloseInv
  <2>7. CASE ReadTicks
    BY <2>7, ReadTicksInv
  <2>8. CASE Finish
    BY <2>8, FinishInv
  <2>9. CASE Kill
    BY <2>9, KillInv
  <2>10. CASE Again
    BY <2>10, AgainInv
  <2>11. CASE PlaneUp
    BY <2>11, PlaneUpInv
  <2>12. CASE ProxyStarts
    BY <2>12, ProxyStartsInv
  <2>13. CASE SenderConnects
    BY <2>13, SenderConnectsInv
  <2>14. CASE Report
    BY <2>14, ReportInv
  <2>15. CASE UNCHANGED vars
    BY <2>15 DEF vars, processes, SweepInv, SweepTyped, NoneLeft, Prepares, Current, Measured, Measuring, RowsTrue, Params
  <2> QED
    BY <2>1, <2>2, <2>3, <2>4, <2>5, <2>6, <2>7, <2>8, <2>9, <2>10, <2>11, <2>12, <2>13, <2>14, <2>15 DEF Next
<1> QED BY <1>1, SweepInit, PTL DEF Spec

\* Whatever is swept and however often the script is killed: a row that has
\* heard the data plane is a measurement of its own combination, and nothing
\* else runs meanwhile (measure of simulate.py).
THEOREM AlwaysSweepTrue == Spec => []SweepTrue
<1>1. SweepInv => SweepTrue
  BY DEF SweepInv, SweepTrue, OwnProcesses, Current, Measuring
<1> QED BY <1>1, SweepInductive, PTL

(***************************************************************************)
(* The data plane that measures.                                           *)
(***************************************************************************)
Updates == [table : Tables, delay : 0..(Wrap - 1)]

Alone(u, k) == IF k \in {M!Total, u.table} THEN <<u>> ELSE <<>>
AloneOf(r, k) == [i \in DOMAIN r |-> Alone(r[i], k)]

LEMMA OfIs == ASSUME NEW r, NEW k PROVE M!Of(r, k) = FlattenSeq(AloneOf(r, k))
BY DEF M!Of, AloneOf, Alone, M!FlattenSeq, FlattenSeq

LEMMA OfType ==
  ASSUME NEW r \in Seq(Updates), NEW k
  PROVE  M!Of(r, k) \in Seq(Updates)
<1> DEFINE n == Len(r)
           f == AloneOf(r, k)
           Q == Seq(Updates)
<1>1. DOMAIN r = 1..n /\ n \in Nat /\ \A i \in 1..n : r[i] \in Updates
  BY LenProperties, ElementOfSeq
<1>2. \A u \in Updates : Alone(u, k) \in Q
  BY EmptySeq DEF Alone
<1>3. f = [i \in 1..n |-> Alone(r[i], k)]
  BY <1>1 DEF AloneOf
<1> HIDE DEF Q
<1>4. f \in [1..n -> Q]
  BY <1>1, <1>2, <1>3
<1> HIDE DEF f
<1>5. f \in Seq(Q)
  BY <1>1, <1>4, SeqDef
<1> QED BY <1>5, OfIs, FlattenType DEF f, Q

LEMMA OfTotal == ASSUME NEW r \in Seq(Updates) PROVE M!Of(r, M!Total) = r
<1>1. AloneOf(r, M!Total) = [i \in DOMAIN r |-> <<r[i]>>]
  BY DEF AloneOf, Alone
<1> QED BY <1>1, OfIs, FlattenSingles

LEMMA SumIsListSum == ASSUME NEW l PROVE M!Sum(l) = ListSum(l)
BY DEF M!Sum, ListSum, SumOver, M!MapThenSumSet, MapThenSumSet, M!MapThenFoldSet, MapThenFoldSet

\* The time an update took, by two readings of the clock less than a turn apart.
LEMMA DiffTrue ==
  ASSUME NEW now \in Wrap..(2 * Wrap - 1), NEW d \in 0..(Wrap - 1)
  PROVE  M!Diff(M!Stamp(now - d), M!Stamp(now)) = d
<1> DEFINE m == now - Wrap
<1>1. Wrap \in Nat \ {0} /\ m \in 0..(Wrap - 1) /\ now = Wrap * 1 + m /\ now \in Nat
  BY MeasureAssumption
<1>2. now % Wrap = m
  <2> HIDE DEF m
  <2> QED BY <1>1, Remainder
<1>3. CASE d <= m
  <2>1. now - d \in Nat /\ m - d \in 0..(Wrap - 1) /\ now - d = Wrap * 1 + (m - d)
    BY <1>1, <1>3
  <2>2. (now - d) % Wrap = m - d
    BY <1>1, <2>1, Remainder
  <2>3. m - d <= m /\ m - (m - d) = d
    BY <1>1, <1>3
  <2> QED BY <1>2, <2>2, <2>3 DEF M!Diff, M!Stamp
<1>4. CASE ~ (d <= m)
  <2>1. now - d \in Nat /\ now - d \in 0..(Wrap - 1) /\ now - d = Wrap * 0 + (now - d)
    BY <1>1, <1>4
  <2>2. (now - d) % Wrap = now - d
    BY <1>1, <2>1, Remainder
  <2>3. ~ (now - d <= m) /\ m - ((now - d) - Wrap) = d
    BY <1>1, <1>4
  <2> QED BY <1>2, <2>2, <2>3 DEF M!Diff, M!Stamp
<1> QED BY <1>3, <1>4

LEMMA TookType ==
  ASSUME NEW r \in Seq(Updates), NEW k
  PROVE  /\ M!Took(r, k) \in Seq(Nat) /\ Len(M!Took(r, k)) = Len(M!Of(r, k)) /\ Len(M!Of(r, k)) \in Nat
         /\ \A now \in Wrap..(2 * Wrap - 1) : M!Measured(r, k, now) = M!Took(r, k)
<1> DEFINE s == M!Of(r, k)
           n == Len(s)
<1>1. s \in Seq(Updates)
  BY OfType
<1>2. M!Took(r, k) = [i \in DOMAIN s |-> s[i].delay]
  BY DEF M!Took
<1>3. \A now : M!Measured(r, k, now) = [i \in DOMAIN s |-> M!Diff(M!Stamp(now - s[i].delay), M!Stamp(now))]
  BY DEF M!Measured
<1> HIDE DEF s
<1>4. DOMAIN s = 1..n /\ n \in Nat /\ \A i \in 1..n : s[i].delay \in 0..(Wrap - 1)
  <2>1. DOMAIN s = 1..n /\ n \in Nat /\ \A i \in 1..n : s[i] \in Updates
    BY <1>1, LenProperties, ElementOfSeq
  <2> QED BY <2>1 DEF Updates
<1>5. M!Took(r, k) \in [1..n -> Nat]
  BY <1>2, <1>4, MeasureAssumption
<1>6. M!Took(r, k) \in Seq(Nat)
  BY <1>4, <1>5, SeqDef
<1>7. Len(M!Took(r, k)) = n
  BY <1>4, <1>5, <1>6, LenProperties
<1>8. ASSUME NEW now \in Wrap..(2 * Wrap - 1)
      PROVE  M!Measured(r, k, now) = M!Took(r, k)
  <2>1. \A i \in DOMAIN s : M!Diff(M!Stamp(now - s[i].delay), M!Stamp(now)) = s[i].delay
    BY <1>4, DiffTrue
  <2> QED BY <1>2, <1>3, <2>1
<1> QED BY <1>4, <1>6, <1>7, <1>8 DEF s

Means == Nat \X Nat
DataType == [ticks : Seq(Nat), delays : Seq(Means)]
Stages == {"idle", "look", "create", "count"}
MeasureTypeOK ==
  /\ at \in [Threads -> Stages] /\ request \in [Threads -> Seq(Updates)]
  /\ creations \in Nat /\ counter \in Nat /\ order \in Seq(Tables)
  /\ tick \in [M!Keys -> Nat] /\ average \in [M!Keys -> Means] /\ data \in [M!Keys -> DataType]
  /\ counted \in [M!Keys -> Nat] /\ delays \in [M!Keys -> Seq(Nat)]
  /\ dead \in BOOLEAN /\ silent \in BOOLEAN

\* Nothing is counted before there is a TickCounter.
CountingInv ==
  /\ \A w \in Threads : at[w] # "idle" => request[w] # <<>>
  /\ creations = 0 =>
       /\ counter = 0 /\ counted[M!Total] = 0 /\ data[M!Total].ticks = <<>>
       /\ \A w \in Threads : at[w] # "count"

\* As long as no table has been silent, a table has an average if it has ticks, ...
Heard ==
  /\ \A t \in Tables : average[t][2] = tick[t] /\ (t \notin M!ToSet(order) => tick[t] = 0)
  /\ \A k \in M!Keys : \A i \in DOMAIN data[k].delays : data[k].delays[i] # M!None

\* ... and so no report has raised.
AliveInv == ~silent => ~dead /\ Heard

MeasureInv == MeasureTypeOK /\ CountingInv /\ M!TablesAddUp /\ M!TotalAddsUp /\ M!MeansTrue /\ AliveInv

LEMMA KeysAre == M!Total \in M!Keys /\ M!Total \notin Tables /\ Tables \subseteq M!Keys
BY MeasureAssumption DEF M!Keys, M!Total

(***************************************************************************)
(* What Count does, in terms of the call.                                  *)
(***************************************************************************)
TheSeen(w) == M!Seen(request[w])
TheAverages(w, now) == M!Averages(request[w], now)
TheTicks(w) == [k \in M!Keys |-> tick[k] + Len(M!Of(request[w], k))]
TheDelays(w, now, k) == Append(data[k].delays, TheAverages(w, now)[k])
TheBad(w, now) == {i \in DOMAIN TheSeen(w) : M!Raises(TheDelays(w, now, TheSeen(w)[i]))}
HasRaised(w, now) == M!Raises(TheDelays(w, now, M!Total)) \/ TheBad(w, now) # {}
TheLast(w, now) == IF TheBad(w, now) = {} THEN Len(TheSeen(w)) ELSE M!Min(TheBad(w, now))
TheTables(w, now) ==
  IF M!Raises(TheDelays(w, now, M!Total)) THEN {} ELSE {TheSeen(w)[i] : i \in 1..TheLast(w, now)}

Counted(w, now, due) ==
  /\ at[w] = "count" /\ at' = [at EXCEPT ![w] = "idle"]
  /\ UNCHANGED <<request, began, warm, creations>>
  /\ order' = TheSeen(w)
  /\ counted' = [k \in M!Keys |-> counted[k] + Len(M!Of(request[w], k))]
  /\ delays' = [k \in M!Keys |-> IF due /\ ~HasRaised(w, now) THEN <<>> ELSE delays[k] \o M!Took(request[w], k)]
  /\ silent' = (silent \/ (due /\ \E t \in M!ToSet(TheSeen(w)) : TheTicks(w)[t] = 0))

Reported(w, now) ==
  /\ counter' = 0
  /\ tick' = [k \in M!Keys |-> IF k \in TheTables(w, now) THEN 0 ELSE TheTicks(w)[k]]
  /\ data' = [k \in M!Keys |->
       IF k = M!Total
       THEN [ticks |-> Append(data[k].ticks, counter + Len(request[w])), delays |-> TheDelays(w, now, k)]
       ELSE IF k \in TheTables(w, now)
       THEN [ticks |-> Append(data[k].ticks, TheTicks(w)[k]), delays |-> TheDelays(w, now, k)]
       ELSE data[k]]
  /\ dead' = (dead \/ HasRaised(w, now))
  /\ average' = IF HasRaised(w, now) THEN TheAverages(w, now) ELSE M!Each(M!None)

Unreported(w, now) ==
  /\ counter' = counter + Len(request[w]) /\ tick' = TheTicks(w)
  /\ average' = TheAverages(w, now) /\ UNCHANGED <<data, dead>>

LEMMA CountIs ==
  ASSUME NEW w, NEW now, NEW due \in BOOLEAN, M!Count(w, now, due)
  PROVE  Counted(w, now, due) /\ (due => Reported(w, now)) /\ (~due => Unreported(w, now))
BY DEF M!Count, TheSeen, TheAverages, TheTicks, TheDelays, TheBad, HasRaised, TheLast, TheTables, M!ResetTicks,
       Counted, Reported, Unreported

\* The tables seen so far and those of the request.
LEMMA SeenType ==
  ASSUME order \in Seq(Tables), NEW r
  PROVE  /\ M!Seen(r) \in Seq(Tables)
         /\ \A t \in Tables : t \in M!ToSet(order) \/ M!Of(r, t) # <<>> => t \in M!ToSet(M!Seen(r))
<1> DEFINE Some == {t \in Tables \ M!ToSet(order) : M!Of(r, t) # <<>>}
           new == SetToSeq(Some)
<1>1. M!Seen(r) = order \o new
  BY DEF M!Seen, M!SetToSeq, SetToSeq, M!IsInjective, IsInjective, M!Cardinality, Cardinality
<1>2. Some \subseteq Tables /\ IsFiniteSet(Some)
  BY MeasureAssumption, FS_Subset
<1>3. new \in Seq(Tables) /\ \A x \in Some : \E i \in 1..Len(new) : new[i] = x
  <2> HIDE DEF Some
  <2>1. new \in Seq(Some) /\ \A x \in Some : \E i \in 1..Len(new) : new[i] = x
    BY <1>2, SetInOrder
  <2> HIDE DEF new
  <2> QED BY <1>2, <2>1, SeqMonotonic
<1> HIDE DEF new
<1>4. /\ order \o new \in Seq(Tables) /\ Len(order \o new) = Len(order) + Len(new)
      /\ \A i \in 1..(Len(order) + Len(new)) : (order \o new)[i] = IF i <= Len(order) THEN order[i] ELSE new[i - Len(order)]
      /\ Len(order) \in Nat /\ Len(new) \in Nat /\ DOMAIN order = 1..Len(order)
  BY <1>3, ConcatProperties, LenProperties
<1>5. DOMAIN (order \o new) = 1..(Len(order) + Len(new))
  BY <1>4, LenProperties
<1>6. ASSUME NEW t \in M!ToSet(order) PROVE t \in M!ToSet(order \o new)
  <2>1. PICK i \in 1..Len(order) : order[i] = t
    BY <1>4, <1>6 DEF M!ToSet
  <2>2. i \in 1..(Len(order) + Len(new)) /\ i <= Len(order)
    BY <1>4
  <2>3. i \in DOMAIN (order \o new) /\ (order \o new)[i] = t
    BY <1>4, <1>5, <2>1, <2>2
  <2> QED BY <2>3 DEF M!ToSet
<1>7. ASSUME NEW t \in Some PROVE t \in M!ToSet(order \o new)
  <2>1. PICK i \in 1..Len(new) : new[i] = t
    BY <1>3, <1>7
  <2>2. /\ Len(order) + i \in 1..(Len(order) + Len(new)) /\ ~ (Len(order) + i <= Len(order))
        /\ (Len(order) + i) - Len(order) = i
    BY <1>4
  <2>3. Len(order) + i \in DOMAIN (order \o new) /\ (order \o new)[Len(order) + i] = t
    BY <1>4, <1>5, <2>1, <2>2
  <2> QED BY <2>3 DEF M!ToSet
<1> QED BY <1>1, <1>4, <1>6, <1>7

LEMMA CountTypes ==
  ASSUME MeasureTypeOK, NEW w \in Threads, NEW now \in Wrap..(2 * Wrap - 1)
  PROVE  /\ TheSeen(w) \in Seq(Tables) /\ DOMAIN TheSeen(w) = 1..Len(TheSeen(w))
         /\ Len(request[w]) \in Nat /\ Len(M!Of(request[w], M!Total)) = Len(request[w])
         /\ TheTicks(w) \in [M!Keys -> Nat] /\ TheAverages(w, now) \in [M!Keys -> Means]
         /\ \A k \in M!Keys :
              /\ Len(M!Of(request[w], k)) \in Nat /\ M!Took(request[w], k) \in Seq(Nat)
              /\ Len(M!Took(request[w], k)) = Len(M!Of(request[w], k))
              /\ TheTicks(w)[k] = tick[k] + Len(M!Of(request[w], k))
              /\ TheAverages(w, now)[k] = <<average[k][1] + ListSum(M!Took(request[w], k)),
                                            average[k][2] + Len(M!Of(request[w], k))>>
              /\ TheDelays(w, now, k) \in Seq(Means)
         /\ TheTables(w, now) \subseteq Tables
<1> DEFINE r == request[w]
<1>1. r \in Seq(Updates) /\ order \in Seq(Tables)
  BY DEF MeasureTypeOK
<1> HIDE DEF r
<1>2. TheSeen(w) \in Seq(Tables) /\ DOMAIN TheSeen(w) = 1..Len(TheSeen(w)) /\ Len(TheSeen(w)) \in Nat
  <2>1. TheSeen(w) \in Seq(Tables)
    BY <1>1, SeenType DEF TheSeen
  <2> QED BY <2>1, LenProperties
<1>3. Len(r) \in Nat /\ Len(M!Of(r, M!Total)) = Len(r)
  BY <1>1, OfTotal, LenProperties
<1>4. ASSUME NEW k \in M!Keys
      PROVE  /\ Len(M!Of(r, k)) \in Nat /\ M!Took(r, k) \in Seq(Nat)
             /\ Len(M!Took(r, k)) = Len(M!Of(r, k))
             /\ TheTicks(w)[k] = tick[k] + Len(M!Of(r, k)) /\ TheTicks(w)[k] \in Nat
             /\ TheAverages(w, now)[k] = <<average[k][1] + ListSum(M!Took(r, k)), average[k][2] + Len(M!Of(r, k))>>
             /\ TheAverages(w, now)[k] \in Means
             /\ TheDelays(w, now, k) \in Seq(Means)
  <2>1. Len(M!Of(r, k)) \in Nat /\ M!Took(r, k) \in Seq(Nat) /\ Len(M!Took(r, k)) = Len(M!Of(r, k))
        /\ M!Measured(r, k, now) = M!Took(r, k)
    BY <1>1, TookType
  <2>2. ListSum(M!Took(r, k)) \in Nat
    BY <2>1, ListSumType
  <2>3. tick[k] \in Nat /\ average[k][1] \in Nat /\ average[k][2] \in Nat /\ data[k].delays \in Seq(Means)
    BY DEF MeasureTypeOK, Means, DataType
  <2>4. TheTicks(w)[k] = tick[k] + Len(M!Of(r, k))
    BY DEF TheTicks, r
  <2>5. TheAverages(w, now)[k] = <<average[k][1] + ListSum(M!Took(r, k)), average[k][2] + Len(M!Of(r, k))>>
    <3>1. TheAverages(w, now)[k] = M!AddValues(average[k], M!Measured(r, k, now))
      BY DEF TheAverages, M!Averages, r
    <3> QED BY <2>1, <3>1, SumIsListSum DEF M!AddValues
  <2>6. TheAverages(w, now)[k] \in Means
    BY <2>1, <2>2, <2>3, <2>5 DEF Means
  <2>7. TheDelays(w, now, k) \in Seq(Means)
    BY <2>3, <2>6, AppendProperties DEF TheDelays
  <2> QED BY <2>1, <2>3, <2>4, <2>5, <2>6, <2>7
<1>5. TheTicks(w) \in [M!Keys -> Nat] /\ TheAverages(w, now) \in [M!Keys -> Means]
  <2>1. DOMAIN TheTicks(w) = M!Keys /\ DOMAIN TheAverages(w, now) = M!Keys
    BY DEF TheTicks, TheAverages, M!Averages
  <2>2. TheTicks(w) = [k \in M!Keys |-> TheTicks(w)[k]] /\ TheAverages(w, now) = [k \in M!Keys |-> TheAverages(w, now)[k]]
    BY DEF TheTicks, TheAverages, M!Averages
  <2> QED BY <1>4, <2>2
<1>6. TheTables(w, now) \subseteq Tables
  <2>1. CASE TheBad(w, now) = {}
    <3>1. TheLast(w, now) = Len(TheSeen(w))
      BY <2>1 DEF TheLast
    <3>2. \A i \in 1..Len(TheSeen(w)) : TheSeen(w)[i] \in Tables
      BY <1>2, ElementOfSeq
    <3> QED BY <3>1, <3>2 DEF TheTables
  <2>2. CASE TheBad(w, now) # {}
    <3>1. TheBad(w, now) \subseteq 1..Len(TheSeen(w))
      BY <1>2 DEF TheBad
    <3>2. \E n \in TheBad(w, now) : \A m \in TheBad(w, now) : n <= m
      BY <1>2, <2>2, <3>1, Least
    <3>3. TheLast(w, now) \in TheBad(w, now)
      BY <2>2, <3>2 DEF TheLast, M!Min
    <3>4. \A i \in 1..TheLast(w, now) : i \in 1..Len(TheSeen(w))
      BY <1>2, <3>1, <3>3
    <3>5. \A i \in 1..TheLast(w, now) : TheSeen(w)[i] \in Tables
      BY <1>2, <3>4, ElementOfSeq
    <3> QED BY <3>5 DEF TheTables
  <2> QED BY <2>1, <2>2
<1> QED BY <1>2, <1>3, <1>4, <1>5, <1>6 DEF r

LEMMA CountKeepsTypes ==
  ASSUME MeasureTypeOK, NEW w \in Threads, NEW now \in Wrap..(2 * Wrap - 1), NEW due \in BOOLEAN,
         M!Count(w, now, due)
  PROVE  MeasureTypeOK'
<1>0. Counted(w, now, due) /\ (due => Reported(w, now)) /\ (~due => Unreported(w, now))
  BY CountIs
<1>1. /\ Len(request[w]) \in Nat /\ TheTicks(w) \in [M!Keys -> Nat] /\ TheAverages(w, now) \in [M!Keys -> Means]
      /\ TheSeen(w) \in Seq(Tables)
  BY CountTypes
<1>2. \A k \in M!Keys :
        /\ Len(M!Of(request[w], k)) \in Nat /\ M!Took(request[w], k) \in Seq(Nat)
        /\ TheTicks(w)[k] \in Nat /\ TheDelays(w, now, k) \in Seq(Means)
  BY CountTypes
<1>3. at' \in [Threads -> Stages] /\ request' = request /\ creations' = creations /\ order' \in Seq(Tables)
  BY <1>1, <1>0 DEF MeasureTypeOK, Stages, Counted, Reported, Unreported
<1>4. counted' \in [M!Keys -> Nat]
  <2>1. counted' = [k \in M!Keys |-> counted[k] + Len(M!Of(request[w], k))]
    BY <1>0 DEF Counted, Reported, Unreported
  <2>2. \A k \in M!Keys : counted[k] + Len(M!Of(request[w], k)) \in Nat
    BY <1>2 DEF MeasureTypeOK
  <2> QED BY <2>1, <2>2
<1>5. delays' \in [M!Keys -> Seq(Nat)]
  <2>1. delays' = [k \in M!Keys |-> IF due /\ ~HasRaised(w, now) THEN <<>> ELSE delays[k] \o M!Took(request[w], k)]
    BY <1>0 DEF Counted, Reported, Unreported
  <2>2. \A k \in M!Keys : delays[k] \o M!Took(request[w], k) \in Seq(Nat)
    BY <1>2, ConcatProperties DEF MeasureTypeOK
  <2> QED BY <2>1, <2>2, EmptySeq
<1>6. silent' \in BOOLEAN /\ dead' \in BOOLEAN
  BY <1>0 DEF MeasureTypeOK, HasRaised, M!Raises, Counted, Reported, Unreported
<1>7. M!Each(M!None) \in [M!Keys -> Means]
  BY DEF M!Each, M!None, Means
<1>8. CASE due
  <2>1. counter' = 0
    BY <1>8, <1>0 DEF Counted, Reported, Unreported
  <2>2. tick' \in [M!Keys -> Nat]
    <3>1. tick' = [k \in M!Keys |-> IF k \in TheTables(w, now) THEN 0 ELSE TheTicks(w)[k]]
      BY <1>8, <1>0 DEF Counted, Reported, Unreported
    <3> QED BY <1>2, <3>1
  <2>3. average' \in [M!Keys -> Means]
    BY <1>1, <1>7, <1>8, <1>0 DEF Counted, Reported, Unreported
  <2>4. data' \in [M!Keys -> DataType]
    <3>1. data' = [k \in M!Keys |->
                   IF k = M!Total
                   THEN [ticks |-> Append(data[k].ticks, counter + Len(request[w])), delays |-> TheDelays(w, now, k)]
                   ELSE IF k \in TheTables(w, now)
                   THEN [ticks |-> Append(data[k].ticks, TheTicks(w)[k]), delays |-> TheDelays(w, now, k)]
                   ELSE data[k]]
      BY <1>8, <1>0 DEF Counted, Reported, Unreported
    <3>2. counter + Len(request[w]) \in Nat
      BY <1>1 DEF MeasureTypeOK
    <3>3. ASSUME NEW k \in M!Keys
          PROVE  /\ [ticks |-> Append(data[k].ticks, counter + Len(request[w])), delays |-> TheDelays(w, now, k)] \in DataType
                 /\ [ticks |-> Append(data[k].ticks, TheTicks(w)[k]), delays |-> TheDelays(w, now, k)] \in DataType
                 /\ data[k] \in DataType
      <4>1. data[k] \in DataType /\ data[k].ticks \in Seq(Nat)
        BY DEF MeasureTypeOK, DataType
      <4>2. Append(data[k].ticks, counter + Len(request[w])) \in Seq(Nat) /\ Append(data[k].ticks, TheTicks(w)[k]) \in Seq(Nat)
        BY <1>2, <3>2, <4>1, AppendProperties
      <4> QED BY <1>2, <4>1, <4>2 DEF DataType
    <3> QED BY <3>1, <3>3
  <2> QED BY <1>3, <1>4, <1>5, <1>6, <2>1, <2>2, <2>3, <2>4 DEF MeasureTypeOK
<1>9. CASE ~due
  <2>1. counter' \in Nat /\ tick' \in [M!Keys -> Nat] /\ average' \in [M!Keys -> Means] /\ data' = data
    BY <1>1, <1>9, <1>0 DEF MeasureTypeOK, Counted, Reported, Unreported
  <2> QED BY <1>3, <1>4, <1>5, <1>6, <2>1 DEF MeasureTypeOK
<1> QED BY <1>8, <1>9

LEMMA CountKeepsCounting ==
  ASSUME MeasureTypeOK, CountingInv, NEW w \in Threads, NEW now \in Wrap..(2 * Wrap - 1), NEW due \in BOOLEAN,
         M!Count(w, now, due)
  PROVE  CountingInv'
<1>0. Counted(w, now, due) /\ (due => Reported(w, now)) /\ (~due => Unreported(w, now))
  BY CountIs
<1>1. at[w] = "count" /\ creations # 0
  BY <1>0 DEF CountingInv, Counted, Reported, Unreported
<1>2. creations' = creations /\ request' = request /\ \A v \in Threads : at'[v] # "idle" => at[v] # "idle"
  BY <1>0 DEF MeasureTypeOK, Counted, Reported, Unreported
<1> QED BY <1>1, <1>2 DEF CountingInv

LEMMA CountKeepsTables ==
  ASSUME MeasureTypeOK, M!TablesAddUp, NEW w \in Threads, NEW now \in Wrap..(2 * Wrap - 1), NEW due \in BOOLEAN,
         M!Count(w, now, due)
  PROVE  M!TablesAddUp'
<1> SUFFICES ASSUME NEW t \in Tables PROVE M!Sum(data'[t].ticks) + tick'[t] = counted'[t]
  BY DEF M!TablesAddUp
<1> DEFINE new == Len(M!Of(request[w], t))
           sum == M!Sum(data[t].ticks)
<1>0. Counted(w, now, due) /\ (due => Reported(w, now)) /\ (~due => Unreported(w, now))
  BY CountIs
<1>1. t \in M!Keys /\ t # M!Total
  BY KeysAre
<1>2. sum + tick[t] = counted[t] /\ tick[t] \in Nat /\ counted[t] \in Nat /\ data[t].ticks \in Seq(Nat)
  BY <1>1 DEF M!TablesAddUp, MeasureTypeOK, DataType
<1>3. sum = ListSum(data[t].ticks) /\ sum \in Nat
  BY <1>2, SumIsListSum, ListSumType
<1>4. new \in Nat /\ TheTicks(w)[t] = tick[t] + new /\ TheTicks(w)[t] \in Nat
  BY <1>1, CountTypes
<1>5. counted'[t] = counted[t] + new
  BY <1>1, <1>0 DEF Counted, Reported, Unreported
<1> HIDE DEF new, sum
<1>6. CASE due /\ t \in TheTables(w, now)
  <2>1. tick'[t] = 0 /\ data'[t].ticks = Append(data[t].ticks, TheTicks(w)[t])
    BY <1>1, <1>6, <1>0 DEF Counted, Reported, Unreported
  <2>2. M!Sum(data'[t].ticks) = sum + TheTicks(w)[t]
    BY <1>2, <1>3, <1>4, <2>1, SumIsListSum, ListSumAppend
  <2> QED BY <1>2, <1>3, <1>4, <1>5, <2>1, <2>2
<1>7. CASE due /\ t \notin TheTables(w, now)
  <2>1. tick'[t] = TheTicks(w)[t] /\ data'[t] = data[t]
    BY <1>1, <1>7, <1>0 DEF Counted, Reported, Unreported
  <2> QED BY <1>2, <1>3, <1>4, <1>5, <2>1 DEF sum
<1>8. CASE ~due
  <2>1. tick'[t] = TheTicks(w)[t] /\ data'[t] = data[t]
    BY <1>8, <1>0 DEF Counted, Reported, Unreported
  <2> QED BY <1>2, <1>3, <1>4, <1>5, <2>1 DEF sum
<1> QED BY <1>6, <1>7, <1>8

LEMMA CountKeepsTotal ==
  ASSUME MeasureTypeOK, M!TotalAddsUp, NEW w \in Threads, NEW now \in Wrap..(2 * Wrap - 1), NEW due \in BOOLEAN,
         M!Count(w, now, due)
  PROVE  M!TotalAddsUp'
<1> SUFFICES ASSUME creations' < 2 PROVE M!Sum(data'[M!Total].ticks) + counter' = counted'[M!Total]
  BY DEF M!TotalAddsUp
<1> DEFINE new == Len(request[w])
           sum == M!Sum(data[M!Total].ticks)
<1>0. Counted(w, now, due) /\ (due => Reported(w, now)) /\ (~due => Unreported(w, now))
  BY CountIs
<1>1. creations' = creations /\ M!Total \in M!Keys
  BY <1>0, KeysAre DEF Counted, Reported, Unreported
<1>2. /\ sum + counter = counted[M!Total] /\ counter \in Nat /\ counted[M!Total] \in Nat
      /\ data[M!Total].ticks \in Seq(Nat)
  BY <1>1 DEF M!TotalAddsUp, MeasureTypeOK, DataType
<1>3. sum = ListSum(data[M!Total].ticks) /\ sum \in Nat
  BY <1>2, SumIsListSum, ListSumType
<1>4. new \in Nat /\ Len(M!Of(request[w], M!Total)) = new
  BY CountTypes
<1>5. counted'[M!Total] = counted[M!Total] + new
  BY <1>1, <1>4, <1>0 DEF Counted, Reported, Unreported
<1> HIDE DEF sum
<1>6. CASE due
  <2>1. counter' = 0 /\ data'[M!Total].ticks = Append(data[M!Total].ticks, counter + new)
    BY <1>1, <1>6, <1>0 DEF Counted, Reported, Unreported
  <2> HIDE DEF new
  <2> DEFINE more == counter + new
             reported == data[M!Total].ticks
  <2>3. more \in Nat /\ reported \in Seq(Nat)
    BY <1>2, <1>4
  <2>4. data'[M!Total].ticks = Append(reported, more)
    BY <2>1
  <2>5. sum = ListSum(reported)
    BY <1>3
  <2> HIDE DEF more, reported
  <2>6. M!Sum(data'[M!Total].ticks) = sum + more
    BY <2>3, <2>4, <2>5, SumIsListSum, ListSumAppend
  <2>2. M!Sum(data'[M!Total].ticks) = sum + (counter + new)
    BY <2>6 DEF more
  <2> QED BY <1>2, <1>3, <1>4, <1>5, <2>1, <2>2
<1>7. CASE ~due
  <2>1. counter' = counter + new /\ data' = data
    BY <1>7, <1>0 DEF Counted, Reported, Unreported
  <2> HIDE DEF new
  <2> QED BY <1>2, <1>3, <1>4, <1>5, <2>1 DEF sum
<1> QED BY <1>6, <1>7

LEMMA CountKeepsMeans ==
  ASSUME MeasureTypeOK, M!MeansTrue, NEW w \in Threads, NEW now \in Wrap..(2 * Wrap - 1), NEW due \in BOOLEAN,
         M!Count(w, now, due)
  PROVE  M!MeansTrue'
<1> SUFFICES ASSUME NEW k \in M!Keys PROVE average'[k] = <<M!Sum(delays'[k]), Len(delays'[k])>>
  BY DEF M!MeansTrue
<1> DEFINE took == M!Took(request[w], k)
<1>0. Counted(w, now, due) /\ (due => Reported(w, now)) /\ (~due => Unreported(w, now))
  BY CountIs
<1>1. /\ took \in Seq(Nat) /\ Len(took) = Len(M!Of(request[w], k)) /\ delays[k] \in Seq(Nat)
      /\ average[k] = <<M!Sum(delays[k]), Len(delays[k])>>
      /\ TheAverages(w, now)[k] = <<average[k][1] + ListSum(took), average[k][2] + Len(M!Of(request[w], k))>>
  BY CountTypes DEF M!MeansTrue, MeasureTypeOK
<1>2. CASE due /\ ~HasRaised(w, now)
  <2>1. average'[k] = M!None /\ delays'[k] = <<>>
    BY <1>2, <1>0 DEF M!Each, Counted, Reported, Unreported
  <2>2. M!Sum(<<>>) = 0 /\ Len(<<>>) = 0
    BY SumIsListSum, ListSumEmpty
  <2> QED BY <2>1, <2>2 DEF M!None
<1>3. CASE ~ (due /\ ~HasRaised(w, now))
  <2>1. average' = TheAverages(w, now)
    BY <1>3, <1>0 DEF Counted, Reported, Unreported
  <2>2. delays'[k] = delays[k] \o took
    BY <1>3, <1>0 DEF Counted, Reported, Unreported
  <2> HIDE DEF took
  <2>3. M!Sum(delays[k] \o took) = M!Sum(delays[k]) + ListSum(took) /\ Len(delays[k] \o took) = Len(delays[k]) + Len(took)
    BY <1>1, SumIsListSum, ListSumConcat, ConcatProperties
  <2>4. average[k][1] = M!Sum(delays[k]) /\ average[k][2] = Len(delays[k])
    BY <1>1
  <2>5. TheAverages(w, now)[k] = <<M!Sum(delays[k]) + ListSum(took), Len(delays[k]) + Len(took)>>
    BY <1>1, <2>4
  <2> QED BY <2>1, <2>2, <2>3, <2>5
<1> QED BY <1>2, <1>3

LEMMA CountKeepsAlive ==
  ASSUME MeasureTypeOK, CountingInv, AliveInv, NEW w \in Threads, NEW now \in Wrap..(2 * Wrap - 1), NEW due \in BOOLEAN,
         M!Count(w, now, due)
  PROVE  AliveInv'
<1> SUFFICES ASSUME ~silent' PROVE ~dead' /\ Heard'
  BY DEF AliveInv
<1>0. Counted(w, now, due) /\ (due => Reported(w, now)) /\ (~due => Unreported(w, now))
  BY CountIs
<1>1. /\ ~silent /\ ~dead /\ Heard
      /\ due => \A t \in M!ToSet(TheSeen(w)) : TheTicks(w)[t] # 0
  BY <1>0 DEF AliveInv, Counted, Reported, Unreported
<1>2. \A k \in M!Keys :
        /\ Len(M!Of(request[w], k)) \in Nat /\ TheTicks(w)[k] = tick[k] + Len(M!Of(request[w], k))
        /\ TheAverages(w, now)[k][2] = average[k][2] + Len(M!Of(request[w], k))
        /\ average[k][2] \in Nat /\ tick[k] \in Nat
  BY CountTypes DEF MeasureTypeOK, Means
<1>3. \A t \in Tables : t \in M!Keys /\ TheAverages(w, now)[t][2] = TheTicks(w)[t]
  BY <1>1, <1>2, KeysAre DEF Heard
<1>4. \A t \in Tables : t \notin M!ToSet(TheSeen(w)) => TheTicks(w)[t] = 0
  <2>1. order \in Seq(Tables)
    BY DEF MeasureTypeOK
  <2>2. ASSUME NEW t \in Tables, t \notin M!ToSet(TheSeen(w)) PROVE TheTicks(w)[t] = 0
    <3>1. t \notin M!ToSet(order) /\ M!Of(request[w], t) = <<>>
      BY <2>1, <2>2, SeenType DEF TheSeen
    <3>2. tick[t] = 0
      BY <1>1, <3>1 DEF Heard
    <3>3. Len(M!Of(request[w], t)) = 0
      BY <3>1, EmptySeq
    <3>4. TheTicks(w)[t] = tick[t] + Len(M!Of(request[w], t))
      BY <1>2, <1>3
    <3> QED BY <3>2, <3>3, <3>4
  <2> QED BY <2>2
<1>5. order' = TheSeen(w)
  BY <1>0 DEF Counted, Reported, Unreported
<1>6. CASE due
  <2>1. TheAverages(w, now)[M!Total] # M!None
    <3>1. request[w] # <<>> /\ request[w] \in Seq(Updates)
      BY <1>0 DEF CountingInv, MeasureTypeOK, Counted, Reported, Unreported
    <3>2. Len(request[w]) \in Nat \ {0} /\ Len(M!Of(request[w], M!Total)) = Len(request[w])
      BY <3>1, CountTypes, EmptySeq
    <3>3. TheAverages(w, now)[M!Total][2] # 0
      BY <1>2, <3>2, KeysAre
    <3> QED BY <3>3 DEF M!None
  <2>2. \A t \in M!ToSet(TheSeen(w)) : t \in Tables /\ TheAverages(w, now)[t] # M!None
    <3>1. \A t \in M!ToSet(TheSeen(w)) : t \in Tables
      BY CountTypes, ElementOfSeq DEF M!ToSet
    <3>2. \A t \in M!ToSet(TheSeen(w)) : TheAverages(w, now)[t][2] # 0
      BY <1>1, <1>3, <1>6, <3>1
    <3> QED BY <3>1, <3>2 DEF M!None
  <2>3. ASSUME NEW k \in M!Keys, TheAverages(w, now)[k] # M!None
        PROVE  ~M!Raises(TheDelays(w, now, k)) /\ \A i \in DOMAIN TheDelays(w, now, k) : TheDelays(w, now, k)[i] # M!None
    <3> DEFINE list == data[k].delays
               a == TheAverages(w, now)[k]
    <3>1. list \in Seq(Means) /\ a \in Means /\ \A i \in DOMAIN list : list[i] # M!None
      BY <1>1, CountTypes DEF Heard, MeasureTypeOK, DataType
    <3>2. TheDelays(w, now, k) = Append(list, a)
      BY DEF TheDelays
    <3>3. a # M!None
      BY <2>3
    <3> HIDE DEF list, a
    <3>4. DOMAIN list = 1..Len(list) /\ Len(list) \in Nat /\ DOMAIN Append(list, a) = 1..(Len(list) + 1)
          /\ \A i \in 1..Len(list) : Append(list, a)[i] = list[i]
          /\ Append(list, a)[Len(list) + 1] = a
      BY <3>1, AppendProperties, LenProperties
    <3>5. ASSUME NEW i \in DOMAIN Append(list, a) PROVE Append(list, a)[i] # M!None
      <4>1. i \in 1..Len(list) \/ i = Len(list) + 1
        BY <3>4
      <4> QED BY <3>1, <3>3, <3>4, <4>1
    <3> QED BY <3>2, <3>5 DEF M!Raises
  <2>4. ~HasRaised(w, now) /\ ~M!Raises(TheDelays(w, now, M!Total)) /\ TheBad(w, now) = {}
    <3>1. ~M!Raises(TheDelays(w, now, M!Total))
      BY <2>1, <2>3, KeysAre
    <3>2. ASSUME NEW i \in DOMAIN TheSeen(w) PROVE ~M!Raises(TheDelays(w, now, TheSeen(w)[i]))
      <4>1. TheSeen(w)[i] \in M!ToSet(TheSeen(w))
        BY DEF M!ToSet
      <4> DEFINE t == TheSeen(w)[i]
      <4>2. t \in M!Keys /\ TheAverages(w, now)[t] # M!None
        BY <2>2, <4>1, KeysAre
      <4> HIDE DEF t
      <4>3. ~M!Raises(TheDelays(w, now, t))
        BY <2>3, <4>2
      <4> QED BY <4>3 DEF t
    <3> QED BY <3>1, <3>2 DEF HasRaised, TheBad
  <2>5. TheTables(w, now) = M!ToSet(TheSeen(w))
    <3>1. DOMAIN TheSeen(w) = 1..TheLast(w, now)
      BY <2>4, CountTypes DEF TheLast
    <3> QED BY <2>4, <3>1 DEF TheTables, M!ToSet
  <2>6. ~dead'
    BY <1>1, <1>6, <2>4, <1>0 DEF Counted, Reported, Unreported
  <2>7. ASSUME NEW t \in Tables PROVE average'[t][2] = tick'[t] /\ tick'[t] = 0
    <3>1. tick'[t] = IF t \in M!ToSet(TheSeen(w)) THEN 0 ELSE TheTicks(w)[t]
      BY <1>3, <1>6, <2>5, <1>0 DEF Counted, Reported, Unreported
    <3>2. average'[t] = M!None
      BY <1>3, <1>6, <2>4, <1>0 DEF M!Each, Counted, Reported, Unreported
    <3> QED BY <1>4, <3>1, <3>2 DEF M!None
  <2>8. ASSUME NEW k \in M!Keys PROVE \A i \in DOMAIN data'[k].delays : data'[k].delays[i] # M!None
    <3>1. CASE k = M!Total \/ k \in TheTables(w, now)
      <4>1. data'[k].delays = TheDelays(w, now, k)
        BY <1>6, <3>1, <1>0 DEF Counted, Reported, Unreported
      <4>2. TheAverages(w, now)[k] # M!None
        BY <2>1, <2>2, <2>5, <3>1
      <4> QED BY <2>3, <4>1, <4>2
    <3>2. CASE ~ (k = M!Total \/ k \in TheTables(w, now))
      <4>1. data'[k] = data[k]
        BY <1>6, <3>2, <1>0 DEF Counted, Reported, Unreported
      <4> QED BY <1>1, <4>1 DEF Heard
    <3> QED BY <3>1, <3>2
  <2> QED BY <2>6, <2>7, <2>8 DEF Heard
<1>7. CASE ~due
  <2>1. tick' = TheTicks(w) /\ average' = TheAverages(w, now) /\ data' = data /\ dead' = dead
    BY <1>7, <1>0 DEF Counted, Reported, Unreported
  <2>2. \A t \in Tables : average'[t][2] = tick'[t] /\ (t \notin M!ToSet(order') => tick'[t] = 0)
    BY <1>3, <1>4, <1>5, <2>1
  <2>3. \A k \in M!Keys : \A i \in DOMAIN data'[k].delays : data'[k].delays[i] # M!None
    BY <1>1, <2>1 DEF Heard
  <2> QED BY <1>1, <2>1, <2>2, <2>3 DEF Heard, M!ToSet
<1> QED BY <1>6, <1>7

\* Each conjunct for a step that counts nothing.
LEMMA OtherStepsKeep ==
  ASSUME MeasureInv, UNCHANGED <<counter, order, tick, average, data, dead, counted, delays, silent>>,
         creations' \in Nat, creations' < 2 => creations < 2
  PROVE  M!TablesAddUp' /\ M!TotalAddsUp' /\ M!MeansTrue' /\ AliveInv'
<1> USE DEF MeasureInv
<1>1. M!TablesAddUp'
  BY DEF M!TablesAddUp
<1>2. M!TotalAddsUp'
  BY DEF M!TotalAddsUp
<1>3. M!MeansTrue'
  BY DEF M!MeansTrue
<1>4. AliveInv'
  BY DEF AliveInv, Heard, M!ToSet
<1> QED BY <1>1, <1>2, <1>3, <1>4

LEMMA MeasureInit == ASSUME M!Init PROVE MeasureInv
<1>1. \A k \in M!Keys : /\ tick[k] = 0 /\ counted[k] = 0 /\ average[k] = M!None /\ delays[k] = <<>>
                        /\ data[k] = [ticks |-> <<>>, delays |-> <<>>]
  BY DEF M!Init, M!Each
<1>2. MeasureTypeOK
  <2>1. at \in [Threads -> Stages] /\ request \in [Threads -> Seq(Updates)] /\ order \in Seq(Tables)
    BY EmptySeq DEF M!Init, Stages
  <2>2. /\ tick \in [M!Keys -> Nat] /\ average \in [M!Keys -> Means] /\ counted \in [M!Keys -> Nat]
        /\ delays \in [M!Keys -> Seq(Nat)]
    BY EmptySeq DEF M!Init, M!Each, M!None, Means
  <2>3. [ticks |-> <<>>, delays |-> <<>>] \in DataType
    BY EmptySeq DEF DataType
  <2>4. data \in [M!Keys -> DataType]
    BY <2>3 DEF M!Init, M!Each
  <2> QED BY <2>1, <2>2, <2>4 DEF MeasureTypeOK, M!Init
<1>3. CountingInv
  BY <1>1, KeysAre DEF M!Init, CountingInv
<1>4. M!Sum(<<>>) = 0 /\ Len(<<>>) = 0
  BY SumIsListSum, ListSumEmpty
<1>5. M!TablesAddUp /\ M!TotalAddsUp
  BY <1>1, <1>4, KeysAre DEF M!TablesAddUp, M!TotalAddsUp, M!Init
<1>6. M!MeansTrue
  BY <1>1, <1>4 DEF M!MeansTrue, M!None
<1>7. AliveInv
  <2>1. \A t \in Tables : average[t][2] = tick[t] /\ tick[t] = 0
    BY <1>1, KeysAre DEF M!None
  <2>2. \A k \in M!Keys : \A i \in DOMAIN data[k].delays : data[k].delays[i] # M!None
    BY <1>1, EmptySeq
  <2> QED BY <2>1, <2>2 DEF AliveInv, Heard, M!Init
<1> QED BY <1>2, <1>3, <1>5, <1>6, <1>7 DEF MeasureInv

LEMMA MeasureStepKeeps == ASSUME MeasureInv, [M!Next]_(M!vars) PROVE MeasureInv'
<1> USE DEF MeasureInv
<1>1. ASSUME NEW w \in Threads, NEW r \in Requests, M!Arrive(w, r) PROVE MeasureInv'
  <2>1. r \in Seq(Updates) /\ r # <<>>
    BY MeasureAssumption DEF Updates
  <2>2. /\ at' = [at EXCEPT ![w] = "look"] /\ request' = [request EXCEPT ![w] = r]
        /\ UNCHANGED <<creations, counter, order, tick, average, data, dead, counted, delays, silent>>
    BY <1>1 DEF M!Arrive, M!state
  <2>3. MeasureTypeOK'
    BY <2>1, <2>2 DEF MeasureTypeOK, Stages
  <2>4. CountingInv'
    BY <2>1, <2>2 DEF CountingInv, MeasureTypeOK
  <2> QED BY <2>2, <2>3, <2>4, OtherStepsKeep DEF MeasureTypeOK
<1>2. ASSUME NEW w \in Threads, M!Look(w) PROVE MeasureInv'
  <2>1. /\ at[w] = "look" /\ UNCHANGED <<request, creations, counter, order, tick, average, data, dead, counted, delays, silent>>
        /\ \E s \in Stages : at' = [at EXCEPT ![w] = s] /\ (s = "count" => creations # 0)
    BY <1>2 DEF M!Look, Stages
  <2>2. MeasureTypeOK'
    BY <2>1 DEF MeasureTypeOK
  <2>3. CountingInv'
    BY <2>1 DEF CountingInv, MeasureTypeOK
  <2> QED BY <2>1, <2>2, <2>3, OtherStepsKeep DEF MeasureTypeOK
<1>3. ASSUME NEW w \in Threads, M!Create(w) PROVE MeasureInv'
  <2>1. /\ at[w] = "create" /\ at' = [at EXCEPT ![w] = "count"] /\ creations' = creations + 1 /\ counter' = 0
        /\ UNCHANGED <<request, order, tick, average, data, dead, counted, delays, silent>>
    BY <1>3 DEF M!Create
  <2>2. creations \in Nat
    BY DEF MeasureTypeOK
  <2>3. MeasureTypeOK'
    BY <2>1 DEF MeasureTypeOK, Stages
  <2>4. CountingInv'
    BY <2>1, <2>2 DEF CountingInv, MeasureTypeOK
  <2>5. M!TablesAddUp'
    BY <2>1 DEF M!TablesAddUp
  <2>6. M!TotalAddsUp'
    <3>1. M!Sum(<<>>) = 0
      BY SumIsListSum, ListSumEmpty
    <3>2. creations' < 2 => creations = 0
      BY <2>1, <2>2
    <3> QED BY <2>1, <3>1, <3>2 DEF M!TotalAddsUp, CountingInv
  <2>7. M!MeansTrue'
    BY <2>1 DEF M!MeansTrue
  <2>8. AliveInv'
    BY <2>1 DEF AliveInv, Heard, M!ToSet
  <2> QED BY <2>3, <2>4, <2>5, <2>6, <2>7, <2>8
<1>4. ASSUME NEW w \in Threads, NEW now \in Wrap..(2 * Wrap - 1), NEW due \in BOOLEAN, M!Count(w, now, due)
      PROVE  MeasureInv'
  BY <1>4, CountKeepsTypes, CountKeepsCounting, CountKeepsTables, CountKeepsTotal, CountKeepsMeans, CountKeepsAlive
<1>5. CASE M!SecondPasses \/ UNCHANGED M!vars
  <2>1. UNCHANGED <<at, request, creations, counter, order, tick, average, data, dead, counted, delays, silent>>
    BY <1>5 DEF M!SecondPasses, M!vars
  <2>2. MeasureTypeOK' /\ CountingInv'
    BY <2>1 DEF MeasureTypeOK, CountingInv
  <2> QED BY <2>1, <2>2, OtherStepsKeep DEF MeasureTypeOK
<1> QED BY <1>1, <1>2, <1>3, <1>4, <1>5 DEF M!Next

\* The inductive invariant: what is counted adds up, the averages are those of the
\* delays, and nothing has raised as long as no table has been silent.
THEOREM MeasureInductive == M!Spec => []MeasureInv
<1>1. M!Init => MeasureInv
  BY MeasureInit
<1>2. MeasureInv /\ [M!Next]_(M!vars) => MeasureInv'
  BY MeasureStepKeeps
<1> QED BY <1>1, <1>2, PTL DEF M!Spec

\* Whatever the threads of the data plane that measures do, every update it counts
\* is in the ticks of its table once, the averages are those of the delays although
\* the clock wraps, and it dies only of a table that falls silent.
THEOREM MeasuresAreTrue == M!Spec => []MeasuredTrue
<1>1. MeasureInv => MeasuredTrue
  <2>1. AliveInv => M!DiesOfSilence
    BY DEF AliveInv, M!DiesOfSilence
  <2> QED BY <2>1 DEF MeasureInv, MeasuredTrue, M!MeasuredTrue
<1> QED BY <1>1, MeasureInductive, PTL

(***************************************************************************)
(* Redis.  A file holds each list once for each name it has been asked     *)
(* for, so what a store filled from it holds is known from the store it    *)
(* was written from.                                                       *)
(***************************************************************************)
Values == Seq(Nat)
Databases == [R!Keys -> Values]
Rows == [key : R!Lists, list : Values]

Chosen(row, key) == IF row.key = key THEN row.list ELSE <<>>
ChosenOf(content, key) == [i \in DOMAIN content |-> Chosen(content[i], key)]

LEMMA ListIs == ASSUME NEW content, NEW key PROVE R!ListOf(content, key) = FlattenSeq(ChosenOf(content, key))
BY DEF R!ListOf, ChosenOf, Chosen, R!FlattenSeq, FlattenSeq

LEMMA ChosenType ==
  ASSUME NEW content \in Seq(Rows), NEW key
  PROVE  /\ ChosenOf(content, key) \in Seq(Values) /\ Len(ChosenOf(content, key)) = Len(content)
         /\ \A i \in 1..Len(content) : ChosenOf(content, key)[i] = Chosen(content[i], key)
<1>1. DOMAIN content = 1..Len(content) /\ Len(content) \in Nat /\ \A i \in 1..Len(content) : content[i] \in Rows
  BY LenProperties, ElementOfSeq
<1>2. \A row \in Rows : Chosen(row, key) \in Values
  BY EmptySeq DEF Chosen, Rows, Values
<1> DEFINE n == Len(content)
           f == ChosenOf(content, key)
<1>3. f = [i \in 1..n |-> Chosen(content[i], key)]
  BY <1>1 DEF ChosenOf
<1>4. f \in [1..n -> Values]
  BY <1>1, <1>2, <1>3
<1> HIDE DEF f
<1>5. f \in Seq(Values)
  BY <1>1, <1>4, SeqDef
<1>6. Len(f) = n
  BY <1>1, <1>4, <1>5, LenProperties
<1> QED BY <1>3, <1>5, <1>6 DEF f

LEMMA ListType ==
  ASSUME NEW content \in Seq(Rows), NEW key
  PROVE  R!ListOf(content, key) \in Values
BY ListIs, ChosenType, FlattenType DEF Values

LEMMA ListOfBoth ==
  ASSUME NEW content \in Seq(Rows), NEW more \in Seq(Rows), NEW key
  PROVE  R!ListOf(content \o more, key) = R!ListOf(content, key) \o R!ListOf(more, key)
<1> DEFINE a == ChosenOf(content, key)
           b == ChosenOf(more, key)
           c == ChosenOf(content \o more, key)
<1>1. /\ content \o more \in Seq(Rows) /\ Len(content \o more) = Len(content) + Len(more)
      /\ \A i \in 1..(Len(content) + Len(more)) :
           (content \o more)[i] = IF i <= Len(content) THEN content[i] ELSE more[i - Len(content)]
  BY ConcatProperties
<1>2. /\ a \in Seq(Values) /\ Len(a) = Len(content) /\ \A i \in 1..Len(content) : a[i] = Chosen(content[i], key)
      /\ b \in Seq(Values) /\ Len(b) = Len(more) /\ \A i \in 1..Len(more) : b[i] = Chosen(more[i], key)
      /\ c \in Seq(Values) /\ Len(c) = Len(content \o more)
      /\ \A i \in 1..Len(content \o more) : c[i] = Chosen((content \o more)[i], key)
  BY <1>1, ChosenType
<1> HIDE DEF a, b, c
<1>3. /\ a \o b \in Seq(Values) /\ Len(a \o b) = Len(a) + Len(b)
      /\ \A i \in 1..(Len(a) + Len(b)) : (a \o b)[i] = IF i <= Len(a) THEN a[i] ELSE b[i - Len(a)]
  <2> DEFINE V == Values
  <2>1. a \in Seq(V) /\ b \in Seq(V)
    BY <1>2
  <2> HIDE DEF V
  <2> QED BY <2>1, ConcatProperties DEF V
<1>4. Len(content) \in Nat /\ Len(more) \in Nat
  BY LenProperties
<1>5. \A i \in 1..Len(c) : c[i] = (a \o b)[i]
  <2> TAKE i \in 1..Len(c)
  <2>1. CASE i <= Len(content)
    <3>1. i \in 1..Len(content)
      BY <2>1, <1>4
    <3> QED BY <2>1, <3>1, <1>1, <1>2, <1>3
  <2>2. CASE ~ (i <= Len(content))
    <3>1. i - Len(content) \in 1..Len(more)
      BY <2>2, <1>1, <1>2, <1>4
    <3> QED BY <2>2, <3>1, <1>1, <1>2, <1>3
  <2> QED BY <2>1, <2>2
<1>6. c = a \o b
  BY <1>1, <1>2, <1>3, <1>5, SeqEqual
<1> QED BY <1>2, <1>6, FlattenConcat, ListIs DEF a, b, c, Values

LEMMA NoRow == ASSUME NEW key PROVE R!ListOf(<<>>, key) = <<>>
<1>1. <<>> \in Seq(Rows) /\ Len(<<>>) = 0
  BY EmptySeq
<1>2. Len(ChosenOf(<<>>, key)) = 0 /\ ChosenOf(<<>>, key) \in Seq(Values)
  BY <1>1, ChosenType
<1>3. ChosenOf(<<>>, key) = <<>>
  BY <1>2, EmptySeq
<1> QED BY <1>3, ListIs, FlattenEmpty

\* The rows of one field, in some order.
Named(db, field) == {q \in R!Lists : R!In(field, q) /\ db[q] # <<>>}
FixtureRows(db, field) == {[key |-> k, list |-> db[k]] : k \in Named(db, field)}
RowsFor(db, field) == SetToSeq(FixtureRows(db, field))

LEMMA RowsForType ==
  ASSUME NEW db \in Databases, NEW field
  PROVE  /\ RowsFor(db, field) \in Seq(Rows)
         /\ \A key : R!ListOf(RowsFor(db, field), key) =
              IF key \in R!Lists /\ R!In(field, key) THEN db[key] ELSE <<>>
         /\ \A i \in 1..Len(RowsFor(db, field)) :
              RowsFor(db, field)[i].list = db[RowsFor(db, field)[i].key]
<1> DEFINE Some == FixtureRows(db, field)
           content == RowsFor(db, field)
<1>1. Some \subseteq Rows /\ \A r \in Some : r.key \in Named(db, field) /\ r = [key |-> r.key, list |-> db[r.key]]
                                /\ r.list = db[r.key]
  BY DEF FixtureRows, Named, Rows, Databases, R!Keys
<1>2. IsFiniteSet(Some)
  <2> DEFINE f == [k \in Named(db, field) |-> [key |-> k, list |-> db[k]]]
  <2>1. IsFiniteSet(Named(db, field))
    <3>1. IsFiniteSet({"TABLE_ENTRIES", "COUNTER_ENTRIES"})
      <4>1. IsFiniteSet({"TABLE_ENTRIES"} \cup {"COUNTER_ENTRIES"})
        BY FS_Singleton, FS_Union
      <4> QED BY <4>1
    <3>2. IsFiniteSet({"METER_ENTRIES", "REMOVED_COUNTER_ENTRIES"})
      <4>1. IsFiniteSet({"METER_ENTRIES"} \cup {"REMOVED_COUNTER_ENTRIES"})
        BY FS_Singleton, FS_Union
      <4> QED BY <4>1
    <3>3. R!Lists = {"TABLE_ENTRIES", "COUNTER_ENTRIES"} \cup {"METER_ENTRIES", "REMOVED_COUNTER_ENTRIES"}
      BY DEF R!Lists
    <3>4. IsFiniteSet(R!Lists)
      BY <3>1, <3>2, <3>3, FS_Union
    <3> QED BY <3>4, FS_Subset DEF Named
  <2>2. f \in Surjection(Named(db, field), Some)
    BY DEF Surjection, FixtureRows
  <2> HIDE DEF f
  <2> QED BY <2>1, <2>2, FS_Surjection
<1> HIDE DEF Some
<1>3. /\ content \in Seq(Some)
      /\ \A i, j \in 1..Len(content) : content[i] = content[j] => i = j
      /\ \A x \in Some : \E i \in 1..Len(content) : content[i] = x
  BY <1>2, SetInOrder DEF RowsFor, Some
<1>4. content \in Seq(Rows)
  BY <1>1, <1>3, SeqMonotonic
<1> HIDE DEF content
<1>5. \A i \in 1..Len(content) : content[i] \in Some
  BY <1>3, ElementOfSeq
<1>6. ASSUME NEW key
      PROVE  R!ListOf(content, key) = IF key \in R!Lists /\ R!In(field, key) THEN db[key] ELSE <<>>
  <2> DEFINE c == ChosenOf(content, key)
  <2>1. c \in Seq(Values) /\ Len(c) = Len(content) /\ \A i \in 1..Len(content) : c[i] = Chosen(content[i], key)
    BY <1>4, ChosenType
  <2>2. R!ListOf(content, key) = FlattenSeq(c)
    BY ListIs
  <2> HIDE DEF c
  <2>3. CASE key \in Named(db, field)
    <3>1. [key |-> key, list |-> db[key]] \in Some
      BY <2>3 DEF Some, FixtureRows
    <3>2. PICK j \in 1..Len(content) : content[j] = [key |-> key, list |-> db[key]]
      BY <1>3, <3>1
    <3>3. ASSUME NEW i \in 1..Len(content), i # j PROVE c[i] = <<>>
      <4>1. content[i].key # key
        BY <1>1, <1>3, <1>5, <3>2, <3>3
      <4> QED BY <2>1, <4>1 DEF Chosen
    <3>4. c[j] = db[key]
      BY <2>1, <3>2 DEF Chosen
    <3>5. FlattenSeq(c) = c[j]
      BY <2>1, <3>3, FlattenOnly DEF Values
    <3> QED BY <2>2, <2>3, <3>4, <3>5 DEF Named
  <2>4. CASE key \notin Named(db, field)
    <3>1. \A i \in 1..Len(c) : c[i] = <<>>
      BY <1>1, <1>5, <2>1, <2>4 DEF Chosen
    <3>2. FlattenSeq(c) = <<>>
      BY <2>1, <3>1, FlattenNone DEF Values
    <3> QED BY <2>2, <2>4, <3>2 DEF Named
  <2> QED BY <2>3, <2>4
<1> QED BY <1>1, <1>4, <1>5, <1>6 DEF content

LEMMA SetToSeqIs == ASSUME NEW Some PROVE R!SetToSeq(Some) = SetToSeq(Some)
BY DEF R!SetToSeq, SetToSeq, R!IsInjective, IsInjective, R!Cardinality, Cardinality

LEMMA FlattenSeqIs == ASSUME NEW s PROVE R!FlattenSeq(s) = FlattenSeq(s)
BY DEF R!FlattenSeq, FlattenSeq

\* The four fields of a file, one after the other.
LEMMA FileIs ==
  ASSUME NEW db \in Databases
  PROVE  R!FileOf(db) = ((RowsFor(db, "TABLE_ENTRIES") \o RowsFor(db, "COUNTER_ENTRIES"))
                           \o RowsFor(db, "METER_ENTRIES")) \o RowsFor(db, "REMOVED_COUNTER_ENTRIES")
<1> DEFINE a == RowsFor(db, "TABLE_ENTRIES")
           b == RowsFor(db, "COUNTER_ENTRIES")
           c == RowsFor(db, "METER_ENTRIES")
           d == RowsFor(db, "REMOVED_COUNTER_ENTRIES")
           F == [i \in DOMAIN R!Fields |-> RowsFor(db, R!Fields[i])]
           Q == Seq(Rows)
<1>1. R!FileOf(db) = FlattenSeq(F)
  <2>1. R!FileOf(db) = R!FlattenSeq([i \in DOMAIN R!Fields |-> R!SetToSeq(FixtureRows(db, R!Fields[i]))])
    BY DEF R!FileOf, FixtureRows, Named
  <2>2. \A i \in DOMAIN R!Fields : R!SetToSeq(FixtureRows(db, R!Fields[i])) = RowsFor(db, R!Fields[i])
    BY SetToSeqIs DEF RowsFor
  <2>3. [i \in DOMAIN R!Fields |-> R!SetToSeq(FixtureRows(db, R!Fields[i]))] = F
    BY <2>2
  <2> QED BY <2>1, <2>3, FlattenSeqIs
<1>2. a \in Q /\ b \in Q /\ c \in Q /\ d \in Q
  BY RowsForType
<1>3. F = <<a, b, c, d>>
  BY DEF R!Fields
<1> HIDE DEF a, b, c, d, F
<1>4. F = Append(Append(Append(Append(<<>>, a), b), c), d)
  BY <1>3
<1>5. <<>> \in Seq(Q) /\ Append(<<>>, a) \in Seq(Q) /\ Append(Append(<<>>, a), b) \in Seq(Q)
      /\ Append(Append(Append(<<>>, a), b), c) \in Seq(Q)
  <2> HIDE DEF Q
  <2>1. <<>> \in Seq(Q)
    BY EmptySeq
  <2>2. Append(<<>>, a) \in Seq(Q)
    BY <1>2, <2>1, AppendProperties
  <2>3. Append(Append(<<>>, a), b) \in Seq(Q)
    BY <1>2, <2>2, AppendProperties
  <2> QED BY <1>2, <2>1, <2>2, <2>3, AppendProperties
<1>6. FlattenSeq(F) = (((<<>> \o a) \o b) \o c) \o d
  <2>1. FlattenSeq(Append(<<>>, a)) = <<>> \o a
    BY <1>2, <1>5, FlattenAppend, FlattenEmpty
  <2>2. FlattenSeq(Append(Append(<<>>, a), b)) = FlattenSeq(Append(<<>>, a)) \o b
    BY <1>2, <1>5, FlattenAppend
  <2>3. FlattenSeq(Append(Append(Append(<<>>, a), b), c)) = FlattenSeq(Append(Append(<<>>, a), b)) \o c
    BY <1>2, <1>5, FlattenAppend
  <2>4. FlattenSeq(F) = FlattenSeq(Append(Append(Append(<<>>, a), b), c)) \o d
    BY <1>2, <1>4, <1>5, FlattenAppend
  <2> QED BY <2>1, <2>2, <2>3, <2>4
<1>7. <<>> \o a = a
  BY <1>2, ConcatEmptySeq
<1> QED BY <1>1, <1>6, <1>7 DEF a, b, c, d

\* Each row has a list of the store, and of each list the file has a copy for each
\* field whose name is in the list's.
Restored(db) ==
  [key \in R!Keys |-> CASE key = "HEARTBEAT" -> <<>>
                        [] key = "REMOVED_COUNTER_ENTRIES" -> db[key] \o db[key]
                        [] OTHER -> db[key]]

LEMMA FileType ==
  ASSUME NEW db \in Databases
  PROVE  /\ R!FileOf(db) \in Seq(Rows)
         /\ \A i \in DOMAIN R!FileOf(db) : R!FileOf(db)[i].list = db[R!FileOf(db)[i].key]
         /\ \A key \in R!Keys : R!ListOf(R!FileOf(db), key) = Restored(db)[key]
<1> DEFINE a == RowsFor(db, "TABLE_ENTRIES")
           b == RowsFor(db, "COUNTER_ENTRIES")
           c == RowsFor(db, "METER_ENTRIES")
           d == RowsFor(db, "REMOVED_COUNTER_ENTRIES")
           True(content) == \A i \in 1..Len(content) : content[i].list = db[content[i].key]
<1>1. /\ a \in Seq(Rows) /\ b \in Seq(Rows) /\ c \in Seq(Rows) /\ d \in Seq(Rows)
      /\ True(a) /\ True(b) /\ True(c) /\ True(d)
  <2>1. ASSUME NEW field PROVE RowsFor(db, field) \in Seq(Rows) /\ True(RowsFor(db, field))
    BY RowsForType
  <2> QED BY <2>1
<1>2. \A key \in R!Keys :
        /\ R!ListOf(a, key) = IF key = "TABLE_ENTRIES" THEN db[key] ELSE <<>>
        /\ R!ListOf(b, key) = IF key \in {"COUNTER_ENTRIES", "REMOVED_COUNTER_ENTRIES"} THEN db[key] ELSE <<>>
        /\ R!ListOf(c, key) = IF key = "METER_ENTRIES" THEN db[key] ELSE <<>>
        /\ R!ListOf(d, key) = IF key = "REMOVED_COUNTER_ENTRIES" THEN db[key] ELSE <<>>
  BY RowsForType DEF R!In, R!Lists, R!Keys
<1>3. R!FileOf(db) = ((a \o b) \o c) \o d
  BY FileIs
<1> HIDE DEF a, b, c, d
<1>4. ASSUME NEW s \in Seq(Rows), NEW t \in Seq(Rows), True(s), True(t)
      PROVE  s \o t \in Seq(Rows) /\ True(s \o t)
  <2>1. /\ s \o t \in Seq(Rows) /\ Len(s \o t) = Len(s) + Len(t)
        /\ \A i \in 1..(Len(s) + Len(t)) : (s \o t)[i] = IF i <= Len(s) THEN s[i] ELSE t[i - Len(s)]
    BY ConcatProperties
  <2>2. Len(s) \in Nat /\ Len(t) \in Nat
    BY LenProperties
  <2>3. ASSUME NEW i \in 1..Len(s \o t) PROVE (s \o t)[i].list = db[(s \o t)[i].key]
    <3>1. CASE i <= Len(s)
      <4>1. i \in 1..Len(s) /\ (s \o t)[i] = s[i]
        BY <2>1, <2>2, <3>1
      <4> QED BY <1>4, <4>1
    <3>2. CASE ~ (i <= Len(s))
      <4>1. i - Len(s) \in 1..Len(t) /\ (s \o t)[i] = t[i - Len(s)]
        BY <2>1, <2>2, <3>2
      <4> QED BY <1>4, <4>1
    <3> QED BY <3>1, <3>2
  <2> QED BY <2>1, <2>3
<1> HIDE DEF True
<1>5. /\ a \o b \in Seq(Rows) /\ (a \o b) \o c \in Seq(Rows) /\ ((a \o b) \o c) \o d \in Seq(Rows)
      /\ True(((a \o b) \o c) \o d)
  <2>1. a \o b \in Seq(Rows) /\ True(a \o b)
    BY <1>1, <1>4
  <2>2. (a \o b) \o c \in Seq(Rows) /\ True((a \o b) \o c)
    BY <1>1, <1>4, <2>1
  <2>3. ((a \o b) \o c) \o d \in Seq(Rows) /\ True(((a \o b) \o c) \o d)
    BY <1>1, <1>4, <2>2
  <2> QED BY <2>1, <2>2, <2>3
<1>6. ASSUME NEW key \in R!Keys PROVE R!ListOf(R!FileOf(db), key) = Restored(db)[key]
  <2>1. R!ListOf(R!FileOf(db), key) =
          ((R!ListOf(a, key) \o R!ListOf(b, key)) \o R!ListOf(c, key)) \o R!ListOf(d, key)
    <3>1. R!ListOf(a \o b, key) = R!ListOf(a, key) \o R!ListOf(b, key)
      <4>1. a \in Seq(Rows) /\ b \in Seq(Rows)
        BY <1>1
      <4> QED BY ONLY <4>1, ListOfBoth
    <3> DEFINE ab == a \o b
               abc == (a \o b) \o c
    <3>2. R!ListOf(abc, key) = R!ListOf(ab, key) \o R!ListOf(c, key)
      <4>1. ab \in Seq(Rows) /\ c \in Seq(Rows) /\ abc = ab \o c
        BY <1>1, <1>5
      <4> HIDE DEF ab, abc
      <4> QED BY <4>1, ListOfBoth
    <3>3. R!ListOf(abc \o d, key) = R!ListOf(abc, key) \o R!ListOf(d, key)
      <4>1. abc \in Seq(Rows) /\ d \in Seq(Rows)
        BY <1>1, <1>5
      <4> HIDE DEF abc
      <4> QED BY <4>1, ListOfBoth
    <3> QED BY <1>3, <3>1, <3>2, <3>3
  <2>2. db[key] \in Seq(Nat)
    BY DEF Databases, Values
  <2>3. /\ <<>> \o <<>> = <<>> /\ db[key] \o <<>> = db[key] /\ <<>> \o db[key] = db[key]
    BY <2>2, ConcatEmptySeq, EmptySeq
  <2>4. Restored(db)[key] = CASE key = "HEARTBEAT" -> <<>>
                              [] key = "REMOVED_COUNTER_ENTRIES" -> db[key] \o db[key]
                              [] OTHER -> db[key]
    BY DEF Restored
  <2>5. CASE key = "HEARTBEAT"
    BY <1>2, <2>1, <2>3, <2>4, <2>5
  <2>6. CASE key = "TABLE_ENTRIES"
    BY <1>2, <2>1, <2>3, <2>4, <2>6
  <2>7. CASE key = "COUNTER_ENTRIES"
    BY <1>2, <2>1, <2>3, <2>4, <2>7
  <2>8. CASE key = "METER_ENTRIES"
    BY <1>2, <2>1, <2>3, <2>4, <2>8
  <2>9. CASE key = "REMOVED_COUNTER_ENTRIES"
    BY <1>2, <2>1, <2>3, <2>4, <2>9
  <2> QED BY <2>5, <2>6, <2>7, <2>8, <2>9 DEF R!Keys, R!Lists
<1>7. DOMAIN R!FileOf(db) = 1..Len(R!FileOf(db))
  BY <1>3, <1>5, LenProperties
<1> QED BY <1>3, <1>5, <1>6, <1>7 DEF True

\* A file of an empty store is empty.
LEMMA EmptyFile == R!Empty \in Databases /\ R!FileOf(R!Empty) = <<>>
<1>1. R!Empty \in Databases
  BY EmptySeq DEF R!Empty, Databases, Values
<1>2. ASSUME NEW field PROVE RowsFor(R!Empty, field) = <<>>
  <2>1. FixtureRows(R!Empty, field) = {}
    BY DEF FixtureRows, Named, R!Empty, R!Keys
  <2>2. RowsFor(R!Empty, field) \in Seq({}) /\ Len(RowsFor(R!Empty, field)) = 0
    BY <2>1, SetInOrder, FS_EmptySet DEF RowsFor
  <2> QED BY <2>2, EmptySeq
<1>3. (<<>> \o <<>>) = <<>>
  BY ConcatEmptySeq, EmptySeq
<1> QED BY <1>1, <1>2, <1>3, FileIs

\* What is in the store, in the file and in the last save.
FixtureInv ==
  /\ store \in Databases /\ image \in Databases
  /\ cells \in [{Switches[i] : i \in DOMAIN Switches} -> Nat]
  /\ reading \in Values /\ clock \in Nat /\ lastSave \in [cells : Values, time : Nat]
  /\ file = R!FileOf(image)
  /\ fresh => store = Restored(image)
  /\ store["HEARTBEAT"] # <<>> =>
       store["HEARTBEAT"] = <<lastSave.time>> /\ store["COUNTER_ENTRIES"] = lastSave.cells

LEMMA RestoredType == ASSUME NEW db \in Databases PROVE Restored(db) \in Databases
<1>1. ASSUME NEW key \in R!Keys PROVE Restored(db)[key] \in Seq(Nat)
  <2>1. db[key] \in Seq(Nat) /\ <<>> \in Seq(Nat) /\ db[key] \o db[key] \in Seq(Nat)
    BY EmptySeq, ConcatProperties DEF Databases, Values
  <2> QED BY <2>1 DEF Restored
<1>2. Restored(db) = [key \in R!Keys |-> Restored(db)[key]]
  BY DEF Restored
<1> QED BY <1>1, <1>2 DEF Databases, Values

\* A list of the store is replaced by one of numbers.
LEMMA StoreChanges ==
  ASSUME NEW db \in Databases, NEW key \in R!Keys, NEW list \in Values
  PROVE  /\ [db EXCEPT ![key] = list] \in Databases
         /\ [db EXCEPT ![key] = list][key] = list
         /\ \A other \in R!Keys : other # key => [db EXCEPT ![key] = list][other] = db[other]
BY DEF Databases

LEMMA FixtureInit == R!Init => FixtureInv
<1> SUFFICES ASSUME R!Init PROVE FixtureInv
  OBVIOUS
<1>1. store = R!Empty /\ image = R!Empty /\ file = <<>> /\ fresh = FALSE
  BY DEF R!Init
<1>2. store \in Databases /\ image \in Databases /\ file = R!FileOf(image)
  BY <1>1, EmptyFile
<1>3. store["HEARTBEAT"] = <<>>
  BY <1>1 DEF R!Empty, R!Keys
<1>4. reading \in Values /\ clock \in Nat /\ lastSave \in [cells : Values, time : Nat]
  BY EmptySeq DEF R!Init, Values
<1>5. cells \in [{Switches[i] : i \in DOMAIN Switches} -> Nat]
  BY DEF R!Init
<1> QED BY <1>1, <1>2, <1>3, <1>4, <1>5 DEF FixtureInv

LEMMA FixturePrepareKeeps == ASSUME FixtureInv, R!Prepare PROVE FixtureInv'
<1>1. \A key \in R!Keys : R!ListOf(file, key) = Restored(image)[key]
  BY FileType DEF FixtureInv
<1>2. store' = Restored(image)
  <2>1. store' = [key \in R!Keys |-> R!ListOf(file, key)]
    BY DEF R!Prepare, R!Loaded
  <2>2. Restored(image) = [key \in R!Keys |-> Restored(image)[key]]
    BY DEF Restored
  <2> QED BY <1>1, <2>1, <2>2
<1>3. store' \in Databases
  BY <1>2, RestoredType DEF FixtureInv
<1>4. store'["HEARTBEAT"] = <<>>
  BY <1>2 DEF Restored, R!Keys
<1> QED BY <1>2, <1>3, <1>4 DEF FixtureInv, R!Prepare

LEMMA SaveRedisKeeps == ASSUME FixtureInv, R!SaveRedis PROVE FixtureInv'
BY DEF FixtureInv, R!SaveRedis

LEMMA LogKeeps ==
  ASSUME FixtureInv, NEW key \in {"TABLE_ENTRIES", "REMOVED_COUNTER_ENTRIES"}, R!Log(key)
  PROVE  FixtureInv'
<1>1. key \in R!Keys /\ "HEARTBEAT" \in R!Keys /\ "COUNTER_ENTRIES" \in R!Keys
  BY DEF R!Keys, R!Lists
<1>2. store[key] \in Seq(Nat) /\ store \in Databases
  BY <1>1 DEF FixtureInv, Databases, Values
<1>3. Append(store[key], clock) \in Values
  BY <1>2, AppendProperties DEF FixtureInv, Values
<1>4. store' = [store EXCEPT ![key] = Append(store[key], clock)] /\ ~fresh'
  BY DEF R!Log
<1>5. store' \in Databases /\ store'["HEARTBEAT"] = store["HEARTBEAT"]
      /\ store'["COUNTER_ENTRIES"] = store["COUNTER_ENTRIES"]
  <2> DEFINE list == Append(store[key], clock)
  <2>1. key # "HEARTBEAT" /\ key # "COUNTER_ENTRIES" /\ list \in Values /\ store' = [store EXCEPT ![key] = list]
    BY <1>3, <1>4
  <2> HIDE DEF list
  <2>2. store' \in Databases
    BY <1>1, <1>2, <2>1, StoreChanges
  <2>3. \A other \in R!Keys : other # key => [store EXCEPT ![key] = list][other] = store[other]
    BY <1>1, <1>2, <2>1, StoreChanges
  <2> QED BY <1>1, <2>1, <2>2, <2>3
<1> QED BY <1>4, <1>5 DEF FixtureInv, R!Log

LEMMA DeleteEntriesKeeps == ASSUME FixtureInv, R!DeleteEntries PROVE FixtureInv'
<1>1. /\ store' \in Databases /\ store'["HEARTBEAT"] = <<>> /\ ~fresh'
  <2>1. <<>> \in Values
    BY EmptySeq DEF Values
  <2> QED BY <2>1 DEF FixtureInv, R!DeleteEntries, Databases, R!Keys, R!Lists
<1> QED BY <1>1 DEF FixtureInv, R!DeleteEntries

LEMMA PacketKeeps == ASSUME FixtureInv, NEW t \in DOMAIN cells, R!Packet(t) PROVE FixtureInv'
<1>1. cells' \in [{Switches[i] : i \in DOMAIN Switches} -> Nat]
  BY DEF FixtureInv, R!Packet
<1> QED BY <1>1 DEF FixtureInv, R!Packet

LEMMA ReadTargetKeeps == ASSUME FixtureInv, R!ReadTarget PROVE FixtureInv'
<1>1. Len(reading) + 1 \in DOMAIN Switches
  BY LenProperties, SwitchesAssumption DEF FixtureInv, R!ReadTarget, Values
<1>2. cells[Switches[Len(reading) + 1]] \in Nat
  BY <1>1 DEF FixtureInv
<1>3. reading' \in Values
  BY <1>2, AppendProperties DEF FixtureInv, R!ReadTarget, Values
<1> QED BY <1>3 DEF FixtureInv, R!ReadTarget

LEMMA ExecuteKeeps == ASSUME FixtureInv, R!Execute PROVE FixtureInv'
<1>1. clock' \in Nat /\ clock' = clock + 1 /\ <<clock'>> \in Values /\ reading \in Values /\ <<>> \in Values
  <2>1. clock + 1 \in Nat /\ clock' = clock + 1
    BY DEF FixtureInv, R!Execute
  <2>2. <<clock'>> \in Seq(Nat)
    BY <2>1
  <2> QED BY <2>1, <2>2, EmptySeq DEF FixtureInv, Values
<1>2. /\ store' \in Databases /\ store'["COUNTER_ENTRIES"] = reading /\ store'["HEARTBEAT"] = <<clock'>>
      /\ ~fresh'
  <2>1. store' = [store EXCEPT !["COUNTER_ENTRIES"] = reading, !["HEARTBEAT"] = <<clock'>>]
    BY DEF R!Execute
  <2> QED BY <1>1, <2>1 DEF FixtureInv, R!Execute, Databases, R!Keys, R!Lists
<1>3. lastSave' = [cells |-> reading, time |-> clock']
  BY DEF R!Execute
<1>4. reading' = <<>> /\ UNCHANGED <<file, image, cells>>
  BY DEF R!Execute
<1> QED BY <1>1, <1>2, <1>3, <1>4 DEF FixtureInv

\* What RedisHelper saves and loads: in every state the file holds each list,
\* once for each name that was asked for, as Redis held it when it was saved;
\* Redis holds the counters of the last save under its time, and right after a
\* load all that the file holds.
THEOREM FixtureInductive == R!Spec => []FixtureInv
<1>1. FixtureInv /\ [R!Next]_(R!fixtureVars) => FixtureInv'
  <2> SUFFICES ASSUME FixtureInv, [R!Next]_(R!fixtureVars) PROVE FixtureInv'
    OBVIOUS
  <2>1. CASE R!Prepare
    BY <2>1, FixturePrepareKeeps
  <2>2. CASE R!SaveRedis
    BY <2>2, SaveRedisKeeps
  <2>3. CASE R!DeleteEntries
    BY <2>3, DeleteEntriesKeeps
  <2>4. CASE R!ReadTarget
    BY <2>4, ReadTargetKeeps
  <2>5. CASE R!Execute
    BY <2>5, ExecuteKeeps
  <2>6. CASE R!StartWait \/ R!EndWait
    BY <2>6 DEF FixtureInv, R!StartWait, R!EndWait
  <2>7. ASSUME NEW key \in {"TABLE_ENTRIES", "REMOVED_COUNTER_ENTRIES"}, R!Log(key) PROVE FixtureInv'
    BY <2>7, LogKeeps
  <2>8. ASSUME NEW t \in DOMAIN cells, R!Packet(t) PROVE FixtureInv'
    BY <2>8, PacketKeeps
  <2>9. CASE UNCHANGED R!fixtureVars
    BY <2>9 DEF FixtureInv, R!fixtureVars
  <2> QED BY <2>1, <2>2, <2>3, <2>4, <2>5, <2>6, <2>7, <2>8, <2>9 DEF R!Next
<1> QED BY <1>1, FixtureInit, PTL DEF R!Spec

\* However tests and proxies use Redis, and whatever they store: a test that starts
\* from a file finds in it what was saved, and who sees a heartbeat finds the
\* counters of one whole save.
THEOREM FixturesHold == R!Spec => []FixtureTrue
<1>1. ASSUME FixtureInv PROVE FixtureTrue
  <2> USE <1>1
  <2>1. file = R!FileOf(image) /\ image \in Databases
    BY DEF FixtureInv
  <2>2. /\ file \in Seq(Rows) /\ DOMAIN file = 1..Len(file)
        /\ \A i \in DOMAIN file : file[i].list = image[file[i].key] /\ file[i] \in Rows
    BY <2>1, FileType, LenProperties, ElementOfSeq
  <2>3. ASSUME fresh PROVE R!FileRestores
    <3>1. \A key \in R!Lists : store[key] = IF key = "REMOVED_COUNTER_ENTRIES" THEN image[key] \o image[key]
                                            ELSE image[key]
      BY <2>3 DEF FixtureInv, Restored, R!Keys, R!Lists
    <3>2. ASSUME NEW i \in DOMAIN file, NEW n \in DOMAIN file[i].list
          PROVE  n \in DOMAIN store[file[i].key] /\ store[file[i].key][n] = file[i].list[n]
      <4> DEFINE k == file[i].key
                 list == image[k]
      <4>1. k \in R!Lists /\ file[i].list = list
        BY <2>2 DEF Rows
      <4>2. list \in Seq(Nat)
        BY <2>1, <4>1 DEF Databases, Values, R!Keys
      <4>3. store[k] = list \o list \/ store[k] = list
        BY <3>1, <4>1
      <4> HIDE DEF k, list
      <4>4. n \in 1..Len(list) /\ Len(list) \in Nat
        BY <3>2, <4>1, <4>2, LenProperties
      <4>5. DOMAIN (list \o list) = 1..(Len(list) + Len(list)) /\ (list \o list)[n] = list[n]
        BY <4>2, <4>4, ConcatProperties, LenProperties
      <4>6. n \in DOMAIN store[k] /\ store[k][n] = list[n]
        BY <4>2, <4>3, <4>4, <4>5, LenProperties
      <4> QED BY <4>1, <4>6 DEF k
    <3> QED BY <3>1, <3>2 DEF R!FileRestores, R!Matches
  <2>4. R!WaitSeesSave
    <3>1. lastSave.time \in Nat /\ <<lastSave.time>>[1] = lastSave.time
      BY DEF FixtureInv
    <3> QED BY <3>1 DEF R!WaitSeesSave, FixtureInv
  <2> QED BY <2>3, <2>4 DEF FixtureTrue, R!FixtureTrue, R!FileRestores
<1> QED BY <1>1, FixtureInductive, PTL
=============================================================================
