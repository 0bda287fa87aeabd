----------------------------- MODULE Simulator -----------------------------
(***************************************************************************)
(* simulator.py: run() calls the functions of an experiment, one after the *)
(* other, for every combination of the parameters that satisfies the       *)
(* conditions; a function may ask to be called again, up to max_rerun      *)
(* times, to stop after this row, or for the result of another function.   *)
(* The rows are saved after every combination; what an earlier run saved   *)
(* is moved away first.  testcases/measure/simulate.py runs it with        *)
(* configuration files that are put aside meanwhile.  MaxRuns bounds the   *)
(* runs.                                                                   *)
(***************************************************************************)
EXTENDS Integers, Sequences, FiniteSets, SequencesExt

CONSTANTS
  Sizes,       \* number of values of each parameter, in the order of add_parameter
  Excluded,    \* combinations that a condition excludes
  NumFunctions, MaxRerun, MaxRuns

VARIABLES
  phase,      \* "idle", "running", "raised"
  next,       \* index of the combination that is next, in product order
  table,      \* table_data: [of, results] of each row
  function,   \* the function that is called
  tries,      \* calls of it for this combination so far
  results,    \* self.functions_results: [of, run] of each function that has one
  seen,       \* results handed out by get_function_result: [by, of]
  stop,       \* stop_flag
  saved,      \* results_folder: name -> rows; name 0 is the current file
  history,    \* the rows each run has saved last
  config,     \* the configuration: "original", "generated", "none"
  backup,     \* the same put aside
  spoilt,     \* a process was killed with a generated configuration in place
  runs

vars == <<phase, next, table, function, tries, results, seen, stop, saved, history, config, backup, spoilt, runs>>

\* itertools.product: the last parameter changes fastest.
Combination(i) == <<i \div Sizes[2], i % Sizes[2]>>
NumCases == Sizes[1] * Sizes[2]
NoRows == <<>>

\* Bug: results are archived under the same name every time.
ArchivedOver == IF 0 \in DOMAIN saved THEN [n \in {1} \cup (DOMAIN saved \ {0}) |-> IF n = 1 THEN saved[0] ELSE saved[n]] ELSE saved

\* archive_actual_result_csv: the current file gets the first free number.
Archived ==
  LET free == CHOOSE n \in 1..(MaxRuns + 1) : n \notin DOMAIN saved /\ \A k \in 1..(n - 1) : k \in DOMAIN saved
  IN IF 0 \in DOMAIN saved
     THEN [n \in {free} \cup (DOMAIN saved \ {0}) |-> IF n = free THEN saved[0] ELSE saved[n]]
     ELSE saved

\* simulate.py puts the configuration aside and calls run.  A backup that is
\* there is replaced; without a configuration the move fails, and the finally
\* clause brings the backup back.
Run ==
  /\ phase = "idle" /\ runs < MaxRuns
  /\ IF config = "none"
     THEN /\ config' = backup /\ backup' = "none"
          /\ UNCHANGED <<phase, next, table, function, tries, results, saved, runs>>
     ELSE /\ backup' = config /\ config' = "none"
          /\ runs' = runs + 1 /\ phase' = "running"
          /\ saved' = Archived
          /\ next' = 0 /\ table' = NoRows /\ function' = 0 /\ tries' = 0 /\ results' = <<>>
  /\ UNCHANGED <<seen, stop, history, spoilt>>

\* The row is saved with those before it.
Saved(rows) == [n \in {0} \cup DOMAIN saved |-> IF n = 0 THEN rows ELSE saved[n]]

\* The run is over: after the last row, or after a row in which stop was called.
Finish ==
  /\ phase = "running" /\ function = 0
  /\ next = NumCases \/ (stop /\ table # NoRows)
  /\ phase' = "idle" /\ config' = backup /\ backup' = "none"
  /\ saved' = Saved(table) /\ history' = Append(history, table)
  /\ UNCHANGED <<next, table, function, tries, results, seen, stop, spoilt, runs>>

\* _check_condition_for_row
Skip ==
  /\ phase = "running" /\ function = 0 /\ next < NumCases /\ ~(stop /\ table # NoRows)
  /\ Combination(next) \in Excluded
  /\ next' = next + 1
  /\ UNCHANGED <<phase, table, function, tries, results, seen, stop, saved, history, config, backup, spoilt, runs>>

BeginRow ==
  /\ phase = "running" /\ function = 0 /\ next < NumCases /\ ~(stop /\ table # NoRows)
  /\ Combination(next) \notin Excluded
  /\ function' = 1 /\ tries' = 0 /\ results' = <<>>
  /\ UNCHANGED <<phase, next, table, seen, stop, saved, history, config, backup, spoilt, runs>>

MayRerun == tries < MaxRerun

\* The function returns: SimulatorRerunCommand, and is called again ...
Rerun ==
  /\ phase = "running" /\ function > 0 /\ MayRerun
  /\ tries' = tries + 1 /\ config' = "none"
  /\ UNCHANGED <<phase, next, table, function, results, seen, stop, saved, history, backup, spoilt, runs>>

\* ... or a result, or the command once too often, whose value is the result.
\* On its way it may call stop, or look at the result of another function.
Return(stops, asks) ==
  /\ phase = "running" /\ function > 0
  /\ stop' = (stop \/ stops)
  /\ seen' = IF asks \in DOMAIN results THEN seen \cup {[by |-> next, of |-> results[asks].of]} ELSE seen
  /\ results' = [f \in DOMAIN results \cup {function} |->
                   IF f = function THEN [of |-> next, run |-> runs] ELSE results[f]]
  /\ config' = "none"
  /\ IF function < NumFunctions
     THEN function' = function + 1 /\ tries' = 0 /\ UNCHANGED <<next, table, saved>>
     ELSE LET row == [of |-> Combination(next), results |-> results'] IN
          /\ function' = 0 /\ tries' = 0 /\ next' = next + 1
          /\ table' = Append(table, row) /\ saved' = Saved(Append(table, row))
  /\ UNCHANGED <<phase, history, backup, spoilt, runs>>

\* The function raises, before or after measure removes the configuration it
\* has generated, or asks for a result that is not there.
RaiseError ==
  /\ phase = "running" /\ function > 0
  /\ phase' = "raised" /\ config' \in {"generated", "none"}
  /\ UNCHANGED <<next, table, function, tries, results, seen, stop, saved, history, backup, spoilt, runs>>

\* The finally clause brings the configuration back.  The error ends the
\* process; a later one begins with a new Simulator.
CleanUp ==
  /\ phase = "raised" /\ phase' = "idle" /\ function' = 0 /\ stop' = FALSE
  /\ config' = backup /\ backup' = "none"
  /\ history' = IF table = NoRows THEN history ELSE Append(history, table)
  /\ UNCHANGED <<next, table, tries, results, seen, saved, spoilt, runs>>

\* The process is killed, perhaps with a generated configuration in place.
Kill ==
  /\ phase = "running" /\ ~spoilt
  /\ phase' = "idle" /\ function' = 0 /\ stop' = FALSE
  /\ config' \in (IF function > 0 THEN {"generated", "none"} ELSE {config})
  /\ spoilt' = (config' = "generated")
  /\ history' = IF table = NoRows THEN history ELSE Append(history, table)
  /\ UNCHANGED <<next, table, tries, results, seen, saved, backup, runs>>

Init ==
  /\ phase = "idle" /\ next = 0 /\ table = NoRows /\ function = 0 /\ tries = 0
  /\ results = <<>> /\ seen = {} /\ stop = FALSE /\ saved = <<>> /\ history = <<>>
  /\ config = "original" /\ backup = "none" /\ spoilt = FALSE /\ runs = 0

Next ==
  \/ Run \/ Finish \/ Skip \/ BeginRow \/ Rerun \/ RaiseError \/ CleanUp \/ Kill
  \/ \E stops \in BOOLEAN, asks \in 1..NumFunctions : Return(stops, asks)

Spec == Init /\ [][Next]_vars

\* The rows are those of the combinations before next that no condition
\* excludes, each once and in product order; nothing is missing but what stop
\* cut off at the end.
RowsInOrder ==
  phase = "running" =>
    /\ {table[i].of : i \in DOMAIN table} = {Combination(n) : n \in 0..(next - 1)} \ Excluded
    /\ \A i, j \in DOMAIN table : i < j =>
         \E m, n \in 0..(next - 1) : m < n /\ table[i].of = Combination(m) /\ table[j].of = Combination(n)

\* A function that asks for another one's result never gets that of an earlier
\* combination, and a row has results of its own combination only.
OwnResults ==
  /\ \A s \in seen : s.by = s.of
  /\ \A i \in DOMAIN table : \A f \in DOMAIN table[i].results :
       Combination(table[i].results[f].of) = table[i].of

\* What any run has saved stays in some file.
ArchiveKeeps ==
  \A i \in DOMAIN history : history[i] # NoRows => \E n \in DOMAIN saved : saved[n] = history[i]

\* Errors, and kills between two calls, do not cost the user's configuration:
\* when nothing runs it is in its place or will be brought back by the next run.
ConfigKept ==
  ~spoilt => "original" \in {config, backup} /\ (phase = "idle" => "generated" # config)

\* The results of an experiment are complete, in order, of their own combination
\* and kept, and the run costs nobody the configuration.
ResultsKept == RowsInOrder /\ OwnResults /\ ArchiveKeeps /\ ConfigKept
=============================================================================
