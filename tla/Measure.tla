------------------------------ MODULE Measure -------------------------------
(***************************************************************************)
(* The data plane that measures the proxy (testcases/restructure/subtests/ *)
(* measure/controller.py): its Write, which grpc calls from a pool of      *)
(* threads, counts updates and their delays, and reports both once more    *)
(* than a second has passed since the last report.  An update carries the  *)
(* time it was sent at, a count of microseconds modulo Wrap (2^32).        *)
(*                                                                         *)
(* A request is a sequence of [table, delay]; delay is the time it took,   *)
(* which the code has to find out.  MaxUpdates bounds the updates.         *)
(***************************************************************************)
EXTENDS Integers, Sequences, FiniteSetsExt, SequencesExt

CONSTANTS Threads, Tables, Requests, Wrap, MaxUpdates

VARIABLES
  at, request,  \* of each thread: "idle", "look", "create", "count", and what it handles
  first, warm,  \* a message has come; a second has passed since
  creations,    \* TickCounters made so far
  counter,      \* of the latest one
  order,        \* tables seen so far, as the dicts keep them
  tick,         \* tick_counter_by_table
  average,      \* average_calculator: total (0) and by table
  data,         \* data_collector: lists of ticks and of delays, total (0) and by table
  dead,         \* a report has raised
  counted, delays, silent  \* what really was: updates, delays since the last
                           \* report, a table without an update for a window

vars == <<at, request, first, warm, creations, counter, order, tick, average, data, dead, counted, delays, silent>>
state == <<first, warm, creations, counter, order, tick, average, data, dead, counted, delays, silent>>

Total == 0
Keys == {Total} \cup Tables
Each(v) == [k \in Keys |-> v]

Sum(list) == MapThenSumSet(LAMBDA i : list[i], DOMAIN list)

\* ContiniousAverageCalculator: the sum and how many; None is <<0, 0>>.
None == <<0, 0>>
AddValues(avg, values) == <<avg[1] + Sum(values), avg[2] + Len(values)>>

\* get_now_ts_us_int32
Stamp(time) == time % Wrap

\* diff_ts_us_int32
Diff(a, b) == IF a <= b THEN b - a ELSE b - (a - Wrap)

Arrive(w, r) ==
  /\ at[w] = "idle" /\ MapThenSumSet(LAMBDA k : counted[k], Tables) + Len(r) <= MaxUpdates
  /\ at' = [at EXCEPT ![w] = "look"] /\ request' = [request EXCEPT ![w] = r]
  /\ UNCHANGED state

\* The first message and what comes within a second of it are not counted.
\* No lock is held here: two threads may both find no TickCounter.
Look(w) ==
  /\ at[w] = "look" /\ first' = TRUE
  /\ at' = [at EXCEPT ![w] = CASE ~first \/ ~warm -> "idle"
                               [] first /\ warm /\ creations = 0 -> "create"
                               [] OTHER -> "count"]
  /\ UNCHANGED <<request, warm, creations, counter, order, tick, average, data, dead, counted, delays, silent>>

SecondPasses == first /\ ~warm /\ warm' = TRUE /\
  UNCHANGED <<at, request, first, creations, counter, order, tick, average, data, dead, counted, delays, silent>>

Create(w) ==
  /\ at[w] = "create" /\ at' = [at EXCEPT ![w] = "count"]
  /\ creations' = creations + 1 /\ counter' = 0
  /\ UNCHANGED <<request, first, warm, order, tick, average, data, dead, counted, delays, silent>>

\* The updates of a request that concern k.
Of(r, k) == FlattenSeq([i \in DOMAIN r |-> IF k \in {Total, r[i].table} THEN <<r[i]>> ELSE <<>>])

\* New tables come last.  Their order makes no difference: no list of theirs raises.
Seen(r) == order \o SetToSeq({t \in Tables \ ToSet(order) : Of(r, t) # <<>>})

\* How long the updates took: really, and by the clock when it shows now.
Took(r, k) == [i \in DOMAIN Of(r, k) |-> Of(r, k)[i].delay]
Measured(r, k, now) == [i \in DOMAIN Of(r, k) |-> Diff(Stamp(now - Of(r, k)[i].delay), Stamp(now))]

\* The average after the updates, handled when the clock shows now.
Averages(r, now) == [k \in Keys |-> AddValues(average[k], Measured(r, k, now))]

\* DataCollector.get_center_avg_stdev sorts the list, or adds its two elements:
\* that raises if there is a None in it and something else.
Raises(list) == Len(list) > 1 /\ \E i \in DOMAIN list : list[i] = None

\* Bug: tick_counter_by_table is not reset.
ResetTicksNever(ticks, tables) == ticks

ResetTicks(ticks, tables) == [k \in Keys |-> IF k \in tables THEN 0 ELSE ticks[k]]

\* The rest of Write holds the lock.  If a report is due, the lists are
\* extended table after table; a list that raises ends the call there, with the
\* averages as they are and nothing written.
Count(w, now, due) ==
  /\ at[w] = "count" /\ at' = [at EXCEPT ![w] = "idle"]
  /\ LET r == request[w] seen == Seen(r) avg == Averages(r, now)
         ticks == [k \in Keys |-> tick[k] + Len(Of(r, k))]
         delay(k) == Append(data[k].delays, avg[k])
         bad == {i \in DOMAIN seen : Raises(delay(seen[i]))}
         raised == Raises(delay(Total)) \/ bad # {}
         last == IF bad = {} THEN Len(seen) ELSE Min(bad)
         tables == IF Raises(delay(Total)) THEN {} ELSE {seen[i] : i \in 1..last}
     IN /\ order' = seen
        /\ counted' = [k \in Keys |-> counted[k] + Len(Of(r, k))]
        /\ delays' = [k \in Keys |-> IF due /\ ~raised THEN <<>> ELSE delays[k] \o Took(r, k)]
        /\ silent' = (silent \/ (due /\ \E t \in ToSet(seen) : ticks[t] = 0))
        /\ IF due
           THEN /\ counter' = 0 /\ tick' = ResetTicks(ticks, tables)
                /\ data' = [k \in Keys |->
                     IF k = Total THEN [ticks |-> Append(data[k].ticks, counter + Len(r)), delays |-> delay(k)]
                     ELSE IF k \in tables THEN [ticks |-> Append(data[k].ticks, ticks[k]), delays |-> delay(k)]
                     ELSE data[k]]
                /\ dead' = (dead \/ raised)
                /\ average' = IF raised THEN avg ELSE Each(None)
           ELSE counter' = counter + Len(r) /\ tick' = ticks /\ average' = avg /\ UNCHANGED <<data, dead>>
  /\ UNCHANGED <<request, first, warm, creations>>

Init ==
  /\ at = [w \in Threads |-> "idle"] /\ request = [w \in Threads |-> <<>>]
  /\ first = FALSE /\ warm = FALSE /\ creations = 0 /\ counter = 0 /\ order = <<>>
  /\ tick = Each(0) /\ average = Each(None) /\ data = Each([ticks |-> <<>>, delays |-> <<>>]) /\ dead = FALSE
  /\ counted = Each(0) /\ delays = Each(<<>>) /\ silent = FALSE

Next ==
  \/ SecondPasses
  \/ \E w \in Threads :
       \/ Look(w) \/ Create(w)
       \/ \E r \in Requests : Arrive(w, r)
       \/ \E now \in Wrap..(2 * Wrap - 1), due \in BOOLEAN : Count(w, now, due)

Spec == Init /\ [][Next]_vars

-----------------------------------------------------------------------------
\* Every update that is counted shows up in the ticks of its table once, whatever
\* the threads do and even if a report raises.
TablesAddUp == \A t \in Tables : Sum(data[t].ticks) + tick[t] = counted[t]

\* So it does in the total, unless two threads have made a TickCounter each.
TotalAddsUp == creations < 2 => Sum(data[Total].ticks) + counter = counted[Total]

\* The averages are those of the delays since the last report, although the
\* clock that is sent wraps around.
MeansTrue == \A k \in Keys : average[k] = <<Sum(delays[k]), Len(delays[k])>>

\* The measurement dies only after a window in which a table that had updates
\* before had none.
DiesOfSilence == dead => silent

\* What the data plane reports is what it measured.
MeasuredTrue == TablesAddUp /\ TotalAddsUp /\ MeansTrue /\ DiesOfSilence
=============================================================================
