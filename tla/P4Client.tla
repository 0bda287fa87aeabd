----------------------------- MODULE P4Client ------------------------------
(***************************************************************************)
(* Controllers, and the proxy itself, as clients of one switch: how a      *)
(* HighLevelSwitchConnection starts (synchronous and asyncio), the calls   *)
(* of a SwitchConnection that write and read, and the objects that         *)
(* controller_helper.py makes of counters.  The switch accepts calls of    *)
(* the primary only, and updates it can carry out; a call that it rejects  *)
(* raises in the client.  Connections without rate limit and batches; the  *)
(* bound on calls that are under way is MaxPending.                        *)
(***************************************************************************)
EXTENDS P4Builder

CONSTANTS
  Clients, Async,       \* clients, and those that use asyncio
  ElectionId, Sends, Resets,   \* of each: election_id_low, send_p4info, reset_dataplane
  Specs,                \* descriptions of table entries the clients write
  Once,                 \* digests, multicast groups, clone sessions: [kind, id]
  Cells,                \* counters and meters by their index: [kind, id, index]
  Values, MaxPending

VARIABLES
  phase,      \* of each client: "off", "started", "push", "up"
  unread,     \* clients that could not read the pipeline
  pipeline,   \* the switch has a program
  entries,    \* its table entries: key -> action
  inserted,   \* digests, multicast groups and clone sessions it has
  cells,      \* counters and meters, those of entries included: cell -> value
  asked,      \* what calls that returned asked for: meaning of a key -> of an action
  askedCells, \* the same of counters and meters: cell -> value
  pending     \* writes nobody waits for: [client, cell, value]

vars == <<phase, unread, pipeline, entries, inserted, cells, asked, askedCells, pending>>
switch == <<pipeline, entries, inserted, cells, asked, askedCells, pending>>

Empty == [x \in {} |-> x]
Set(f, x, v) == [y \in DOMAIN f \cup {x} |-> IF y = x THEN v ELSE f[y]]
Without(f, x) == [y \in DOMAIN f \ {x} |-> f[y]]

-----------------------------------------------------------------------------
\* The switch.
Connected == {c \in Clients : phase[c] # "off"}

\* Every request carries election id 1.
MayWrite(c) == ElectionId[c] = 1 /\ \A d \in Connected : ElectionId[d] <= 1

FitsField(m, f) ==
  /\ DecodeNum(m.of[1]) < 2 ^ f.width
  /\ m.type = "lpm" => m.of[2][1] \in 0..f.width
  /\ m.type \in {"ternary", "range"} => DecodeNum(m.of[2]) < 2 ^ f.width
FitsKey(k) ==
  \E t \in Tables : t.id = k.table /\ \A m \in k.match : \E f \in Members(t.fields, "id", m.id) : FitsField(m, f)
FitsAction(a) ==
  \E x \in Actions : x.id = a.id /\
    \A p \in a.params : \E q \in Members(x.params, "id", p.id) : DecodeNum(p.of) < 2 ^ q.width

Accepts(type, e) ==
  /\ pipeline /\ FitsKey(e.key) /\ FitsAction(e.action)
  /\ IF type = "INSERT" THEN ~e.key.default /\ e.key \notin DOMAIN entries
     ELSE e.key \in DOMAIN entries /\ (e.key.default => type = "MODIFY")

\* Entries of a table with a direct counter or meter have one each.
CellsOf(k) == UNION {{[kind |-> d, key |-> k] : d \in t.direct} : t \in {u \in Tables : u.id = k.table}}
MeaningOf(cell) ==
  IF cell.kind \in {"counter", "meter"} THEN cell
  ELSE [kind |-> cell.kind, key |-> KeyMeaning(KeySpec(cell.key))]

\* Tables have a default entry from the start.
DefaultEntries == {[table |-> t.id, match |-> {}, default |-> TRUE, priority |-> 0] : t \in Tables}
NoAction == [id |-> 0, params |-> {}]
NoActionMeaning == [action |-> "NoAction", params |-> Empty]
FreshEntries == [k \in DefaultEntries |-> NoAction]
FreshAsked == [k \in {KeyMeaning(KeySpec(d)) : d \in DefaultEntries} |-> NoActionMeaning]
Fresh == [c \in Cells |-> 0]

-----------------------------------------------------------------------------
MayStart(c) == \A d \in Connected : ElectionId[d] # ElectionId[c]

\* HighLevelSwitchConnection.  A second client of the same election id is
\* refused: its constructor raises.
Start(c) ==
  /\ phase[c] = "off" /\ MayStart(c)
  /\ phase' = [phase EXCEPT ![c] = IF Sends[c] THEN "started" ELSE "up"]
  /\ UNCHANGED <<unread, switch>>

\* The program is sent unless reset_dataplane is off and the switch says that
\* it runs it; if reading it fails that is passed over.
MustPush(c, fails) == Resets[c] \/ ~pipeline \/ fails

ReadPipeline(c, fails) ==
  /\ phase[c] = "started" /\ (fails => ~Resets[c])
  /\ phase' = [phase EXCEPT ![c] = IF MustPush(c, fails) THEN "push" ELSE "up"]
  /\ unread' = IF fails THEN unread \cup {c} ELSE unread
  /\ UNCHANGED switch

\* SetForwardingPipelineConfig, with VERIFY_AND_COMMIT: the switch begins anew.
Push(c) ==
  /\ phase[c] = "push"
  /\ IF MayWrite(c)
     THEN /\ phase' = [phase EXCEPT ![c] = "up"] /\ pipeline' = TRUE
          /\ entries' = FreshEntries /\ cells' = Fresh /\ asked' = FreshAsked /\ askedCells' = Fresh
          /\ inserted' = {} /\ UNCHANGED pending
     ELSE phase' = [phase EXCEPT ![c] = "off"] /\ UNCHANGED switch
  /\ unread' = unread \ {c}

\* The process ends: it is stopped, crashes or leaves after an error, and
\* ShutdownAllSwitchConnections closes what it has open.  Writes nobody has
\* waited for may be lost.
Leave(c) ==
  /\ phase[c] # "off" /\ phase' = [phase EXCEPT ![c] = "off"]
  /\ pending' = {w \in pending : w.client # c} /\ unread' = unread \ {c}
  /\ UNCHANGED <<pipeline, entries, inserted, cells, asked, askedCells>>

-----------------------------------------------------------------------------
\* WriteTableEntry: a default action is modified, whatever type is asked for.
WriteType(spec, type) == IF spec.default THEN "MODIFY" ELSE type

\* A write that returns has been carried out; one that does not build, or that
\* is rejected, raises, and changes nothing.
Carried(c, spec, type) ==
  /\ phase[c] = "up" /\ MayWrite(c)
  /\ \E e \in BuildTableEntry(spec) :
       LET k == KeyMeaning(spec) gone == CellsOf(e.key) IN
       /\ Accepts(type, e)
       /\ IF type = "DELETE"
          THEN /\ entries' = Without(entries, e.key) /\ asked' = Without(asked, k)
               /\ cells' = [x \in DOMAIN cells \ gone |-> cells[x]]
               /\ askedCells' = [x \in DOMAIN askedCells \ {MeaningOf(g) : g \in gone} |-> askedCells[x]]
          ELSE /\ entries' = Set(entries, e.key, e.action) /\ asked' = Set(asked, k, ActionMeaning(spec))
               /\ IF type = "INSERT"
                  THEN /\ cells' = [x \in DOMAIN cells \cup gone |-> IF x \in gone THEN 0 ELSE cells[x]]
                       /\ askedCells' = [x \in DOMAIN askedCells \cup {MeaningOf(g) : g \in gone} |->
                                           IF x \in DOMAIN askedCells THEN askedCells[x] ELSE 0]
                  ELSE UNCHANGED <<cells, askedCells>>
  /\ UNCHANGED <<phase, unread, pipeline, inserted, pending>>

WriteTableEntry(c, spec, type) == Carried(c, spec, WriteType(spec, type))

\* build_update and WriteUpdates: the type is sent as it is.
WriteUpdate(c, spec, type) == c \in Async /\ Carried(c, spec, type)

\* The asyncio WriteCountersEntry starts the call and returns; everything else
\* waits for the answer.
Awaited(c, cell) == c \notin Async \/ cell.kind # "counter"

\* A counter or a meter is written: always a MODIFY.
WriteCell(c, cell, v) ==
  /\ phase[c] = "up"
  /\ IF Awaited(c, cell)
     THEN /\ MayWrite(c) /\ pipeline /\ cell \in DOMAIN cells
          /\ cells' = [cells EXCEPT ![cell] = v] /\ UNCHANGED pending
     ELSE /\ Cardinality(pending) < MaxPending
          /\ pending' = pending \cup {[client |-> c, cell |-> cell, value |-> v]} /\ UNCHANGED cells
  /\ askedCells' = Set(askedCells, MeaningOf(cell), v)
  /\ UNCHANGED <<phase, unread, pipeline, entries, inserted, asked>>

\* build_counter_entry and WriteCountersEntry; build_meter_config_entry and
\* WriteMeterEntry.
WriteCounter(c, v) == \E x \in Cells : x.kind = "counter" /\ WriteCell(c, x, v)
WriteMeter(c, v) == \E x \in Cells : x.kind = "meter" /\ WriteCell(c, x, v)

\* build_direct_counter_entry and WriteDirectCounterEntry,
\* build_direct_meter_config_entry and WriteDirectMeterEntry.
WriteDirectCounter(c, v) ==
  \E spec \in Specs : \E k \in BuildKey(spec) : WriteCell(c, [kind |-> "direct counter", key |-> k], v)
WriteDirectMeter(c, v) ==
  \E spec \in Specs : \E k \in BuildKey(spec) : WriteCell(c, [kind |-> "direct meter", key |-> k], v)

\* WriteDigest, and WritePREEntry of what build_multicast_group_entry and
\* build_clone_session_entry make: always an INSERT, which a switch that has
\* it already rejects.
InsertOnce(c, x) ==
  /\ phase[c] = "up" /\ MayWrite(c) /\ pipeline /\ x \notin inserted
  /\ inserted' = inserted \cup {x}
  /\ UNCHANGED <<phase, unread, pipeline, entries, cells, asked, askedCells, pending>>

\* A write that nobody waits for is carried out, or rejected and nobody knows.
Land(w) ==
  /\ w \in pending /\ pending' = pending \ {w}
  /\ IF MayWrite(w.client) /\ pipeline /\ w.cell \in DOMAIN cells
     THEN cells' = [cells EXCEPT ![w.cell] = w.value]
     ELSE UNCHANGED cells
  /\ UNCHANGED <<phase, unread, pipeline, entries, inserted, asked, askedCells>>

-----------------------------------------------------------------------------
\* What a client that is up reads.  ReadTableEntries: of one table, or of all.
TableEntriesRead(ids) == {[key |-> k, action |-> entries[k]] : k \in {x \in DOMAIN entries : x.table \in ids /\ ~x.default}}

\* ReadCounters, of one id and index or of all; ReadMeters, which raises
\* unless it is given an id.
CellsRead(kind, ids, indexes) ==
  {[cell |-> x, value |-> cells[x]] :
     x \in {y \in DOMAIN cells \cap Cells : y.kind = kind /\ y.id \in ids /\ y.index \in indexes}}
MetersRead(id, indexes) == CellsRead("meter", {id}, indexes)

\* get_counter_objects_by_id, get_counter_objects: the index is not kept.
CounterObjects(ids, indexes) ==
  {[id |-> o.cell.id, value |-> o.value] : o \in CellsRead("counter", ids, indexes)}

\* ReadDirectCounters, ReadDirectMeters: of one table.
DirectRead(kind, id) ==
  {[of |-> k, value |-> cells[[kind |-> kind, key |-> k]]] :
     k \in {x \in DOMAIN entries : x.table = id /\ ~x.default /\ [kind |-> kind, key |-> x] \in DOMAIN cells}}

FirstMatchField(table) == {t.fields[1] : t \in {u \in Tables : u.name = table}}

\* get_match_field without a name or an id
TheMatchField(table) == {f \in FirstMatchField(table) : \A t \in Tables : t.name = table => Len(t.fields) = 1}

\* get_direct_counter_objects: it raises unless the table has one match field,
\* exact or lpm; an object has the value of its entry's match.
DirectCounterObjects(name) ==
  {{[match |-> (CHOOSE m \in o.of.match : TRUE).of, value |-> o.value] : o \in DirectRead("direct counter", t.id)} :
     t \in {u \in TablesNamed(name) : \E f \in TheMatchField(name) : f.type \in {"exact", "lpm"}}}

\* What is asked of the descriptions: values of Python, the length of a prefix
\* as an integer; an entry of a table with one field that matches exactly or by
\* prefix names the field and has no priority.
SoundRequests ==
  /\ \A spec \in Specs :
       /\ spec.default \in BOOLEAN
       /\ spec.fields \in [DOMAIN spec.fields -> Seq(PythonValues)] /\ spec.params \in [DOMAIN spec.params -> PythonValues]
       /\ \A t \in TablesNamed(spec.table) : \A i \in DOMAIN t.fields :
            LET f == t.fields[i] IN
            /\ f.type = "lpm" /\ f.name \in DOMAIN spec.fields /\ Len(spec.fields[f.name]) = 2 =>
                 spec.fields[f.name][2].kind = "int"
            /\ f.type \in {"exact", "lpm"} /\ Len(t.fields) = 1 /\ ~spec.default =>
                 DOMAIN spec.fields # {} /\ spec.priority = 0
  /\ \A x \in Cells : x.kind \in {"counter", "meter"}

Init ==
  /\ phase = [c \in Clients |-> "off"] /\ unread = {} /\ pipeline = FALSE
  /\ entries = Empty /\ inserted = {} /\ cells = Empty /\ asked = Empty /\ askedCells = Empty
  /\ pending = {}

Connect(c) == Start(c) \/ (\E fails \in BOOLEAN : ReadPipeline(c, fails)) \/ Push(c)
Write(c) ==
  \/ \E spec \in Specs, type \in {"INSERT", "MODIFY", "DELETE"} : WriteTableEntry(c, spec, type) \/ WriteUpdate(c, spec, type)
  \/ \E v \in Values : WriteCounter(c, v) \/ WriteMeter(c, v) \/ WriteDirectCounter(c, v) \/ WriteDirectMeter(c, v)
  \/ \E x \in Once : InsertOnce(c, x)

Next ==
  \/ \E c \in Clients : Connect(c) \/ Leave(c) \/ Write(c)
  \/ \E w \in pending : Land(w)

Spec == Init /\ [][Next]_vars

-----------------------------------------------------------------------------
\* A switch has what the calls that returned asked for: the fields and
\* parameters they named, with the numbers they gave in whatever form, and an
\* entry described in another form is found again to be modified or deleted.
AsAsked ==
  \A k \in DOMAIN entries :
    /\ KeyMeaning(KeySpec(k)) \in DOMAIN asked
    /\ entries[k] # NoAction => asked[KeyMeaning(KeySpec(k))] = ActionMeaning(ActionSpec(entries[k]))

\* What is read of an entry, by names and values, builds the same entry again.
EntrySpec(e) ==
  LET k == KeySpec(e.key) a == ActionSpec(e.action) IN
  [table |-> k.table, fields |-> k.fields, default |-> k.default, priority |-> k.priority,
   action |-> a.action, params |-> a.params]
BuildsAgain == \A e \in TableEntriesRead({t.id : t \in Tables}) : BuildTableEntry(EntrySpec(e)) = {e}

\* A write of a counter or a meter that returned is what is read until the next
\* one; only the counter writes that an asyncio client does not wait for may
\* come late, or never.
LastWriteStays ==
  /\ \A t \in Tables, kind \in {"direct counter", "direct meter"} : \A o \in DirectRead(kind, t.id) :
       o.value = askedCells[MeaningOf([kind |-> kind, key |-> o.of])]
  /\ \A x \in Cells : \A o \in MetersRead(x.id, {x.index}) : o.value = askedCells[o.cell]

\* Controllers find an entry's counter by the value of its match: there is one
\* object for each entry.
ToldApart ==
  \A t \in Tables : \A objects \in DirectCounterObjects(t.name) :
    \A o, q \in objects : o.match = q.match => o = q

\* A client that is not to reset the data plane never does so to a switch that
\* runs the program, unless it could not read that.
Kept ==
  [][\A c \in Clients : phase[c] = "push" /\ phase'[c] = "up" => Resets[c] \/ ~pipeline \/ c \in unread]_vars

\* The connection is faithful: the switch holds what the callers asked for,
\* tells it in a form that asks for the same again, and keeps it when another
\* client connects.
Faithful == [](AsAsked /\ BuildsAgain /\ LastWriteStays /\ ToldApart) /\ Kept
=============================================================================
