----------------------------- MODULE TenantView -----------------------------
(***************************************************************************)
(* What a controller sees of its virtual device through the proxy: the     *)
(* Write, Read and digests of proxies (tenants) that share switches        *)
(* (targets), each under its own names.  A call runs here without          *)
(* interruption; ConcurrentInserts and SerialUpdates are about calls that  *)
(* overlap.  A setup is what configuration files decide:                   *)
(*   tenants, targets  proxies, and for each the sequence of its targets   *)
(*   prefix, info      of each tenant                                      *)
(*   program           the p4info of each target                           *)
(*   names             names[a][t]: [any, map], any if names is left out   *)
(*   threads           the proxies are those of proxy_nonasync.py          *)
(*   keys              the matches and indexes that are used               *)
(***************************************************************************)
EXTENDS Integers, FiniteSets, P4Names

CONSTANTS Setups, Params, MaxCount

VARIABLES
  setup,
  dev,      \* what each target holds, in the names of its program
  virtual,  \* what one switch of its own would hold for each tenant
  answer    \* the answer to the last call: [op, by, of, ok, due, entities, size]

vars == <<setup, dev, virtual, answer>>

Tenants == setup.tenants
Keys == setup.keys
Targets(a) == setup.targets[a]
AllTargets == DOMAIN setup.program
AnyKey == "any"

Conv(a, t) == [from |-> setup.info[a], to |-> setup.program[t],
               prefix |-> setup.prefix[a], converts |-> setup.names[a][t].map]

Ids(info, kind) == {IdIn(info, kind, n) : n \in info.names[kind]}

-----------------------------------------------------------------------------
\* A P4 switch: table entries, each with its direct counter; counters, meters
\* and registers that are there from the start; digests switched on.
Fresh(info) ==
  {Entity("counter_entry", i, Zero, k, 0) : i \in Ids(info, "counter"), k \in Keys}
  \cup {Entity("meter_entry", i, Zero, k, 0) : i \in Ids(info, "meter"), k \in Keys}
  \cup {Entity("register_entry", i, Zero, k, 0) : i \in Ids(info, "register"), k \in Keys}

SameCell(x, e) == x.which = e.which /\ x.id = e.id /\ x.key = e.key

Accepts(cells, info, type, e) ==
  /\ e.id \in Ids(info, IdType(e.which)) /\ e.action \in Ids(info, "action") \cup {Zero}
  /\ IF type = "INSERT" THEN /\ e.which \in {"table_entry", "digest_entry"}
                             /\ ~\E x \in cells : SameCell(x, e)
                        ELSE \E x \in cells : SameCell(x, e)
  /\ type = "DELETE" => e.which = "table_entry"

Apply(cells, type, e) ==
  LET counted == Entity("direct_counter_entry", e.id, Zero, e.key, 0)
      gone == {x \in cells : SameCell(x, e) \/ (type = "DELETE" /\ SameCell(x, counted))}
  IN CASE type = "INSERT" -> cells \cup {e} \cup (IF e.which = "table_entry" THEN {counted} ELSE {})
       [] type = "MODIFY" -> (cells \ gone) \cup {e}
       [] type = "DELETE" -> {x \in cells \ gone : ~SameCell(x, counted)}

\* What is read by a request: a wildcard id stands for all.
Asked(cells, e) ==
  {x \in cells : x.which = e.which /\ e.id \in {Zero, x.id} /\ e.key \in {AnyKey, x.key}}

-----------------------------------------------------------------------------
Handles(a, t, name) == setup.names[a][t].any \/ name \in DOMAIN setup.names[a][t].map
Handling(a, name) ==
  FlattenSeq([i \in DOMAIN Targets(a) |-> IF Handles(a, Targets(a)[i], name) THEN <<Targets(a)[i]>> ELSE <<>>])

\* Bug: an entity goes to the first target that has its name.
MultiTargetsFirst(a, e) ==
  IF Len(Targets(a)) = 1 THEN {Targets(a)}
  ELSE {SelectSeq(Targets(a), LAMBDA t : Handles(a, t, name) /\ t = Head(Targets(a))) : name \in EntityName(setup.info[a], e)}

\* get_multi_target_switch_and_index: the targets of an entity, in order; a
\* single target gets everything.  An entity without a name has none.
MultiTargets(a, e) ==
  IF Len(Targets(a)) = 1 THEN {Targets(a)}
  ELSE {Handling(a, name) : name \in EntityName(setup.info[a], e)}

\* proxy_nonasync.py get_target_switch_and_index: the first of them.
FirstTarget(a, e) == {<<ts[1]>> : ts \in {s \in MultiTargets(a, e) : s # <<>>}}

TargetsOf(a, e) == IF setup.threads THEN FirstTarget(a, e) ELSE MultiTargets(a, e)

\* The loop over the targets of an update: the entity is converted in place,
\* for one target after the other.
Converted(a, ts, e) ==
  LET after[n \in 0..Len(ts)] ==
        IF n = 0 THEN {e} ELSE UNION {ConvertEntity(Conv(a, ts[n]), x) : x \in after[n - 1]}
  IN after[Len(ts)]

NoAnswer == [op |-> "none", by |-> AnyKey, of |-> AnyKey, ok |-> TRUE, due |-> {}, entities |-> {}, size |-> 0]
Answer(op, a, of, ok, due, entities, size) ==
  answer' = [op |-> op, by |-> a, of |-> of, ok |-> ok, due |-> due, entities |-> entities, size |-> size]

\* Write of one update: every target gets what the last conversion made of it.
Write(a, type, e) ==
  LET due == Accepts(virtual[a], setup.info[a], type, e)
      jobs == UNION {{ts} \X Converted(a, ts, e) : ts \in TargetsOf(a, e)}
      Takes(t, c) == Accepts(dev[t], setup.program[t], type, c)
  IN /\ \/ /\ jobs = {}
           /\ Answer("write", a, e.which, FALSE, due, {}, 0) /\ UNCHANGED dev
        \/ \E job \in jobs :
             LET ts == Range(job[1])
                 c == job[2]
             IN /\ dev' = [t \in AllTargets |->
                             IF t \in ts /\ Takes(t, c) THEN Apply(dev[t], type, c) ELSE dev[t]]
                /\ Answer("write", a, e.which, \A t \in ts : Takes(t, c), due, {}, 0)
     /\ virtual' = [virtual EXCEPT ![a] = IF due THEN Apply(@, type, e) ELSE @]
     /\ UNCHANGED setup

-----------------------------------------------------------------------------
\* The targets a Read asks: all of them for a wildcard.
ReadTargets(a, e) ==
  IF e.id = Zero /\ e.which # "register_entry" THEN {Targets(a)} ELSE TargetsOf(a, e)

\* Entities whose name does not start with the prefix are other tenants'.
Mine(a, name) == \E p \in PureP4Name(name) : IsPrefix(setup.prefix[a], p)

\* What one target's entity becomes in the answer: nothing, an entity, or an
\* exception if it has no name, its name no dot, or the conversion fails.
Translated(a, t, x) ==
  {[at |-> t, entity |-> b] :
     b \in UNION {ConvertEntityBack(Conv(a, t), x) : n \in {m \in EntityName(setup.program[t], x) : Mine(a, m)}}}

Untranslatable(a, t, x) ==
  LET names == EntityName(setup.program[t], x)
  IN \/ \A n \in names : PureP4Name(n) = {}
     \/ (\E n \in names : Mine(a, n)) /\ Translated(a, t, x) = {}

\* calculate_read_entity_custom_identifier
Identifier(e) ==
  IF e.which \in {"table_entry", "meter_entry", "direct_meter_entry"} THEN <<e.which, e.id>>
                                                                      ELSE <<e.which, e.id, e.key>>

\* Bug: counters of several targets are not added up.
MergedApart(received) == {r.entity : r \in received}

\* merge_duplicates_for_read_answer: counters add up, ...
Merged(received) ==
  {[r.entity EXCEPT !.data = IF r.entity.which \in {"counter_entry", "direct_counter_entry"}
                             THEN MapThenSumSet(LAMBDA s : s.entity.data,
                                                {s \in received : Identifier(s.entity) = Identifier(r.entity)})
                             ELSE @] : r \in received}

\* ... of everything else one copy is kept, and copies that differ or kinds it
\* does not know are exceptions.
Unmergeable(received) ==
  \E r, s \in received :
    \/ r.entity.which \in {"register_entry", "digest_entry"}
    \/ r.entity.which \in {"table_entry", "meter_entry", "direct_meter_entry"}
       /\ Identifier(r.entity) = Identifier(s.entity) /\ r.entity # s.entity

\* Read of one entity; the proxy of proxy_nonasync.py merges nothing.
Read(a, e) ==
  LET due == Asked(virtual[a], e)
      ts == UNION {Range(s) : s \in ReadTargets(a, e)}
      Got(t) == UNION {Asked(dev[t], c) : c \in ConvertEntity(Conv(a, t), e)}
      received == UNION {UNION {Translated(a, t, x) : x \in Got(t)} : t \in ts}
      raises == \/ ReadTargets(a, e) = {}
                \/ \E t \in ts : \/ ConvertEntity(Conv(a, t), e) = {}
                                 \/ \E x \in Got(t) : Untranslatable(a, t, x)
                \/ ~setup.threads /\ Unmergeable(received)
      entities == IF setup.threads THEN {r.entity : r \in received} ELSE Merged(received)
  IN /\ IF raises THEN Answer("read", a, e.which, FALSE, due, {}, 0)
        ELSE Answer("read", a, e.which, TRUE, due, entities,
                    Cardinality(IF setup.threads THEN received ELSE entities))
     /\ UNCHANGED <<setup, dev, virtual>>

-----------------------------------------------------------------------------
\* A packet of tenant a is counted at one of the targets that run the part of
\* its program with this counter or entry.
Packet(a, t, e) ==
  /\ e \in virtual[a] /\ e.which \in {"counter_entry", "direct_counter_entry"} /\ e.data < MaxCount
  /\ \E n \in EntityName(setup.info[a], e) : Len(Targets(a)) = 1 \/ Handles(a, t, n)
  /\ \E c \in ConvertEntity(Conv(a, t), e) : \E x \in dev[t] :
       /\ SameCell(x, c) /\ x.data < MaxCount
       /\ dev' = [dev EXCEPT ![t] = (@ \ {x}) \cup {[x EXCEPT !.data = @ + 1]}]
  /\ virtual' = [virtual EXCEPT ![a] = (@ \ {e}) \cup {[e EXCEPT !.data = @ + 1]}]
  /\ answer' = NoAnswer /\ UNCHANGED setup

\* A digest of target t that is part of tenant b's program reaches the stream
\* of a: forwarded, left out, or the end of the stream.
Digest(a, t, b, id) ==
  LET sent == ConvertId(Conv(b, t), "digest", id)
      names == UNION {GetName(setup.program[t], "digest", i) : i \in sent}
      mine == \E n \in names : StartsWith(n, setup.prefix[a])
      got == UNION {ConvertDigestBack(Conv(a, t), i) : i \in sent}
  IN /\ sent # {}
     /\ Answer("digest", a, "digest_entry", mine => got # {}, IF a = b THEN {id} ELSE {},
               IF mine THEN got ELSE {}, 0)
     /\ UNCHANGED <<setup, dev, virtual>>

-----------------------------------------------------------------------------
Init ==
  /\ setup \in Setups
  /\ dev = [t \in AllTargets |-> Fresh(setup.program[t])]
  /\ virtual = [a \in Tenants |-> Fresh(setup.info[a])]
  /\ answer = NoAnswer

\* What controllers write: entries, a counter set to zero, meter rates, digests.
Writes(info) ==
  {<<type, Entity("table_entry", i, act, k, d)>> :
     type \in {"INSERT", "MODIFY", "DELETE"}, i \in Ids(info, "table"), act \in Ids(info, "action"),
     k \in Keys, d \in Params}
  \cup {<<"MODIFY", Entity("counter_entry", i, Zero, k, 0)>> : i \in Ids(info, "counter"), k \in Keys}
  \cup {<<"MODIFY", Entity("meter_entry", i, Zero, k, d)>> : i \in Ids(info, "meter"), k \in Keys, d \in Params}
  \cup {<<"INSERT", Entity("digest_entry", i, Zero, CHOOSE k \in Keys : TRUE, 0)>> : i \in Ids(info, "digest")}

\* What they read: entities of the kinds their program has, or all of a kind.
ReadIds(info, which) == Ids(info, IF which = "register_entry" THEN "register" ELSE IdType(which))
Reads(info) ==
  UNION {{Entity(which, i, Zero, k, 0) : i \in {Zero} \cup ReadIds(info, which), k \in Keys \cup {AnyKey}} :
           which \in {w \in WhichOnes \ {"direct_meter_entry"} : ReadIds(info, w) # {}}}

Next ==
  \E a \in Tenants :
    \/ \E w \in Writes(setup.info[a]) : Write(a, w[1], w[2])
    \/ \E e \in Reads(setup.info[a]) : Read(a, e)
    \/ \E t \in Range(Targets(a)), e \in virtual[a] : Packet(a, t, e)
    \/ \E t \in Range(Targets(a)), b \in Tenants : t \in Range(Targets(b)) /\
         \E id \in Ids(setup.info[b], "digest") : Digest(a, t, b, id)

Spec == Init /\ [][Next]_vars

-----------------------------------------------------------------------------
AllNames(info) == UNION {info.names[k] : k \in Kinds}
IsPlain(a, t) == \A n \in DOMAIN setup.names[a][t].map : setup.names[a][t].map[n] = n
EntityNames(info) == UNION {info.names[k] : k \in Kinds \ {"action"}}
Replicated(a, n) ==
  \E t, u \in Range(Targets(a)) : t # u /\ Handles(a, t, n) /\ Handles(a, u, n)

\* What the conversion of names asks of a configuration: no namespace starts
\* with the prefix; a prefix and renames are not used together; names are
\* renamed to different full names that are not used otherwise; ...
TidyNames ==
  \A a \in Tenants : \A t \in Range(Targets(a)) :
    LET map == setup.names[a][t].map
        prefix == setup.prefix[a]
    IN /\ prefix # <<>> => IsPlain(a, t) /\ \A n \in AllNames(setup.info[a]) : ~IsPrefix(prefix, n.space)
       /\ IsInjective(map) /\ Range(map) \subseteq AllNames(setup.program[t])
       /\ Range(map) \cap (AllNames(setup.info[a]) \ DOMAIN map) = {}

\* ... a target is listed once; every name has a target, and one that has several
\* is the same, with the same id, everywhere; the proxy with threads knows no
\* replicas; ...
TidyTargets ==
  \A a \in Tenants : IsInjective(Targets(a)) /\ \A n \in EntityNames(setup.info[a]) :
    /\ Len(Targets(a)) = 1 \/ \E t \in Range(Targets(a)) : Handles(a, t, n)
    /\ Replicated(a, n) =>
         /\ ~setup.threads /\ setup.prefix[a] = <<>>
         /\ \A t \in Range(Targets(a)) : IsPlain(a, t) /\ setup.program[t].numbering = setup.info[a].numbering

\* ... a target's program has the names that the tenant's are converted to, and no
\* others that start with the prefix; names have dots but for those of digests; ...
Own(a, t, kind) == {n \in setup.info[a].names[kind] : kind = "action" \/ Len(Targets(a)) = 1 \/ Handles(a, t, n)}
NameAt(a, t, name) == PrefixP4Name(Renamed(Conv(a, t), name), setup.prefix[a])
TidyPrograms ==
  \A a \in Tenants : \A t \in Range(Targets(a)) : \A k \in Kinds :
    LET names == setup.program[t].names[k]
        converted == {NameAt(a, t, n) : n \in Own(a, t, k)}
    IN /\ converted \subseteq names
       /\ k # "action" => \A n \in names : IsPrefix(setup.prefix[a], n.base) => n \in converted
       /\ k \in {"table", "counter", "meter"} => \A n \in names : n.space # <<>>
       /\ k = "digest" => \A n \in names : n.space = <<>>

\* ... and tenants that share a target have prefixes none of which starts the other.
TidyPrefixes ==
  \A a, b \in Tenants :
    a # b /\ Range(Targets(a)) \cap Range(Targets(b)) # {} => ~IsPrefix(setup.prefix[a], setup.prefix[b])

Tidy == TidyNames /\ TidyTargets /\ TidyPrograms /\ TidyPrefixes

\* A Read that is answered tells what one switch of the tenant's own would:
\* its entries under its names, each once, and packets wherever they were
\* counted.
ReadsTrue ==
  answer.op = "read" /\ Tidy /\ answer.ok =>
    answer.entities = answer.due /\ answer.size = Cardinality(answer.due)

\* A Read of counters, tables or meters is refused just when more than one
\* entity of one table or meter is asked for: the merge takes them for replicas
\* that differ.
ReadsServed ==
  answer.op = "read" /\ Tidy /\ answer.of \notin {"register_entry", "digest_entry"} =>
    (~answer.ok <=> /\ ~setup.threads /\ answer.of \in {"table_entry", "meter_entry"}
                    /\ \E x, y \in answer.due : x.id = y.id /\ x # y)

\* The controller is told of a write what one switch would tell it.
WritesTold ==
  answer.op = "write" /\ Tidy => answer.ok = answer.due

\* What target t holds under tenant a's names, in a's names and without counts.
Counts == {"counter_entry", "direct_counter_entry"}
Uncounted(cells) ==
  {[x EXCEPT !.data = IF x.which \in Counts THEN 0 ELSE @] : x \in {y \in cells : y.which # "register_entry"}}
PartAt(a, t) == UNION {ConvertEntityBack(Conv(a, t), x) :
                         x \in {y \in dev[t] : \A n \in EntityName(setup.program[t], y) :
                                  y.which = "digest_entry" \/ Mine(a, n)}}

\* Each target holds its part of the virtual device and nothing else under the
\* tenant's names.
Mirrors ==
  Tidy => \A a \in Tenants : \A t \in Range(Targets(a)) :
    Uncounted(PartAt(a, t)) =
      Uncounted({x \in virtual[a] : Len(Targets(a)) = 1 \/ \A n \in EntityName(setup.info[a], x) : Handles(a, t, n)})

\* No controller changes what another one has written, whatever the setup.
Isolated ==
  [][\A b \in Tenants : answer'.op = "write" /\ answer'.by # b =>
       \A t \in Range(Targets(b)) :
         LET his == UNION {ConvertId(Conv(b, t), k, i) : k \in {"table", "counter", "meter"},
                                                       i \in UNION {Ids(setup.info[b], j) : j \in Kinds}}
         IN {x \in dev[t] : x.id \in his} = {x \in dev'[t] : x.id \in his}]_vars

\* Digests reach the stream of the tenant whose they are, under their own id.
DigestsTrue ==
  answer.op = "digest" /\ Tidy => answer.ok /\ answer.entities = answer.due

\* What controllers are told, by Reads, Writes and digests, is what a switch of
\* their own would tell them, but for the Reads that ReadsServed excepts.
ToldTrue == ReadsTrue /\ ReadsServed /\ WritesTold /\ DigestsTrue
=============================================================================
