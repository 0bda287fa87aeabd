----------------------------- MODULE P4Builder -----------------------------
(***************************************************************************)
(* The P4Info helper (helper.py) and the conversions it uses (convert.py): *)
(* how controllers build table entries from names and Python values, and   *)
(* read names and values back.  What raises in the code is an empty set    *)
(* here, what returns is a set of one element.                             *)
(*                                                                         *)
(* A Python value is [kind, of]: "int" of a number; "bytes", "mac" (a      *)
(* string of six octets) and "ip" (of four, each of up to three digits) of *)
(* a sequence.  Any other string raises sooner or later.                   *)
(***************************************************************************)
EXTENDS Integers, Sequences, FiniteSets, SequencesExt, FiniteSetsExt

CONSTANTS
  ByteBits,   \* bits of a byte, 8 in the code
  Tables,     \* the p4info's tables: [name, alias, id, fields, direct]; a field is [name, id, width, type]
  Actions     \* its actions: [name, id, params]; a parameter is [name, id, width]

\* What a byte counts that k others come after.
Weight(k) == 2 ^ (ByteBits * k)
Base == Weight(1)

\* Python values and the number each stands for.
IntValue(n) == [kind |-> "int", of |-> n]
Octets(kind, s) == [kind |-> kind, of |-> s]
DecodeNum(bytes) ==
  LET part == [i \in DOMAIN bytes |-> bytes[i] * Weight(Len(bytes) - i)]
  IN MapThenSumSet(LAMBDA i : part[i], DOMAIN bytes)
Number(v) == IF v.kind = "int" THEN v.of ELSE DecodeNum(v.of)

BitwidthToBytes(w) == (w + ByteBits - 1) \div ByteBits
Padded(n, w) == [i \in 1..BitwidthToBytes(w) |-> (n \div Weight(BitwidthToBytes(w) - i)) % Base]

\* Bug: what does not fit is cut off.
EncodeNumCut(n, w) == IF n >= 0 /\ w > 0 THEN {Padded(n % 2 ^ w, w)} ELSE {}

\* A negative number and a field of no bits end in a bytes.fromhex that raises.
EncodeNum(n, w) == IF n >= 0 /\ w > 0 /\ n < 2 ^ w THEN {Padded(n, w)} ELSE {}

Encode(v, w) ==
  LET bytes == CASE v.kind = "int" -> EncodeNum(v.of, w)
                 [] v.kind = "ip" -> {s \in {v.of} : \A i \in DOMAIN s : s[i] < Base}
                 [] OTHER -> {v.of}
  IN {b \in bytes : Len(b) = BitwidthToBytes(w)}

\* get with a name: by name or alias; get_match_field knows full names only.
TablesNamed(name) == {t \in Tables : name \in {t.name, t.alias}}
ActionsNamed(name) == {a \in Actions : a.name = name}
Members(s, key, x) == {s[i] : i \in {j \in DOMAIN s : s[j][key] = x}}

MatchField(table, key, x) ==
  UNION {Members(t.fields, key, x) : t \in {u \in Tables : u.name = table}}
ActionParam(action, key, x) == UNION {Members(a.params, key, x) : a \in ActionsNamed(action)}

\* get_match_field_pb; the value is a pair unless the field matches exactly.
\* The length of a prefix is stored as it is.
MatchFieldPb(table, name, args) ==
  UNION {CASE f.type = "exact" /\ Len(args) = 1 ->
                {[id |-> f.id, type |-> f.type, of |-> <<b>>] : b \in Encode(args[1], f.width)}
           [] f.type = "lpm" /\ Len(args) = 2 ->
                {[id |-> f.id, type |-> f.type, of |-> <<b, <<args[2].of>> >>] : b \in Encode(args[1], f.width)}
           [] f.type \in {"ternary", "range"} /\ Len(args) = 2 ->
                {[id |-> f.id, type |-> f.type, of |-> <<b, c>>] :
                   b \in Encode(args[1], f.width), c \in Encode(args[2], f.width)}
           [] OTHER -> {} : f \in MatchField(table, "name", name)}

ActionParamPb(action, name, v) ==
  UNION {{[id |-> p.id, of |-> b] : b \in Encode(v, p.width)} : p \in ActionParam(action, "name", name)}

\* One of each, if none of them raises.
All(pb) ==
  IF \E n \in DOMAIN pb : pb[n] = {} THEN {} ELSE {{CHOOSE x \in pb[n] : TRUE : n \in DOMAIN pb}}

\* build_table_entry, of [table, fields, default, priority, action, params];
\* the matches of build_direct_counter_entry and build_direct_meter_config_entry.
BuildKey(spec) ==
  {[table |-> t.id, match |-> m, default |-> spec.default, priority |-> spec.priority] :
     t \in TablesNamed(spec.table),
     m \in All([n \in DOMAIN spec.fields |-> MatchFieldPb(spec.table, n, spec.fields[n])])}
BuildAction(spec) ==
  {[id |-> a.id, params |-> ps] :
     a \in ActionsNamed(spec.action),
     ps \in All([n \in DOMAIN spec.params |-> ActionParamPb(spec.action, n, spec.params[n])])}
BuildTableEntry(spec) == {[key |-> k, action |-> a] : k \in BuildKey(spec), a \in BuildAction(spec)}

\* get_match_field_value
MatchFieldValue(m) ==
  IF m.type = "lpm" THEN <<Octets("bytes", m.of[1]), IntValue(m.of[2][1])>>
  ELSE [i \in DOMAIN m.of |-> Octets("bytes", m.of[i])]

\* The description that a key or an action that was read gives, by the names
\* get_tables_name, get_match_field_name, get_actions_name and
\* get_action_param_name find.
TableName(id) == (CHOOSE t \in Tables : t.id = id).name
KeySpec(k) ==
  LET name(m) == (CHOOSE f \in MatchField(TableName(k.table), "id", m.id) : TRUE).name IN
  [table |-> TableName(k.table), default |-> k.default, priority |-> k.priority,
   fields |-> [n \in {name(m) : m \in k.match} |-> MatchFieldValue(CHOOSE m \in k.match : name(m) = n)]]
ActionSpec(a) ==
  LET action == (CHOOSE x \in Actions : x.id = a.id).name
      name(p) == (CHOOSE q \in ActionParam(action, "id", p.id) : TRUE).name IN
  [action |-> action,
   params |-> [n \in {name(p) : p \in a.params} |-> Octets("bytes", (CHOOSE p \in a.params : name(p) = n).of)]]

\* What a compiler puts into a p4info: names, aliases and ids tell tables apart,
\* names and ids do so with actions, and with the fields or parameters of one;
\* nothing is without bits.
Distinct(s) == \A i, j \in DOMAIN s : s[i].name = s[j].name \/ s[i].id = s[j].id => i = j
SoundProgram ==
  /\ ByteBits \in Nat \ {0}
  /\ \A t \in Tables :
       /\ \A u \in Tables : {t.name, t.alias} \cap {u.name, u.alias} # {} \/ t.id = u.id => t = u
       /\ Distinct(t.fields) /\ t.direct \subseteq {"direct counter", "direct meter"}
       /\ t.fields \in Seq([name : STRING, id : Int, width : Nat \ {0}, type : {"exact", "lpm", "ternary", "range"}])
  /\ \A a \in Actions :
       /\ \A b \in Actions : a.name = b.name \/ a.id = b.id => a = b
       /\ Distinct(a.params) /\ a.params \in Seq([name : STRING, id : Int, width : Nat \ {0}])

\* Values that Python and convert.py know.
PythonValues ==
  [kind : {"int"}, of : Int] \cup [kind : {"bytes", "mac"}, of : Seq(0..(Base - 1))] \cup [kind : {"ip"}, of : Seq(Nat)]

\* What a description means, whatever kinds of values it is written with.
KeyMeaning(spec) ==
  [table |-> (CHOOSE t \in TablesNamed(spec.table) : TRUE).name, default |-> spec.default, priority |-> spec.priority,
   fields |-> [n \in DOMAIN spec.fields |-> [i \in DOMAIN spec.fields[n] |-> Number(spec.fields[n][i])]]]
ActionMeaning(spec) ==
  [action |-> spec.action, params |-> [n \in DOMAIN spec.params |-> Number(spec.params[n])]]
=============================================================================
