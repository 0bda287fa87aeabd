------------------------------ MODULE P4Names ------------------------------
(***************************************************************************)
(* p4_name_id_helper.py: names and ids of the virtual device's program are *)
(* turned into those of a target's program and back.  A name is its        *)
(* namespace and what follows the dot, each a sequence of the parts that a *)
(* prefix may match; a name without a dot has an empty namespace.  A       *)
(* p4info is the names it declares and how its compiler numbers them.      *)
(* What raises an exception in the code has no result here: a conversion   *)
(* returns a set, empty or with the one result.                            *)
(***************************************************************************)
EXTENDS Sequences, SequencesExt

Kinds == {"table", "action", "meter", "counter", "register", "digest"}

\* RESTRICTED_P4_NAMES
NoAction == [space |-> <<>>, base |-> <<"NoAction">>]

\* The characters of a name come from the namespace first, if it has one.
StartsWith(name, prefix) ==
  IsPrefix(prefix, IF name.space = <<>> THEN name.base ELSE name.space)

Without(part, prefix) == SubSeq(part, Len(prefix) + 1, Len(part))

\* Bug: the prefix is forgotten.
PrefixForgotten(name, prefix) == name

\* prefix_p4_name
PrefixP4Name(name, prefix) ==
  IF name = NoAction THEN name ELSE [name EXCEPT !.base = prefix \o @]

\* A prefix is looked for at the start of the whole name, then after the dot.
RemovePrefixP4Name(name, prefix) ==
  CASE name = NoAction -> {name}
    [] name # NoAction /\ StartsWith(name, prefix) ->
         IF name.space = <<>> THEN {[name EXCEPT !.base = Without(@, prefix)]}
                              ELSE {[name EXCEPT !.space = Without(@, prefix)]}
    [] name # NoAction /\ ~StartsWith(name, prefix) ->
         {[name EXCEPT !.base = Without(@, prefix)] :
            x \in {b \in {name.base} : name.space # <<>> /\ IsPrefix(prefix, b)}}

\* get_pure_p4_name: what follows the dot.
PureP4Name(name) == {b \in {name.base} : name.space # <<>>}

-----------------------------------------------------------------------------
\* P4InfoHelper.  An object's alias is its name without the namespace.
Zero == <<>>
IdIn(info, kind, name) == <<kind, info.numbering, name>>

\* get, get_id: an object is found by name or by alias.
GetId(info, kind, name) ==
  {IdIn(info, kind, n) : n \in {o \in info.names[kind] :
       o = name \/ (name.space = <<>> /\ o.base = name.base)}}

\* get, get_name
GetName(info, kind, id) == {n \in info.names[kind] : IdIn(info, kind, n) = id}

-----------------------------------------------------------------------------
\* P4NameConverter: [from, to, prefix, converts]; converts is a function from
\* names to names, without any in its domain if there is none.
Renamed(conv, name) == IF name \in DOMAIN conv.converts THEN conv.converts[name] ELSE name

\* reverse_converts
RenamedBack(conv, name) ==
  IF name \in Range(conv.converts) THEN AntiFunction(conv.converts)[name] ELSE name

ConvertId(conv, kind, id) ==
  UNION {GetId(conv.to, kind, PrefixP4Name(Renamed(conv, name), conv.prefix)) :
           name \in GetName(conv.from, kind, id)}

ConvertIdBack(conv, kind, id) ==
  UNION {UNION {GetId(conv.from, kind, plain) :
                  plain \in RemovePrefixP4Name(RenamedBack(conv, name), conv.prefix)} :
           name \in GetName(conv.to, kind, id)}

-----------------------------------------------------------------------------
\* An entity is [which, id, action, key, data]: id is that of its table, meter,
\* counter, register or digest, action that of its action or Zero if it has
\* none, key its match or index.
Entity(which, id, action, key, data) ==
  [which |-> which, id |-> id, action |-> action, key |-> key, data |-> data]

WhichOnes == {"table_entry", "counter_entry", "direct_counter_entry", "meter_entry",
              "direct_meter_entry", "register_entry", "digest_entry"}

\* The kind of id that the converters of each entity look up; those of
\* registers are taken for counters.
IdType(which) ==
  CASE which \in {"table_entry", "direct_counter_entry", "direct_meter_entry"} -> "table"
    [] which \in {"counter_entry", "register_entry"} -> "counter"
    [] which = "meter_entry" -> "meter"
    [] which = "digest_entry" -> "digest"

\* The converters of the kinds of entities.  A wildcard stays one.
ConvertedEntity(conv, entity, reverse) ==
  LET To(kind, id) == IF id = Zero THEN {Zero}
                      ELSE IF reverse THEN ConvertIdBack(conv, kind, id) ELSE ConvertId(conv, kind, id)
  IN {Entity(entity.which, i, a, entity.key, entity.data) :
        i \in To(IdType(entity.which), entity.id), a \in To("action", entity.action)}

\* convert_entity, with and without reverse.
ConvertEntity(conv, entity) == ConvertedEntity(conv, entity, FALSE)
ConvertEntityBack(conv, entity) == ConvertedEntity(conv, entity, TRUE)

\* convert_digest_list, convert_stream_response
ConvertDigestBack(conv, id) == ConvertIdBack(conv, "digest", id)

\* get_entity_name: wildcards and registers have none.
EntityName(info, entity) ==
  {n \in GetName(info, IdType(entity.which), entity.id) :
     entity.id # Zero /\ entity.which # "register_entry"}
=============================================================================
