----------------------------- MODULE MCServers -----------------------------
(***************************************************************************)
(* The servicers, from three sides; a behaviour is one of one of them:     *)
(*   "answers"  what controllers are told, for one setup of each kind the  *)
(*              configuration files of the test cases know, and for those  *)
(*              that go beyond what the conversion of names can bear       *)
(*   "streams"  two servicers that share a target, and two controllers     *)
(*              that have a StreamChannel of the first one open            *)
(*   "launch"   two mappings, of which one has a preload entry             *)
(***************************************************************************)
EXTENDS P4Names, Launch

CONSTANTS Setups, Params, MaxCount, Switches, Servicers, Controllers, ServicerOf, MaxDigests

ASSUME MaxCount \in Nat /\ MaxDigests \in Nat

\* What configuration files and p4infos can hold.  A program has finitely many
\* names, and their aliases are different; tables and the like are not called
\* NoAction.
Named == [space : Seq(STRING), base : Seq(STRING) \ {<<>>}]
Aliased == {names \in SUBSET Named : IsFiniteSet(names) /\ \A m, n \in names : m.base = n.base => m = n}
P4Info == {info \in [names : [Kinds -> SUBSET Named], numbering : Nat] : \A k \in Kinds : info.names[k] \in Aliased}
ASSUME SetupsAssumption ==
  \A s \in Setups :
    /\ IsFiniteSet(s.keys) /\ s.prefix \in [s.tenants -> Seq(STRING)] /\ s.info \in [s.tenants -> P4Info]
    /\ s.program \in [DOMAIN s.program -> P4Info] /\ s.targets \in [s.tenants -> Seq(DOMAIN s.program)]
    /\ \A k \in Kinds \ {"action"} : /\ \A a \in s.tenants : NoAction \notin s.info[a].names[k]
                                    /\ \A t \in DOMAIN s.program : NoAction \notin s.program[t].names[k]

\* The port a controller connects to is that of one servicer.
ASSUME StreamsAssumption == ServicerOf \in [Controllers -> Servicers]

VARIABLES system, setup, dev, virtual, answer,
          conn, stream, subs, members, queue, chan, inbox, worker, got, sent

\* Names, with and without a dot.
In(base) == [space |-> <<"MyIngress">>, base |-> base]
Top(base) == [space |-> <<>>, base |-> base]
Lpm == In(<<"lpm">>)
Acl == In(<<"acl">>)
Fwd == In(<<"fwd">>)
Hits == In(<<"hits">>)
Rate == In(<<"rate">>)
Learn == Top(<<"learn">>)
With(prefix, name) == PrefixP4Name(name, prefix)

\* A program: names of each kind and the numbering of its compiler.
Program(tables, actions, counters, meters, digests, numbering) ==
  [names |-> [table |-> tables, action |-> actions, counter |-> counters, meter |-> meters,
              register |-> {}, digest |-> digests],
   numbering |-> numbering]
AllWith(prefixes, numbering) ==
  LET Each(names) == {With(p, n) : p \in prefixes, n \in names}
  IN Program(Each({Lpm}), Each({Fwd}), Each({Hits}), Each({Rate}), Each({Learn}), numbering)
Plain == AllWith({<<>>}, 1)
\* The same without a meter.
Light(info) == [info EXCEPT !.names.meter = {}]

NoNames == [any |-> TRUE, map |-> <<>>]
Only(map) == [any |-> FALSE, map |-> map]
Same(names) == Only([n \in names |-> n])

\* One proxy p on its targets, of which each has its program and names.
Alone(prefix, info, targets, program, names, threads, keys) ==
  [tenants |-> {"p"}, targets |-> [a \in {"p"} |-> targets], prefix |-> [a \in {"p"} |-> prefix],
   info |-> [a \in {"p"} |-> info], program |-> program, names |-> [a \in {"p"} |-> names], threads |-> threads,
   keys |-> keys]
\* Two proxies on one switch t that runs the programs of both.
Shared(p, q) ==
  [tenants |-> {"p", "q"}, targets |-> [a \in {"p", "q"} |-> <<"t">>],
   prefix |-> [a \in {"p", "q"} |-> IF a = "p" THEN p ELSE q],
   info |-> [a \in {"p", "q"} |-> Light(Plain)],
   program |-> [t \in {"t"} |-> Light(AllWith({p, q}, 1))],
   names |-> [a \in {"p", "q"} |-> [t \in {"t"} |-> NoNames]], threads |-> FALSE, keys |-> {"k"}]

WithRegister == [Plain EXCEPT !.names.register = {In(<<"reg">>)}]
Single == Alone(<<>>, WithRegister, <<"t">>, [t \in {"t"} |-> WithRegister], [t \in {"t"} |-> NoNames], FALSE, {"k", "l"})
Tenanted == Shared(<<"a_">>, <<"b_">>)
Replicas(prefix, threads, keys) ==
  Alone(prefix, Plain, <<"t", "u">>, [t \in {"t", "u"} |-> AllWith({prefix}, 1)], [t \in {"t", "u"} |-> NoNames], threads, keys)
Pinned ==
  Alone(<<>>, Plain, <<"t", "u">>, [t \in {"t", "u"} |-> AllWith({<<>>}, IF t = "t" THEN 1 ELSE 2)],
        [t \in {"t", "u"} |-> NoNames], FALSE, {"k"})
\* Two tables on two targets, each with the names of one; the second has its
\* own name for the table.
Two == Program({Lpm, Acl}, {Fwd}, {}, {}, {}, 1)
Route == In(<<"route">>)
Split(threads) ==
  Alone(<<>>, Two, <<"t", "u">>,
        [t \in {"t", "u"} |-> Program({IF t = "t" THEN Lpm ELSE Route}, {Fwd}, {}, {}, {}, 1)],
        [t \in {"t", "u"} |-> IF t = "t" THEN Same({Lpm}) ELSE Only(Acl :> Route)], threads, {"k", "l"})
\* Two tables with each other's names, on one switch or on two.
Crossed == Only(Lpm :> Acl @@ Acl :> Lpm)
Swapped(targets) ==
  Alone(<<>>, Two, targets, [t \in Range(targets) |-> Two], [t \in Range(targets) |-> Crossed], FALSE, {"k"})
\* A rename together with a prefix, to a name without its namespace, and a
\* namespace that starts like the prefix.
Renaming(prefix, to, map) ==
  Alone(prefix, Program({Lpm}, {Fwd}, {}, {}, {}, 1), <<"t">>,
        [t \in {"t"} |-> Program({to}, {With(prefix, Fwd)}, {}, {}, {}, 1)], [t \in {"t"} |-> map], FALSE, {"k"})
Inner(base) == [space |-> <<"a_", "Ingress">>, base |-> base]
Alike ==
  Alone(<<"a_">>, Program({Inner(<<"lpm">>)}, {Fwd}, {}, {}, {}, 1), <<"t">>,
        [t \in {"t"} |-> Program({Inner(<<"a_", "lpm">>)}, {With(<<"a_">>, Fwd)}, {}, {}, {}, 1)],
        [t \in {"t"} |-> NoNames], FALSE, {"k"})

SmallSetups ==
  {Single, Tenanted, Shared(<<"a_">>, <<"a_", "b_">>), Shared(<<>>, <<"b_">>),
   Replicas(<<>>, FALSE, {"k"}), Replicas(<<>>, TRUE, {"k"}), Replicas(<<"a_">>, FALSE, {"k"}), Pinned,
   Split(FALSE), Split(TRUE), Swapped(<<"t">>), Swapped(<<"t", "u">>),
   Renaming(<<"a_">>, With(<<"a_">>, Route), Only(Lpm :> Route)),
   Renaming(<<>>, Route, Only(Lpm :> Top(<<"route">>))), Alike}

V == INSTANCE TenantView

\* Both controllers use the same servicer.
MCServicerOf == [c \in Controllers |-> CHOOSE s \in Servicers : TRUE]
D == INSTANCE DigestStream WITH Targets <- Switches

\* Two sources with prefixes of their own.
Source(name, mapping, prefix) == [name |-> name, mapping |-> mapping, prefix |-> prefix, program |-> "fwd"]
MCSources == {Source("a", 1, "NF1_"), Source("b", 2, "NF2_")}
MCPreloads == <<1, 0>>

vVars == <<setup, dev, virtual, answer>>
dVars == <<conn, stream, subs, members, queue, chan, inbox, worker, got, sent>>

MCInit ==
  /\ system \in {"answers", "streams", "launch"} /\ V!Init /\ D!Init /\ Init
  /\ system # "answers" => setup = Single
  /\ system # "launch" => resets /\ reading /\ writing /\ own

Answering == system = "answers" /\ V!Next /\ UNCHANGED <<system, dVars, vars>>
Streaming(A) == system = "streams" /\ A /\ UNCHANGED <<system, vVars, vars>>
ComingUp == system = "launch" /\ Next /\ UNCHANGED <<system, vVars, dVars>>

MCNext == Answering \/ Streaming(D!Next) \/ ComingUp

MCSpec ==
  /\ MCInit /\ [][MCNext]_<<system, vVars, dVars, vars>>
  /\ \A t \in Switches : WF_<<dVars>>(Streaming(D!Forward(t)))
  /\ \A c \in Controllers : WF_<<dVars>>(Streaming(D!StreamChannel(c))) /\ WF_<<dVars>>(Streaming(D!WorkerThread(c)))

\* Controllers are told what one switch of their own would tell them.
ToldTrue == system = "answers" => V!ToldTrue

\* Each target holds its part of the tenants' virtual devices.
Mirrors == system = "answers" => V!Mirrors

\* A tenant's calls change nothing of another tenant.
Isolated == V!Isolated

\* Digests come once, to whom they belong, and in order.
OnceInOrder == system = "streams" => D!OnceInOrder

\* Every digest a servicer is to pass on arrives, unless something has died.
Delivered == D!Delivered
=============================================================================
