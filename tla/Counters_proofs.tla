-------------------------- MODULE Counters_proofs --------------------------
(***************************************************************************)
(* For any set of targets, any number of Reads and any number of packets:  *)
(* no counted packet is lost or counted twice, a Read that no removal      *)
(* overlaps is answered with a count the virtual device had meanwhile, and *)
(* a restarted proxy is not behind the counts it has saved.                *)
(***************************************************************************)
EXTENDS Counters, CommunityLaws

(***************************************************************************)
(* The sums of the counters, by the laws of sums.                          *)
(***************************************************************************)
LEMMA TotalIs == ASSUME NEW c, NEW S PROVE Total(c, S) = SumOver(c, S)
BY DEF Total, SumOver

LEMMA TotalEmpty == ASSUME NEW c PROVE Total(c, {}) = 0
BY TotalIs, FS_EmptySet, SumSteps

LEMMA TotalType ==
  ASSUME NEW S, IsFiniteSet(S), NEW c, \A x \in S : c[x] \in Nat
  PROVE  Total(c, S) \in Nat
BY TotalIs, SumType

LEMMA TotalSame ==
  ASSUME NEW S, IsFiniteSet(S), NEW c, NEW d, \A x \in S : c[x] = d[x]
  PROVE  Total(c, S) = Total(d, S)
BY TotalIs, SumSame

LEMMA TotalSplit ==
  ASSUME NEW S, IsFiniteSet(S), NEW c, \A x \in S : c[x] \in Nat, NEW y \in S
  PROVE  Total(c, S) = c[y] + Total(c, S \ {y})
BY TotalIs, SumSplit

LEMMA TotalChange ==
  ASSUME NEW S, IsFiniteSet(S), NEW y \in S,
         NEW c, \A x \in S : c[x] \in Nat, NEW d, \A x \in S : d[x] \in Nat,
         \A x \in S : x # y => d[x] = c[x]
  PROVE  Total(d, S) - Total(c, S) = d[y] - c[y]
BY TotalIs, SumChange

LEMMA TotalAdd ==
  ASSUME NEW S, IsFiniteSet(S), NEW y, y \notin S,
         NEW c, \A x \in S \cup {y} : c[x] \in Nat
  PROVE  Total(c, S \cup {y}) = c[y] + Total(c, S)
BY TotalIs, SumAdd

(***************************************************************************)
(* Types, and what depends on the phase.                                   *)
(***************************************************************************)
Walk == [pc : {"idle", "reading", "done"}, at : Targets \cup {NoTarget}, low : Nat,
         left : SUBSET Targets, sum : Nat, since : Nat, calm : BOOLEAN]
Heart == [pc : {"idle", "saving", "dead"}, at : Targets \cup {NoTarget}, low : Nat,
          seen : SUBSET Targets, size : Nat, acc : Seq(Nat)]

\* Only a proxy that is up has walks in progress, and they are at a target.
PhaseInv ==
  /\ \A r \in Readers : reads[r].pc = "reading" => reads[r].at \in Targets
  /\ heart.pc = "saving" => heart.at \in Targets
  /\ phase # "up" => heart.pc # "saving" /\ \A r \in Readers : reads[r].pc = "idle"
  /\ phase = "filling" => fill # <<>> /\ usage = "single"
  /\ usage = "single" =>
       /\ removing = {} /\ gone = {}
       /\ members = IF phase = "down" THEN {} ELSE {Only}

\* A node that is removed and archived gets no packets, is no member and is not
\* asked again; nor does a node being removed get packets.
GoneInv ==
  /\ gone \cap (members \cup removing \cup routed) = {}
  /\ removing \cap (members \cup routed) = {}

(***************************************************************************)
(* What a Read has summed up.                                              *)
(***************************************************************************)
Lives == [t \in Targets |-> Live(t)]

\* With the counts of the targets still to be asked it makes at least what the
\* virtual device had when it began, and at most what it has.
WalkInv ==
  \A r \in Readers :
    LET q == reads[r] IN
    /\ q.pc = "reading" /\ q.calm =>
         /\ removing = {} /\ q.left \subseteq members /\ q.at \in members \ q.left
         /\ q.since <= Archived + (q.sum + q.low) + Total(count, q.left)
         /\ Archived + (q.sum + count[q.at]) + Total(count, q.left) <= Held
    /\ q.pc = "done" /\ q.calm => q.since <= q.sum /\ q.sum <= Held

(***************************************************************************)
(* What redis was told.                                                    *)
(***************************************************************************)
\* The counts saved are one at most, and once there is a pipeline it is the
\* largest; it is what a fill writes, and what a save may not fall behind.
KeptInv ==
  usage = "single" =>
    /\ Len(saved) <= 1
    /\ p4info => durable = IF saved = <<>> THEN 0 ELSE saved[1]
    /\ p4info /\ phase = "up" => count[Only] >= durable
    /\ phase = "filling" => p4info /\ fill = saved
    /\ heart.pc = "saving" =>
         heart.at = Only /\ heart.acc = <<>> /\ heart.size = 1 /\ heart.seen = {Only}
         /\ (p4info => heart.low >= durable)

(***************************************************************************)
(* Types.                                                                  *)
(***************************************************************************)
TypeInv == TypeOK /\ PhaseInv /\ GoneInv

LEMMA HeldType == ASSUME TypeOK PROVE Archived \in Nat /\ Held \in Nat /\ Packets \in Nat
<1>1. /\ IsFiniteSet(Targets) /\ IsFiniteSet(members \cup removing)
      /\ \A t \in Targets : archive[t] \in Nat /\ passed[t] \in Nat /\ Lives[t] \in Nat
  <2>1. members \cup removing \in SUBSET Targets
    BY DEF TypeOK
  <2> QED BY <2>1, CountersAssumption, FS_Subset DEF TypeOK, Lives, Live
<1>2. Archived \in Nat /\ Packets \in Nat
  BY <1>1, TotalType DEF Archived, Packets
<1>3. Total(Lives, members \cup removing) \in Nat
  <2>1. \A t \in members \cup removing : Lives[t] \in Nat
    BY <1>1 DEF TypeOK
  <2> QED BY <1>1, <2>1, TotalType
<1> QED BY <1>2, <1>3 DEF Held, Lives

LEMMA InitTypes == Init => TypeInv
<1> SUFFICES ASSUME Init PROVE TypeInv
  OBVIOUS
<1>1. \A r \in Readers : reads[r] = NoRead
  BY DEF Init
<1>2. NoRead \in Walk /\ NoRead.pc = "idle" /\ Resting \in Heart /\ Resting.pc = "idle"
  BY DEF NoRead, Walk, Resting, Heart
<1>3. TypeOK
  <2>1. /\ phase = "down" /\ members = {} /\ p4info = FALSE /\ fill = <<>> /\ usage \in Usages
        /\ saved = <<>> /\ durable = 0 /\ removing = {} /\ gone = {} /\ routed \subseteq Targets
    BY CountersAssumption DEF Init
  <2>2. /\ count \in [Targets -> Nat] /\ archive \in [Targets -> Nat]
        /\ passed \in [Targets -> Nat]
    BY DEF Init
  <2>3. reads \in [Readers -> Walk] /\ \A r \in Readers : reads[r].pc # "reading"
    <3>1. reads = [r \in Readers |-> NoRead]
      BY DEF Init
    <3> QED BY <1>2, <3>1
  <2>4. heart \in Heart /\ heart.pc # "saving"
    BY <1>2 DEF Init
  <2>5. <<>> \in Seq(Nat)
    OBVIOUS
  <2> QED BY <2>1, <2>2, <2>3, <2>4, <2>5 DEF TypeOK, Walk, Heart
<1>4. PhaseInv
  BY <1>1, <1>2 DEF Init, PhaseInv
<1> QED BY <1>3, <1>4 DEF TypeInv, GoneInv, Init

\* A Read's step leaves walks.
LEMMA ReadTypes ==
  ASSUME TypeInv, NEW r \in Readers, ReadBegin(r) \/ ReadAnswered(r) PROVE TypeInv'
<1>1. UNCHANGED <<proxy, redis, switches, removing, heart, durable>>
  BY DEF ReadBegin, ReadAnswered
<1>2. /\ reads \in [Readers -> Walk] /\ Held \in Nat /\ Archived \in Nat
      /\ count \in [Targets -> Nat] /\ members \subseteq Targets
      /\ \A x \in Readers : reads[x].pc = "reading" =>
           reads[x].at \in Targets /\ reads[x].low \in 0..count[reads[x].at]
  BY HeldType DEF TypeInv, TypeOK, PhaseInv, Walk
<1>3. NoRead \in Walk /\ NoRead.pc = "idle"
  BY DEF NoRead, Walk
<1>4. /\ phase = "up"
      /\ \E w \in Walk : /\ reads' = [reads EXCEPT ![r] = w]
                         /\ w.pc = "reading" => w.at \in Targets /\ w.low \in 0..count[w.at]
  <2>1. CASE ReadBegin(r)
    <3>1. CASE members = {}
      BY <1>3, <2>1, <3>1 DEF ReadBegin
    <3>2. CASE members # {}
      <4>1. PICK t \in members :
              reads' = [reads EXCEPT ![r] =
                [pc |-> "reading", at |-> t, low |-> count[t], left |-> members \ {t},
                 sum |-> 0, since |-> Held, calm |-> removing = {}]]
        BY <2>1, <3>2 DEF ReadBegin
      <4> DEFINE w == [pc |-> "reading", at |-> t, low |-> count[t], left |-> members \ {t},
                       sum |-> 0, since |-> Held, calm |-> removing = {}]
      <4>2. w \in Walk /\ w.at \in Targets /\ w.low \in 0..count[w.at]
        BY <1>2 DEF Walk
      <4> HIDE DEF w
      <4>3. phase = "up"
        BY <2>1 DEF ReadBegin
      <4> QED BY <4>1, <4>2, <4>3 DEF w
    <3> QED BY <2>1, <3>1, <3>2 DEF ReadBegin
  <2>2. CASE ReadAnswered(r)
    <3>1. PICK n \in reads[r].low..count[reads[r].at] :
            LET sum == reads[r].sum + n IN
            IF reads[r].left = {}
            THEN reads' = [reads EXCEPT ![r].pc = "done", ![r].at = NoTarget, ![r].low = 0,
                                               ![r].sum = Answer(sum)]
            ELSE \E t \in reads[r].left :
                   IF t \in members
                   THEN reads' = [reads EXCEPT ![r].at = t, ![r].low = count[t],
                                               ![r].left = @ \ {t}, ![r].sum = sum]
                   ELSE reads' = [reads EXCEPT ![r] = NoRead]
      BY <2>2 DEF ReadAnswered
    <3>2. /\ reads[r].pc = "reading" /\ reads[r] \in Walk
          /\ n \in Nat /\ reads[r].sum + n \in Nat /\ Answer(reads[r].sum + n) \in Nat
      <4>1. reads[r].pc = "reading"
        BY <2>2 DEF ReadAnswered
      <4>2. /\ reads[r] \in Walk /\ reads[r].low \in Nat /\ reads[r].sum \in Nat
            /\ count[reads[r].at] \in Nat
        BY <1>2, <4>1 DEF Walk
      <4>3. n \in Nat
        BY <4>2
      <4> QED BY <1>2, <4>1, <4>2, <4>3 DEF Answer
    <3>3. phase = "up"
      BY <3>2 DEF TypeInv, PhaseInv
    <3>4. CASE reads[r].left = {}
      <4> DEFINE w == [reads[r] EXCEPT !.pc = "done", !.at = NoTarget, !.low = 0,
                                       !.sum = Answer(reads[r].sum + n)]
      <4>1. reads' = [reads EXCEPT ![r] = w]
        BY <1>2, <3>1, <3>4
      <4>2. w \in Walk /\ w.pc = "done"
        BY <3>2 DEF Walk
      <4> HIDE DEF w
      <4> QED BY <3>3, <4>1, <4>2
    <3>5. CASE reads[r].left # {}
      <4>1. PICK t \in reads[r].left :
              IF t \in members
              THEN reads' = [reads EXCEPT ![r].at = t, ![r].low = count[t],
                                          ![r].left = @ \ {t}, ![r].sum = reads[r].sum + n]
              ELSE reads' = [reads EXCEPT ![r] = NoRead]
        BY <3>1, <3>5
      <4> DEFINE w == [reads[r] EXCEPT !.at = t, !.low = count[t],
                                       !.left = @ \ {t}, !.sum = reads[r].sum + n]
      <4>2. t \in members => reads' = [reads EXCEPT ![r] = w]
        BY <1>2, <4>1
      <4>3. t \in members => w \in Walk /\ w.at \in Targets /\ w.low \in 0..count[w.at]
        <5>1. /\ w.at = t /\ w.low = count[t] /\ w.left = reads[r].left \ {t}
              /\ w.sum = reads[r].sum + n
          BY <3>2 DEF Walk
        <5>2. reads[r].left \ {t} \in SUBSET Targets /\ t \in Targets /\ count[t] \in Nat
          BY <1>2, <3>2 DEF Walk
        <5>3. w \in Walk
          BY <3>2, <5>2 DEF Walk
        <5> HIDE DEF w
        <5> QED BY <5>1, <5>2, <5>3
      <4> HIDE DEF w
      <4> QED BY <1>3, <3>3, <4>1, <4>2, <4>3
    <3> QED BY <3>4, <3>5
  <2> QED BY <2>1, <2>2
<1>5. PICK w \in Walk : /\ reads' = [reads EXCEPT ![r] = w]
                        /\ w.pc = "reading" => w.at \in Targets /\ w.low \in 0..count[w.at]
  BY <1>4
<1>6. reads' \in [Readers -> Walk] /\ \A x \in Readers : reads'[x] = IF x = r THEN w ELSE reads[x]
  BY <1>2, <1>5
<1>7. \A x \in Readers : reads'[x].pc = "reading" =>
        reads'[x].at \in Targets /\ reads'[x].low \in 0..count[reads'[x].at]
  BY <1>2, <1>5, <1>6
<1>8. TypeOK'
  BY <1>1, <1>6, <1>7 DEF TypeInv, TypeOK, Walk, proxy, redis, switches
<1>9. PhaseInv' /\ GoneInv'
  BY <1>1, <1>4, <1>7 DEF TypeInv, PhaseInv, GoneInv, proxy, redis, switches
<1> QED BY <1>8, <1>9 DEF TypeInv

\* So does the heartbeat's.
LEMMA SaveTypes == ASSUME TypeInv, SaveBegin \/ SaveAnswered PROVE TypeInv'
<1>1. UNCHANGED <<proxy, archive, switches, reads, removing>>
  BY DEF SaveBegin, SaveAnswered
<1>2. /\ heart \in Heart /\ count \in [Targets -> Nat] /\ members \subseteq Targets
      /\ saved \in Seq(Nat) /\ durable \in Nat
      /\ Cardinality(members) \in Nat
      /\ heart.pc = "saving" => heart.at \in Targets /\ heart.low \in 0..count[heart.at]
  <2>1. members \subseteq Targets
    BY DEF TypeInv, TypeOK
  <2>2. IsFiniteSet(members)
    BY <2>1, CountersAssumption, FS_Subset
  <2> QED BY <2>1, <2>2, FS_CardinalityType DEF TypeInv, TypeOK, PhaseInv, Heart
<1>3. Resting \in Heart /\ Resting.pc = "idle"
  BY DEF Resting, Heart
<1>4. ASSUME NEW counts \in Seq(Nat), Save(counts)
      PROVE  saved' \in Seq(Nat) /\ durable' \in Nat /\ heart' = Resting
  <2>1. counts # <<>> => counts[1] \in Nat
    OBVIOUS
  <2> QED BY <1>2, <1>4, <2>1 DEF Save
<1>5. /\ phase = "up" /\ saved' \in Seq(Nat) /\ durable' \in Nat /\ heart' \in Heart
      /\ heart'.pc = "saving" => heart'.at \in Targets /\ heart'.low \in 0..count[heart'.at]
  <2>1. CASE SaveBegin
    <3>1. phase = "up"
      BY <2>1 DEF SaveBegin, MaySave
    <3>2. CASE members = {}
      <4>1. Save(<<>>) /\ <<>> \in Seq(Nat)
        BY <2>1, <3>2 DEF SaveBegin
      <4> QED BY <1>3, <1>4, <3>1, <4>1
    <3>3. CASE members # {}
      <4>1. PICK t \in members :
              heart' = [pc |-> "saving", at |-> t, low |-> count[t], seen |-> {t},
                        size |-> Cardinality(members), acc |-> <<>>]
        BY <2>1, <3>3 DEF SaveBegin
      <4>2. UNCHANGED <<saved, durable>>
        BY <2>1, <3>3 DEF SaveBegin
      <4>3. heart' \in Heart /\ heart'.at \in Targets /\ heart'.low \in 0..count[heart'.at]
        BY <1>2, <4>1 DEF Heart
      <4> QED BY <1>2, <3>1, <4>2, <4>3
    <3> QED BY <3>2, <3>3
  <2>2. CASE SaveAnswered
    <3>1. phase = "up"
      BY <2>2 DEF SaveAnswered, TypeInv, PhaseInv
    <3>2. PICK n \in heart.low..count[heart.at] :
            LET acc == Append(heart.acc, n)
                ends == members \subseteq heart.seen
                raises == Cardinality(members) # heart.size \/ (~ends /\ Len(acc) = heart.size)
            IN  \/ /\ raises
                   /\ heart' = [Resting EXCEPT !.pc = "dead"]
                   /\ UNCHANGED <<saved, durable>>
                \/ ~raises /\ ends /\ Save(acc)
                \/ /\ ~raises
                   /\ \E t \in members \ heart.seen :
                        heart' = [heart EXCEPT !.at = t, !.low = count[t],
                                               !.seen = @ \cup {t}, !.acc = acc]
                   /\ UNCHANGED <<saved, durable>>
      BY <2>2 DEF SaveAnswered
    <3>3. Append(heart.acc, n) \in Seq(Nat)
      <4>1. heart.pc = "saving" /\ heart.acc \in Seq(Nat) /\ heart.low \in Nat
        BY <1>2, <2>2 DEF SaveAnswered, Heart
      <4>2. count[heart.at] \in Nat
        BY <1>2, <4>1
      <4>3. n \in Nat
        BY <4>1, <4>2
      <4> QED BY <4>1, <4>3
    <3>4. CASE heart' = [Resting EXCEPT !.pc = "dead"] /\ UNCHANGED <<saved, durable>>
      <4>1. [Resting EXCEPT !.pc = "dead"] \in Heart /\ [Resting EXCEPT !.pc = "dead"].pc = "dead"
        BY <1>3 DEF Heart, Resting
      <4> QED BY <1>2, <3>1, <3>4, <4>1
    <3>5. CASE Save(Append(heart.acc, n))
      BY <1>3, <1>4, <3>1, <3>3, <3>5
    <3>6. ASSUME NEW t \in members \ heart.seen,
                 heart' = [heart EXCEPT !.at = t, !.low = count[t], !.seen = @ \cup {t},
                                        !.acc = Append(heart.acc, n)],
                 UNCHANGED <<saved, durable>>
          PROVE  /\ heart' \in Heart /\ saved' \in Seq(Nat) /\ durable' \in Nat
                 /\ heart'.at \in Targets /\ heart'.low \in 0..count[heart'.at]
      <4>1. t \in Targets /\ count[t] \in Nat /\ heart.seen \cup {t} \in SUBSET Targets
        BY <1>2 DEF Heart
      <4>2. heart'.at = t /\ heart'.low = count[t]
        BY <1>2, <3>6 DEF Heart
      <4>3. heart' \in Heart
        BY <1>2, <3>3, <3>6, <4>1 DEF Heart
      <4> QED BY <1>2, <3>6, <4>1, <4>2, <4>3
    <3> QED BY <3>1, <3>2, <3>4, <3>5, <3>6
  <2> QED BY <2>1, <2>2
<1>6. TypeOK'
  BY <1>1, <1>5 DEF TypeInv, TypeOK, Heart, proxy, switches
<1>7. PhaseInv' /\ GoneInv'
  BY <1>1, <1>5 DEF TypeInv, PhaseInv, GoneInv, proxy, switches
<1> QED BY <1>6, <1>7 DEF TypeInv

\* The steps that leave the walks and the process alone.
LEMMA NodeTypes ==
  ASSUME TypeInv, NEW t \in Targets, AddTarget(t) \/ Packet(t) \/ Route(t) PROVE TypeInv'
<1>1. UNCHANGED <<usage, phase, p4info, fill, saved, archive, durable, removing, reads, heart>>
  BY DEF AddTarget, Packet, Route, proxy, redis
<1>2. count \in [Targets -> Nat] /\ passed \in [Targets -> Nat]
  BY DEF TypeInv, TypeOK
<1>3. /\ count' \in [Targets -> Nat] /\ passed' \in [Targets -> Nat]
      /\ members' \subseteq Targets /\ routed' \subseteq Targets /\ gone' \subseteq Targets
  <2>1. Live(t) \in Nat
    BY <1>2 DEF Live
  <2>2. /\ members \subseteq Targets /\ routed \subseteq Targets /\ gone \subseteq Targets
    BY DEF TypeInv, TypeOK
  <2>3. CASE AddTarget(t)
    BY <1>2, <2>1, <2>2, <2>3 DEF AddTarget
  <2>4. CASE Packet(t)
    BY <1>2, <2>2, <2>4 DEF Packet, proxy
  <2>5. CASE Route(t)
    BY <1>2, <2>2, <2>5 DEF Route, proxy
  <2> QED BY <2>3, <2>4, <2>5
\* Where a walk is, the count does not fall.
<1>4. ASSUME NEW x \in Targets,
             \/ \E r \in Readers : reads[r].pc = "reading" /\ x = reads[r].at
             \/ heart.pc = "saving" /\ x = heart.at
      PROVE  count[x] <= count'[x]
  <2>1. CASE AddTarget(t)
    BY <1>2, <1>4, <2>1 DEF AddTarget, Live
  <2>2. CASE Packet(t)
    BY <1>2, <2>2 DEF Packet
  <2>3. CASE Route(t)
    BY <1>2, <2>3 DEF Route
  <2> QED BY <2>1, <2>2, <2>3
<1>5. /\ \A r \in Readers : reads[r].pc = "reading" => reads[r].low \in 0..count'[reads[r].at]
      /\ heart.pc = "saving" => heart.low \in 0..count'[heart.at]
  <2>1. ASSUME NEW r \in Readers, reads[r].pc = "reading"
        PROVE  reads[r].low \in 0..count'[reads[r].at]
    <3>1. reads[r].at \in Targets /\ reads[r].low \in 0..count[reads[r].at]
      BY <2>1 DEF TypeInv, TypeOK, PhaseInv
    <3>2. count[reads[r].at] <= count'[reads[r].at]
      BY <1>4, <2>1, <3>1
    <3>3. count[reads[r].at] \in Nat /\ count'[reads[r].at] \in Nat
      BY <1>2, <1>3, <3>1
    <3> QED BY <3>1, <3>2, <3>3
  <2>2. ASSUME heart.pc = "saving" PROVE heart.low \in 0..count'[heart.at]
    <3>1. heart.at \in Targets /\ heart.low \in 0..count[heart.at]
      BY <2>2 DEF TypeInv, TypeOK, PhaseInv
    <3>2. count[heart.at] <= count'[heart.at]
      BY <1>4, <2>2, <3>1
    <3>3. count[heart.at] \in Nat /\ count'[heart.at] \in Nat
      BY <1>2, <1>3, <3>1
    <3> QED BY <3>1, <3>2, <3>3
  <2> QED BY <2>1, <2>2
<1>6. TypeOK'
  BY <1>1, <1>3, <1>5 DEF TypeInv, TypeOK
<1>7. PhaseInv'
  BY <1>1 DEF TypeInv, PhaseInv, AddTarget, Packet, Route, proxy
<1>8. GoneInv'
  BY <1>1 DEF TypeInv, PhaseInv, GoneInv, AddTarget, Packet, Route, proxy
<1> QED BY <1>6, <1>7, <1>8 DEF TypeInv

LEMMA RemoveTypes ==
  ASSUME TypeInv, NEW t \in Targets, RemoveTarget(t) \/ RemoveAnswered(t) PROVE TypeInv'
<1>1. UNCHANGED <<usage, phase, p4info, fill, saved, durable, count, routed, passed>>
  BY DEF RemoveTarget, RemoveAnswered, proxy, redis, switches
<1>2. /\ reads \in [Readers -> Walk] /\ heart \in Heart
      /\ count \in [Targets -> Nat] /\ archive \in [Targets -> Nat]
      /\ members \subseteq Targets /\ removing \subseteq Targets
      /\ routed \subseteq Targets /\ gone \subseteq Targets
  BY DEF TypeInv, TypeOK, Walk, Heart
<1>3. /\ archive' \in [Targets -> Nat] /\ members' \subseteq Targets
      /\ removing' \subseteq Targets /\ gone' \subseteq Targets
  BY <1>2 DEF RemoveTarget, RemoveAnswered, redis, switches, proxy
<1>4. /\ reads' \in [Readers -> Walk]
      /\ \A r \in Readers : /\ reads'[r].pc = reads[r].pc /\ reads'[r].at = reads[r].at
                            /\ reads'[r].low = reads[r].low
  <2>1. CASE RemoveTarget(t)
    <3>1. reads' = [r \in Readers |-> IF reads[r].pc = "reading"
                                      THEN [reads[r] EXCEPT !.calm = FALSE] ELSE reads[r]]
      BY <2>1 DEF RemoveTarget
    <3>2. \A w \in Walk : /\ [w EXCEPT !.calm = FALSE] \in Walk
                          /\ [w EXCEPT !.calm = FALSE].pc = w.pc
                          /\ [w EXCEPT !.calm = FALSE].at = w.at
                          /\ [w EXCEPT !.calm = FALSE].low = w.low
      BY DEF Walk
    <3> QED BY <1>2, <3>1, <3>2
  <2>2. CASE RemoveAnswered(t)
    BY <1>2, <2>2 DEF RemoveAnswered
  <2> QED BY <2>1, <2>2
<1>5. /\ heart' \in Heart
      /\ heart'.pc = heart.pc /\ heart'.at = heart.at /\ heart'.low = heart.low
  BY <1>2 DEF RemoveTarget, RemoveAnswered, Heart
<1>6. TypeOK'
  BY <1>1, <1>3, <1>4, <1>5 DEF TypeInv, TypeOK, Walk, Heart
<1>7. t \in removing => usage # "single"
  BY DEF TypeInv, PhaseInv
<1>8. usage # "single"
  BY <1>7 DEF RemoveTarget, RemoveAnswered
<1>9. PhaseInv'
  BY <1>1, <1>4, <1>5, <1>8 DEF TypeInv, PhaseInv
<1>10. GoneInv'
  BY <1>1 DEF TypeInv, GoneInv, RemoveTarget, RemoveAnswered, proxy, switches
<1> QED BY <1>6, <1>9, <1>10 DEF TypeInv

LEMMA ProcessTypes == ASSUME TypeInv, Start \/ FillStep \/ Crash PROVE TypeInv'
<1>1. UNCHANGED <<usage, p4info, saved, archive, routed, passed, gone, durable>>
  BY DEF Start, FillStep, Crash, redis, switches
<1>2. /\ reads \in [Readers -> Walk] /\ heart \in Heart /\ count \in [Targets -> Nat]
      /\ saved \in Seq(Nat) /\ fill \in Seq(Nat)
      /\ members \subseteq Targets /\ removing \subseteq Targets
      /\ Only \in Targets
  BY CountersAssumption DEF TypeInv, TypeOK, Walk, Heart
<1>3. Resting \in Heart /\ Resting.pc = "idle" /\ NoRead \in Walk /\ NoRead.pc = "idle"
  BY DEF Resting, Heart, NoRead, Walk
\* No walk is left.
<1>4. /\ heart' \in Heart /\ heart'.pc # "saving"
      /\ reads' \in [Readers -> Walk] /\ \A r \in Readers : reads'[r].pc = "idle"
      /\ removing' \subseteq Targets
  <2>1. CASE Start
    <3>1. phase = "down" /\ heart' = Resting /\ UNCHANGED <<reads, removing>>
      BY <2>1 DEF Start
    <3> QED BY <1>2, <1>3, <3>1 DEF TypeInv, PhaseInv
  <2>2. CASE FillStep
    <3>1. phase = "filling" /\ UNCHANGED <<reads, removing, heart>>
      BY <2>2 DEF FillStep
    <3> QED BY <1>2, <3>1 DEF TypeInv, PhaseInv
  <2>3. CASE Crash
    BY <1>2, <1>3, <2>3 DEF Crash
  <2> QED BY <2>1, <2>2, <2>3
<1>5. /\ phase' \in {"down", "filling", "up"} /\ members' \subseteq Targets
      /\ fill' \in Seq(Nat) /\ count' \in [Targets -> Nat]
      /\ phase' = "filling" => fill' # <<>> /\ usage = "single"
      /\ usage = "single" => members' = IF phase' = "down" THEN {} ELSE {Only}
  <2>1. CASE Start
    <3>1. CASE usage = "manager"
      BY <1>2, <2>1, <3>1 DEF Start
    <3>2. CASE usage # "manager"
      <4>1. usage = "single"
        BY <3>2, CountersAssumption DEF TypeInv, TypeOK
      <4>2. /\ members' = {Only} /\ fill' = IF p4info THEN saved ELSE <<>>
            /\ phase' = IF fill' = <<>> THEN "up" ELSE "filling"
            /\ \E n \in {0, count[Only]} : count' = [count EXCEPT ![Only] = n]
        BY <2>1, <3>2 DEF Start
      <4>3. count' \in [Targets -> Nat]
        BY <1>2, <4>2
      <4> QED BY <1>2, <4>1, <4>2, <4>3
    <3> QED BY <3>1, <3>2
  <2>2. CASE FillStep
    <3>1. /\ fill # <<>> /\ usage = "single" /\ phase = "filling" /\ members = {Only}
      BY <2>2 DEF FillStep, TypeInv, PhaseInv
    <3>2. /\ count' = [count EXCEPT ![Only] = Head(fill)] /\ fill' = Tail(fill)
          /\ phase' = IF fill' = <<>> THEN "up" ELSE "filling"
          /\ members' = members
      BY <2>2 DEF FillStep
    <3>3. Head(fill) \in Nat /\ Tail(fill) \in Seq(Nat)
      BY <1>2, <3>1
    <3> QED BY <1>2, <3>1, <3>2, <3>3
  <2>3. CASE Crash
    <3>1. UNCHANGED count
      BY <2>3 DEF Crash, switches
    <3> QED BY <1>2, <2>3, <3>1 DEF Crash
  <2> QED BY <2>1, <2>2, <2>3
<1>6. TypeOK'
  BY <1>1, <1>4, <1>5 DEF TypeInv, TypeOK, Walk, Heart
<1>7. /\ usage = "single" => removing' = {}
      /\ gone \cap (members' \cup removing') = {} /\ removing' \cap (members' \cup routed) = {}
  <2>1. CASE Start
    <3>1. phase = "down" /\ (members' = {} \/ (usage # "manager" /\ members' = {Only}))
      BY <2>1 DEF Start
    <3>2. usage # "manager" => usage = "single"
      BY CountersAssumption DEF TypeInv, TypeOK
    <3>3. UNCHANGED removing
      BY <2>1 DEF Start
    <3> QED BY <3>1, <3>2, <3>3 DEF TypeInv, PhaseInv, GoneInv
  <2>2. CASE FillStep
    BY <2>2 DEF FillStep, TypeInv, PhaseInv, GoneInv
  <2>3. CASE Crash
    BY <2>3 DEF Crash
  <2> QED BY <2>1, <2>2, <2>3
<1>8. PhaseInv' /\ GoneInv'
  BY <1>1, <1>4, <1>5, <1>7 DEF TypeInv, PhaseInv, GoneInv
<1> QED BY <1>6, <1>8 DEF TypeInv

LEMMA NextTypes == TypeInv /\ [Next]_vars => TypeInv'
<1> SUFFICES ASSUME TypeInv, [Next]_vars PROVE TypeInv'
  OBVIOUS
<1>1. CASE SetForwardingPipelineConfig
  <2>1. <<>> \in Seq(Nat)
    OBVIOUS
  <2> QED BY <1>1, <2>1
      DEF SetForwardingPipelineConfig, TypeInv, TypeOK, PhaseInv, GoneInv, switches
<1>2. CASE UNCHANGED vars
  BY <1>2 DEF vars, proxy, redis, switches, TypeInv, TypeOK, PhaseInv, GoneInv
<1> QED BY <1>1, <1>2, ReadTypes, SaveTypes, NodeTypes, RemoveTypes, ProcessTypes DEF Next

\* The variables keep their types, and a walk is at a target, whose count it
\* was given is not above the one the switch has.
THEOREM TypeCorrect == Spec => []TypeOK
<1>1. TypeInv => TypeOK
  BY DEF TypeInv
<1> QED BY <1>1, InitTypes, NextTypes, PTL DEF Spec

(***************************************************************************)
(* No packet is lost or counted twice.                                     *)
(***************************************************************************)
LEMMA InitConserved == Init => Conserved
BY DEF Init, Conserved, Live

LEMMA ConservedSame ==
  ASSUME Conserved, UNCHANGED <<usage, archive>>, UNCHANGED switches PROVE Conserved'
BY DEF Conserved, Live, switches

LEMMA NextConserved == TypeInv /\ Conserved /\ [Next]_vars => Conserved'
<1> SUFFICES ASSUME TypeInv, Conserved, [Next]_vars PROVE Conserved'
  OBVIOUS
<1>1. /\ count \in [Targets -> Nat] /\ archive \in [Targets -> Nat] /\ passed \in [Targets -> Nat]
      /\ phase = "filling" => usage = "single"
      /\ gone \cap (members \cup removing \cup routed) = {}
  BY DEF TypeInv, TypeOK, PhaseInv, GoneInv
<1>2. ASSUME NEW t \in Targets, AddTarget(t) PROVE Conserved'
  BY <1>1, <1>2 DEF AddTarget, Conserved, Live, redis
<1>3. ASSUME NEW t \in Targets, RemoveAnswered(t) PROVE Conserved'
  BY <1>1, <1>3 DEF RemoveAnswered, Conserved, Live, proxy
<1>4. ASSUME NEW t \in Targets, Packet(t) PROVE Conserved'
  BY <1>1, <1>4 DEF Packet, Conserved, Live, proxy, redis
<1>5. ASSUME NEW t \in Targets, Route(t) \/ RemoveTarget(t) PROVE Conserved'
  BY <1>5 DEF Route, RemoveTarget, Conserved, Live, proxy, redis, switches
<1>6. ASSUME NEW r \in Readers, ReadBegin(r) \/ ReadAnswered(r) PROVE Conserved'
  BY <1>6, ConservedSame DEF ReadBegin, ReadAnswered, proxy, redis
<1>7. CASE SaveBegin \/ SaveAnswered \/ SetForwardingPipelineConfig \/ Crash
  BY <1>7, ConservedSame
  DEF SaveBegin, SaveAnswered, SetForwardingPipelineConfig, Crash, proxy, redis
<1>8. CASE Start
  BY <1>8 DEF Start, Conserved, Live, redis
<1>9. CASE FillStep
  BY <1>1, <1>9 DEF FillStep, Conserved, redis
<1>10. CASE UNCHANGED vars
  BY <1>10, ConservedSame DEF vars, proxy, redis
<1> QED BY <1>2, <1>3, <1>4, <1>5, <1>6, <1>7, <1>8, <1>9, <1>10 DEF Next

\* Every packet a node of the manager has counted is on its switch or in the
\* archive of remove_target_switch, and never in both.
THEOREM NothingMiscounted == Spec => []Conserved
BY InitTypes, NextTypes, InitConserved, NextConserved, PTL DEF Spec

(***************************************************************************)
(* A restart.                                                              *)
(***************************************************************************)
LEMMA InitKept == Init => KeptInv
BY DEF Init, KeptInv, Resting

LEMMA KeptSame ==
  ASSUME KeptInv, UNCHANGED <<usage, phase, p4info, fill, saved, durable, count, heart>>
  PROVE  KeptInv'
BY DEF KeptInv

LEMMA SaveKept == ASSUME TypeInv, KeptInv, SaveBegin \/ SaveAnswered PROVE KeptInv'
<1>1. UNCHANGED <<usage, phase, members, p4info, fill, count>>
  BY DEF SaveBegin, SaveAnswered, proxy, switches
<1>2. SUFFICES ASSUME usage = "single" PROVE KeptInv'
  BY <1>1 DEF KeptInv
<1>3. /\ phase = "up" /\ members = {Only} /\ Only \in Targets
      /\ count[Only] \in Nat /\ durable \in Nat
      /\ p4info => count[Only] >= durable
      /\ p4info => durable = IF saved = <<>> THEN 0 ELSE saved[1]
      /\ Len(saved) <= 1
  <2>1. phase = "up"
    BY DEF SaveBegin, MaySave, SaveAnswered, TypeInv, PhaseInv
  <2> QED BY <1>2, <2>1, CountersAssumption DEF TypeInv, TypeOK, PhaseInv, KeptInv
<1>4. Cardinality(members) = 1
  BY <1>3, FS_Singleton
<1>5. CASE SaveBegin
  <2>1. heart' = [pc |-> "saving", at |-> Only, low |-> count[Only], seen |-> {Only},
                  size |-> 1, acc |-> <<>>]
    BY <1>3, <1>4, <1>5 DEF SaveBegin
  <2>2. UNCHANGED <<saved, durable>>
    BY <1>3, <1>5 DEF SaveBegin
  <2> QED BY <1>1, <1>2, <1>3, <2>1, <2>2 DEF KeptInv
<1>6. CASE SaveAnswered
  <2>1. /\ heart.pc = "saving" /\ heart.at = Only /\ heart.acc = <<>> /\ heart.size = 1
        /\ heart.seen = {Only} /\ heart.low \in Nat
        /\ p4info => heart.low >= durable
    BY <1>2, <1>6 DEF SaveAnswered, KeptInv, TypeInv, TypeOK
  <2>2. PICK n \in heart.low..count[Only] : Save(<<n>>)
    <3>1. PICK n \in heart.low..count[heart.at] :
            LET acc == Append(heart.acc, n)
                ends == members \subseteq heart.seen
                raises == Cardinality(members) # heart.size \/ (~ends /\ Len(acc) = heart.size)
            IN  \/ /\ raises
                   /\ heart' = [Resting EXCEPT !.pc = "dead"]
                   /\ UNCHANGED <<saved, durable>>
                \/ ~raises /\ ends /\ Save(acc)
                \/ /\ ~raises
                   /\ \E t \in members \ heart.seen :
                        heart' = [heart EXCEPT !.at = t, !.low = count[t],
                                               !.seen = @ \cup {t}, !.acc = acc]
                   /\ UNCHANGED <<saved, durable>>
      BY <1>6 DEF SaveAnswered
    <3>2. members \subseteq heart.seen /\ Cardinality(members) = heart.size
      BY <1>3, <1>4, <2>1
    <3>3. Save(Append(heart.acc, n))
      BY <1>3, <2>1, <3>1, <3>2
    <3>4. Append(heart.acc, n) = <<n>>
      BY <2>1
    <3> QED BY <2>1, <3>3, <3>4
  <2>3. n \in Nat /\ (p4info => n >= durable)
    BY <1>3, <2>1
  <2>4. saved' = <<n>> /\ durable' = (IF n > durable THEN n ELSE durable) /\ heart' = Resting
    BY <1>2, <2>2 DEF Save
  <2>5. saved' # <<>> /\ Len(saved') = 1 /\ saved'[1] = n /\ heart'.pc = "idle"
    BY <2>4 DEF Resting
  <2>6. p4info => durable' = n /\ count[Only] >= n
    BY <1>3, <2>1, <2>2, <2>3, <2>4
  <2> QED BY <1>1, <1>2, <1>3, <2>5, <2>6 DEF KeptInv
<1> QED BY <1>5, <1>6

LEMMA NextKept == TypeInv /\ KeptInv /\ [Next]_vars => KeptInv'
<1> SUFFICES ASSUME TypeInv, KeptInv, [Next]_vars PROVE KeptInv'
  OBVIOUS
<1>1. /\ count \in [Targets -> Nat] /\ durable \in Nat /\ Only \in Targets
      /\ saved \in Seq(Nat) /\ fill \in Seq(Nat) /\ p4info \in BOOLEAN
      /\ usage = "single" => removing = {} /\ gone = {}
  BY CountersAssumption DEF TypeInv, TypeOK, PhaseInv
<1>2. ASSUME NEW r \in Readers, ReadBegin(r) \/ ReadAnswered(r) PROVE KeptInv'
  BY <1>2, KeptSame DEF ReadBegin, ReadAnswered, proxy, redis, switches
<1>3. ASSUME NEW t \in Targets, AddTarget(t) \/ RemoveTarget(t) \/ RemoveAnswered(t) PROVE KeptInv'
  <2>1. usage # "single" /\ UNCHANGED usage
    BY <1>1, <1>3 DEF AddTarget, RemoveTarget, RemoveAnswered, proxy
  <2> QED BY <2>1 DEF KeptInv
<1>4. ASSUME NEW t \in Targets, Packet(t) PROVE KeptInv'
  <2>1. count'[Only] \in Nat /\ count'[Only] >= count[Only]
    BY <1>1, <1>4 DEF Packet
  <2>2. UNCHANGED <<usage, phase, p4info, fill, saved, durable, heart>>
    BY <1>4 DEF Packet, proxy, redis
  <2> QED BY <1>1, <2>1, <2>2 DEF KeptInv
<1>5. ASSUME NEW t \in Targets, Route(t) PROVE KeptInv'
  BY <1>5, KeptSame DEF Route, proxy, redis
<1>6. CASE SaveBegin \/ SaveAnswered
  BY <1>6, SaveKept
<1>7. CASE SetForwardingPipelineConfig
  <2>1. /\ phase = "up" /\ p4info' = TRUE /\ saved' = <<>> /\ durable' = 0
        /\ UNCHANGED <<usage, phase, fill, count, heart>>
    BY <1>7 DEF SetForwardingPipelineConfig, switches
  <2>2. count[Only] >= 0 /\ heart.low >= 0
    BY <1>1 DEF TypeInv, TypeOK
  <2> QED BY <2>1, <2>2 DEF KeptInv
<1>8. CASE Start
  <2>1. UNCHANGED <<usage, p4info, saved, durable>> /\ heart' = Resting /\ heart'.pc = "idle"
    BY <1>8 DEF Start, redis, Resting
  <2>2. SUFFICES ASSUME usage = "single" PROVE KeptInv'
    BY <2>1 DEF KeptInv
  <2>3. /\ \E n \in {0, count[Only]} : count' = [count EXCEPT ![Only] = n]
        /\ fill' = IF p4info THEN saved ELSE <<>>
        /\ phase' = IF fill' = <<>> THEN "up" ELSE "filling"
    BY <1>8, <2>2 DEF Start
  <2>4. count'[Only] \in Nat
    BY <1>1, <2>3
  <2>5. p4info /\ phase' = "up" => durable = 0
    BY <2>2, <2>3 DEF KeptInv
  <2>6. phase' = "filling" => p4info /\ fill' = saved
    BY <2>3
  <2> QED BY <2>1, <2>2, <2>4, <2>5, <2>6 DEF KeptInv
<1>9. CASE FillStep
  <2>1. /\ usage = "single" /\ p4info /\ fill = saved /\ saved # <<>> /\ Len(saved) <= 1
        /\ durable = saved[1] /\ heart.pc # "saving"
    BY <1>9 DEF FillStep, KeptInv, TypeInv, PhaseInv
  <2>2. UNCHANGED <<usage, p4info, saved, heart, durable>>
    BY <1>9 DEF FillStep, redis
  <2>3. Head(saved) = saved[1] /\ Tail(saved) = <<>>
    BY <1>1, <2>1
  <2>4. phase' = "up" /\ count'[Only] = durable
    BY <1>1, <1>9, <2>1, <2>3 DEF FillStep
  <2> QED BY <1>1, <2>1, <2>2, <2>4 DEF KeptInv
<1>10. CASE Crash
  <2>1. /\ phase' = "down" /\ heart' = Resting /\ heart'.pc = "idle"
        /\ UNCHANGED <<usage, p4info, saved, durable>>
    BY <1>10 DEF Crash, redis, Resting
  <2> QED BY <2>1 DEF KeptInv
<1>11. CASE UNCHANGED vars
  BY <1>11, KeptSame DEF vars, proxy, redis, switches
<1> QED BY <1>2, <1>3, <1>4, <1>5, <1>6, <1>7, <1>8, <1>9, <1>10, <1>11 DEF Next

\* When the start of a proxy is over, its counter has at least every count that
\* save_counters_state_to_redis has saved since the pipeline was set.
THEOREM NothingSavedIsLost == Spec => []RestoreKeeps
<1>1. TypeInv /\ KeptInv => RestoreKeeps
  BY DEF KeptInv, RestoreKeeps
<1> QED BY <1>1, InitTypes, NextTypes, InitKept, NextKept, PTL DEF Spec

(***************************************************************************)
(* Reads.                                                                  *)
(***************************************************************************)
LEMMA InitWalks == Init => WalkInv
BY DEF Init, WalkInv, NoRead

\* What the sums below need of the types.
LEMMA Counts ==
  ASSUME TypeInv
  PROVE  /\ IsFiniteSet(Targets) /\ \A S \in SUBSET Targets : IsFiniteSet(S)
         /\ count \in [Targets -> Nat] /\ archive \in [Targets -> Nat]
         /\ Lives \in [Targets -> Nat]
         /\ members \subseteq Targets /\ removing \subseteq Targets /\ gone \subseteq Targets
         /\ Archived \in Nat /\ Held \in Nat
         /\ Held = Archived + Total(Lives, members \cup removing)
         /\ \A S \in SUBSET Targets : Total(count, S) \in Nat /\ Total(Lives, S) \in Nat
<1>1. IsFiniteSet(Targets) /\ \A S \in SUBSET Targets : IsFiniteSet(S)
  BY CountersAssumption, FS_Subset
<1>2. count \in [Targets -> Nat] /\ archive \in [Targets -> Nat] /\ Lives \in [Targets -> Nat]
  BY DEF TypeInv, TypeOK, Lives, Live
<1>3. \A S \in SUBSET Targets : Total(count, S) \in Nat /\ Total(Lives, S) \in Nat
  BY <1>1, <1>2, TotalType
<1>4. Held = Archived + Total(Lives, members \cup removing)
  BY DEF Held, Lives
<1> QED BY <1>1, <1>2, <1>3, <1>4, HeldType DEF TypeInv, TypeOK

\* Nodes that are not removed count on their switches.
LEMMA MembersLive ==
  ASSUME TypeInv, NEW S, S \subseteq members PROVE Total(Lives, S) = Total(count, S)
<1>1. IsFiniteSet(S) /\ \A t \in S : Lives[t] = count[t]
  BY Counts DEF Lives, Live, TypeInv, GoneInv
<1> QED BY <1>1, TotalSame

\* A node that is added brings what it has counted.
LEMMA AddHeld ==
  ASSUME TypeInv, NEW t \in Targets, AddTarget(t)
  PROVE  Held' \in Nat /\ Held <= Held' /\ Archived' = Archived
<1>1. /\ UNCHANGED <<archive, removing>> /\ members' = members \cup {t} /\ gone' = gone \ {t}
      /\ count' = [count EXCEPT ![t] = Live(t)] /\ t \notin members \cup removing
  BY DEF AddTarget, redis
<1>2. Lives' = Lives
  <2>1. \A x \in Targets : Lives'[x] = Lives[x]
    BY <1>1, Counts DEF Lives, Live
  <2> QED BY <2>1 DEF Lives
<1>3. Archived' = Archived
  BY <1>1 DEF Archived
<1>4. Held' = Archived + Total(Lives, (members \cup removing) \cup {t})
  <2>1. members' \cup removing' = (members \cup removing) \cup {t}
    BY <1>1
  <2>2. Held' = Archived' + Total(Lives', members' \cup removing')
    BY DEF Held, Lives
  <2> QED BY <1>2, <1>3, <2>1, <2>2
<1>5. Total(Lives, (members \cup removing) \cup {t}) = Lives[t] + Total(Lives, members \cup removing)
  <2>1. IsFiniteSet(members \cup removing) /\ \A x \in (members \cup removing) \cup {t} : Lives[x] \in Nat
    BY Counts
  <2> QED BY <1>1, <2>1, TotalAdd
<1>6. Lives[t] \in Nat /\ Total(Lives, members \cup removing) \in Nat
  BY Counts
<1> QED BY <1>3, <1>4, <1>5, <1>6, Counts

\* A removal takes the counts of the node from its switch to the archive.
LEMMA RemoveHeld ==
  ASSUME TypeInv, NEW t \in Targets, RemoveTarget(t) \/ RemoveAnswered(t)
  PROVE  Held' = Held
<1>1. CASE RemoveTarget(t)
  <2>1. /\ members' \cup removing' = members \cup removing
        /\ UNCHANGED <<archive, count, gone>>
    BY <1>1 DEF RemoveTarget, redis, switches
  <2>2. Lives' = Lives /\ Archived' = Archived
    BY <2>1 DEF Lives, Live, Archived
  <2>3. Held' = Archived' + Total(Lives', members' \cup removing')
    BY DEF Held, Lives
  <2> QED BY <2>1, <2>2, <2>3, Counts
<1>2. CASE RemoveAnswered(t)
  <2>1. /\ t \in removing /\ t \notin members /\ t \notin gone /\ removing' = removing \ {t}
        /\ archive' = [archive EXCEPT ![t] = @ + count[t]] /\ gone' = gone \cup {t}
        /\ UNCHANGED <<members, count>>
    BY <1>2 DEF RemoveAnswered, proxy, TypeInv, GoneInv
  <2> DEFINE rest == (members \cup removing) \ {t}
  <2>2. /\ members' \cup removing' = rest /\ t \in members \cup removing
        /\ IsFiniteSet(rest) /\ IsFiniteSet(members \cup removing)
    <3>1. members' \cup removing' = rest /\ t \in members \cup removing /\ rest \in SUBSET Targets
      BY <2>1, Counts
    <3> HIDE DEF rest
    <3> QED BY <3>1, Counts
  <2>3. \A x \in rest : Lives'[x] = Lives[x]
    BY <2>1, Counts DEF Lives, Live
  <2>4. Total(Lives', rest) = Total(Lives, rest) /\ Total(Lives, rest) \in Nat
    <3>1. rest \in SUBSET Targets
      BY Counts
    <3> HIDE DEF rest
    <3> QED BY <2>2, <2>3, <3>1, TotalSame, Counts
  <2>5. Total(Lives, members \cup removing) = count[t] + Total(Lives, rest)
    <3>1. Lives[t] = count[t]
      BY <2>1 DEF Lives, Live
    <3>2. \A x \in members \cup removing : Lives[x] \in Nat
      BY Counts
    <3> QED BY <2>2, <3>1, <3>2, TotalSplit
  <2>6. Archived' - Archived = count[t]
    <3>1. /\ \A x \in Targets : archive[x] \in Nat /\ archive'[x] \in Nat
          /\ \A x \in Targets : x # t => archive'[x] = archive[x]
          /\ archive'[t] - archive[t] = count[t]
      BY <2>1, Counts
    <3>2. Total(archive', Targets) - Total(archive, Targets) = archive'[t] - archive[t]
      BY <3>1, TotalChange, CountersAssumption
    <3> QED BY <3>1, <3>2 DEF Archived
  <2>7. Archived' \in Nat
    <3>1. \A x \in Targets : archive'[x] \in Nat
      BY <2>1, Counts
    <3> QED BY <3>1, TotalType, CountersAssumption DEF Archived
  <2>8. Held' = Archived' + Total(Lives', members' \cup removing')
    BY DEF Held, Lives
  <2>9. /\ Held' = Archived' + Total(Lives, rest)
        /\ Held = Archived + (count[t] + Total(Lives, rest))
        /\ count[t] \in Nat /\ Archived \in Nat
    BY <2>2, <2>4, <2>5, <2>8, Counts
  <2> HIDE DEF rest
  <2> QED BY <2>4, <2>6, <2>7, <2>9
<1> QED BY <1>1, <1>2

\* A packet is counted once, by those who ask its node.
LEMMA PacketHeld ==
  ASSUME TypeInv, NEW t \in Targets, Packet(t)
  PROVE  /\ Archived' = Archived
         /\ Held' = Held + (IF t \in members \cup removing THEN 1 ELSE 0)
         /\ \A S \in SUBSET Targets :
              Total(count', S) = Total(count, S) + (IF t \in S THEN 1 ELSE 0)
<1>1. /\ UNCHANGED <<archive, members, removing, gone>> /\ t \notin gone
      /\ count' = [count EXCEPT ![t] = @ + 1]
  BY DEF Packet, proxy, redis, TypeInv, GoneInv
<1>2. ASSUME NEW S \in SUBSET Targets, NEW c \in [Targets -> Nat], NEW d \in [Targets -> Nat],
             \A x \in Targets : x # t => d[x] = c[x], d[t] = c[t] + 1
      PROVE  Total(d, S) = Total(c, S) + (IF t \in S THEN 1 ELSE 0)
  <2>1. IsFiniteSet(S) /\ Total(c, S) \in Nat /\ Total(d, S) \in Nat /\ c[t] \in Nat
    BY TotalType, Counts
  <2>2. CASE t \in S
    <3>1. Total(d, S) - Total(c, S) = d[t] - c[t]
      BY <1>2, <2>1, <2>2, TotalChange
    <3> QED BY <1>2, <2>1, <2>2, <3>1
  <2>3. CASE t \notin S
    <3>1. Total(d, S) = Total(c, S)
      <4>1. \A x \in S : c[x] = d[x]
        BY <1>2, <2>3
      <4> QED BY <2>1, <4>1, TotalSame
    <3> QED BY <2>1, <2>3, <3>1
  <2> QED BY <2>2, <2>3
<1>3. /\ count' \in [Targets -> Nat] /\ count'[t] = count[t] + 1
      /\ \A x \in Targets : x # t => count'[x] = count[x]
  BY <1>1, Counts
<1>4. /\ Lives' \in [Targets -> Nat] /\ Lives'[t] = Lives[t] + 1
      /\ \A x \in Targets : x # t => Lives'[x] = Lives[x]
  BY <1>1, <1>3 DEF Lives, Live
<1>5. Archived' = Archived
  BY <1>1 DEF Archived
<1>6. Held' = Archived' + Total(Lives', members' \cup removing')
  BY DEF Held, Lives
<1>7. Total(Lives', members \cup removing)
        = Total(Lives, members \cup removing) + (IF t \in members \cup removing THEN 1 ELSE 0)
  <2>1. members \cup removing \in SUBSET Targets
    BY Counts
  <2> QED BY <1>2, <1>4, <2>1, Counts
<1>8. \A S \in SUBSET Targets : Total(count', S) = Total(count, S) + (IF t \in S THEN 1 ELSE 0)
  BY <1>2, <1>3, Counts
<1>9. Held' = Archived + Total(Lives', members \cup removing)
  BY <1>1, <1>5, <1>6
<1> DEFINE m == Total(Lives, members \cup removing)
<1>10. m \in Nat /\ Held = Archived + m /\ Archived \in Nat
  <2>1. members \cup removing \in SUBSET Targets
    BY Counts
  <2> QED BY <2>1, Counts
<1>11. Held' = Archived + (m + (IF t \in members \cup removing THEN 1 ELSE 0))
  BY <1>7, <1>9
<1> HIDE DEF m
<1> QED BY <1>5, <1>8, <1>10, <1>11

LEMMA BeginWalks == ASSUME TypeInv, WalkInv, NEW r \in Readers, ReadBegin(r) PROVE WalkInv'
<1>1. UNCHANGED <<members, removing, archive, count, gone>>
  BY DEF ReadBegin, proxy, redis, switches
<1>2. Lives' = Lives /\ Archived' = Archived /\ Held' = Held
  BY <1>1 DEF Lives, Live, Archived, Held
<1>3. SUFFICES ASSUME reads'[r].pc = "reading", reads'[r].calm
               PROVE  /\ removing = {} /\ reads'[r].left \subseteq members
                      /\ reads'[r].at \in members \ reads'[r].left
                      /\ reads'[r].since <= Archived + (reads'[r].sum + reads'[r].low)
                                              + Total(count, reads'[r].left)
                      /\ Archived + (reads'[r].sum + count[reads'[r].at])
                           + Total(count, reads'[r].left) <= Held
  <2>1. \A x \in Readers : x # r => reads'[x] = reads[x]
    <3>1. reads \in [Readers -> Walk]
      BY DEF TypeInv, TypeOK, Walk
    <3>2. \E w : reads' = [reads EXCEPT ![r] = w]
      BY DEF ReadBegin
    <3> QED BY <3>1, <3>2
  <2>2. reads'[r].pc # "done"
    BY DEF ReadBegin, TypeInv, TypeOK, NoRead
  <2> QED BY <1>1, <1>2, <2>1, <2>2 DEF WalkInv
<1>4. members # {}
  BY <1>3 DEF ReadBegin, NoRead, TypeInv, TypeOK
<1>5. PICK t \in members :
        reads'[r] = [pc |-> "reading", at |-> t, low |-> count[t], left |-> members \ {t},
                     sum |-> 0, since |-> Held, calm |-> removing = {}]
  BY <1>4 DEF ReadBegin, TypeInv, TypeOK
<1>6. removing = {} /\ count[t] \in Nat /\ t \in Targets
  <2>1. reads'[r].calm = (removing = {})
    BY <1>5
  <2> QED BY <1>3, <2>1, Counts
<1>7. Held = Archived + Total(count, members)
  <2>1. Total(Lives, members \cup removing) = Total(count, members)
    BY <1>6, MembersLive
  <2> QED BY <2>1, Counts
<1>8. Total(count, members) = count[t] + Total(count, members \ {t})
  BY Counts, TotalSplit
<1> DEFINE m == Total(count, members \ {t})
<1>9. m \in Nat /\ Archived \in Nat
  BY Counts
<1>10. Held = Archived + (count[t] + m)
  BY <1>7, <1>8
<1>11. Held <= Archived + (0 + count[t]) + m /\ Archived + (0 + count[t]) + m <= Held
  <2> HIDE DEF m
  <2> QED BY <1>6, <1>9, <1>10
<1> QED BY <1>5, <1>6, <1>11

LEMMA AnswerWalks == ASSUME TypeInv, WalkInv, NEW r \in Readers, ReadAnswered(r) PROVE WalkInv'
<1>1. UNCHANGED <<members, removing, archive, count, gone>>
  BY DEF ReadAnswered, proxy, redis, switches
<1>2. Lives' = Lives /\ Archived' = Archived /\ Held' = Held
  BY <1>1 DEF Lives, Live, Archived, Held
<1> DEFINE q == reads[r]
           w == reads'[r]
<1>3. /\ reads \in [Readers -> Walk] /\ q \in Walk /\ q.pc = "reading" /\ q.at \in Targets
      /\ q.low \in Nat /\ q.sum \in Nat /\ q.since \in Nat /\ count[q.at] \in Nat
      /\ q.left \in SUBSET Targets
  <2>1. reads \in [Readers -> Walk] /\ q.pc = "reading" /\ q.at \in Targets
    BY DEF ReadAnswered, TypeInv, TypeOK, PhaseInv, Walk
  <2> QED BY <2>1, Counts DEF Walk
<1>4. PICK n \in q.low..count[q.at] :
        LET sum == q.sum + n IN
        IF q.left = {}
        THEN reads' = [reads EXCEPT ![r].pc = "done", ![r].at = NoTarget, ![r].low = 0,
                                           ![r].sum = Answer(sum)]
        ELSE \E t \in q.left :
               IF t \in members
               THEN reads' = [reads EXCEPT ![r].at = t, ![r].low = count[t],
                                           ![r].left = @ \ {t}, ![r].sum = sum]
               ELSE reads' = [reads EXCEPT ![r] = NoRead]
  BY DEF ReadAnswered
<1>5. n \in Nat /\ q.low <= n /\ n <= count[q.at]
  BY <1>3
<1>6. \A x \in Readers : x # r => reads'[x] = reads[x]
  BY <1>3, <1>4
<1>7. /\ w.pc = "reading" /\ w.calm =>
           /\ removing = {} /\ w.left \subseteq members /\ w.at \in members \ w.left
           /\ w.since <= Archived + (w.sum + w.low) + Total(count, w.left)
           /\ Archived + (w.sum + count[w.at]) + Total(count, w.left) <= Held
      /\ w.pc = "done" /\ w.calm => w.since <= w.sum /\ w.sum <= Held
  <2> DEFINE m == Total(count, q.left)
  <2>1. q.calm =>
          /\ removing = {} /\ q.left \subseteq members /\ q.at \in members \ q.left
          /\ q.since <= Archived + (q.sum + q.low) + m
          /\ Archived + (q.sum + count[q.at]) + m <= Held
    BY <1>3 DEF WalkInv
  <2>2. Archived \in Nat /\ m \in Nat /\ Held \in Nat
    BY <1>3, Counts
  <2>3. q.calm => /\ q.since <= Archived + (q.sum + n) + m
                  /\ Archived + (q.sum + n) + m <= Held
    <3> HIDE DEF m, q
    <3> QED BY <1>3, <1>5, <2>1, <2>2
  <2>4. CASE q.left = {}
    <3>1. w = [q EXCEPT !.pc = "done", !.at = NoTarget, !.low = 0, !.sum = Answer(q.sum + n)]
      BY <1>3, <1>4, <2>4
    <3>2. /\ w.pc = "done" /\ w.calm = q.calm /\ w.since = q.since
          /\ w.sum = (q.sum + n) + Archived
      BY <1>3, <3>1 DEF Walk, Answer
    <3>3. m = 0
      BY <2>4, TotalEmpty, Counts
    <3> HIDE DEF m, q, w
    <3> QED BY <1>3, <1>5, <2>2, <2>3, <3>2, <3>3
  <2>5. CASE q.left # {}
    <3>1. PICK t \in q.left :
            IF t \in members
            THEN reads' = [reads EXCEPT ![r].at = t, ![r].low = count[t],
                                        ![r].left = @ \ {t}, ![r].sum = q.sum + n]
            ELSE reads' = [reads EXCEPT ![r] = NoRead]
      BY <1>4, <2>5
    <3>2. CASE t \notin members
      <4>1. w = NoRead
        BY <1>3, <3>1, <3>2
      <4> QED BY <4>1 DEF NoRead
    <3>3. CASE t \in members
      <4>1. w = [q EXCEPT !.at = t, !.low = count[t], !.left = @ \ {t}, !.sum = q.sum + n]
        BY <1>3, <3>1, <3>3
      <4>2. /\ w.pc = "reading" /\ w.at = t /\ w.low = count[t] /\ w.left = q.left \ {t}
            /\ w.sum = q.sum + n /\ w.since = q.since /\ w.calm = q.calm
        BY <1>3, <4>1 DEF Walk
      <4>3. m = count[t] + Total(count, w.left) /\ Total(count, w.left) \in Nat /\ count[t] \in Nat
        <5>1. w.left = q.left \ {t} /\ w.left \in SUBSET Targets
          BY <1>3, <4>2
        <5>2. IsFiniteSet(q.left) /\ \A x \in q.left : count[x] \in Nat
          BY <1>3, Counts
        <5>3. Total(count, q.left) = count[t] + Total(count, q.left \ {t})
          BY <5>2, TotalSplit
        <5> QED BY <5>1, <5>2, <5>3, Counts
      <4> DEFINE k == Total(count, w.left)
      <4>4. k \in Nat /\ m = count[t] + k /\ count[t] \in Nat
        BY <4>3
      <4>5. q.calm => /\ q.since <= Archived + ((q.sum + n) + count[t]) + k
                      /\ Archived + ((q.sum + n) + count[t]) + k <= Held
        <5> HIDE DEF k, m, q
        <5> QED BY <1>3, <1>5, <2>2, <2>3, <4>4
      <4>6. q.calm => removing = {} /\ w.left \subseteq members /\ w.at \in members \ w.left
        BY <2>1, <3>3, <4>2
      <4> QED BY <4>2, <4>5, <4>6
    <3> QED BY <3>2, <3>3
  <2> QED BY <2>4, <2>5
<1>8. ASSUME NEW x \in Readers, x # r
      PROVE  LET v == reads'[x] IN
             /\ v.pc = "reading" /\ v.calm =>
                  /\ removing = {} /\ v.left \subseteq members /\ v.at \in members \ v.left
                  /\ v.since <= Archived + (v.sum + v.low) + Total(count, v.left)
                  /\ Archived + (v.sum + count[v.at]) + Total(count, v.left) <= Held
             /\ v.pc = "done" /\ v.calm => v.since <= v.sum /\ v.sum <= Held
  BY <1>6, <1>8 DEF WalkInv
<1>9. removing' = removing /\ members' = members /\ count' = count
  BY <1>1
<1> QED BY <1>2, <1>7, <1>8, <1>9 DEF WalkInv

\* The counts under a walk that a node's step does not disturb.
LEMMA NodeWalks ==
  ASSUME TypeInv, WalkInv, NEW t \in Targets, AddTarget(t) \/ Packet(t) PROVE WalkInv'
<1>1. SUFFICES ASSUME NEW r \in Readers
               PROVE  LET q == reads[r] IN
                      /\ q.pc = "reading" /\ q.calm =>
                           /\ removing' = {} /\ q.left \subseteq members'
                           /\ q.at \in members' \ q.left
                           /\ q.since <= Archived' + (q.sum + q.low) + Total(count', q.left)
                           /\ Archived' + (q.sum + count'[q.at]) + Total(count', q.left) <= Held'
                      /\ q.pc = "done" /\ q.calm => q.since <= q.sum /\ q.sum <= Held'
  <2>1. reads' = reads
    BY DEF AddTarget, Packet
  <2> QED BY <2>1 DEF WalkInv
<1> DEFINE q == reads[r]
           m == Total(count, q.left)
<1>2. /\ q.low \in Nat /\ q.sum \in Nat /\ q.since \in Nat /\ q.left \in SUBSET Targets
      /\ m \in Nat /\ Held \in Nat /\ Archived \in Nat
  BY Counts DEF TypeInv, TypeOK
<1>3. CASE AddTarget(t)
  <2>1. /\ Held <= Held' /\ Archived' = Archived /\ Held' \in Nat
    BY <1>3, AddHeld
  <2>2. /\ t \notin members /\ removing' = removing /\ members' = members \cup {t}
        /\ \A x \in members : count'[x] = count[x]
    BY <1>3, Counts DEF AddTarget
  <2>3. ASSUME q.pc = "reading", q.calm
        PROVE  /\ removing' = {} /\ q.left \subseteq members' /\ q.at \in members' \ q.left
               /\ q.since <= Archived' + (q.sum + q.low) + Total(count', q.left)
               /\ Archived' + (q.sum + count'[q.at]) + Total(count', q.left) <= Held'
    <3>1. /\ removing = {} /\ q.left \subseteq members /\ q.at \in members \ q.left
          /\ q.since <= Archived + (q.sum + q.low) + m
          /\ Archived + (q.sum + count[q.at]) + m <= Held
      BY <2>3 DEF WalkInv
    <3>2. Total(count', q.left) = m
      <4>1. \A x \in q.left : count[x] = count'[x]
        BY <2>2, <3>1
      <4>2. IsFiniteSet(q.left)
        BY <1>2, Counts
      <4> QED BY <4>1, <4>2, TotalSame
    <3>3. count'[q.at] = count[q.at] /\ count[q.at] \in Nat
      BY <2>2, <3>1, Counts
    <3>4. Archived + (q.sum + count[q.at]) + m <= Held'
      <4> DEFINE k == count[q.at]
      <4>1. k \in Nat /\ Archived + (q.sum + k) + m <= Held
        BY <3>1, <3>3
      <4> HIDE DEF q, m, k
      <4>2. Archived + (q.sum + k) + m <= Held'
        BY <1>2, <2>1, <4>1
      <4> QED BY <4>2 DEF k
    <3> QED BY <2>1, <2>2, <3>1, <3>2, <3>3, <3>4
  <2>4. q.pc = "done" /\ q.calm => q.since <= q.sum /\ q.sum <= Held'
    <3>1. q.pc = "done" /\ q.calm => q.since <= q.sum /\ q.sum <= Held
      BY DEF WalkInv
    <3> HIDE DEF q
    <3> QED BY <1>2, <2>1, <3>1
  <2> QED BY <2>3, <2>4
<1>4. CASE Packet(t)
  <2>1. /\ Archived' = Archived
        /\ Held' = Held + (IF t \in members \cup removing THEN 1 ELSE 0)
        /\ Total(count', q.left) = m + (IF t \in q.left THEN 1 ELSE 0)
    BY <1>2, <1>4, PacketHeld
  <2>2. /\ removing' = removing /\ members' = members
        /\ count' = [count EXCEPT ![t] = @ + 1]
    BY <1>4 DEF Packet, proxy
  <2>3. ASSUME q.pc = "reading", q.calm
        PROVE  /\ removing' = {} /\ q.left \subseteq members' /\ q.at \in members' \ q.left
               /\ q.since <= Archived' + (q.sum + q.low) + Total(count', q.left)
               /\ Archived' + (q.sum + count'[q.at]) + Total(count', q.left) <= Held'
    <3>1. /\ removing = {} /\ q.left \subseteq members /\ q.at \in members \ q.left
          /\ q.since <= Archived + (q.sum + q.low) + m
          /\ Archived + (q.sum + count[q.at]) + m <= Held
      BY <2>3 DEF WalkInv
    <3> DEFINE k == count[q.at]
               l == Total(count', q.left)
               j == count'[q.at]
    <3>2. k \in Nat /\ j = k + (IF t = q.at THEN 1 ELSE 0)
      BY <2>2, <3>1, Counts
    <3>3. l \in {m, m + 1} /\ l + j <= m + k + (IF t \in members THEN 1 ELSE 0)
      <4>1. l = m + (IF t \in q.left THEN 1 ELSE 0)
        BY <2>1
      <4>2. CASE t = q.at
        <5>1. t \notin q.left /\ t \in members
          BY <3>1, <4>2
        <5> HIDE DEF m, k, l, j, q
        <5>2. l = m /\ j = k + 1
          BY <1>2, <3>2, <4>1, <4>2, <5>1
        <5>3. m \in Nat /\ k \in Nat
          BY <1>2, <3>2
        <5>4. l \in {m, m + 1} /\ l + j <= m + k + 1
          BY <5>2, <5>3
        <5> QED BY <5>1, <5>4
      <4>3. CASE t # q.at
        <5>1. j = k
          BY <3>2, <4>3
        <5>2. t \in q.left => t \in members
          BY <3>1
        <5> HIDE DEF m, k, l, j, q
        <5> QED BY <1>2, <3>2, <4>1, <5>1, <5>2
      <4> QED BY <4>2, <4>3
    <3>4. Held' = Held + (IF t \in members THEN 1 ELSE 0)
      BY <2>1, <3>1
    <3>5. q.since <= Archived + (q.sum + q.low) + l /\ Archived + (q.sum + j) + l <= Held'
      <4>1. /\ q.since <= Archived + (q.sum + q.low) + m
            /\ Archived + (q.sum + k) + m <= Held
        BY <3>1
      <4>2. j \in Nat
        <5> HIDE DEF k, j
        <5> QED BY <3>2
      <4> HIDE DEF m, k, l, j, q
      <4>3. l \in Nat /\ m <= l
        BY <1>2, <3>3
      <4>4. q.since <= Archived + (q.sum + q.low) + l
        BY <1>2, <4>1, <4>3
      <4>5. Archived + (q.sum + j) + l <= Held + (IF t \in members THEN 1 ELSE 0)
        BY <1>2, <3>2, <3>3, <4>1, <4>2, <4>3
      <4> QED BY <3>4, <4>4, <4>5
    <3> QED BY <2>1, <2>2, <3>1, <3>5
  <2>4. q.pc = "done" /\ q.calm => q.since <= q.sum /\ q.sum <= Held'
    <3>1. q.pc = "done" /\ q.calm => q.since <= q.sum /\ q.sum <= Held
      BY DEF WalkInv
    <3> HIDE DEF q
    <3> QED BY <1>2, <2>1, <3>1
  <2> QED BY <2>3, <2>4
<1> QED BY <1>3, <1>4

LEMMA RemoveWalks ==
  ASSUME TypeInv, WalkInv, NEW t \in Targets, RemoveTarget(t) \/ RemoveAnswered(t) PROVE WalkInv'
<1>1. Held' = Held
  BY RemoveHeld
<1>2. ASSUME NEW r \in Readers
      PROVE  /\ reads'[r].pc = "reading" => ~ reads'[r].calm
             /\ reads'[r].pc = "done" => reads'[r] = reads[r]
  <2>1. reads[r] \in Walk
    BY DEF TypeInv, TypeOK, Walk
  <2>2. CASE RemoveTarget(t)
    <3>1. reads'[r] = IF reads[r].pc = "reading" THEN [reads[r] EXCEPT !.calm = FALSE] ELSE reads[r]
      BY <2>2 DEF RemoveTarget
    <3> QED BY <2>1, <3>1 DEF Walk
  <2>3. CASE RemoveAnswered(t)
    <3>1. reads' = reads /\ removing # {}
      BY <2>3 DEF RemoveAnswered
    <3> QED BY <3>1 DEF WalkInv
  <2> QED BY <2>2, <2>3
<1> QED BY <1>1, <1>2 DEF WalkInv

LEMMA NextWalks == TypeInv /\ WalkInv /\ [Next]_vars => WalkInv'
<1> SUFFICES ASSUME TypeInv, WalkInv, [Next]_vars PROVE WalkInv'
  OBVIOUS
\* Steps that change nothing a Read is about.
<1>1. ASSUME UNCHANGED <<members, removing, archive, count, gone, reads>> PROVE WalkInv'
  <2>1. Archived' = Archived /\ Held' = Held
    BY <1>1 DEF Archived, Held, Live
  <2> QED BY <1>1, <2>1 DEF WalkInv
\* The process's, when no Read is in progress.
<1>2. CASE Start \/ FillStep \/ Crash
  <2>1. \A r \in Readers : reads'[r].pc = "idle"
    BY <1>2 DEF Start, FillStep, Crash, TypeInv, PhaseInv, NoRead
  <2> QED BY <2>1 DEF WalkInv
<1>3. CASE SaveBegin \/ SaveAnswered \/ SetForwardingPipelineConfig \/ UNCHANGED vars
  BY <1>1, <1>3
  DEF SaveBegin, SaveAnswered, SetForwardingPipelineConfig, vars, proxy, redis, switches
<1>4. ASSUME NEW t \in Targets, Route(t) PROVE WalkInv'
  BY <1>1, <1>4 DEF Route, proxy, redis
<1> QED BY <1>2, <1>3, <1>4, BeginWalks, AnswerWalks, NodeWalks, RemoveWalks DEF Next

\* A Read of the virtual device that no removal overlaps is answered with a
\* count the device had between its begin and its end.
THEOREM ReadsAreRegular == Spec => []ReadRegular
<1>1. WalkInv => ReadRegular
  BY DEF WalkInv, ReadRegular
<1> QED BY <1>1, InitTypes, NextTypes, InitWalks, NextWalks, PTL DEF Spec
=============================================================================
