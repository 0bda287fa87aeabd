------------------------ MODULE ThreadedProxy_proofs ------------------------
(***************************************************************************)
(* What the threaded proxy keeps for any number of controllers and writes, *)
(* any rate and any configuration of its connection: the updates on their  *)
(* way to the switch are the log's.  The sequence operators of the         *)
(* community modules are given the laws of prefixes and of concatenation   *)
(* that the argument is about.  And what the lazily drained bucket of the  *)
(* connections guarantees, at any rate and for any resolution of time.     *)
(***************************************************************************)
EXTENDS MCThreadedProxy, CommunityLaws

(***************************************************************************)
(* Of and Updates add up what each element contributes.                    *)
(***************************************************************************)
Share(c, u) == IF u[1] = c THEN <<u>> ELSE <<>>
Shares(c, s) == [i \in DOMAIN s |-> Share(c, s[i])]

LEMMA OfIs == ASSUME NEW c, NEW s PROVE Of(c, s) = FlattenSeq(Shares(c, s))
BY DEF Of, Shares, Share

LEMMA ShareType == ASSUME NEW E, NEW c, NEW u \in E PROVE Share(c, u) \in Seq(E)
BY EmptySeq DEF Share

LEMMA SharesType ==
  ASSUME NEW E, NEW c, NEW s \in Seq(E)
  PROVE  /\ Shares(c, s) \in Seq(Seq(E)) /\ Len(Shares(c, s)) = Len(s)
         /\ \A i \in 1..Len(s) : Shares(c, s)[i] = Share(c, s[i]) /\ Share(c, s[i]) \in Seq(E)
<1> DEFINE f == Shares(c, s)
<1>1. DOMAIN s = 1..Len(s) /\ Len(s) \in Nat
  BY LenProperties
<1>2. \A i \in 1..Len(s) : f[i] = Share(c, s[i]) /\ Share(c, s[i]) \in Seq(E)
  BY <1>1, ShareType, ElementOfSeq DEF Shares
<1>3. f \in [1..Len(s) -> Seq(E)]
  BY <1>1, <1>2 DEF Shares
<1> HIDE DEF f
<1>4. f \in Seq(Seq(E)) /\ Len(f) = Len(s)
  <2> DEFINE R == Seq(E)
             n == Len(s)
  <2>1. n \in Nat /\ f \in [1..n -> R]
    BY <1>1, <1>3
  <2> HIDE DEF R, n
  <2>2. f \in Seq(R)
    BY <2>1, SeqDef
  <2>3. Len(f) = n
    BY <2>1, <2>2, LenProperties
  <2> QED BY <2>2, <2>3 DEF R, n
<1> QED BY <1>2, <1>4 DEF f

LEMMA OfType == ASSUME NEW E, NEW c, NEW s \in Seq(E) PROVE Of(c, s) \in Seq(E)
BY OfIs, SharesType, FlattenType

LEMMA OfEmpty == ASSUME NEW c PROVE Of(c, <<>>) = <<>>
<1>1. Shares(c, <<>>) = <<>>
  BY DEF Shares
<1> QED BY <1>1, OfIs, FlattenEmpty

LEMMA OfAppend ==
  ASSUME NEW E, NEW c, NEW s \in Seq(E), NEW u \in E
  PROVE  Of(c, Append(s, u)) = IF u[1] = c THEN Append(Of(c, s), u) ELSE Of(c, s)
<1> DEFINE more == Append(s, u)
           p == Shares(c, s)
           q == Shares(c, more)
           r == Share(c, u)
<1>1. /\ more \in Seq(E) /\ Len(more) = Len(s) + 1 /\ Len(s) \in Nat
      /\ \A i \in 1..Len(s) : more[i] = s[i]
      /\ more[Len(s) + 1] = u
  BY AppendProperties, LenProperties
<1>2. r \in Seq(E)
  BY ShareType
<1>3. /\ p \in Seq(Seq(E)) /\ Len(p) = Len(s)
      /\ \A i \in 1..Len(s) : p[i] = Share(c, s[i])
  BY SharesType
<1> HIDE DEF more
<1>4. /\ q \in Seq(Seq(E)) /\ Len(q) = Len(s) + 1
      /\ \A i \in 1..Len(more) : q[i] = Share(c, more[i])
  BY <1>1, SharesType
<1> HIDE DEF p, q
<1>5. \A i \in 1..Len(s) : q[i] = p[i]
  <2>1. \A i \in 1..Len(s) : i \in 1..Len(more)
    BY <1>1
  <2> QED BY <1>1, <1>3, <1>4, <2>1
<1>6. q[Len(s) + 1] = r
  <2>1. Len(s) + 1 \in 1..Len(more)
    BY <1>1
  <2> QED BY <1>1, <1>4, <2>1
<1> HIDE DEF r
<1>7. q = Append(p, r)
  BY <1>2, <1>3, <1>4, <1>5, <1>6, AppendByPlace
<1>9. FlattenSeq(q) = FlattenSeq(p) \o r
  BY <1>2, <1>3, <1>7, FlattenAppend
<1>10. Of(c, Append(s, u)) = Of(c, s) \o r
  BY <1>9, OfIs DEF p, q, more
<1>11. Of(c, s) \in Seq(E)
  BY OfType
<1>12. CASE u[1] = c
  BY <1>10, <1>11, <1>12, AppendIsConcat DEF r, Share
<1>13. CASE u[1] # c
  BY <1>10, <1>11, <1>13, ConcatEmptySeq DEF r, Share
<1> QED BY <1>12, <1>13

LEMMA OfPrefix ==
  ASSUME NEW E, NEW c, NEW s \in Seq(E), NEW n \in 0..Len(s)
  PROVE  IsPrefix(Of(c, SubSeq(s, 1, n)), Of(c, s))
<1> DEFINE part == SubSeq(s, 1, n)
           p == Shares(c, part)
           q == SubSeq(Shares(c, s), 1, n)
<1>1. Len(s) \in Nat /\ n \in Nat
  BY LenProperties
<1>2. part \in Seq(E) /\ Len(part) = n /\ \A i \in 1..n : part[i] = s[i] /\ i \in 1..Len(s)
  <2>1. \A i \in 1..n : s[i] \in E /\ i \in 1..Len(s)
    BY <1>1, ElementOfSeq
  <2> QED BY <1>1, <2>1, SubSeqProperties
<1>3. /\ Shares(c, s) \in Seq(Seq(E)) /\ Len(Shares(c, s)) = Len(s)
      /\ \A i \in 1..Len(s) : Shares(c, s)[i] = Share(c, s[i]) /\ Share(c, s[i]) \in Seq(E)
  BY SharesType
<1>4. q \in Seq(Seq(E)) /\ Len(q) = n /\ \A i \in 1..n : q[i] = Share(c, s[i])
  <2>1. \A i \in 1..n : Shares(c, s)[i] \in Seq(E)
    BY <1>2, <1>3
  <2> QED BY <1>1, <1>2, <1>3, <2>1, SubSeqProperties
<1> HIDE DEF part
<1>5. p \in Seq(Seq(E)) /\ Len(p) = n /\ \A i \in 1..n : p[i] = Share(c, s[i])
  BY <1>2, SharesType
<1> HIDE DEF p, q
<1>6. p = q
  BY <1>4, <1>5, SeqEqual
<1>7. IsPrefix(FlattenSeq(q), FlattenSeq(Shares(c, s)))
  BY <1>3, FlattenPrefix DEF q
<1> QED BY <1>6, <1>7, OfIs DEF p, part

Async(cmd) == IF cmd.kind = "future" THEN cmd.updates ELSE <<>>
Contribute(C, E) == \A x \in C : Async(x) \in Seq(E)
Asyncs(cmds) == [i \in DOMAIN cmds |-> Async(cmds[i])]

LEMMA UpdatesIs == ASSUME NEW cmds PROVE Updates(cmds) = FlattenSeq(Asyncs(cmds))
BY DEF Updates, Asyncs, Async

LEMMA AsyncsType ==
  ASSUME NEW E, NEW C, NEW cmds \in Seq(C), Contribute(C, E)
  PROVE  /\ Asyncs(cmds) \in Seq(Seq(E)) /\ Len(Asyncs(cmds)) = Len(cmds)
         /\ \A i \in 1..Len(cmds) : Asyncs(cmds)[i] = Async(cmds[i]) /\ Async(cmds[i]) \in Seq(E)
<1> DEFINE f == Asyncs(cmds)
<1>1. DOMAIN cmds = 1..Len(cmds) /\ Len(cmds) \in Nat
  BY LenProperties
<1>2. \A i \in 1..Len(cmds) : f[i] = Async(cmds[i]) /\ Async(cmds[i]) \in Seq(E)
  BY <1>1, ElementOfSeq DEF Asyncs, Contribute
<1>3. f \in [1..Len(cmds) -> Seq(E)]
  BY <1>1, <1>2 DEF Asyncs
<1> HIDE DEF f
<1>4. f \in Seq(Seq(E)) /\ Len(f) = Len(cmds)
  <2> DEFINE R == Seq(E)
             n == Len(cmds)
  <2>1. n \in Nat /\ f \in [1..n -> R]
    BY <1>1, <1>3
  <2> HIDE DEF R, n
  <2>2. f \in Seq(R)
    BY <2>1, SeqDef
  <2>3. Len(f) = n
    BY <2>1, <2>2, LenProperties
  <2> QED BY <2>2, <2>3 DEF R, n
<1> QED BY <1>2, <1>4 DEF f

LEMMA UpdatesType ==
  ASSUME NEW E, NEW C, NEW cmds \in Seq(C), Contribute(C, E)
  PROVE  Updates(cmds) \in Seq(E)
BY UpdatesIs, AsyncsType, FlattenType

LEMMA UpdatesEmpty == Updates(<<>>) = <<>>
<1>1. Asyncs(<<>>) = <<>>
  BY DEF Asyncs
<1> QED BY <1>1, UpdatesIs, FlattenEmpty

LEMMA UpdatesAppend ==
  ASSUME NEW E, NEW C, NEW cmds \in Seq(C), Contribute(C, E), NEW x \in C
  PROVE  Updates(Append(cmds, x)) = Updates(cmds) \o Async(x)
<1> DEFINE more == Append(cmds, x)
           p == Asyncs(cmds)
           q == Asyncs(more)
           r == Async(x)
<1>1. /\ more \in Seq(C) /\ Len(more) = Len(cmds) + 1 /\ Len(cmds) \in Nat
      /\ \A i \in 1..Len(cmds) : more[i] = cmds[i]
      /\ more[Len(cmds) + 1] = x
  BY AppendProperties, LenProperties
<1>2. r \in Seq(E)
  BY DEF Contribute
<1>3. /\ p \in Seq(Seq(E)) /\ Len(p) = Len(cmds)
      /\ \A i \in 1..Len(cmds) : p[i] = Async(cmds[i])
  BY AsyncsType
<1> HIDE DEF more
<1>4. /\ q \in Seq(Seq(E)) /\ Len(q) = Len(cmds) + 1
      /\ \A i \in 1..Len(more) : q[i] = Async(more[i])
  BY <1>1, AsyncsType
<1> HIDE DEF p, q
<1>5. \A i \in 1..Len(cmds) : q[i] = p[i]
  <2>1. \A i \in 1..Len(cmds) : i \in 1..Len(more)
    BY <1>1
  <2> QED BY <1>1, <1>3, <1>4, <2>1
<1>6. q[Len(cmds) + 1] = r
  <2>1. Len(cmds) + 1 \in 1..Len(more)
    BY <1>1
  <2> QED BY <1>1, <1>4, <2>1
<1> HIDE DEF r
<1>7. q = Append(p, r)
  BY <1>2, <1>3, <1>4, <1>5, <1>6, AppendByPlace
<1>9. FlattenSeq(q) = FlattenSeq(p) \o r
  BY <1>2, <1>3, <1>7, FlattenAppend
<1> QED BY <1>9, UpdatesIs DEF p, q, r, more

LEMMA UpdatesHeadTail ==
  ASSUME NEW E, NEW C, NEW cmds \in Seq(C), Contribute(C, E), cmds # <<>>
  PROVE  Updates(cmds) = Async(Head(cmds)) \o Updates(Tail(cmds))
<1> DEFINE p == Asyncs(cmds)
           q == Asyncs(Tail(cmds))
<1>1. /\ Len(cmds) \in Nat \ {0} /\ Head(cmds) \in C /\ Head(cmds) = cmds[1]
      /\ Tail(cmds) \in Seq(C) /\ Len(Tail(cmds)) = Len(cmds) - 1
      /\ \A n \in 1..Len(Tail(cmds)) : Tail(cmds)[n] = cmds[n + 1]
  BY HeadTailProperties, LenProperties, EmptySeq
<1>2. /\ p \in Seq(Seq(E)) /\ Len(p) = Len(cmds)
      /\ \A i \in 1..Len(cmds) : p[i] = Async(cmds[i]) /\ Async(cmds[i]) \in Seq(E)
  BY AsyncsType
<1>3. /\ q \in Seq(Seq(E)) /\ Len(q) = Len(cmds) - 1
      /\ \A i \in 1..(Len(cmds) - 1) : q[i] = Async(Tail(cmds)[i])
  BY <1>1, AsyncsType
<1> HIDE DEF p, q
<1>4. p # <<>>
  BY <1>1, <1>2, LenProperties, EmptySeq
<1>5. /\ Head(p) = p[1] /\ Tail(p) \in Seq(Seq(E)) /\ Len(Tail(p)) = Len(cmds) - 1
      /\ \A n \in 1..(Len(cmds) - 1) : Tail(p)[n] = p[n + 1]
  BY <1>2, <1>4, HeadTailProperties
<1>6. Head(p) = Async(Head(cmds))
  <2>1. 1 \in 1..Len(cmds)
    BY <1>1
  <2> QED BY <1>1, <1>2, <1>5, <2>1
<1>7. Tail(p) = q
  <2>1. \A i \in 1..(Len(cmds) - 1) : Tail(p)[i] = q[i]
    <3> TAKE i \in 1..(Len(cmds) - 1)
    <3>1. i + 1 \in 1..Len(cmds) /\ i \in 1..Len(Tail(cmds))
      BY <1>1
    <3> QED BY <1>1, <1>2, <1>3, <1>5, <3>1
  <2>2. Tail(p) \in Seq(Seq(E)) /\ q \in Seq(Seq(E)) /\ Len(Tail(p)) = Len(q)
    BY <1>3, <1>5
  <2>3. \A i \in 1..Len(q) : Tail(p)[i] = q[i]
    BY <1>3, <2>1
  <2> QED BY ONLY <2>2, <2>3, SeqEqual, Zenon
<1>8. FlattenSeq(p) = Head(p) \o FlattenSeq(Tail(p))
  BY <1>2, <1>4, FlattenHeadTail
<1> QED BY <1>6, <1>7, <1>8, UpdatesIs DEF p, q

(***************************************************************************)
(* Types.                                                                  *)
(***************************************************************************)
Update == Writers \X Nat
Command == [kind : {"future", "blocking"}, updates : Seq(Update)]
Rpc == [kind : {"future", "blocking"}, updates : Seq(Update), by : Threads,
        status : {"running", "done", "failed"}]
States == {"idle", "callback", "flush", "call", "wait", "dead"}
Holders == Threads \cup {Free}

LinkTypeOK ==
  /\ mode \in Modes
  /\ batch \in Seq(Update) /\ started \in BOOLEAN
  /\ buffer \in Seq(Command) /\ level \in Nat
  /\ wire \in Seq(Rpc) /\ pit \subseteq 1..Len(wire)
  /\ conn \in Holders /\ stub \in Holders
  /\ pc \in [Threads -> States] /\ outcome \in [Threads -> {"ok", "error"}]

\* What the two settings leave unused.
LinkShape ==
  /\ ~mode.limited => buffer = <<>>
  /\ ~mode.batching => batch = <<>> /\ ~started /\ pc[Batcher] = "idle"

Gone == Updates(wire) \o Updates(buffer)
Pending == IF pc[Batcher] \in {"idle", "callback"} THEN batch ELSE <<>>

LEMMA LineIs == Line = Gone \o Pending /\ Line' = Gone' \o Pending'
BY DEF Line, Gone, Pending

LEMMA CommandsContribute == Contribute(Command, Update) /\ Contribute(Rpc, Update)
<1>1. <<>> \in Seq(Update)
  BY EmptySeq
<1> QED BY <1>1 DEF Contribute, Async, Command, Rpc

LEMMA LineTypes ==
  ASSUME LinkTypeOK
  PROVE  /\ Updates(wire) \in Seq(Update) /\ Updates(buffer) \in Seq(Update)
         /\ Gone \in Seq(Update) /\ Pending \in Seq(Update) /\ Line \in Seq(Update)
<1>1. Updates(wire) \in Seq(Update) /\ Updates(buffer) \in Seq(Update)
  BY CommandsContribute, UpdatesType DEF LinkTypeOK
<1>2. Gone \in Seq(Update)
  BY <1>1, ConcatProperties DEF Gone
<1>3. Pending \in Seq(Update)
  BY EmptySeq DEF Pending, LinkTypeOK
<1> QED BY <1>1, <1>2, <1>3, LineIs, ConcatProperties

(***************************************************************************)
(* What the operators of the connection do.                                *)
(***************************************************************************)
\* Of the threads only t moves; the batch thread is idle again only with an
\* empty batch.
Moves(t) ==
  /\ pc' \in [Threads -> States] /\ \A d \in Threads \ {t} : pc'[d] = pc[d]
  /\ pc'[t] # "callback" /\ (pc'[t] = "dead" => t \notin Writers)
  /\ outcome' \in [Threads -> {"ok", "error"}]
  /\ conn' \in Holders /\ stub' \in Holders
  /\ batch' \in Seq(Update)
  /\ IF t = Batcher THEN pc'[t] = "idle" => batch' = <<>> ELSE batch' = batch

LEMMA HoldMoves ==
  ASSUME LinkTypeOK, NEW t \in Threads, NEW p \in {"flush", "call", "wait"}, NEW c \in Holders,
         Hold(t, p, c)
  PROVE  Moves(t)
<1>1. pc' = [pc EXCEPT ![t] = p] /\ conn' = c /\ stub' = (IF mode.limited THEN t ELSE stub)
      /\ batch' = batch /\ outcome' = outcome
  BY DEF Hold
<1>2. pc' \in [Threads -> States] /\ pc'[t] = p /\ \A d \in Threads \ {t} : pc'[d] = pc[d]
  BY <1>1 DEF LinkTypeOK, States
<1> QED BY <1>1, <1>2 DEF Moves, LinkTypeOK, Holders

LEMMA LeaveMoves ==
  ASSUME LinkTypeOK, NEW t \in Threads, NEW r \in {"ok", "error"}, Leave(t, r)
  PROVE  Moves(t) /\ outcome'[t] = r
<1> DEFINE p == IF r = "error" /\ t \notin Writers THEN "dead" ELSE "idle"
<1>1. /\ pc' = [pc EXCEPT ![t] = p] /\ outcome' = [outcome EXCEPT ![t] = r]
      /\ conn' = (IF conn = t THEN Free ELSE conn) /\ stub' = (IF stub = t THEN Free ELSE stub)
      /\ batch' = (IF t = Batcher /\ r = "ok" THEN <<>> ELSE batch)
  BY DEF Leave
<1>2. pc' \in [Threads -> States] /\ pc'[t] = p /\ \A d \in Threads \ {t} : pc'[d] = pc[d]
  BY <1>1 DEF LinkTypeOK, States
<1>3. outcome' \in [Threads -> {"ok", "error"}] /\ outcome'[t] = r
  BY <1>1 DEF LinkTypeOK
<1>4. conn' \in Holders /\ stub' \in Holders /\ batch' \in Seq(Update)
  BY <1>1, EmptySeq DEF LinkTypeOK, Holders
<1>5. pc'[t] # "callback" /\ (pc'[t] = "dead" => t \notin Writers)
  BY <1>2
<1>6. IF t = Batcher THEN pc'[t] = "idle" => batch' = <<>> ELSE batch' = batch
  BY <1>1, <1>2, ThreadsAssumption
<1> QED BY <1>2, <1>3, <1>4, <1>5, <1>6 DEF Moves

LEMMA IssueGoes ==
  ASSUME LinkTypeOK, NEW t \in Threads, NEW cmd \in Command, NEW own \in BOOLEAN, NEW c \in Holders,
         Issue(t, cmd, own, c)
  PROVE  /\ Moves(t)
         /\ wire' \in Seq(Rpc) /\ pit' \subseteq 1..Len(wire')
         /\ Updates(wire') = Updates(wire) \o Async(cmd)
<1> DEFINE rpc == [kind |-> cmd.kind, updates |-> cmd.updates, by |-> t, status |-> "running"]
<1>1. wire' = Append(wire, rpc)
  BY DEF Issue
<1>2. rpc \in Rpc /\ Async(rpc) = Async(cmd)
  BY DEF Rpc, Command, Async
<1> HIDE DEF rpc
<1>3. wire \in Seq(Rpc) /\ wire' \in Seq(Rpc) /\ Len(wire') = Len(wire) + 1 /\ Len(wire) \in Nat
  BY <1>1, <1>2, AppendProperties, LenProperties DEF LinkTypeOK
<1>4. Updates(wire') = Updates(wire) \o Async(cmd)
  BY <1>1, <1>2, <1>3, CommandsContribute, UpdatesAppend
<1>5. Pit \subseteq 1..Len(wire') /\ pit \subseteq 1..Len(wire')
  <2>1. pit \subseteq 1..Len(wire)
    BY DEF LinkTypeOK
  <2>2. \A i \in pit : i \in 1..Len(wire')
    BY <1>3, <2>1
  <2>3. Len(wire) + 1 \in 1..Len(wire')
    BY <1>3
  <2> QED BY <2>2, <2>3 DEF Pit
<1>6. pit' \subseteq 1..Len(wire')
  BY <1>5 DEF Issue
<1>7. Moves(t)
  <2>1. \/ Leave(t, "error") \/ Leave(t, "ok")
        \/ Hold(t, "flush", c) \/ Hold(t, "call", c) \/ Hold(t, "wait", c)
    BY DEF Issue
  <2> QED BY <2>1, LeaveMoves, HoldMoves
<1> QED BY <1>3, <1>4, <1>6, <1>7

Fits ==
  /\ wire' \in Seq(Rpc) /\ pit' \subseteq 1..Len(wire')
  /\ buffer' \in Seq(Command) /\ level' \in Nat
  /\ ~mode.limited => buffer' = <<>>

\* A command is added to what has gone out or is buffered, unless the buffer is full.
Goes(us) == Fits /\ Gone' = Gone \o us

Room == Len(buffer) < BufferSize

LEMMA UpdatesAssoc ==
  ASSUME NEW a \in Seq(Update), NEW b \in Seq(Update), NEW d \in Seq(Update)
  PROVE  a \o (b \o d) = (a \o b) \o d
BY Assoc

LEMMA PushedFits ==
  ASSUME LinkTypeOK, NEW cmd \in Command
  PROVE  Pushed(cmd) \in Seq(Command) /\ (Room => Pushed(cmd) = Append(buffer, cmd))
<1>1. Len(buffer) \in Nat /\ buffer \in Seq(Command) /\ <<>> \in Seq(Command)
  BY LenProperties, EmptySeq DEF LinkTypeOK
<1>2. CASE BufferSize = 0
  BY <1>1, <1>2 DEF Pushed, Room
<1>3. CASE BufferSize # 0 /\ Room
  BY <1>1, <1>3, AppendProperties DEF Pushed, Room
<1>4. CASE BufferSize # 0 /\ ~Room
  <2>1. buffer # <<>>
    BY <1>1, <1>4, LenProperties, ThreadsAssumption DEF Room
  <2>2. Tail(buffer) \in Seq(Command)
    BY <1>1, <2>1, HeadTailProperties
  <2> QED BY <1>4, <2>2, AppendProperties DEF Pushed, Room
<1> QED BY <1>2, <1>3, <1>4

LEMMA StubCommandGoes ==
  ASSUME LinkTypeOK, LinkShape, NEW t \in Threads, NEW cmd \in Command, NEW locking \in BOOLEAN,
         StubCommand(t, cmd, locking)
  PROVE  Moves(t) /\ Fits /\ (Room => Goes(Async(cmd)))
<1> DEFINE c == IF locking THEN t ELSE conn
<1>0. c \in Holders /\ Async(cmd) \in Seq(Update)
  BY CommandsContribute DEF Holders, LinkTypeOK, Contribute
<1>1. CASE Issue(t, cmd, TRUE, c) /\ buffer = <<>> /\ UNCHANGED buffer /\ level' \in Nat
  <2>1. /\ Moves(t) /\ wire' \in Seq(Rpc) /\ pit' \subseteq 1..Len(wire')
        /\ Updates(wire') = Updates(wire) \o Async(cmd)
    BY <1>0, <1>1, IssueGoes
  <2>2. Gone' = Gone \o Async(cmd)
    <3>1. Updates(buffer) = <<>> /\ Updates(buffer') = <<>>
      BY <1>1, UpdatesEmpty
    <3>2. Updates(wire) \in Seq(Update) /\ Updates(wire') \in Seq(Update)
      BY <2>1, LineTypes, CommandsContribute, UpdatesType
    <3>3. Gone = Updates(wire) /\ Gone' = Updates(wire')
      BY <3>1, <3>2, ConcatEmptySeq DEF Gone
    <3> QED BY <2>1, <3>3
  <2> QED BY <1>1, <2>1, <2>2, EmptySeq DEF Goes, Fits
<1>2. CASE mode.limited /\ buffer' = Pushed(cmd) /\ Hold(t, "flush", c) /\ UNCHANGED <<level, wire, pit>>
  <2>1. Moves(t)
    BY <1>0, <1>2, HoldMoves
  <2>2. Fits
    BY <1>2, PushedFits DEF Fits, LinkTypeOK
  <2>3. ASSUME Room PROVE Gone' = Gone \o Async(cmd)
    <3>1. Updates(buffer') = Updates(buffer) \o Async(cmd)
      <4>1. buffer' = Append(buffer, cmd)
        BY <1>2, <2>3, PushedFits
      <4> QED BY <4>1, CommandsContribute, UpdatesAppend DEF LinkTypeOK
    <3>2. Gone' = Updates(wire) \o (Updates(buffer) \o Async(cmd))
      BY <1>2, <3>1 DEF Gone
    <3>3. Updates(wire) \in Seq(Update) /\ Updates(buffer) \in Seq(Update)
      BY LineTypes
    <3>4. Updates(wire) \o (Updates(buffer) \o Async(cmd)) = (Updates(wire) \o Updates(buffer)) \o Async(cmd)
      BY ONLY <1>0, <3>3, UpdatesAssoc, Zenon
    <3> QED BY <3>2, <3>4 DEF Gone
  <2> QED BY <2>1, <2>2, <2>3 DEF Goes
<1>3. CASE ~mode.limited /\ Issue(t, cmd, TRUE, c) /\ UNCHANGED <<buffer, level>>
  BY <1>1, <1>3 DEF LinkShape, LinkTypeOK
<1>4. CASE MaySend /\ Limit!Admit /\ Issue(t, cmd, TRUE, c) /\ UNCHANGED buffer
  <2>1. buffer = <<>> /\ level' \in Nat
    BY <1>4, ThreadsAssumption DEF MaySend, Limit!Admit, LinkTypeOK
  <2> QED BY <1>1, <1>4, <2>1
<1> QED BY <1>2, <1>3, <1>4 DEF StubCommand

LEMMA FlushTurnGoes ==
  ASSUME LinkTypeOK, LinkShape, NEW t \in Threads, FlushTurn(t)
  PROVE  Moves(t) /\ Goes(<<>>)
<1>0. Gone = Gone \o <<>>
  BY LineTypes, ConcatEmptySeq
<1>1. CASE buffer # <<>> /\ Limit!Admit /\ buffer' = Tail(buffer) /\ Issue(t, Head(buffer), FALSE, conn)
  <2>1. Head(buffer) \in Command /\ Tail(buffer) \in Seq(Command)
    BY <1>1, HeadTailProperties DEF LinkTypeOK
  <2>2. /\ Moves(t) /\ wire' \in Seq(Rpc) /\ pit' \subseteq 1..Len(wire')
        /\ Updates(wire') = Updates(wire) \o Async(Head(buffer))
    BY <1>1, <2>1, IssueGoes DEF LinkTypeOK
  <2>3. level' \in Nat
    BY <1>1, ThreadsAssumption DEF Limit!Admit, LinkTypeOK
  <2>4. Updates(buffer) = Async(Head(buffer)) \o Updates(buffer')
    BY <1>1, CommandsContribute, UpdatesHeadTail DEF LinkTypeOK
  <2>5. /\ Updates(wire) \in Seq(Update) /\ Async(Head(buffer)) \in Seq(Update)
        /\ Updates(buffer') \in Seq(Update)
    BY <1>1, <2>1, LineTypes, CommandsContribute, UpdatesType DEF Contribute
  <2>6. Gone' = Gone
    <3>1. Updates(wire) \o (Async(Head(buffer)) \o Updates(buffer'))
            = (Updates(wire) \o Async(Head(buffer))) \o Updates(buffer')
      BY ONLY <2>5, UpdatesAssoc, Zenon
    <3> QED BY <2>2, <2>4, <3>1 DEF Gone
  <2>7. mode.limited
    BY <1>1 DEF LinkShape
  <2> QED BY <1>0, <1>1, <2>1, <2>2, <2>3, <2>6, <2>7 DEF Goes, Fits
<1>2. CASE Leave(t, "ok") /\ UNCHANGED <<buffer, level, wire, pit>>
  <2>1. Moves(t)
    BY <1>2, LeaveMoves
  <2>2. Gone' = Gone
    BY <1>2 DEF Gone
  <2> QED BY <1>0, <1>2, <2>1, <2>2 DEF Goes, Fits, LinkTypeOK, LinkShape
<1> QED BY <1>1, <1>2 DEF FlushTurn

(***************************************************************************)
(* What the connection's actions do to the line.                           *)
(***************************************************************************)
KeepsLink == LinkTypeOK' /\ LinkShape' /\ mode' = mode /\ (pc[Batcher] = "dead" => pc'[Batcher] = "dead")
KeepsLine == KeepsLink /\ Line' = Line

LEMMA LinkKept ==
  ASSUME LinkTypeOK, LinkShape, NEW t \in Threads, pc[t] # "dead",
         Moves(t), Fits, mode' = mode, started' = started, mode.batching \/ t # Batcher
  PROVE  KeepsLink
<1>1. Batcher \in Threads
  BY DEF Threads
<1>2. LinkTypeOK'
  BY DEF LinkTypeOK, Moves, Fits
<1>3. LinkShape'
  <2>1. ~mode.batching => batch' = batch /\ pc'[Batcher] = pc[Batcher]
    BY <1>1 DEF Moves
  <2> QED BY <2>1 DEF LinkShape, Fits
<1>4. pc[Batcher] = "dead" => pc'[Batcher] = "dead"
  BY <1>1 DEF Moves
<1> QED BY <1>2, <1>3, <1>4 DEF KeepsLink

LEMMA QuietTurn ==
  ASSUME LinkTypeOK, LinkShape, NEW t \in Threads, pc[t] \in {"flush", "call", "wait"},
         Moves(t), Goes(<<>>), mode' = mode, started' = started
  PROVE  KeepsLine
<1>0. Batcher \in Threads /\ <<>> \in Seq(Update)
  BY EmptySeq DEF Threads
<1>1. mode.batching \/ t # Batcher
  BY DEF LinkShape
<1>2. KeepsLink
  BY <1>0, <1>1, LinkKept DEF Goes
<1>3. Pending' = Pending
  <2>1. CASE t = Batcher
    BY <2>1 DEF Pending, Moves
  <2>2. CASE t # Batcher
    BY <1>0, <2>2 DEF Pending, Moves
  <2> QED BY <2>1, <2>2
<1>4. Gone' = Gone
  BY LineTypes, ConcatEmptySeq DEF Goes
<1> QED BY <1>2, <1>3, <1>4, LineIs DEF KeepsLine

LEMMA FlushTurnKeeps ==
  ASSUME LinkTypeOK, LinkShape, NEW t \in Threads, FlushTurn(t)
  PROVE  KeepsLine
<1>1. pc[t] = "flush" /\ mode' = mode /\ started' = started
  BY DEF FlushTurn
<1> QED BY <1>1, FlushTurnGoes, QuietTurn

\* With the line's parts as they were.
LEMMA Nothing ==
  ASSUME LinkTypeOK, LinkShape, UNCHANGED <<buffer, level, wire, pit>>
  PROVE  Goes(<<>>)
<1>1. Gone' = Gone
  BY DEF Gone
<1> QED BY <1>1, LineTypes, ConcatEmptySeq DEF Goes, Fits, LinkTypeOK, LinkShape

LEMMA ReturnedKeeps ==
  ASSUME LinkTypeOK, LinkShape, NEW t \in Threads, Returned(t)
  PROVE  KeepsLine
<1>1. /\ pc[t] \in {"call", "wait"}
      /\ Leave(t, "error") \/ Leave(t, "ok") \/ Hold(t, "flush", conn)
      /\ UNCHANGED <<mode, started, buffer, level, wire, pit>>
  BY DEF Returned
<1>2. Moves(t)
  <2>1. conn \in Holders
    BY DEF LinkTypeOK
  <2> QED BY <1>1, <2>1, LeaveMoves, HoldMoves
<1>3. Goes(<<>>)
  BY <1>1, Nothing
<1> QED BY <1>1, <1>2, <1>3, QuietTurn

LEMMA HeartbeatKeeps ==
  ASSUME LinkTypeOK, LinkShape, Heartbeat
  PROVE  KeepsLine
<1>0. Heart \in Threads /\ Batcher \in Threads /\ Heart # Batcher /\ <<>> \in Seq(Update)
  BY EmptySeq, ThreadsAssumption DEF Threads
<1>1. /\ pc[Heart] = "idle" /\ Hold(Heart, "flush", conn) /\ conn \in Holders
      /\ UNCHANGED <<mode, started, buffer, level, wire, pit>>
  BY DEF Heartbeat, LinkTypeOK
<1>2. Moves(Heart)
  BY <1>0, <1>1, HoldMoves
<1>3. Goes(<<>>)
  BY <1>1, Nothing
<1>4. KeepsLink
  BY <1>0, <1>1, <1>2, <1>3, LinkKept DEF Goes
<1>5. Pending' = Pending
  BY <1>0, <1>2 DEF Pending, Moves
<1>6. Gone' = Gone
  BY <1>1 DEF Gone
<1> QED BY <1>4, <1>5, <1>6, LineIs DEF KeepsLine

LEMMA FlushBatchKeeps ==
  ASSUME LinkTypeOK, LinkShape, FlushBatch
  PROVE  KeepsLine
<1>0. Batcher \in Threads
  BY DEF Threads
<1>1. /\ pc[Batcher] = "idle" /\ started /\ started' = FALSE
      /\ pc' = [pc EXCEPT ![Batcher] = "callback"]
      /\ UNCHANGED <<mode, batch, buffer, level, wire, pit, conn, stub, outcome>>
  BY DEF FlushBatch
<1>2. pc' \in [Threads -> States] /\ pc'[Batcher] = "callback"
  BY <1>0, <1>1 DEF LinkTypeOK, States
<1>3. LinkTypeOK'
  BY <1>1, <1>2 DEF LinkTypeOK
<1>4. LinkShape'
  BY <1>1 DEF LinkShape
<1>5. Pending' = Pending
  BY <1>1, <1>2 DEF Pending
<1>6. Gone' = Gone
  BY <1>1 DEF Gone
<1> QED BY <1>1, <1>3, <1>4, <1>5, <1>6, LineIs DEF KeepsLine, KeepsLink

LEMMA BatchCallbackKeeps ==
  ASSUME LinkTypeOK, LinkShape, BatchCallback
  PROVE  KeepsLink /\ (Room => KeepsLine)
<1> DEFINE cmd == [kind |-> "future", updates |-> batch]
<1>0. Batcher \in Threads
  BY DEF Threads
<1>1. pc[Batcher] = "callback" /\ StubCommand(Batcher, cmd, TRUE) /\ mode' = mode /\ started' = started
  BY DEF BatchCallback
<1>2. cmd \in Command /\ Async(cmd) = batch /\ batch \in Seq(Update)
  BY DEF Command, Async, LinkTypeOK
<1> HIDE DEF cmd
<1>3. Moves(Batcher) /\ Fits /\ (Room => Goes(batch))
  BY <1>0, <1>1, <1>2, StubCommandGoes
<1>4. mode.batching
  BY <1>1 DEF LinkShape
<1>5. KeepsLink
  BY <1>0, <1>1, <1>3, <1>4, LinkKept
<1> SUFFICES ASSUME Room PROVE KeepsLine
  BY <1>5
<1>6. Pending = batch /\ Pending' = <<>>
  BY <1>1, <1>3 DEF Pending, Moves
<1>7. Gone' = Gone \o batch /\ Gone' \in Seq(Update)
  BY <1>2, <1>3, LineTypes, ConcatProperties DEF Goes
<1>8. Line' = Gone'
  BY <1>6, <1>7, LineIs, ConcatEmptySeq
<1>9. Line = Gone'
  BY <1>6, <1>7, LineIs
<1> QED BY <1>5, <1>8, <1>9 DEF KeepsLine

LEMMA SwitchAnswersKeeps ==
  ASSUME LinkTypeOK, LinkShape, SwitchAnswers
  PROVE  KeepsLine
<1>1. PICK i \in DOMAIN wire, s \in {"done", "failed"} :
        wire[i].status = "running" /\ wire' = [wire EXCEPT ![i].status = s]
  BY DEF SwitchAnswers
<1>2. UNCHANGED <<mode, batch, started, buffer, level, pit, conn, stub, pc, outcome>>
  BY DEF SwitchAnswers
<1>3. wire \in Seq(Rpc) /\ Len(wire) \in Nat /\ DOMAIN wire = 1..Len(wire) /\ wire[i] \in Rpc
  BY LenProperties, ElementOfSeq DEF LinkTypeOK
<1>4. [wire[i] EXCEPT !.status = s] \in Rpc
  BY <1>3 DEF Rpc
<1>5. wire' \in Seq(Rpc) /\ Len(wire') = Len(wire) /\ DOMAIN wire' = DOMAIN wire
  <2>1. wire' = [wire EXCEPT ![i] = [wire[i] EXCEPT !.status = s]]
    BY <1>1, <1>3
  <2> QED BY <1>3, <1>4, <2>1, ExceptSeq, LenProperties
<1>6. \A j \in DOMAIN wire : Async(wire'[j]) = Async(wire[j])
  <2> TAKE j \in DOMAIN wire
  <2>1. wire[j] \in Rpc
    BY <1>3, ElementOfSeq
  <2>2. wire'[j].kind = wire[j].kind /\ wire'[j].updates = wire[j].updates
    BY <1>1, <1>3, <2>1 DEF Rpc
  <2> QED BY <2>2 DEF Async
<1>7. Asyncs(wire') = Asyncs(wire)
  BY <1>5, <1>6 DEF Asyncs
<1>8. Gone' = Gone /\ Pending' = Pending
  BY <1>2, <1>7, UpdatesIs DEF Gone, Pending
<1>9. LinkTypeOK'
  BY <1>2, <1>5 DEF LinkTypeOK
<1>10. LinkShape'
  BY <1>2 DEF LinkShape
<1> QED BY <1>2, <1>8, <1>9, <1>10, LineIs DEF KeepsLine, KeepsLink

LEMMA TimePassesKeeps ==
  ASSUME LinkTypeOK, LinkShape, TimePasses
  PROVE  KeepsLine
<1>1. UNCHANGED <<mode, batch, started, buffer, wire, pit, conn, stub, pc, outcome>>
  BY DEF TimePasses
<1>2. level' \in Nat
  BY ThreadsAssumption DEF TimePasses, Limit!Drain, Limit!DrainedBy, LinkTypeOK
<1>3. LinkTypeOK' /\ LinkShape'
  BY <1>1, <1>2 DEF LinkTypeOK, LinkShape
<1>4. Gone' = Gone /\ Pending' = Pending
  BY <1>1 DEF Gone, Pending
<1> QED BY <1>1, <1>3, <1>4, LineIs DEF KeepsLine, KeepsLink

LEMMA BackgroundKeeps ==
  ASSUME LinkTypeOK, LinkShape, Background
  PROVE  KeepsLink /\ (Room => KeepsLine)
<1> USE DEF KeepsLine
<1>1. CASE \E t \in Threads : FlushTurn(t) \/ Returned(t)
  BY <1>1, FlushTurnKeeps, ReturnedKeeps
<1>2. CASE Heartbeat
  BY <1>2, HeartbeatKeeps
<1>3. CASE FlushBatch
  BY <1>3, FlushBatchKeeps
<1>4. CASE BatchCallback
  BY <1>4, BatchCallbackKeeps
<1>5. CASE SwitchAnswers
  BY <1>5, SwitchAnswersKeeps
<1>6. CASE TimePasses
  BY <1>6, TimePassesKeeps
<1> QED BY <1>1, <1>2, <1>3, <1>4, <1>5, <1>6 DEF Background

LEMMA WriterIsThread == \A t \in Writers : t \in Threads /\ t # Batcher
BY ThreadsAssumption DEF Threads

\* An asynchronous write of one update puts it at the end of the line, unless
\* the batch that it is added to will not be sent any more.
LEMMA WriteUpdatesGrows ==
  ASSUME LinkTypeOK, LinkShape, NEW t \in Writers, NEW u \in Update,
         WriteUpdates(t, <<u>>)
  PROVE  /\ KeepsLink /\ pc'[Batcher] = pc[Batcher]
         /\ Room => Line' = IF pc[Batcher] = "dead" THEN Line ELSE Append(Line, u)
<1> DEFINE cmd == [kind |-> "future", updates |-> <<u>>]
<1>0. /\ t \in Threads /\ t # Batcher /\ Batcher \in Threads /\ <<u>> \in Seq(Update)
      /\ pc[t] = "idle" /\ mode' = mode
  BY WriterIsThread DEF WriteUpdates, Threads
<1>1. cmd \in Command /\ Async(cmd) = <<u>>
  BY <1>0 DEF Command, Async
<1>2. CASE ~mode.batching
  <2>1. StubCommand(t, cmd, TRUE) /\ started' = started
    BY <1>2 DEF WriteUpdates
  <2> HIDE DEF cmd
  <2>2. Moves(t) /\ Fits /\ (Room => Goes(<<u>>))
    BY <1>0, <1>1, <2>1, StubCommandGoes
  <2>3. KeepsLink
    BY <1>0, <2>1, <2>2, LinkKept
  <2>4. /\ pc[Batcher] = "idle" /\ pc'[Batcher] = "idle"
        /\ Pending = <<>> /\ Pending' = <<>>
    BY <1>0, <1>2, <2>2 DEF LinkShape, Moves, Pending
  <2> SUFFICES ASSUME Room PROVE Line' = Append(Line, u)
    BY <2>3, <2>4
  <2>5. Gone' = Gone \o <<u>> /\ Gone \in Seq(Update) /\ Gone' \in Seq(Update)
    BY <1>0, <2>2, LineTypes, ConcatProperties DEF Goes
  <2>6. Line = Gone /\ Line' = Gone'
    BY <2>4, <2>5, LineIs, ConcatEmptySeq
  <2>7. Line' = Append(Line, u)
    BY <2>5, <2>6, AppendIsConcat
  <2> QED BY <2>7
<1>3. CASE mode.batching
  <2>1. /\ pc[Batcher] \in {"idle", "dead"} /\ batch' = batch \o <<u>> /\ started' = TRUE
        /\ outcome' = [outcome EXCEPT ![t] = "ok"]
        /\ UNCHANGED <<buffer, level, wire, pit, conn, stub, pc>>
    BY <1>3 DEF WriteUpdates, AddElements
  <2>2. batch \in Seq(Update) /\ batch' \in Seq(Update)
    BY <1>0, <2>1, ConcatProperties DEF LinkTypeOK
  <2>3. LinkTypeOK'
    BY <1>0, <2>1, <2>2 DEF LinkTypeOK
  <2>4. LinkShape'
    BY <1>0, <1>3, <2>1 DEF LinkShape
  <2>5. Gone' = Gone
    BY <2>1 DEF Gone
  <2>6. CASE pc[Batcher] = "dead"
    <3>1. Pending' = Pending
      BY <2>1, <2>6 DEF Pending
    <3> QED BY <1>0, <2>1, <2>3, <2>4, <2>5, <2>6, <3>1, LineIs DEF KeepsLink
  <2>7. CASE pc[Batcher] = "idle"
    <3>1. Pending = batch /\ Pending' = batch \o <<u>>
      BY <2>1, <2>7 DEF Pending
    <3>2. Gone \in Seq(Update) /\ Line \in Seq(Update)
      BY LineTypes
    <3>3. Gone \o (batch \o <<u>>) = (Gone \o batch) \o <<u>>
      <4>1. Gone \in Seq(Update) /\ batch \in Seq(Update) /\ <<u>> \in Seq(Update)
        BY <1>0, <2>2, <3>2
      <4> QED BY ONLY <4>1, UpdatesAssoc, Zenon
    <3>4. Line' = Line \o <<u>>
      BY <2>5, <3>1, <3>3, LineIs
    <3>5. Line' = Append(Line, u)
      BY <3>2, <3>4, AppendIsConcat
    <3> QED BY <1>0, <2>1, <2>3, <2>4, <2>7, <3>5 DEF KeepsLink
  <2> QED BY <2>1, <2>6, <2>7
<1> QED BY <1>2, <1>3

LEMMA BlockingKeeps ==
  ASSUME LinkTypeOK, LinkShape, NEW t \in Writers, NEW u \in Update,
         WriteLocked(t, <<u>>) \/ WriteUnlocked(t, <<u>>)
  PROVE  KeepsLink /\ (Room => KeepsLine)
<1> DEFINE cmd == [kind |-> "blocking", updates |-> <<u>>]
<1>0. /\ t \in Threads /\ t # Batcher /\ Batcher \in Threads /\ <<u>> \in Seq(Update) /\ <<>> \in Seq(Update)
      /\ pc[t] = "idle" /\ mode' = mode /\ started' = started
  <2>1. t \in Threads /\ t # Batcher /\ Batcher \in Threads
    BY WriterIsThread DEF Threads
  <2>2. <<u>> \in Seq(Update) /\ <<>> \in Seq(Update)
    BY EmptySeq
  <2>3. pc[t] = "idle" /\ mode' = mode /\ started' = started
    BY DEF WriteLocked, WriteUnlocked
  <2> QED BY <2>1, <2>2, <2>3
<1>1. cmd \in Command /\ Async(cmd) = <<>>
  BY <1>0 DEF Command, Async
<1>2. StubCommand(t, cmd, TRUE) \/ StubCommand(t, cmd, FALSE)
  BY DEF WriteLocked, WriteUnlocked
<1> HIDE DEF cmd
<1>3. Moves(t) /\ Fits /\ (Room => Goes(<<>>))
  BY <1>0, <1>1, <1>2, StubCommandGoes
<1>4. KeepsLink
  BY <1>0, <1>3, LinkKept
<1> SUFFICES ASSUME Room PROVE KeepsLine
  BY <1>4
<1>5. Pending' = Pending
  BY <1>0, <1>3 DEF Pending, Moves
<1>6. Gone' = Gone
  BY <1>3, LineTypes, ConcatEmptySeq DEF Goes
<1> QED BY <1>4, <1>5, <1>6, LineIs DEF KeepsLine

(***************************************************************************)
(* The inductive invariant.                                                *)
(***************************************************************************)
ProxyTypeOK ==
  /\ log \in Seq(Update) /\ made \in [Controllers -> Nat]
  /\ stage \in [Controllers -> {"opening", "open", "asked", "logged", "sent"}]
  /\ phase \in {"down", "fill", "preload", "serve", "failed"}
  /\ done \in Nat /\ starts \in Nat

\* Nobody is served before the fill is over, and a process that is down has sent nothing.
PhaseInv ==
  /\ ~Serving => \A c \in Controllers : stage[c] = "opening"
  /\ phase = "down" => Line = <<>>

\* As long as the batch thread lives the line is what has been filled of the
\* log, and then, for each controller, what the log has but for an update that
\* is still to be sent.
Complete ==
  pc[Batcher] # "dead" =>
    /\ phase = "fill" => done <= Len(log) /\ Line = SubSeq(log, 1, done)
    /\ Serving => \A c \in Controllers :
         Of(c, log) = IF stage[c] = "logged" THEN Append(Of(c, Line), <<c, made[c]>>) ELSE Of(c, Line)

TypeOK == LinkTypeOK /\ LinkShape /\ ProxyTypeOK

LineInv == LinkTypeOK /\ LinkShape /\ ProxyTypeOK /\ PhaseInv /\ Complete /\ WireFollowsLog

LEMMA ControllersUpdate ==
  ASSUME ProxyTypeOK, NEW c \in Controllers
  PROVE  c \in Writers /\ <<c, made[c]>> \in Update /\ <<c, made[c]>>[1] = c
BY DEF ProxyTypeOK, Controllers, Update

LEMMA Unmoved ==
  ASSUME LinkTypeOK, LinkShape, UNCHANGED linkVars
  PROVE  KeepsLine /\ pc' = pc
BY DEF linkVars, KeepsLine, KeepsLink, LinkTypeOK, LinkShape, Line

\* What depends on line and log, when neither changes nor an update between them.
LEMMA Unaffected ==
  ASSUME LineInv, KeepsLine, log' = log, phase' = phase, done' = done,
         \A d \in Controllers : stage'[d] = "logged" <=> stage[d] = "logged",
         \A d \in Controllers : stage[d] = "logged" => made'[d] = made[d]
  PROVE  Complete' /\ WireFollowsLog'
<1>1. Line' = Line /\ (pc'[Batcher] # "dead" => pc[Batcher] # "dead")
  BY DEF KeepsLine, KeepsLink
<1>2. Complete'
  BY <1>1 DEF LineInv, Complete, Serving
<1>3. WireFollowsLog'
  BY <1>1 DEF LineInv, WireFollowsLog
<1> QED BY <1>2, <1>3

LEMMA StreamChannelKeeps ==
  ASSUME LineInv, NEW c \in Controllers, StreamChannel(c)
  PROVE  LineInv'
<1>1. /\ Serving /\ stage[c] = "opening" /\ stage' = [stage EXCEPT ![c] = "open"]
      /\ UNCHANGED <<linkVars, log, made, phase, done, starts>>
  BY DEF StreamChannel
<1>2. KeepsLine
  BY <1>1, Unmoved DEF LineInv
<1>3. ProxyTypeOK'
  BY <1>1 DEF LineInv, ProxyTypeOK
<1>4. PhaseInv'
  BY <1>1, <1>2 DEF LineInv, PhaseInv, Serving, KeepsLine
<1>5. Complete' /\ WireFollowsLog'
  BY <1>1, <1>2, Unaffected DEF LineInv, ProxyTypeOK
<1> QED BY <1>2, <1>3, <1>4, <1>5 DEF LineInv, KeepsLine, KeepsLink

LEMMA AskKeeps ==
  ASSUME LineInv, NEW c \in Controllers, Ask(c)
  PROVE  LineInv'
<1>1. /\ Serving /\ stage[c] = "open" /\ stage' = [stage EXCEPT ![c] = "asked"]
      /\ made' = [made EXCEPT ![c] = @ + 1]
      /\ UNCHANGED <<linkVars, log, phase, done, starts>>
  BY DEF Ask
<1>2. KeepsLine
  BY <1>1, Unmoved DEF LineInv
<1>3. ProxyTypeOK'
  BY <1>1 DEF LineInv, ProxyTypeOK
<1>4. PhaseInv'
  BY <1>1, <1>2 DEF LineInv, PhaseInv, Serving, KeepsLine
<1>5. Complete' /\ WireFollowsLog'
  BY <1>1, <1>2, Unaffected DEF LineInv, ProxyTypeOK
<1> QED BY <1>2, <1>3, <1>4, <1>5 DEF LineInv, KeepsLine, KeepsLink

LEMMA WriteKeeps ==
  ASSUME LineInv, NEW c \in Controllers, Write(c)
  PROVE  LineInv'
<1> DEFINE u == <<c, made[c]>>
<1>1. /\ Serving /\ stage[c] = "asked" /\ stage' = [stage EXCEPT ![c] = "logged"]
      /\ log' = Append(log, u)
      /\ UNCHANGED <<linkVars, made, phase, done, starts>>
  BY DEF Write
<1>2. KeepsLine /\ Line' = Line /\ pc' = pc
  BY <1>1, Unmoved DEF LineInv, KeepsLine
<1>3. u \in Update /\ u[1] = c /\ log \in Seq(Update) /\ Line \in Seq(Update)
  BY ControllersUpdate, LineTypes DEF LineInv, ProxyTypeOK
<1>4. ProxyTypeOK'
  BY <1>1, <1>3, AppendProperties DEF LineInv, ProxyTypeOK
<1>5. PhaseInv'
  BY <1>1, <1>2 DEF LineInv, PhaseInv, Serving
<1> HIDE DEF u
<1>6. \A d \in Controllers : Of(d, log') = IF d = c THEN Append(Of(d, log), u) ELSE Of(d, log)
  BY <1>1, <1>3, OfAppend
<1>7. \A d \in Controllers : Of(d, Line) \in Seq(Update) /\ Of(d, log) \in Seq(Update)
  BY <1>3, OfType
<1>8. WireFollowsLog'
  <2> SUFFICES ASSUME NEW d \in Controllers PROVE IsPrefix(Of(d, Line'), Of(d, log'))
    BY DEF WireFollowsLog
  <2>1. IsPrefix(Of(d, Line), Of(d, log))
    BY DEF LineInv, WireFollowsLog
  <2> QED BY <1>2, <1>3, <1>6, <1>7, <2>1, PrefixOfAppend
<1>9. Complete'
  <2> SUFFICES ASSUME pc[Batcher] # "dead", NEW d \in Controllers
               PROVE  Of(d, log') = IF stage'[d] = "logged" THEN Append(Of(d, Line), <<d, made[d]>>) ELSE Of(d, Line)
    BY <1>1, <1>2 DEF Complete, Serving
  <2>1. Of(d, log) = IF stage[d] = "logged" THEN Append(Of(d, Line), <<d, made[d]>>) ELSE Of(d, Line)
    BY <1>1 DEF LineInv, Complete
  <2> QED BY <1>1, <1>6, <2>1 DEF LineInv, ProxyTypeOK, u
<1> QED BY <1>2, <1>4, <1>5, <1>8, <1>9 DEF LineInv, KeepsLine, KeepsLink

LEMMA SendKeeps ==
  ASSUME LineInv, Room, NEW c \in Controllers, Send(c)
  PROVE  LineInv'
<1> DEFINE u == <<c, made[c]>>
<1>1. /\ stage[c] = "logged" /\ stage' = [stage EXCEPT ![c] = "sent"]
      /\ WriteUpdates(c, <<u>>)
      /\ UNCHANGED <<log, made, phase, done, starts>>
  BY DEF Send
<1>2. u \in Update /\ u[1] = c /\ c \in Writers /\ log \in Seq(Update) /\ Line \in Seq(Update)
  BY ControllersUpdate, LineTypes DEF LineInv, ProxyTypeOK
<1>3. /\ KeepsLink /\ pc'[Batcher] = pc[Batcher]
      /\ Line' = IF pc[Batcher] = "dead" THEN Line ELSE Append(Line, u)
  BY <1>1, <1>2, WriteUpdatesGrows DEF LineInv
<1>4. Serving
  BY <1>1 DEF LineInv, PhaseInv
<1>5. ProxyTypeOK'
  BY <1>1 DEF LineInv, ProxyTypeOK
<1>6. PhaseInv'
  BY <1>1, <1>4 DEF PhaseInv, Serving
<1> HIDE DEF u
<1>7. \A d \in Controllers : Of(d, Append(Line, u)) = IF d = c THEN Append(Of(d, Line), u) ELSE Of(d, Line)
  BY <1>2, OfAppend
<1>8. Complete'
  <2> SUFFICES ASSUME pc[Batcher] # "dead", NEW d \in Controllers
               PROVE  Of(d, log) = IF stage'[d] = "logged" THEN Append(Of(d, Line'), <<d, made[d]>>) ELSE Of(d, Line')
    BY <1>1, <1>3, <1>4 DEF Complete, Serving
  <2>1. Of(d, log) = IF stage[d] = "logged" THEN Append(Of(d, Line), <<d, made[d]>>) ELSE Of(d, Line)
    BY <1>4 DEF LineInv, Complete
  <2>2. Line' = Append(Line, u)
    BY <1>3
  <2>3. CASE d = c
    BY <1>1, <1>7, <2>1, <2>2, <2>3 DEF LineInv, ProxyTypeOK, u
  <2>4. CASE d # c
    <3>1. Of(d, Line') = Of(d, Line) /\ stage'[d] = stage[d]
      BY <1>1, <1>7, <2>2, <2>4 DEF LineInv, ProxyTypeOK
    <3> QED BY <2>1, <3>1
  <2> QED BY <2>3, <2>4
<1>9. WireFollowsLog'
  <2> SUFFICES ASSUME NEW d \in Controllers PROVE IsPrefix(Of(d, Line'), Of(d, log))
    BY <1>1 DEF WireFollowsLog
  <2>1. CASE pc[Batcher] = "dead"
    BY <1>3, <2>1 DEF LineInv, WireFollowsLog
  <2>2. CASE pc[Batcher] # "dead"
    <3>1. Of(d, log) = IF stage'[d] = "logged" THEN Append(Of(d, Line'), <<d, made[d]>>) ELSE Of(d, Line')
      BY <1>1, <1>3, <1>4, <1>8, <2>2 DEF Complete, Serving
    <3>2. Line' \in Seq(Update) /\ <<d, made[d]>> \in Update
      BY <1>2, <1>3, <2>2, AppendProperties, ControllersUpdate DEF LineInv
    <3>3. Of(d, Line') \in Seq(Update)
      BY <3>2, OfType
    <3> QED BY <3>1, <3>2, <3>3, PrefixOfSelf, PrefixOfAppend
  <2> QED BY <2>1, <2>2
<1> QED BY <1>3, <1>5, <1>6, <1>8, <1>9 DEF LineInv, KeepsLink

LEMMA AnswerKeeps ==
  ASSUME LineInv, NEW c \in Controllers, Answer(c)
  PROVE  LineInv'
<1>1. /\ stage[c] = "sent" /\ stage' = [stage EXCEPT ![c] = "open"]
      /\ UNCHANGED <<linkVars, log, made, phase, done, starts>>
  BY DEF Answer
<1>2. KeepsLine
  BY <1>1, Unmoved DEF LineInv
<1>3. ProxyTypeOK'
  BY <1>1 DEF LineInv, ProxyTypeOK
<1>4. PhaseInv'
  BY <1>1, <1>2 DEF LineInv, PhaseInv, Serving, KeepsLine
<1>5. Complete' /\ WireFollowsLog'
  BY <1>1, <1>2, Unaffected DEF LineInv, ProxyTypeOK
<1> QED BY <1>2, <1>3, <1>4, <1>5 DEF LineInv, KeepsLine, KeepsLink

LEMMA StartKeeps ==
  ASSUME LineInv, Start
  PROVE  LineInv'
<1>1. /\ phase = "down" /\ phase' = "fill" /\ done' = 0 /\ starts' = starts + 1
      /\ UNCHANGED <<linkVars, log, made, stage>>
  BY DEF Start
<1>2. KeepsLine /\ Line' = Line /\ Line = <<>>
  BY <1>1, Unmoved DEF LineInv, KeepsLine, PhaseInv
<1>3. ProxyTypeOK'
  BY <1>1 DEF LineInv, ProxyTypeOK
<1>4. PhaseInv'
  BY <1>1 DEF LineInv, PhaseInv, Serving
<1>5. Complete'
  <2>1. SubSeq(log, 1, 0) = <<>> /\ Len(log) \in Nat
    BY SubSeqEmpty, LenProperties DEF LineInv, ProxyTypeOK
  <2> QED BY <1>1, <1>2, <2>1 DEF Complete, Serving
<1>6. WireFollowsLog'
  BY <1>1, <1>2 DEF LineInv, WireFollowsLog
<1> QED BY <1>2, <1>3, <1>4, <1>5, <1>6 DEF LineInv, KeepsLine, KeepsLink

LEMMA FillKeeps ==
  ASSUME LineInv, Room, Fill
  PROVE  LineInv'
<1>0. phase = "fill" /\ UNCHANGED <<log, made, stage, starts>>
  BY DEF Fill
<1>1. log \in Seq(Update) /\ Len(log) \in Nat /\ done \in Nat /\ Line \in Seq(Update)
  BY LineTypes, LenProperties DEF LineInv, ProxyTypeOK
<1>2. \A c \in Controllers : stage[c] = "opening"
  BY <1>0 DEF LineInv, PhaseInv, Serving
<1>3. CASE done < Len(log) /\ done' = done + 1 /\ WriteUpdates(Main, <<log[done']>>) /\ phase' = phase
  <2> DEFINE u == log[done + 1]
  <2>1. done + 1 \in 1..Len(log) /\ u \in Update
    BY <1>1, <1>3, ElementOfSeq
  <2>2. /\ KeepsLink /\ pc'[Batcher] = pc[Batcher]
        /\ Line' = IF pc[Batcher] = "dead" THEN Line ELSE Append(Line, u)
    BY <1>3, <2>1, WriteUpdatesGrows, ProxyAssumption DEF LineInv
  <2>3. ProxyTypeOK'
    BY <1>0, <1>1, <1>3 DEF LineInv, ProxyTypeOK
  <2>4. PhaseInv'
    BY <1>0, <1>2, <1>3 DEF PhaseInv
  <2>5. pc[Batcher] # "dead" => Line' = SubSeq(log, 1, done + 1)
    <3> SUFFICES ASSUME pc[Batcher] # "dead" PROVE Append(Line, u) = SubSeq(log, 1, done + 1)
      BY <2>2
    <3>1. Line = SubSeq(log, 1, done)
      BY <1>0 DEF LineInv, Complete
    <3>2. \A i \in 1..(done + 1) : log[i] \in Update
      BY <1>1, <2>1, ElementOfSeq
    <3> QED BY <1>1, <2>1, <3>1, <3>2, GrowSubSeq
  <2>6. Complete'
    BY <1>0, <1>1, <1>3, <2>2, <2>5 DEF Complete, Serving
  <2>7. WireFollowsLog'
    <3> SUFFICES ASSUME NEW c \in Controllers PROVE IsPrefix(Of(c, Line'), Of(c, log))
      BY <1>0 DEF WireFollowsLog
    <3>1. CASE pc[Batcher] = "dead"
      BY <2>2, <3>1 DEF LineInv, WireFollowsLog
    <3>2. CASE pc[Batcher] # "dead"
      <4>1. done + 1 \in 0..Len(log)
        BY <1>1, <2>1
      <4> QED BY <1>1, <2>5, <3>2, <4>1, OfPrefix
    <3> QED BY <3>1, <3>2
  <2> QED BY <2>2, <2>3, <2>4, <2>6, <2>7 DEF LineInv, KeepsLink
<1>4. CASE ~(done < Len(log)) /\ phase' = "preload" /\ done' = 0 /\ UNCHANGED linkVars
  <2>1. KeepsLine /\ Line' = Line /\ pc' = pc
    BY <1>4, Unmoved DEF LineInv, KeepsLine
  <2>2. ProxyTypeOK'
    BY <1>0, <1>4 DEF LineInv, ProxyTypeOK
  <2>3. PhaseInv'
    BY <1>4 DEF PhaseInv, Serving
  <2>4. pc[Batcher] # "dead" => Line = log
    <3> SUFFICES ASSUME pc[Batcher] # "dead" PROVE Line = log
      OBVIOUS
    <3>1. Line = SubSeq(log, 1, done) /\ done <= Len(log)
      BY <1>0 DEF LineInv, Complete
    <3>2. done = Len(log)
      BY <1>1, <1>4, <3>1
    <3> QED BY <1>1, <3>1, <3>2, SubSeqFull
  <2>5. Complete'
    BY <1>0, <1>2, <1>4, <2>1, <2>4 DEF Complete
  <2>6. WireFollowsLog'
    BY <1>0, <2>1 DEF LineInv, WireFollowsLog
  <2> QED BY <2>1, <2>2, <2>3, <2>5, <2>6 DEF LineInv, KeepsLine, KeepsLink
<1> QED BY <1>3, <1>4 DEF Fill

LEMMA PreloadKeeps ==
  ASSUME LineInv, Room, Preload
  PROVE  LineInv'
<1>0. phase = "preload" /\ UNCHANGED <<log, made, stage, starts>>
  BY DEF Preload
<1>1. KeepsLine /\ done' \in Nat /\ phase' \in {"preload", "serve"}
  <2>1. CASE /\ done' = done + 1 /\ phase' = phase
             /\ WriteLocked(Main, << <<Main, done'>> >>) \/ WriteUnlocked(Main, << <<Main, done'>> >>)
    <3>1. done' \in Nat /\ Main \in Writers /\ <<Main, done'>> \in Update
      BY <2>1, ProxyAssumption DEF LineInv, ProxyTypeOK, Update
    <3> QED BY <1>0, <2>1, <3>1, BlockingKeeps DEF LineInv
  <2>2. CASE phase' = "serve" /\ done' = 0 /\ UNCHANGED linkVars
    BY <2>2, Unmoved DEF LineInv
  <2> QED BY <2>1, <2>2 DEF Preload
<1>2. ProxyTypeOK'
  BY <1>0, <1>1 DEF LineInv, ProxyTypeOK
<1>3. PhaseInv'
  BY <1>1 DEF PhaseInv, Serving
<1>4. Complete'
  BY <1>0, <1>1 DEF LineInv, Complete, Serving, KeepsLine, KeepsLink
<1>5. WireFollowsLog'
  BY <1>0, <1>1 DEF LineInv, WireFollowsLog, KeepsLine
<1> QED BY <1>1, <1>2, <1>3, <1>4, <1>5 DEF LineInv, KeepsLine, KeepsLink

LEMMA RenewClears ==
  ASSUME Renew, mode \in Modes, mode' = mode
  PROVE  LinkTypeOK' /\ LinkShape' /\ Line' = <<>> /\ pc'[Batcher] = "idle"
<1>0. Batcher \in Threads
  BY DEF Threads
<1>1. pc' = [t \in Threads |-> "idle"] /\ pc'[Batcher] = "idle"
  BY <1>0 DEF Renew
<1>2. batch' = <<>> /\ buffer' = <<>> /\ wire' = <<>> /\ ~started'
  BY DEF Renew
<1>3. LinkTypeOK'
  BY <1>1, EmptySeq DEF LinkTypeOK, Renew, Holders, States
<1>4. LinkShape'
  BY <1>1, <1>2 DEF LinkShape
<1>5. Pending' = <<>>
  BY <1>1, <1>2 DEF Pending
<1>6. Gone' = <<>>
  BY <1>2, UpdatesEmpty, EmptySeq, ConcatEmptySeq DEF Gone
<1> QED BY <1>1, <1>3, <1>4, <1>5, <1>6, LineIs, EmptySeq, ConcatEmptySeq

LEMMA NothingFollows ==
  ASSUME LineInv, Line' = <<>>, log' = log
  PROVE  WireFollowsLog'
<1>1. \A c \in Controllers : Of(c, log) \in Seq(Update)
  BY OfType DEF LineInv, ProxyTypeOK
<1> QED BY <1>1, OfEmpty, PrefixEmpty DEF WireFollowsLog

LEMMA StartFailsKeeps ==
  ASSUME LineInv, StartFails
  PROVE  LineInv'
<1>0. /\ phase \in {"fill", "preload"} /\ phase' = (IF phase = "fill" THEN "down" ELSE "failed")
      /\ done' = 0 /\ UNCHANGED <<log, made, stage, starts>>
  BY DEF StartFails
<1>1. ProxyTypeOK'
  BY <1>0 DEF LineInv, ProxyTypeOK
<1>2. CASE phase = "fill"
  <2>1. LinkTypeOK' /\ LinkShape' /\ Line' = <<>>
    BY <1>2, RenewClears DEF StartFails, LineInv, LinkTypeOK
  <2>2. PhaseInv'
    BY <1>0, <1>2, <2>1 DEF LineInv, PhaseInv, Serving
  <2>3. Complete'
    BY <1>0, <1>2 DEF Complete, Serving
  <2> QED BY <1>0, <1>1, <2>1, <2>2, <2>3, NothingFollows DEF LineInv
<1>3. CASE phase = "preload"
  <2>1. KeepsLine
    BY <1>3, Unmoved DEF StartFails, LineInv
  <2>2. PhaseInv'
    BY <1>0, <1>3 DEF PhaseInv, Serving
  <2>3. Complete'
    BY <1>0, <1>3, <2>1 DEF LineInv, Complete, Serving, KeepsLine, KeepsLink
  <2>4. WireFollowsLog'
    BY <1>0, <2>1 DEF LineInv, WireFollowsLog, KeepsLine
  <2> QED BY <1>1, <2>1, <2>2, <2>3, <2>4 DEF LineInv, KeepsLine, KeepsLink
<1> QED BY <1>0, <1>2, <1>3

LEMMA CrashKeeps ==
  ASSUME LineInv, Crash
  PROVE  LineInv'
<1>0. /\ phase' = "down" /\ done' = 0 /\ stage' = [c \in Controllers |-> "opening"]
      /\ UNCHANGED <<mode, log, made, starts>>
  BY DEF Crash
<1>1. ProxyTypeOK'
  BY <1>0 DEF LineInv, ProxyTypeOK
<1>2. LinkTypeOK' /\ LinkShape' /\ Line' = <<>>
  BY <1>0, RenewClears DEF Crash, LineInv, LinkTypeOK
<1>3. PhaseInv'
  BY <1>0, <1>2 DEF PhaseInv, Serving
<1>4. Complete'
  BY <1>0 DEF Complete, Serving
<1> QED BY <1>0, <1>1, <1>2, <1>3, <1>4, NothingFollows DEF LineInv

LEMMA BackgroundKeepsInv ==
  ASSUME LineInv, Room, Background, UNCHANGED proxyVars
  PROVE  LineInv'
<1>1. UNCHANGED <<log, made, stage, phase, done, starts>>
  BY DEF proxyVars
<1>2. KeepsLine
  BY BackgroundKeeps DEF LineInv
<1>3. ProxyTypeOK'
  BY <1>1 DEF LineInv, ProxyTypeOK
<1>4. PhaseInv'
  BY <1>1, <1>2 DEF LineInv, PhaseInv, Serving, KeepsLine
<1>5. Complete' /\ WireFollowsLog'
  BY <1>1, <1>2, Unaffected
<1> QED BY <1>2, <1>3, <1>4, <1>5 DEF LineInv, KeepsLine, KeepsLink

LEMMA LineInvInit == Init => LineInv
<1> SUFFICES ASSUME Init PROVE LineInv
  OBVIOUS
<1>0. Batcher \in Threads
  BY DEF Threads
<1>1. /\ mode \in Modes /\ batch = <<>> /\ started = FALSE /\ buffer = <<>> /\ level = 0 /\ wire = <<>>
      /\ pit = {} /\ conn = Free /\ stub = Free
      /\ pc = [t \in Threads |-> "idle"] /\ outcome = [t \in Threads |-> "ok"]
      /\ log = <<>> /\ made = [c \in Controllers |-> 0]
      /\ stage = [c \in Controllers |-> "opening"] /\ phase = "down" /\ done = 0 /\ starts = 0
  BY DEF Init, LinkInit, Fresh
<1>2. LinkTypeOK
  BY <1>1, EmptySeq DEF LinkTypeOK, Holders, States
<1>3. LinkShape
  BY <1>0, <1>1 DEF LinkShape
<1>4. ProxyTypeOK
  BY <1>1, EmptySeq DEF ProxyTypeOK
<1>5. Line = <<>>
  <2>1. Pending = <<>> /\ Gone = <<>>
    BY <1>0, <1>1, UpdatesEmpty, EmptySeq, ConcatEmptySeq DEF Pending, Gone
  <2> QED BY <2>1, LineIs, EmptySeq, ConcatEmptySeq
<1>6. PhaseInv
  BY <1>1, <1>5 DEF PhaseInv
<1>7. Complete
  BY <1>1 DEF Complete, Serving
<1>8. WireFollowsLog
  <2>1. log \in Seq(Update) /\ \A c \in Controllers : Of(c, log) \in Seq(Update)
    BY <1>1, EmptySeq, OfType
  <2> QED BY <1>5, <2>1, OfEmpty, PrefixEmpty DEF WireFollowsLog
<1> QED BY <1>2, <1>3, <1>4, <1>6, <1>7, <1>8 DEF LineInv

LEMMA LineInvStep == LineInv /\ Room /\ [Next]_vars => LineInv'
<1> SUFFICES ASSUME LineInv, Room, [Next]_vars PROVE LineInv'
  OBVIOUS
<1>1. CASE \E c \in Controllers : StreamChannel(c) \/ Ask(c) \/ Write(c) \/ Send(c) \/ Answer(c)
  BY <1>1, StreamChannelKeeps, AskKeeps, WriteKeeps, SendKeeps, AnswerKeeps
<1>2. CASE Start
  BY <1>2, StartKeeps
<1>3. CASE Fill
  BY <1>3, FillKeeps
<1>4. CASE Preload
  BY <1>4, PreloadKeeps
<1>5. CASE StartFails
  BY <1>5, StartFailsKeeps
<1>6. CASE Crash
  BY <1>6, CrashKeeps
<1>7. CASE Background /\ UNCHANGED proxyVars
  BY <1>7, BackgroundKeepsInv
<1>8. CASE UNCHANGED vars
  <2>1. UNCHANGED linkVars /\ UNCHANGED <<log, made, stage, phase, done, starts>>
    BY <1>8 DEF vars, proxyVars
  <2>2. KeepsLine
    BY <2>1, Unmoved DEF LineInv
  <2>3. ProxyTypeOK' /\ PhaseInv'
    BY <2>1, <2>2 DEF LineInv, ProxyTypeOK, PhaseInv, Serving, KeepsLine
  <2>4. Complete' /\ WireFollowsLog'
    BY <2>1, <2>2, Unaffected
  <2> QED BY <2>2, <2>3, <2>4 DEF LineInv, KeepsLine, KeepsLink
<1> QED BY <1>1, <1>2, <1>3, <1>4, <1>5, <1>6, <1>7, <1>8 DEF Next

LEMMA LineInvMatches == LineInv => LineMatchesLog
<1> SUFFICES ASSUME LineInv PROVE WireFollowsLog /\ NothingLost
  BY DEF LineMatchesLog
<1>1. NothingLost
  BY DEF LineInv, Complete, NothingLost
<1> QED BY <1>1 DEF LineInv


(***************************************************************************)
(* Types, also of a connection whose buffer overflows.                     *)
(***************************************************************************)
LEMMA TypeInit == Init => TypeOK
BY LineInvInit DEF LineInv, TypeOK

LEMMA TypeStep == TypeOK /\ [Next]_vars => TypeOK'
<1> SUFFICES ASSUME TypeOK, [Next]_vars PROVE TypeOK'
  OBVIOUS
<1>0. LinkTypeOK /\ LinkShape /\ ProxyTypeOK
  BY DEF TypeOK
<1>1. ASSUME UNCHANGED linkVars PROVE LinkTypeOK' /\ LinkShape'
  BY <1>0, <1>1, Unmoved DEF KeepsLine, KeepsLink
<1>2. ASSUME NEW c \in Controllers,
             StreamChannel(c) \/ Ask(c) \/ Answer(c)
      PROVE  TypeOK'
  <2>1. LinkTypeOK' /\ LinkShape'
    BY <1>1, <1>2 DEF StreamChannel, Ask, Answer
  <2>2. ProxyTypeOK'
    BY <1>0, <1>2 DEF StreamChannel, Ask, Answer, ProxyTypeOK
  <2> QED BY <2>1, <2>2 DEF TypeOK
<1>3. ASSUME NEW c \in Controllers, Write(c) PROVE TypeOK'
  <2>1. LinkTypeOK' /\ LinkShape'
    BY <1>1, <1>3 DEF Write
  <2>2. log' \in Seq(Update)
    BY <1>0, <1>3, ControllersUpdate, AppendProperties DEF Write, ProxyTypeOK
  <2>3. ProxyTypeOK'
    BY <1>0, <1>3, <2>2 DEF Write, ProxyTypeOK
  <2> QED BY <2>1, <2>3 DEF TypeOK
<1>4. ASSUME NEW c \in Controllers, Send(c) PROVE TypeOK'
  <2>1. WriteUpdates(c, << <<c, made[c]>> >>) /\ c \in Writers /\ <<c, made[c]>> \in Update
    BY <1>0, <1>4, ControllersUpdate DEF Send
  <2>2. LinkTypeOK' /\ LinkShape'
    BY <1>0, <2>1, WriteUpdatesGrows DEF KeepsLink
  <2>3. ProxyTypeOK'
    BY <1>0, <1>4 DEF Send, ProxyTypeOK
  <2> QED BY <2>2, <2>3 DEF TypeOK
<1>5. CASE Start
  BY <1>0, <1>1, <1>5 DEF Start, ProxyTypeOK, TypeOK
<1>6. CASE Fill
  <2>1. /\ phase' \in {phase, "preload"} /\ done' \in {done + 1, 0} /\ UNCHANGED <<log, made, stage, starts>>
    BY <1>6 DEF Fill
  <2>2. ProxyTypeOK'
    BY <1>0, <2>1 DEF ProxyTypeOK
  <2>3. CASE done < Len(log) /\ done' = done + 1 /\ WriteUpdates(Main, <<log[done']>>)
    <3>1. done + 1 \in 1..Len(log)
      BY <1>0, <2>3, LenProperties DEF ProxyTypeOK
    <3>2. log[done'] \in Update
      BY <1>0, <2>3, <3>1, ElementOfSeq DEF ProxyTypeOK
    <3>3. LinkTypeOK' /\ LinkShape'
      BY <1>0, <2>3, <3>2, WriteUpdatesGrows, ProxyAssumption DEF KeepsLink
    <3> QED BY <2>2, <3>3 DEF TypeOK
  <2>4. CASE UNCHANGED linkVars
    BY <1>1, <2>2, <2>4 DEF TypeOK
  <2> QED BY <1>6, <2>3, <2>4 DEF Fill
<1>7. CASE Preload
  <2>1. /\ phase' \in {phase, "serve"} /\ done' \in {done + 1, 0} /\ UNCHANGED <<log, made, stage, starts>>
    BY <1>7 DEF Preload
  <2>2. ProxyTypeOK'
    BY <1>0, <2>1 DEF ProxyTypeOK
  <2>3. CASE /\ done' = done + 1
             /\ WriteLocked(Main, << <<Main, done'>> >>) \/ WriteUnlocked(Main, << <<Main, done'>> >>)
    <3>1. Main \in Writers /\ <<Main, done'>> \in Update
      BY <2>2, ProxyAssumption DEF ProxyTypeOK, Update
    <3>2. LinkTypeOK' /\ LinkShape'
      BY <1>0, <2>3, <3>1, BlockingKeeps DEF KeepsLink
    <3> QED BY <2>2, <3>2 DEF TypeOK
  <2>4. CASE UNCHANGED linkVars
    BY <1>1, <2>2, <2>4 DEF TypeOK
  <2> QED BY <1>7, <2>3, <2>4 DEF Preload
<1>8. CASE StartFails
  <2>1. LinkTypeOK' /\ LinkShape'
    BY <1>0, <1>1, <1>8, RenewClears DEF StartFails, LinkTypeOK
  <2>2. ProxyTypeOK'
    BY <1>0, <1>8 DEF StartFails, ProxyTypeOK
  <2> QED BY <2>1, <2>2 DEF TypeOK
<1>9. CASE Crash
  <2>1. LinkTypeOK' /\ LinkShape'
    BY <1>0, <1>9, RenewClears DEF Crash, LinkTypeOK
  <2>2. ProxyTypeOK'
    BY <1>0, <1>9 DEF Crash, ProxyTypeOK
  <2> QED BY <2>1, <2>2 DEF TypeOK
<1>10. CASE Background /\ UNCHANGED proxyVars
  <2>1. LinkTypeOK' /\ LinkShape'
    BY <1>0, <1>10, BackgroundKeeps DEF KeepsLink
  <2>2. ProxyTypeOK'
    BY <1>0, <1>10 DEF proxyVars, ProxyTypeOK
  <2> QED BY <2>1, <2>2 DEF TypeOK
<1>11. CASE UNCHANGED vars
  <2>1. LinkTypeOK' /\ LinkShape'
    BY <1>1, <1>11 DEF vars
  <2>2. ProxyTypeOK'
    BY <1>0, <1>11 DEF vars, proxyVars, ProxyTypeOK
  <2> QED BY <2>1, <2>2 DEF TypeOK
<1> QED BY <1>2, <1>3, <1>4, <1>5, <1>6, <1>7, <1>8, <1>9, <1>10, <1>11 DEF Next

\* The line of every connection, with a full buffer too, is made of updates.
THEOREM TypeCorrect == Spec => []TypeOK
BY TypeInit, TypeStep, PTL DEF Spec

(***************************************************************************)
(* A failed write stays in the pit.                                        *)
(***************************************************************************)
LEMMA OnlySendSends ==
  ASSUME TypeOK, [Next]_vars, NEW c \in Controllers, stage[c] = "logged", stage'[c] = "sent"
  PROVE  Send(c)
<1>0. stage \in [Controllers -> {"opening", "open", "asked", "logged", "sent"}]
  BY DEF TypeOK, ProxyTypeOK
<1>1. \A d \in Controllers : ~StreamChannel(d) /\ ~Ask(d) /\ ~Write(d) /\ ~Answer(d)
  BY <1>0 DEF StreamChannel, Ask, Write, Answer
<1>2. \A d \in Controllers : Send(d) => d = c
  BY <1>0 DEF Send
<1>3. ~Start /\ ~Fill /\ ~Preload /\ ~StartFails /\ ~Crash
  BY DEF Start, Fill, Preload, StartFails, Crash
<1>4. ~UNCHANGED proxyVars /\ ~UNCHANGED vars
  BY DEF proxyVars, vars
<1> QED BY <1>1, <1>2, <1>3, <1>4 DEF Next

LEMMA FailStopStep ==
  ASSUME TypeOK, [Next]_vars, NEW c \in Controllers,
         stage[c] = "logged", stage'[c] = "sent", ~mode.batching, ~mode.limited, Failed # {}
  PROVE  outcome'[c] = "error" /\ Failed' # {}
<1> DEFINE cmd == [kind |-> "future", updates |-> << <<c, made[c]>> >>]
<1>1. c \in Threads /\ LinkTypeOK
  BY WriterIsThread DEF Controllers, TypeOK
<1>2. StubCommand(c, cmd, TRUE)
  BY OnlySendSends DEF Send, WriteUpdates
<1>3. Issue(c, cmd, TRUE, c)
  BY <1>2 DEF StubCommand
<1>4. /\ wire' = Append(wire, [kind |-> cmd.kind, updates |-> cmd.updates, by |-> c, status |-> "running"])
      /\ pit' = Pit /\ Leave(c, "error")
  BY <1>3 DEF Issue
<1>5. outcome'[c] = "error"
  BY <1>1, <1>4, LeaveMoves
<1>6. PICK i \in pit : wire[i].status = "failed"
  BY DEF Failed
<1>7. i \in pit'
  BY <1>4, <1>6 DEF Pit
<1>8. wire'[i] = wire[i]
  <2>1. i \in 1..Len(wire)
    BY <1>1, <1>6 DEF LinkTypeOK
  <2> QED BY <1>1, <1>4, <2>1 DEF LinkTypeOK
<1> QED BY <1>5, <1>6, <1>7, <1>8 DEF Failed

\* Without batch and buffer every write that comes after the failure of an
\* earlier one was noticed is answered with an error, for good.
THEOREM FailuresStop == Spec => FailStop
<1>1. TypeOK /\ [Next]_vars =>
        \A c \in Controllers :
          (stage[c] = "logged" /\ stage'[c] = "sent" /\ ~mode.batching /\ ~mode.limited /\ Failed # {})
            => outcome'[c] = "error" /\ Failed' # {}
  BY FailStopStep
<1> QED BY <1>1, TypeCorrect, PTL DEF Spec, FailStop

(***************************************************************************)
(* Room in the buffer.                                                     *)
(***************************************************************************)
BatchInv ==
  /\ pc[Batcher] \in {"callback", "flush", "call", "wait"} => ~started
  /\ started /\ pc[Batcher] = "idle" => batch # <<>>
  /\ pc[Batcher] = "callback" => batch # <<>>

\* What is buffered or waits in the batch.
Load == Len(buffer) + Len(Pending)

LEMMA LoadType ==
  ASSUME LinkTypeOK
  PROVE  Len(buffer) \in Nat /\ Len(Pending) \in Nat /\ Load \in Nat
BY LineTypes, LenProperties DEF Load, LinkTypeOK

LEMMA LoadTypeNext == LinkTypeOK' => Load' \in Nat
<1> SUFFICES ASSUME LinkTypeOK' PROVE Load' \in Nat
  OBVIOUS
<1>0. Batcher \in Threads
  BY DEF Threads
<1>1. Len(buffer') \in Nat /\ Len(batch') \in Nat /\ Len(<<>>) = 0
  BY LenProperties DEF LinkTypeOK
<1>2. Len(Pending') \in Nat
  BY <1>1 DEF Pending
<1> QED BY <1>1, <1>2 DEF Load

LEMMA StubCommandAdds ==
  ASSUME LinkTypeOK, NEW t, NEW cmd \in Command, NEW locking,
         StubCommand(t, cmd, locking)
  PROVE  Len(buffer') <= Len(buffer) + 1
<1>1. Len(buffer) \in Nat /\ buffer \in Seq(Command)
  BY LenProperties DEF LinkTypeOK
<1>2. Len(Pushed(cmd)) <= Len(buffer) + 1
  <2>1. CASE BufferSize = 0
    BY <1>1, <2>1, LenProperties, EmptySeq DEF Pushed
  <2>2. CASE BufferSize # 0 /\ Len(buffer) < BufferSize
    BY <1>1, <2>2, AppendProperties DEF Pushed
  <2>3. CASE BufferSize # 0 /\ ~(Len(buffer) < BufferSize)
    <3>1. buffer # <<>>
      BY <1>1, <2>3, LenProperties, ThreadsAssumption
    <3>2. Tail(buffer) \in Seq(Command) /\ Len(Tail(buffer)) = Len(buffer) - 1
      BY <1>1, <3>1, HeadTailProperties
    <3>3. Len(Append(Tail(buffer), cmd)) = Len(buffer)
      BY <1>1, <3>2, AppendProperties
    <3> QED BY <1>1, <2>3, <3>3 DEF Pushed
  <2> QED BY <2>1, <2>2, <2>3
<1>3. CASE buffer' = buffer
  BY <1>1, <1>3
<1>4. CASE mode.limited /\ buffer' = Pushed(cmd)
  BY <1>2, <1>4
<1> QED BY <1>3, <1>4 DEF StubCommand

\* A step of t that keeps the batch as it is for every other thread.
LEMMA BatchKept ==
  ASSUME LinkTypeOK, LinkShape, BatchInv, NEW t \in Threads, Moves(t), started' = started,
         t = Batcher => ~started
  PROVE  BatchInv'
<1>0. Batcher \in Threads
  BY DEF Threads
<1>1. CASE t = Batcher
  BY <1>1 DEF BatchInv, Moves
<1>2. CASE t # Batcher
  BY <1>0, <1>2 DEF BatchInv, Moves
<1> QED BY <1>1, <1>2

LEMMA PendingKept ==
  ASSUME NEW t \in Threads, Moves(t), t # Batcher \/ pc[t] \in {"flush", "call", "wait"}
  PROVE  Pending' = Pending
<1>0. Batcher \in Threads
  BY DEF Threads
<1>1. CASE t = Batcher
  BY <1>1 DEF Pending, Moves
<1>2. CASE t # Batcher
  BY <1>0, <1>2 DEF Pending, Moves
<1> QED BY <1>1, <1>2

LEMMA BackgroundLoad ==
  ASSUME LinkTypeOK, LinkShape, BatchInv, Background
  PROVE  BatchInv' /\ Load' <= Load
<1> USE LoadType
<1>0. Batcher \in Threads /\ Heart \in Threads /\ Heart # Batcher
  BY ThreadsAssumption DEF Threads
<1>1. ASSUME NEW t \in Threads, FlushTurn(t) PROVE BatchInv' /\ Load' <= Load
  <2>1. pc[t] = "flush" /\ started' = started /\ Moves(t)
    BY <1>1, FlushTurnGoes DEF FlushTurn
  <2>2. BatchInv'
    BY <2>1, BatchKept DEF BatchInv
  <2>3. Pending' = Pending
    BY <2>1, PendingKept
  <2>4. Len(buffer') <= Len(buffer)
    <3>1. CASE buffer # <<>> /\ buffer' = Tail(buffer)
      BY <3>1, HeadTailProperties DEF LinkTypeOK
    <3>2. CASE buffer' = buffer
      BY <3>2
    <3> QED BY <1>1, <3>1, <3>2 DEF FlushTurn
  <2>5. Len(buffer') \in Nat
    BY <1>1, FlushTurnGoes, LenProperties DEF Goes, Fits
  <2> QED BY <2>2, <2>3, <2>4, <2>5 DEF Load
<1>2. ASSUME NEW t \in Threads, Returned(t) PROVE BatchInv' /\ Load' <= Load
  <2>1. /\ pc[t] \in {"call", "wait"} /\ started' = started /\ buffer' = buffer
        /\ Leave(t, "error") \/ Leave(t, "ok") \/ Hold(t, "flush", conn)
    BY <1>2 DEF Returned
  <2>2. Moves(t)
    BY <2>1, LeaveMoves, HoldMoves DEF LinkTypeOK
  <2>3. BatchInv'
    BY <2>1, <2>2, BatchKept DEF BatchInv
  <2>4. Pending' = Pending
    BY <2>1, <2>2, PendingKept
  <2> QED BY <2>1, <2>3, <2>4 DEF Load
<1>3. CASE Heartbeat
  <2>1. Hold(Heart, "flush", conn) /\ started' = started /\ buffer' = buffer
    BY <1>3 DEF Heartbeat
  <2>2. Moves(Heart)
    BY <1>0, <2>1, HoldMoves DEF LinkTypeOK
  <2>3. BatchInv' /\ Pending' = Pending
    BY <1>0, <2>1, <2>2, BatchKept, PendingKept
  <2> QED BY <2>1, <2>3 DEF Load
<1>4. CASE FlushBatch
  <2>1. /\ pc[Batcher] = "idle" /\ started /\ started' = FALSE /\ pc' = [pc EXCEPT ![Batcher] = "callback"]
        /\ batch' = batch /\ buffer' = buffer
    BY <1>4 DEF FlushBatch
  <2>2. pc'[Batcher] = "callback"
    BY <1>0, <2>1 DEF LinkTypeOK
  <2>3. BatchInv'
    BY <2>1, <2>2 DEF BatchInv
  <2>4. Pending' = Pending
    BY <2>1, <2>2 DEF Pending
  <2> QED BY <2>1, <2>3, <2>4 DEF Load
<1>5. CASE BatchCallback
  <2> DEFINE cmd == [kind |-> "future", updates |-> batch]
  <2>1. pc[Batcher] = "callback" /\ StubCommand(Batcher, cmd, TRUE) /\ started' = started
    BY <1>5 DEF BatchCallback
  <2>2. cmd \in Command /\ batch \in Seq(Update)
    BY DEF Command, LinkTypeOK
  <2> HIDE DEF cmd
  <2>3. Moves(Batcher) /\ Len(buffer') <= Len(buffer) + 1
    BY <1>0, <2>1, <2>2, StubCommandGoes, StubCommandAdds
  <2>4. BatchInv'
    BY <1>0, <2>1, <2>3, BatchKept DEF BatchInv
  <2>5. Pending = batch /\ Pending' = <<>> /\ batch # <<>>
    BY <2>1, <2>3 DEF Pending, Moves, BatchInv
  <2>6. Len(Pending) >= 1 /\ Len(Pending') = 0
    BY <2>2, <2>5, EmptySeq, LenProperties
  <2>7. Len(buffer') \in Nat
    BY <1>0, <2>1, <2>2, StubCommandGoes, LenProperties DEF Fits
  <2> QED BY <2>3, <2>4, <2>6, <2>7 DEF Load
<1>6. CASE SwitchAnswers \/ TimePasses
  <2>1. UNCHANGED <<batch, started, buffer, pc>>
    BY <1>6 DEF SwitchAnswers, TimePasses
  <2> QED BY <2>1 DEF BatchInv, Load, Pending
<1> QED BY <1>1, <1>2, <1>3, <1>4, <1>5, <1>6 DEF Background

LEMMA WriteUpdatesLoad ==
  ASSUME LinkTypeOK, LinkShape, BatchInv, NEW t \in Writers, NEW u \in Update, WriteUpdates(t, <<u>>)
  PROVE  BatchInv' /\ Load' <= Load + 1
<1> USE LoadType
<1> DEFINE cmd == [kind |-> "future", updates |-> <<u>>]
<1>0. t \in Threads /\ t # Batcher /\ Batcher \in Threads /\ <<u>> \in Seq(Update) /\ Len(<<u>>) = 1
  BY WriterIsThread DEF Threads
<1>1. cmd \in Command
  BY <1>0 DEF Command
<1>2. CASE ~mode.batching
  <2>1. StubCommand(t, cmd, TRUE) /\ started' = started
    BY <1>2 DEF WriteUpdates
  <2> HIDE DEF cmd
  <2>2. Moves(t) /\ Len(buffer') <= Len(buffer) + 1
    BY <1>0, <1>1, <2>1, StubCommandGoes, StubCommandAdds
  <2>3. BatchInv' /\ Pending' = Pending
    BY <1>0, <2>1, <2>2, BatchKept, PendingKept
  <2>4. Len(buffer') \in Nat
    BY <1>0, <1>1, <2>1, StubCommandGoes, LenProperties DEF Fits
  <2> QED BY <2>2, <2>3, <2>4 DEF Load
<1>3. CASE mode.batching
  <2>1. /\ pc[Batcher] \in {"idle", "dead"} /\ batch' = batch \o <<u>> /\ started' = TRUE
        /\ UNCHANGED <<buffer, pc>>
    BY <1>3 DEF WriteUpdates, AddElements
  <2>2. batch \in Seq(Update) /\ batch' \in Seq(Update) /\ Len(batch') = Len(batch) + 1 /\ Len(batch) \in Nat
    BY <1>0, <2>1, ConcatProperties, LenProperties DEF LinkTypeOK
  <2>3. batch' # <<>>
    BY <2>2, LenProperties, EmptySeq
  <2>4. BatchInv'
    BY <2>1, <2>3 DEF BatchInv
  <2>5. Len(Pending') <= Len(Pending) + 1
    BY <2>1, <2>2, LenProperties, EmptySeq DEF Pending
  <2>6. Len(Pending') \in Nat
    BY <2>1, <2>2, LenProperties, EmptySeq DEF Pending
  <2> QED BY <2>1, <2>4, <2>5, <2>6 DEF Load
<1> QED BY <1>2, <1>3

LEMMA BlockingLoad ==
  ASSUME LinkTypeOK, LinkShape, BatchInv, NEW t \in Writers, NEW u \in Update,
         WriteLocked(t, <<u>>) \/ WriteUnlocked(t, <<u>>)
  PROVE  BatchInv' /\ Load' <= Load + 1
<1> USE LoadType
<1> DEFINE cmd == [kind |-> "blocking", updates |-> <<u>>]
<1>0. t \in Threads /\ t # Batcher /\ <<u>> \in Seq(Update)
  BY WriterIsThread
<1>1. cmd \in Command
  BY <1>0 DEF Command
<1>2. (StubCommand(t, cmd, TRUE) \/ StubCommand(t, cmd, FALSE)) /\ started' = started
  BY DEF WriteLocked, WriteUnlocked
<1> HIDE DEF cmd
<1>3. Moves(t) /\ Len(buffer') <= Len(buffer) + 1 /\ Fits
  BY <1>0, <1>1, <1>2, StubCommandGoes, StubCommandAdds
<1>4. BatchInv' /\ Pending' = Pending
  BY <1>0, <1>2, <1>3, BatchKept, PendingKept
<1>5. Len(buffer') \in Nat
  BY <1>3, LenProperties DEF Fits
<1> QED BY <1>3, <1>4, <1>5 DEF Load

\* The log is no longer than the number of updates asked for, less the ones
\* that are not logged yet.
Counted ==
  /\ IsFiniteSet(Asked) /\ Cardinality(Asked) <= MaxWrites
  /\ Len(log) + Cardinality(At({"asked"})) <= Cardinality(Asked)

LoadInv ==
  /\ phase = "down" => Load = 0
  /\ phase = "fill" => Load <= done /\ done <= Len(log)
  /\ phase = "preload" => Load + Cardinality(At({"logged"})) <= Len(log) + done /\ done <= Preloads
  /\ phase \in {"serve", "failed"} => Load + Cardinality(At({"logged"})) <= Len(log) + Preloads

RoomInv == BatchInv /\ Counted /\ LoadInv

LEMMA AtFinite ==
  ASSUME NEW S
  PROVE  IsFiniteSet(At(S)) /\ Cardinality(At(S)) \in Nat
<1>1. At(S) \subseteq Writers /\ IsFiniteSet(Writers)
  BY ThreadsAssumption DEF At, Controllers
<1> QED BY <1>1, FS_Subset, FS_CardinalityType

LEMMA AtStays ==
  ASSUME ProxyTypeOK, NEW c \in Controllers, NEW r, stage' = [stage EXCEPT ![c] = r],
         NEW x, stage[c] # x, r # x
  PROVE  At({x})' = At({x})
BY DEF At, ProxyTypeOK

LEMMA AtMoves ==
  ASSUME ProxyTypeOK, NEW c \in Controllers, NEW s, NEW r, s # r, stage[c] = s,
         stage' = [stage EXCEPT ![c] = r]
  PROVE  /\ Cardinality(At({s})') = Cardinality(At({s})) - 1
         /\ Cardinality(At({r})') = Cardinality(At({r})) + 1
<1>1. At({s})' = At({s}) \ {c} /\ c \in At({s})
  BY DEF At, ProxyTypeOK
<1>2. At({r})' = At({r}) \cup {c} /\ c \notin At({r})
  BY DEF At, ProxyTypeOK
<1>3. Cardinality(At({s}) \ {c}) = Cardinality(At({s})) - 1
  BY <1>1, AtFinite, FS_RemoveElement
<1>4. Cardinality(At({r}) \cup {c}) = Cardinality(At({r})) + 1
  BY <1>2, AtFinite, FS_AddElement
<1> QED BY <1>1, <1>2, <1>3, <1>4

LEMMA AskedSame == made' = made => Asked' = Asked
BY DEF Asked

LEMMA AskedGrows ==
  ASSUME ProxyTypeOK, Counted, NEW c \in Controllers, made' = [made EXCEPT ![c] = @ + 1]
  PROVE  IsFiniteSet(Asked') /\ Cardinality(Asked') = Cardinality(Asked) + 1
<1> DEFINE u == <<c, made[c] + 1>>
<1>1. made[c] \in Nat /\ made'[c] = made[c] + 1 /\ \A d \in Controllers \ {c} : made'[d] = made[d]
  BY DEF ProxyTypeOK
<1>2. 1..(made[c] + 1) = (1..made[c]) \cup {made[c] + 1} /\ made[c] + 1 \notin 1..made[c]
  BY <1>1
<1>3. u \notin Asked
  BY <1>2 DEF Asked
<1>4. Asked' = Asked \cup {u}
  <2>1. ASSUME NEW x \in Asked' PROVE x \in Asked \cup {u}
    <3>1. PICK d \in Controllers : x \in {d} \X (1..made'[d])
      BY <2>1 DEF Asked
    <3>2. CASE d = c
      BY <1>1, <1>2, <3>1, <3>2 DEF Asked
    <3>3. CASE d # c
      BY <1>1, <3>1, <3>3 DEF Asked
    <3> QED BY <3>2, <3>3
  <2>2. ASSUME NEW x \in Asked \cup {u} PROVE x \in Asked'
    <3>1. CASE x = u
      BY <1>1, <1>2, <3>1 DEF Asked
    <3>2. CASE x \in Asked
      <4>1. PICK d \in Controllers : x \in {d} \X (1..made[d])
        BY <3>2 DEF Asked
      <4>2. x \in {d} \X (1..made'[d])
        <5>1. CASE d = c
          BY <1>1, <1>2, <4>1, <5>1
        <5>2. CASE d # c
          BY <1>1, <4>1, <5>2
        <5> QED BY <5>1, <5>2
      <4> QED BY <4>2 DEF Asked
    <3> QED BY <2>2, <3>1, <3>2
  <2> QED BY <2>1, <2>2
<1> QED BY <1>3, <1>4, FS_AddElement DEF Counted

LEMMA LoadKept == UNCHANGED linkVars => Load' = Load /\ (BatchInv => BatchInv')
BY DEF linkVars, Load, Pending, BatchInv

\* The numbers that the counting is about.
LEMMA Numbers ==
  ASSUME LineInv, RoomInv
  PROVE  /\ Load \in Nat /\ Len(log) \in Nat /\ done \in Nat /\ Preloads \in Nat /\ MaxWrites \in Nat
         /\ Cardinality(At({"asked"})) \in Nat /\ Cardinality(At({"logged"})) \in Nat
         /\ Cardinality(Asked) \in Nat
BY LoadType, LenProperties, AtFinite, FS_CardinalityType, ProxyAssumption
   DEF LineInv, RoomInv, ProxyTypeOK, Counted

LEMMA RoomInvInit == Init => RoomInv
<1> SUFFICES ASSUME Init PROVE RoomInv
  OBVIOUS
<1>0. Batcher \in Threads
  BY DEF Threads
<1>1. pc[Batcher] = "idle" /\ batch = <<>> /\ ~started /\ buffer = <<>>
  BY <1>0 DEF Init, LinkInit, Fresh
<1>2. BatchInv
  BY <1>1 DEF BatchInv
<1>3. Asked = {} /\ At({"asked"}) = {} /\ log = <<>>
  <2>1. \A c \in Controllers : 1..made[c] = {}
    BY DEF Init
  <2>2. Asked = {}
    BY <2>1 DEF Asked
  <2> QED BY <2>2 DEF Init, At
<1>4. Len(log) = 0 /\ MaxWrites \in Nat
  BY <1>3, ProxyAssumption
<1>5. Counted
  BY <1>3, <1>4, FS_EmptySet DEF Counted
<1>6. Load = 0 /\ phase = "down"
  BY <1>1 DEF Load, Pending, Init
<1> QED BY <1>2, <1>5, <1>6 DEF RoomInv, LoadInv

LEMMA StageRoom ==
  ASSUME LineInv, RoomInv, NEW c \in Controllers, StreamChannel(c) \/ Answer(c)
  PROVE  RoomInv'
<1>1. PICK s \in {"opening", "sent"} : stage[c] = s /\ stage' = [stage EXCEPT ![c] = "open"]
  BY DEF StreamChannel, Answer
<1>2. UNCHANGED <<linkVars, log, made, phase, done>>
  BY DEF StreamChannel, Answer
<1>3. At({"asked"})' = At({"asked"}) /\ At({"logged"})' = At({"logged"})
  BY <1>1, AtMoves, AtStays DEF LineInv
<1> QED BY <1>2, <1>3, AskedSame, LoadKept DEF RoomInv, Counted, LoadInv

LEMMA AskRoom ==
  ASSUME LineInv, RoomInv, NEW c \in Controllers, Ask(c)
  PROVE  RoomInv'
<1>1. /\ stage[c] = "open" /\ stage' = [stage EXCEPT ![c] = "asked"]
      /\ made' = [made EXCEPT ![c] = @ + 1] /\ Cardinality(Asked) < MaxWrites
      /\ UNCHANGED <<linkVars, log, phase, done>>
  BY DEF Ask
<1>2. Cardinality(At({"asked"})') = Cardinality(At({"asked"})) + 1 /\ At({"logged"})' = At({"logged"})
  BY <1>1, AtMoves, AtStays DEF LineInv
<1>3. IsFiniteSet(Asked') /\ Cardinality(Asked') = Cardinality(Asked) + 1
  BY <1>1, AskedGrows DEF LineInv, RoomInv
<1>4. Counted'
  BY <1>1, <1>2, <1>3, Numbers DEF RoomInv, Counted
<1> QED BY <1>1, <1>2, <1>4, LoadKept DEF RoomInv, LoadInv

LEMMA WriteRoom ==
  ASSUME LineInv, RoomInv, NEW c \in Controllers, Write(c)
  PROVE  RoomInv'
<1>1. /\ Serving /\ stage[c] = "asked" /\ stage' = [stage EXCEPT ![c] = "logged"]
      /\ log' = Append(log, <<c, made[c]>>) /\ UNCHANGED <<linkVars, made, phase, done>>
  BY DEF Write
<1>2. /\ Cardinality(At({"asked"})') = Cardinality(At({"asked"})) - 1
      /\ Cardinality(At({"logged"})') = Cardinality(At({"logged"})) + 1
  BY <1>1, AtMoves, AtStays DEF LineInv
<1>3. Len(log') = Len(log) + 1
  BY <1>1, ControllersUpdate, AppendProperties DEF LineInv, ProxyTypeOK
<1>4. Counted'
  BY <1>1, <1>2, <1>3, AskedSame, Numbers DEF RoomInv, Counted
<1>5. Load' = Load /\ BatchInv'
  BY <1>1, LoadKept DEF RoomInv
<1>6. CASE phase = "preload"
  BY <1>1, <1>2, <1>3, <1>4, <1>5, <1>6, Numbers DEF RoomInv, LoadInv
<1>7. CASE phase \in {"serve", "failed"}
  BY <1>1, <1>2, <1>3, <1>4, <1>5, <1>7, Numbers DEF RoomInv, LoadInv
<1> QED BY <1>1, <1>6, <1>7 DEF Serving

LEMMA SendRoom ==
  ASSUME LineInv, RoomInv, NEW c \in Controllers, Send(c)
  PROVE  RoomInv'
<1>1. /\ stage[c] = "logged" /\ stage' = [stage EXCEPT ![c] = "sent"]
      /\ WriteUpdates(c, << <<c, made[c]>> >>) /\ UNCHANGED <<log, made, phase, done>>
  BY DEF Send
<1>2. /\ Cardinality(At({"logged"})') = Cardinality(At({"logged"})) - 1
      /\ At({"asked"})' = At({"asked"})
  BY <1>1, AtMoves, AtStays DEF LineInv
<1>3. BatchInv' /\ Load' <= Load + 1
  BY <1>1, WriteUpdatesLoad, ControllersUpdate DEF LineInv, RoomInv, ProxyTypeOK, Controllers
<1>4. LinkTypeOK'
  BY <1>1, WriteUpdatesGrows, ControllersUpdate DEF LineInv, ProxyTypeOK, Controllers, KeepsLink
<1>5. Load' \in Nat
  BY <1>4, LoadTypeNext
<1>6. Serving
  BY <1>1 DEF LineInv, PhaseInv
<1>7. LoadInv'
  BY <1>1, <1>2, <1>3, <1>5, <1>6, Numbers DEF RoomInv, LoadInv, Serving
<1> QED BY <1>1, <1>2, <1>3, <1>7, AskedSame DEF RoomInv, Counted

LEMMA StartRoom ==
  ASSUME LineInv, RoomInv, Start
  PROVE  RoomInv'
<1>1. phase = "down" /\ phase' = "fill" /\ done' = 0 /\ UNCHANGED <<linkVars, log, made, stage>>
  BY DEF Start
<1>2. At({"asked"})' = At({"asked"})
  BY <1>1 DEF At
<1>3. Counted'
  BY <1>1, <1>2, AskedSame DEF RoomInv, Counted
<1>4. Load' = 0
  BY <1>1, LoadKept DEF RoomInv, LoadInv
<1> QED BY <1>1, <1>3, <1>4, LoadKept, Numbers DEF RoomInv, LoadInv

LEMMA FillRoom ==
  ASSUME LineInv, RoomInv, Fill
  PROVE  RoomInv'
<1>1. phase = "fill" /\ UNCHANGED <<log, made, stage>> /\ Load <= done /\ done <= Len(log)
  BY DEF Fill, RoomInv, LoadInv
<1>2. Counted'
  BY <1>1, AskedSame DEF RoomInv, Counted, At
<1>3. CASE done < Len(log) /\ done' = done + 1 /\ WriteUpdates(Main, <<log[done']>>) /\ UNCHANGED phase
  <2>1. log[done'] \in Update
    BY <1>3, Numbers, ElementOfSeq DEF LineInv, ProxyTypeOK
  <2>2. BatchInv' /\ Load' <= Load + 1 /\ LinkTypeOK'
    BY <1>3, <2>1, WriteUpdatesLoad, WriteUpdatesGrows, ProxyAssumption DEF LineInv, RoomInv, KeepsLink
  <2>3. Load' \in Nat
    BY <2>2, LoadTypeNext
  <2>4. LoadInv'
    BY <1>1, <1>3, <2>2, <2>3, Numbers DEF LoadInv
  <2> QED BY <1>2, <2>2, <2>4 DEF RoomInv
<1>4. CASE phase' = "preload" /\ done' = 0 /\ UNCHANGED linkVars
  <2>1. At({"logged"})' = {}
    BY <1>1 DEF LineInv, PhaseInv, Serving, At
  <2>2. Cardinality(At({"logged"})') = 0
    BY <2>1, FS_EmptySet
  <2>3. LoadInv'
    BY <1>1, <1>4, <2>2, LoadKept, Numbers DEF LoadInv
  <2> QED BY <1>2, <1>4, <2>3, LoadKept DEF RoomInv
<1> QED BY <1>3, <1>4 DEF Fill

LEMMA PreloadRoom ==
  ASSUME LineInv, RoomInv, Preload
  PROVE  RoomInv'
<1>1. phase = "preload" /\ UNCHANGED <<log, made, stage>> /\ done <= Preloads
      /\ Load + Cardinality(At({"logged"})) <= Len(log) + done
  BY DEF Preload, RoomInv, LoadInv
<1>2. Counted' /\ At({"logged"})' = At({"logged"})
  BY <1>1, AskedSame DEF RoomInv, Counted, At
<1>3. CASE /\ done < Preloads /\ done' = done + 1 /\ UNCHANGED phase
           /\ WriteLocked(Main, << <<Main, done'>> >>) \/ WriteUnlocked(Main, << <<Main, done'>> >>)
  <2>1. Main \in Writers /\ <<Main, done'>> \in Update
    BY <1>3, Numbers, ProxyAssumption DEF Update
  <2>2. BatchInv' /\ Load' <= Load + 1 /\ LinkTypeOK'
    BY <1>3, <2>1, BlockingLoad, BlockingKeeps DEF LineInv, RoomInv, KeepsLink
  <2>3. Load' \in Nat
    BY <2>2, LoadTypeNext
  <2>4. LoadInv'
    BY <1>1, <1>2, <1>3, <2>2, <2>3, Numbers DEF LoadInv
  <2> QED BY <1>2, <2>2, <2>4 DEF RoomInv
<1>4. CASE phase' = "serve" /\ done' = 0 /\ UNCHANGED linkVars
  <2>1. LoadInv'
    BY <1>1, <1>2, <1>4, LoadKept, Numbers DEF LoadInv
  <2> QED BY <1>2, <1>4, <2>1, LoadKept DEF RoomInv
<1> QED BY <1>3, <1>4 DEF Preload

LEMMA RenewRoom == Renew => BatchInv' /\ Load' = 0
<1> SUFFICES ASSUME Renew PROVE BatchInv' /\ Load' = 0
  OBVIOUS
<1>1. pc'[Batcher] = "idle" /\ batch' = <<>> /\ ~started' /\ buffer' = <<>>
  BY DEF Renew, Threads
<1> QED BY <1>1 DEF BatchInv, Load, Pending

LEMMA StartFailsRoom ==
  ASSUME LineInv, RoomInv, StartFails
  PROVE  RoomInv'
<1>1. UNCHANGED <<log, made, stage>>
  BY DEF StartFails
<1>2. Counted' /\ At({"logged"})' = At({"logged"})
  BY <1>1, AskedSame DEF RoomInv, Counted, At
<1>3. CASE phase = "fill"
  <2>1. phase' = "down" /\ Renew
    BY <1>3 DEF StartFails
  <2> QED BY <1>2, <2>1, RenewRoom DEF RoomInv, LoadInv
<1>4. CASE phase = "preload"
  <2>1. phase' = "failed" /\ UNCHANGED linkVars
    BY <1>4 DEF StartFails
  <2>2. LoadInv'
    BY <1>1, <1>2, <1>4, <2>1, LoadKept, Numbers DEF RoomInv, LoadInv
  <2> QED BY <1>2, <2>1, <2>2, LoadKept DEF RoomInv
<1> QED BY <1>3, <1>4 DEF StartFails

LEMMA CrashRoom ==
  ASSUME LineInv, RoomInv, Crash
  PROVE  RoomInv'
<1>1. phase' = "down" /\ Renew /\ stage' = [c \in Controllers |-> "opening"] /\ UNCHANGED <<log, made>>
  BY DEF Crash
<1>2. At({"asked"})' = {}
  BY <1>1 DEF At
<1>3. Cardinality(At({"asked"})') = 0
  BY <1>2, FS_EmptySet
<1>4. Counted'
  BY <1>1, <1>3, AskedSame, Numbers DEF RoomInv, Counted
<1> QED BY <1>1, <1>4, RenewRoom DEF RoomInv, LoadInv

LEMMA BackgroundRoom ==
  ASSUME LineInv, RoomInv, Background, UNCHANGED proxyVars
  PROVE  RoomInv'
<1>1. UNCHANGED <<log, made, stage, phase, done>>
  BY DEF proxyVars
<1>2. BatchInv' /\ Load' <= Load
  BY BackgroundLoad DEF LineInv, RoomInv
<1>3. LinkTypeOK'
  BY BackgroundKeeps DEF LineInv, KeepsLink
<1>4. Load' \in Nat
  BY <1>3, LoadTypeNext
<1>5. Counted' /\ At({"logged"})' = At({"logged"})
  BY <1>1, AskedSame DEF RoomInv, Counted, At
<1>6. LoadInv'
  BY <1>1, <1>2, <1>4, <1>5, Numbers DEF RoomInv, LoadInv
<1> QED BY <1>2, <1>5, <1>6 DEF RoomInv

LEMMA RoomInvStep == LineInv /\ RoomInv /\ [Next]_vars => RoomInv'
<1> SUFFICES ASSUME LineInv, RoomInv, [Next]_vars PROVE RoomInv'
  OBVIOUS
<1>1. CASE UNCHANGED vars
  <2>1. UNCHANGED <<linkVars, log, made, stage, phase, done>>
    BY <1>1 DEF vars, proxyVars
  <2>2. At({"asked"})' = At({"asked"}) /\ At({"logged"})' = At({"logged"})
    BY <2>1 DEF At
  <2> QED BY <2>1, <2>2, AskedSame, LoadKept DEF RoomInv, Counted, LoadInv
<1> QED BY <1>1, StageRoom, AskRoom, WriteRoom, SendRoom, StartRoom, FillRoom, PreloadRoom,
           StartFailsRoom, CrashRoom, BackgroundRoom DEF Next

\* The buffer has room for all the writes there can be.
Roomy == MaxWrites + Preloads < BufferSize

LEMMA RoomyLeavesRoom ==
  ASSUME LineInv, RoomInv, Roomy
  PROVE  Room
<1>1. Load <= MaxWrites + Preloads
  BY Numbers DEF RoomInv, Counted, LoadInv, LineInv, ProxyTypeOK
<1>2. Len(buffer) <= Load /\ Len(buffer) \in Nat
  BY LoadType DEF Load, LineInv
<1> QED BY <1>1, <1>2, Numbers, ThreadsAssumption DEF Roomy, Room


(***************************************************************************)
(* The line.                                                               *)
(***************************************************************************)
\* Whatever the bounds, as long as the buffer is never full no controller's
\* update is overtaken, sent twice or missing once it has been answered.
THEOREM LineIsLogWhileRoom == Spec /\ []Room => []LineMatchesLog
BY LineInvInit, LineInvStep, LineInvMatches, PTL DEF Spec

\* With a buffer for all the writes there can be it never is, through failed
\* starts, crashes and fills: the line is the log.
THEOREM LineIsLog ==
  ASSUME Roomy
  PROVE  Spec => []LineMatchesLog
<1>1. Init => LineInv /\ RoomInv
  BY LineInvInit, RoomInvInit
<1>2. LineInv /\ RoomInv /\ [Next]_vars => (LineInv /\ RoomInv)'
  BY LineInvStep, RoomInvStep, RoomyLeavesRoom
<1>3. LineInv => LineMatchesLog
  BY LineInvMatches
<1> QED BY <1>1, <1>2, <1>3, PTL DEF Spec

(***************************************************************************)
(* The rate limiter.                                                       *)
(***************************************************************************)
LEMMA RateNumbers == LimiterRate \in Nat /\ LimiterTicks \in Nat \ {0} /\ MaxTime \in Nat
BY LimiterAssumption DEF L!RateAssumption

\* Time that passes in two parts drains what it drains in one.
LEMMA Distributes ==
  ASSUME NEW a \in Nat, NEW b \in Nat, NEW c \in Nat, a <= b, b <= c
  PROVE  /\ (b - a) * LimiterRate \in Nat /\ (c - b) * LimiterRate \in Nat
         /\ (b - a) * LimiterRate + (c - b) * LimiterRate = (c - a) * LimiterRate
<1>1. ASSUME NEW d \in Nat PROVE d * LimiterRate \in Nat
  BY RateNumbers
<1>2. b - a \in Nat /\ c - b \in Nat
  OBVIOUS
<1> QED BY <1>1, <1>2, RateNumbers

LEMMA DrainedBounds ==
  ASSUME L!TypeOK
  PROVE  /\ L!Drained \in Nat /\ L!Drained <= bucket
         /\ bucket <= L!Drained + (now - lastTick) * LimiterRate
         /\ (now - lastTick) * LimiterRate \in Nat
<1>1. (now - lastTick) * LimiterRate \in Nat
  BY Distributes DEF L!TypeOK
<1> QED BY <1>1 DEF L!TypeOK, L!Drained

(***************************************************************************)
(* Types.                                                                  *)
(***************************************************************************)
LEMMA StepTypeOK == L!TypeOK /\ [L!Next]_L!vars => L!TypeOK'
<1> SUFFICES ASSUME L!TypeOK, [L!Next]_L!vars PROVE L!TypeOK'
  OBVIOUS
<1>1. CASE L!Admit
  BY <1>1, DrainedBounds, RateNumbers DEF L!Admit, L!TypeOK
<1>2. CASE L!Refuse
  BY <1>2, DrainedBounds DEF L!Refuse, L!TypeOK
<1>3. CASE L!Tick
  BY <1>3 DEF L!Tick, L!TypeOK
<1>4. CASE L!OpenWindow
  BY <1>4 DEF L!OpenWindow, L!TypeOK
<1>5. CASE UNCHANGED L!vars
  BY <1>5 DEF L!vars, L!TypeOK
<1> QED BY <1>1, <1>2, <1>3, <1>4, <1>5 DEF L!Next

\* The bucket stays a natural number and its clock never runs ahead.
THEOREM LimiterTypeCorrect == L!Spec => []L!TypeOK
<1>1. L!Init => L!TypeOK
  BY DEF L!Init, L!TypeOK
<1> QED BY <1>1, StepTypeOK, PTL DEF L!Spec

(***************************************************************************)
(* The rate.  What a window let through is still in the bucket or has      *)
(* drained since the window was opened, and the bucket is below its brim.  *)
(***************************************************************************)
Account ==
  taken > 0 =>
    /\ opened <= lastTick
    /\ taken * LimiterTicks <= bucket + (lastTick - opened) * LimiterRate
    /\ bucket < LimiterRate * LimiterTicks

LEMMA AccountBounds == L!TypeOK /\ Account => RateBound
<1> SUFFICES ASSUME L!TypeOK, Account, taken > 0
             PROVE  taken * LimiterTicks
                      < LimiterRate * LimiterTicks + (now - opened) * LimiterRate
  BY DEF RateBound, L!RateBound
<1>1. /\ (now - lastTick) * LimiterRate \in Nat /\ (lastTick - opened) * LimiterRate \in Nat
      /\ (lastTick - opened) * LimiterRate + (now - lastTick) * LimiterRate
           = (now - opened) * LimiterRate
  BY Distributes DEF Account, L!TypeOK
<1>2. taken * LimiterTicks \in Int /\ LimiterRate * LimiterTicks \in Int /\ bucket \in Nat
  BY RateNumbers DEF L!TypeOK
<1> QED BY <1>1, <1>2 DEF Account

LEMMA StepAccount == L!TypeOK /\ Account /\ [L!Next]_L!vars => Account'
<1> SUFFICES ASSUME L!TypeOK, Account, [L!Next]_L!vars PROVE Account'
  OBVIOUS
<1>1. CASE L!Admit
  <2>1. /\ bucket' = L!Drained + LimiterTicks /\ lastTick' = now /\ taken' = taken + 1
        /\ opened' = opened /\ now' = now
        /\ L!Drained + LimiterTicks < LimiterRate * LimiterTicks
    BY <1>1 DEF L!Admit, L!IsFit
  <2>2. /\ L!Drained \in Nat /\ bucket \in Nat /\ opened \in 0..now /\ taken \in Nat
        /\ LimiterTicks \in Nat /\ LimiterRate \in Nat
        /\ (taken + 1) * LimiterTicks = taken * LimiterTicks + LimiterTicks
        /\ taken * LimiterTicks \in Nat
    BY DrainedBounds, RateNumbers DEF L!TypeOK
  <2>3. (now - opened) * LimiterRate \in Nat
    BY Distributes DEF L!TypeOK
  <2>4. taken * LimiterTicks <= L!Drained + (now - opened) * LimiterRate
    <3>1. CASE taken = 0
      BY <3>1, <2>2, <2>3, RateNumbers
    <3>2. CASE taken > 0
      <4>1. /\ (now - lastTick) * LimiterRate \in Nat /\ (lastTick - opened) * LimiterRate \in Nat
            /\ (lastTick - opened) * LimiterRate + (now - lastTick) * LimiterRate
                 = (now - opened) * LimiterRate
        BY <3>2, Distributes DEF Account, L!TypeOK
      <4>2. bucket <= L!Drained + (now - lastTick) * LimiterRate
        BY DrainedBounds
      <4>3. taken * LimiterTicks <= bucket + (lastTick - opened) * LimiterRate
        BY <3>2 DEF Account
      <4> QED BY <4>1, <4>2, <4>3, <2>2, <2>3
    <3> QED BY <3>1, <3>2, <2>2
  <2>5. (taken + 1) * LimiterTicks <= L!Drained + LimiterTicks + (now - opened) * LimiterRate
    BY <2>2, <2>3, <2>4
  <2> QED BY <2>1, <2>2, <2>5 DEF Account
<1>2. CASE L!Refuse
  <2>1. /\ bucket' = L!Drained /\ lastTick' = now /\ taken' = taken
        /\ opened' = opened /\ now' = now
    BY <1>2 DEF L!Refuse
  <2> SUFFICES ASSUME taken > 0 PROVE Account'
    BY <2>1 DEF Account
  <2>2. /\ (now - lastTick) * LimiterRate \in Nat /\ (lastTick - opened) * LimiterRate \in Nat
        /\ (lastTick - opened) * LimiterRate + (now - lastTick) * LimiterRate
             = (now - opened) * LimiterRate
    BY Distributes DEF Account, L!TypeOK
  <2>3. /\ L!Drained \in Nat /\ L!Drained <= bucket
        /\ bucket <= L!Drained + (now - lastTick) * LimiterRate
    BY DrainedBounds
  <2>4. /\ taken * LimiterTicks <= bucket + (lastTick - opened) * LimiterRate
        /\ bucket < LimiterRate * LimiterTicks /\ opened <= now
    BY DEF Account, L!TypeOK
  <2>5. taken * LimiterTicks \in Int /\ LimiterRate * LimiterTicks \in Int /\ bucket \in Nat
    BY RateNumbers DEF L!TypeOK
  <2>6. /\ taken * LimiterTicks <= L!Drained + (now - opened) * LimiterRate
        /\ L!Drained < LimiterRate * LimiterTicks
    BY <2>2, <2>3, <2>4, <2>5
  <2> QED BY <2>1, <2>4, <2>6 DEF Account
<1>3. CASE L!Tick
  BY <1>3 DEF L!Tick, Account
<1>4. CASE L!OpenWindow
  BY <1>4 DEF L!OpenWindow, Account
<1>5. CASE UNCHANGED L!vars
  BY <1>5 DEF L!vars, Account
<1> QED BY <1>1, <1>2, <1>3, <1>4, <1>5 DEF L!Next

\* No window of time, however long and wherever it starts, lets more through
\* than the burst and the rate allow.
THEOREM RateIsBounded == L!Spec => []RateBound
<1>1. L!Init => L!TypeOK /\ Account
  BY DEF L!Init, L!TypeOK, Account
<1>2. L!TypeOK /\ Account /\ [L!Next]_L!vars => (L!TypeOK /\ Account)'
  BY StepTypeOK, StepAccount
<1>3. L!TypeOK /\ Account => RateBound
  BY AccountBounds
<1> QED BY <1>1, <1>2, <1>3, PTL DEF L!Spec

(***************************************************************************)
(* Refinement.                                                             *)
(***************************************************************************)
LEMMA StepBucket ==
  L!TypeOK /\ [L!Next]_L!vars => [L!Bucket!Admit \/ L!Bucket!Drain]_L!Drained
<1> SUFFICES ASSUME L!TypeOK, [L!Next]_L!vars
             PROVE  L!Bucket!Admit \/ L!Bucket!Drain \/ L!Drained' = L!Drained
  OBVIOUS
<1> USE DEF L!Bucket!Admit, L!Bucket!Drain, L!Bucket!HasRoom, L!Bucket!DrainedBy
<1>1. L!Drained \in Nat /\ 0 * LimiterRate = 0
  BY DrainedBounds, RateNumbers
<1>2. CASE L!Admit
  <2>1. /\ bucket' = L!Drained + LimiterTicks /\ lastTick' = now /\ now' = now
        /\ L!Drained + LimiterTicks < LimiterRate * LimiterTicks
    BY <1>2 DEF L!Admit, L!IsFit
  <2>2. now' - lastTick' = 0 /\ bucket' - 0 = bucket' /\ ~(bucket' < 0)
    BY <2>1, <1>1, RateNumbers DEF L!TypeOK
  <2>3. L!Drained' = L!Drained + LimiterTicks
    BY <2>1, <2>2, <1>1 DEF L!Drained
  <2> QED BY <2>1, <2>3
<1>3. CASE L!Refuse
  <2>1. bucket' = L!Drained /\ lastTick' = now /\ now' = now
    BY <1>3 DEF L!Refuse
  <2>2. now' - lastTick' = 0 /\ bucket' - 0 = bucket' /\ ~(bucket' < 0)
    BY <2>1, <1>1 DEF L!TypeOK
  <2>3. L!Drained' = L!Drained
    BY <2>1, <2>2, <1>1 DEF L!Drained
  <2> QED BY <2>3
<1>4. CASE L!Tick
  <2>1. bucket' = bucket /\ lastTick' = lastTick /\ now' = now + 1
    BY <1>4 DEF L!Tick
  <2>2. (now - lastTick) * LimiterRate + LimiterRate = (now + 1 - lastTick) * LimiterRate
        /\ (now - lastTick) * LimiterRate \in Nat
    BY DrainedBounds, RateNumbers DEF L!TypeOK
  <2>3. L!Drained' = IF L!Drained < LimiterRate THEN 0 ELSE L!Drained - LimiterRate
    BY <2>1, <2>2, RateNumbers DEF L!Drained, L!TypeOK
  <2> QED BY <2>3
<1>5. CASE L!OpenWindow
  BY <1>5 DEF L!OpenWindow, L!Drained
<1>6. CASE UNCHANGED L!vars
  BY <1>6 DEF L!vars, L!Drained
<1> QED BY <1>2, <1>3, <1>4, <1>5, <1>6 DEF L!Next

\* The limiter that drains when it is looked at is one that drains with time.
THEOREM LazyDrainIsDrain == L!Spec => ImplementsBucket
<1>1. L!Init => L!Bucket!Init
  BY RateNumbers DEF L!Init, L!Bucket!Init, L!Drained
<1>2. L!TypeOK /\ [L!Next]_L!vars => [L!Bucket!Admit \/ L!Bucket!Drain]_L!Drained
  BY StepBucket
<1> QED BY <1>1, <1>2, LimiterTypeCorrect, PTL DEF L!Spec, ImplementsBucket, L!ImplementsBucket, L!Bucket!Spec
=============================================================================
