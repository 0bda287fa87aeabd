-------------------------- MODULE WriteLink_proofs --------------------------
(***************************************************************************)
(* Writes leave a connection in the order they were made, none twice, and  *)
(* none is lost but what a full buffer gives up: for any number of         *)
(* writers, any buffer size and rate, with and without batching, whatever  *)
(* the switch rejects.                                                     *)
(*                                                                         *)
(* What carries the proof is LineStep: every step leaves the line of       *)
(* writes as it is or puts a new write at its end, and may cut one piece   *)
(* out of it.  Both keep a rising line rising.                             *)
(***************************************************************************)
EXTENDS WriteLink, CommunityLaws

Requests == Seq(Seq(Nat))

LEMMA NatAssoc ==
  ASSUME NEW s \in Seq(Nat), NEW t \in Seq(Nat), NEW u \in Seq(Nat)
  PROVE  s \o (t \o u) = (s \o t) \o u
BY ONLY ConcatAssociative, SMTT(30)

(***************************************************************************)
(* Rising sequences.                                                       *)
(***************************************************************************)
Rising(s) == \A i, j \in DOMAIN s : i < j => s[i] < s[j]
UpTo(s, n) == \A i \in DOMAIN s : s[i] <= n

\* What is left when a piece is cut out rises too.
LEMMA Cut ==
  ASSUME NEW u \in Seq(Nat), NEW v \in Seq(Nat), NEW w \in Seq(Nat), NEW n \in Nat,
         Rising((u \o v) \o w), UpTo((u \o v) \o w, n)
  PROVE  Rising(u \o w) /\ UpTo(u \o w, n)
<1> DEFINE s == (u \o v) \o w
           place(i) == IF i <= Len(u) THEN i ELSE i + Len(v)
<1>1. Len(u) \in Nat /\ Len(v) \in Nat /\ Len(w) \in Nat
  BY LenProperties
<1>2. u \o v \in Seq(Nat) /\ Len(u \o v) = Len(u) + Len(v)
  BY ConcatProperties
<1>3. s \in Seq(Nat) /\ Len(s) = Len(u) + Len(v) + Len(w)
  BY <1>2, ConcatProperties
<1>4. /\ u \o w \in Seq(Nat) /\ Len(u \o w) = Len(u) + Len(w)
      /\ DOMAIN (u \o w) = 1..(Len(u) + Len(w)) /\ DOMAIN s = 1..(Len(u) + Len(v) + Len(w))
  BY <1>1, <1>3, ConcatProperties, LenProperties
<1>5. ASSUME NEW i \in DOMAIN (u \o w)
      PROVE  place(i) \in DOMAIN s /\ s[place(i)] = (u \o w)[i]
  <2>1. i \in 1..(Len(u) + Len(w))
    BY <1>4
  <2>2. (u \o w)[i] = IF i <= Len(u) THEN u[i] ELSE w[i - Len(u)]
    BY <2>1, ConcatProperties
  <2>3. CASE i <= Len(u)
    <3>1. i \in 1..(Len(u) + Len(v)) /\ i \in 1..(Len(u) + Len(v) + Len(w))
      BY <1>1, <2>1, <2>3
    <3>2. s[i] = (u \o v)[i]
      BY <1>2, <3>1, ConcatProperties
    <3>3. (u \o v)[i] = u[i]
      BY <2>3, <3>1, ConcatProperties
    <3> QED BY <1>4, <2>2, <2>3, <3>1, <3>2, <3>3
  <2>4. CASE ~ (i <= Len(u))
    <3>1. /\ i + Len(v) \in 1..(Len(u) + Len(v) + Len(w)) /\ ~ (i + Len(v) <= Len(u) + Len(v))
          /\ (i + Len(v)) - (Len(u) + Len(v)) = i - Len(u)
      BY <1>1, <2>1, <2>4
    <3>2. s[i + Len(v)] = w[(i + Len(v)) - (Len(u) + Len(v))]
      BY <1>2, <3>1, ConcatProperties
    <3> QED BY <1>4, <2>2, <2>4, <3>1, <3>2
  <2> QED BY <2>3, <2>4
<1>6. \A i, j \in DOMAIN (u \o w) : i < j => place(i) < place(j)
  BY <1>1, <1>4
<1> HIDE DEF place, s
<1> QED BY <1>5, <1>6 DEF Rising, UpTo, s

LEMMA Grow ==
  ASSUME NEW s \in Seq(Nat), NEW n \in Nat, Rising(s), UpTo(s, n)
  PROVE  /\ s \o <<n + 1>> \in Seq(Nat)
         /\ Rising(s \o <<n + 1>>) /\ UpTo(s \o <<n + 1>>, n + 1)
<1> DEFINE t == Append(s, n + 1)
<1>1. s \o <<n + 1>> = t
  BY AppendIsConcat
<1>2. /\ t \in Seq(Nat) /\ Len(s) \in Nat /\ DOMAIN s = 1..Len(s) /\ DOMAIN t = 1..(Len(s) + 1)
      /\ \A i \in 1..Len(s) : t[i] = s[i] /\ s[i] \in Nat
      /\ t[Len(s) + 1] = n + 1
  BY AppendProperties, LenProperties, ElementOfSeq
<1> HIDE DEF t
<1>3. \A i \in DOMAIN t : i \in 1..Len(s) \/ i = Len(s) + 1
  BY <1>2
<1>4. UpTo(t, n + 1)
  BY <1>2, <1>3 DEF UpTo
<1>5. Rising(t)
  <2> SUFFICES ASSUME NEW i \in DOMAIN t, NEW j \in DOMAIN t, i < j PROVE t[i] < t[j]
    BY DEF Rising
  <2>1. i \in 1..Len(s)
    BY <1>2
  <2>2. t[i] = s[i] /\ s[i] \in Nat /\ s[i] <= n
    BY <1>2, <2>1 DEF UpTo
  <2>3. CASE j \in 1..Len(s)
    BY <1>2, <2>1, <2>3 DEF Rising
  <2>4. CASE j = Len(s) + 1
    BY <1>2, <2>2, <2>4
  <2> QED BY <1>3, <2>3, <2>4
<1> QED BY <1>1, <1>2, <1>4, <1>5

(***************************************************************************)
(* The inductive invariant.                                                *)
(***************************************************************************)
Typed ==
  /\ setup \in Setups
  /\ made \in Nat /\ batch \in Seq(Nat)
  /\ buffer \in Requests /\ wire \in Requests

\* The buffer is used by a rate limiter only, the batch by a batching loop only.
Used ==
  /\ ~setup.batching => batch = <<>>
  /\ ~Limited => buffer = <<>>
  /\ Len(buffer) <= BufferSize

IInv == Typed /\ Used /\ Rising(Line) /\ UpTo(Line, made)

\* What has left the batch.
Gone == FlattenSeq(wire) \o FlattenSeq(buffer)

LEMMA GoneType == Typed => Gone \in Seq(Nat) /\ FlattenSeq(wire) \in Seq(Nat) /\ FlattenSeq(buffer) \in Seq(Nat)
BY FlattenType, ConcatProperties DEF Typed, Gone, Requests

LEMMA Sizes == Typed => BufferSize \in Nat /\ setup.batching \in BOOLEAN /\ Limited \in BOOLEAN
BY LinkAssumption DEF Typed, BufferSize

LEMMA Sent ==
  ASSUME wire \in Requests, NEW r \in Seq(Nat), Send(r)
  PROVE  wire' \in Requests /\ FlattenSeq(wire') = FlattenSeq(wire) \o r
BY FlattenAppend, AppendProperties DEF Send, Requests

\* A turn of a flush on the buffer b moves a request along, if anything.
LEMMA FlushMoves ==
  ASSUME wire \in Requests, NEW a, NEW b \in Requests, Flush(a, b)
  PROVE  /\ wire' \in Requests /\ buffer' \in Requests /\ Len(buffer') <= Len(b)
         /\ Gone' = FlattenSeq(wire) \o FlattenSeq(b)
<1>1. CASE b # <<>> /\ Limit!HasRoom(level)
  <2>1. Head(b) \in Seq(Nat) /\ Tail(b) \in Requests /\ Len(Tail(b)) = Len(b) - 1 /\ Len(b) \in Nat
    BY <1>1, HeadTailProperties, LenProperties DEF Requests
  <2>2. Send(Head(b)) /\ buffer' = Tail(b)
    BY <1>1 DEF Flush
  <2>3. wire' \in Requests /\ FlattenSeq(wire') = FlattenSeq(wire) \o Head(b)
    BY <2>1, <2>2, Sent
  <2>4. FlattenSeq(b) = Head(b) \o FlattenSeq(Tail(b))
    BY <1>1, FlattenHeadTail DEF Requests
  <2>5. FlattenSeq(wire) \o FlattenSeq(b) = (FlattenSeq(wire) \o Head(b)) \o FlattenSeq(Tail(b))
    <3>1. FlattenSeq(wire) \in Seq(Nat) /\ FlattenSeq(Tail(b)) \in Seq(Nat)
      BY <2>1, FlattenType DEF Requests
    <3>2. FlattenSeq(wire) \o (Head(b) \o FlattenSeq(Tail(b))) = (FlattenSeq(wire) \o Head(b)) \o FlattenSeq(Tail(b))
      BY <2>1, <3>1, NatAssoc
    <3> QED BY <2>4, <3>2
  <2> QED BY <2>1, <2>2, <2>3, <2>5 DEF Gone
<1>2. CASE ~ (b # <<>> /\ Limit!HasRoom(level))
  <2>1. wire' = wire /\ buffer' = b
    BY <1>2 DEF Flush
  <2>2. Len(b) \in Nat
    BY LenProperties DEF Requests
  <2> QED BY <2>1, <2>2 DEF Gone
<1> QED BY <1>1, <1>2

\* What Gone becomes when task a hands in the request r: Gone and r, but for a
\* piece that was given up for want of room.
Adds(r) ==
  \E u, v, w \in Seq(Nat) :
    /\ Gone \o r = (u \o v) \o w /\ Gone' = u \o w
    /\ v = <<>> \/ (Len(buffer) = BufferSize /\ v = Head(Append(buffer, r)))

LEMMA StubWriteAdds ==
  ASSUME Typed, Used, NEW a, NEW r \in Seq(Nat), StubWrite(a, r)
  PROVE  /\ wire' \in Requests /\ buffer' \in Requests /\ Len(buffer') <= BufferSize
         /\ ~Limited => buffer' = <<>>
         /\ Adds(r)
<1> DEFINE W == FlattenSeq(wire)
           B == FlattenSeq(buffer)
<1>1. W \in Seq(Nat) /\ B \in Seq(Nat) /\ Gone \in Seq(Nat) /\ Gone = W \o B /\ <<>> \in Seq(Nat)
  BY GoneType, EmptySeq DEF Gone
<1>2. Len(buffer) \in Nat /\ BufferSize \in Nat /\ wire \in Requests /\ buffer \in Requests
  BY Sizes, LenProperties DEF Typed, Requests
<1> HIDE DEF W, B
<1>3. \A s \in Seq(Nat) : s \o <<>> = s /\ <<>> \o s = s
  BY ConcatEmptySeq
<1>4. CASE ~Limited \/ MaySendNow
  <2>1. Send(r) /\ buffer' = buffer /\ buffer = <<>>
    BY <1>4 DEF StubWrite, MaySendNow, Used
  <2>2. wire' \in Requests /\ FlattenSeq(wire') = W \o r
    BY <2>1, <1>2, Sent DEF W
  <2>3. W \o r \in Seq(Nat) /\ B = <<>>
    BY <1>1, <2>1, ConcatProperties, FlattenEmpty DEF B
  <2>4. Gone = W /\ Gone' = W \o r
    BY <1>1, <1>3, <2>1, <2>2, <2>3, FlattenEmpty DEF Gone
  <2>5. Gone \o r = (Gone' \o <<>>) \o <<>> /\ Gone' = Gone' \o <<>> /\ Gone' \in Seq(Nat)
    BY <1>3, <2>3, <2>4
  <2>6. Adds(r)
    BY <1>1, <2>5 DEF Adds
  <2> QED BY <1>2, <2>1, <2>2, <2>6 DEF Used
<1>5. CASE Limited /\ ~MaySendNow
  <2> DEFINE b == Pushed(buffer, r)
  <2>1. Flush(a, b)
    BY <1>5 DEF StubWrite
  <2>2. CASE BufferSize = 0
    <3>1. b = <<>> /\ buffer = <<>> /\ <<>> \in Requests /\ Len(<<>>) = 0
      BY <1>2, <2>2, EmptySeq, LenProperties DEF Pushed, Used, Requests
    <3>2. B = <<>> /\ FlattenSeq(b) = <<>>
      BY <3>1, FlattenEmpty DEF B
    <3>3. wire' \in Requests /\ buffer' \in Requests /\ Len(buffer') <= 0 /\ Gone' = W \o <<>>
      BY <1>2, <2>1, <3>1, <3>2, FlushMoves DEF W
    <3>4. Gone \o r = (W \o r) \o <<>>
      BY <1>1, <1>3, <3>2, ConcatProperties
    <3>5. Head(Append(buffer, r)) = r
      BY <3>1
    <3>6. Adds(r)
      BY <1>1, <2>2, <3>1, <3>3, <3>4, <3>5 DEF Adds
    <3> QED BY <1>2, <1>5, <2>2, <3>3, <3>6 DEF Requests
  <2>3. CASE BufferSize # 0 /\ Len(buffer) < BufferSize
    <3>1. b = Append(buffer, r)
      BY <2>3 DEF Pushed
    <3>2. b \in Requests /\ Len(b) <= BufferSize
      BY <1>2, <2>3, <3>1, AppendProperties DEF Requests
    <3>3. FlattenSeq(b) = B \o r
      BY <1>2, <3>1, FlattenAppend DEF B, Requests
    <3>4. wire' \in Requests /\ buffer' \in Requests /\ Len(buffer') <= Len(b) /\ Gone' = W \o (B \o r)
      BY <1>2, <2>1, <3>2, <3>3, FlushMoves DEF W
    <3>5. Gone' = Gone \o r
      BY <1>1, <3>4, NatAssoc
    <3>6. Gone \o r \in Seq(Nat)
      BY <1>1, ConcatProperties
    <3>7. Gone \o r = (Gone' \o <<>>) \o <<>> /\ Gone' = Gone' \o <<>> /\ Gone' \in Seq(Nat)
      BY <1>3, <3>5, <3>6
    <3>8. Len(buffer') <= BufferSize
      BY <1>2, <3>2, <3>4, LenProperties DEF Requests
    <3>9. Adds(r)
      BY <1>1, <3>7 DEF Adds
    <3> QED BY <1>5, <3>4, <3>8, <3>9
  <2>4. CASE BufferSize # 0 /\ ~ (Len(buffer) < BufferSize)
    <3>1. b = Append(Tail(buffer), r) /\ Len(buffer) = BufferSize /\ buffer # <<>>
      BY <1>2, <2>4 DEF Pushed, Used
    <3>2. /\ Head(buffer) \in Seq(Nat) /\ Tail(buffer) \in Requests
          /\ Len(Tail(buffer)) = BufferSize - 1
      BY <1>2, <3>1, HeadTailProperties DEF Requests
    <3>3. b \in Requests /\ Len(b) = BufferSize
      BY <1>2, <3>1, <3>2, AppendProperties DEF Requests
    <3> DEFINE H == Head(buffer)
               T == FlattenSeq(Tail(buffer))
    <3>4. H \in Seq(Nat) /\ T \in Seq(Nat) /\ T \o r \in Seq(Nat) /\ H \o T \in Seq(Nat)
      BY <3>2, FlattenType, ConcatProperties DEF Requests
    <3>5. FlattenSeq(b) = T \o r /\ B = H \o T
      BY <1>2, <3>1, <3>2, FlattenAppend, FlattenHeadTail DEF B, Requests
    <3>6. wire' \in Requests /\ buffer' \in Requests /\ Len(buffer') <= BufferSize /\ Gone' = W \o (T \o r)
      BY <1>2, <2>1, <3>3, <3>5, FlushMoves DEF W
    <3>7. Head(Append(buffer, r)) = H
      BY <1>2, <3>1, HeadTailAppend, AppendProperties DEF Requests
    <3> HIDE DEF H, T
    <3>8. Gone \o r = (W \o H) \o (T \o r)
      <4>1. Gone = (W \o H) \o T /\ W \o H \in Seq(Nat)
        <5>1. Gone = W \o (H \o T)
          BY <1>1, <3>5
        <5>2. W \o (H \o T) = (W \o H) \o T
          BY <1>1, <3>4, NatAssoc, SMTT(30)
        <5> QED BY <1>1, <3>4, <5>1, <5>2, ConcatProperties
      <4> QED BY <4>1, <3>4, NatAssoc
    <3>9. W \in Seq(Nat) /\ Gone' = W \o (T \o r)
      BY <1>1, <3>6
    <3>10. Adds(r)
      BY <3>1, <3>4, <3>7, <3>8, <3>9 DEF Adds
    <3> QED BY <1>5, <3>6, <3>10
  <2> QED BY <2>2, <2>3, <2>4
<1> QED BY <1>4, <1>5

\* What a step does to the line of writes that are not rejected or given up:
\* nothing, or a new write joins its end, and in either case a piece may go
\* that a full buffer gave up.
LineStep ==
  \E u, v, w \in Seq(Nat) :
    /\ \/ made' = made /\ Line = (u \o v) \o w
       \/ made' = made + 1 /\ Line \o <<made + 1>> = (u \o v) \o w
    /\ Line' = u \o w
    /\ v = <<>> \/ (Len(buffer) = BufferSize /\ v = Oldest)

LEMMA LineType == Typed => Line \in Seq(Nat) /\ Line = Gone \o batch
<1>1. Line = Gone \o batch
  BY DEF Line, Gone
<1> QED BY <1>1, GoneType, ConcatProperties DEF Typed

\* A step that leaves Gone and the batch as they are.
LEMMA LineStays ==
  ASSUME Typed, Gone' = Gone, batch' = batch, made' = made
  PROVE  LineStep
<1>1. Line' = Line
  BY DEF Line, Gone
<1>2. Line = (Line \o <<>>) \o <<>> /\ Line = Line \o <<>> /\ <<>> \in Seq(Nat)
  BY LineType, ConcatEmptySeq, EmptySeq
<1> QED BY <1>1, <1>2, LineType DEF LineStep

LEMMA FlushStep ==
  ASSUME Typed, Used, NEW a, Flush(a, buffer), UNCHANGED <<setup, made, batch>>
  PROVE  Typed' /\ Used' /\ LineStep
<1>1. wire' \in Requests /\ buffer' \in Requests /\ Len(buffer') <= Len(buffer) /\ Gone' = Gone
  BY FlushMoves DEF Typed, Gone
<1>2. Typed'
  BY <1>1 DEF Typed
<1>3. ~Limited => buffer' = <<>>
  <2>1. ASSUME buffer = <<>> PROVE buffer' = <<>>
    BY <2>1 DEF Flush
  <2> QED BY <2>1 DEF Used
<1>4. Len(buffer') <= BufferSize
  <2>1. Len(buffer') \in Nat /\ Len(buffer) \in Nat /\ BufferSize \in Nat
    BY <1>1, Sizes, LenProperties DEF Typed, Requests
  <2> QED BY <1>1, <2>1 DEF Used
<1>5. Used'
  BY <1>3, <1>4 DEF Used, BufferSize
<1> QED BY <1>1, <1>2, <1>5, LineStays

LEMMA StubStep ==
  ASSUME Typed, Used, NEW a, NEW r \in Seq(Nat), StubWrite(a, r),
         setup' = setup, made' \in Nat, batch' = <<>>, r = New,
         \/ made' = made /\ Line = Gone \o r
         \/ made' = made + 1 /\ Line \o <<made + 1>> = Gone \o r
  PROVE  Typed' /\ Used' /\ LineStep
<1>1. PICK u \in Seq(Nat), v \in Seq(Nat), w \in Seq(Nat) :
        /\ Gone \o r = (u \o v) \o w /\ Gone' = u \o w
        /\ v = <<>> \/ (Len(buffer) = BufferSize /\ v = Head(Append(buffer, r)))
  <2>1. Adds(r)
    BY StubWriteAdds
  <2> QED BY <2>1 DEF Adds
<1>2. Typed'
  BY StubWriteAdds, EmptySeq DEF Typed
<1>3. Used'
  BY StubWriteAdds DEF Used, BufferSize
<1>4. Line' = u \o w
  <2>1. u \o w \in Seq(Nat)
    BY ConcatProperties
  <2>2. Line' = (u \o w) \o <<>>
    BY <1>1 DEF Line, Gone
  <2> QED BY <2>1, <2>2, ConcatEmptySeq
<1> QED BY <1>1, <1>2, <1>3, <1>4 DEF LineStep, Oldest

LEMMA NextSteps ==
  ASSUME Typed, Used, [Next]_vars
  PROVE  Typed' /\ Used' /\ LineStep
<1>0. made \in Nat /\ batch \in Seq(Nat) /\ made + 1 \in Nat /\ <<made + 1>> \in Seq(Nat)
  BY DEF Typed
<1>1. ASSUME NEW w \in Writers, WriteUpdates(w) PROVE Typed' /\ Used' /\ LineStep
  <2>1. made' = made + 1 /\ setup' = setup
    BY <1>1 DEF WriteUpdates
  <2>2. CASE setup.batching
    <3>1. batch' = Append(batch, made + 1) /\ UNCHANGED <<buffer, wire>>
      BY <1>1, <2>1, <2>2 DEF WriteUpdates
    <3>2. batch' \in Seq(Nat) /\ batch' = batch \o <<made + 1>>
      BY <1>0, <3>1, AppendProperties, AppendIsConcat
    <3>3. Typed' /\ Used'
      BY <1>0, <2>1, <2>2, <3>1, <3>2 DEF Typed, Used, BufferSize
    <3>4. Line' = Gone \o (batch \o <<made + 1>>)
      BY <3>1, <3>2 DEF Line, Gone
    <3>5. Line' = Line \o <<made + 1>>
      <4>1. Gone \o (batch \o <<made + 1>>) = (Gone \o batch) \o <<made + 1>>
        BY <1>0, GoneType, NatAssoc
      <4> QED BY <3>4, <4>1, LineType
    <3>6. Line' \in Seq(Nat) /\ <<>> \in Seq(Nat)
      BY <3>3, LineType, <3>5, <1>0, ConcatProperties, EmptySeq
    <3>7. Line' = (Line' \o <<>>) \o <<>> /\ Line' = Line' \o <<>>
      BY <3>6, ConcatEmptySeq
    <3> QED BY <2>1, <3>3, <3>5, <3>6, <3>7 DEF LineStep
  <2>3. CASE ~setup.batching
    <3>1. StubWrite(w, <<made + 1>>) /\ batch' = batch /\ batch = <<>>
      BY <1>1, <2>1, <2>3 DEF WriteUpdates, Used
    <3>2. Line = Gone
      BY <3>1, LineType, GoneType, ConcatEmptySeq
    <3>3. New = <<made + 1>>
      BY <2>1, <2>3 DEF New
    <3> QED BY <1>0, <2>1, <3>1, <3>2, <3>3, StubStep
  <2> QED BY <2>2, <2>3
<1>2. CASE BatchTurn
  <2>1. StubWrite(Batcher, batch) /\ batch' = <<>> /\ setup.batching /\ UNCHANGED <<setup, made>>
    BY <1>2 DEF BatchTurn
  <2>2. batch = New
    BY <2>1 DEF New
  <2> QED BY <1>0, <2>1, <2>2, StubStep, LineType
<1>3. CASE HeartTurn
  BY <1>3, FlushStep DEF HeartTurn
<1>4. CASE TimePasses
  BY <1>4, LineStays DEF TimePasses, Typed, Used, Gone, BufferSize
<1>5. ASSUME NEW a \in Tasks, Answered(a) PROVE Typed' /\ Used' /\ LineStep
  <2>1. CASE UNCHANGED <<buffer, wire>>
    BY <1>5, <2>1, LineStays DEF Answered, Typed, Used, Gone, BufferSize
  <2>2. CASE Flush(a, buffer)
    BY <1>5, <2>2, FlushStep DEF Answered
  <2> QED BY <1>5, <2>1, <2>2 DEF Answered
<1>6. ASSUME NEW a \in Tasks, Rejected(a) PROVE Typed' /\ Used' /\ LineStep
  BY <1>6, LineStays DEF Rejected, Typed, Used, Gone, BufferSize
<1>7. CASE UNCHANGED vars
  BY <1>7, LineStays DEF vars, Typed, Used, Gone, BufferSize
<1> QED BY <1>1, <1>2, <1>3, <1>4, <1>5, <1>6, <1>7 DEF Next

LEMMA InitInv == Init => IInv
<1> SUFFICES ASSUME Init PROVE IInv
  OBVIOUS
<1>1. Typed
  BY EmptySeq DEF Init, Typed, Requests
<1>2. Line = <<>>
  BY FlattenEmpty, ConcatEmptySeq, EmptySeq DEF Init, Line
<1>3. Used
  BY <1>1, Sizes, LenProperties DEF Init, Used
<1> QED BY <1>1, <1>2, <1>3 DEF IInv, Rising, UpTo

LEMMA NextInv == IInv /\ [Next]_vars => IInv'
<1> SUFFICES ASSUME IInv, [Next]_vars PROVE IInv'
  OBVIOUS
<1>1. Typed' /\ Used' /\ LineStep
  BY NextSteps DEF IInv
<1>2. PICK u \in Seq(Nat), v \in Seq(Nat), w \in Seq(Nat) :
        /\ \/ made' = made /\ Line = (u \o v) \o w
           \/ made' = made + 1 /\ Line \o <<made + 1>> = (u \o v) \o w
        /\ Line' = u \o w
  BY <1>1 DEF LineStep
<1>3. made \in Nat /\ Line \in Seq(Nat) /\ Rising(Line) /\ UpTo(Line, made)
  BY LineType DEF IInv, Typed
<1>4. Rising((u \o v) \o w) /\ UpTo((u \o v) \o w, made') /\ made' \in Nat
  <2>1. CASE made' = made /\ Line = (u \o v) \o w
    BY <1>3, <2>1
  <2>2. CASE made' = made + 1 /\ Line \o <<made + 1>> = (u \o v) \o w
    <3>1. Rising(Line \o <<made + 1>>) /\ UpTo(Line \o <<made + 1>>, made + 1)
      BY <1>3, Grow
    <3>2. Rising((u \o v) \o w) /\ UpTo((u \o v) \o w, made')
      BY <2>2, <3>1, Zenon
    <3> QED BY <1>3, <2>2, <3>2
  <2> QED BY <1>2, <2>1, <2>2
<1>5. Rising(u \o w) /\ UpTo(u \o w, made')
  BY <1>4, Cut
<1> QED BY <1>1, <1>2, <1>5 DEF IInv, Rising, UpTo

\* The requests of one connection leave it in the order in which the proxy made
\* its writes, and none of them twice, whichever task sends them.
THEOREM WritesKeepOrder == Spec => []InOrder
<1>1. IInv => InOrder
  BY DEF IInv, Rising, InOrder
<1> QED BY <1>1, InitInv, NextInv, PTL DEF Spec

\* No step of any task loses a write on its way to the wire, except for the
\* oldest request of a buffer that is full.
THEOREM OnlyAFullBufferDrops == Spec => DropsOnlyWhenFull
<1> DEFINE Drop == Len(Line') - made' < Len(Line) - made =>
                     /\ Len(buffer) = BufferSize
                     /\ Len(Line') - made' = Len(Line) - made - Len(Oldest)
<1>1. IInv /\ [Next]_vars => [Drop]_vars
  <2> SUFFICES ASSUME IInv, [Next]_vars PROVE Drop
    OBVIOUS
  <2>1. PICK u \in Seq(Nat), v \in Seq(Nat), w \in Seq(Nat) :
          /\ \/ made' = made /\ Line = (u \o v) \o w
             \/ made' = made + 1 /\ Line \o <<made + 1>> = (u \o v) \o w
          /\ Line' = u \o w
          /\ v = <<>> \/ (Len(buffer) = BufferSize /\ v = Oldest)
    BY NextSteps DEF IInv, LineStep
  <2>2. made \in Nat /\ Line \in Seq(Nat)
    BY LineType DEF IInv, Typed
  <2>3. Len(u) \in Nat /\ Len(v) \in Nat /\ Len(w) \in Nat /\ Len(Line) \in Nat
    BY <2>2, LenProperties
  <2>4. Len(u \o w) = Len(u) + Len(w) /\ Len((u \o v) \o w) = Len(u) + Len(v) + Len(w)
    BY ConcatProperties
  <2>5. Len(Line \o <<made + 1>>) = Len(Line) + 1
    BY <2>2, ConcatProperties, LenProperties
  <2>6. Len(Line') = Len(u) + Len(w)
    BY <2>1, <2>4
  <2>7. Len(Line) - made = (Len(Line') + Len(v)) - made'
    <3> DEFINE U == Len(u)  V == Len(v)  X == Len(w)  L == Len(Line)  M == Len(Line')
    <3>1. \/ made' = made /\ L = U + V + X
          \/ made' = made + 1 /\ L + 1 = U + V + X
      BY <2>1, <2>4, <2>5
    <3>2. U \in Nat /\ V \in Nat /\ X \in Nat /\ L \in Nat /\ M = U + X
      BY <2>3, <2>6
    <3> HIDE DEF U, V, X, L, M
    <3>3. L - made = (M + V) - made'
      BY <2>2, <3>1, <3>2
    <3> QED BY <3>3 DEF V, L, M
  <2>8. v = <<>> => Len(v) = 0
    BY LenProperties
  <2>9. CASE v = <<>>
    BY <2>1, <2>2, <2>3, <2>6, <2>7, <2>8, <2>9
  <2>10. CASE Len(buffer) = BufferSize /\ v = Oldest
    BY <2>1, <2>2, <2>3, <2>6, <2>7, <2>10, SMTT(30)
  <2> QED BY <2>1, <2>9, <2>10
<1> QED BY <1>1, InitInv, NextInv, PTL DEF Spec, DropsOnlyWhenFull
=============================================================================
