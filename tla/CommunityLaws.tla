--------------------------- MODULE CommunityLaws ---------------------------
(***************************************************************************)
(* Laws of the operators that several components are described with:       *)
(* beginnings of sequences (IsPrefix), sequences put together (FlattenSeq),*)
(* sums over finite sets (MapThenSumSet), sets taken in some order         *)
(* (SetToSeq), clocks that wrap around (%), powers of two and the digits   *)
(* that division by them gives.  The community modules define them by      *)
(* recursion and by choice; each law is for all sequences, all finite sets *)
(* and all numbers.                                                        *)
(***************************************************************************)
EXTENDS Integers, Sequences, SequencesExt, FiniteSetsExt,
        SequenceTheorems, WellFoundedInduction, FiniteSetTheorems, TLAPS

(***************************************************************************)
(* Induction over the natural numbers, by the least counterexample.        *)
(***************************************************************************)
LEMMA Least ==
  ASSUME NEW S, S \subseteq Nat, S # {}
  PROVE  \E n \in S : \A m \in S : n <= m
<1> DEFINE R == {p \in Nat \X Nat : p[1] < p[2]}
<1>1. IsWellFoundedOn(R, Nat)
  <2> SUFFICES ASSUME NEW f \in [Nat -> Nat], \A n \in Nat : <<f[n + 1], f[n]>> \in R PROVE FALSE
    BY DEF IsWellFoundedOn
  <2> QED BY NatLessThanWellFounded DEF IsWellFoundedOn, OpToRel
<1> HIDE DEF R
<1>2. PICK n \in S : \A m \in S : ~ (<<m, n>> \in R)
  BY <1>1, WFMin
<1>3. \A m \in S : <<m, n>> \in Nat \X Nat
  OBVIOUS
<1>4. \A m \in S : ~ (m < n)
  BY <1>2, <1>3 DEF R
<1> QED BY <1>4

LEMMA Induction ==
  ASSUME NEW S, 0 \in S, \A n \in Nat : n \in S => n + 1 \in S
  PROVE  Nat \subseteq S
<1> SUFFICES ASSUME Nat \ S # {} PROVE FALSE
  OBVIOUS
<1>1. PICK n \in Nat \ S : \A m \in Nat \ S : n <= m
  BY Least
<1> QED BY <1>1, n - 1 \in Nat

LEMMA Assoc ==
  ASSUME NEW E, NEW s \in Seq(E), NEW t \in Seq(E), NEW u \in Seq(E)
  PROVE  s \o (t \o u) = (s \o t) \o u
BY ONLY ConcatAssociative, SMTT(30)

(***************************************************************************)
(* Beginnings of sequences.                                                *)
(***************************************************************************)
LEMMA PrefixByPlace ==
  ASSUME NEW E, NEW s \in Seq(E), NEW t \in Seq(E)
  PROVE  IsPrefix(s, t) <=> Len(s) <= Len(t) /\ \A i \in 1..Len(s) : s[i] = t[i]
<1>0. Len(s) \in Nat /\ Len(t) \in Nat
  BY LenProperties
<1> SUFFICES ASSUME Len(s) <= Len(t)
             PROVE  SubSeq(s, 1, Len(s)) = SubSeq(t, 1, Len(s)) <=> \A i \in 1..Len(s) : s[i] = t[i]
  BY DEF IsPrefix
<1> DEFINE a == SubSeq(s, 1, Len(s))
           b == SubSeq(t, 1, Len(s))
<1>1. /\ a \in Seq(E) /\ Len(a) = Len(s)
      /\ \A i \in 1..Len(s) : a[i] = s[i]
  <2>1. \A i \in 1..Len(s) : s[i] \in E
    BY ElementOfSeq
  <2> QED BY <1>0, <2>1, SubSeqProperties
<1>2. /\ b \in Seq(E) /\ Len(b) = Len(s)
      /\ \A i \in 1..Len(s) : b[i] = t[i]
  <2>1. \A i \in 1..Len(s) : t[i] \in E
    BY <1>0, ElementOfSeq
  <2> QED BY <1>0, <2>1, SubSeqProperties
<1> HIDE DEF a, b
<1>3. ASSUME \A i \in 1..Len(s) : s[i] = t[i] PROVE a = b
  BY <1>1, <1>2, <1>3, SeqEqual
<1>4. ASSUME a = b PROVE \A i \in 1..Len(s) : s[i] = t[i]
  BY <1>1, <1>2, <1>4
<1> QED BY <1>3, <1>4 DEF a, b

LEMMA PrefixOfSelf == ASSUME NEW E, NEW s \in Seq(E) PROVE IsPrefix(s, s)
BY PrefixByPlace, LenProperties

LEMMA PrefixOfMore ==
  ASSUME NEW E, NEW s \in Seq(E), NEW t \in Seq(E), NEW u \in Seq(E), IsPrefix(s, t)
  PROVE  IsPrefix(s, t \o u)
<1>1. Len(s) \in Nat /\ Len(t) \in Nat /\ Len(u) \in Nat
  BY LenProperties
<1>2. Len(s) <= Len(t) /\ \A i \in 1..Len(s) : s[i] = t[i]
  BY PrefixByPlace
<1>3. /\ t \o u \in Seq(E) /\ Len(t \o u) = Len(t) + Len(u)
      /\ \A i \in 1..Len(t) : (t \o u)[i] = t[i]
  <2>1. \A i \in 1..Len(t) : i \in 1..(Len(t) + Len(u)) /\ i <= Len(t)
    BY <1>1
  <2> QED BY <2>1, ConcatProperties
<1>4. Len(s) <= Len(t \o u)
  BY <1>1, <1>2, <1>3
<1>5. \A i \in 1..Len(s) : s[i] = (t \o u)[i]
  BY <1>1, <1>2, <1>3
<1> QED BY <1>3, <1>4, <1>5, PrefixByPlace

LEMMA PrefixOfAppend ==
  ASSUME NEW E, NEW s \in Seq(E), NEW t \in Seq(E), NEW e \in E, IsPrefix(s, t)
  PROVE  IsPrefix(s, Append(t, e))
<1>1. <<e>> \in Seq(E) /\ Append(t, e) = t \o <<e>>
  BY AppendIsConcat
<1> QED BY <1>1, PrefixOfMore

\* Of two beginnings of a sequence one begins the other.
LEMMA OneOfTwoPrefixes ==
  ASSUME NEW E, NEW p \in Seq(E), NEW q \in Seq(E), NEW w \in Seq(E), IsPrefix(p, w), IsPrefix(q, w)
  PROVE  IsPrefix(p, q) \/ IsPrefix(q, p)
<1>1. /\ Len(p) \in Nat /\ Len(q) \in Nat
      /\ \A i \in 1..Len(p) : p[i] = w[i]
      /\ \A i \in 1..Len(q) : q[i] = w[i]
  BY PrefixByPlace, LenProperties
<1>2. CASE Len(p) <= Len(q)
  <2>1. \A i \in 1..Len(p) : p[i] = q[i]
    BY <1>1, <1>2
  <2> QED BY <1>2, <2>1, PrefixByPlace
<1>3. CASE Len(q) <= Len(p)
  <2>1. \A i \in 1..Len(q) : q[i] = p[i]
    BY <1>1, <1>3
  <2> QED BY <1>3, <2>1, PrefixByPlace
<1> QED BY <1>1, <1>2, <1>3

LEMMA PrefixEmpty == ASSUME NEW E, NEW t \in Seq(E) PROVE IsPrefix(<<>>, t)
<1>1. <<>> \in Seq(E) /\ Len(<<>>) = 0 /\ Len(t) \in Nat
  BY EmptySeq, LenProperties
<1> DEFINE s == <<>>
<1>2. s \in Seq(E) /\ Len(s) <= Len(t) /\ \A i \in 1..Len(s) : s[i] = t[i]
  BY <1>1
<1> HIDE DEF s
<1>3. IsPrefix(s, t)
  BY <1>2, PrefixByPlace
<1> QED BY <1>3 DEF s

(***************************************************************************)
(* Flat.                                                                   *)
(***************************************************************************)
\* The function that Flat computes for a sequence of requests.
IsFlatOf(F, rs) ==
  F = [n \in 0..Len(rs) |-> IF n = 0 THEN <<>> ELSE F[n - 1] \o rs[n]]

FlatOf(rs) == CHOOSE F : IsFlatOf(F, rs)

Flat(rs) == FlatOf(rs)[Len(rs)]

\* It is there for every sequence, and one request at the end adds one value.
LEMMA FlatExists ==
  ASSUME NEW E, NEW rs \in Seq(Seq(E))
  PROVE  IsFlatOf(FlatOf(rs), rs)
<1> DEFINE Is(F, m) == F = [n \in 0..m |-> IF n = 0 THEN <<>> ELSE F[n - 1] \o rs[n]]
           S == {m \in Nat : m <= Len(rs) => \E F : Is(F, m)}
<1>0. Len(rs) \in Nat
  BY LenProperties
<1>1. 0 \in S
  <2>1. Is([n \in 0..0 |-> <<>>], 0)
    OBVIOUS
  <2> QED BY <2>1
<1>2. ASSUME NEW m \in Nat, NEW F, Is(F, m) PROVE \E G : Is(G, m + 1)
  <2> DEFINE G == [n \in 0..(m + 1) |-> IF n = m + 1 THEN F[m] \o rs[m + 1] ELSE F[n]]
  <2>1. \A n \in 0..m : G[n] = F[n]
    OBVIOUS
  <2>2. G[m + 1] = G[m] \o rs[m + 1]
    <3>0. m + 1 \in 0..(m + 1)
      OBVIOUS
    <3>1. G[m + 1] = F[m] \o rs[m + 1]
      BY <3>0, Zenon
    <3>2. G[m] = F[m]
      BY <2>1
    <3> QED BY <3>1, <3>2
  <2>3. \A n \in 0..m : G[n] = IF n = 0 THEN <<>> ELSE G[n - 1] \o rs[n]
    <3> TAKE n \in 0..m
    <3>1. F[n] = IF n = 0 THEN <<>> ELSE F[n - 1] \o rs[n]
      BY <1>2
    <3>2. n # 0 => n - 1 \in 0..m
      OBVIOUS
    <3> HIDE DEF G
    <3> QED BY <2>1, <3>1, <3>2
  <2>4. G = [n \in 0..(m + 1) |-> G[n]]
    OBVIOUS
  <2> HIDE DEF G
  <2>5. \A n \in 0..(m + 1) : G[n] = IF n = 0 THEN <<>> ELSE G[n - 1] \o rs[n]
    <3> TAKE n \in 0..(m + 1)
    <3>1. n \in 0..m \/ n = m + 1
      OBVIOUS
    <3>2. m + 1 # 0 /\ (m + 1) - 1 = m
      OBVIOUS
    <3> QED BY <2>2, <2>3, <3>1, <3>2
  <2>6. Is(G, m + 1)
    BY <2>4, <2>5
  <2> QED BY <2>6
<1> HIDE DEF Is
<1>3. \A m \in Nat : m \in S => m + 1 \in S
  BY <1>0, <1>2
<1>4. Len(rs) \in S
  <2> HIDE DEF S
  <2> QED BY <1>0, <1>1, <1>3, Induction
<1>5. \E F : Is(F, Len(rs))
  BY <1>0, <1>4
<1>6. \E F : IsFlatOf(F, rs)
  BY <1>5 DEF IsFlatOf, Is
<1> QED BY <1>6 DEF FlatOf


LEMMA FlatSteps ==
  ASSUME NEW E, NEW rs \in Seq(Seq(E))
  PROVE  /\ FlatOf(rs)[0] = <<>>
         /\ \A n \in 1..Len(rs) : FlatOf(rs)[n] = FlatOf(rs)[n - 1] \o rs[n]
<1> DEFINE F == FlatOf(rs)
<1>1. F = [n \in 0..Len(rs) |-> IF n = 0 THEN <<>> ELSE F[n - 1] \o rs[n]]
  BY FlatExists DEF IsFlatOf
<1> HIDE DEF F
<1>2. Len(rs) \in Nat
  BY LenProperties
<1>3. F[0] = <<>>
  BY <1>1, <1>2
<1>4. ASSUME NEW n \in 1..Len(rs) PROVE F[n] = F[n - 1] \o rs[n]
  <2>1. n \in 0..Len(rs) /\ n # 0
    BY <1>2
  <2> QED BY <1>1, <2>1, Zenon
<1> QED BY <1>3, <1>4 DEF F

\* Whatever function takes the same steps ends with the same sequence.
LEMMA FlatUnique ==
  ASSUME NEW E, NEW rs \in Seq(Seq(E)), NEW G, G[0] = <<>>,
         \A n \in 1..Len(rs) : G[n] = G[n - 1] \o rs[n]
  PROVE  G[Len(rs)] = Flat(rs)
<1> DEFINE S == {m \in Nat : m <= Len(rs) => G[m] = FlatOf(rs)[m]}
<1>1. Len(rs) \in Nat
  BY LenProperties
<1>2. 0 \in S
  BY FlatSteps
<1>3. ASSUME NEW m \in Nat, m \in S PROVE m + 1 \in S
  <2> SUFFICES ASSUME m + 1 <= Len(rs) PROVE G[m + 1] = FlatOf(rs)[m + 1]
    OBVIOUS
  <2>1. m + 1 \in 1..Len(rs) /\ (m + 1) - 1 = m /\ m <= Len(rs)
    BY <1>1
  <2>2. G[m] = FlatOf(rs)[m]
    BY <1>3, <2>1
  <2> QED BY <2>1, <2>2, FlatSteps
<1>4. Len(rs) \in S
  <2> HIDE DEF S
  <2> QED BY <1>1, <1>2, <1>3, Induction
<1> QED BY <1>1, <1>4 DEF Flat

LEMMA FlatPartType ==
  ASSUME NEW E, NEW rs \in Seq(Seq(E))
  PROVE  \A n \in 0..Len(rs) : FlatOf(rs)[n] \in Seq(E)
<1> DEFINE S == {m \in Nat : m <= Len(rs) => FlatOf(rs)[m] \in Seq(E)}
<1>1. Len(rs) \in Nat
  BY LenProperties
<1>2. 0 \in S
  BY FlatSteps, EmptySeq
<1>3. ASSUME NEW m \in Nat, m \in S PROVE m + 1 \in S
  <2> SUFFICES ASSUME m + 1 <= Len(rs) PROVE FlatOf(rs)[m + 1] \in Seq(E)
    OBVIOUS
  <2>1. m + 1 \in 1..Len(rs) /\ (m + 1) - 1 = m /\ m <= Len(rs)
    BY <1>1
  <2>2. FlatOf(rs)[m] \in Seq(E)
    BY <1>3, <2>1
  <2>3. rs[m + 1] \in Seq(E)
    BY <2>1, ElementOfSeq
  <2>4. FlatOf(rs)[m + 1] = FlatOf(rs)[m] \o rs[m + 1]
    BY <2>1, FlatSteps
  <2> QED BY <2>2, <2>3, <2>4, ConcatProperties
<1>4. Nat \subseteq S
  <2> HIDE DEF S
  <2> QED BY <1>2, <1>3, Induction
<1> QED BY <1>1, <1>4

LEMMA FlatType == ASSUME NEW E, NEW rs \in Seq(Seq(E)) PROVE Flat(rs) \in Seq(E)
<1>1. Len(rs) \in 0..Len(rs)
  BY LenProperties
<1>2. FlatOf(rs)[Len(rs)] \in Seq(E)
  BY <1>1, FlatPartType
<1> QED BY <1>2 DEF Flat

LEMMA FlatEmpty == Flat(<<>>) = <<>>
<1>1. <<>> \in Seq(Seq({})) /\ Len(<<>>) = 0
  BY EmptySeq, LenProperties
<1> QED BY <1>1, FlatSteps DEF Flat

LEMMA FlatAppend ==
  ASSUME NEW E, NEW rs \in Seq(Seq(E)), NEW r \in Seq(E)
  PROVE  Flat(Append(rs, r)) = Flat(rs) \o r
<1> DEFINE more == Append(rs, r)
           G == FlatOf(more)
<1>1. /\ more \in Seq(Seq(E)) /\ Len(rs) \in Nat /\ Len(more) = Len(rs) + 1
      /\ \A n \in 1..Len(rs) : more[n] = rs[n]
      /\ more[Len(rs) + 1] = r
  BY AppendProperties, LenProperties
<1> HIDE DEF more
<1>2. G[0] = <<>> /\ \A n \in 1..Len(more) : G[n] = G[n - 1] \o more[n]
  BY <1>1, FlatSteps
<1> HIDE DEF G
<1>3. ASSUME NEW n \in 1..Len(rs) PROVE G[n] = G[n - 1] \o rs[n]
  <2>1. n \in 1..Len(more)
    BY <1>1
  <2> QED BY <1>1, <1>2, <2>1
<1>4. G[Len(rs)] = Flat(rs)
  BY <1>2, <1>3, FlatUnique
<1>5. G[Len(rs) + 1] = G[Len(rs)] \o r
  <2>1. Len(rs) + 1 \in 1..Len(more) /\ (Len(rs) + 1) - 1 = Len(rs)
    BY <1>1
  <2> QED BY <1>1, <1>2, <2>1
<1>6. Flat(more) = G[Len(rs) + 1]
  BY <1>1 DEF Flat, G
<1> QED BY <1>4, <1>5, <1>6 DEF more

LEMMA FlatHeadTail ==
  ASSUME NEW E, NEW rs \in Seq(Seq(E)), rs # <<>>
  PROVE  Flat(rs) = Head(rs) \o Flat(Tail(rs))
<1> DEFINE rest == Tail(rs)
           F == FlatOf(rest)
           G == [n \in 0..Len(rs) |-> IF n = 0 THEN <<>> ELSE Head(rs) \o F[n - 1]]
<1>1. /\ Len(rs) \in Nat \ {0} /\ Head(rs) \in Seq(E) /\ Head(rs) = rs[1]
      /\ rest \in Seq(Seq(E)) /\ Len(rest) = Len(rs) - 1
      /\ \A n \in 1..Len(rest) : rest[n] = rs[n + 1]
  BY HeadTailProperties, LenProperties, EmptySeq
<1>2. \A n \in 1..Len(rs) : rs[n] \in Seq(E)
  BY ElementOfSeq
<1> HIDE DEF rest
<1>3. F[0] = <<>> /\ \A n \in 1..Len(rest) : F[n] = F[n - 1] \o rest[n]
  BY <1>1, FlatSteps
<1>4. \A n \in 0..Len(rest) : F[n] \in Seq(E)
  BY <1>1, FlatPartType
<1> HIDE DEF F
<1>5. G[0] = <<>>
  <2>1. 0 \in 0..Len(rs)
    BY <1>1
  <2> QED BY <2>1, Zenon
<1>6. \A n \in 1..Len(rs) : G[n] = Head(rs) \o F[n - 1]
  <2>1. \A n \in 1..Len(rs) : n \in 0..Len(rs) /\ n # 0
    BY <1>1
  <2> QED BY <2>1, Zenon
<1> HIDE DEF G
<1>7. ASSUME NEW n \in 1..Len(rs) PROVE G[n] = G[n - 1] \o rs[n]
  <2>1. CASE n = 1
    <3>1. 1 \in 1..Len(rs) /\ 1 - 1 = 0
      BY <1>1
    <3>2. G[1] = Head(rs) \o <<>>
      BY <1>3, <1>6, <3>1
    <3>3. Head(rs) \o <<>> = Head(rs) /\ <<>> \o Head(rs) = Head(rs)
      BY <1>1, ConcatEmptySeq
    <3>4. G[n] = G[1] /\ G[n - 1] = <<>> /\ rs[n] = Head(rs)
      BY <1>1, <1>5, <2>1, <3>1
    <3> QED BY <3>2, <3>3, <3>4
  <2>2. CASE n # 1
    <3>1. n - 1 \in 1..Len(rest) /\ n - 1 \in 1..Len(rs) /\ (n - 1) - 1 \in 0..Len(rest) /\ (n - 1) + 1 = n
      BY <1>1, <2>2
    <3>2. F[n - 1] = F[(n - 1) - 1] \o rs[n]
      BY <1>1, <1>3, <3>1
    <3>3. G[n] = Head(rs) \o (F[(n - 1) - 1] \o rs[n])
      BY <1>6, <3>2
    <3>4. G[n - 1] = Head(rs) \o F[(n - 1) - 1]
      BY <1>6, <3>1
    <3>5. Head(rs) \in Seq(E) /\ F[(n - 1) - 1] \in Seq(E) /\ rs[n] \in Seq(E)
      BY <1>1, <1>2, <1>4, <3>1
    <3>6. Head(rs) \o (F[(n - 1) - 1] \o rs[n]) = (Head(rs) \o F[(n - 1) - 1]) \o rs[n]
      <4> DEFINE h == Head(rs)
                 f == F[(n - 1) - 1]
                 r == rs[n]
      <4>1. h \in Seq(E) /\ f \in Seq(E) /\ r \in Seq(E)
        BY <3>5
      <4> HIDE DEF h, f, r
      <4>2. h \o (f \o r) = (h \o f) \o r
        BY ONLY <4>1, Assoc, SMTT(20)
      <4> QED BY <4>2 DEF h, f, r
    <3> QED BY <3>3, <3>4, <3>6, Zenon
  <2> QED BY <2>1, <2>2
<1>8. G[Len(rs)] = Flat(rs)
  BY <1>5, <1>7, FlatUnique
<1>9. G[Len(rs)] = Head(rs) \o F[Len(rest)]
  <2>1. Len(rs) \in 1..Len(rs) /\ Len(rs) - 1 = Len(rest)
    BY <1>1
  <2> QED BY <1>6, <2>1
<1>10. F[Len(rest)] = Flat(rest)
  BY DEF Flat, F
<1> QED BY <1>8, <1>9, <1>10 DEF rest


(***************************************************************************)
(* FlattenSeq.                                                             *)
(***************************************************************************)
IsFlatten(F, rs) == F = [i \in 1..Len(rs) |-> IF i = 1 THEN rs[i] ELSE F[i - 1] \o rs[i]]
Flattened(rs) == CHOOSE F : IsFlatten(F, rs)

LEMMA FlattenIs ==
  ASSUME NEW rs
  PROVE  FlattenSeq(rs) = IF Len(rs) = 0 THEN rs ELSE Flattened(rs)[Len(rs)]
BY DEF FlattenSeq, Flattened, IsFlatten

LEMMA FlattenExists ==
  ASSUME NEW E, NEW rs \in Seq(Seq(E))
  PROVE  IsFlatten(Flattened(rs), rs)
<1> DEFINE F == FlatOf(rs)
           G == [n \in 1..Len(rs) |-> F[n]]
<1>0. Len(rs) \in Nat /\ \A n \in 1..Len(rs) : rs[n] \in Seq(E)
  BY LenProperties, ElementOfSeq
<1>1. F[0] = <<>> /\ \A n \in 1..Len(rs) : F[n] = F[n - 1] \o rs[n]
  BY FlatSteps
<1> HIDE DEF F
<1>2. ASSUME NEW n \in 1..Len(rs) PROVE G[n] = IF n = 1 THEN rs[n] ELSE G[n - 1] \o rs[n]
  <2>1. G[n] = F[n]
    OBVIOUS
  <2>2. CASE n = 1
    <3>1. 1 \in 1..Len(rs) /\ 1 - 1 = 0
      BY <1>0, <2>2
    <3>2. F[1] = <<>> \o rs[1]
      BY <1>1, <3>1
    <3>3. <<>> \o rs[1] = rs[1]
      BY <1>0, <3>1, ConcatEmptySeq
    <3> QED BY <2>1, <2>2, <3>2, <3>3
  <2>3. CASE n # 1
    <3>1. n - 1 \in 1..Len(rs)
      BY <1>0, <2>3
    <3>2. G[n - 1] = F[n - 1]
      BY <3>1
    <3> QED BY <1>1, <2>1, <2>3, <3>2
  <2> QED BY <2>2, <2>3
<1>3. G = [n \in 1..Len(rs) |-> G[n]]
  OBVIOUS
<1> HIDE DEF G
<1>4. IsFlatten(G, rs)
  BY <1>2, <1>3 DEF IsFlatten
<1> QED BY <1>4 DEF Flattened

\* It adds up what Flat adds up.
LEMMA FlattenIsFlat ==
  ASSUME NEW E, NEW rs \in Seq(Seq(E))
  PROVE  FlattenSeq(rs) = Flat(rs)
<1> DEFINE F == Flattened(rs)
           G == [n \in 0..Len(rs) |-> IF n = 0 THEN <<>> ELSE F[n]]
<1>0. Len(rs) \in Nat /\ \A n \in 1..Len(rs) : rs[n] \in Seq(E)
  BY LenProperties, ElementOfSeq
<1>1. F = [i \in 1..Len(rs) |-> IF i = 1 THEN rs[i] ELSE F[i - 1] \o rs[i]]
  BY FlattenExists DEF IsFlatten
<1> HIDE DEF F
<1>2. G[0] = <<>>
  <2>1. 0 \in 0..Len(rs)
    BY <1>0
  <2> QED BY <2>1, Zenon
<1>3. \A n \in 1..Len(rs) : G[n] = F[n]
  <2>1. \A n \in 1..Len(rs) : n \in 0..Len(rs) /\ n # 0
    BY <1>0
  <2> QED BY <2>1, Zenon
<1> HIDE DEF G
<1>4. ASSUME NEW n \in 1..Len(rs) PROVE G[n] = G[n - 1] \o rs[n]
  <2>1. F[n] = IF n = 1 THEN rs[n] ELSE F[n - 1] \o rs[n]
    BY <1>1, Zenon
  <2>2. CASE n = 1
    <3>1. G[n - 1] = <<>>
      BY <1>2, <2>2
    <3>2. <<>> \o rs[n] = rs[n]
      BY <1>0, ConcatEmptySeq
    <3> QED BY <1>3, <2>1, <2>2, <3>1, <3>2
  <2>3. CASE n # 1
    <3>1. n - 1 \in 1..Len(rs)
      BY <1>0, <2>3
    <3> QED BY <1>3, <2>1, <2>3, <3>1
  <2> QED BY <2>2, <2>3
<1>5. G[Len(rs)] = Flat(rs)
  BY <1>2, <1>4, FlatUnique
<1>6. CASE Len(rs) = 0
  <2>1. rs = <<>>
    BY <1>6, EmptySeq, LenProperties
  <2> QED BY <1>6, <2>1, <1>2, <1>5, FlattenIs
<1>7. CASE Len(rs) # 0
  <2>1. Len(rs) \in 1..Len(rs)
    BY <1>0, <1>7
  <2> QED BY <1>7, <2>1, <1>3, <1>5, FlattenIs DEF F
<1> QED BY <1>6, <1>7

LEMMA FlattenEmpty == FlattenSeq(<<>>) = <<>>
BY FlattenIs, EmptySeq, LenProperties

LEMMA FlattenType ==
  ASSUME NEW E, NEW rs \in Seq(Seq(E))
  PROVE  FlattenSeq(rs) \in Seq(E)
BY FlattenIsFlat, FlatType

LEMMA FlattenAppend ==
  ASSUME NEW E, NEW rs \in Seq(Seq(E)), NEW r \in Seq(E)
  PROVE  FlattenSeq(Append(rs, r)) = FlattenSeq(rs) \o r
<1>1. Append(rs, r) \in Seq(Seq(E))
  BY AppendProperties
<1>2. FlattenSeq(Append(rs, r)) = Flat(Append(rs, r))
  BY <1>1, FlattenIsFlat
<1>3. FlattenSeq(rs) = Flat(rs)
  BY FlattenIsFlat
<1>4. Flat(Append(rs, r)) = Flat(rs) \o r
  BY FlatAppend
<1> QED BY <1>2, <1>3, <1>4

LEMMA FlattenHeadTail ==
  ASSUME NEW E, NEW rs \in Seq(Seq(E)), rs # <<>>
  PROVE  FlattenSeq(rs) = Head(rs) \o FlattenSeq(Tail(rs))
<1>1. Tail(rs) \in Seq(Seq(E))
  BY HeadTailProperties
<1>2. FlattenSeq(rs) = Flat(rs)
  BY FlattenIsFlat
<1>3. FlattenSeq(Tail(rs)) = Flat(Tail(rs))
  BY <1>1, FlattenIsFlat
<1>4. Flat(rs) = Head(rs) \o Flat(Tail(rs))
  BY FlatHeadTail
<1> QED BY <1>2, <1>3, <1>4

\* What a beginning of the sequence adds up to begins what all of it adds up to.
LEMMA FlattenPrefix ==
  ASSUME NEW E, NEW rs \in Seq(Seq(E)), NEW n \in 0..Len(rs)
  PROVE  IsPrefix(FlattenSeq(SubSeq(rs, 1, n)), FlattenSeq(rs))
<1> DEFINE F == FlatOf(rs)
           part == SubSeq(rs, 1, n)
           S == {m \in Nat : n <= m /\ m <= Len(rs) => IsPrefix(F[n], F[m])}
<1>0. Len(rs) \in Nat /\ n \in Nat /\ \A k \in 1..Len(rs) : rs[k] \in Seq(E)
  BY LenProperties, ElementOfSeq
<1>1. F[0] = <<>> /\ \A k \in 1..Len(rs) : F[k] = F[k - 1] \o rs[k]
  BY FlatSteps
<1>2. \A k \in 0..Len(rs) : F[k] \in Seq(E)
  BY FlatPartType
<1>3. part \in Seq(Seq(E)) /\ Len(part) = n /\ \A k \in 1..n : part[k] = rs[k]
  <2>1. \A k \in 1..n : k \in 1..Len(rs)
    BY <1>0
  <2> QED BY <2>1, <1>0, SubSeqProperties
<1>4. FlattenSeq(part) = F[n]
  <2> HIDE DEF part, F
  <2>1. ASSUME NEW k \in 1..Len(part) PROVE F[k] = F[k - 1] \o part[k]
    <3>1. k \in 1..n /\ k \in 1..Len(rs)
      BY <1>0, <1>3
    <3> QED BY <1>1, <1>3, <3>1
  <2>2. F[Len(part)] = Flat(part)
    BY <1>1, <1>3, <2>1, FlatUnique
  <2> QED BY <1>3, <2>2, FlattenIsFlat
<1>5. FlattenSeq(rs) = F[Len(rs)]
  BY FlattenIsFlat DEF Flat
<1> HIDE DEF F
<1>6. F[n] \in Seq(E)
  BY <1>2
<1>7. IsPrefix(F[n], F[n])
  BY <1>6, LenProperties DEF IsPrefix
<1>8. 0 \in S
  BY <1>0, <1>7
<1>9. ASSUME NEW m \in Nat, m \in S PROVE m + 1 \in S
  <2> SUFFICES ASSUME n <= m + 1, m + 1 <= Len(rs) PROVE IsPrefix(F[n], F[m + 1])
    OBVIOUS
  <2>1. CASE n = m + 1
    BY <2>1, <1>7
  <2>2. CASE n # m + 1
    <3>1. n <= m /\ m <= Len(rs) /\ m + 1 \in 1..Len(rs) /\ (m + 1) - 1 = m /\ m \in 0..Len(rs)
      BY <1>0, <2>2
    <3>2. IsPrefix(F[n], F[m])
      BY <1>9, <3>1
    <3>3. F[m + 1] = F[m] \o rs[m + 1]
      BY <1>1, <3>1
    <3>4. F[m] \in Seq(E) /\ rs[m + 1] \in Seq(E)
      BY <1>0, <1>2, <3>1
    <3> QED BY <3>2, <3>3, <3>4, <1>6, PrefixOfMore
  <2> QED BY <2>1, <2>2
<1>10. Len(rs) \in S
  <2> HIDE DEF S
  <2> QED BY <1>0, <1>8, <1>9, Induction
<1> QED BY <1>0, <1>4, <1>5, <1>10

LEMMA AppendByPlace ==
  ASSUME NEW E, NEW p \in Seq(E), NEW q \in Seq(E), NEW r \in E,
         Len(q) = Len(p) + 1, \A i \in 1..Len(p) : q[i] = p[i], q[Len(p) + 1] = r
  PROVE  q = Append(p, r)
<1>1. /\ Append(p, r) \in Seq(E) /\ Len(Append(p, r)) = Len(p) + 1 /\ Len(p) \in Nat
      /\ \A i \in 1..Len(p) : Append(p, r)[i] = p[i]
      /\ Append(p, r)[Len(p) + 1] = r
  BY AppendProperties, LenProperties
<1>2. \A i \in 1..Len(q) : q[i] = Append(p, r)[i]
  <2> TAKE i \in 1..Len(q)
  <2>1. i \in 1..Len(p) \/ i = Len(p) + 1
    BY <1>1
  <2> QED BY <2>1, <1>1
<1> QED BY <1>1, <1>2, SeqEqual

LEMMA GrowSubSeq ==
  ASSUME NEW E, NEW s \in Seq(E), NEW n \in Nat, n + 1 \in 1..Len(s)
  PROVE  Append(SubSeq(s, 1, n), s[n + 1]) = SubSeq(s, 1, n + 1)
<1> DEFINE p == SubSeq(s, 1, n)
           q == SubSeq(s, 1, n + 1)
<1>1. Len(s) \in Nat /\ \A i \in 1..(n + 1) : i \in 1..Len(s) /\ s[i] \in E
  BY LenProperties, ElementOfSeq
<1>2. p \in Seq(E) /\ Len(p) = n /\ \A i \in 1..n : p[i] = s[i]
  BY <1>1, SubSeqProperties
<1>3. q \in Seq(E) /\ Len(q) = n + 1 /\ \A i \in 1..(n + 1) : q[i] = s[i]
  BY <1>1, SubSeqProperties
<1> HIDE DEF p, q
<1>4. q = Append(p, s[n + 1])
  BY <1>1, <1>2, <1>3, AppendByPlace
<1> QED BY <1>4 DEF p, q

\* Putting two sequences of sequences together, and what each adds up to.
LEMMA FlattenConcat ==
  ASSUME NEW E, NEW rs \in Seq(Seq(E)), NEW ss \in Seq(Seq(E))
  PROVE  FlattenSeq(rs \o ss) = FlattenSeq(rs) \o FlattenSeq(ss)
<1> DEFINE F == FlatOf(ss)
           G == FlatOf(rs \o ss)
           k == Len(rs)
           S == {n \in Nat : n <= Len(ss) => G[k + n] = FlattenSeq(rs) \o F[n]}
<1>1. /\ rs \o ss \in Seq(Seq(E)) /\ Len(rs \o ss) = k + Len(ss) /\ k \in Nat /\ Len(ss) \in Nat
      /\ \A i \in 1..k : (rs \o ss)[i] = rs[i]
      /\ \A i \in 1..Len(ss) : (rs \o ss)[k + i] = ss[i]
  <2> DEFINE Q == Seq(E)
  <2>1. rs \in Seq(Q) /\ ss \in Seq(Q)
    OBVIOUS
  <2> HIDE DEF Q
  <2>2. rs \o ss \in Seq(Q) /\ Len(rs \o ss) = k + Len(ss) /\ k \in Nat /\ Len(ss) \in Nat
    BY <2>1, ConcatProperties, LenProperties
  <2>3. \A i \in 1..k : i \in 1..(k + Len(ss)) /\ i <= k
    BY <2>2
  <2>4. \A i \in 1..Len(ss) : k + i \in 1..(k + Len(ss)) /\ ~ (k + i <= k) /\ (k + i) - k = i
    BY <2>2
  <2>5. \A i \in 1..(k + Len(ss)) : (rs \o ss)[i] = IF i <= k THEN rs[i] ELSE ss[i - k]
    BY <2>1, ConcatProperties
  <2> QED BY <2>2, <2>3, <2>4, <2>5 DEF Q
<1>2. F[0] = <<>> /\ \A n \in 1..Len(ss) : F[n] = F[n - 1] \o ss[n]
  BY FlatSteps
<1>3. G[0] = <<>> /\ \A n \in 1..(k + Len(ss)) : G[n] = G[n - 1] \o (rs \o ss)[n]
  BY <1>1, FlatSteps
<1>4. FlattenSeq(rs) \in Seq(E) /\ FlattenSeq(rs) = Flat(rs)
  BY FlattenType, FlattenIsFlat
<1>5. \A n \in 0..Len(ss) : F[n] \in Seq(E)
  BY FlatPartType
<1>6. FlattenSeq(ss) = F[Len(ss)] /\ FlattenSeq(rs \o ss) = G[k + Len(ss)]
  BY <1>1, FlattenIsFlat DEF Flat
<1> HIDE DEF F, G
<1>7. G[k] = FlattenSeq(rs)
  <2>1. ASSUME NEW n \in 1..k PROVE G[n] = G[n - 1] \o rs[n]
    <3>1. n \in 1..(k + Len(ss)) /\ (rs \o ss)[n] = rs[n]
      BY <1>1
    <3> QED BY <1>3, <3>1
  <2> QED BY <1>3, <1>4, <2>1, FlatUnique
<1>8. 0 \in S
  <2>1. FlattenSeq(rs) \o F[0] = FlattenSeq(rs) /\ k + 0 = k
    BY <1>1, <1>2, <1>4, ConcatEmptySeq
  <2> QED BY <1>7, <2>1
<1>9. ASSUME NEW n \in Nat, n \in S PROVE n + 1 \in S
  <2> SUFFICES ASSUME n + 1 <= Len(ss) PROVE G[k + (n + 1)] = FlattenSeq(rs) \o F[n + 1]
    OBVIOUS
  <2>1. /\ n <= Len(ss) /\ n \in 0..Len(ss) /\ n + 1 \in 1..Len(ss) /\ (n + 1) - 1 = n
        /\ k + (n + 1) \in 1..(k + Len(ss)) /\ (k + (n + 1)) - 1 = k + n
    BY <1>1
  <2>2. G[k + n] = FlattenSeq(rs) \o F[n]
    BY <1>9, <2>1
  <2>3. F[n + 1] = F[n] \o ss[n + 1]
    BY <1>2, <2>1
  <2>4. G[k + (n + 1)] = (FlattenSeq(rs) \o F[n]) \o ss[n + 1]
    <3>1. G[k + (n + 1)] = G[(k + (n + 1)) - 1] \o (rs \o ss)[k + (n + 1)]
      BY <1>3, <2>1
    <3>2. (rs \o ss)[k + (n + 1)] = ss[n + 1]
      BY <1>1, <2>1
    <3> QED BY <2>1, <2>2, <3>1, <3>2
  <2>5. ss[n + 1] \in Seq(E) /\ F[n] \in Seq(E)
    BY <1>5, <2>1, ElementOfSeq
  <2>6. FlattenSeq(rs) \o (F[n] \o ss[n + 1]) = (FlattenSeq(rs) \o F[n]) \o ss[n + 1]
    <3> DEFINE a == FlattenSeq(rs)
               b == F[n]
               c == ss[n + 1]
    <3>1. a \in Seq(E) /\ b \in Seq(E) /\ c \in Seq(E)
      BY <1>4, <2>5
    <3> HIDE DEF a, b, c
    <3>2. a \o (b \o c) = (a \o b) \o c
      BY ONLY <3>1, Assoc
    <3> QED BY <3>2 DEF a, b, c
  <2> QED BY <2>3, <2>4, <2>6
<1>10. Len(ss) \in S
  <2> HIDE DEF S
  <2> QED BY <1>1, <1>8, <1>9, Induction
<1> QED BY <1>1, <1>6, <1>10

\* If all but one of the sequences are empty, that one is left.
LEMMA FlattenOnly ==
  ASSUME NEW E, NEW rs \in Seq(Seq(E)), NEW j \in 1..Len(rs),
         \A i \in 1..Len(rs) : i # j => rs[i] = <<>>
  PROVE  FlattenSeq(rs) = rs[j]
<1> DEFINE F == FlatOf(rs)
           S == {n \in Nat : n <= Len(rs) => F[n] = IF n < j THEN <<>> ELSE rs[j]}
<1>1. Len(rs) \in Nat /\ j \in Nat /\ 0 < j /\ j <= Len(rs) /\ rs[j] \in Seq(E)
  BY LenProperties, ElementOfSeq
<1>2. F[0] = <<>> /\ \A n \in 1..Len(rs) : F[n] = F[n - 1] \o rs[n]
  BY FlatSteps
<1>3. FlattenSeq(rs) = F[Len(rs)]
  BY FlattenIsFlat DEF Flat
<1> HIDE DEF F
<1>4. 0 \in S
  BY <1>1, <1>2
<1>5. ASSUME NEW n \in Nat, n \in S PROVE n + 1 \in S
  <2> SUFFICES ASSUME n + 1 <= Len(rs) PROVE F[n + 1] = IF n + 1 < j THEN <<>> ELSE rs[j]
    OBVIOUS
  <2>1. n <= Len(rs) /\ n + 1 \in 1..Len(rs) /\ (n + 1) - 1 = n
    BY <1>1
  <2>2. F[n + 1] = F[n] \o rs[n + 1] /\ F[n] = IF n < j THEN <<>> ELSE rs[j]
    BY <1>2, <1>5, <2>1
  <2>3. <<>> \o <<>> = <<>> /\ <<>> \o rs[j] = rs[j] /\ rs[j] \o <<>> = rs[j]
    BY <1>1, ConcatEmptySeq, EmptySeq
  <2>4. CASE n + 1 < j
    <3>1. n < j /\ n + 1 # j
      BY <1>1, <2>4
    <3> QED BY <2>1, <2>2, <2>3, <2>4, <3>1
  <2>5. CASE n + 1 = j
    <3>1. n < j /\ ~ (n + 1 < j)
      BY <1>1, <2>5
    <3> QED BY <2>2, <2>3, <2>5, <3>1
  <2>6. CASE n + 1 > j
    <3>1. ~ (n < j) /\ n + 1 # j /\ ~ (n + 1 < j)
      BY <1>1, <2>6
    <3> QED BY <2>1, <2>2, <2>3, <3>1
  <2> QED BY <1>1, <2>4, <2>5, <2>6
<1>6. Len(rs) \in S
  <2> HIDE DEF S
  <2> QED BY <1>1, <1>4, <1>5, Induction
<1>7. ~ (Len(rs) < j)
  BY <1>1
<1> QED BY <1>1, <1>3, <1>6, <1>7

\* If all are, nothing is.
LEMMA FlattenNone ==
  ASSUME NEW E, NEW rs \in Seq(Seq(E)), \A i \in 1..Len(rs) : rs[i] = <<>>
  PROVE  FlattenSeq(rs) = <<>>
<1>1. Len(rs) \in Nat
  BY LenProperties
<1>2. CASE Len(rs) = 0
  <2>1. rs = <<>>
    BY <1>2, EmptySeq
  <2> QED BY <2>1, FlattenEmpty
<1>3. CASE Len(rs) # 0
  <2>1. 1 \in 1..Len(rs)
    BY <1>1, <1>3
  <2>2. FlattenSeq(rs) = rs[1]
    BY <2>1, FlattenOnly
  <2> QED BY <2>1, <2>2
<1> QED BY <1>2, <1>3

\* If each is one element of a sequence, that sequence is left.
LEMMA FlattenSingles ==
  ASSUME NEW E, NEW s \in Seq(E)
  PROVE  FlattenSeq([i \in DOMAIN s |-> <<s[i]>>]) = s
<1> DEFINE rs == [i \in DOMAIN s |-> <<s[i]>>]
           F == [n \in 0..Len(s) |-> SubSeq(s, 1, n)]
           Q == Seq(E)
<1>1. DOMAIN s = 1..Len(s) /\ Len(s) \in Nat /\ \A i \in 1..Len(s) : s[i] \in E
  BY LenProperties, ElementOfSeq
<1>2. rs \in Seq(Q) /\ Len(rs) = Len(s) /\ \A i \in 1..Len(s) : rs[i] = <<s[i]>>
  <2> DEFINE n == Len(s)
  <2>1. \A i \in 1..n : <<s[i]>> \in Q
    BY <1>1
  <2>2. rs = [i \in 1..n |-> <<s[i]>>]
    BY <1>1
  <2> HIDE DEF Q
  <2>3. rs \in [1..n -> Q]
    BY <2>1, <2>2
  <2>4. rs \in Seq(Q)
    BY <1>1, <2>3, SeqDef
  <2>5. Len(rs) = n
    BY <1>1, <2>3, <2>4, LenProperties
  <2> QED BY <2>2, <2>4, <2>5
<1> HIDE DEF rs
<1>3. F[0] = <<>>
  <2>1. SubSeq(s, 1, 0) = <<>> /\ 0 \in 0..Len(s)
    BY <1>1, SubSeqEmpty
  <2> QED BY <2>1
<1>4. ASSUME NEW n \in 1..Len(s) PROVE F[n] = F[n - 1] \o rs[n]
  <2>1. n - 1 \in Nat /\ (n - 1) + 1 = n /\ n \in 0..Len(s) /\ n - 1 \in 0..Len(s)
    BY <1>1
  <2>2. Append(SubSeq(s, 1, n - 1), s[n]) = SubSeq(s, 1, n)
    <3> DEFINE m == n - 1
    <3>1. m \in Nat /\ m + 1 \in 1..Len(s) /\ m + 1 = n
      BY <2>1
    <3> HIDE DEF m
    <3>2. Append(SubSeq(s, 1, m), s[m + 1]) = SubSeq(s, 1, m + 1)
      BY <3>1, GrowSubSeq
    <3> QED BY <3>1, <3>2 DEF m
  <2>3. SubSeq(s, 1, n - 1) \in Seq(E)
    <3>1. \A i \in 1..(n - 1) : s[i] \in E
      BY <1>1, <2>1
    <3> QED BY <2>1, <3>1, SubSeqProperties
  <2>4. Append(SubSeq(s, 1, n - 1), s[n]) = SubSeq(s, 1, n - 1) \o <<s[n]>>
    BY <1>1, <2>3, AppendIsConcat
  <2>5. F[n] = SubSeq(s, 1, n) /\ F[n - 1] = SubSeq(s, 1, n - 1)
    BY <2>1
  <2> QED BY <1>2, <2>2, <2>4, <2>5
<1> HIDE DEF F
<1>5. F[Len(rs)] = Flat(rs)
  BY <1>2, <1>3, <1>4, FlatUnique
<1>6. F[Len(s)] = s
  <2>1. SubSeq(s, 1, Len(s)) = s /\ Len(s) \in 0..Len(s)
    BY <1>1, SubSeqFull
  <2> QED BY <2>1 DEF F
<1> QED BY <1>2, <1>5, <1>6, FlattenIsFlat DEF rs

(***************************************************************************)
(* Sums over finite sets.  MapThenSumSet takes the elements in an order of *)
(* its own; what is needed is that the order does not matter.              *)
(***************************************************************************)
\* Of some subsets of a finite set, one has none of the others within it.
LEMMA Smallest ==
  ASSUME NEW S, IsFiniteSet(S), NEW P, P \subseteq SUBSET S, P # {}
  PROVE  \E s \in P : \A u \in P : u \subseteq s => u = s
<1> DEFINE R == StrictSubsetOrdering(S)
<1>1. IsWellFoundedOn(R, SUBSET S)
  BY FS_StrictSubsetOrderingWellFounded, FS_FiniteSubsetsOfFinite
<1> HIDE DEF R
<1>2. PICK s \in P : \A u \in P : ~ (<<u, s>> \in R)
  BY <1>1, WFMin
<1>3. ASSUME NEW u \in P, u \subseteq s, u # s PROVE FALSE
  <2>1. u \in SUBSET S /\ s \in SUBSET S
    OBVIOUS
  <2>2. <<u, s>> \in R
    BY <1>3, <2>1 DEF R, StrictSubsetOrdering
  <2> QED BY <1>2, <2>2
<1> QED BY <1>2, <1>3

SumOver(c, S) == MapThenSumSet(LAMBDA x : c[x], S)

First(s) == CHOOSE x \in s : TRUE

\* The partial sums on the way.
IsSums(I, c, S) ==
  I = [s \in SUBSET S |-> IF s = {} THEN 0
                          ELSE LET x == CHOOSE x \in s : TRUE IN c[x] + I[s \ {x}]]

SumsOf(c, S) == CHOOSE I : IsSums(I, c, S)

LEMMA SumIs == ASSUME NEW c, NEW S PROVE SumOver(c, S) = SumsOf(c, S)[S]
BY DEF SumOver, SumsOf, IsSums, MapThenSumSet, MapThenFoldSet

LEMMA SumsSteps ==
  ASSUME NEW I, NEW c, NEW S, IsSums(I, c, S)
  PROVE  /\ I[{}] = 0
         /\ \A s \in SUBSET S : s # {} => I[s] = c[First(s)] + I[s \ {First(s)}]
<1>1. I = [s \in SUBSET S |-> IF s = {} THEN 0
                              ELSE LET x == CHOOSE x \in s : TRUE IN c[x] + I[s \ {x}]]
  BY DEF IsSums
<1>2. {} \in SUBSET S
  OBVIOUS
<1>3. I[{}] = 0
  BY <1>1, <1>2, Zenon
<1>4. ASSUME NEW s \in SUBSET S, s # {}
      PROVE  I[s] = c[CHOOSE x \in s : TRUE] + I[s \ {CHOOSE x \in s : TRUE}]
  BY <1>1, <1>4, Zenon
<1> QED BY <1>3, <1>4 DEF First

LEMMA FirstIn == ASSUME NEW s, s # {} PROVE First(s) \in s
BY DEF First

\* Whatever the set they are partial sums of, they agree.
LEMMA SumsAgree ==
  ASSUME NEW S, IsFiniteSet(S), NEW c, NEW T \in SUBSET S, NEW U \in SUBSET S,
         NEW I, IsSums(I, c, T), NEW J, IsSums(J, c, U), NEW s \in (SUBSET T) \cap (SUBSET U)
  PROVE  I[s] = J[s]
<1> DEFINE P == {u \in (SUBSET T) \cap (SUBSET U) : I[u] # J[u]}
<1>1. SUFFICES ASSUME P # {} PROVE FALSE
  OBVIOUS
<1>2. PICK u \in P : \A w \in P : w \subseteq u => w = u
  <2>1. P \subseteq SUBSET S
    OBVIOUS
  <2> HIDE DEF P
  <2> QED BY <1>1, <2>1, Smallest
<1>3. CASE u = {}
  BY <1>3, SumsSteps
<1>4. CASE u # {}
  <2> DEFINE w == u \ {First(u)}
  <2>1. w \subseteq u /\ w # u /\ w \in (SUBSET T) \cap (SUBSET U)
    BY <1>4, FirstIn
  <2>2. I[w] = J[w]
    BY <1>2, <2>1
  <2>3. I[u] = c[First(u)] + I[w] /\ J[u] = c[First(u)] + J[w]
    BY <1>4, SumsSteps
  <2> QED BY <2>2, <2>3
<1> QED BY <1>3, <1>4

\* There are such sums.
LEMMA SumsExist ==
  ASSUME NEW S, IsFiniteSet(S), NEW c
  PROVE  IsSums(SumsOf(c, S), c, S)
<1> DEFINE P == {T \in SUBSET S : ~ IsSums(SumsOf(c, T), c, T)}
<1>1. SUFFICES ASSUME P # {} PROVE FALSE
  OBVIOUS
<1>2. PICK T \in P : \A U \in P : U \subseteq T => U = T
  <2>1. P \subseteq SUBSET S
    OBVIOUS
  <2> HIDE DEF P
  <2> QED BY <1>1, <2>1, Smallest
<1>3. T \in SUBSET S /\ ~ IsSums(SumsOf(c, T), c, T)
  OBVIOUS
<1>4. \A U \in SUBSET T : U # T => U \in SUBSET S /\ IsSums(SumsOf(c, U), c, U)
  BY <1>2
<1> HIDE DEF P
<1> DEFINE Sub(s) == SumsOf(c, s \ {First(s)})[s \ {First(s)}]
           I == [s \in SUBSET T |-> IF s = {} THEN 0 ELSE c[First(s)] + Sub(s)]
<1>5. ASSUME NEW s \in SUBSET T, s # {} PROVE I[s \ {First(s)}] = Sub(s)
  <2> DEFINE w == s \ {First(s)}
  <2>1. w \in SUBSET T /\ w # T
    BY <1>5, FirstIn
  <2>2. IsSums(SumsOf(c, w), c, w) /\ w \in SUBSET S
    BY <1>4, <2>1
  <2>3. CASE w = {}
    <3>1. SumsOf(c, w)[{}] = 0
      BY <2>2, SumsSteps
    <3>2. I[w] = 0
      BY <2>1, <2>3
    <3> HIDE DEF I
    <3> QED BY <2>3, <3>1, <3>2
  <2>4. CASE w # {}
    <3> DEFINE v == w \ {First(w)}
    <3>1. v \in SUBSET T /\ v # T /\ v \in SUBSET w
      BY <2>1, <2>4, FirstIn
    <3>2. IsSums(SumsOf(c, v), c, v) /\ v \in SUBSET S
      BY <1>4, <3>1
    <3>3. SumsOf(c, w)[w] = c[First(w)] + SumsOf(c, w)[v]
      <4>1. w \in SUBSET w
        OBVIOUS
      <4> HIDE DEF w
      <4> QED BY <2>2, <2>4, <4>1, SumsSteps
    <3>4. SumsOf(c, w)[v] = SumsOf(c, v)[v]
      <4>1. v \in (SUBSET w) \cap (SUBSET v)
        BY <3>1
      <4> HIDE DEF w, v
      <4> QED BY <2>2, <3>2, <4>1, SumsAgree
    <3>5. I[w] = c[First(w)] + SumsOf(c, v)[v]
      BY <2>1, <2>4
    <3> HIDE DEF I, w, v
    <3> QED BY <3>3, <3>4, <3>5 DEF w
  <2> QED BY <2>3, <2>4
<1>6. I = [s \in SUBSET T |-> IF s = {} THEN 0 ELSE c[First(s)] + I[s \ {First(s)}]]
  <2>1. \A s \in SUBSET T : (IF s = {} THEN 0 ELSE c[First(s)] + Sub(s))
                          = (IF s = {} THEN 0 ELSE c[First(s)] + I[s \ {First(s)}])
    BY <1>5
  <2> QED BY <2>1
<1> HIDE DEF I
<1>7. IsSums(I, c, T)
  BY <1>6 DEF IsSums, First
<1> QED BY <1>3, <1>7 DEF SumsOf

LEMMA SumSteps ==
  ASSUME NEW S, IsFiniteSet(S), NEW c
  PROVE  /\ SumOver(c, {}) = 0
         /\ S # {} => SumOver(c, S) = c[First(S)] + SumOver(c, S \ {First(S)})
<1>1. SumOver(c, {}) = 0
  <2>1. IsFiniteSet({})
    BY FS_EmptySet
  <2> QED BY <2>1, SumsExist, SumsSteps, SumIs
<1>2. ASSUME S # {} PROVE SumOver(c, S) = c[First(S)] + SumOver(c, S \ {First(S)})
  <2> DEFINE w == S \ {First(S)}
  <2>1. IsFiniteSet(w) /\ w \in SUBSET S
    BY FS_Subset
  <2>2. IsSums(SumsOf(c, S), c, S) /\ IsSums(SumsOf(c, w), c, w)
    BY <2>1, SumsExist
  <2>3. SumsOf(c, S)[S] = c[First(S)] + SumsOf(c, S)[w]
    <3>1. S \in SUBSET S
      OBVIOUS
    <3> QED BY <1>2, <2>2, <3>1, SumsSteps
  <2>4. SumsOf(c, S)[w] = SumsOf(c, w)[w]
    <3>1. w \in (SUBSET S) \cap (SUBSET w) /\ S \in SUBSET S
      OBVIOUS
    <3> HIDE DEF w
    <3> QED BY <2>1, <2>2, <3>1, SumsAgree
  <2> QED BY <2>3, <2>4, SumIs
<1> QED BY <1>1, <1>2

\* Sums of natural numbers are natural numbers, and depend on the numbers only.
LEMMA SumType ==
  ASSUME NEW S, IsFiniteSet(S), NEW c, \A x \in S : c[x] \in Nat
  PROVE  SumOver(c, S) \in Nat
<1> DEFINE P == {T \in SUBSET S : ~ (SumOver(c, T) \in Nat)}
<1>1. SUFFICES ASSUME P # {} PROVE FALSE
  OBVIOUS
<1>2. PICK T \in P : \A U \in P : U \subseteq T => U = T
  <2>1. P \subseteq SUBSET S
    OBVIOUS
  <2> HIDE DEF P
  <2> QED BY <1>1, <2>1, Smallest
<1>3. IsFiniteSet(T) /\ T \in SUBSET S
  BY FS_Subset
<1>4. T # {}
  <2>1. SumOver(c, T) \notin Nat /\ SumOver(c, {}) = 0
    BY <1>3, SumSteps
  <2> QED BY <2>1
<1>5. /\ T \ {First(T)} \in SUBSET S /\ T \ {First(T)} \subseteq T /\ T \ {First(T)} # T
      /\ First(T) \in S
  BY <1>3, <1>4, FirstIn
<1>6. SumOver(c, T \ {First(T)}) \in Nat
  BY <1>2, <1>5
<1>7. SumOver(c, T) = c[First(T)] + SumOver(c, T \ {First(T)})
  BY <1>3, <1>4, SumSteps
<1> QED BY <1>5, <1>6, <1>7

LEMMA SumSame ==
  ASSUME NEW S, IsFiniteSet(S), NEW c, NEW d, \A x \in S : c[x] = d[x]
  PROVE  SumOver(c, S) = SumOver(d, S)
<1> DEFINE P == {T \in SUBSET S : SumOver(c, T) # SumOver(d, T)}
<1>1. SUFFICES ASSUME P # {} PROVE FALSE
  OBVIOUS
<1>2. PICK T \in P : \A U \in P : U \subseteq T => U = T
  <2>1. P \subseteq SUBSET S
    OBVIOUS
  <2> HIDE DEF P
  <2> QED BY <1>1, <2>1, Smallest
<1>3. IsFiniteSet(T) /\ T \in SUBSET S
  BY FS_Subset
<1>4. T # {}
  BY <1>3, SumSteps
<1>5. /\ T \ {First(T)} \in SUBSET S /\ T \ {First(T)} \subseteq T /\ T \ {First(T)} # T
      /\ First(T) \in S
  BY <1>3, <1>4, FirstIn
<1>6. SumOver(c, T \ {First(T)}) = SumOver(d, T \ {First(T)})
  BY <1>2, <1>5
<1>7. /\ SumOver(c, T) = c[First(T)] + SumOver(c, T \ {First(T)})
      /\ SumOver(d, T) = d[First(T)] + SumOver(d, T \ {First(T)})
  BY <1>3, <1>4, SumSteps
<1> QED BY <1>5, <1>6, <1>7

\* Any element may be taken first.
LEMMA SumSplit ==
  ASSUME NEW S, IsFiniteSet(S), NEW c, \A x \in S : c[x] \in Nat, NEW y \in S
  PROVE  SumOver(c, S) = c[y] + SumOver(c, S \ {y})
<1> DEFINE P == {T \in SUBSET S : \E x \in T : SumOver(c, T) # c[x] + SumOver(c, T \ {x})}
<1>1. SUFFICES ASSUME P # {} PROVE FALSE
  BY S \in SUBSET S
<1>2. PICK T \in P : \A U \in P : U \subseteq T => U = T
  <2>1. P \subseteq SUBSET S
    OBVIOUS
  <2> HIDE DEF P
  <2> QED BY <1>1, <2>1, Smallest
<1>3. PICK x \in T : SumOver(c, T) # c[x] + SumOver(c, T \ {x})
  OBVIOUS
<1>4. /\ T \in SUBSET S /\ IsFiniteSet(T) /\ IsFiniteSet(T \ {x})
      /\ \A U \in SUBSET T : U # T =>
           IsFiniteSet(U) /\ \A z \in U : SumOver(c, U) = c[z] + SumOver(c, U \ {z})
  <2>1. T \in SUBSET S
    OBVIOUS
  <2>2. \A U \in SUBSET T : U # T => \A z \in U : SumOver(c, U) = c[z] + SumOver(c, U \ {z})
    BY <1>2
  <2> HIDE DEF P
  <2> QED BY <2>1, <2>2, FS_Subset
<1> HIDE DEF P
<1> DEFINE f == First(T)
<1>5. SumOver(c, T) = c[f] + SumOver(c, T \ {f}) /\ f \in T
  BY <1>4, SumSteps, FirstIn
<1>6. x # f
  BY <1>3, <1>5
<1> HIDE DEF f
<1>7. SumOver(c, T \ {f}) = c[x] + SumOver(c, (T \ {f}) \ {x})
  <2>1. T \ {f} \in SUBSET T /\ T \ {f} # T /\ x \in T \ {f}
    BY <1>5, <1>6
  <2> QED BY <1>4, <2>1
<1>8. SumOver(c, T \ {x}) = c[f] + SumOver(c, (T \ {x}) \ {f})
  <2>1. T \ {x} \in SUBSET T /\ T \ {x} # T /\ f \in T \ {x}
    BY <1>5, <1>6
  <2> QED BY <1>4, <2>1
<1>9. (T \ {f}) \ {x} = (T \ {x}) \ {f} /\ IsFiniteSet((T \ {x}) \ {f})
  BY <1>4, FS_Subset
<1>10. c[f] \in Nat /\ c[x] \in Nat /\ SumOver(c, (T \ {x}) \ {f}) \in Nat
  <2>1. \A z \in (T \ {x}) \ {f} : c[z] \in Nat
    BY <1>4
  <2> QED BY <1>4, <1>5, <1>9, <2>1, SumType
<1> DEFINE r == SumOver(c, (T \ {x}) \ {f})
<1>11. /\ SumOver(c, T) = c[f] + (c[x] + r)
       /\ c[x] + SumOver(c, T \ {x}) = c[x] + (c[f] + r)
  BY <1>5, <1>7, <1>8, <1>9
<1>12. c[f] + (c[x] + r) = c[x] + (c[f] + r)
  <2> HIDE DEF r
  <2> QED BY <1>10 DEF r
<1> QED BY <1>3, <1>11, <1>12

\* One number changes, and the sum with it.
LEMMA SumChange ==
  ASSUME NEW S, IsFiniteSet(S), NEW y \in S,
         NEW c, \A x \in S : c[x] \in Nat, NEW d, \A x \in S : d[x] \in Nat,
         \A x \in S : x # y => d[x] = c[x]
  PROVE  SumOver(d, S) - SumOver(c, S) = d[y] - c[y]
<1>1. SumOver(c, S) = c[y] + SumOver(c, S \ {y}) /\ SumOver(d, S) = d[y] + SumOver(d, S \ {y})
  BY SumSplit
<1>2. IsFiniteSet(S \ {y})
  BY FS_Subset
<1>3. SumOver(c, S \ {y}) = SumOver(d, S \ {y})
  BY <1>2, SumSame
<1>4. SumOver(c, S \ {y}) \in Nat /\ c[y] \in Nat /\ d[y] \in Nat
  BY <1>2, SumType
<1> DEFINE n == SumOver(c, S \ {y})
<1>5. SumOver(c, S) = c[y] + n /\ SumOver(d, S) = d[y] + n
  BY <1>1, <1>3
<1> HIDE DEF n
<1> QED BY <1>4, <1>5 DEF n

LEMMA SumAdd ==
  ASSUME NEW S, IsFiniteSet(S), NEW y, y \notin S,
         NEW c, \A x \in S \cup {y} : c[x] \in Nat
  PROVE  SumOver(c, S \cup {y}) = c[y] + SumOver(c, S)
<1>1. IsFiniteSet(S \cup {y}) /\ (S \cup {y}) \ {y} = S
  BY FS_AddElement
<1> QED BY <1>1, SumSplit

LEMMA SumZero ==
  ASSUME NEW S, IsFiniteSet(S), NEW c, \A x \in S : c[x] = 0
  PROVE  SumOver(c, S) = 0
<1> DEFINE P == {T \in SUBSET S : SumOver(c, T) # 0}
<1>1. SUFFICES ASSUME P # {} PROVE FALSE
  OBVIOUS
<1>2. PICK T \in P : \A U \in P : U \subseteq T => U = T
  <2>1. P \subseteq SUBSET S
    OBVIOUS
  <2> HIDE DEF P
  <2> QED BY <1>1, <2>1, Smallest
<1>3. IsFiniteSet(T) /\ T \in SUBSET S
  BY FS_Subset
<1>4. T # {}
  <2>1. SumOver(c, T) # 0 /\ SumOver(c, {}) = 0
    BY <1>3, SumSteps
  <2> QED BY <2>1
<1>5. /\ T \ {First(T)} \in SUBSET S /\ T \ {First(T)} \subseteq T /\ T \ {First(T)} # T
      /\ First(T) \in S
  BY <1>3, <1>4, FirstIn
<1>6. SumOver(c, T \ {First(T)}) = 0
  BY <1>2, <1>5
<1>7. SumOver(c, T) = c[First(T)] + SumOver(c, T \ {First(T)})
  BY <1>3, <1>4, SumSteps
<1> QED BY <1>5, <1>6, <1>7

LEMMA SumOne == ASSUME NEW c, NEW x, c[x] \in Nat PROVE SumOver(c, {x}) = c[x]
<1>1. IsFiniteSet({}) /\ {} \cup {x} = {x} /\ SumOver(c, {}) = 0
  BY FS_EmptySet, SumSteps
<1>2. SumOver(c, {} \cup {x}) = c[x] + SumOver(c, {})
  BY <1>1, SumAdd
<1> QED BY <1>1, <1>2

\* The same numbers under other names.
LEMMA SumRenamed ==
  ASSUME NEW S, IsFiniteSet(S), NEW f, \A x, y \in S : f[x] = f[y] => x = y,
         NEW c, \A x \in S : c[x] \in Nat, NEW d, \A x \in S : d[f[x]] = c[x]
  PROVE  SumOver(d, {f[x] : x \in S}) = SumOver(c, S)
<1> DEFINE Image(T) == {f[x] : x \in T}
           Right(T) == IsFiniteSet(Image(T)) /\ SumOver(d, Image(T)) = SumOver(c, T)
           P == {T \in SUBSET S : ~Right(T)}
<1>1. SUFFICES ASSUME P # {} PROVE FALSE
  OBVIOUS
<1>2. PICK T \in P : \A U \in P : U \subseteq T => U = T
  <2>1. P \subseteq SUBSET S
    OBVIOUS
  <2> HIDE DEF P
  <2> QED BY <1>1, <2>1, Smallest
<1>3. IsFiniteSet(T) /\ T \in SUBSET S /\ ~Right(T)
  BY FS_Subset
<1>4. T # {}
  <2>1. Image({}) = {} /\ IsFiniteSet({}) /\ SumOver(c, {}) = 0 /\ SumOver(d, {}) = 0
    BY FS_EmptySet, SumSteps
  <2> QED BY <1>3, <2>1
<1> DEFINE z == First(T)
           U == T \ {z}
<1>5. U \in SUBSET S /\ U \subseteq T /\ U # T /\ z \in S /\ z \in T
  BY <1>3, <1>4, FirstIn
<1>6. Right(U)
  <2> HIDE DEF Right, U
  <2> QED BY <1>2, <1>5
<1> HIDE DEF z
<1>7. Image(T) = Image(U) \cup {f[z]} /\ f[z] \notin Image(U)
  BY <1>5
<1>8. SumOver(d, Image(T)) = d[f[z]] + SumOver(d, Image(U)) /\ IsFiniteSet(Image(T))
  <2>1. \A w \in Image(U) \cup {f[z]} : d[w] \in Nat
    BY <1>5
  <2> DEFINE V == Image(U)
  <2>2. IsFiniteSet(V) /\ f[z] \notin V /\ Image(T) = V \cup {f[z]}
    BY <1>6, <1>7
  <2> HIDE DEF V
  <2>3. \A w \in V \cup {f[z]} : d[w] \in Nat
    BY <2>1 DEF V
  <2>4. SumOver(d, V \cup {f[z]}) = d[f[z]] + SumOver(d, V) /\ IsFiniteSet(V \cup {f[z]})
    BY <2>2, <2>3, SumAdd, FS_AddElement
  <2> HIDE DEF Image
  <2> QED BY <2>2, <2>4 DEF V
<1>9. SumOver(c, T) = c[z] + SumOver(c, U)
  BY <1>3, <1>5, SumSplit
<1> QED BY <1>3, <1>5, <1>6, <1>8, <1>9

(***************************************************************************)
(* Sums of sequences of natural numbers.                                   *)
(***************************************************************************)
ListSum(l) == SumOver(l, DOMAIN l)

LEMMA ListSumType == ASSUME NEW l \in Seq(Nat) PROVE ListSum(l) \in Nat
<1>1. DOMAIN l = 1..Len(l) /\ Len(l) \in Nat /\ \A i \in DOMAIN l : l[i] \in Nat
  BY LenProperties, ElementOfSeq
<1>2. IsFiniteSet(DOMAIN l)
  BY <1>1, FS_Interval
<1> QED BY <1>1, <1>2, SumType DEF ListSum

LEMMA ListSumEmpty == ListSum(<<>>) = 0
<1>1. DOMAIN <<>> = {}
  OBVIOUS
<1> QED BY <1>1, FS_EmptySet, SumSteps DEF ListSum

LEMMA ListSumAppend ==
  ASSUME NEW l \in Seq(Nat), NEW x \in Nat
  PROVE  ListSum(Append(l, x)) = ListSum(l) + x
<1> DEFINE m == Append(l, x)
           n == Len(l)
<1>1. /\ m \in Seq(Nat) /\ Len(m) = n + 1 /\ n \in Nat /\ m[n + 1] = x
      /\ \A i \in 1..n : m[i] = l[i] /\ l[i] \in Nat
  BY AppendProperties, LenProperties, ElementOfSeq
<1>2. DOMAIN l = 1..n /\ DOMAIN m = (1..n) \cup {n + 1} /\ n + 1 \notin 1..n /\ \A i \in DOMAIN m : m[i] \in Nat
  <2>1. DOMAIN l = 1..n /\ DOMAIN m = 1..(n + 1)
    BY <1>1, LenProperties
  <2>2. 1..(n + 1) = (1..n) \cup {n + 1} /\ n + 1 \notin 1..n
    BY <1>1
  <2>3. \A i \in 1..(n + 1) : m[i] \in Nat
    BY <1>1, ElementOfSeq
  <2> QED BY <2>1, <2>2, <2>3
<1> HIDE DEF m
<1>3. IsFiniteSet(1..n)
  BY <1>1, FS_Interval
<1>4. SumOver(m, (1..n) \cup {n + 1}) = m[n + 1] + SumOver(m, 1..n)
  BY <1>2, <1>3, SumAdd
<1>5. SumOver(m, 1..n) = SumOver(l, 1..n)
  BY <1>1, <1>3, SumSame
<1>6. SumOver(l, 1..n) \in Nat
  BY <1>2, ListSumType DEF ListSum
<1>7. ListSum(m) = SumOver(m, (1..n) \cup {n + 1}) /\ ListSum(l) = SumOver(l, 1..n)
  BY <1>2 DEF ListSum
<1> DEFINE k == SumOver(l, 1..n)
<1>8. ListSum(m) = x + k /\ ListSum(l) = k /\ k \in Nat
  BY <1>1, <1>4, <1>5, <1>6, <1>7
<1> HIDE DEF k
<1>9. ListSum(m) = ListSum(l) + x
  BY <1>8
<1> QED BY <1>9 DEF m

LEMMA ListSumConcat ==
  ASSUME NEW l \in Seq(Nat), NEW m \in Seq(Nat)
  PROVE  ListSum(l \o m) = ListSum(l) + ListSum(m)
<1> DEFINE S == {n \in Nat : n <= Len(m) => ListSum(l \o SubSeq(m, 1, n)) = ListSum(l) + ListSum(SubSeq(m, 1, n))}
<1>1. Len(m) \in Nat /\ ListSum(l) \in Nat
  BY LenProperties, ListSumType
<1>2. 0 \in S
  <2>1. SubSeq(m, 1, 0) = <<>>
    BY SubSeqEmpty
  <2>2. l \o <<>> = l
    BY ConcatEmptySeq
  <2>3. ListSum(l \o SubSeq(m, 1, 0)) = ListSum(l) /\ ListSum(SubSeq(m, 1, 0)) = 0
    BY <2>1, <2>2, ListSumEmpty
  <2> QED BY <1>1, <2>3
<1>3. ASSUME NEW n \in Nat, n \in S PROVE n + 1 \in S
  <2> SUFFICES ASSUME n + 1 <= Len(m)
               PROVE  ListSum(l \o SubSeq(m, 1, n + 1)) = ListSum(l) + ListSum(SubSeq(m, 1, n + 1))
    OBVIOUS
  <2> DEFINE p == SubSeq(m, 1, n)
             x == m[n + 1]
  <2>1. n + 1 \in 1..Len(m) /\ n <= Len(m) /\ x \in Nat
    BY <1>1, ElementOfSeq
  <2>2. SubSeq(m, 1, n + 1) = Append(p, x)
    BY <2>1, GrowSubSeq
  <2>3. p \in Seq(Nat)
    <3>1. \A i \in 1..n : i \in 1..Len(m)
      BY <1>1, <2>1
    <3>2. \A i \in 1..n : m[i] \in Nat
      BY <3>1, ElementOfSeq
    <3> QED BY <3>2, SubSeqProperties
  <2>4. ListSum(l \o p) = ListSum(l) + ListSum(p)
    BY <1>3, <2>1
  <2> HIDE DEF p, x
  <2>5. l \o Append(p, x) = Append(l \o p, x) /\ l \o p \in Seq(Nat)
    <3>1. <<x>> \in Seq(Nat) /\ Append(p, x) = p \o <<x>>
      BY <2>1, <2>3, AppendIsConcat
    <3> DEFINE e == <<x>>
    <3>2. l \o (p \o e) = (l \o p) \o e
      <4>1. l \in Seq(Nat) /\ p \in Seq(Nat) /\ e \in Seq(Nat)
        BY <2>3, <3>1
      <4> HIDE DEF e
      <4> QED BY ONLY <4>1, ConcatAssociative, SMTT(30)
    <3>3. l \o p \in Seq(Nat)
      BY <2>3, ConcatProperties
    <3>4. Append(l \o p, x) = (l \o p) \o <<x>>
      BY <2>1, <3>3, AppendIsConcat
    <3> QED BY <3>1, <3>2, <3>3, <3>4
  <2>6. ListSum(Append(l \o p, x)) = ListSum(l \o p) + x /\ ListSum(Append(p, x)) = ListSum(p) + x
    BY <2>1, <2>3, <2>5, ListSumAppend
  <2>7. ListSum(p) \in Nat
    BY <2>3, ListSumType
  <2>8. ListSum(l \o Append(p, x)) = ListSum(l) + ListSum(Append(p, x))
    BY <1>1, <2>1, <2>4, <2>5, <2>6, <2>7
  <2> QED BY <2>2, <2>8
<1>4. Len(m) \in S
  <2> HIDE DEF S
  <2> QED BY <1>1, <1>2, <1>3, Induction
<1>5. ListSum(l \o SubSeq(m, 1, Len(m))) = ListSum(l) + ListSum(SubSeq(m, 1, Len(m)))
  BY <1>1, <1>4
<1>6. SubSeq(m, 1, Len(m)) = m
  BY SubSeqFull
<1> QED BY <1>5, <1>6

(***************************************************************************)
(* A set in some order: each element once.                                 *)
(***************************************************************************)
LEMMA SetInOrder ==
  ASSUME NEW S, IsFiniteSet(S)
  PROVE  /\ SetToSeq(S) \in Seq(S) /\ Len(SetToSeq(S)) = Cardinality(S) /\ Cardinality(S) \in Nat
         /\ \A i, j \in 1..Len(SetToSeq(S)) : SetToSeq(S)[i] = SetToSeq(S)[j] => i = j
         /\ \A x \in S : \E i \in 1..Len(SetToSeq(S)) : SetToSeq(S)[i] = x
<1> DEFINE n == Cardinality(S)
           f == SetToSeq(S)
<1>1. n \in Nat /\ ExistsBijection(1..n, S)
  BY FS_CardinalityType
<1>2. \E g \in [1..n -> S] : IsInjective(g)
  BY <1>1 DEF ExistsBijection, Bijection, Injection
<1>3. f \in [1..n -> S] /\ IsInjective(f)
  BY <1>2 DEF SetToSeq
<1> HIDE DEF f
<1>4. f \in Seq(S) /\ Len(f) = n
  <2> HIDE DEF n
  <2>1. f \in Seq(S)
    BY <1>1, <1>3, SeqDef
  <2>2. DOMAIN f = 1..n /\ DOMAIN f = 1..Len(f) /\ Len(f) \in Nat
    BY <1>3, <2>1, LenProperties
  <2> QED BY <1>1, <2>1, <2>2
<1>5. f \in Surjection(1..n, S)
  <2>1. f \in Injection(1..n, S)
    BY <1>3 DEF Injection
  <2>2. IsFiniteSet(1..n) /\ Cardinality(1..n) = n
    <3> HIDE DEF n
    <3>1. Cardinality(1..n) = IF 1 > n THEN 0 ELSE n - 1 + 1
      BY <1>1, FS_Interval
    <3> QED BY <1>1, <3>1, FS_Interval
  <2> QED BY <2>1, <2>2, FS_Injection
<1>6. \A x \in S : \E i \in 1..n : f[i] = x
  BY <1>5 DEF Surjection
<1>7. \A i, j \in 1..n : f[i] = f[j] => i = j
  BY <1>3 DEF IsInjective
<1> QED BY <1>1, <1>4, <1>6, <1>7 DEF f

(***************************************************************************)
(* A clock that wraps around.                                              *)
(***************************************************************************)
LEMMA Remainder ==
  ASSUME NEW n \in Nat, NEW w \in Nat \ {0}, NEW q \in Nat, NEW r \in 0..(w - 1), n = w * q + r
  PROVE  n % w = r
OBVIOUS

(***************************************************************************)
(* Powers of two, as numbers of subsets.                                   *)
(***************************************************************************)
LEMMA PowerIs ==
  ASSUME NEW n \in Nat
  PROVE  IsFiniteSet(SUBSET (1..n)) /\ 2 ^ n = Cardinality(SUBSET (1..n)) /\ 2 ^ n \in Nat
<1>1. IsFiniteSet(1..n) /\ Cardinality(1..n) = n
  <2>1. Cardinality(1..n) = IF 1 > n THEN 0 ELSE n - 1 + 1
    BY FS_Interval
  <2> QED BY <2>1, FS_Interval
<1>2. IsFiniteSet(SUBSET (1..n)) /\ Cardinality(SUBSET (1..n)) = 2 ^ Cardinality(1..n)
  BY <1>1, FS_SUBSET
<1> QED BY <1>1, <1>2, FS_CardinalityType

LEMMA PowerNext == ASSUME NEW n \in Nat PROVE 2 ^ (n + 1) = 2 * 2 ^ n
<1> DEFINE S == SUBSET (1..n)
           U == {s \cup {n + 1} : s \in S}
           f == [s \in S |-> s \cup {n + 1}]
<1>1. SUBSET (1..(n + 1)) = S \cup U
  <2>1. ASSUME NEW s \in SUBSET (1..(n + 1)) PROVE s \in S \cup U
    <3>1. CASE n + 1 \in s
      <4>1. s \ {n + 1} \in S /\ s = (s \ {n + 1}) \cup {n + 1}
        BY <3>1
      <4> QED BY <4>1
    <3>2. CASE n + 1 \notin s
      BY <3>2
    <3> QED BY <3>1, <3>2
  <2>2. ASSUME NEW s \in S \cup U PROVE s \in SUBSET (1..(n + 1))
    OBVIOUS
  <2> QED BY <2>1, <2>2
<1>2. S \cap U = {}
  OBVIOUS
<1>3. f \in Bijection(S, U)
  <2>1. \A s, t \in S : f[s] = f[t] => s = t
    OBVIOUS
  <2>2. f \in [S -> U] /\ \A u \in U : \E s \in S : f[s] = u
    OBVIOUS
  <2> QED BY <2>1, <2>2 DEF Bijection, Injection, Surjection, IsInjective
<1>4. IsFiniteSet(S) /\ Cardinality(S) = 2 ^ n /\ 2 ^ n \in Nat
  BY PowerIs
<1>5. IsFiniteSet(U) /\ Cardinality(U) = Cardinality(S)
  <2> HIDE DEF S, U, f
  <2>1. ExistsBijection(S, U)
    BY <1>3 DEF ExistsBijection
  <2> QED BY <1>4, <2>1, FS_Bijection
<1>6. Cardinality(S \cup U) = Cardinality(S) + Cardinality(U)
  <2> HIDE DEF S, U
  <2>1. Cardinality(S \cup U) = Cardinality(S) + Cardinality(U) - Cardinality(S \cap U)
    BY <1>4, <1>5, FS_Union
  <2>2. Cardinality(S \cap U) = 0
    BY <1>2, FS_EmptySet
  <2>3. Cardinality(S) \in Nat /\ Cardinality(U) \in Nat
    BY <1>4, <1>5
  <2> QED BY <2>1, <2>2, <2>3
<1>7. 2 ^ (n + 1) = Cardinality(SUBSET (1..(n + 1)))
  BY PowerIs, n + 1 \in Nat
<1> DEFINE c == Cardinality(S)
<1>8. c \in Nat /\ 2 ^ (n + 1) = c + c /\ 2 ^ n = c
  BY <1>1, <1>4, <1>5, <1>6, <1>7
<1> HIDE DEF c
<1> QED BY <1>8

LEMMA PowerZero == 2 ^ 0 = 1
OBVIOUS

LEMMA PowerPositive == ASSUME NEW n \in Nat PROVE 2 ^ n \in Nat \ {0}
<1> DEFINE S == {m \in Nat : 2 ^ m > 0}
<1>1. 0 \in S
  BY PowerZero
<1>2. ASSUME NEW m \in Nat, m \in S PROVE m + 1 \in S
  <2>1. 2 ^ (m + 1) = 2 * 2 ^ m /\ 2 ^ m \in Nat /\ 2 ^ m > 0
    BY <1>2, PowerNext, PowerIs
  <2> DEFINE c == 2 ^ m
  <2>2. c \in Nat /\ c > 0 /\ 2 ^ (m + 1) = 2 * c
    BY <2>1
  <2> HIDE DEF c
  <2>3. 2 ^ (m + 1) > 0
    BY <2>2
  <2> QED BY <2>3
<1>3. n \in S
  <2> HIDE DEF S
  <2> QED BY <1>1, <1>2, Induction
<1> QED BY <1>3, PowerIs

LEMMA PowerSum == ASSUME NEW m \in Nat, NEW n \in Nat PROVE 2 ^ (m + n) = 2 ^ m * 2 ^ n
<1> DEFINE S == {k \in Nat : 2 ^ (m + k) = 2 ^ m * 2 ^ k}
<1>1. 0 \in S
  <2> DEFINE c == 2 ^ m
  <2>1. c \in Nat /\ 2 ^ (m + 0) = c
    BY PowerIs, m + 0 = m
  <2>2. 2 ^ (m + 0) = c * 1
    <3> HIDE DEF c
    <3> QED BY <2>1
  <2> QED BY <2>2, PowerZero
<1>2. ASSUME NEW k \in Nat, k \in S PROVE k + 1 \in S
  <2> DEFINE a == 2 ^ m
             b == 2 ^ k
             d == 2 ^ (k + 1)
             e == 2 ^ (m + k)
             f == 2 ^ (m + (k + 1))
  <2>1. a \in Nat /\ b \in Nat /\ e \in Nat /\ e = a * b /\ d = 2 * b
    BY <1>2, PowerIs, PowerNext, m + k \in Nat
  <2>2. f = 2 * e
    <3>1. m + (k + 1) = (m + k) + 1 /\ m + k \in Nat
      OBVIOUS
    <3> QED BY <3>1, PowerNext
  <2> HIDE DEF a, b, d, e, f
  <2>3. f = a * d
    BY <2>1, <2>2
  <2> QED BY <2>3 DEF a, d, f
<1>3. n \in S
  <2> HIDE DEF S
  <2> QED BY <1>1, <1>2, Induction
<1> QED BY <1>3

LEMMA PowerGrows == ASSUME NEW m \in Nat, NEW n \in Nat, m <= n PROVE 2 ^ m <= 2 ^ n
<1>1. n - m \in Nat /\ n = m + (n - m)
  OBVIOUS
<1> DEFINE a == 2 ^ m
           b == 2 ^ (n - m)
           c == 2 ^ n
<1>2. a \in Nat /\ b \in Nat \ {0} /\ c = a * b
  BY <1>1, PowerIs, PowerPositive, PowerSum
<1> HIDE DEF a, b, c
<1>3. a <= c
  BY <1>2
<1> QED BY <1>3 DEF a, c

(***************************************************************************)
(* Quotient and remainder.                                                 *)
(***************************************************************************)
LEMMA TimesGrows ==
  ASSUME NEW a \in Nat, NEW b \in Nat, NEW d \in Nat, a <= b
  PROVE  a * d <= b * d
OBVIOUS

LEMMA DivideOnce ==
  ASSUME NEW d \in Nat \ {0}, NEW q \in Nat, NEW r \in 0..(d - 1), NEW p \in Nat, NEW s \in 0..(d - 1),
         q * d + r = p * d + s
  PROVE  q = p /\ r = s
<1>1. ASSUME NEW x \in Nat, NEW y \in Nat, NEW u \in 0..(d - 1), NEW v \in 0..(d - 1), x * d + u = y * d + v, x < y
      PROVE  FALSE
  <2>1. (x + 1) * d <= y * d
    BY <1>1, TimesGrows
  <2>2. (x + 1) * d = x * d + d
    OBVIOUS
  <2> DEFINE m == x * d
             n == y * d
  <2>3. m \in Nat /\ n \in Nat /\ m + d <= n /\ m + u = n + v
    BY <1>1, <2>1, <2>2
  <2> HIDE DEF m, n
  <2> QED BY <2>3
<1>2. q = p
  BY <1>1
<1> QED BY <1>2

LEMMA Divided ==
  ASSUME NEW n \in Nat, NEW d \in Nat \ {0}
  PROVE  n \div d \in Nat /\ n % d \in 0..(d - 1) /\ n = (n \div d) * d + (n % d)
OBVIOUS

LEMMA DividedAs ==
  ASSUME NEW d \in Nat \ {0}, NEW q \in Nat, NEW r \in 0..(d - 1), NEW n \in Nat, n = q * d + r
  PROVE  n \div d = q /\ n % d = r
BY Divided, DivideOnce
=============================================================================
