--------------------------- MODULE SequenceLemmas ---------------------------
(***************************************************************************)
(* What the proofs about the serial backends need to know of sequences:    *)
(* taking from one, joining two, and cutting a concatenation where it was  *)
(* joined.                                                                 *)
(***************************************************************************)
EXTENDS Integers, Sequences, SequenceTheorems, TLAPS

LEMMA EmptyType == ASSUME NEW S PROVE << >> \in Seq(S) /\ Len(<< >>) = 0
  OBVIOUS

(***************************************************************************)
(* Sequences: what a read takes from the ring, and what is left of it.     *)
(***************************************************************************)
LEMMA TakeType ==
    ASSUME NEW S, NEW s \in Seq(S), NEW k \in 0 .. Len(s)
    PROVE  /\ SubSeq(s, 1, k) \in Seq(S)
           /\ SubSeq(s, k + 1, Len(s)) \in Seq(S)
           /\ Len(SubSeq(s, 1, k)) = k
           /\ Len(SubSeq(s, k + 1, Len(s))) = Len(s) - k
           /\ \A i \in 1 .. k : SubSeq(s, 1, k)[i] = s[i]
           /\ \A i \in 1 .. Len(s) - k : SubSeq(s, k + 1, Len(s))[i] = s[i + k]
  OBVIOUS

LEMMA JoinType ==
    ASSUME NEW S, NEW s \in Seq(S), NEW t \in Seq(S)
    PROVE  /\ s \o t \in Seq(S)
           /\ Len(s \o t) = Len(s) + Len(t)
           /\ \A i \in 1 .. Len(s) : (s \o t)[i] = s[i]
           /\ \A i \in 1 .. Len(t) : (s \o t)[i + Len(s)] = t[i]
  OBVIOUS

LEMMA HeadType ==
    ASSUME NEW S, NEW s \in Seq(S), s # << >>
    PROVE  /\ Head(s) \in S /\ Head(s) = s[1] /\ Len(s) > 0
           /\ Tail(s) \in Seq(S) /\ Len(Tail(s)) = Len(s) - 1
           /\ \A i \in 1 .. Len(s) - 1 : Tail(s)[i] = s[i + 1]
  OBVIOUS

(***************************************************************************)
(* Sequences: cutting a concatenation where it was joined, and joining     *)
(* what was cut.                                                           *)
(***************************************************************************)
LEMMA CutJoined ==
    ASSUME NEW S, NEW s \in Seq(S), NEW t \in Seq(S)
    PROVE  /\ SubSeq(s \o t, 1, Len(s)) = s
           /\ SubSeq(s \o t, Len(s) + 1, Len(s \o t)) = t
<1> DEFINE st == s \o t
           a == SubSeq(st, 1, Len(s))
           b == SubSeq(st, Len(s) + 1, Len(st))
<1>1. /\ st \in Seq(S)
      /\ Len(st) = Len(s) + Len(t)
      /\ \A i \in 1 .. Len(s) : st[i] = s[i]
      /\ \A i \in 1 .. Len(t) : st[i + Len(s)] = t[i]
  BY JoinType
<1>2. Len(s) \in Nat /\ Len(t) \in Nat /\ Len(s) \in 0 .. Len(st)
  BY <1>1
<1> HIDE DEF st
<1>3. /\ a \in Seq(S) /\ Len(a) = Len(s)
      /\ b \in Seq(S) /\ Len(b) = Len(t)
      /\ \A i \in 1 .. Len(s) : a[i] = s[i]
      /\ \A i \in 1 .. Len(t) : b[i] = t[i]
  BY <1>1, <1>2, TakeType
<1> HIDE DEF a, b
<1>4. a = s
  BY <1>3, SeqEqual
<1>5. b = t
  BY <1>3, SeqEqual
<1> QED
  BY <1>4, <1>5 DEF a, b, st

LEMMA JoinCut ==
    ASSUME NEW S, NEW s \in Seq(S), NEW k \in 0 .. Len(s)
    PROVE  SubSeq(s, 1, k) \o SubSeq(s, k + 1, Len(s)) = s
<1> DEFINE a == SubSeq(s, 1, k)
           b == SubSeq(s, k + 1, Len(s))
           ab == a \o b
<1>1. /\ a \in Seq(S) /\ Len(a) = k
      /\ b \in Seq(S) /\ Len(b) = Len(s) - k
      /\ \A i \in 1 .. k : a[i] = s[i]
      /\ \A i \in 1 .. Len(s) - k : b[i] = s[i + k]
  BY TakeType
<1> HIDE DEF a, b
<1>2. /\ ab \in Seq(S)
      /\ Len(ab) = Len(a) + Len(b)
      /\ \A i \in 1 .. Len(a) + Len(b) :
             ab[i] = IF i <= Len(a) THEN a[i] ELSE b[i - Len(a)]
  <2>1. a \in Seq(S) /\ b \in Seq(S)
    BY <1>1
  <2> QED
    BY <2>1, ConcatProperties
<1> HIDE DEF ab
<1>3. Len(ab) = Len(s) /\ \A i \in 1 .. Len(s) : ab[i] = s[i]
  BY <1>1, <1>2
<1>4. ab = s
  BY <1>2, <1>3, SeqEqual
<1> QED
  BY <1>4 DEF ab, a, b

LEMMA JoinHead ==
    ASSUME NEW S, NEW s \in Seq(S), s # << >>
    PROVE  <<Head(s)>> \o Tail(s) = s
<1> DEFINE a == <<Head(s)>>
           b == Tail(s)
           ab == a \o b
<1>1. /\ a \in Seq(S) /\ Len(a) = 1 /\ a[1] = s[1]
      /\ b \in Seq(S) /\ Len(b) = Len(s) - 1
      /\ \A i \in 1 .. Len(s) - 1 : b[i] = s[i + 1]
  BY HeadType
<1> HIDE DEF a, b
<1>2. /\ ab \in Seq(S)
      /\ Len(ab) = Len(a) + Len(b)
      /\ \A i \in 1 .. Len(a) + Len(b) :
             ab[i] = IF i <= Len(a) THEN a[i] ELSE b[i - Len(a)]
  <2>1. a \in Seq(S) /\ b \in Seq(S)
    BY <1>1
  <2> QED
    BY <2>1, ConcatProperties
<1> HIDE DEF ab
<1>3. Len(ab) = Len(s) /\ \A i \in 1 .. Len(s) : ab[i] = s[i]
  BY <1>1, <1>2
<1>4. ab = s
  BY <1>2, <1>3, SeqEqual
<1> QED
  BY <1>4 DEF ab, a, b

LEMMA JoinAppend ==
    ASSUME NEW S, NEW s \in Seq(S), NEW t \in Seq(S), NEW e \in S
    PROVE  s \o Append(t, e) = Append(s \o t, e)
<1> DEFINE te == Append(t, e)
           st == s \o t
           u == s \o te
           v == Append(st, e)
<1>1. /\ te \in Seq(S) /\ Len(te) = Len(t) + 1
      /\ te[Len(t) + 1] = e
      /\ \A i \in 1 .. Len(t) : te[i] = t[i]
  OBVIOUS
<1>2. /\ st \in Seq(S) /\ Len(st) = Len(s) + Len(t)
      /\ \A i \in 1 .. Len(s) + Len(t) :
             st[i] = IF i <= Len(s) THEN s[i] ELSE t[i - Len(s)]
  BY ConcatProperties
<1> HIDE DEF te, st
<1>3. /\ u \in Seq(S) /\ Len(u) = Len(s) + Len(te)
      /\ \A i \in 1 .. Len(s) + Len(te) :
             u[i] = IF i <= Len(s) THEN s[i] ELSE te[i - Len(s)]
  <2>1. te \in Seq(S)
    BY <1>1
  <2> QED
    BY <2>1, ConcatProperties
<1>4. /\ v \in Seq(S) /\ Len(v) = Len(st) + 1
      /\ v[Len(st) + 1] = e
      /\ \A i \in 1 .. Len(st) : v[i] = st[i]
  BY <1>2
<1> HIDE DEF u, v
<1>5. /\ Len(s) \in Nat /\ Len(t) \in Nat /\ Len(te) \in Nat
      /\ Len(u) = Len(v)
  BY <1>1, <1>2, <1>3, <1>4
<1>6. ASSUME NEW i \in 1 .. Len(u) PROVE u[i] = v[i]
  <2>1. i \in Nat /\ 1 <= i /\ i <= Len(s) + Len(t) + 1
    BY <1>1, <1>3, <1>5
  <2>2. CASE i <= Len(s)
    <3>1. u[i] = s[i] /\ st[i] = s[i]
      BY <2>1, <2>2, <1>2, <1>3, <1>5
    <3>2. v[i] = st[i]
      BY <2>1, <2>2, <1>2, <1>4, <1>5
    <3> QED
      BY <3>1, <3>2
  <2>3. CASE Len(s) < i /\ i <= Len(s) + Len(t)
    <3>1. u[i] = te[i - Len(s)] /\ st[i] = t[i - Len(s)]
      BY <2>1, <2>3, <1>1, <1>2, <1>3, <1>5
    <3>2. v[i] = st[i]
      BY <2>1, <2>3, <1>2, <1>4, <1>5
    <3>3. te[i - Len(s)] = t[i - Len(s)]
      BY <2>1, <2>3, <1>1, <1>5
    <3> QED
      BY <3>1, <3>2, <3>3
  <2>4. CASE i = Len(s) + Len(t) + 1
    <3>1. u[i] = te[Len(t) + 1]
      BY <2>1, <2>4, <1>1, <1>3, <1>5
    <3>2. v[i] = e
      BY <2>1, <2>4, <1>2, <1>4, <1>5
    <3> QED
      BY <3>1, <3>2, <1>1
  <2> QED
    BY <2>1, <2>2, <2>3, <2>4, <1>5
<1>7. u = v
  BY <1>3, <1>4, <1>5, <1>6, SeqEqual
<1> QED
  BY <1>7 DEF u, v, te, st
=============================================================================
