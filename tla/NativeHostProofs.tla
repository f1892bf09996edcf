--------------------------- MODULE NativeHostProofs ---------------------------
(***************************************************************************)
(* What NativeHost keeps of the proxy's observations and tells the         *)
(* extension about them, for every number of proxies, policies, epochs and *)
(* observations, proved with TLAPS.                                        *)
(*                                                                         *)
(* Three parts: the lists of observations (insertion in the order of the   *)
(* events, the newest few, those of one epoch), the inductive invariant,   *)
(* and why no response shows an older main frame than one before it.       *)
(***************************************************************************)
EXTENDS NativeHost, SequenceTheorems, WellFoundedInduction, TLAPS

-----------------------------------------------------------------------------
(* Lists.                                                                  *)

\* A set of natural numbers that is not empty has a least element: what the
\* inductions below stand on.
LEMMA Least ==
    ASSUME NEW T, T \subseteq Nat, T # {} PROVE \E x \in T : \A y \in T : x <= y
<1> DEFINE Below == OpToRel(<, Nat)
<1>1. IsWellFoundedOn(Below, Nat)
  BY NatLessThanWellFounded, Zenon
<1>2. PICK x \in T : \A y \in T : <<y, x>> \notin Below
  BY <1>1, WFMin, Zenon
<1>3. \A y \in Nat : y < x => <<y, x>> \in Below
  BY DEF OpToRel
<1>4. ASSUME NEW y \in T PROVE x <= y
  <2>1. ~(y < x)
    BY <1>2, <1>3, Zenon
  <2> QED BY <2>1
<1> QED BY <1>4

\* What holds of 0, and of n + 1 when it holds of n, holds up to any N.
LEMMA UpTo ==
    ASSUME NEW N \in Nat, NEW P, 0 \in P, \A n \in 0 .. N : n \in P /\ n < N => n + 1 \in P
    PROVE  0 .. N \subseteq P
<1> DEFINE T == {n \in 0 .. N : n \notin P}
<1> SUFFICES ASSUME T # {} PROVE FALSE
  OBVIOUS
<1>1. PICK x \in T : \A y \in T : x <= y
  <2>1. T \subseteq Nat
    OBVIOUS
  <2> HIDE DEF T
  <2> QED BY <2>1, Least
<1>2. x # 0 /\ x - 1 \in 0 .. N
  OBVIOUS
<1>3. x - 1 \notin T
  BY <1>1, <1>2
<1>4. x - 1 \in P /\ x - 1 < N
  BY <1>2, <1>3
<1> QED BY <1>2, <1>4

LEMMA EventsAreNumbers == \A o \in Observation : o.event \in Nat /\ o.epoch \in Nat /\ o.epoch # 0
BY LimitsArePositive DEF Observation, Epoch

\* The recursion by which OfEpoch goes through a list is well defined.
LEMMA KeptIsDefined ==
    ASSUME NEW s \in Seq(Observation), NEW e
    PROVE  \E f : f = [n \in 0 .. Len(s) |->
                          IF n = 0 THEN <<>>
                          ELSE IF s[n].epoch = e THEN Append(f[n - 1], s[n]) ELSE f[n - 1]]
<1> DEFINE Next1(f, n) == IF s[n].epoch = e THEN Append(f[n - 1], s[n]) ELSE f[n - 1]
           Body(f, n) == IF n = 0 THEN <<>> ELSE Next1(f, n)
           P == {m \in 0 .. Len(s) : \E f : f = [n \in 0 .. m |-> Body(f, n)]}
<1>1. Len(s) \in Nat
  OBVIOUS
<1>2. 0 \in P
  <2> DEFINE g == [n \in 0 .. 0 |-> <<>>]
  <2>1. g = [n \in 0 .. 0 |-> Body(g, n)]
    OBVIOUS
  <2> HIDE DEF g, Body
  <2> QED BY <1>1, <2>1
<1>3. ASSUME NEW m \in 0 .. Len(s), m \in P, m < Len(s) PROVE m + 1 \in P
  <2>1. PICK f : f = [n \in 0 .. m |-> Body(f, n)]
    BY <1>3
  <2> DEFINE g == [n \in 0 .. m + 1 |-> IF n = m + 1 THEN Next1(f, m + 1) ELSE f[n]]
  <2>2. \A n \in 0 .. m + 1 : g[n] = Body(g, n)
    <3> SUFFICES ASSUME NEW n \in 0 .. m + 1 PROVE g[n] = Body(g, n)
      OBVIOUS
    <3>1. CASE n = m + 1
      <4>1. n # 0 /\ n - 1 = m /\ g[n - 1] = f[n - 1] /\ g[n] = Next1(f, n)
        BY <3>1
      <4> QED BY <4>1
    <3>2. CASE n # m + 1 /\ n # 0
      <4>1. n \in 0 .. m /\ n - 1 \in 0 .. m + 1 /\ n - 1 # m + 1
        BY <3>2
      <4>2. g[n - 1] = f[n - 1] /\ g[n] = f[n]
        BY <4>1
      <4>3. f[n] = Next1(f, n)
        BY <2>1, <3>2, <4>1
      <4> QED BY <3>2, <4>2, <4>3
    <3>3. CASE n = 0
      <4>1. n # m + 1 /\ n \in 0 .. m
        BY <3>3
      <4>2. f[n] = <<>>
        BY <2>1, <3>3, <4>1
      <4> QED BY <3>3, <4>1, <4>2
    <3> QED BY <3>1, <3>2, <3>3
  <2>3. g = [n \in 0 .. m + 1 |-> Body(g, n)]
    BY <2>2
  <2>4. m + 1 \in 0 .. Len(s)
    BY <1>1, <1>3
  <2> HIDE DEF g, Body
  <2> QED BY <2>3, <2>4
<1>4. Len(s) \in P
  <2> HIDE DEF P
  <2>1. 0 .. Len(s) \subseteq P
    BY <1>1, <1>2, <1>3, UpTo
  <2> QED BY <1>1, <2>1
<1>5. \E f : f = [n \in 0 .. Len(s) |-> Body(f, n)]
  <2> HIDE DEF Body
  <2> QED BY <1>4
<1> QED BY <1>5

\* OfEpoch returns the observations of the epoch, all of them and no others,
\* in the order they had.
LEMMA OfEpochSelects ==
    ASSUME NEW s \in Seq(Observation), NEW e
    PROVE  /\ OfEpoch(s, e) \in Seq(Observation) /\ Len(OfEpoch(s, e)) <= Len(s)
           /\ ToSet(OfEpoch(s, e)) = {o \in ToSet(s) : o.epoch = e}
           /\ Ascends(s) => Ascends(OfEpoch(s, e))
<1> DEFINE kept[n \in 0 .. Len(s)] ==
              IF n = 0 THEN <<>>
              ELSE IF s[n].epoch = e THEN Append(kept[n - 1], s[n]) ELSE kept[n - 1]
           Selects(t, n) ==
              /\ t \in Seq(Observation) /\ Len(t) <= n
              /\ \A k \in 1 .. Len(t) : \E i \in 1 .. n : t[k] = s[i] /\ s[i].epoch = e
              /\ \A i \in 1 .. n : s[i].epoch = e => \E k \in 1 .. Len(t) : t[k] = s[i]
              /\ Ascends(s) => Ascends(t)
           P == {n \in 0 .. Len(s) : Selects(kept[n], n)}
<1>1. Len(s) \in Nat /\ \A i \in 1 .. Len(s) : s[i] \in Observation /\ s[i].event \in Nat
  BY EventsAreNumbers
<1>2. kept = [n \in 0 .. Len(s) |->
                 IF n = 0 THEN <<>>
                 ELSE IF s[n].epoch = e THEN Append(kept[n - 1], s[n]) ELSE kept[n - 1]]
  <2>1. kept = CHOOSE f : f = [n \in 0 .. Len(s) |->
                      IF n = 0 THEN <<>>
                      ELSE IF s[n].epoch = e THEN Append(f[n - 1], s[n]) ELSE f[n - 1]]
    OBVIOUS
  <2> HIDE DEF kept
  <2>2. \E f : f = [n \in 0 .. Len(s) |->
                      IF n = 0 THEN <<>>
                      ELSE IF s[n].epoch = e THEN Append(f[n - 1], s[n]) ELSE f[n - 1]]
    BY KeptIsDefined, SMTT(20)
  <2> QED BY <2>1, <2>2, Zenon
<1>3. OfEpoch(s, e) = kept[Len(s)]
  BY DEF OfEpoch
<1> HIDE DEF kept
<1>4. /\ kept[0] = <<>>
      /\ \A n \in 1 .. Len(s) :
             kept[n] = IF s[n].epoch = e THEN Append(kept[n - 1], s[n]) ELSE kept[n - 1]
  <2>1. 0 \in 0 .. Len(s) /\ \A n \in 1 .. Len(s) : n \in 0 .. Len(s) /\ n # 0
    BY <1>1
  <2> QED BY <1>2, <2>1, Zenon
<1>5. 0 \in P
  <2>1. Ascends(<<>>)
    BY DEF Ascends
  <2>2. Selects(<<>>, 0)
    BY <2>1
  <2> HIDE DEF Selects
  <2> QED BY <1>1, <1>4, <2>2
<1>6. ASSUME NEW n \in 0 .. Len(s), n \in P, n < Len(s) PROVE n + 1 \in P
  <2>1. n + 1 \in 1 .. Len(s) /\ (n + 1) - 1 = n /\ s[n + 1] \in Observation /\ n + 1 \in 0 .. Len(s)
    BY <1>1, <1>6
  <2>2. kept[n + 1] = IF s[n + 1].epoch = e THEN Append(kept[n], s[n + 1]) ELSE kept[n]
    BY <1>4, <2>1
  <2>3. Selects(kept[n], n)
    BY <1>6
  <2>4. CASE s[n + 1].epoch # e
    <3>1. kept[n + 1] = kept[n]
      BY <2>2, <2>4
    <3> DEFINE t == kept[n]
    <3>2. \A i \in 1 .. n + 1 : i \in 1 .. n \/ i = n + 1
      BY <2>1
    <3>3. Selects(t, n)
      BY <2>3
    <3> HIDE DEF t
    <3>4. t \in Seq(Observation) /\ Len(t) <= n + 1 /\ (Ascends(s) => Ascends(t))
      BY <2>1, <3>3
    <3>5. \A k \in 1 .. Len(t) : \E i \in 1 .. n + 1 : t[k] = s[i] /\ s[i].epoch = e
      <4> SUFFICES ASSUME NEW k \in 1 .. Len(t)
                   PROVE  \E i \in 1 .. n + 1 : t[k] = s[i] /\ s[i].epoch = e
        OBVIOUS
      <4>1. PICK i \in 1 .. n : t[k] = s[i] /\ s[i].epoch = e
        BY <3>3
      <4>2. i \in 1 .. n + 1
        BY <2>1
      <4> QED BY <4>1, <4>2
    <3>6. \A i \in 1 .. n + 1 : s[i].epoch = e => \E k \in 1 .. Len(t) : t[k] = s[i]
      BY <2>4, <3>2, <3>3
    <3>7. Selects(t, n + 1)
      BY <3>4, <3>5, <3>6
    <3> HIDE DEF Selects
    <3> QED BY <2>1, <3>1, <3>7 DEF t
  <2>5. CASE s[n + 1].epoch = e
    <3> DEFINE t == kept[n]  u == Append(t, s[n + 1])
    <3>1. t \in Seq(Observation) /\ Len(t) \in Nat /\ Len(t) <= n
      BY <2>3
    <3> HIDE DEF t
    <3>2. /\ u \in Seq(Observation) /\ Len(u) = Len(t) + 1
          /\ \A k \in 1 .. Len(t) : u[k] = t[k]
          /\ u[Len(t) + 1] = s[n + 1]
      BY <2>1, <3>1, AppendProperties
    <3> HIDE DEF u
    <3>3. \A k \in 1 .. Len(u) : k \in 1 .. Len(t) \/ k = Len(t) + 1
      BY <3>1, <3>2
    <3>4. \A k \in 1 .. Len(t) : \E i \in 1 .. n : t[k] = s[i] /\ s[i].epoch = e
      BY <2>3 DEF t
    <3>5. \A k \in 1 .. Len(u) : \E i \in 1 .. n + 1 : u[k] = s[i] /\ s[i].epoch = e
      <4> SUFFICES ASSUME NEW k \in 1 .. Len(u) PROVE \E i \in 1 .. n + 1 : u[k] = s[i] /\ s[i].epoch = e
        OBVIOUS
      <4>1. CASE k = Len(t) + 1
        BY <2>1, <2>5, <3>2, <4>1
      <4>2. CASE k \in 1 .. Len(t)
        BY <2>1, <3>2, <3>4, <4>2
      <4> QED BY <3>3, <4>1, <4>2
    <3>6. \A i \in 1 .. n + 1 : s[i].epoch = e => \E k \in 1 .. Len(u) : u[k] = s[i]
      <4> SUFFICES ASSUME NEW i \in 1 .. n + 1, s[i].epoch = e PROVE \E k \in 1 .. Len(u) : u[k] = s[i]
        OBVIOUS
      <4>1. CASE i = n + 1
        BY <3>1, <3>2, <4>1
      <4>2. CASE i \in 1 .. n
        <5>1. PICK k \in 1 .. Len(t) : t[k] = s[i]
          BY <2>3, <4>2 DEF t
        <5> QED BY <3>1, <3>2, <5>1
      <4> QED BY <2>1, <4>1, <4>2
    <3>7. ASSUME Ascends(s) PROVE Ascends(u)
      <4> SUFFICES ASSUME NEW i \in 1 .. Len(u), NEW j \in 1 .. Len(u), i < j
                   PROVE  u[i].event < u[j].event
        BY <3>2 DEF Ascends
      <4>1. i \in 1 .. Len(t)
        BY <3>1, <3>2
      <4>2. CASE j = Len(t) + 1
        <5>1. PICK m \in 1 .. n : t[i] = s[m]
          BY <3>4, <4>1
        <5>2. m \in 1 .. Len(s) /\ m < n + 1
          BY <2>1
        <5> QED BY <2>1, <3>2, <3>7, <4>1, <4>2, <5>1, <5>2 DEF Ascends
      <4>3. CASE j \in 1 .. Len(t)
        <5>1. Ascends(t)
          BY <2>3, <3>7 DEF t
        <5> QED BY <3>1, <3>2, <4>1, <4>3, <5>1, SMTT(20) DEF Ascends
      <4> QED BY <3>3, <4>2, <4>3
    <3>8. Selects(u, n + 1)
      BY <2>1, <3>1, <3>2, <3>5, <3>6, <3>7
    <3>9. kept[n + 1] = u
      BY <2>2, <2>5 DEF u, t
    <3> QED BY <2>1, <3>8, <3>9
  <2> QED BY <2>4, <2>5
<1>7. Selects(kept[Len(s)], Len(s))
  <2>1. 0 .. Len(s) \subseteq P
    <3> HIDE DEF P
    <3> QED BY <1>1, <1>5, <1>6, UpTo
  <2> QED BY <1>1, <2>1
<1>8. ToSet(OfEpoch(s, e)) = {o \in ToSet(s) : o.epoch = e}
  <2> DEFINE t == kept[Len(s)]
  <2>1. DOMAIN t = 1 .. Len(t) /\ DOMAIN s = 1 .. Len(s)
    BY <1>7
  <2> HIDE DEF t
  <2>2. /\ \A k \in 1 .. Len(t) : \E i \in 1 .. Len(s) : t[k] = s[i] /\ s[i].epoch = e
        /\ \A i \in 1 .. Len(s) : s[i].epoch = e => \E k \in 1 .. Len(t) : t[k] = s[i]
    BY <1>7 DEF t
  <2>3. ASSUME NEW o, o \in ToSet(t) PROVE o \in ToSet(s) /\ o.epoch = e
    <3>1. PICK k \in 1 .. Len(t) : o = t[k]
      BY <2>1, <2>3 DEF ToSet
    <3>2. PICK i \in 1 .. Len(s) : t[k] = s[i] /\ s[i].epoch = e
      BY <2>2
    <3> QED BY ONLY <2>1, <3>1, <3>2 DEF ToSet
  <2>4. ASSUME NEW o, o \in ToSet(s), o.epoch = e PROVE o \in ToSet(t)
    <3>1. PICK i \in 1 .. Len(s) : o = s[i]
      BY <2>1, <2>4 DEF ToSet
    <3>2. PICK k \in 1 .. Len(t) : t[k] = s[i]
      BY <2>2, <2>4, <3>1
    <3> QED BY ONLY <2>1, <3>1, <3>2 DEF ToSet
  <2>5. ToSet(OfEpoch(s, e)) = ToSet(t)
    BY <1>3 DEF t
  <2> QED BY <2>3, <2>4, <2>5
<1> QED BY <1>3, <1>7, <1>8

\* NewestOf keeps the end of a list, in its order and not too much of it.
LEMMA NewestOfKeepsOrder ==
    ASSUME NEW s \in Seq(Observation)
    PROVE  /\ NewestOf(s) \in Seq(Observation) /\ IsShort(NewestOf(s))
           /\ ToSet(NewestOf(s)) \subseteq ToSet(s)
           /\ Ascends(s) => Ascends(NewestOf(s))
<1> DEFINE m == IF Len(s) > MAX_RECENT_SECURITY_RESULTS
                THEN Len(s) - MAX_RECENT_SECURITY_RESULTS + 1 ELSE 1
           t == NewestOf(s)
<1>1. Len(s) \in Nat /\ MAX_RECENT_SECURITY_RESULTS \in Nat \ {0}
  BY LimitsArePositive
<1>2. m \in 1 .. Len(s) + 1 /\ Len(s) - m + 1 <= MAX_RECENT_SECURITY_RESULTS
  BY <1>1
<1>3. t = SubSeq(s, m, Len(s))
  BY DEF NewestOf
<1> HIDE DEF m, t
<1>4. /\ t \in Seq(Observation) /\ Len(t) = Len(s) - m + 1
      /\ \A i \in 1 .. Len(t) : t[i] = s[m + i - 1]
  <2>1. CASE m = Len(s) + 1
    BY <1>1, <1>2, <1>3, <2>1
  <2>2. CASE m \in 1 .. Len(s)
    BY <1>1, <1>3, <2>2, SubSeqProperties
  <2> QED BY <1>1, <1>2, <2>1, <2>2
<1>5. \A i \in 1 .. Len(t) : m + i - 1 \in 1 .. Len(s)
  BY <1>1, <1>2, <1>4
<1>6. ToSet(t) \subseteq ToSet(s)
  BY <1>4, <1>5 DEF ToSet
<1>7. Ascends(s) => Ascends(t)
  <2> SUFFICES ASSUME Ascends(s), NEW i \in 1 .. Len(t), NEW j \in 1 .. Len(t), i < j
               PROVE  t[i].event < t[j].event
    BY <1>4 DEF Ascends
  <2>1. m + i - 1 < m + j - 1
    BY <1>2
  <2> QED BY <1>4, <1>5, <2>1 DEF Ascends
<1>8. IsShort(t)
  BY <1>2, <1>4 DEF IsShort
<1> QED BY <1>4, <1>6, <1>7, <1>8 DEF t

\* An observation that finishes late is put where its event belongs.
LEMMA RetainedKeepsOrder ==
    ASSUME NEW s \in Seq(Observation), NEW o \in Observation, IsShort(s)
    PROVE  /\ Retained(s, o) \in Seq(Observation) /\ IsShort(Retained(s, o))
           /\ ToSet(Retained(s, o)) \subseteq ToSet(s) \cup {o}
           /\ Ascends(s) => Ascends(Retained(s, o))
<1>1. CASE Known(s, o)
  BY <1>1 DEF Retained
<1>2. CASE ~Known(s, o)
  <2> DEFINE later == {i \in DOMAIN s : s[i].event > o.event} \cup {Len(s) + 1}
             k == Min(later)
             t == InsertAt(s, k, o)
  <2>1. Len(s) \in Nat /\ DOMAIN s = 1 .. Len(s) /\ o.event \in Nat
        /\ \A i \in 1 .. Len(s) : s[i] \in Observation /\ s[i].event \in Nat /\ s[i].event # o.event
    BY <1>2, EventsAreNumbers DEF Known
  <2>2. later \subseteq 1 .. Len(s) + 1 /\ later \subseteq Nat /\ later # {}
    BY <2>1
  <2>3. k \in later /\ \A i \in later : k <= i
    <3> HIDE DEF later
    <3>1. \E x \in later : \A y \in later : x <= y
      BY <2>2, Least
    <3> QED BY <3>1, Zenon DEF Min
  <2>4. k \in 1 .. Len(s) + 1 /\ (k \in 1 .. Len(s) => s[k].event > o.event)
        /\ \A i \in 1 .. Len(s) : i < k => s[i].event < o.event
    <3> HIDE DEF k
    <3>1. \A i \in 1 .. Len(s) : i < k => ~(s[i].event > o.event)
      BY <2>1, <2>2, <2>3
    <3> QED BY <2>1, <2>2, <2>3, <3>1
  <2> HIDE DEF k
  <2>5. /\ t \in Seq(Observation) /\ Len(t) = Len(s) + 1
        /\ \A i \in 1 .. Len(s) + 1 : t[i] = IF i < k THEN s[i] ELSE IF i = k THEN o ELSE s[i - 1]
    <3> DEFINE u == SubSeq(s, 1, k - 1)  v == SubSeq(s, k, Len(s))
    <3>1. /\ u \in Seq(Observation) /\ Len(u) = k - 1
          /\ \A i \in 1 .. k - 1 : u[i] = s[i]
      BY <2>1, <2>4, SubSeqProperties
    <3>2. /\ v \in Seq(Observation) /\ Len(v) = Len(s) - k + 1
          /\ \A i \in 1 .. Len(v) : v[i] = s[k + i - 1]
      BY <2>1, <2>4, SubSeqProperties
    <3> DEFINE w == u \o <<o>>
    <3>3. t = w \o v
      BY DEF InsertAt
    <3> HIDE DEF u, v, t
    <3>4. /\ w \in Seq(Observation) /\ Len(w) = k /\ w[k] = o
          /\ \A i \in 1 .. k - 1 : w[i] = s[i]
      BY <2>4, <3>1
    <3> HIDE DEF w
    <3>5. /\ t \in Seq(Observation) /\ Len(t) = Len(w) + Len(v)
          /\ \A i \in 1 .. Len(w) + Len(v) : t[i] = IF i <= Len(w) THEN w[i] ELSE v[i - Len(w)]
      BY <3>2, <3>3, <3>4, ConcatProperties
    <3>6. \A i \in k + 1 .. Len(s) + 1 : t[i] = s[i - 1]
      <4> SUFFICES ASSUME NEW i \in k + 1 .. Len(s) + 1 PROVE t[i] = s[i - 1]
        OBVIOUS
      <4>1. i - k \in 1 .. Len(v) /\ i \in 1 .. Len(w) + Len(v) /\ ~(i <= Len(w))
        BY <2>1, <2>4, <3>2, <3>4
      <4>2. k + (i - k) - 1 = i - 1
        BY <2>4
      <4> QED BY <3>2, <3>4, <3>5, <4>1, <4>2
    <3>7. Len(t) = Len(s) + 1
      BY <2>1, <2>4, <3>2, <3>4, <3>5
    <3>8. \A i \in 1 .. k : t[i] = IF i < k THEN s[i] ELSE o
      <4> SUFFICES ASSUME NEW i \in 1 .. k PROVE t[i] = IF i < k THEN s[i] ELSE o
        OBVIOUS
      <4>1. t[i] = w[i]
        BY <2>1, <2>4, <3>2, <3>4, <3>5
      <4> QED BY <2>4, <3>4, <4>1
    <3> QED BY <2>1, <2>4, <3>5, <3>6, <3>7, <3>8
  <2>6. Retained(s, o) = NewestOf(t)
    BY <1>2 DEF Retained, k
  <2> HIDE DEF t
  <2>7. ToSet(t) \subseteq ToSet(s) \cup {o}
    <3> SUFFICES ASSUME NEW i \in 1 .. Len(t) PROVE t[i] \in ToSet(s) \cup {o}
      BY <2>5 DEF ToSet
    <3>1. CASE i < k
      BY <2>1, <2>4, <2>5, <3>1 DEF ToSet
    <3>2. CASE i > k
      <4>1. i - 1 \in DOMAIN s /\ t[i] = s[i - 1]
        BY <2>1, <2>4, <2>5, <3>2
      <4> QED BY <4>1 DEF ToSet
    <3> QED BY <2>4, <2>5, <3>1, <3>2
  <2>8. ASSUME Ascends(s) PROVE Ascends(t)
    <3> SUFFICES ASSUME NEW i \in 1 .. Len(t), NEW j \in 1 .. Len(t), i < j
                 PROVE  t[i].event < t[j].event
      BY <2>5 DEF Ascends
    <3>1. \A a, b \in 1 .. Len(s) : a < b => s[a].event < s[b].event
      BY <2>1, <2>8 DEF Ascends
    <3>2. \A a \in 1 .. Len(s) : k <= a => s[a].event > o.event
      <4> SUFFICES ASSUME NEW a \in 1 .. Len(s), k <= a PROVE s[a].event > o.event
        OBVIOUS
      <4>1. k \in 1 .. Len(s) /\ s[k].event > o.event
        BY <2>1, <2>4
      <4> QED BY <2>1, <3>1, <4>1
    <3>3. CASE j < k
      BY <2>1, <2>4, <2>5, <3>1, <3>3
    <3>4. CASE j = k
      BY <2>1, <2>4, <2>5, <3>4
    <3>5. CASE j > k
      <4>1. j - 1 \in 1 .. Len(s) /\ t[j] = s[j - 1] /\ k <= j - 1
        BY <2>1, <2>4, <2>5, <3>5
      <4>2. CASE i < k
        <5>1. i \in 1 .. Len(s) /\ t[i] = s[i] /\ i < j - 1
          BY <2>1, <2>4, <2>5, <4>1, <4>2
        <5> QED BY <3>1, <4>1, <5>1
      <4>3. CASE i = k
        BY <2>4, <2>5, <3>2, <4>1, <4>3
      <4>4. CASE i > k
        <5>1. i - 1 \in 1 .. Len(s) /\ t[i] = s[i - 1] /\ i - 1 < j - 1
          BY <2>1, <2>4, <2>5, <4>4
        <5> QED BY <3>1, <4>1, <5>1
      <4> QED BY <2>4, <4>2, <4>3, <4>4
    <3> QED BY <2>4, <3>3, <3>4, <3>5
  <2> QED BY <2>5, <2>6, <2>7, <2>8, NewestOfKeepsOrder
<1> QED BY <1>1, <1>2

-----------------------------------------------------------------------------
(* The inductive invariant.                                                *)

\* The steps at which a response is being put together.
Reading == {"latest", "reason", "connects", "recent", "again", "reply"}
AtMostOne(s) == \A x, y \in s : x = y

\* Events are numbered in the order of the epochs, and nothing that was
\* observed, sampled or shown is ahead of the runtime's counters.
Numbered ==
    /\ newest <= event /\ main.floor <= event
    /\ epoch # 0 => highest <= epoch /\ sample <= epoch
    /\ \A o \in flight : o.event <= event /\ o.gen <= generation /\ (epoch # 0 => o.epoch <= epoch)
    /\ \A o1, o2 \in flight : o1.epoch < o2.epoch => o1.event < o2.event

\* The latest main frame is that of the highest epoch, if there is one, and
\* whatever is yet to come of a later epoch is of a later event.
MainIsNewest ==
    /\ main.epoch \in {0, highest} /\ (main.epoch = 0 => main = NoMain)
    /\ AtMostOne(main.result)
    /\ \A o \in main.result : o.event = main.floor /\ o.epoch = main.epoch
    /\ main.epoch # 0 => \A o \in flight : o.epoch > main.epoch => o.event > main.floor

\* What is stored ascends, is of the active proxy and of one epoch.
Kept == main.result \cup ToSet(recent) \cup ToSet(connects)
Stored ==
    /\ Ascends(recent) /\ Ascends(connects)
    /\ \A o \in Kept : o.epoch = highest /\ MatchesContext(o)

\* A response is of the context and the epoch that it was begun with.
OfOneTuple(a) ==
    \A o \in Told(a) : [gen |-> o.gen, policy |-> o.policy] = a.of /\ o.epoch = a.epoch
Answered ==
    /\ step \in Reading => answer.of = context /\ answer.epoch = sample
    /\ step \notin Reading => answer = NoAnswer
    /\ step = "latest" => answer.main = {}
    /\ OfOneTuple(answer) /\ Ascends(answer.recent) /\ Ascends(answer.connects)
    /\ AtMostOne(answer.main)
    /\ \A o \in answer.main : o.event >= newest /\ o.event <= event
Shown ==
    OfOneTuple(shown) /\ Ascends(shown.recent) /\ Ascends(shown.connects)

\* No main frame of epoch v that is older than event n is stored, nor will
\* be: a late one is below the floor, or below the highest epoch.
NoneBefore(v, n) ==
    /\ main.epoch = v => main.floor >= n
    /\ \A o \in flight :
          MatchesContext(o) /\ o.epoch = v /\ v >= highest /\ o.event < n => main.epoch = v

\* This is so of every epoch a response may be about, and of what is shown or
\* about to be.  A new proxy and a sync forget the floor, but what comes after
\* them is of later events, except when the epoch is not the present one.
Sampled(v) == v # 0 /\ (v = epoch \/ (step = "latest" /\ v = sample))
NeverOlder ==
    /\ \A v \in Epoch : Sampled(v) => NoneBefore(v, newest)
    /\ epoch # 0 => \A o \in answer.main : NoneBefore(epoch, o.event)
    /\ step \in {"tuple", "activate"} =>
          \A o \in flight : o.gen = generation => o.event > newest
    /\ step = "retain" =>
          /\ sample = 0 => epoch = 0
          /\ sample # 0 => \A o \in flight : o.epoch > sample => o.event > newest

IInv == TypeOK /\ Numbered /\ MainIsNewest /\ Stored /\ Answered /\ Shown /\ NeverOlder

-----------------------------------------------------------------------------
(* The store.                                                              *)

LEMMA NothingIsTyped ==
    /\ NoMain \in MainFrame /\ NoAnswer \in Answer /\ Inactive \in Context
    /\ <<>> \in Seq(Observation) /\ IsShort(<<>>) /\ Ascends(<<>>) /\ ToSet(<<>>) = {}
    /\ IsShort(NoAnswer.recent) /\ IsShort(NoAnswer.connects)
    /\ Ascends(NoAnswer.recent) /\ Ascends(NoAnswer.connects) /\ Told(NoAnswer) = {}
<1>1. <<>> \in Seq(Observation) /\ Len(<<>>) = 0 /\ DOMAIN <<>> = {}
  OBVIOUS
<1>2. IsShort(<<>>) /\ Ascends(<<>>) /\ ToSet(<<>>) = {}
  BY <1>1, LimitsArePositive DEF IsShort, Ascends, ToSet
<1>3. Inactive \in Context /\ 0 \in Epoch /\ 0 \in 0 .. MaxEvents
  BY LimitsArePositive DEF Inactive, Context, Gen, Epoch
<1>4. NoMain \in MainFrame
  BY <1>3 DEF NoMain, MainFrame
<1>5. NoAnswer \in Answer
  BY <1>1, <1>3 DEF NoAnswer, Answer
<1>6. Told(NoAnswer) = {}
  BY <1>2 DEF Told, NoAnswer
<1> QED BY <1>1, <1>2, <1>3, <1>4, <1>5, <1>6 DEF NoAnswer

\* What MainAfter returns is what was, or the observation.
LEMMA MainAfterIs ==
    ASSUME NEW old \in MainFrame, NEW o \in Observation
    PROVE  /\ MainAfter(old, o) \in MainFrame
           /\ \/ MainAfter(old, o) = old
              \/ /\ o.event > old.floor /\ o.kind = "page"
                 /\ MainAfter(old, o).epoch = o.epoch /\ MainAfter(old, o).floor = o.event
                 /\ MainAfter(old, o).result \subseteq {o}
<1>1. o.epoch \in Epoch /\ o.event \in 0 .. MaxEvents /\ o.available \in BOOLEAN /\ o.event \in Nat
  BY EventsAreNumbers, LimitsArePositive DEF Observation
<1>2. old.floor \in Nat
  BY LimitsArePositive DEF MainFrame
<1>3. CASE o.kind # "page" \/ o.event <= old.floor
  BY <1>3 DEF MainAfter
<1>4. CASE ~(o.kind # "page" \/ o.event <= old.floor)
  <2>1. MainAfter(old, o) = [epoch |-> o.epoch, floor |-> o.event,
                             result |-> IF o.available THEN {o} ELSE {}, reason |-> ~o.available]
    BY <1>4 DEF MainAfter
  <2>2. (IF o.available THEN {o} ELSE {}) \in SUBSET Observation /\ (~o.available) \in BOOLEAN
    BY <1>1
  <2>3. MainAfter(old, o) \in MainFrame
    BY <1>1, <2>1, <2>2 DEF MainFrame
  <2> QED BY <1>1, <1>2, <1>4, <2>1, <2>3
<1> QED BY <1>3, <1>4

\* The store after an observation was handed over: unchanged, or with it.
StoreTyped ==
    /\ context \in Context /\ highest \in Epoch /\ main \in MainFrame
    /\ recent \in Seq(Observation) /\ connects \in Seq(Observation)
    /\ IsShort(recent) /\ IsShort(connects)

LEMMA RetainStep ==
    ASSUME StoreTyped, Stored, NEW o \in Observation, Retain(o), UNCHANGED context,
           MatchesContext(o), Admits(o)
    PROVE  StoreTyped' /\ Stored'
<1>1. /\ main' \in MainFrame
      /\ main'.result \subseteq {o} \cup (IF Replaces(o) THEN {} ELSE main.result)
  <2> DEFINE old == IF Replaces(o) THEN NoMain ELSE main
  <2>1. old \in MainFrame /\ old.result = IF Replaces(o) THEN {} ELSE main.result
    BY NothingIsTyped DEF StoreTyped, NoMain
  <2>2. main' = MainAfter(old, o)
    BY DEF Retain
  <2> HIDE DEF old
  <2> QED BY <2>1, <2>2, MainAfterIs
<1> DEFINE Base(s) == IF Replaces(o) THEN <<>> ELSE s
<1>2. ASSUME NEW s \in Seq(Observation), NEW t, IsShort(s), Ascends(s), t \in {Base(s), Retained(Base(s), o)}
      PROVE  /\ t \in Seq(Observation) /\ IsShort(t) /\ Ascends(t)
             /\ ToSet(t) \subseteq {o} \cup (IF Replaces(o) THEN {} ELSE ToSet(s))
  <2>1. /\ Base(s) \in Seq(Observation) /\ IsShort(Base(s)) /\ Ascends(Base(s))
        /\ ToSet(Base(s)) = IF Replaces(o) THEN {} ELSE ToSet(s)
    BY <1>2, NothingIsTyped
  <2> HIDE DEF Base
  <2> QED BY <1>2, <2>1, RetainedKeepsOrder
<1>3. recent' \in {Base(recent), Retained(Base(recent), o)} /\ connects' \in {Base(connects), Retained(Base(connects), o)}
  BY DEF Retain
<1> HIDE DEF Base
<1>4. /\ recent' \in Seq(Observation) /\ IsShort(recent') /\ Ascends(recent')
      /\ ToSet(recent') \subseteq {o} \cup (IF Replaces(o) THEN {} ELSE ToSet(recent))
  BY <1>2, <1>3 DEF StoreTyped, Stored
<1>5. /\ connects' \in Seq(Observation) /\ IsShort(connects') /\ Ascends(connects')
      /\ ToSet(connects') \subseteq {o} \cup (IF Replaces(o) THEN {} ELSE ToSet(connects))
  BY <1>2, <1>3 DEF StoreTyped, Stored
<1>6. highest' = o.epoch /\ o.epoch \in Epoch /\ o.epoch >= highest /\ highest \in Epoch
  BY LimitsArePositive DEF Retain, Observation, Admits, StoreTyped
<1>7. ~Replaces(o) => highest' = highest
  BY <1>6, LimitsArePositive DEF Replaces, Epoch
<1>8. \A x \in main'.result \cup ToSet(recent') \cup ToSet(connects') :
         x = o \/ (x \in Kept /\ highest' = highest)
  BY <1>1, <1>4, <1>5, <1>7 DEF Kept
<1>9. \A x \in main'.result \cup ToSet(recent') \cup ToSet(connects') :
         x.epoch = highest' /\ context' = [gen |-> x.gen, policy |-> x.policy]
  BY <1>6, <1>8 DEF Stored, MatchesContext
<1>10. StoreTyped'
  BY <1>1, <1>4, <1>5, <1>6 DEF StoreTyped
<1>11. Stored'
  BY <1>4, <1>5, <1>9 DEF Stored, Kept, MatchesContext
<1> QED BY <1>10, <1>11

LEMMA ForgetStep ==
    ASSUME StoreTyped, Stored, MainIsNewest, NEW e \in Epoch, ForgetOtherEpochs(e), UNCHANGED context
    PROVE  StoreTyped' /\ Stored'
<1>1. main' \in MainFrame /\ \A x \in main'.result : x \in main.result /\ x.epoch = e
  BY NothingIsTyped DEF ForgetOtherEpochs, StoreTyped, MainIsNewest, NoMain
<1>2. ASSUME NEW s \in Seq(Observation), IsShort(s), Ascends(s)
      PROVE  /\ OfEpoch(s, e) \in Seq(Observation) /\ IsShort(OfEpoch(s, e)) /\ Ascends(OfEpoch(s, e))
             /\ \A x \in ToSet(OfEpoch(s, e)) : x \in ToSet(s) /\ x.epoch = e
  <2>1. Len(s) \in Nat /\ Len(OfEpoch(s, e)) \in Nat
    BY OfEpochSelects, LenProperties
  <2> QED BY <1>2, <2>1, OfEpochSelects, LimitsArePositive DEF IsShort
<1>3. recent' = OfEpoch(recent, e) /\ connects' = OfEpoch(connects, e) /\ highest' = e
  BY DEF ForgetOtherEpochs
<1>4. StoreTyped'
  BY <1>1, <1>2, <1>3 DEF StoreTyped, Stored
<1>5. \A x \in main'.result \cup ToSet(recent') \cup ToSet(connects') : x \in Kept /\ x.epoch = e
  BY <1>1, <1>2, <1>3 DEF StoreTyped, Stored, Kept
<1>6. Stored'
  BY <1>2, <1>3, <1>5 DEF StoreTyped, Stored, Kept, MatchesContext
<1> QED BY <1>4, <1>6

LEMMA ResetStep ==
    ASSUME NEW c \in Context, NEW e \in Epoch, Reset(c, e)
    PROVE  StoreTyped' /\ Stored'
BY NothingIsTyped DEF Reset, StoreTyped, Stored, Kept, NoMain

\* The counters are numbers.
LEMMA CountersAreNat ==
    ASSUME TypeOK
    PROVE  /\ epoch \in Nat /\ event \in Nat /\ generation \in Nat /\ policy \in Nat
           /\ highest \in Nat /\ sample \in Nat /\ newest \in Nat
           /\ main.epoch \in Nat /\ main.floor \in Nat
           /\ \A o \in flight : /\ o \in Observation /\ o.event \in Nat /\ o.epoch \in Nat
                                /\ o.epoch # 0 /\ o.gen \in Nat
           /\ \A o \in answer.main : o.event \in Nat
           /\ StoreTyped
<1>1. \A o \in Observation : o.gen \in Nat
  BY LimitsArePositive DEF Observation, Gen
<1>2. answer.main \subseteq Observation
  BY DEF TypeOK, Answer
<1> QED BY <1>1, <1>2, EventsAreNumbers, LimitsArePositive DEF TypeOK, Epoch, Gen, MainFrame, StoreTyped

\* An observation that is stored.
Storing(o) == MatchesContext(o) /\ Admits(o) /\ Retain(o) /\ UNCHANGED context

\* Every variable keeps its type.
LEMMA TypeStep ==
    ASSUME TypeOK, MainIsNewest, Stored, [Next]_vars PROVE TypeOK' /\ Stored'
<1>1. StoreTyped /\ sample \in Epoch /\ epoch \in Epoch
  BY CountersAreNat DEF TypeOK
<1> DEFINE Runtime == /\ epoch \in Epoch /\ policy \in 1 .. MaxPolicy /\ event \in 0 .. MaxEvents
                      /\ generation \in Gen /\ running \subseteq 1 .. generation
                      /\ flight \subseteq Observation
           HostTyped == /\ step \in Step /\ request \in Request
                        /\ proxy \in Gen /\ sample \in Epoch /\ newest \in 0 .. MaxEvents
                        /\ answer \in Answer /\ shown \in Answer
                        /\ \A a \in {answer, shown} : IsShort(a.recent) /\ IsShort(a.connects)
<1>2. TypeOK' <=> Runtime' /\ StoreTyped' /\ HostTyped'
  BY DEF TypeOK, StoreTyped
<1>3. Runtime /\ HostTyped
  BY DEF TypeOK
<1>4. UNCHANGED runtime /\ UNCHANGED flight => Runtime'
  BY <1>3 DEF runtime
<1>5. UNCHANGED host => HostTyped'
  BY <1>3 DEF host
<1>6. UNCHANGED store => StoreTyped' /\ Stored'
  BY <1>1 DEF store, StoreTyped, Stored, Kept, MatchesContext
<1>7. 0 \in Epoch /\ 0 \in Gen
  BY LimitsArePositive DEF Epoch, Gen
<1>8. CASE UNCHANGED vars
  BY <1>2, <1>4, <1>5, <1>6, <1>8 DEF vars
<1>9. ASSUME NEW g \in Gen, Admit(g) PROVE TypeOK' /\ Stored'
  <2>1. event' = event + 1 /\ event' \in 1 .. MaxEvents /\ g # 0
    BY <1>3, <1>9, LimitsArePositive DEF Admit, Gen
  <2>2. ASSUME NEW k \in {"page", "part", "connect"}, NEW b \in BOOLEAN
        PROVE  [gen |-> g, policy |-> policy, epoch |-> epoch,
                event |-> event', kind |-> k, available |-> b] \in Observation
    BY <1>3, <1>9, <2>1 DEF Admit, Observation
  <2>3. flight' \subseteq Observation
    BY <1>3, <1>9, <2>2 DEF Admit
  <2>4. Runtime'
    BY <1>3, <1>9, <2>1, <2>3 DEF Admit
  <2> QED BY <1>2, <1>5, <1>6, <1>9, <2>4 DEF Admit
<1>10. ASSUME NEW o \in flight, Observe(o) PROVE TypeOK' /\ Stored'
  <2>1. Runtime' /\ HostTyped'
    BY <1>3, <1>5, <1>10 DEF Observe, runtime
  <2>2. CASE Storing(o)
    BY <1>1, <1>2, <1>3, <2>1, <2>2, RetainStep DEF Storing
  <2>3. CASE UNCHANGED store
    BY <1>2, <1>6, <2>1, <2>3
  <2> QED BY <1>10, <2>2, <2>3 DEF Observe, Storing, store
<1>11. ASSUME NEW o \in flight, Lose(o) PROVE TypeOK' /\ Stored'
  BY <1>2, <1>3, <1>5, <1>6, <1>11 DEF Lose, runtime
<1>12. CASE AdvanceEpoch
  <2>1. epoch' \in Epoch
    BY <1>1, <1>12, LimitsArePositive DEF AdvanceEpoch, Epoch
  <2> QED BY <1>2, <1>3, <1>5, <1>6, <1>12, <2>1 DEF AdvanceEpoch
<1>13. CASE BeginStart \/ BeginStop
  <2>1. StoreTyped' /\ Stored'
    BY <1>7, <1>13, ResetStep, NothingIsTyped DEF BeginStart, BeginStop
  <2> QED BY <1>2, <1>3, <1>4, <1>13, <2>1 DEF BeginStart, BeginStop, Goes, Stay, Step, Request
<1>14. CASE BeginStatus \/ BeginSync
  BY <1>2, <1>3, <1>4, <1>6, <1>14 DEF BeginStatus, BeginSync, Goes, Stay, Step, Request
<1>15. CASE StopRunningProxy
  BY <1>2, <1>3, <1>6, <1>7, <1>15 DEF StopRunningProxy, Step
<1>16. CASE SetPolicy
  BY <1>2, <1>3, <1>6, <1>16 DEF SetPolicy, Stay, Step
<1>17. CASE StartProxy
  <2>1. generation' \in Gen /\ running' \subseteq 1 .. generation'
    <3>1. generation \in 0 .. MaxGeneration /\ running \subseteq 1 .. generation
      BY <1>3 DEF Gen
    <3>2. CASE UNCHANGED <<generation, running>>
      BY <1>3, <3>2
    <3>3. CASE generation < MaxGeneration /\ generation' = generation + 1 /\ running' = running \cup {generation + 1}
      <4>1. \A g \in running' : g \in 1 .. generation + 1
        BY <3>1, <3>3
      <4> QED BY <3>1, <3>3, <4>1, LimitsArePositive DEF Gen
    <3> QED BY <1>17, <3>2, <3>3 DEF StartProxy
  <2> QED BY <1>2, <1>3, <1>6, <1>17, <2>1 DEF StartProxy, Stay, Step
<1>18. CASE SampleForStart \/ SampleAfterSync
  BY <1>2, <1>3, <1>4, <1>6, <1>7, <1>18 DEF SampleForStart, SampleAfterSync, Goes, Step
<1>19. CASE Activate
  <2> DEFINE c == [gen |-> generation, policy |-> policy]
  <2>1. c \in Context
    BY <1>3, LimitsArePositive DEF Context
  <2>2. StoreTyped' /\ Stored'
    BY <1>1, <1>19, <2>1, ResetStep DEF Activate
  <2>3. shown' \in Answer /\ IsShort(shown'.recent) /\ IsShort(shown'.connects)
    BY <1>1, <1>19, <2>1, NothingIsTyped DEF Activate, Answer, NoAnswer
  <2> QED BY <1>2, <1>3, <1>4, <1>7, <1>19, <2>2, <2>3 DEF Activate, Goes, Step
<1>20. CASE SampleForStatus
  <2>1. sample' \in Epoch
    BY <1>1, <1>7, <1>20 DEF SampleForStatus
  <2>2. answer' \in Answer /\ IsShort(answer'.recent) /\ IsShort(answer'.connects)
    BY <1>1, <1>20, <2>1, NothingIsTyped DEF SampleForStatus, Answer, NoAnswer, StoreTyped
  <2> QED BY <1>2, <1>3, <1>4, <1>6, <1>20, <2>1, <2>2 DEF SampleForStatus, Goes, Step
<1>21. CASE ReadLatest \/ ReadReason
  <2>1. answer' \in Answer /\ answer'.recent = answer.recent /\ answer'.connects = answer.connects
    <3>1. main.result \in SUBSET Observation /\ main.reason \in BOOLEAN /\ {} \in SUBSET Observation
      BY <1>1 DEF StoreTyped, MainFrame
    <3>2. LatestMainFrame \in SUBSET Observation /\ (main.epoch = sample /\ main.reason) \in BOOLEAN
      BY <3>1 DEF LatestMainFrame
    <3> QED BY <1>3, <1>21, <3>2 DEF ReadLatest, ReadReason, Answer
  <2> QED BY <1>2, <1>3, <1>4, <1>6, <1>21, <2>1 DEF ReadLatest, ReadReason, Goes, Step
<1>22. CASE ReadConnects \/ ReadRecent \/ ReadConnectsAgain
  <2>1. ASSUME NEW s \in Seq(Observation), IsShort(s)
        PROVE  OfSample(s) \in Seq(Observation) /\ IsShort(OfSample(s))
    <3>1. Len(s) \in Nat /\ OfSample(s) \in Seq(Observation) /\ Len(OfSample(s)) <= Len(s)
      BY OfEpochSelects DEF OfSample
    <3>2. Len(OfSample(s)) \in Nat
      BY <3>1
    <3> QED BY <2>1, <3>1, <3>2, LimitsArePositive DEF IsShort
  <2>2. /\ OfSample(recent) \in Seq(Observation) /\ IsShort(OfSample(recent))
        /\ OfSample(connects) \in Seq(Observation) /\ IsShort(OfSample(connects))
    BY <1>1, <2>1 DEF StoreTyped
  <2>3. answer' \in Answer /\ IsShort(answer'.recent) /\ IsShort(answer'.connects)
    BY <1>3, <1>22, <2>2 DEF ReadConnects, ReadRecent, ReadConnectsAgain, Answer
  <2> QED BY <1>2, <1>3, <1>4, <1>6, <1>22, <2>3 DEF ReadConnects, ReadRecent, ReadConnectsAgain, Goes, Step
<1>23. CASE Reply
  <2>1. newest' \in 0 .. MaxEvents
    <3>1. CASE answer.main = {}
      BY <1>3, <1>23, <3>1 DEF Reply
    <3>2. CASE answer.main # {}
      <4>1. (CHOOSE o \in answer.main : TRUE) \in answer.main
        BY <3>2
      <4>2. (CHOOSE o \in answer.main : TRUE) \in Observation
        BY <1>3, <4>1 DEF Answer
      <4> QED BY <1>23, <3>2, <4>2, LimitsArePositive DEF Reply, Observation
    <3> QED BY <3>1, <3>2
  <2> QED BY <1>2, <1>3, <1>4, <1>6, <1>7, <1>23, <2>1, NothingIsTyped DEF Reply, Step
<1>24. CASE RetainEpoch
  <2>1. StoreTyped' /\ Stored'
    BY <1>1, <1>24, ForgetStep DEF RetainEpoch
  <2> QED BY <1>2, <1>3, <1>4, <1>7, <1>24, <2>1 DEF RetainEpoch, Goes, Step
<1> QED
  BY <1>8, <1>9, <1>10, <1>11, <1>12, <1>13, <1>14, <1>15, <1>16, <1>17, <1>18, <1>19, <1>20, <1>21,
     <1>22, <1>23, <1>24
  DEF Next, HostStep, StartStep, StatusStep

\* What handing over an observation does to the latest main frame.
LEMMA MainMoves ==
    ASSUME TypeOK, MainIsNewest, NEW o \in flight, Observe(o)
    PROVE  \/ UNCHANGED <<highest, main>>
           \/ /\ MatchesContext(o) /\ o.epoch >= highest /\ highest' = o.epoch
              /\ \/ main' = main /\ o.epoch = highest
                 \/ main' = NoMain /\ o.epoch > highest
                 \/ /\ main'.epoch = o.epoch /\ main'.floor = o.event /\ main'.result \subseteq {o}
                    /\ o.epoch > highest \/ o.event > main.floor
<1>1. o \in Observation /\ o.epoch \in Nat /\ highest \in Nat /\ main \in MainFrame
  BY CountersAreNat DEF TypeOK
<1>2. CASE UNCHANGED <<highest, main, recent, connects>>
  BY <1>2
<1>3. CASE MatchesContext(o) /\ Admits(o) /\ Retain(o)
  <2> DEFINE old == IF Replaces(o) THEN NoMain ELSE main
  <2>1. old \in MainFrame /\ main' = MainAfter(old, o) /\ highest' = o.epoch
    BY <1>1, <1>3, NothingIsTyped DEF Retain
  <2>2. \/ main' = old
        \/ /\ main'.epoch = o.epoch /\ main'.floor = o.event /\ main'.result \subseteq {o}
           /\ o.event > old.floor
    <3> HIDE DEF old
    <3> QED BY <1>1, <2>1, MainAfterIs
  <2>3. CASE o.epoch > highest
    BY <1>1, <1>3, <2>1, <2>2, <2>3 DEF Admits, Replaces
  <2>4. CASE o.epoch = highest
    <3>1. ~Replaces(o)
      BY <1>1, <2>4 DEF Replaces
    <3>2. old = main
      BY <3>1
    <3> QED BY <1>1, <1>3, <2>1, <2>2, <2>4, <3>2
  <2> QED BY <1>1, <1>3, <2>3, <2>4 DEF Admits
<1> QED BY <1>2, <1>3 DEF Observe

\* What is admitted is of the epoch of the moment and of the next event.
LEMMA AdmitAdds ==
    ASSUME NEW g, Admit(g)
    PROVE  \E x : flight' = flight \cup {x} /\ x.gen = g /\ x.epoch = epoch /\ x.event = event + 1
<1>1. PICK k \in {"page", "part", "connect"}, b \in BOOLEAN :
          flight' = flight \cup {[gen |-> g, policy |-> policy, epoch |-> epoch,
                                  event |-> event', kind |-> k, available |-> b]}
  BY DEF Admit
<1> DEFINE x == [gen |-> g, policy |-> policy, epoch |-> epoch,
                 event |-> event', kind |-> k, available |-> b]
<1>2. x.gen = g /\ x.epoch = epoch /\ x.event = event + 1
  BY DEF Admit
<1>3. flight' = flight \cup {x}
  BY <1>1
<1> HIDE DEF x
<1> QED BY <1>2, <1>3

LEMMA NumberedStep ==
    ASSUME IInv, [Next]_vars PROVE Numbered'
<1>1. TypeOK /\ Numbered /\ MainIsNewest
  BY DEF IInv
<1>2. /\ epoch \in Nat /\ event \in Nat /\ generation \in Nat /\ highest \in Nat /\ sample \in Nat
      /\ newest \in Nat /\ main.epoch \in Nat /\ main.floor \in Nat
      /\ \A o \in flight : o.event \in Nat /\ o.epoch \in Nat /\ o.epoch # 0 /\ o.gen \in Nat
  BY <1>1, CountersAreNat
<1>3. CASE UNCHANGED vars
  BY <1>1, <1>3 DEF vars, runtime, store, host, Numbered
<1>4. ASSUME NEW g \in Gen, Admit(g) PROVE Numbered'
  <2>1. PICK x : flight' = flight \cup {x} /\ x.gen = g /\ x.epoch = epoch /\ x.event = event + 1
    BY <1>4, AdmitAdds
  <2>2. event' = event + 1 /\ g \in running /\ epoch # 0
        /\ UNCHANGED <<newest, main, epoch, highest, sample, generation>>
    BY <1>4 DEF Admit, store, host
  <2>3. g <= generation
    BY <1>1, <1>2, <2>2 DEF TypeOK
  <2>4. \A o \in flight' : o.event <= event' /\ o.gen <= generation /\ o.epoch <= epoch
    BY <1>1, <1>2, <2>1, <2>2, <2>3 DEF Numbered
  <2>5. \A o \in flight : o.event < x.event /\ o.epoch <= x.epoch
    BY <1>1, <1>2, <2>1, <2>2 DEF Numbered
  <2>6. \A o1, o2 \in flight' : o1.epoch < o2.epoch => o1.event < o2.event
    BY <1>1, <1>2, <2>1, <2>2, <2>5 DEF Numbered
  <2> QED BY <1>1, <1>2, <2>2, <2>4, <2>6 DEF Numbered
<1>5. ASSUME NEW o \in flight, Observe(o) PROVE Numbered'
  <2>1. flight' \subseteq flight /\ UNCHANGED <<newest, event, epoch, sample, generation>>
    BY <1>5 DEF Observe, runtime, host
  <2>2. main'.floor <= event /\ (epoch # 0 => highest' <= epoch)
    BY <1>1, <1>2, <1>5, MainMoves DEF Numbered, NoMain
  <2> QED BY <1>1, <2>1, <2>2 DEF Numbered
<1>6. ASSUME NEW o \in flight, Lose(o) PROVE Numbered'
  BY <1>1, <1>6 DEF Lose, runtime, store, host, Numbered
<1>7. CASE AdvanceEpoch
  BY <1>1, <1>2, <1>7 DEF AdvanceEpoch, store, host, Numbered
<1>8. CASE BeginStart \/ BeginStop
  BY <1>1, <1>2, <1>8 DEF BeginStart, BeginStop, Reset, Stay, runtime, NoMain, Numbered
<1>9. CASE BeginStatus \/ BeginSync
  BY <1>1, <1>9 DEF BeginStatus, BeginSync, Stay, runtime, store, Numbered
<1>10. CASE StopRunningProxy \/ SetPolicy
  BY <1>1, <1>10 DEF StopRunningProxy, SetPolicy, Stay, store, Numbered
<1>11. CASE StartProxy
  BY <1>1, <1>2, <1>11 DEF StartProxy, Stay, store, Numbered
<1>12. CASE SampleForStart \/ SampleForStatus \/ SampleAfterSync
  BY <1>1, <1>2, <1>12 DEF SampleForStart, SampleForStatus, SampleAfterSync, runtime, store, Numbered
<1>13. CASE Activate
  BY <1>1, <1>2, <1>13 DEF Activate, Reset, runtime, NoMain, Numbered
<1>14. CASE ReadLatest \/ ReadReason \/ ReadConnects \/ ReadRecent \/ ReadConnectsAgain
  BY <1>1, <1>14 DEF ReadLatest, ReadReason, ReadConnects, ReadRecent, ReadConnectsAgain, runtime, store, Numbered
<1>15. CASE Reply
  <2>1. newest' <= event
    <3>1. answer.main # {} => (CHOOSE o \in answer.main : TRUE) \in answer.main
      OBVIOUS
    <3> QED BY <1>1, <1>15, <3>1 DEF Reply, Numbered, IInv, Answered
  <2> QED BY <1>1, <1>2, <1>15, <2>1 DEF Reply, runtime, store, Numbered
<1>16. CASE RetainEpoch
  BY <1>1, <1>2, <1>16 DEF RetainEpoch, ForgetOtherEpochs, runtime, NoMain, Numbered
<1> QED
  BY <1>3, <1>4, <1>5, <1>6, <1>7, <1>8, <1>9, <1>10, <1>11, <1>12, <1>13, <1>14, <1>15, <1>16
  DEF Next, HostStep, StartStep, StatusStep

LEMMA MainStep ==
    ASSUME IInv, [Next]_vars PROVE MainIsNewest'
<1>1. TypeOK /\ Numbered /\ MainIsNewest
  BY DEF IInv
<1>2. /\ event \in Nat /\ highest \in Nat /\ main.epoch \in Nat /\ main.floor \in Nat
      /\ \A o \in flight : o.event \in Nat /\ o.epoch \in Nat /\ o.epoch # 0
  BY <1>1, CountersAreNat
<1>3. CASE UNCHANGED <<highest, main>> /\ flight' \subseteq flight
  BY <1>1, <1>3 DEF MainIsNewest
<1>4. CASE main' = NoMain
  BY <1>4 DEF MainIsNewest, NoMain, AtMostOne
<1>5. ASSUME NEW g \in Gen, Admit(g) PROVE MainIsNewest'
  <2>1. PICK x : flight' = flight \cup {x} /\ x.event = event + 1
    BY <1>5, AdmitAdds
  <2>2. UNCHANGED <<main, highest>> /\ x.event > main.floor
    BY <1>1, <1>2, <1>5, <2>1 DEF Admit, store, Numbered
  <2> QED BY <1>1, <2>1, <2>2 DEF MainIsNewest
<1>6. ASSUME NEW o \in flight, Observe(o) PROVE MainIsNewest'
  <2>1. flight' \subseteq flight
    BY <1>6 DEF Observe
  <2>2. CASE highest' = o.epoch /\ main' = main /\ o.epoch = highest
    BY <1>3, <2>1, <2>2
  <2>3. CASE highest' = o.epoch /\ main'.epoch = o.epoch /\ main'.floor = o.event /\ main'.result \subseteq {o}
    <3>1. \A x \in flight' : x.epoch > o.epoch => x.event > o.event
      BY <1>1, <1>2, <2>1 DEF Numbered
    <3> QED BY <1>2, <2>3, <3>1 DEF MainIsNewest, AtMostOne
  <2> QED BY <1>1, <1>3, <1>4, <1>6, <2>1, <2>2, <2>3, MainMoves
<1>7. CASE RetainEpoch
  <2>1. flight' = flight /\ highest' = sample /\ main' = IF main.epoch = sample THEN main ELSE NoMain
    BY <1>7 DEF RetainEpoch, ForgetOtherEpochs
  <2>2. CASE main' = main /\ main.epoch = sample
    BY <1>1, <2>1, <2>2 DEF MainIsNewest
  <2> QED BY <1>4, <2>1, <2>2
<1>8. CASE BeginStart \/ BeginStop \/ Activate
  BY <1>4, <1>8 DEF BeginStart, BeginStop, Activate, Reset
<1>9. CASE \/ UNCHANGED vars \/ AdvanceEpoch \/ (\E o \in flight : Lose(o))
           \/ BeginStatus \/ BeginSync \/ StopRunningProxy \/ SetPolicy \/ StartProxy \/ SampleForStart
           \/ StatusStep \/ SampleAfterSync
  BY <1>3, <1>9
  DEF vars, store, AdvanceEpoch, Lose, BeginStatus, BeginSync, StopRunningProxy, SetPolicy, StartProxy,
      SampleForStart, StatusStep, SampleForStatus, ReadLatest, ReadReason, ReadConnects, ReadRecent,
      ReadConnectsAgain, Reply, SampleAfterSync
<1> QED
  BY <1>5, <1>6, <1>7, <1>8, <1>9 DEF Next, HostStep, StartStep

-----------------------------------------------------------------------------
(* The responses.                                                          *)

\* What a response is given of the stored is of its context and epoch.
LEMMA OfSampleIs ==
    ASSUME IInv, step \in Reading, NEW s \in {recent, connects}
    PROVE  /\ Ascends(OfSample(s))
           /\ \A o \in ToSet(OfSample(s)) :
                 [gen |-> o.gen, policy |-> o.policy] = answer.of /\ o.epoch = answer.epoch
<1>1. s \in Seq(Observation) /\ Ascends(s) /\ \A o \in ToSet(s) : MatchesContext(o)
  BY DEF IInv, TypeOK, Stored, Kept
<1>2. Ascends(OfSample(s)) /\ \A o \in ToSet(OfSample(s)) : o \in ToSet(s) /\ o.epoch = sample
  BY <1>1, OfEpochSelects DEF OfSample
<1>3. answer.of = context /\ answer.epoch = sample
  BY DEF IInv, Answered
<1> QED BY <1>1, <1>2, <1>3 DEF MatchesContext

LEMMA AnsweredStep ==
    ASSUME IInv, [Next]_vars PROVE Answered' /\ Shown'
<1>1. TypeOK /\ Answered /\ Shown /\ answer \in Answer
  BY DEF IInv, TypeOK
<1>2. /\ event \in Nat /\ sample \in Nat /\ newest \in Nat /\ main.epoch \in Nat /\ main.floor \in Nat
      /\ \A o \in answer.main : o.event \in Nat
  BY <1>1, CountersAreNat
<1>3. step \notin Reading => answer.main = {}
  BY <1>1 DEF Answered, NoAnswer
<1>4. CASE UNCHANGED <<host, context>> /\ (event' = event \/ event' = event + 1)
  BY <1>1, <1>2, <1>4 DEF host, Answered, Shown
<1>5. CASE UNCHANGED vars \/ (\E g \in Gen : Admit(g)) \/ (\E o \in flight : Observe(o) \/ Lose(o)) \/ AdvanceEpoch
  BY <1>4, <1>5 DEF vars, runtime, store, Admit, Observe, Lose, AdvanceEpoch
<1>6. CASE /\ step \notin Reading /\ step' \notin Reading /\ UNCHANGED <<answer, newest, event>>
           /\ shown' = shown \/ \E c, e : shown' = [NoAnswer EXCEPT !.of = c, !.epoch = e]
  <2>1. Answered'
    BY <1>1, <1>6, NothingIsTyped DEF Answered, Reading, OfOneTuple, NoAnswer, AtMostOne
  <2>2. CASE shown' = shown
    BY <1>1, <2>1, <2>2 DEF Shown
  <2>3. ASSUME NEW c, NEW e, shown' = [NoAnswer EXCEPT !.of = c, !.epoch = e] PROVE Shown'
    <3>1. /\ shown'.main = {} /\ shown'.recent = <<>> /\ shown'.connects = <<>>
      BY <2>3 DEF NoAnswer
    <3>2. Told(shown') = {}
      BY <3>1, NothingIsTyped DEF Told
    <3> QED BY <3>1, <3>2, NothingIsTyped DEF Shown, OfOneTuple
  <2> QED BY <1>6, <2>1, <2>2, <2>3
<1>7. CASE \/ BeginStart \/ BeginStop \/ BeginStatus \/ BeginSync \/ StopRunningProxy \/ SetPolicy
           \/ StartProxy \/ SampleForStart \/ SampleAfterSync \/ RetainEpoch
  BY <1>6, <1>7
  DEF BeginStart, BeginStop, BeginStatus, BeginSync, StopRunningProxy, SetPolicy, StartProxy, SampleForStart,
      SampleAfterSync, RetainEpoch, Goes, Stay, runtime, Reading
<1>8. CASE Activate
  <2>1. \E c, e : shown' = [NoAnswer EXCEPT !.of = c, !.epoch = e]
    BY <1>8 DEF Activate
  <2> QED BY <1>6, <1>8, <2>1 DEF Activate, Goes, runtime, Reading
<1>9. CASE SampleForStatus
  <2>1. /\ answer'.of = context /\ answer'.epoch = sample' /\ answer'.main = {}
        /\ answer'.recent = <<>> /\ answer'.connects = <<>>
        /\ step' = "latest" /\ context' = context /\ shown' = shown
    BY <1>9 DEF SampleForStatus, Goes, NoAnswer, store
  <2>2. Told(answer') = {}
    BY <2>1, NothingIsTyped DEF Told
  <2> QED BY <1>1, <2>1, <2>2, NothingIsTyped DEF Answered, Shown, Reading, OfOneTuple, AtMostOne
<1>10. CASE ReadLatest
  <2>1. /\ answer'.of = answer.of /\ answer'.epoch = answer.epoch /\ answer'.main = LatestMainFrame
        /\ answer'.recent = answer.recent /\ answer'.connects = answer.connects
        /\ step = "latest" /\ step' = "reason" /\ UNCHANGED <<context, shown, sample, newest, event>>
    BY <1>1, <1>10 DEF ReadLatest, Goes, Answer, store, runtime
  <2>2. ASSUME NEW o \in LatestMainFrame
        PROVE  /\ o.event >= newest /\ o.event <= event
               /\ [gen |-> o.gen, policy |-> o.policy] = answer.of /\ o.epoch = answer.epoch
    <3>1. main.epoch = sample /\ o \in main.result /\ o \in Observation
      BY <1>1, <2>2 DEF LatestMainFrame, TypeOK, MainFrame
    <3>2. o.event = main.floor /\ o.epoch = sample /\ sample # 0
      BY <3>1, EventsAreNumbers DEF IInv, MainIsNewest
    <3>3. main.floor >= newest
      BY <1>1, <2>1, <3>1, <3>2 DEF IInv, NeverOlder, Sampled, NoneBefore, TypeOK
    <3>4. answer.of = context /\ answer.epoch = sample /\ MatchesContext(o)
      BY <1>1, <2>1, <3>1 DEF IInv, Answered, Reading, Stored, Kept
    <3> QED BY <3>2, <3>3, <3>4 DEF IInv, Numbered, MatchesContext
  <2>3. AtMostOne(LatestMainFrame)
    BY DEF IInv, MainIsNewest, LatestMainFrame, AtMostOne
  <2>4. \A o \in Told(answer') : o \in Told(answer) \/ o \in LatestMainFrame
    BY <2>1 DEF Told
  <2> QED BY <1>1, <2>1, <2>2, <2>3, <2>4 DEF Answered, Shown, Reading, OfOneTuple
<1>11. CASE ReadReason
  <2>1. /\ answer'.of = answer.of /\ answer'.epoch = answer.epoch /\ answer'.main = answer.main
        /\ answer'.recent = answer.recent /\ answer'.connects = answer.connects
        /\ step = "reason" /\ step' = "connects" /\ UNCHANGED <<context, shown, sample, newest, event>>
    BY <1>1, <1>11 DEF ReadReason, Goes, Answer, store, runtime
  <2>2. Told(answer') = Told(answer)
    BY <2>1 DEF Told
  <2> QED BY <1>1, <2>1, <2>2 DEF Answered, Shown, Reading, OfOneTuple
<1>12. CASE ReadConnects \/ ReadConnectsAgain
  <2>1. /\ answer'.of = answer.of /\ answer'.epoch = answer.epoch /\ answer'.main = answer.main
        /\ answer'.recent = answer.recent /\ answer'.connects = OfSample(connects)
        /\ step \in Reading \ {"latest"} /\ step' \in Reading \ {"latest"}
        /\ UNCHANGED <<context, shown, sample, newest, event>>
    BY <1>1, <1>12 DEF ReadConnects, ReadConnectsAgain, Goes, Answer, store, runtime, Reading
  <2>2. \A o \in Told(answer') : o \in Told(answer) \/ o \in ToSet(OfSample(connects))
    BY <2>1 DEF Told
  <2> QED BY <1>1, <2>1, <2>2, OfSampleIs DEF Answered, Shown, OfOneTuple
<1>13. CASE ReadRecent
  <2>1. /\ answer'.of = answer.of /\ answer'.epoch = answer.epoch /\ answer'.main = answer.main
        /\ answer'.recent = OfSample(recent) /\ answer'.connects = answer.connects
        /\ step \in Reading \ {"latest"} /\ step' \in Reading \ {"latest"}
        /\ UNCHANGED <<context, shown, sample, newest, event>>
    BY <1>1, <1>13 DEF ReadRecent, Goes, Answer, store, runtime, Reading
  <2>2. \A o \in Told(answer') : o \in Told(answer) \/ o \in ToSet(OfSample(recent))
    BY <2>1 DEF Told
  <2> QED BY <1>1, <2>1, <2>2, OfSampleIs DEF Answered, Shown, OfOneTuple
<1>14. CASE Reply
  <2>1. shown' = answer /\ answer' = NoAnswer /\ step' \notin Reading
    BY <1>14 DEF Reply, Reading
  <2>2. Answered'
    BY <2>1, NothingIsTyped DEF Answered, Reading, OfOneTuple, NoAnswer, AtMostOne
  <2>3. Shown'
    BY <1>1, <2>1 DEF Shown, Answered
  <2> QED BY <2>2, <2>3
<1> QED
  BY <1>5, <1>7, <1>8, <1>9, <1>10, <1>11, <1>12, <1>13, <1>14 DEF Next, HostStep, StartStep, StatusStep

-----------------------------------------------------------------------------
(* No response goes back to an older main frame.                           *)

\* Nothing older gets in while observations are handed over late.
LEMMA NoneBeforeStays ==
    ASSUME IInv, NEW v \in Nat \ {0}, NEW n \in Nat, n <= event, NoneBefore(v, n),
           \/ \E g \in Gen : Admit(g)
           \/ \E o \in flight : Observe(o) \/ Lose(o)
           \/ UNCHANGED <<flight, context, highest, main>>
    PROVE  NoneBefore(v, n)'
<1>1. /\ event \in Nat /\ highest \in Nat /\ main.epoch \in Nat /\ main.floor \in Nat
      /\ \A o \in flight : o.event \in Nat /\ o.epoch \in Nat /\ o.epoch # 0
      /\ main.epoch \in {0, highest}
  BY CountersAreNat DEF IInv, MainIsNewest
<1>2. CASE flight' \subseteq flight /\ UNCHANGED <<context, highest, main>>
  BY <1>2 DEF NoneBefore, MatchesContext
<1>3. ASSUME NEW g \in Gen, Admit(g) PROVE NoneBefore(v, n)'
  <2>1. PICK x : flight' = flight \cup {x} /\ x.event = event + 1
    BY <1>3, AdmitAdds
  <2>2. UNCHANGED <<context, highest, main>> /\ ~(x.event < n)
    BY <1>1, <1>3, <2>1 DEF Admit, store
  <2> QED BY <2>1, <2>2 DEF NoneBefore, MatchesContext
<1>4. ASSUME NEW o \in flight, Observe(o) PROVE NoneBefore(v, n)'
  <2>1. flight' \subseteq flight /\ UNCHANGED context
    BY <1>4 DEF Observe
  <2>2. TypeOK /\ MainIsNewest
    BY DEF IInv
  <2>3. CASE MatchesContext(o) /\ o.epoch >= highest /\ highest' = o.epoch /\ main' = NoMain /\ o.epoch > highest
    <3>1. \A x \in flight' : MatchesContext(x)' /\ x.epoch = v /\ v >= highest' => x.event >= n
      BY <1>1, <2>1, <2>3 DEF NoneBefore, MatchesContext
    <3> QED BY <1>1, <2>1, <2>3, <3>1 DEF NoneBefore, NoMain
  <2>4. CASE /\ MatchesContext(o) /\ o.epoch >= highest /\ highest' = o.epoch
             /\ main'.epoch = o.epoch /\ main'.floor = o.event /\ (o.epoch > highest \/ o.event > main.floor)
    <3>1. o.epoch = v => o.event >= n
      BY <1>1, <2>4 DEF NoneBefore
    <3>2. \A x \in flight' : MatchesContext(x)' /\ x.epoch = v /\ v >= highest' /\ x.event < n => main'.epoch = v
      BY <1>1, <2>1, <2>4 DEF NoneBefore, MatchesContext
    <3> QED BY <2>4, <3>1, <3>2 DEF NoneBefore
  <2>5. CASE highest' = o.epoch /\ main' = main /\ o.epoch = highest
    BY <1>2, <2>1, <2>5
  <2> QED BY <1>2, <1>4, <2>1, <2>2, <2>3, <2>4, <2>5, MainMoves
<1>5. CASE \E o \in flight : Lose(o)
  BY <1>2, <1>5 DEF Lose, store
<1> QED BY <1>2, <1>3, <1>4, <1>5

LEMMA NeverOlderStep ==
    ASSUME IInv, [Next]_vars PROVE NeverOlder'
<1>1. TypeOK /\ Numbered /\ MainIsNewest /\ Answered /\ NeverOlder
  BY DEF IInv
<1>2. /\ epoch \in Nat /\ event \in Nat /\ generation \in Nat /\ highest \in Nat /\ sample \in Nat
      /\ newest \in Nat /\ main.epoch \in Nat /\ main.floor \in Nat
      /\ \A o \in flight : o.event \in Nat /\ o.epoch \in Nat /\ o.epoch # 0 /\ o.gen \in Nat
      /\ \A o \in answer.main : o.event \in Nat
  BY <1>1, CountersAreNat
<1>3. newest <= event /\ \A o \in answer.main : o.event <= event
  BY <1>1 DEF Numbered, Answered
<1>4. step \notin Reading => answer.main = {}
  BY <1>1 DEF Answered, NoAnswer
<1>5. \A v \in Epoch : v \in Nat
  BY LimitsArePositive DEF Epoch
\* The proxy's steps: whatever is under way in the host stays as it is.
<1>6. ASSUME UNCHANGED <<epoch, host, generation>>,
             \A v \in Nat \ {0}, n \in Nat : n <= event /\ NoneBefore(v, n) => NoneBefore(v, n)',
             \A o \in flight' : o \in flight \/ o.event > newest
      PROVE  NeverOlder'
  <2>1. UNCHANGED <<step, sample, answer, newest>>
    BY <1>6 DEF host
  <2>2. \A v \in Epoch : Sampled(v)' => NoneBefore(v, newest)'
    BY <1>1, <1>2, <1>3, <1>5, <1>6, <2>1 DEF NeverOlder, Sampled
  <2>3. epoch' # 0 => \A o \in answer'.main : NoneBefore(epoch, o.event)'
    BY <1>1, <1>2, <1>3, <1>6, <2>1 DEF NeverOlder
  <2> QED BY <1>1, <1>6, <2>1, <2>2, <2>3 DEF NeverOlder, NoneBefore, Sampled, MatchesContext
<1>7. ASSUME NEW g \in Gen, Admit(g) PROVE NeverOlder'
  <2>1. \A o \in flight' : o \in flight \/ o.event > newest
    <3>1. PICK x : flight' = flight \cup {x} /\ x.event = event + 1
      BY <1>7, AdmitAdds
    <3> QED BY <1>2, <1>3, <3>1
  <2> QED BY <1>6, <1>7, <2>1, NoneBeforeStays DEF Admit
<1>8. ASSUME NEW o \in flight, Observe(o) \/ Lose(o) PROVE NeverOlder'
  <2>1. \A v \in Nat \ {0}, n \in Nat : n <= event /\ NoneBefore(v, n) => NoneBefore(v, n)'
    BY <1>8, NoneBeforeStays
  <2> QED BY <1>6, <1>8, <2>1 DEF Observe, Lose, runtime
<1>9. CASE UNCHANGED vars
  BY <1>6, <1>9, NoneBeforeStays DEF vars, runtime, store
\* Of a new epoch nothing was observed yet.
<1>10. CASE AdvanceEpoch
  <2>1. UNCHANGED <<step, sample, answer, newest, flight, context, highest, main, generation>>
    BY <1>10 DEF AdvanceEpoch, store, host
  <2>2. epoch # 0 /\ (epoch' = 0 \/ epoch' = epoch + 1)
    BY <1>10 DEF AdvanceEpoch
  <2>3. \A v, n \in Nat : v = epoch' /\ v # 0 => NoneBefore(v, n)'
    <3>1. main.epoch <= epoch /\ \A o \in flight : o.epoch <= epoch
      BY <1>1, <1>2, <2>2 DEF Numbered, MainIsNewest
    <3> QED BY <1>2, <2>1, <2>2, <3>1 DEF NoneBefore
  <2>4. \A v \in Epoch : Sampled(v)' => NoneBefore(v, newest)'
    <3> SUFFICES ASSUME NEW v \in Epoch, Sampled(v)' PROVE NoneBefore(v, newest)'
      OBVIOUS
    <3>1. CASE v = epoch'
      BY <1>2, <1>5, <2>1, <2>3, <3>1 DEF Sampled
    <3>2. CASE step = "latest" /\ v = sample /\ v # 0
      BY <1>1, <1>2, <1>3, <1>5, <2>1, <3>2, NoneBeforeStays DEF NeverOlder, Sampled
    <3> QED BY <2>1, <3>1, <3>2 DEF Sampled
  <2>5. epoch' # 0 => \A o \in answer'.main : NoneBefore(epoch, o.event)'
    <3>1. epoch' \in Nat
      BY <1>2, <2>2
    <3> QED BY <1>2, <2>1, <2>3, <3>1 DEF NoneBefore
  <2> QED BY <1>1, <2>1, <2>2, <2>4, <2>5 DEF NeverOlder
\* The steps of the host that store, show and sample nothing.
<1>11. ASSUME step \notin Reading, step' \notin Reading, UNCHANGED <<answer, newest>>,
              epoch # 0 => NoneBefore(epoch, newest)', UNCHANGED epoch
       PROVE  /\ \A v \in Epoch : Sampled(v)' => NoneBefore(v, newest)'
              /\ epoch' # 0 => \A o \in answer'.main : NoneBefore(epoch, o.event)'
  BY <1>4, <1>11 DEF Sampled, Reading
<1>12. epoch # 0 => NoneBefore(epoch, newest)
  BY <1>1 DEF NeverOlder, Sampled, TypeOK
<1>13. CASE BeginStart \/ BeginStop
  <2>1. \A o \in flight : o.gen # 0
    BY <1>1 DEF TypeOK, Observation
  <2>2. NoneBefore(epoch, newest)' \/ epoch = 0
    BY <1>2, <1>13, <2>1 DEF BeginStart, BeginStop, Reset, NoneBefore, MatchesContext, Inactive, NoMain, runtime
  <2>3. step' = "stop" /\ step = "idle" /\ UNCHANGED <<answer, newest, epoch>>
    BY <1>13 DEF BeginStart, BeginStop, Goes, Stay, runtime
  <2> QED BY <1>11, <2>2, <2>3 DEF NeverOlder, Reading
<1>14. CASE BeginStatus \/ BeginSync \/ StopRunningProxy \/ SetPolicy \/ SampleForStart
  <2>1. UNCHANGED <<epoch, flight, context, highest, main, answer, newest, generation>>
    BY <1>14 DEF BeginStatus, BeginSync, StopRunningProxy, SetPolicy, SampleForStart, Stay, runtime, store
  <2>2. /\ step \notin Reading /\ step' \notin Reading \cup {"retain"}
        /\ step' \in {"tuple", "activate"} => step \in {"tuple", "activate"}
    BY <1>14 DEF BeginStatus, BeginSync, StopRunningProxy, SetPolicy, SampleForStart, Goes, Reading
  <2>3. epoch # 0 => NoneBefore(epoch, newest)'
    BY <1>2, <1>3, <1>12, <2>1, NoneBeforeStays
  <2> QED BY <1>1, <1>11, <2>1, <2>2, <2>3 DEF NeverOlder
<1>15. CASE StartProxy
  <2>1. UNCHANGED <<epoch, flight, context, highest, main, answer, newest>>
    BY <1>15 DEF StartProxy, Stay, store
  <2>2. /\ step \notin Reading /\ step' \notin Reading \cup {"retain", "activate"}
        /\ step' = "tuple" => generation' = generation + 1
    BY <1>15 DEF StartProxy, Reading
  <2>3. epoch # 0 => NoneBefore(epoch, newest)'
    BY <1>2, <1>3, <1>12, <2>1, NoneBeforeStays
  <2>4. \A o \in flight : o.gen <= generation
    BY <1>1 DEF Numbered
  <2> QED BY <1>2, <1>11, <2>1, <2>2, <2>3, <2>4 DEF NeverOlder
<1>16. CASE Activate
  <2>1. UNCHANGED <<epoch, flight, answer, newest>> /\ step = "activate" /\ step' = "idle"
        /\ main' = NoMain /\ context' = [gen |-> generation, policy |-> policy]
    BY <1>16 DEF Activate, Goes, Reset, runtime
  <2>2. \A o \in flight : o.gen = generation => o.event > newest
    BY <1>1, <2>1 DEF NeverOlder
  <2>3. epoch # 0 => NoneBefore(epoch, newest)'
    BY <1>2, <2>1, <2>2 DEF NoneBefore, MatchesContext, NoMain
  <2> QED BY <1>11, <2>1, <2>3 DEF NeverOlder, Reading
<1>17. CASE SampleForStatus
  <2>1. /\ UNCHANGED <<epoch, flight, context, highest, main, newest>>
        /\ step' = "latest" /\ sample' \in {epoch, 0} /\ answer'.main = {}
    BY <1>17 DEF SampleForStatus, Goes, NoAnswer, runtime, store
  <2>2. epoch # 0 => NoneBefore(epoch, newest)'
    BY <1>2, <1>3, <1>12, <2>1, NoneBeforeStays
  <2> QED BY <2>1, <2>2 DEF NeverOlder, Sampled
\* What is read as the latest is not older than what was shown, and nothing
\* older than it will be read.
<1>18. CASE ReadLatest
  <2>1. /\ UNCHANGED <<epoch, flight, context, highest, main, newest, sample>>
        /\ step = "latest" /\ step' = "reason" /\ answer'.main = LatestMainFrame
    BY <1>1, <1>18 DEF ReadLatest, Goes, runtime, store, TypeOK, Answer
  <2>2. epoch # 0 => NoneBefore(epoch, newest)'
    BY <1>2, <1>3, <1>12, <2>1, NoneBeforeStays
  <2>3. ASSUME epoch # 0, NEW o \in LatestMainFrame PROVE NoneBefore(epoch, o.event)'
    <3>1. main.epoch = sample /\ o \in main.result /\ o.event = main.floor /\ sample # 0 /\ sample <= epoch
      BY <1>1, <2>3, EventsAreNumbers DEF LatestMainFrame, MainIsNewest, TypeOK, MainFrame, Numbered
    <3>2. \A x \in flight : x.epoch > main.epoch => x.event > main.floor
      BY <1>1, <3>1 DEF MainIsNewest
    <3> QED BY <1>2, <2>1, <3>1, <3>2 DEF NoneBefore, MatchesContext
  <2> QED BY <2>1, <2>2, <2>3 DEF NeverOlder, Sampled
<1>19. CASE ReadReason \/ ReadConnects \/ ReadRecent \/ ReadConnectsAgain
  <2>1. /\ UNCHANGED <<epoch, flight, context, highest, main, newest, sample>>
        /\ step' \in Reading \ {"latest"} /\ answer'.main = answer.main
    BY <1>1, <1>19
    DEF ReadReason, ReadConnects, ReadRecent, ReadConnectsAgain, Goes, runtime, store, TypeOK, Answer, Reading
  <2>2. epoch # 0 => NoneBefore(epoch, newest)'
    BY <1>2, <1>3, <1>12, <2>1, NoneBeforeStays
  <2>3. epoch # 0 => \A o \in answer.main : NoneBefore(epoch, o.event)'
    BY <1>1, <1>2, <1>3, <2>1, NoneBeforeStays DEF NeverOlder
  <2> QED BY <2>1, <2>2, <2>3 DEF NeverOlder, Sampled, Reading
<1>20. CASE Reply
  <2>1. /\ UNCHANGED <<epoch, flight, context, highest, main>>
        /\ step' \in {"exited", "idle"} /\ answer'.main = {}
        /\ newest' = newest \/ \E o \in answer.main : newest' = o.event
    <3>1. answer.main # {} => (CHOOSE o \in answer.main : TRUE) \in answer.main
      OBVIOUS
    <3> QED BY <1>20, <3>1 DEF Reply, NoAnswer, runtime, store
  <2>2. \A n \in {newest} \cup {o.event : o \in answer.main} : epoch # 0 => NoneBefore(epoch, n)'
    BY <1>1, <1>2, <1>3, <1>12, <2>1, NoneBeforeStays DEF NeverOlder
  <2>3. epoch # 0 => NoneBefore(epoch, newest)'
    BY <2>1, <2>2 DEF NoneBefore
  <2> QED BY <2>1, <2>3 DEF NeverOlder, Sampled
<1>21. CASE SampleAfterSync
  <2>1. /\ UNCHANGED <<epoch, flight, context, highest, main, answer, newest>>
        /\ step = "sync" /\ step' = "retain" /\ sample' = epoch
    BY <1>21 DEF SampleAfterSync, Goes, runtime, store
  <2>2. epoch # 0 => NoneBefore(epoch, newest)'
    BY <1>2, <1>3, <1>12, <2>1, NoneBeforeStays
  <2>3. epoch # 0 => \A o \in flight : ~(o.epoch > epoch)
    BY <1>1, <1>2 DEF Numbered
  <2> QED BY <1>11, <2>1, <2>2, <2>3 DEF NeverOlder, Reading
\* A sync that read an epoch that has passed forgets the floor, but of the
\* present epoch only later events are still to come.
<1>22. CASE RetainEpoch
  <2>1. /\ UNCHANGED <<epoch, flight, context, answer, newest>> /\ step = "retain" /\ step' = "idle"
        /\ highest' = sample /\ main' = IF main.epoch = sample THEN main ELSE NoMain
    BY <1>22 DEF RetainEpoch, ForgetOtherEpochs, Goes, runtime
  <2>2. ASSUME epoch # 0 PROVE NoneBefore(epoch, newest)'
    <3>1. sample # 0 /\ sample <= epoch /\ highest <= epoch
      BY <1>1, <2>1, <2>2 DEF NeverOlder, Numbered
    <3>2. CASE sample = epoch
      BY <1>1, <1>2, <1>12, <2>1, <2>2, <3>1, <3>2 DEF NoneBefore, MatchesContext, NoMain
    <3>3. CASE sample < epoch
      <4>1. \A o \in flight : o.epoch = epoch => ~(o.event < newest)
        BY <1>1, <1>2, <2>1, <3>1, <3>3 DEF NeverOlder
      <4> QED BY <1>2, <2>1, <2>2, <3>3, <4>1 DEF NoneBefore, NoMain
    <3> QED BY <1>2, <3>1, <3>2, <3>3
  <2> QED BY <1>11, <2>1, <2>2 DEF NeverOlder, Reading
<1> QED
  BY <1>7, <1>8, <1>9, <1>10, <1>13, <1>14, <1>15, <1>16, <1>17, <1>18, <1>19, <1>20, <1>21, <1>22
  DEF Next, HostStep, StartStep, StatusStep

-----------------------------------------------------------------------------
(* The theorems.                                                           *)

\* The inductive invariant holds initially.
LEMMA InvariantInit == Init => IInv
<1> SUFFICES ASSUME Init PROVE IInv
  OBVIOUS
<1>1. /\ epoch = 1 /\ policy = 1 /\ event = 0 /\ generation = 0 /\ running = {} /\ flight = {}
      /\ context = Inactive /\ highest = 0 /\ main = NoMain /\ recent = <<>> /\ connects = <<>>
      /\ step = "idle" /\ request = "none" /\ proxy = 0 /\ sample = 0
      /\ answer = NoAnswer /\ shown = NoAnswer /\ newest = 0
  BY DEF Init
<1>2. TypeOK
  BY <1>1, NothingIsTyped, LimitsArePositive DEF TypeOK, Epoch, Gen, Step, Request
<1>3. Numbered /\ MainIsNewest
  BY <1>1 DEF Numbered, MainIsNewest, NoMain, AtMostOne
<1>4. Stored
  BY <1>1, NothingIsTyped DEF Stored, Kept, NoMain
<1>5. Answered /\ Shown
  BY <1>1, NothingIsTyped DEF Answered, Shown, Reading, OfOneTuple, NoAnswer, AtMostOne
<1>6. NeverOlder
  BY <1>1 DEF NeverOlder, Sampled, NoneBefore, NoMain, NoAnswer
<1> QED BY <1>2, <1>3, <1>4, <1>5, <1>6 DEF IInv

\* Every step preserves it.
LEMMA InvariantStep == IInv /\ [Next]_vars => IInv'
<1> SUFFICES ASSUME IInv, [Next]_vars PROVE IInv'
  OBVIOUS
<1>1. TypeOK' /\ Stored'
  BY TypeStep DEF IInv
<1>2. Numbered' /\ MainIsNewest'
  BY NumberedStep, MainStep
<1>3. Answered' /\ Shown'
  BY AnsweredStep
<1>4. NeverOlder'
  BY NeverOlderStep
<1> QED BY <1>1, <1>2, <1>3, <1>4 DEF IInv

\* The inductive invariant holds of every state.
THEOREM InvariantHolds == Spec => []IInv
BY InvariantInit, InvariantStep, PTL DEF Spec

\* Every variable of the host, the proxy and the store has its type.
THEOREM TypeCorrect == Spec => []TypeOK
<1>1. IInv => TypeOK
  BY DEF IInv
<1> QED BY <1>1, InvariantHolds, PTL

\* What the extension is told about security was observed by the proxy, under
\* the policy and in the epoch that the same response names.
THEOREM ResponsesAreOfOneTuple == Spec => []ShownIsOfOneTuple
<1>1. IInv => ShownIsOfOneTuple
  BY DEF IInv, Shown, OfOneTuple, ShownIsOfOneTuple
<1> QED BY <1>1, InvariantHolds, PTL

\* The stored and the shown decisions ascend, and what is stored is of one
\* epoch and of the active proxy.
THEOREM ObservationsStayOrdered == Spec => []ObservationsAreOrdered
<1>1. IInv => ObservationsAreOrdered
  BY DEF IInv, Shown, Stored, Kept, ObservationsAreOrdered
<1> QED BY <1>1, InvariantHolds, PTL

\* No response shows a main frame that is older than one shown before.
THEOREM MainFramesOnlyAdvance == Spec => MainFrameNeverRegresses
<1>1. IInv /\ [Next]_vars => [NewestGrows]_vars
  <2> SUFFICES ASSUME IInv, Next PROVE NewestGrows
    BY DEF vars
  <2>1. newest \in Nat
    BY CountersAreNat DEF IInv
  <2>2. CASE newest' = newest
    BY <2>1, <2>2 DEF NewestGrows
  <2>3. CASE Reply
    <3>1. answer.main # {} => (CHOOSE o \in answer.main : TRUE) \in answer.main
      OBVIOUS
    <3> QED BY <2>1, <2>3, <3>1 DEF Reply, NewestGrows, IInv, Answered
  <2> QED
    BY <2>2, <2>3
    DEF Next, HostStep, StartStep, StatusStep, BeginStart, BeginStop, BeginStatus, BeginSync, StopRunningProxy,
        SetPolicy, StartProxy, SampleForStart, Activate, SampleForStatus, ReadLatest, ReadReason, ReadConnects,
        ReadRecent, ReadConnectsAgain, SampleAfterSync, RetainEpoch, Stay, Admit, Observe, Lose, AdvanceEpoch, host
<1> QED BY <1>1, InvariantHolds, PTL DEF Spec, MainFrameNeverRegresses
=============================================================================
