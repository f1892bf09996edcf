------------------------------ MODULE HostProofs ------------------------------
(***************************************************************************)
(* What the PAC controller promises, for any number of operations, scripts *)
(* and control epochs, and what MCHost promises of the host and the        *)
(* controller together, proved with TLAPS.                                 *)
(*                                                                         *)
(* Revisions order everything: what is still to be installed is newer than *)
(* what was given up, what was confirmed is neither, and the newest of all *)
(* is the desired script.                                                  *)
(***************************************************************************)
EXTENDS MCHost, NativeHostProofs, FiniteSetTheorems

Installation == Pac!Installation
Busy == setting \in {"read", "landed"}

\* Installations wait in the order of their revisions, above a floor.
Queue(t, floor, top) ==
    /\ t \in Seq(Installation)
    /\ \A i \in 1 .. Len(t) : floor < t[i].revision /\ t[i].revision <= top
    /\ \A i, j \in 1 .. Len(t) : i < j => t[i].revision < t[j].revision

\* The last one to wait is the desired one.
Newest(t, d) ==
    t # <<>> => t[Len(t)].revision = d.revision /\ t[Len(t)].script = d.script

Ordered ==
    /\ Queue(tail, confirmed, desired.revision) /\ Newest(tail, desired)
    /\ \A m \in hung : /\ Queue(tail, m.revision, desired.revision) /\ m.revision <= desired.revision
                       /\ m.watched => m.revision # confirmed
    /\ confirmed <= desired.revision
    /\ desired.epoch <= control /\ (desired.epoch # 0 => desired.script \in Pac!Script)
    /\ setting # "queued" => tail # <<>>

\* A fault pays for one setting that is read back or still to land, or for
\* one repair.
Unlanded == Cardinality(hung) + (IF Busy THEN 1 ELSE 0)
Counted ==
    /\ IsFiniteSet(hung) /\ Unlanded <= hangs
    /\ desired.revision + Unlanded <= MaxRevision + hangs

PacInv == Pac!TypeOK /\ Ordered /\ Counted /\ Pac!GivenUpIsRepaired

-----------------------------------------------------------------------------
(* Queues.                                                                 *)

LEMMA RevisionsAreNat ==
    /\ MaxRevision \in Nat /\ MaxHung \in Nat /\ MaxControl \in Nat \ {0}
    /\ \A r \in Pac!Revision : r \in Nat
    /\ \A i \in Installation : i.revision \in Nat /\ i.epoch \in 1 .. MaxControl /\ i.script \in Pac!Script
<1>1. MaxRevision \in Nat /\ MaxHung \in Nat /\ MaxControl \in Nat \ {0}
  BY PacConstants DEF Pac!Assumptions
<1> QED BY <1>1 DEF Pac!Revision, Installation, Pac!Installation

\* When the first one leaves, the others are newer than it.
LEMMA QueueTail ==
    ASSUME NEW t, NEW f \in Nat, NEW top \in Nat, Queue(t, f, top), t # <<>>
    PROVE  /\ Head(t) \in Installation /\ f < Head(t).revision /\ Head(t).revision <= top
           /\ Queue(Tail(t), Head(t).revision, top) /\ Queue(Tail(t), f, top)
           /\ Tail(t) # <<>> => Tail(t)[Len(Tail(t))] = t[Len(t)]
           /\ Tail(t) = <<>> => Head(t) = t[Len(t)]
<1>1. t \in Seq(Installation) /\ Len(t) \in Nat /\ Len(t) # 0
  BY DEF Queue
<1>2. /\ Head(t) = t[1] /\ Head(t) \in Installation /\ Tail(t) \in Seq(Installation)
      /\ Len(Tail(t)) = Len(t) - 1 /\ \A i \in 1 .. Len(Tail(t)) : Tail(t)[i] = t[i + 1]
  BY <1>1, HeadTailProperties
<1>3. \A i \in 1 .. Len(t) : t[i] \in Installation /\ t[i].revision \in Nat
  BY <1>1, RevisionsAreNat
<1>4. \A i \in 1 .. Len(Tail(t)) : i + 1 \in 1 .. Len(t) /\ Tail(t)[i] = t[i + 1] /\ 1 < i + 1
  BY <1>1, <1>2
<1>5. 1 \in 1 .. Len(t)
  BY <1>1
<1>6. Queue(Tail(t), Head(t).revision, top)
  <2>1. \A i \in 1 .. Len(Tail(t)) : Head(t).revision < Tail(t)[i].revision /\ Tail(t)[i].revision <= top
    BY <1>2, <1>4, <1>5 DEF Queue
  <2>2. \A i, j \in 1 .. Len(Tail(t)) : i < j => Tail(t)[i].revision < Tail(t)[j].revision
    BY <1>4 DEF Queue
  <2> QED BY <1>2, <2>1, <2>2 DEF Queue
<1>7. Queue(Tail(t), f, top)
  <2>1. \A i \in 1 .. Len(Tail(t)) : f < Tail(t)[i].revision /\ Tail(t)[i].revision <= top
    BY <1>4 DEF Queue
  <2> QED BY <1>6, <2>1 DEF Queue
<1>8. ASSUME Tail(t) # <<>> PROVE Tail(t)[Len(Tail(t))] = t[Len(t)]
  <2>1. Len(Tail(t)) \in Nat /\ Len(Tail(t)) # 0
    BY <1>2, <1>8
  <2>2. Len(Tail(t)) \in 1 .. Len(Tail(t)) /\ Len(Tail(t)) + 1 = Len(t)
    BY <1>1, <1>2, <2>1
  <2> QED BY <1>2, <2>2
<1>9. Tail(t) = <<>> => Len(t) = 1
  <2> SUFFICES ASSUME Tail(t) = <<>> PROVE Len(t) = 1
    OBVIOUS
  <2>1. Len(Tail(t)) = Len(<<>>)
    BY Zenon
  <2>2. Len(<<>>) = 0
    BY EmptySeq
  <2>3. Len(Tail(t)) = 0
    BY ONLY <2>1, <2>2, Zenon
  <2>4. Len(Tail(t)) = Len(t) - 1
    BY <1>2
  <2> QED BY ONLY <1>1, <2>3, <2>4
<1> QED BY <1>2, <1>5, <1>6, <1>7, <1>8, <1>9 DEF Queue

\* A new installation has the newest revision.
LEMMA QueueAppend ==
    ASSUME NEW t, NEW f \in Nat, NEW top \in Nat, Queue(t, f, top), f <= top,
           NEW e \in Installation, e.revision = top + 1
    PROVE  /\ Queue(Append(t, e), f, top + 1) /\ Append(t, e) # <<>>
           /\ Append(t, e)[Len(Append(t, e))] = e
<1> DEFINE u == Append(t, e)
<1>1. t \in Seq(Installation) /\ Len(t) \in Nat
  BY DEF Queue
<1>2. /\ u \in Seq(Installation) /\ Len(u) = Len(t) + 1 /\ u[Len(u)] = e
      /\ \A i \in 1 .. Len(t) : u[i] = t[i]
  BY <1>1, AppendProperties
<1> HIDE DEF u
<1>3. \A i \in 1 .. Len(t) : t[i] \in Installation /\ t[i].revision \in Nat
  BY <1>1, RevisionsAreNat
<1>4. \A i \in 1 .. Len(u) : i \in 1 .. Len(t) \/ i = Len(u)
  BY <1>1, <1>2
<1>5. \A i \in 1 .. Len(u) : f < u[i].revision /\ u[i].revision <= top + 1
  <2> TAKE i \in 1 .. Len(u)
  <2>1. CASE i \in 1 .. Len(t)
    BY <1>2, <1>3, <2>1 DEF Queue
  <2>2. CASE i = Len(u)
    BY <1>2, <2>2
  <2> QED BY <1>4, <2>1, <2>2
<1>6. \A i, j \in 1 .. Len(u) : i < j => u[i].revision < u[j].revision
  <2> SUFFICES ASSUME NEW i \in 1 .. Len(u), NEW j \in 1 .. Len(u), i < j
               PROVE  u[i].revision < u[j].revision
    OBVIOUS
  <2>1. i \in 1 .. Len(t)
    BY <1>1, <1>2
  <2>2. CASE j \in 1 .. Len(t)
    BY <1>2, <2>1, <2>2 DEF Queue
  <2>3. CASE j = Len(u)
    BY <1>2, <1>3, <2>1, <2>3 DEF Queue
  <2> QED BY <1>4, <2>2, <2>3
<1>7. u # <<>>
  BY <1>1, <1>2
<1> QED BY <1>2, <1>5, <1>6, <1>7 DEF Queue, u

-----------------------------------------------------------------------------
(* What is known of a state of the controller.                             *)

LEMMA NumbersOfTheState ==
    ASSUME PacInv
    PROVE  /\ control \in 1 .. MaxControl /\ control \in Nat
           /\ desired.revision \in Nat /\ desired.epoch \in 0 .. MaxControl /\ confirmed \in Nat
           /\ hangs \in 0 .. MaxHung /\ Cardinality(hung) \in Nat /\ Unlanded \in Nat
           /\ \A m \in hung : m.revision \in Nat /\ m.script \in Pac!Script /\ m.watched \in BOOLEAN
<1>1. Pac!TypeOK /\ IsFiniteSet(hung)
  BY DEF PacInv, Counted
<1>2. /\ control \in 1 .. MaxControl /\ desired.revision \in Nat /\ desired.epoch \in 0 .. MaxControl
      /\ confirmed \in Nat /\ hangs \in 0 .. MaxHung
  BY <1>1, RevisionsAreNat DEF Pac!TypeOK
<1>3. \A m \in hung : m.revision \in Nat /\ m.script \in Pac!Script /\ m.watched \in BOOLEAN
  BY <1>1, RevisionsAreNat DEF Pac!TypeOK
<1>4. Cardinality(hung) \in Nat
  BY <1>1, FS_CardinalityType
<1> QED BY <1>2, <1>3, <1>4, RevisionsAreNat DEF Unlanded

\* The head is newer than what was confirmed or given up, and older than the rest.
LEMMA HeadIs ==
    ASSUME PacInv, tail # <<>>
    PROVE  /\ Head(tail) \in Installation
           /\ confirmed < Head(tail).revision /\ Head(tail).revision <= desired.revision
           /\ Queue(Tail(tail), Head(tail).revision, desired.revision)
           /\ Queue(Tail(tail), confirmed, desired.revision)
           /\ \A m \in hung : /\ Queue(Tail(tail), m.revision, desired.revision)
                              /\ m.revision < Head(tail).revision
           /\ Newest(Tail(tail), desired)
           /\ Tail(tail) = <<>> => /\ Head(tail).revision = desired.revision
                                   /\ Head(tail).script = desired.script
<1>1. Ordered
  BY DEF PacInv
<1>2. desired.revision \in Nat /\ confirmed \in Nat /\ \A m \in hung : m.revision \in Nat
  BY NumbersOfTheState
<1>3. Queue(tail, confirmed, desired.revision) /\ Newest(tail, desired)
  BY <1>1 DEF Ordered
<1>4. /\ Head(tail) \in Installation /\ confirmed < Head(tail).revision
      /\ Head(tail).revision <= desired.revision
      /\ Queue(Tail(tail), Head(tail).revision, desired.revision)
      /\ Queue(Tail(tail), confirmed, desired.revision)
      /\ Tail(tail) # <<>> => Tail(tail)[Len(Tail(tail))] = tail[Len(tail)]
      /\ Tail(tail) = <<>> => Head(tail) = tail[Len(tail)]
  BY <1>2, <1>3, QueueTail
<1>5. ASSUME NEW m \in hung
      PROVE  Queue(Tail(tail), m.revision, desired.revision) /\ m.revision < Head(tail).revision
  <2>1. Queue(tail, m.revision, desired.revision)
    BY <1>1 DEF Ordered
  <2> QED BY <1>2, <2>1, QueueTail
<1> QED BY <1>3, <1>4, <1>5 DEF Newest

-----------------------------------------------------------------------------
(* The order is kept.                                                      *)

\* The head leaves: it was confirmed, or it is watched.
LEMMA OrderedWithoutHead ==
    ASSUME PacInv, tail # <<>>, tail' = Tail(tail), setting' = "queued",
           desired' = desired, control' = control,
           confirmed' \in {confirmed, Head(tail).revision},
           \A m \in hung' : \/ m \in hung
                            \/ /\ m.revision = Head(tail).revision
                               /\ m.watched => confirmed' = confirmed
    PROVE  Ordered'
<1>1. Ordered
  BY DEF PacInv
<1>2. desired.revision \in Nat /\ confirmed \in Nat /\ \A m \in hung : m.revision \in Nat
  BY NumbersOfTheState
<1>3. Head(tail).revision \in Nat
  BY HeadIs, RevisionsAreNat
<1>4. Queue(tail', confirmed', desired'.revision) /\ Newest(tail', desired')
  BY HeadIs
<1>5. ASSUME NEW m \in hung'
      PROVE  /\ Queue(tail', m.revision, desired'.revision) /\ m.revision <= desired'.revision
             /\ m.watched => m.revision # confirmed'
  <2>1. CASE m \in hung
    <3>1. m.revision <= desired.revision /\ (m.watched => m.revision # confirmed)
      BY <1>1, <2>1 DEF Ordered
    <3> QED BY <1>2, <1>3, <2>1, <3>1, HeadIs
  <2>2. CASE m \notin hung
    BY <1>2, <1>3, <1>5, <2>2, HeadIs
  <2> QED BY <2>1, <2>2
<1>6. confirmed' <= desired'.revision
  BY <1>1, <1>2, <1>3, HeadIs DEF Ordered
<1>7. desired'.epoch <= control' /\ (desired'.epoch # 0 => desired'.script \in Pac!Script)
  BY <1>1 DEF Ordered
<1> QED BY <1>4, <1>5, <1>6, <1>7 DEF Ordered

\* A new installation is queued behind what was waiting.
LEMMA OrderedWithOneMore ==
    ASSUME PacInv, NEW t, NEW e \in Installation, e.revision = desired.revision + 1,
           Queue(t, confirmed, desired.revision),
           \A m \in hung : Queue(t, m.revision, desired.revision),
           tail' = Append(t, e), desired'.revision = e.revision, desired'.script = e.script,
           desired'.epoch = e.epoch, e.epoch <= control, control' = control,
           confirmed' = confirmed, hung' \subseteq hung
    PROVE  Ordered' /\ tail' # <<>>
<1>1. Ordered
  BY DEF PacInv
<1>2. desired.revision \in Nat /\ confirmed \in Nat /\ \A m \in hung : m.revision \in Nat
  BY NumbersOfTheState
<1>3. confirmed <= desired.revision /\ \A m \in hung : m.revision <= desired.revision
  BY <1>1 DEF Ordered
<1>4. /\ Queue(tail', confirmed', desired'.revision) /\ tail' # <<>>
      /\ tail'[Len(tail')] = e
  BY <1>2, <1>3, QueueAppend
<1>5. Newest(tail', desired')
  BY <1>4 DEF Newest
<1>6. ASSUME NEW m \in hung'
      PROVE  /\ Queue(tail', m.revision, desired'.revision) /\ m.revision <= desired'.revision
             /\ m.watched => m.revision # confirmed'
  <2>1. m \in hung
    OBVIOUS
  <2>2. Queue(Append(t, e), m.revision, desired.revision + 1)
    BY <1>2, <1>3, <2>1, QueueAppend
  <2>3. m.watched => m.revision # confirmed
    BY <1>1, <2>1 DEF Ordered
  <2> QED BY <1>2, <1>3, <2>1, <2>2, <2>3
<1>7. confirmed' <= desired'.revision
  BY <1>2, <1>3
<1>8. desired'.epoch <= control' /\ desired'.script \in Pac!Script
  BY RevisionsAreNat
<1> QED BY <1>4, <1>5, <1>6, <1>7, <1>8 DEF Ordered

\* The tail and what is desired stay.
LEMMA OrderedAsBefore ==
    ASSUME PacInv, tail' = tail, desired' = desired, control <= control', control' \in Nat,
           confirmed' = confirmed, hung' \subseteq hung, setting' # "queued" => tail # <<>>
    PROVE  Ordered'
<1>1. Ordered /\ control \in Nat /\ desired.epoch \in Nat
  BY NumbersOfTheState, RevisionsAreNat DEF PacInv
<1> QED BY <1>1 DEF Ordered

-----------------------------------------------------------------------------
(* The types and the counts are kept.                                      *)

\* What an operation is told is an outcome.
LEMMA ToldIsTyped ==
    ASSUME PacInv, NEW by, NEW outcome \in {"ok", "failed", "superseded"}, Pac!Told(by, outcome)
    PROVE  told' \in [Client -> {"idle", "none", "ok", "failed", "superseded"}]
BY DEF PacInv, Pac!TypeOK, Pac!Told

LEMMA HungCounts ==
    ASSUME PacInv
    PROVE  /\ hung' = hung => IsFiniteSet(hung') /\ Cardinality(hung') = Cardinality(hung)
           /\ \A m : hung' = hung \cup {m} =>
                    /\ IsFiniteSet(hung') /\ Cardinality(hung') \in Nat
                    /\ Cardinality(hung') <= Cardinality(hung) + 1
           /\ \A m \in hung : hung' = hung \ {m} =>
                    IsFiniteSet(hung') /\ Cardinality(hung') = Cardinality(hung) - 1
<1>1. IsFiniteSet(hung) /\ Cardinality(hung) \in Nat
  BY NumbersOfTheState DEF PacInv, Counted
<1>2. ASSUME NEW m, hung' = hung \cup {m}
      PROVE  /\ IsFiniteSet(hung') /\ Cardinality(hung') \in Nat
             /\ Cardinality(hung') <= Cardinality(hung) + 1
  <2>1. CASE m \in hung
    BY <1>1, <1>2, <2>1, FS_AddElement
  <2>2. CASE m \notin hung
    BY <1>1, <1>2, <2>2, FS_AddElement
  <2> QED BY <2>1, <2>2
<1>3. ASSUME NEW m \in hung, hung' = hung \ {m}
      PROVE  IsFiniteSet(hung') /\ Cardinality(hung') = Cardinality(hung) - 1
  BY <1>1, <1>3, FS_RemoveElement
<1> QED BY <1>1, <1>2, <1>3

\* The head leaves: nothing came of it, it was confirmed, or it is watched.
LEMMA HeadLeaves ==
    ASSUME PacInv, tail # <<>>, tail' = Tail(tail), setting' = "queued",
           desired' = desired, control' = control, blind' \in BOOLEAN,
           hangs' = hangs \/ (hangs < MaxHung /\ hangs' = hangs + 1),
           \/ confirmed' = confirmed /\ pac' = pac
           \/ confirmed' = Head(tail).revision /\ pac' = Head(tail).script,
           \/ hung' = hung
           \/ Busy /\ hung' = hung \cup {Pac!Pending(FALSE)}
           \/ Busy /\ hung' = hung \cup {Pac!Pending(TRUE)} /\ confirmed' = confirmed,
           NEW outcome \in {"ok", "failed", "superseded"}, Pac!Told(Head(tail).by, outcome)
    PROVE  PacInv'
<1>1. Pac!TypeOK /\ Counted
  BY DEF PacInv
<1>2. Head(tail) \in Installation /\ tail' \in Seq(Installation)
  BY HeadIs DEF Queue
<1>3. Head(tail).revision \in Pac!Revision /\ Head(tail).script \in Pac!Script
  BY <1>2 DEF Installation, Pac!Installation
<1>4. Pac!TypeOK'
  <2>1. told' \in [Client -> {"idle", "none", "ok", "failed", "superseded"}]
    BY ToldIsTyped
  <2>2. ASSUME NEW w \in BOOLEAN
        PROVE  Pac!Pending(w) \in [script : Pac!Script, revision : Pac!Revision, watched : BOOLEAN]
    BY <1>3 DEF Pac!Pending
  <2> HIDE DEF Pac!Pending
  <2>3. hung' \subseteq [script : Pac!Script, revision : Pac!Revision, watched : BOOLEAN]
    <3>1. hung \subseteq [script : Pac!Script, revision : Pac!Revision, watched : BOOLEAN]
      BY <1>1 DEF Pac!TypeOK
    <3>2. hung' = hung \/ \E w \in BOOLEAN : hung' = hung \cup {Pac!Pending(w)}
      OBVIOUS
    <3> QED BY ONLY <2>2, <3>1, <3>2
  <2>4. hangs' \in 0 .. MaxHung
    BY <1>1, RevisionsAreNat DEF Pac!TypeOK
  <2>5. confirmed' \in Pac!Revision /\ pac' \in Pac!Script \cup {Pac!NoScript}
    BY <1>1, <1>3 DEF Pac!TypeOK
  <2> QED BY <1>1, <1>2, <2>1, <2>3, <2>4, <2>5 DEF Pac!TypeOK, Installation
<1>5. Ordered'
  <2>1. \A w : Pac!Pending(w).revision = Head(tail).revision /\ Pac!Pending(w).watched = w
    BY DEF Pac!Pending
  <2> HIDE DEF Pac!Pending
  <2>2. \A m \in hung' : \/ m \in hung
                        \/ /\ m.revision = Head(tail).revision
                           /\ m.watched => confirmed' = confirmed
    BY <2>1
  <2> QED BY <2>2, OrderedWithoutHead
<1>6. Counted'
  <2>1. ~Busy'
    BY DEF Busy
  <2>2. /\ IsFiniteSet(hung') /\ Cardinality(hung') \in Nat
        /\ Cardinality(hung') <= Unlanded /\ Unlanded' = Cardinality(hung')
    <3> HIDE DEF Pac!Pending
    <3>1. Cardinality(hung) \in Nat
      BY NumbersOfTheState
    <3>2. CASE hung' = hung
      BY <2>1, <3>1, <3>2, HungCounts DEF Unlanded
    <3>3. ASSUME NEW m, Busy, hung' = hung \cup {m}
          PROVE  /\ IsFiniteSet(hung') /\ Cardinality(hung') \in Nat
                 /\ Cardinality(hung') <= Cardinality(hung) + 1
      BY <3>3, HungCounts
    <3>4. CASE Busy /\ \E m : hung' = hung \cup {m}
      <4>1. PICK m : hung' = hung \cup {m}
        BY <3>4
      <4>2. IsFiniteSet(hung') /\ Cardinality(hung') \in Nat /\ Cardinality(hung') <= Cardinality(hung) + 1
        BY <3>3, <3>4, <4>1
      <4> QED BY <2>1, <3>1, <3>4, <4>2 DEF Unlanded
    <3> QED BY <3>2, <3>4
  <2>3. hangs <= hangs' /\ hangs' \in Nat /\ hangs \in Nat
    BY NumbersOfTheState, RevisionsAreNat
  <2>4. /\ Unlanded \in Nat /\ desired.revision \in Nat /\ Unlanded <= hangs
        /\ desired.revision + Unlanded <= MaxRevision + hangs
    BY <1>1, NumbersOfTheState DEF Counted
  <2> HIDE DEF Unlanded
  <2> QED BY <2>2, <2>3, <2>4, RevisionsAreNat DEF Counted
<1>7. Pac!GivenUpIsRepaired'
  <2> SUFFICES ASSUME Pac!Settled' PROVE pac' = desired'.script
    BY DEF Pac!GivenUpIsRepaired
  <2>1. Tail(tail) = <<>> /\ confirmed' = desired.revision
    BY DEF Pac!Settled
  <2>2. Head(tail).revision = desired.revision /\ Head(tail).script = desired.script
    BY <2>1, HeadIs
  <2>3. confirmed < Head(tail).revision /\ confirmed \in Nat
    BY HeadIs, NumbersOfTheState
  <2> QED BY <2>1, <2>2, <2>3
<1> QED BY <1>4, <1>5, <1>6, <1>7 DEF PacInv

\* One more installation is queued: an operation asks for it, or it repairs
\* a setting that has landed.
LEMMA OneMore ==
    ASSUME PacInv, NEW by \in Client \cup {Pac!Repair}, NEW script \in Pac!Script, NEW t,
           Queue(t, confirmed, desired.revision),
           \A m \in hung : Queue(t, m.revision, desired.revision),
           tail' = Append(t, [by |-> by, script |-> script, epoch |-> control,
                              revision |-> desired.revision + 1]),
           desired' = [script |-> script, epoch |-> control, revision |-> desired.revision + 1],
           control' = control, confirmed' = confirmed, hangs' = hangs,
           pac' \in Pac!Script \cup {Pac!NoScript}, blind' \in BOOLEAN,
           told' \in [Client -> {"idle", "none", "ok", "failed", "superseded"}],
           \/ desired.revision < MaxRevision /\ hung' = hung /\ setting' = setting
           \/ Busy /\ setting' = "queued" /\ hung' = hung
           \/ setting' = setting /\ \E m \in hung : hung' = hung \ {m}
    PROVE  PacInv'
<1> DEFINE e == [by |-> by, script |-> script, epoch |-> control, revision |-> desired.revision + 1]
<1>1. Pac!TypeOK /\ Counted /\ Ordered
  BY DEF PacInv
<1>2. /\ Unlanded \in Nat /\ desired.revision \in Nat /\ Unlanded <= hangs
      /\ desired.revision + Unlanded <= MaxRevision + hangs /\ hangs \in 0 .. MaxHung
      /\ Cardinality(hung) \in Nat
  BY <1>1, NumbersOfTheState DEF Counted
<1>3. /\ IsFiniteSet(hung') /\ Unlanded' \in Nat
      /\ \/ desired.revision < MaxRevision /\ Unlanded' = Unlanded
         \/ Unlanded' = Unlanded - 1
  <2>1. CASE desired.revision < MaxRevision /\ hung' = hung /\ setting' = setting
    BY <1>2, <2>1, HungCounts DEF Unlanded, Busy
  <2>2. CASE Busy /\ setting' = "queued" /\ hung' = hung
    BY <1>2, <2>2, HungCounts DEF Unlanded, Busy
  <2>3. CASE setting' = setting /\ \E m \in hung : hung' = hung \ {m}
    <3>1. IsFiniteSet(hung') /\ Cardinality(hung') = Cardinality(hung) - 1
      BY <2>3, HungCounts
    <3>2. Cardinality(hung') \in Nat
      BY <3>1, FS_CardinalityType
    <3> QED BY <1>2, <2>3, <3>1, <3>2 DEF Unlanded, Busy
  <2> QED BY <2>1, <2>2, <2>3
<1>4. Counted' /\ desired.revision + 1 \in Pac!Revision
  <2> HIDE DEF Unlanded
  <2>1. desired'.revision = desired.revision + 1
    OBVIOUS
  <2>2. Unlanded' <= hangs' /\ desired'.revision + Unlanded' <= MaxRevision + hangs'
    BY <1>2, <1>3, <2>1, RevisionsAreNat
  <2>3. desired.revision + 1 \in Pac!Revision
    BY <1>2, <1>3, RevisionsAreNat DEF Pac!Revision
  <2> QED BY <1>3, <2>2, <2>3 DEF Counted
<1>5. e \in Installation /\ control \in 1 .. MaxControl
  BY <1>4, NumbersOfTheState DEF Installation, Pac!Installation
<1>6. Ordered' /\ tail' # <<>>
  <2>1. /\ e.revision = desired.revision + 1 /\ e.epoch = control /\ e.script = script
        /\ desired'.revision = e.revision /\ desired'.script = e.script /\ desired'.epoch = e.epoch
    OBVIOUS
  <2>2. hung' \subseteq hung /\ tail' = Append(t, e)
    OBVIOUS
  <2>3. e.epoch <= control
    BY <2>1, NumbersOfTheState
  <2> HIDE DEF e
  <2> QED BY <1>5, <2>1, <2>2, <2>3, OrderedWithOneMore
<1>7. Pac!TypeOK'
  <2>1. tail' \in Seq(Installation)
    BY <1>6 DEF Ordered, Queue
  <2>2. desired' \in [script : Pac!Script \cup {Pac!NoScript}, epoch : 0 .. MaxControl,
                    revision : Pac!Revision]
    BY <1>4, <1>5, RevisionsAreNat
  <2>3. /\ hung' \subseteq [script : Pac!Script, revision : Pac!Revision, watched : BOOLEAN]
        /\ setting' \in {"queued", "set", "read", "landed"}
    BY <1>1 DEF Pac!TypeOK
  <2> QED BY <1>1, <2>1, <2>2, <2>3 DEF Pac!TypeOK, Installation
<1>8. Pac!GivenUpIsRepaired'
  BY <1>6 DEF Pac!GivenUpIsRepaired, Pac!Settled
<1> QED BY <1>1, <1>4, <1>6, <1>7, <1>8 DEF PacInv

-----------------------------------------------------------------------------
(* The steps of the controller.                                            *)

LEMMA Balance ==
    ASSUME NEW u \in Nat, NEW v \in Nat, NEW h \in Nat, NEW k \in Nat, NEW r \in Nat,
           NEW m \in Nat, u <= h, r + u <= m + h, v + h <= u + k
    PROVE  v <= k /\ r + v <= m + k
OBVIOUS

\* A step that leaves the tail and what is desired alone.
LEMMA TailStays ==
    ASSUME PacInv, tail' = tail, desired' = desired, confirmed' = confirmed,
           control' \in 1 .. MaxControl, control <= control',
           \/ hangs' = hangs /\ (Busy' <=> Busy)
           \/ hangs < MaxHung /\ hangs' = hangs + 1,
           hung' = hung \/ (hangs' = hangs /\ \E m \in hung : hung' = hung \ {m}),
           setting' \in {"queued", "set", "read", "landed"}, setting' # "queued" => tail # <<>>,
           pac' \in Pac!Script \cup {Pac!NoScript}, blind' \in BOOLEAN,
           told' \in [Client -> {"idle", "none", "ok", "failed", "superseded"}]
    PROVE  Pac!TypeOK' /\ Ordered' /\ Counted'
<1>1. Pac!TypeOK /\ Counted
  BY DEF PacInv
<1>2. /\ Unlanded \in Nat /\ desired.revision \in Nat /\ Unlanded <= hangs
      /\ desired.revision + Unlanded <= MaxRevision + hangs /\ hangs \in 0 .. MaxHung
      /\ Cardinality(hung) \in Nat
  BY <1>1, NumbersOfTheState DEF Counted
<1>3. /\ IsFiniteSet(hung') /\ Unlanded' \in Nat /\ hangs' \in 0 .. MaxHung
      /\ hangs <= hangs' /\ Unlanded' + hangs <= Unlanded + hangs'
  <2>1. CASE hung' = hung
    BY <1>2, <2>1, HungCounts, RevisionsAreNat DEF Unlanded
  <2>2. CASE hangs' = hangs /\ \E m \in hung : hung' = hung \ {m}
    <3>1. IsFiniteSet(hung') /\ Cardinality(hung') = Cardinality(hung) - 1
      BY <2>2, HungCounts
    <3>2. Cardinality(hung') \in Nat
      BY <3>1, FS_CardinalityType
    <3>3. Busy' <=> Busy
      BY <1>2, <2>2
    <3> QED BY <1>2, <2>2, <3>1, <3>2, <3>3, RevisionsAreNat DEF Unlanded
  <2> QED BY <2>1, <2>2
<1>4. Counted'
  <2> HIDE DEF Unlanded
  <2>1. hangs \in Nat /\ hangs' \in Nat /\ MaxRevision \in Nat
    BY <1>2, <1>3, RevisionsAreNat
  <2>2. Unlanded' <= hangs' /\ desired.revision + Unlanded' <= MaxRevision + hangs'
    <3> DEFINE u == Unlanded  v == Unlanded'  h == hangs  k == hangs'  r == desired.revision
    <3>1. /\ u \in Nat /\ v \in Nat /\ h \in Nat /\ k \in Nat /\ r \in Nat
          /\ u <= h /\ r + u <= MaxRevision + h /\ v + h <= u + k
      BY <1>2, <1>3, <2>1
    <3> HIDE DEF u, v, h, k, r
    <3>2. v <= k /\ r + v <= MaxRevision + k
      BY ONLY <2>1, <3>1, Balance
    <3> QED BY <3>2 DEF v, k, r
  <2>3. desired'.revision = desired.revision
    OBVIOUS
  <2> QED BY <1>3, <2>1, <2>2, <2>3 DEF Counted
<1>5. Ordered'
  <2>1. hung' \subseteq hung /\ control' \in Nat
    BY RevisionsAreNat
  <2> QED BY <2>1, OrderedAsBefore
<1>6. Pac!TypeOK'
  BY <1>1, <1>3 DEF Pac!TypeOK
<1> QED BY <1>4, <1>5, <1>6

LEMMA AsyncSteps ==
    ASSUME PacInv, \/ Pac!BeginControlGeneration \/ \E o \in Client : Pac!Resume(o)
                   \/ UNCHANGED pacVars
    PROVE  PacInv'
<1>1. Pac!TypeOK /\ Ordered /\ Pac!GivenUpIsRepaired
  BY DEF PacInv
<1>2. /\ tail' = tail /\ desired' = desired /\ confirmed' = confirmed /\ hung' = hung
      /\ hangs' = hangs /\ setting' = setting /\ pac' = pac /\ blind' = blind
  BY DEF Pac!BeginControlGeneration, Pac!Resume, pacVars
<1>3. control' \in 1 .. MaxControl /\ (control' = control \/ control' = control + 1)
  BY <1>1, NumbersOfTheState, RevisionsAreNat DEF Pac!BeginControlGeneration, Pac!Resume, pacVars
<1>4. told' \in [Client -> {"idle", "none", "ok", "failed", "superseded"}]
  BY <1>1 DEF Pac!BeginControlGeneration, Pac!Resume, pacVars, Pac!TypeOK
<1>5. control <= control' /\ (Busy' <=> Busy) /\ (setting' # "queued" => tail # <<>>)
  BY <1>1, <1>2, <1>3, NumbersOfTheState DEF Busy, Ordered
<1>6. /\ setting' \in {"queued", "set", "read", "landed"} /\ blind' \in BOOLEAN
      /\ pac' \in Pac!Script \cup {Pac!NoScript}
  BY <1>1, <1>2 DEF Pac!TypeOK
<1>7. Pac!TypeOK' /\ Ordered' /\ Counted'
  BY <1>2, <1>3, <1>4, <1>5, <1>6, TailStays
<1>8. Pac!GivenUpIsRepaired'
  <2>1. desired.epoch <= control /\ control \in Nat /\ desired.epoch \in Nat
    BY <1>1, NumbersOfTheState, RevisionsAreNat DEF Ordered
  <2>2. Pac!Settled' => Pac!Settled
    BY <1>2, <1>3, <2>1 DEF Pac!Settled
  <2> QED BY <1>1, <1>2, <2>2 DEF Pac!GivenUpIsRepaired
<1> QED BY <1>7, <1>8 DEF PacInv

\* The controller takes up the head, or drops it: its epoch is over.
LEMMA BeginSettingStep == ASSUME PacInv, Pac!BeginSetting PROVE PacInv'
<1>1. Pac!TypeOK /\ Ordered /\ Pac!GivenUpIsRepaired /\ tail # <<>> /\ setting = "queued"
  BY DEF PacInv, Pac!BeginSetting, Pac!InstallBegins
<1>2. CASE Head(tail).epoch = control
  <2>1. /\ tail' = tail /\ desired' = desired /\ confirmed' = confirmed /\ hung' = hung
        /\ hangs' = hangs /\ setting' = "set" /\ pac' = pac /\ blind' = blind
        /\ control' = control /\ told' = told
    BY <1>2 DEF Pac!BeginSetting
  <2>2. ~Busy /\ ~Busy'
    BY <1>1, <2>1 DEF Busy
  <2>3. /\ control' \in 1 .. MaxControl /\ control <= control' /\ blind' \in BOOLEAN
        /\ pac' \in Pac!Script \cup {Pac!NoScript}
        /\ told' \in [Client -> {"idle", "none", "ok", "failed", "superseded"}]
    BY <1>1, <2>1, NumbersOfTheState DEF Pac!TypeOK
  <2>4. Pac!TypeOK' /\ Ordered' /\ Counted'
    BY <1>1, <2>1, <2>2, <2>3, TailStays
  <2>5. Pac!GivenUpIsRepaired'
    BY <1>1, <2>1 DEF Pac!GivenUpIsRepaired, Pac!Settled
  <2> QED BY <2>4, <2>5 DEF PacInv
<1>3. CASE Head(tail).epoch # control
  <2>1. /\ tail' = Tail(tail) /\ setting' = "queued" /\ desired' = desired /\ control' = control
        /\ hangs' = hangs /\ hung' = hung /\ confirmed' = confirmed /\ pac' = pac /\ blind' = blind
        /\ Pac!Told(Head(tail).by, "superseded")
    BY <1>3 DEF Pac!BeginSetting, Pac!Done
  <2>2. blind' \in BOOLEAN
    BY <1>1, <2>1 DEF Pac!TypeOK
  <2> HIDE DEF Pac!Told
  <2> QED BY <1>1, <2>1, <2>2, HeadLeaves
<1> QED BY <1>2, <1>3

\* Chromium answers, or the readback shows the script.
LEMMA OutcomeSteps == ASSUME PacInv, Pac!Confirm \/ Pac!Refuse \/ Pac!ReadBack PROVE PacInv'
<1>1. Pac!TypeOK /\ Ordered
  BY DEF PacInv
<1>2. tail # <<>>
  BY <1>1 DEF Ordered, Pac!Confirm, Pac!Refuse, Pac!ReadBack
<1>3. Pac!Outcome(Head(tail)) \in {"ok", "failed", "superseded"}
  BY DEF Pac!Outcome
<1>4. blind' \in BOOLEAN
  BY <1>1 DEF Pac!TypeOK, Pac!Confirm, Pac!Refuse, Pac!ReadBack
<1>5. CASE Pac!Confirm
  <2>1. /\ tail' = Tail(tail) /\ setting' = "queued" /\ desired' = desired /\ control' = control
        /\ hangs' = hangs /\ hung' = hung
        /\ confirmed' = Head(tail).revision /\ pac' = Head(tail).script
        /\ Pac!Told(Head(tail).by, Pac!Outcome(Head(tail)))
    BY <1>5 DEF Pac!Confirm, Pac!Done
  <2> HIDE DEF Pac!Told, Pac!Outcome
  <2> QED BY <1>2, <1>3, <1>4, <2>1, HeadLeaves
<1>6. CASE Pac!Refuse
  <2>1. /\ tail' = Tail(tail) /\ setting' = "queued" /\ desired' = desired /\ control' = control
        /\ hangs < MaxHung /\ hangs' = hangs + 1 /\ hung' = hung
        /\ confirmed' = confirmed /\ pac' = pac
        /\ Pac!Told(Head(tail).by, "failed")
    BY <1>6 DEF Pac!Refuse, Pac!Done, Pac!Fault
  <2> HIDE DEF Pac!Told
  <2> QED BY <1>2, <1>4, <2>1, HeadLeaves
<1>7. CASE Pac!ReadBack
  <2>1. /\ tail' = Tail(tail) /\ setting' = "queued" /\ desired' = desired /\ control' = control
        /\ hangs' = hangs
        /\ confirmed' = Head(tail).revision /\ pac' = Head(tail).script
        /\ hung' = hung \/ (Busy /\ hung' = hung \cup {Pac!Pending(FALSE)})
        /\ Pac!Told(Head(tail).by, Pac!Outcome(Head(tail)))
    BY <1>7 DEF Pac!ReadBack, Pac!Done, Pac!Observed, Busy
  <2> HIDE DEF Pac!Told, Pac!Outcome, Pac!Pending
  <2> QED BY <1>2, <1>3, <1>4, <2>1, HeadLeaves
<1> QED BY <1>5, <1>6, <1>7

\* The setting is late, or is applied while the controller reads.
LEMMA ReadingSteps == ASSUME PacInv, Pac!TimeOut \/ Pac!LandWhileReading PROVE PacInv'
<1>1. Pac!TypeOK /\ Ordered
  BY DEF PacInv
<1>2. tail # <<>>
  BY <1>1 DEF Ordered, Pac!TimeOut, Pac!LandWhileReading
<1>3. /\ tail' = tail /\ desired' = desired /\ confirmed' = confirmed /\ hung' = hung
      /\ control' = control /\ told' = told /\ setting' \in {"read", "landed"}
      /\ \/ hangs' = hangs /\ (Busy' <=> Busy)
         \/ hangs < MaxHung /\ hangs' = hangs + 1
  BY DEF Pac!TimeOut, Pac!LandWhileReading, Pac!Fault, Busy
<1>4. Head(tail).script \in Pac!Script
  BY <1>2, HeadIs, RevisionsAreNat
<1>5. pac' \in Pac!Script \cup {Pac!NoScript} /\ blind' \in BOOLEAN
  BY <1>1, <1>4 DEF Pac!TypeOK, Pac!TimeOut, Pac!LandWhileReading
<1>6. /\ control' \in 1 .. MaxControl /\ control <= control'
      /\ told' \in [Client -> {"idle", "none", "ok", "failed", "superseded"}]
  BY <1>1, <1>3, NumbersOfTheState DEF Pac!TypeOK
<1>7. Pac!TypeOK' /\ Ordered' /\ Counted'
  BY <1>2, <1>3, <1>5, <1>6, TailStays
<1>8. Pac!GivenUpIsRepaired'
  BY <1>2, <1>3 DEF Pac!GivenUpIsRepaired, Pac!Settled
<1> QED BY <1>7, <1>8 DEF PacInv

\* An operation installs a script.
LEMMA InstallStep ==
    ASSUME PacInv, NEW o \in Client, NEW script \in Pac!Script, Pac!Install(o, script)
    PROVE  PacInv'
<1>1. Pac!TypeOK /\ Ordered
  BY DEF PacInv
<1>2. /\ tail' = Append(tail, [by |-> o, script |-> script, epoch |-> control,
                               revision |-> desired.revision + 1])
      /\ desired' = [script |-> script, epoch |-> control, revision |-> desired.revision + 1]
      /\ control' = control /\ confirmed' = confirmed /\ hangs' = hangs /\ pac' = pac
      /\ blind' = blind /\ desired.revision < MaxRevision /\ hung' = hung /\ setting' = setting
      /\ told' = [told EXCEPT ![o] = "none"]
  BY DEF Pac!Install, Pac!Enqueued
<1>3. /\ told' \in [Client -> {"idle", "none", "ok", "failed", "superseded"}]
      /\ pac' \in Pac!Script \cup {Pac!NoScript} /\ blind' \in BOOLEAN
  BY <1>1, <1>2 DEF Pac!TypeOK
<1>4. Queue(tail, confirmed, desired.revision) /\ \A m \in hung : Queue(tail, m.revision, desired.revision)
  BY <1>1 DEF Ordered
<1> QED BY <1>2, <1>3, <1>4, OneMore

\* A setting that is repaired: the desired script is asked for once more.
LEMMA RepairAsks ==
    ASSUME PacInv, NEW r, Pac!Repairs(r)
    PROVE  /\ desired.script \in Pac!Script /\ desired.epoch = control
           /\ [desired EXCEPT !.revision = desired.revision + 1]
              = [script |-> desired.script, epoch |-> control, revision |-> desired.revision + 1]
<1>1. Pac!TypeOK /\ Ordered /\ desired.epoch = control /\ control # 0
  BY NumbersOfTheState, RevisionsAreNat DEF PacInv, Pac!Repairs
<1>2. desired.script \in Pac!Script
  BY <1>1 DEF Ordered
<1> QED BY <1>1, <1>2 DEF Pac!TypeOK

\* A setting is given up, and repaired at once if it was applied meanwhile.
LEMMA GiveUpStep == ASSUME PacInv, Pac!GiveUp PROVE PacInv'
<1>1. Pac!TypeOK /\ Ordered /\ tail # <<>>
  BY DEF PacInv, Ordered, Pac!GiveUp
<1>2. Busy /\ blind' = blind /\ blind' \in BOOLEAN /\ pac' = pac /\ Pac!Told(Head(tail).by, "failed")
  BY <1>1 DEF Pac!GiveUp, Busy, Pac!TypeOK
<1>3. CASE setting = "landed" /\ Pac!Repairs(Head(tail).revision)
  <2>1. /\ desired.script \in Pac!Script /\ desired.epoch = control
        /\ [desired EXCEPT !.revision = desired.revision + 1]
           = [script |-> desired.script, epoch |-> control, revision |-> desired.revision + 1]
    BY <1>3, RepairAsks
  <2>2. /\ tail' = Append(Tail(tail), [by |-> Pac!Repair, script |-> desired.script, epoch |-> control,
                                       revision |-> desired.revision + 1])
        /\ desired' = [script |-> desired.script, epoch |-> control, revision |-> desired.revision + 1]
        /\ control' = control /\ confirmed' = confirmed /\ hangs' = hangs
        /\ setting' = "queued" /\ hung' = hung
    BY <1>3, <2>1 DEF Pac!GiveUp
  <2>3. /\ told' \in [Client -> {"idle", "none", "ok", "failed", "superseded"}]
        /\ pac' \in Pac!Script \cup {Pac!NoScript}
    BY <1>1, <1>2, ToldIsTyped DEF Pac!TypeOK
  <2>4. /\ Queue(Tail(tail), confirmed, desired.revision)
        /\ \A m \in hung : Queue(Tail(tail), m.revision, desired.revision)
    BY <1>1, HeadIs
  <2> QED BY <1>2, <2>1, <2>2, <2>3, <2>4, OneMore
<1>4. CASE ~(setting = "landed" /\ Pac!Repairs(Head(tail).revision))
  <2>1. /\ tail' = Tail(tail) /\ setting' = "queued" /\ desired' = desired /\ control' = control
        /\ hangs' = hangs /\ confirmed' = confirmed
        /\ hung' = hung \/ hung' = hung \cup {Pac!Pending(TRUE)}
    BY <1>4 DEF Pac!GiveUp
  <2> HIDE DEF Pac!Told, Pac!Pending
  <2> QED BY <1>1, <1>2, <2>1, HeadLeaves
<1> QED BY <1>3, <1>4

\* A setting that was given up vanishes, or lands: if it is watched, it is repaired.
LEMMA LateSteps ==
    ASSUME PacInv, NEW m \in hung, Pac!Land(m) \/ Pac!Vanish(m)
    PROVE  PacInv'
<1>1. Pac!TypeOK /\ Ordered /\ Pac!GivenUpIsRepaired
  BY DEF PacInv
<1>2. m.script \in Pac!Script /\ m.watched \in BOOLEAN
  BY NumbersOfTheState
<1>3. /\ hung' = hung \ {m} /\ control' = control /\ told' = told /\ setting' = setting
      /\ hangs' = hangs /\ confirmed' = confirmed
  BY DEF Pac!Land, Pac!Vanish
<1>4. /\ pac' \in Pac!Script \cup {Pac!NoScript} /\ blind' \in BOOLEAN
      /\ told' \in [Client -> {"idle", "none", "ok", "failed", "superseded"}]
  BY <1>1, <1>2, <1>3 DEF Pac!TypeOK, Pac!Land, Pac!Vanish
<1>5. CASE Pac!Land(m) /\ m.watched /\ Pac!Repairs(m.revision)
  <2>1. desired.script \in Pac!Script /\ desired.epoch = control
    BY <1>5, RepairAsks
  <2>2. /\ tail' = Append(tail, [by |-> Pac!Repair, script |-> desired.script, epoch |-> control,
                                 revision |-> desired.revision + 1])
        /\ desired' = [script |-> desired.script, epoch |-> control, revision |-> desired.revision + 1]
    BY <1>5, <2>1 DEF Pac!Land, Pac!Enqueued
  <2>3. Queue(tail, confirmed, desired.revision) /\ \A n \in hung : Queue(tail, n.revision, desired.revision)
    BY <1>1 DEF Ordered
  <2> QED BY <1>3, <1>4, <2>1, <2>2, <2>3, OneMore
<1>6. CASE ~(Pac!Land(m) /\ m.watched /\ Pac!Repairs(m.revision))
  <2>1. tail' = tail /\ desired' = desired
    BY <1>6 DEF Pac!Land, Pac!Vanish
  <2>2. /\ control' \in 1 .. MaxControl /\ control <= control' /\ (Busy' <=> Busy)
        /\ setting' \in {"queued", "set", "read", "landed"} /\ (setting' # "queued" => tail # <<>>)
    BY <1>1, <1>3, NumbersOfTheState DEF Busy, Ordered, Pac!TypeOK
  <2>3. Pac!TypeOK' /\ Ordered' /\ Counted'
    BY <1>3, <1>4, <2>1, <2>2, TailStays
  <2>4. Pac!GivenUpIsRepaired'
    <3> SUFFICES ASSUME Pac!Settled', ~blind' PROVE pac' = desired'.script
      BY DEF Pac!GivenUpIsRepaired
    <3>1. Pac!Settled
      BY <1>3, <2>1 DEF Pac!Settled
    <3>2. ~Pac!Land(m)
      <4>1. m.watched => m.revision # desired.revision
        BY <1>1, <3>1 DEF Ordered, Pac!Settled
      <4>2. m.watched => Pac!Repairs(m.revision)
        BY <3>1, <4>1 DEF Pac!Settled, Pac!Repairs
      <4> QED BY <1>6, <4>2 DEF Pac!Land
    <3>3. pac' = pac /\ blind' = blind
      BY <3>2 DEF Pac!Vanish
    <3> QED BY <1>1, <2>1, <3>1, <3>3 DEF Pac!GivenUpIsRepaired
  <2> QED BY <2>3, <2>4 DEF PacInv
<1> QED BY <1>5, <1>6

-----------------------------------------------------------------------------
(* The theorems.                                                           *)

\* The invariant of the controller holds initially, and every step keeps it.
LEMMA PacInit == Pac!Init => PacInv
<1> SUFFICES ASSUME Pac!Init PROVE PacInv
  OBVIOUS
<1>1. /\ control = 1 /\ told = [o \in Client |-> "idle"] /\ pac = Pac!NoScript
      /\ desired = [script |-> Pac!NoScript, epoch |-> 0, revision |-> 0]
      /\ tail = <<>> /\ setting = "queued" /\ hung = {} /\ hangs = 0 /\ confirmed = 0
      /\ blind = FALSE
  BY DEF Pac!Init
<1>2. IsFiniteSet(hung) /\ Cardinality(hung) = 0
  BY <1>1, FS_EmptySet
<1>3. 0 \in Pac!Revision
  BY RevisionsAreNat DEF Pac!Revision
<1>4. Pac!TypeOK
  <2>1. tail \in Seq(Installation)
    BY <1>1, EmptySeq
  <2>2. desired \in [script : Pac!Script \cup {Pac!NoScript}, epoch : 0 .. MaxControl,
                   revision : Pac!Revision]
    BY <1>1, <1>3, RevisionsAreNat
  <2>3. told \in [Client -> {"idle", "none", "ok", "failed", "superseded"}]
    BY <1>1
  <2>4. control \in 1 .. MaxControl /\ hangs \in 0 .. MaxHung
    BY <1>1, RevisionsAreNat
  <2>5. /\ pac \in Pac!Script \cup {Pac!NoScript} /\ setting \in {"queued", "set", "read", "landed"}
        /\ hung \subseteq [script : Pac!Script, revision : Pac!Revision, watched : BOOLEAN]
        /\ confirmed \in Pac!Revision /\ blind \in BOOLEAN
    BY <1>1, <1>3
  <2> QED BY ONLY <2>1, <2>2, <2>3, <2>4, <2>5 DEF Pac!TypeOK, Installation
<1>5. Queue(tail, confirmed, desired.revision)
  <2>1. tail \in Seq(Installation) /\ Len(tail) = 0
    BY <1>1, EmptySeq
  <2> QED BY <2>1 DEF Queue
<1>6. Ordered
  BY <1>1, <1>5 DEF Ordered, Newest
<1>7. Counted
  BY <1>1, <1>2, RevisionsAreNat DEF Counted, Unlanded, Busy
<1>8. Pac!GivenUpIsRepaired
  BY <1>1 DEF Pac!GivenUpIsRepaired
<1> QED BY <1>4, <1>6, <1>7, <1>8 DEF PacInv

LEMMA PacStep == PacInv /\ [Pac!Next]_pacVars => PacInv'
<1> SUFFICES ASSUME PacInv, Pac!Next \/ UNCHANGED pacVars PROVE PacInv'
  OBVIOUS
<1>1. CASE Pac!BeginControlGeneration \/ (\E o \in Client : Pac!Resume(o)) \/ UNCHANGED pacVars
  BY <1>1, AsyncSteps
<1>2. CASE \E o \in Client : \E script \in Pac!Script : Pac!Install(o, script)
  BY <1>2, InstallStep
<1>3. CASE Pac!BeginSetting
  BY <1>3, BeginSettingStep
<1>4. CASE Pac!Confirm \/ Pac!Refuse \/ Pac!ReadBack
  BY <1>4, OutcomeSteps
<1>5. CASE Pac!TimeOut \/ Pac!LandWhileReading
  BY <1>5, ReadingSteps
<1>6. CASE Pac!GiveUp
  BY <1>6, GiveUpStep
<1>7. CASE \E m \in hung : Pac!Land(m) \/ Pac!Vanish(m)
  BY <1>7, LateSteps
<1> QED BY <1>1, <1>2, <1>3, <1>4, <1>5, <1>6, <1>7 DEF Pac!Next

HostInv == IInv /\ PacInv

\* Whichever of the two a behaviour is about, both invariants hold throughout.
THEOREM HostInvariantHolds == HostSpec => []HostInv
<1>1. HostInit => HostInv
  BY InvariantInit, PacInit DEF HostInit, HostInv
<1>2. HostInv /\ [HostNext]_<<vars, pacVars, part>> => HostInv'
  <2> SUFFICES ASSUME HostInv, [HostNext]_<<vars, pacVars, part>> PROVE HostInv'
    OBVIOUS
  <2>1. [Next]_vars /\ [Pac!Next]_pacVars
    BY DEF HostNext
  <2> QED BY <2>1, InvariantStep, PacStep DEF HostInv
<1> QED BY <1>1, <1>2, PTL DEF HostSpec

\* The host and the controller keep to their types; the bound on the revisions
\* says that repairs do not cause repairs, whatever the number of faults.
THEOREM HostTypesCorrect == HostSpec => []TypesOK
<1>1. HostSpec => [](part \in {"host", "pac"})
  <2>1. HostInit => part \in {"host", "pac"}
    BY DEF HostInit
  <2>2. part \in {"host", "pac"} /\ [HostNext]_<<vars, pacVars, part>> => (part \in {"host", "pac"})'
    BY DEF HostNext
  <2> QED BY <2>1, <2>2, PTL DEF HostSpec
<1>2. part \in {"host", "pac"} /\ HostInv => TypesOK
  BY DEF HostInv, IInv, PacInv, TypesOK
<1> QED BY <1>1, <1>2, HostInvariantHolds, PTL

\* At rest and confirmed, the newest script is the one that Chromium has
\* selected, whatever was given up and landed late.
THEOREM LateSettingsAreRepaired == HostSpec => []GivenUpIsRepaired
<1>1. HostInv => GivenUpIsRepaired
  BY DEF HostInv, PacInv, GivenUpIsRepaired
<1> QED BY <1>1, HostInvariantHolds, PTL

\* A step tells an operation "ok" only as it takes the operation's own
\* installation, of the present epoch, off the tail with its script selected.
LEMMA OnlyOwnScriptIsOk == ASSUME PacInv, [Pac!Next]_pacVars PROVE Pac!ToldOk
<1> SUFFICES ASSUME NEW o \in Client, told[o] = "none", told'[o] = "ok"
             PROVE  \E i \in {Head(tail)} : i.by = o /\ i.epoch = control /\ pac' = i.script
  BY DEF Pac!ToldOk, Pac!TellOk
<1>1. told \in [Client -> {"idle", "none", "ok", "failed", "superseded"}]
  BY DEF PacInv, Pac!TypeOK
<1>2. ASSUME NEW by, NEW outcome, Pac!Told(by, outcome) PROVE by = o /\ outcome = "ok"
  BY <1>1, <1>2 DEF Pac!Told
<1>3. told' # told
  OBVIOUS
<1>4. CASE Pac!Confirm \/ Pac!ReadBack
  <2>1. pac' = Head(tail).script /\ Pac!Told(Head(tail).by, Pac!Outcome(Head(tail)))
    BY <1>4 DEF Pac!Confirm, Pac!ReadBack, Pac!Observed
  <2>2. Head(tail).by = o /\ Pac!Outcome(Head(tail)) = "ok"
    BY <1>2, <2>1
  <2>3. Head(tail).epoch = control
    BY <2>2 DEF Pac!Outcome
  <2> QED BY <2>1, <2>2, <2>3
<1>5. ASSUME Pac!Refuse \/ Pac!GiveUp PROVE FALSE
  <2>1. Pac!Told(Head(tail).by, "failed")
    BY <1>5 DEF Pac!Refuse, Pac!GiveUp
  <2> QED BY <1>2, <2>1
<1>6. ASSUME Pac!BeginSetting PROVE FALSE
  <2>1. Pac!Told(Head(tail).by, "superseded")
    BY <1>3, <1>6 DEF Pac!BeginSetting
  <2> QED BY <1>2, <2>1
<1>7. ASSUME NEW c \in Client, Pac!Resume(c) \/ \E script \in Pac!Script : Pac!Install(c, script)
      PROVE  FALSE
  BY <1>1, <1>7 DEF Pac!Resume, Pac!Install
<1> QED BY <1>3, <1>4, <1>5, <1>6, <1>7
        DEF Pac!Next, Pac!BeginControlGeneration, Pac!TimeOut, Pac!LandWhileReading,
            Pac!Land, Pac!Vanish, pacVars

\* An operation that is told "ok" has its own script selected, under the epoch
\* it installed it for.
THEOREM OkIsOwnScript == HostSpec => OkMeansSelected
<1>1. HostInv /\ [HostNext]_<<vars, pacVars, part>>
      => [part = "pac" => Pac!ToldOk]_<<pacVars, part>>
  <2> SUFFICES ASSUME HostInv, HostNext PROVE Pac!ToldOk \/ UNCHANGED <<pacVars, part>>
    BY DEF pacVars
  <2>1. [Pac!Next]_pacVars
    BY DEF HostNext
  <2> QED BY <2>1, OnlyOwnScriptIsOk DEF HostInv
<1> QED BY <1>1, HostInvariantHolds, PTL DEF HostSpec, OkMeansSelected
=============================================================================
