---------------------- MODULE HeaderPublicationProofs ----------------------
(***************************************************************************)
(* HeaderPublication for any number of processes and threads, any chains   *)
(* and any limits: the locks exclude and never deadlock, a ready record is *)
(* a whole publication with a number of its own, an epoch names one root,  *)
(* and the four stores behind the locks are one atomic header state.       *)
(***************************************************************************)
EXTENDS HeaderPublication, SequenceTheorems, TLAPS

\* The order in which every operation takes its locks.
Rank(l) ==
    CASE l[1] = "sync" -> 1 [] l[1] = "header-sync" -> 2 [] l[1] = "maintenance" -> 3
      [] l[1] = "header-state" -> 4 [] l[1] = "peers" -> 5 [] OTHER -> 6

-----------------------------------------------------------------------------
(* The inductive invariant                                                 *)

\* No two threads hold locks that clash, and each takes its locks in order.
Exclusion ==
    \A t, u \in Thread : t # u =>
        \A l \in holds[t], h \in holds[u] : ~(SameLock(t, u, l) /\ Clash(h, l))
InOrder == \A t \in Thread : \A l \in holds[t], m \in Lacks(t) : Rank(l) < Rank(m)

\* Whoever replaces the state has announced it, keeps the file locked, and
\* writes a number beyond those that were ever ready.
Publisher == {"headers", "peers", "finish", "rewrite", "stampHeaders", "stampPeers"}
Replacing(t) ==
    /\ phase[t] \in Publisher =>
          record = Updating /\ X("header-state") \in holds[t] /\ issued <= base[t].id.p
    /\ phase[t] \in {"peers", "stampPeers", "finish"} => hgen = NextGeneration(base[t].id)
    /\ phase[t] = "finish" => pgen = hgen
    /\ phase[t] \in {"publish", "headers"} => staged[t].best \in Chain
AllReplacing == \A t \in Thread : Replacing(t)
Numbered ==
    /\ issued <= pgen
    /\ record.state = "ready" => record.id = Live /\ hgen = pgen /\ issued = hgen

\* A lease is no newer than the epoch of its process; one of this epoch has
\* the root that is remembered, and no maintenance came since.
Working == {"working", "loadPeers", "savePeers", "write", "tunnel", "relay"}
Leased(t) ==
    LET now == epoch[Home[t]] IN
    /\ life[Home[t]] # "up" => phase[t] = "idle" /\ lease[t] = NoLease
    /\ phase[t] \notin Working \cup {"idle"} => lease[t] = NoLease
    /\ phase[t] \in Working => lease[t].epoch # 0 /\ lease[t].root # NoRoot
    /\ lease[t] = NoLease => ~spoiled[t]
    /\ now # 0 => lease[t].epoch <= now
    /\ now # 0 /\ lease[t].epoch = now => ~spoiled[t] /\ lease[t].root = remembered[Home[t]]
AllLeased == \A t \in Thread : Leased(t)

IInv ==
    /\ TypeOK /\ Exclusion /\ InOrder /\ AllReplacing /\ Numbered
    /\ AllLeased /\ EpochNamesOneRoot

-----------------------------------------------------------------------------
(* The table of needs                                                      *)

\* A lock is its name with a mode, and its rank that of its name.
LEMMA Locks ==
    /\ \A l : X(l)[1] = l /\ X(l)[2] = "exclusive" /\ S(l)[1] = l /\ S(l)[2] = "shared"
    /\ Rank(X("sync")) = 1 /\ Rank(X("header-sync")) = 2
    /\ Rank(X("maintenance")) = 3 /\ Rank(S("maintenance")) = 3
    /\ Rank(X("header-state")) = 4 /\ Rank(S("header-state")) = 4
    /\ Rank(X("peers")) = 5 /\ Rank(X("peer-state")) = 6 /\ Rank(S("peer-state")) = 6
    /\ \A l \in LockMode : Rank(l) \in 1 .. 6
  BY DEF X, S, Rank, LockMode, File

\* A table row lists locks in their order, each once.
Row(needs) ==
    /\ needs \in Seq(LockMode) /\ Len(needs) <= 6
    /\ \A i, j \in DOMAIN needs : i < j => Rank(needs[i]) < Rank(needs[j])

\* The rows of the table.
LEMMA Rows ==
    /\ Needs["sync"] = <<X("sync")>>
    /\ Needs["compare"] = Reading /\ Needs["write"] = Reading
    /\ Needs["reconcile"] = <<X("maintenance"), S("header-state"), S("peer-state")>>
    /\ Needs["observe"] = <<S("header-state")>>
    /\ Needs["decide"] = <<X("header-sync"), S("header-state")>>
    /\ \A ph \in {"stage", "status", "admit"} : Needs[ph] = Admission
    /\ Needs["publish"] = Publishing
    /\ Needs["mutate"] = <<X("sync"), X("header-sync")>> \o Publishing
    /\ Needs["clear"] = <<X("sync"), X("maintenance"), X("header-state")>>
    /\ Needs["addPeer"] = <<X("sync"), S("maintenance"), S("header-state")>> \o SavingPeers
    /\ \A ph \in {"retry", "refuse"} :
          Needs[ph] = <<X("maintenance"), S("header-state"), X("peers"), S("peer-state")>>
    /\ \A ph \in {"loadPeers", "savePeers"} : Needs[ph] = SavingPeers
    /\ Needs["tunnel"] = <<S("maintenance")>>
    /\ \A ph \in {"idle", "fetch", "headers", "peers", "finish", "rewrite", "stampHeaders",
                  "stampPeers", "working", "relay"} : Needs[ph] = <<>>
  BY DEF Needs, Phase

\* Two of the rows are concatenations.
LEMMA LongRows ==
    /\ Needs["mutate"] = <<X("sync"), X("header-sync"), X("maintenance"), X("header-state"),
                           X("peers"), X("peer-state")>>
    /\ Needs["addPeer"] = <<X("sync"), S("maintenance"), S("header-state"),
                            X("peers"), X("peer-state")>>
<1> USE DEF Publishing, SavingPeers
<1>1. /\ <<X("sync"), X("header-sync")>> \in Seq(LockMode) /\ Publishing \in Seq(LockMode)
      /\ <<X("sync"), S("maintenance"), S("header-state")>> \in Seq(LockMode)
      /\ SavingPeers \in Seq(LockMode)
  BY DEF LockMode, File
<1>2. /\ Needs["mutate"] \in Seq(LockMode) /\ Len(Needs["mutate"]) = 6
      /\ \A i \in 1 .. 6 : Needs["mutate"][i] =
            IF i <= 2 THEN <<X("sync"), X("header-sync")>>[i] ELSE Publishing[i - 2]
  BY <1>1, Rows, ConcatProperties
<1>3. /\ Needs["addPeer"] \in Seq(LockMode) /\ Len(Needs["addPeer"]) = 5
      /\ \A i \in 1 .. 5 : Needs["addPeer"][i] =
            IF i <= 3 THEN <<X("sync"), S("maintenance"), S("header-state")>>[i]
            ELSE SavingPeers[i - 3]
  BY <1>1, Rows, ConcatProperties
<1> QED BY <1>1, <1>2, <1>3

\* Every row is in order.
LEMMA NeedsAreOrdered == \A ph \in Phase : Row(Needs[ph])
<1> USE Locks DEF Row, LockMode, File
<1>1. Row(<<>>) /\ Row(<<X("sync")>>) /\ Row(<<S("header-state")>>) /\ Row(<<S("maintenance")>>)
  OBVIOUS
<1>2. Row(Reading) /\ Row(<<X("header-sync"), S("header-state")>>) /\ Row(SavingPeers)
  BY DEF Reading, SavingPeers
<1>3. /\ Row(<<X("maintenance"), S("header-state"), S("peer-state")>>)
      /\ Row(<<X("sync"), X("maintenance"), X("header-state")>>)
  OBVIOUS
<1>4. Row(Admission) /\ Row(Publishing)
  BY DEF Admission, Publishing
<1>5. Row(<<X("maintenance"), S("header-state"), X("peers"), S("peer-state")>>)
  OBVIOUS
<1>6. Row(Needs["mutate"])
  BY LongRows
<1>7. Row(Needs["addPeer"])
  BY LongRows
<1> HIDE DEF Row, LockMode, File
<1> QED BY <1>1, <1>2, <1>3, <1>4, <1>5, <1>6, <1>7, Rows, ZenonT(40) DEF Phase
\* What a phase needs of locks, where the proofs ask.
LEMMA RequiredLocks ==
    /\ \A ph \in Phase : Required[ph] \subseteq LockMode
    /\ X("header-state") \in Required["publish"] /\ X("header-state") \in Required["mutate"]
    /\ \A ph \in {"compare", "reconcile", "observe", "stage", "publish"} :
          \A l \in Required[ph] : Rank(l) > 2
    /\ Required["decide"] = {X("header-sync"), S("header-state")}
    /\ \A ph \in {"idle", "fetch", "headers", "peers", "finish", "rewrite", "stampHeaders",
                   "stampPeers", "working", "relay"} : Required[ph] = {}
<1>1. ASSUME NEW ph \in Phase PROVE Required[ph] = {Needs[ph][i] : i \in DOMAIN Needs[ph]}
  BY DEF Required
<1>2. ASSUME NEW ph \in Phase PROVE Required[ph] \subseteq LockMode
  BY <1>1, NeedsAreOrdered DEF Row
<1>3. X("header-state") \in Required["publish"] /\ X("header-state") \in Required["mutate"]
  <2>1. Publishing[2] = X("header-state") /\ 2 \in DOMAIN Publishing
    BY DEF Publishing
  <2>2. Needs["mutate"][4] = X("header-state") /\ 4 \in DOMAIN Needs["mutate"]
    BY LongRows
  <2> QED BY <1>1, <2>1, <2>2, Rows DEF Phase
<1>4. \A ph \in {"compare", "reconcile", "observe", "stage", "publish"} :
         \A l \in Required[ph] : Rank(l) > 2
  <2>1. /\ \A i \in DOMAIN Reading : Rank(Reading[i]) > 2
        /\ \A i \in DOMAIN Admission : Rank(Admission[i]) > 2
        /\ \A i \in DOMAIN Publishing : Rank(Publishing[i]) > 2
    BY Locks DEF Reading, Admission, Publishing
  <2>2. \A i \in DOMAIN Needs["reconcile"] : Rank(Needs["reconcile"][i]) > 2
    BY Locks, Rows
  <2>3. \A i \in DOMAIN Needs["observe"] : Rank(Needs["observe"][i]) > 2
    BY Locks, Rows
  <2>4. ASSUME NEW ph \in {"compare", "reconcile", "observe", "stage", "publish"}
        PROVE  ph \in Phase /\ \A i \in DOMAIN Needs[ph] : Rank(Needs[ph][i]) > 2
    BY <2>1, <2>2, <2>3, Rows DEF Phase
  <2> QED BY <1>1, <2>4
<1>5. Required["decide"] = {X("header-sync"), S("header-state")}
  <2>1. ASSUME NEW a, NEW b PROVE {<<a, b>>[i] : i \in DOMAIN <<a, b>>} = {a, b}
    OBVIOUS
  <2>2. {Needs["decide"][i] : i \in DOMAIN Needs["decide"]} = {X("header-sync"), S("header-state")}
    BY <2>1, Rows
  <2> QED BY <1>1, <2>2 DEF Phase
<1>6. \A ph \in {"idle", "fetch", "headers", "peers", "finish", "rewrite", "stampHeaders",
                 "stampPeers", "working", "relay"} : Required[ph] = {}
  BY <1>1, Rows DEF Phase
<1> QED BY <1>2, <1>3, <1>4, <1>5, <1>6

\* A thread that lacks locks wants the lowest of them.
LEMMA WantedIsLowest ==
    ASSUME NEW t \in Thread, phase[t] \in Phase, ~HasAll(t)
    PROVE  /\ Wanted(t) \in Lacks(t)
           /\ \A l \in Lacks(t) : l # Wanted(t) => Rank(Wanted(t)) < Rank(l)
<1> DEFINE needs == Needs[phase[t]]
           open == {i \in DOMAIN needs : needs[i] \notin holds[t]}
<1>1. /\ Lacks(t) = {needs[i] : i \in DOMAIN needs} \ holds[t]
      /\ needs \in Seq(LockMode) /\ DOMAIN needs = 1 .. Len(needs) /\ Len(needs) \in Nat
      /\ \A i, j \in DOMAIN needs : i < j => Rank(needs[i]) < Rank(needs[j])
  BY NeedsAreOrdered, LenProperties DEF Lacks, Required, Row
<1>2. open # {}
  BY <1>1 DEF HasAll
<1>3. PICK k \in open : \A j \in open : k <= j
  <2>1. open \subseteq 1 .. 6
    BY <1>1, NeedsAreOrdered DEF Row
  <2>2. SUFFICES ASSUME \A k \in open : \E j \in open : j < k PROVE FALSE
    BY <2>1
  <2> HIDE DEF open
  <2>3. 1 \notin open
    BY <2>1, <2>2
  <2>4. 2 \notin open /\ 3 \notin open
    BY <2>1, <2>2, <2>3
  <2>5. 4 \notin open /\ 5 \notin open
    BY <2>1, <2>2, <2>3, <2>4
  <2>6. 6 \notin open
    BY <2>1, <2>2, <2>3, <2>4, <2>5
  <2>7. PICK k \in 1 .. 6 : k \in open
    BY <1>2, <2>1
  <2> QED BY <2>3, <2>4, <2>5, <2>6, <2>7
<1>4. /\ k \in DOMAIN needs /\ needs[k] \notin holds[t]
      /\ \A j \in 1 .. k - 1 : needs[j] \in holds[t]
  BY <1>1, <1>3
<1>5. \A i \in DOMAIN needs :
         (needs[i] \notin holds[t] /\ \A j \in 1 .. i - 1 : needs[j] \in holds[t]) => i = k
  BY <1>1, <1>3, <1>4
<1>6. Wanted(t) = needs[k]
  <2> HIDE DEF needs
  <2>1. (CHOOSE i \in DOMAIN needs :
            needs[i] \notin holds[t] /\ \A j \in 1 .. i - 1 : needs[j] \in holds[t]) = k
    BY <1>4, <1>5
  <2> QED BY <2>1 DEF Wanted, needs
<1> QED BY <1>1, <1>3, <1>4, <1>6
-----------------------------------------------------------------------------
(* Types                                                                   *)

DiskTyped ==
    /\ hgen \in Gen /\ pgen \in Gen /\ best \in Chain /\ fresh \in BOOLEAN
    /\ known \subseteq Endpoint /\ issued \in Gen
    /\ record \in {Ready(id) : id \in Identity} \cup NotReady
MemoryTyped ==
    /\ life \in [Process -> {"down", "opening", "up"}]
    /\ epoch \in [Process -> 0 .. MAX_EPOCH]
    /\ remembered \in [Process -> Root \cup {NoRoot, Pending}]
Base == [id : Identity, ready : BOOLEAN]
Staged == [best : Chain \cup {NoChain}, fresh : BOOLEAN, known : SUBSET Endpoint]
Lease == [epoch : 0 .. MAX_EPOCH, root : Root \cup {NoRoot}]
ThreadsTyped ==
    /\ phase \in [Thread -> Phase] /\ holds \in [Thread -> SUBSET LockMode]
    /\ base \in [Thread -> Base] /\ staged \in [Thread -> Staged]
    /\ lease \in [Thread -> Lease] /\ spoiled \in [Thread -> BOOLEAN]

\* The type invariant, by the place of the state.
LEMMA TypeParts == TypeOK <=> DiskTyped /\ MemoryTyped /\ ThreadsTyped /\ faults \in 0 .. MaxFaults
  BY DEF TypeOK, DiskTyped, MemoryTyped, ThreadsTyped, Base, Staged, Lease

\* What stands for nothing has its type.
LEMMA NothingIsTyped ==
    /\ NoId \in Identity /\ NoBase \in Base /\ NoStage \in Staged /\ NoLease \in Lease
    /\ Updating \in NotReady /\ Torn \subseteq NotReady
    /\ 0 \in Gen /\ 1 \in 0 .. MAX_EPOCH /\ 0 \in 0 .. MAX_EPOCH
    /\ Pending \notin Root \cup {NoRoot} /\ Genesis \in Chain
<1> USE RootsAreNotMarkers, LimitsAreNat
<1>1. NoId \in Identity
  BY DEF NoId, Identity, Gen
<1>2. NoLease \in Lease
  BY DEF NoLease, Lease
<1> QED BY <1>1, <1>2 DEF NoBase, Base, NoStage, Staged, Updating, Torn, NotReady, Gen, Root

\* What a reader sees has its type.
LEMMA ReadingIsTyped ==
    ASSUME DiskTyped
    PROVE  /\ Live \in Identity
           /\ Authority \in Root \cup {NoRoot} /\ Observed \in Root \cup {NoRoot}
<1>1. Live \in Identity
  BY DEF DiskTyped, Live, Identity
<1>2. Authority \in Root \cup {NoRoot}
  BY DEF DiskTyped, Authority, Root
<1> QED BY <1>1, <1>2 DEF Observed

\* The home of a thread is a process.
LEMMA Homes == \A t \in Thread : Home[t] \in Process
  BY HomeIsAProcess

\* A thread that goes on keeps the types of all threads.
LEMMA GotoTyped ==
    ASSUME ThreadsTyped, NEW t \in Thread, NEW ph \in Phase,
           NEW kept, kept \subseteq Held(t), Goto(t, ph, kept)
    PROVE  phase' \in [Thread -> Phase] /\ holds' \in [Thread -> SUBSET LockMode]
<1>1. Held(t) \subseteq LockMode
  BY RequiredLocks DEF ThreadsTyped, Held, Lacks
<1> QED BY <1>1 DEF Goto, ThreadsTyped

\* ... and so does one that ends.
LEMMA EndTyped ==
    ASSUME ThreadsTyped, NEW t \in Thread
    PROVE  /\ \A snapshot \in Lease : EndWith(t, snapshot) => ThreadsTyped'
           /\ End(t) => ThreadsTyped'
<1>1. ASSUME NEW snapshot \in Lease, EndWith(t, snapshot) PROVE ThreadsTyped'
  <2>1. "idle" \in Phase
    BY DEF Phase
  <2>2. phase' \in [Thread -> Phase] /\ holds' \in [Thread -> SUBSET LockMode]
    BY <1>1, <2>1, GotoTyped DEF EndWith
  <2>3. base' \in [Thread -> Base] /\ staged' \in [Thread -> Staged]
    BY <1>1, NothingIsTyped DEF EndWith, ThreadsTyped
  <2>4. lease' \in [Thread -> Lease] /\ spoiled' \in [Thread -> BOOLEAN]
    BY <1>1 DEF EndWith, ThreadsTyped
  <2> QED BY <2>2, <2>3, <2>4 DEF ThreadsTyped
<1> QED BY <1>1, NothingIsTyped DEF End

\* The two ways in which an epoch moves keep the types of the memory.
LEMMA EpochTyped ==
    ASSUME MemoryTyped, NEW p \in Process, UNCHANGED life
    PROVE  /\ BeginMaintenance(p) => MemoryTyped'
           /\ \A seen \in Root \cup {NoRoot} : Reconcile(p, seen) => MemoryTyped'
<1>1. NextEpoch(p) \in 0 .. MAX_EPOCH
  BY LimitsAreNat DEF MemoryTyped, NextEpoch, CanAdvance
<1> QED BY <1>1 DEF MemoryTyped, BeginMaintenance, Reconcile
\* Going on with nothing else of the thread changed.
LEMMA GoOnTyped ==
    ASSUME ThreadsTyped, NEW t \in Thread, NEW ph \in Phase,
           NEW kept, kept \subseteq Held(t), Goto(t, ph, kept), Keep
    PROVE  ThreadsTyped'
  BY GotoTyped DEF ThreadsTyped, Keep

\* What a section keeps of its locks when it ends.
LEMMA KeptIsHeld == \A t : Kept(t) \subseteq Held(t) /\ Kept(t) \subseteq {X("sync"), X("header-sync")}
  BY DEF Kept

\* A step of an operation keeps the types of the threads.
LEMMA ThreadsStep ==
    ASSUME DiskTyped, MemoryTyped, ThreadsTyped, NEW t \in Thread, Step(t)
    PROVE  ThreadsTyped'
<1> USE KeptIsHeld DEF Phase
<1>1. ASSUME Reconciled(t) PROVE ThreadsTyped'
  BY <1>1, EndTyped, GoOnTyped DEF Reconciled
<1>2. ASSUME Spoil(Home[t]) PROVE spoiled' \in [Thread -> BOOLEAN]
  BY <1>2 DEF Spoil, ThreadsTyped
<1>3. ASSUME Read(t) PROVE base' \in [Thread -> Base]
  <2>1. [id |-> Live, ready |-> Readable] \in Base
    BY ReadingIsTyped DEF Base, Readable
  <2> QED BY <1>3, <2>1 DEF Read, ThreadsTyped
<1>4. CASE BeginSync(t)
  BY <1>4, GoOnTyped DEF BeginSync
<1>5. CASE Compare(t)
  BY <1>1, <1>5, GoOnTyped DEF Compare
<1>6. CASE ReconcileCurrent(t)
  BY <1>1, <1>6, EndTyped DEF ReconcileCurrent
<1>7. CASE Observe(t)
  <2>1. phase' \in [Thread -> Phase] /\ holds' \in [Thread -> SUBSET LockMode]
    BY <1>7, GotoTyped DEF Observe
  <2> QED BY <1>3, <1>7, <2>1 DEF Observe, ThreadsTyped
<1>8. CASE Decide(t)
  BY <1>8, GoOnTyped DEF Decide
<1>9. CASE Stage(t)
  <2>1. [best |-> best, fresh |-> fresh, known |-> known] \in Staged
    BY DEF DiskTyped, Staged
  <2> QED BY <1>3, <1>9, <2>1, GotoTyped DEF Stage, ThreadsTyped
<1>10. CASE Fetch(t)
  <2>1. PICK c \in Chain, f \in BOOLEAN :
            staged' = [staged EXCEPT ![t] = [@ EXCEPT !.best = c, !.fresh = f]]
    BY <1>10 DEF Fetch
  <2>2. [staged[t] EXCEPT !.best = c, !.fresh = f] \in Staged
    BY DEF ThreadsTyped, Staged
  <2>3. staged' \in [Thread -> Staged]
    BY <2>1, <2>2 DEF ThreadsTyped
  <2> QED BY <1>10, <2>3, GotoTyped DEF Fetch, ThreadsTyped
<1>11. CASE BeginPublication(t)
  BY <1>2, <1>11, EndTyped, GoOnTyped, GotoTyped DEF BeginPublication, ThreadsTyped
<1>12. CASE CommitHeaders(t) \/ CommitPeers(t) \/ MarkReady(t)
  BY <1>12, EndTyped, GoOnTyped DEF CommitHeaders, CommitPeers, MarkReady
<1>13. CASE BeginMutation(t)
  BY <1>2, <1>3, <1>13, EndTyped, GotoTyped DEF BeginMutation, ThreadsTyped
<1>14. CASE Rewrite(t) \/ StampHeaders(t) \/ StampPeers(t)
  BY <1>14, EndTyped, GoOnTyped DEF Rewrite, StampHeaders, StampPeers
<1>15. CASE ClearCache(t)
  BY <1>2, <1>15, GotoTyped DEF ClearCache, ThreadsTyped
<1>16. CASE AddPeer(t)
  BY <1>16, EndTyped DEF AddPeer
<1>17. [epoch |-> epoch[Home[t]], root |-> Observed] \in Lease
  BY Homes, ReadingIsTyped DEF MemoryTyped, Lease
<1>18. CASE ReadStatus(t)
  BY <1>17, <1>18, EndTyped, GoOnTyped DEF ReadStatus
<1>19. CASE Admit(t)
  BY <1>17, <1>19, EndTyped, GoOnTyped, GotoTyped DEF Admit, ThreadsTyped
<1>20. CASE TryReconcile(t)
  BY <1>20, EndTyped, GoOnTyped DEF TryReconcile
<1>21. CASE LoadPeers(t)
  <2>1. base' \in [Thread -> Base] /\ staged' \in [Thread -> Staged]
    BY <1>21, ZenonT(40) DEF LoadPeers, ThreadsTyped, DiskTyped, Base, Identity, Staged
  <2> QED BY <1>21, <2>1, GotoTyped DEF LoadPeers, ThreadsTyped
<1>22. CASE Resolve(t) \/ SavePeers(t) \/ Answer(t)
  BY <1>22, GoOnTyped DEF Resolve, SavePeers, Answer
<1>23. CASE Write(t) \/ Relay(t) \/ Relayed(t)
  BY <1>23, EndTyped, GoOnTyped DEF Write, Relay, Relayed
<1> QED
  BY <1>4, <1>5, <1>6, <1>7, <1>8, <1>9, <1>10, <1>11, <1>12, <1>13, <1>14, <1>15, <1>16, <1>18, <1>19,
     <1>20, <1>21, <1>22, <1>23 DEF Step, SyncStep, MutationStep, RequestStep
\* A step of an operation keeps the types of the memory.
LEMMA MemoryStep ==
    ASSUME DiskTyped, MemoryTyped, NEW t \in Thread, Step(t)
    PROVE  MemoryTyped'
<1> USE Homes
<1>1. ASSUME UNCHANGED memory PROVE MemoryTyped'
  BY <1>1 DEF memory, MemoryTyped
<1>2. CASE ReconcileCurrent(t) \/ TryReconcile(t) \/ MarkReady(t)
  BY <1>2, EpochTyped, ReadingIsTyped DEF ReconcileCurrent, TryReconcile, MarkReady
<1>3. CASE BeginPublication(t) \/ BeginMutation(t) \/ ClearCache(t)
  <2>1. UNCHANGED memory \/ (BeginMaintenance(Home[t]) /\ UNCHANGED life)
    BY <1>3 DEF BeginPublication, BeginMutation, ClearCache, memory
  <2> QED BY <1>1, <2>1, EpochTyped
<1> QED
  BY <1>1, <1>2, <1>3
  DEF Step, SyncStep, MutationStep, RequestStep, BeginSync, Compare, Observe, Decide, Stage, Fetch,
      CommitHeaders, CommitPeers, Rewrite, StampHeaders, StampPeers, AddPeer, ReadStatus, Admit, Resolve,
      LoadPeers, SavePeers, Answer, Write, Relay, Relayed

\* The generation after another, when there is one.
LEMMA Generations ==
    ASSUME ThreadsTyped, NEW t \in Thread
    PROVE  /\ base[t].id.p \in Gen /\ NextGeneration(base[t].id) > base[t].id.p
           /\ ~Exhausted(t) => NextGeneration(base[t].id) \in Gen
<1>1. base[t].id \in Identity
  BY DEF ThreadsTyped, Base
<1>2. base[t].id.h \in Gen /\ base[t].id.p \in Gen
  BY <1>1 DEF Identity
<1> QED BY <1>2, LimitsAreNat DEF Gen, NextGeneration, Newest, Exhausted

\* A step of an operation keeps the types of the disk.
LEMMA DiskStep ==
    ASSUME DiskTyped, ThreadsTyped, AllReplacing, NEW t \in Thread, Step(t)
    PROVE  DiskTyped'
<1> USE DEF DiskTyped
<1>1. CASE BeginPublication(t) \/ BeginMutation(t)
  BY <1>1, NothingIsTyped DEF BeginPublication, BeginMutation
<1>2. CASE CommitHeaders(t) \/ StampHeaders(t)
  BY <1>2, Generations DEF CommitHeaders, StampHeaders, AllReplacing, Replacing, At
<1>3. CASE CommitPeers(t) \/ StampPeers(t)
  <2>1. pgen' \in Gen
    BY <1>3 DEF CommitPeers, StampPeers, AllReplacing, Replacing, At
  <2>2. staged[t].fresh \in BOOLEAN /\ MergePeers(t) \subseteq Endpoint
    BY DEF MergePeers, ThreadsTyped, Staged
  <2> QED BY <1>3, <2>1, <2>2 DEF CommitPeers, StampPeers
<1>4. CASE MarkReady(t)
  BY <1>4, ReadingIsTyped DEF MarkReady
<1>5. CASE Rewrite(t)
  BY <1>5, NothingIsTyped DEF Rewrite
<1>6. CASE AddPeer(t) \/ SavePeers(t)
  BY <1>6 DEF AddPeer, SavePeers, MergePeers, ThreadsTyped, Staged
<1> QED
  BY <1>1, <1>2, <1>3, <1>4, <1>5, <1>6
  DEF Step, SyncStep, MutationStep, RequestStep, BeginSync, Compare, ReconcileCurrent, Observe, Decide,
      Stage, Fetch, ClearCache, ReadStatus, Admit, TryReconcile, Resolve, LoadPeers, Answer, Write,
      Relay, Relayed, disk

\* The types hold at first and are kept by every step.
LEMMA TypeStep ==
    /\ Init => TypeOK
    /\ TypeOK /\ AllReplacing /\ [Next]_vars => TypeOK'
<1>1. ASSUME Init PROVE TypeOK
  <2>1. record \in NotReady /\ "idle" \in Phase
    BY <1>1 DEF Init, NotReady, Phase
  <2>2. faults \in 0 .. MaxFaults
    BY <1>1, LimitsAreNat DEF Init
  <2> QED
    BY <1>1, <2>1, <2>2, NothingIsTyped, TypeParts DEF Init, DiskTyped, MemoryTyped, ThreadsTyped
<1> SUFFICES ASSUME TypeOK, AllReplacing, [Next]_vars PROVE TypeOK'
  BY <1>1
<1>2. DiskTyped /\ MemoryTyped /\ ThreadsTyped /\ faults \in 0 .. MaxFaults
  BY TypeParts
<1>3. SUFFICES DiskTyped' /\ MemoryTyped' /\ ThreadsTyped' /\ (faults \in 0 .. MaxFaults)'
  BY DEF TypeOK, DiskTyped, MemoryTyped, ThreadsTyped, Base, Staged, Lease
<1>4. /\ UNCHANGED disk => DiskTyped'
      /\ UNCHANGED memory => MemoryTyped'
      /\ UNCHANGED threads => ThreadsTyped'
  BY <1>2 DEF disk, memory, threads, DiskTyped, MemoryTyped, ThreadsTyped
<1>5. ASSUME NEW t \in Thread, Step(t)
      PROVE  DiskTyped' /\ MemoryTyped' /\ ThreadsTyped' /\ (faults \in 0 .. MaxFaults)'
  <2>1. UNCHANGED faults
    BY <1>5
    DEF Step, SyncStep, MutationStep, RequestStep, BeginSync, Compare, ReconcileCurrent, Observe, Decide,
        Stage, Fetch, BeginPublication, CommitHeaders, CommitPeers, MarkReady, BeginMutation, Rewrite,
        StampHeaders, StampPeers, ClearCache, AddPeer, ReadStatus, Admit, TryReconcile, Resolve,
        LoadPeers, SavePeers, Answer, Write, Relay, Relayed
  <2> QED BY <1>2, <1>5, <2>1, DiskStep, MemoryStep, ThreadsStep
<1>6. ASSUME NEW t \in Thread, Start(t) PROVE ThreadsTyped'
  <2>1. PICK duty \in Duties[t] :
            Goto(t, CASE duty = "status" -> "compare" [] duty = "request" -> "admit"
                      [] OTHER -> duty, {})
    BY <1>6 DEF Start
  <2>2. (CASE duty = "status" -> "compare" [] duty = "request" -> "admit" [] OTHER -> duty) \in Phase
    BY DutiesAreOperations DEF Phase
  <2>3. phase' \in [Thread -> Phase] /\ holds' \in [Thread -> SUBSET LockMode]
    BY <1>2, <2>1, <2>2, GotoTyped
  <2> QED BY <1>2, <1>6, <2>3, NothingIsTyped DEF Start, ThreadsTyped
<1>7. ASSUME NEW t \in Thread, Acquire(t) PROVE ThreadsTyped'
  <2>1. Wanted(t) \in LockMode
    BY <1>2, <1>7, WantedIsLowest, RequiredLocks DEF Acquire, ThreadsTyped, Lacks
  <2> QED BY <1>2, <1>7, <2>1 DEF Acquire, ThreadsTyped
<1>8. ASSUME NEW t \in Thread, Backoff(t) PROVE ThreadsTyped'
  BY <1>2, <1>8 DEF Backoff, ThreadsTyped, Phase
<1>9. ASSUME NEW t \in Thread, Fail(t) PROVE DiskTyped' /\ ThreadsTyped' /\ (faults \in 0 .. MaxFaults)'
  <2>1. record' \in {record} \cup NotReady
    BY <1>9, NothingIsTyped DEF Fail
  <2> QED BY <1>2, <1>9, <2>1, EndTyped, LimitsAreNat DEF Fail, DiskTyped
<1>10. ASSUME NEW p \in Process, Crash(p)
       PROVE  DiskTyped' /\ MemoryTyped' /\ ThreadsTyped' /\ (faults \in 0 .. MaxFaults)'
  <2>1. record' \in {record} \cup NotReady
    BY <1>10, NothingIsTyped DEF Crash
  <2>2. DiskTyped' /\ (faults \in 0 .. MaxFaults)'
    BY <1>2, <1>10, <2>1, LimitsAreNat DEF Crash, DiskTyped
  <2>3. MemoryTyped'
    BY <1>2, <1>10, NothingIsTyped DEF Crash, MemoryTyped
  <2>4. ThreadsTyped'
    BY <1>2, <1>10, NothingIsTyped DEF Crash, ThreadsTyped, Phase
  <2> QED BY <2>2, <2>3, <2>4
<1>11. ASSUME NEW p \in Process, InitializeRecord(p) PROVE DiskTyped' /\ MemoryTyped'
  <2>1. record' \in {Ready(Live), Updating}
    BY <1>11 DEF InitializeRecord
  <2>2. DiskTyped'
    BY <1>2, <1>11, <2>1, ReadingIsTyped, NothingIsTyped DEF InitializeRecord, DiskTyped
  <2> QED BY <1>2, <1>11, <2>2 DEF InitializeRecord, MemoryTyped
<1>12. ASSUME NEW p \in Process, ObserveInitial(p) PROVE MemoryTyped'
  BY <1>2, <1>12, ReadingIsTyped, NothingIsTyped DEF ObserveInitial, MemoryTyped
<1>13. ASSUME Expire PROVE DiskTyped'
  BY <1>2, <1>13 DEF Expire, DiskTyped
<1> QED
  BY <1>2, <1>4, <1>5, <1>6, <1>7, <1>8, <1>9, <1>10, <1>11, <1>12, <1>13, EndTyped
  DEF Next, Undisturbed, vars, Start, Acquire, Backoff, Cancel, Fail, InitializeRecord, ObserveInitial, Expire
-----------------------------------------------------------------------------
(* Locks                                                                   *)

\* A thread that keeps `kept` may wait for what phase `ph` needs.
Safe(ph, kept) == \A l \in kept, m \in Required[ph] \ kept : Rank(l) < Rank(m)

\* What a step of an operation does to the locks: it had all it needed, it
\* keeps some of them, and what it goes on to need is higher in the order.
Turn(t) ==
    /\ Locked(t)
    /\ \E ph \in Phase : \E kept \in SUBSET Held(t) : Goto(t, ph, kept) /\ Safe(ph, kept)

\* Which locks may be kept for which phase.
LEMMA SafeToKeep ==
    /\ \A ph : Safe(ph, {})
    /\ \A t, ph : ph \in {"compare", "reconcile", "observe", "decide", "stage", "fetch", "publish"} =>
          Safe(ph, Kept(t))
    /\ \A ph \in Publisher \cup {"relay"} : \A kept : Safe(ph, kept)
<1>1. \A ph \in Publisher \cup {"relay"} : \A kept : Safe(ph, kept)
  BY RequiredLocks DEF Safe, Publisher
<1>2. ASSUME NEW t, NEW ph \in {"compare", "reconcile", "observe", "stage", "fetch", "publish"}
      PROVE  Safe(ph, Kept(t))
  <2>1. \A l \in Kept(t) : Rank(l) \in {1, 2}
    BY KeptIsHeld, Locks
  <2>2. \A m \in Required[ph] : m \in LockMode /\ Rank(m) > 2
    BY RequiredLocks DEF Phase
  <2> QED BY <2>1, <2>2, Locks DEF Safe
<1>3. ASSUME NEW t PROVE Safe("decide", Kept(t))
  BY KeptIsHeld, Locks, RequiredLocks DEF Safe
<1> QED BY <1>1, <1>2, <1>3 DEF Safe

\* Every step of an operation is such a turn.
LEMMA StepTurns == ASSUME NEW t \in Thread, Step(t) PROVE Turn(t)
<1> USE DEF Phase, At
<1>1. ASSUME Locked(t), NEW ph \in Phase, Goto(t, ph, {}) PROVE Turn(t)
  BY <1>1, SafeToKeep DEF Turn
<1>2. ASSUME Locked(t), Goto(t, "compare", Kept(t)) \/ Goto(t, "reconcile", Kept(t)) \/
             Goto(t, "observe", Kept(t)) \/ Goto(t, "decide", Kept(t)) \/ Goto(t, "stage", Kept(t)) \/
             Goto(t, "fetch", Kept(t)) \/ Goto(t, "publish", Kept(t))
      PROVE  Turn(t)
  BY <1>2, SafeToKeep, KeptIsHeld DEF Turn
<1>3. ASSUME Locked(t), NEW ph \in Publisher \cup {"relay"}, Goto(t, ph, Held(t)) PROVE Turn(t)
  BY <1>3, SafeToKeep DEF Turn, Publisher
<1>4. ASSUME Locked(t), End(t) \/ \E snapshot : EndWith(t, snapshot) PROVE Turn(t)
  BY <1>1, <1>4 DEF End, EndWith
<1>5. ASSUME Locked(t), Reconciled(t) PROVE Turn(t)
  BY <1>1, <1>2, <1>4, <1>5 DEF Reconciled
<1>6. CASE BeginSync(t) \/ Compare(t) \/ ReconcileCurrent(t)
  BY <1>2, <1>4, <1>5, <1>6 DEF BeginSync, Compare, ReconcileCurrent
<1>7. CASE Observe(t) \/ Decide(t) \/ Stage(t) \/ Fetch(t)
  BY <1>2, <1>7 DEF Observe, Decide, Stage, Fetch
<1>8. CASE BeginPublication(t) \/ CommitHeaders(t) \/ CommitPeers(t) \/ MarkReady(t)
  BY <1>3, <1>4, <1>8 DEF BeginPublication, CommitHeaders, CommitPeers, MarkReady, Publisher
<1>9. CASE MutationStep(t)
  BY <1>3, <1>4, <1>9 DEF MutationStep, BeginMutation, Rewrite, StampHeaders, StampPeers, Publisher
<1>10. CASE ClearCache(t) \/ AddPeer(t) \/ ReadStatus(t)
  BY <1>1, <1>4, <1>10 DEF ClearCache, AddPeer, ReadStatus
<1>11. CASE Admit(t) \/ TryReconcile(t) \/ Resolve(t) \/ LoadPeers(t) \/ SavePeers(t) \/ Answer(t)
  BY <1>1, <1>4, <1>11 DEF Admit, TryReconcile, Resolve, LoadPeers, SavePeers, Answer
<1>12. CASE Write(t) \/ Relay(t) \/ Relayed(t)
  BY <1>1, <1>3, <1>4, <1>12 DEF Write, Relay, Relayed
<1> QED
  BY <1>6, <1>7, <1>8, <1>9, <1>10, <1>11, <1>12 DEF Step, SyncStep, RequestStep

\* Clashes go both ways.
LEMMA ClashIsMutual ==
    \A t, u, l, h : SameLock(t, u, l) /\ Clash(h, l) => SameLock(u, t, h) /\ Clash(l, h)
  BY DEF SameLock, Clash

\* Nobody else holds what clashes with a lock that a thread may use.
LEMMA HeldExcludes ==
    ASSUME ThreadsTyped, Exclusion, NEW t \in Thread, Locked(t), NEW u \in Thread \ {t},
           NEW l \in Held(t), NEW h \in holds[u]
    PROVE  ~(SameLock(t, u, l) /\ Clash(h, l))
<1>1. CASE l \in holds[t]
  BY <1>1 DEF Exclusion
<1>2. CASE l \in Lacks(t)
  BY <1>2 DEF Locked, HasAll, Holders
<1> QED BY <1>1, <1>2 DEF Held

\* All other steps let go of all that a thread holds, or take one lock.
Lets(u) == holds'[u] = {} \/ (holds'[u] = holds[u] /\ phase'[u] = phase[u])
LEMMA NextTurns ==
    ASSUME ThreadsTyped, [Next]_vars
    PROVE  (\E t \in Thread : Turn(t) \/ Acquire(t)) \/ \A u \in Thread : Lets(u)
<1> USE DEF ThreadsTyped, Lets
<1>1. ASSUME NEW t \in Thread, NEW ph, Goto(t, ph, {}) PROVE \A u \in Thread : Lets(u)
  BY <1>1 DEF Goto
<1>2. ASSUME NEW t \in Thread, Start(t) \/ Cancel(t) \/ Fail(t) PROVE \A u \in Thread : Lets(u)
  BY <1>1, <1>2 DEF Start, Cancel, Fail, End, EndWith
<1>3. ASSUME NEW t \in Thread, Backoff(t) PROVE \A u \in Thread : Lets(u)
  BY <1>3 DEF Backoff
<1>4. ASSUME NEW p \in Process, Crash(p) PROVE \A u \in Thread : Lets(u)
  BY <1>4 DEF Crash
<1>5. ASSUME UNCHANGED threads PROVE \A u \in Thread : Lets(u)
  BY <1>5 DEF threads
<1> QED
  BY <1>2, <1>3, <1>4, <1>5, StepTurns DEF Next, Undisturbed, vars, InitializeRecord, ObserveInitial, Expire

\* Locks exclude, and are taken in order.
LEMMA LockStep ==
    /\ Init => Exclusion /\ InOrder
    /\ ThreadsTyped /\ Exclusion /\ InOrder /\ [Next]_vars => Exclusion' /\ InOrder'
<1>1. Init => Exclusion /\ InOrder
  BY DEF Init, Exclusion, InOrder
<1> SUFFICES ASSUME ThreadsTyped, Exclusion, InOrder, [Next]_vars PROVE Exclusion' /\ InOrder'
  BY <1>1
<1>2. ASSUME NEW t \in Thread, NEW kept, holds' = [holds EXCEPT ![t] = kept],
             \A u \in Thread \ {t} : \A l \in kept, h \in holds[u] : ~(SameLock(t, u, l) /\ Clash(h, l))
      PROVE  Exclusion'
  <2> SUFFICES ASSUME NEW v \in Thread, NEW w \in Thread, v # w, NEW l \in holds'[v], NEW h \in holds'[w],
                      SameLock(v, w, l), Clash(h, l)
               PROVE  FALSE
    BY DEF Exclusion, SameLock, Clash
  <2>1. CASE v = t
    BY <1>2, <2>1 DEF ThreadsTyped
  <2>2. CASE w = t
    BY <1>2, <2>2, ClashIsMutual DEF ThreadsTyped
  <2>3. CASE v # t /\ w # t
    BY <1>2, <2>3 DEF ThreadsTyped, Exclusion
  <2> QED BY <2>1, <2>2, <2>3
<1>3. ASSUME NEW t \in Thread, Turn(t) PROVE Exclusion' /\ InOrder'
  <2>1. PICK ph \in Phase, kept \in SUBSET Held(t) : Goto(t, ph, kept) /\ Safe(ph, kept)
    BY <1>3 DEF Turn
  <2>2. Exclusion'
    <3>1. ASSUME NEW u \in Thread \ {t}, NEW l \in kept, NEW h \in holds[u]
          PROVE  ~(SameLock(t, u, l) /\ Clash(h, l))
      BY <1>3, HeldExcludes DEF Turn
    <3>2. holds' = [holds EXCEPT ![t] = kept]
      BY <2>1 DEF Goto
    <3> QED BY <1>2, <3>1, <3>2
  <2>3. InOrder'
    BY <2>1 DEF InOrder, Goto, Safe, Lacks, ThreadsTyped
  <2> QED BY <2>2, <2>3
<1>4. ASSUME NEW t \in Thread, Acquire(t) PROVE Exclusion' /\ InOrder'
  <2>1. /\ Wanted(t) \in Lacks(t) /\ Lacks(t) \subseteq LockMode
        /\ \A l \in Lacks(t) : l # Wanted(t) => Rank(Wanted(t)) < Rank(l)
    BY <1>4, WantedIsLowest, RequiredLocks DEF Acquire, ThreadsTyped, Lacks
  <2>2. holds' = [holds EXCEPT ![t] = holds[t] \cup {Wanted(t)}] /\ UNCHANGED phase
    BY <1>4 DEF Acquire
  <2>3. \A u \in Thread \ {t} : \A h \in holds[u] : ~(SameLock(t, u, Wanted(t)) /\ Clash(h, Wanted(t)))
    BY <1>4 DEF Acquire, Holders
  <2>4. Exclusion'
    <3>1. \A u \in Thread \ {t} : \A l \in holds[t] \cup {Wanted(t)}, h \in holds[u] :
              ~(SameLock(t, u, l) /\ Clash(h, l))
      BY <2>3 DEF Exclusion
    <3> QED BY <1>2, <2>2, <3>1
  <2>5. InOrder'
    BY <2>1, <2>2 DEF InOrder, Lacks, ThreadsTyped
  <2> QED BY <2>4, <2>5
<1>5. ASSUME \A u \in Thread : Lets(u) PROVE Exclusion' /\ InOrder'
  <2>1. \A u \in Thread : holds'[u] \subseteq holds[u]
    BY <1>5 DEF Lets
  <2>2. Exclusion'
    BY <2>1 DEF Exclusion, SameLock, Clash
  <2>3. InOrder'
    BY <1>5 DEF Lets, InOrder, Lacks
  <2> QED BY <2>2, <2>3
<1> QED BY <1>3, <1>4, <1>5, NextTurns
-----------------------------------------------------------------------------
(* The state that is replaced                                              *)

\* What a step of a thread leaves alone of the others.
LeavesOthers(t) ==
    \A u \in Thread \ {t} :
        /\ phase'[u] = phase[u] /\ holds'[u] = holds[u] /\ base'[u] = base[u]
        /\ staged'[u] = staged[u] /\ lease'[u] = lease[u]

\* A thread changes itself.
LEMMA ThreadsAreApart ==
    ASSUME ThreadsTyped, NEW t \in Thread,
           Start(t) \/ Acquire(t) \/ Backoff(t) \/ Step(t) \/ Cancel(t) \/ Fail(t)
    PROVE  LeavesOthers(t)
<1> USE DEF ThreadsTyped, LeavesOthers, Goto
<1>1. ASSUME NEW ph, NEW kept, Goto(t, ph, kept), Keep PROVE LeavesOthers(t)
  BY <1>1 DEF Keep
<1>2. ASSUME End(t) \/ \E snapshot : EndWith(t, snapshot) PROVE LeavesOthers(t)
  BY <1>2 DEF End, EndWith
<1>3. ASSUME Reconciled(t) PROVE LeavesOthers(t)
  BY <1>1, <1>2, <1>3 DEF Reconciled
<1>4. CASE Start(t) \/ Acquire(t) \/ Backoff(t)
  BY <1>4 DEF Start, Acquire, Backoff
<1>5. CASE Cancel(t) \/ Fail(t)
  BY <1>2, <1>5 DEF Cancel, Fail
<1>6. CASE BeginSync(t) \/ Compare(t) \/ ReconcileCurrent(t) \/ Decide(t)
  BY <1>1, <1>2, <1>3, <1>6 DEF BeginSync, Compare, ReconcileCurrent, Decide
<1>7. CASE Observe(t) \/ Stage(t) \/ Fetch(t) \/ LoadPeers(t)
  <2>1. ASSUME NEW f, staged' = [staged EXCEPT ![t] = f] PROVE \A u \in Thread \ {t} : staged'[u] = staged[u]
    BY <2>1
  <2> QED BY <1>7 DEF Observe, Stage, Fetch, LoadPeers, Read
<1>8. CASE BeginPublication(t) \/ BeginMutation(t)
  BY <1>1, <1>2, <1>8 DEF BeginPublication, BeginMutation, Read, Keep
<1>9. CASE CommitHeaders(t) \/ CommitPeers(t) \/ MarkReady(t)
  BY <1>1, <1>2, <1>9 DEF CommitHeaders, CommitPeers, MarkReady
<1>10. CASE Rewrite(t) \/ StampHeaders(t) \/ StampPeers(t)
  BY <1>1, <1>2, <1>10 DEF Rewrite, StampHeaders, StampPeers
<1>11. CASE ClearCache(t) \/ AddPeer(t) \/ ReadStatus(t)
  BY <1>1, <1>2, <1>11 DEF ClearCache, AddPeer, ReadStatus
<1>12. CASE Admit(t) \/ TryReconcile(t)
  BY <1>1, <1>2, <1>12 DEF Admit, TryReconcile
<1>13. CASE Resolve(t) \/ SavePeers(t) \/ Answer(t) \/ Write(t) \/ Relay(t) \/ Relayed(t)
  BY <1>1, <1>2, <1>13 DEF Resolve, SavePeers, Answer, Write, Relay, Relayed
<1> QED
  BY <1>4, <1>5, <1>6, <1>7, <1>8, <1>9, <1>10, <1>11, <1>12, <1>13
  DEF Step, SyncStep, MutationStep, RequestStep

\* Whoever has the file lock of the record to itself is the only publisher.
LEMMA PublishersAreAlone ==
    ASSUME ThreadsTyped, Exclusion, AllReplacing, NEW t \in Thread,
           phase[t] \in Publisher \/ (Locked(t) /\ phase[t] \in {"publish", "mutate"})
    PROVE  \A u \in Thread \ {t} : phase[u] \notin Publisher
<1> SUFFICES ASSUME NEW u \in Thread \ {t}, phase[u] \in Publisher PROVE FALSE
  OBVIOUS
<1> DEFINE l == X("header-state")
<1>1. SameLock(t, u, l) /\ Clash(l, l)
  BY Locks DEF SameLock, Clash, File
<1>2. l \in holds[u]
  BY DEF AllReplacing, Replacing
<1>3. CASE phase[t] \in Publisher
  BY <1>1, <1>2, <1>3 DEF AllReplacing, Replacing, Exclusion
<1>4. CASE Locked(t) /\ phase[t] \in {"publish", "mutate"}
  <2>1. l \in Held(t)
    BY <1>4, RequiredLocks DEF Held, Lacks
  <2> QED BY <1>1, <1>2, <1>4, <2>1, HeldExcludes
<1> QED BY <1>3, <1>4

\* Steps that leave the numbers alone, of threads that go nowhere near them.
Quiet == UNCHANGED <<hgen, best, pgen, record, issued>>
Elsewhere(t) == phase'[t] \notin Publisher \cup {"publish"}
LEMMA QuietSteps ==
    ASSUME ThreadsTyped, AllReplacing, Numbered, Quiet
    PROVE  /\ Numbered'
           /\ \A t \in Thread : LeavesOthers(t) /\ Elsewhere(t) => AllReplacing'
<1>1. Numbered'
  BY DEF Quiet, Numbered, Live
<1>2. ASSUME NEW t \in Thread, LeavesOthers(t), Elsewhere(t) PROVE AllReplacing'
  <2> SUFFICES ASSUME NEW u \in Thread PROVE Replacing(u)'
    BY DEF AllReplacing
  <2>1. CASE u = t
    BY <1>2, <2>1 DEF Replacing, Elsewhere, Publisher
  <2>2. CASE u # t
    BY <1>2, <2>2 DEF AllReplacing, Replacing, Quiet, LeavesOthers, NextGeneration, Newest
  <2> QED BY <2>1, <2>2
<1> QED BY <1>1, <1>2
\* The others are not concerned by what the only publisher does.
LEMMA AloneKeeps ==
    ASSUME AllReplacing, NEW t \in Thread, LeavesOthers(t), Replacing(t)',
           \A u \in Thread \ {t} : phase[u] \notin Publisher
    PROVE  AllReplacing'
  BY DEF AllReplacing, Replacing, LeavesOthers, Publisher

\* Steps that go elsewhere.
LEMMA ElsewhereSteps ==
    ASSUME ThreadsTyped, NEW t \in Thread,
           \/ BeginSync(t) \/ Compare(t) \/ ReconcileCurrent(t) \/ Observe(t) \/ Decide(t) \/ Stage(t)
           \/ ClearCache(t) \/ AddPeer(t) \/ ReadStatus(t) \/ RequestStep(t)
           \/ Start(t) \/ Backoff(t) \/ Cancel(t)
    PROVE  Quiet /\ Elsewhere(t)
<1> USE DEF Quiet, Elsewhere, Publisher, disk
<1>1. ASSUME NEW ph, NEW kept, Goto(t, ph, kept) PROVE phase'[t] = ph
  BY <1>1 DEF Goto, ThreadsTyped
<1>2. ASSUME End(t) \/ \E snapshot : EndWith(t, snapshot) PROVE Elsewhere(t)
  BY <1>1, <1>2 DEF End, EndWith
<1>3. ASSUME Reconciled(t) PROVE Elsewhere(t)
  BY <1>1, <1>2, <1>3 DEF Reconciled
<1>4. CASE BeginSync(t) \/ Compare(t) \/ ReconcileCurrent(t) \/ Observe(t) \/ Decide(t) \/ Stage(t)
  BY <1>1, <1>2, <1>3, <1>4 DEF BeginSync, Compare, ReconcileCurrent, Observe, Decide, Stage
<1>5. CASE ClearCache(t) \/ AddPeer(t) \/ ReadStatus(t)
  BY <1>1, <1>2, <1>5 DEF ClearCache, AddPeer, ReadStatus
<1>6. CASE RequestStep(t)
  BY <1>1, <1>2, <1>6 DEF RequestStep, Admit, TryReconcile, Resolve, LoadPeers, SavePeers, Answer, Write,
     Relay, Relayed
<1>7. CASE Start(t)
  BY <1>1, <1>7, DutiesAreOperations DEF Start
<1>8. CASE Backoff(t) \/ Cancel(t)
  BY <1>2, <1>8 DEF Backoff, Cancel, ThreadsTyped
<1> QED BY <1>4, <1>5, <1>6, <1>7, <1>8

\* How a publisher goes on to its next write, and who is left where it is.
GoesOnTo(t, ph) ==
    /\ Goto(t, ph, Held(t)) /\ Keep
    /\ ph \in {"peers", "stampPeers", "finish"} => hgen' = NextGeneration(base[t].id)
    /\ ph = "finish" => pgen' = hgen'
Proceeds(t) == \E ph \in Publisher \ {"headers"} : GoesOnTo(t, ph)
Stays(t) ==
    /\ phase'[t] = phase[t] /\ holds'[t] = holds[t] /\ base'[t] = base[t] /\ staged'[t] = staged[t]
    /\ phase[t] \in Publisher => record' = record

\* Every step keeps what is said of the state that is replaced.
LEMMA ReplacingStep ==
    ASSUME TypeOK, TypeOK', Exclusion, AllReplacing, Numbered, [Next]_vars
    PROVE  AllReplacing' /\ Numbered'
<1>1. DiskTyped /\ ThreadsTyped /\ hgen \in Nat /\ pgen \in Nat /\ issued \in Nat
  BY TypeParts, LimitsAreNat DEF DiskTyped, Gen
<1> DEFINE Done == AllReplacing' /\ Numbered'
<1>2. ASSUME NEW t \in Thread,
             \/ BeginSync(t) \/ Compare(t) \/ ReconcileCurrent(t) \/ Observe(t) \/ Decide(t) \/ Stage(t)
             \/ ClearCache(t) \/ AddPeer(t) \/ ReadStatus(t) \/ RequestStep(t)
             \/ Start(t) \/ Backoff(t) \/ Cancel(t)
      PROVE  Done
  <2>1. LeavesOthers(t)
    BY <1>1, <1>2, ThreadsAreApart DEF Step, SyncStep
  <2> QED BY <1>1, <1>2, <2>1, ElsewhereSteps, QuietSteps
<1>3. ASSUME NEW t \in Thread, Step(t) \/ Acquire(t) \/ Fail(t)
      PROVE  /\ LeavesOthers(t)
             /\ (Replacing(t)' /\ \A u \in Thread \ {t} : phase[u] \notin Publisher) => AllReplacing'
  BY <1>1, <1>3, ThreadsAreApart, AloneKeeps
<1>4. ASSUME NEW t \in Thread, Fetch(t) PROVE Done
  <2>1. Quiet /\ phase'[t] = "publish" /\ staged'[t].best \in Chain
    BY <1>1, <1>4 DEF Fetch, Quiet, disk, Goto, ThreadsTyped, Staged
  <2>2. LeavesOthers(t)
    BY <1>3, <1>4 DEF Step, SyncStep
  <2>3. AllReplacing'
    BY <2>1, <2>2 DEF AllReplacing, Replacing, Quiet, LeavesOthers, Publisher, NextGeneration, Newest
  <2> QED BY <1>1, <2>1, <2>3, QuietSteps
<1>5. ASSUME NEW t \in Thread, End(t) PROVE Replacing(t)'
  <2>1. phase'[t] = "idle"
    BY <1>1, <1>5 DEF End, EndWith, Goto, ThreadsTyped
  <2> QED BY <2>1 DEF Replacing, Publisher
<1>6. ASSUME NEW t \in Thread, BeginPublication(t) PROVE Done
  <2>1. \A u \in Thread \ {t} : phase[u] \notin Publisher
    BY <1>1, <1>6, PublishersAreAlone DEF BeginPublication, At
  <2>2. X("header-state") \in Held(t)
    BY <1>6, RequiredLocks DEF BeginPublication, At, Held, Lacks
  <2>3. Numbered'
    BY <1>6 DEF BeginPublication, Numbered, Live, Updating
  <2>4. CASE End(t)
    BY <1>3, <1>5, <1>6, <2>1, <2>3, <2>4 DEF Step, SyncStep
  <2>5. CASE ~End(t)
    <3>1. /\ Goto(t, "headers", Held(t)) /\ UNCHANGED <<base, staged, issued>>
          /\ record' = Updating /\ base[t].id = Live
      BY <1>6, <2>5 DEF BeginPublication, Keep, StageIsCurrent
    <3>2. phase'[t] = "headers" /\ holds'[t] = Held(t)
      BY <1>1, <3>1 DEF Goto, ThreadsTyped
    <3>3. staged[t].best \in Chain
      BY <1>6 DEF BeginPublication, At, AllReplacing, Replacing
    <3>4. Replacing(t)'
      BY <2>2, <3>1, <3>2, <3>3 DEF Replacing, Numbered, Live
    <3> QED BY <1>3, <1>6, <2>1, <2>3, <3>4 DEF Step, SyncStep
  <2> QED BY <2>4, <2>5
<1>7. ASSUME NEW t \in Thread, BeginMutation(t) PROVE Done
  <2>1. \A u \in Thread \ {t} : phase[u] \notin Publisher
    BY <1>1, <1>7, PublishersAreAlone DEF BeginMutation, At
  <2>2. X("header-state") \in Held(t)
    BY <1>7, RequiredLocks DEF BeginMutation, At, Held, Lacks
  <2>3. Numbered'
    BY <1>7 DEF BeginMutation, Numbered, Live, Updating
  <2>4. CASE End(t)
    BY <1>3, <1>5, <1>7, <2>1, <2>3, <2>4 DEF Step, MutationStep
  <2>5. CASE ~End(t)
    <3>1. Goto(t, "rewrite", Held(t)) /\ Read(t) /\ record' = Updating /\ UNCHANGED issued
      BY <1>7, <2>5 DEF BeginMutation
    <3>2. phase'[t] = "rewrite" /\ holds'[t] = Held(t) /\ base'[t].id = Live
      BY <1>1, <3>1 DEF Goto, Read, ThreadsTyped
    <3>3. Replacing(t)'
      BY <2>2, <3>1, <3>2 DEF Replacing, Numbered, Live
    <3> QED BY <1>3, <1>7, <2>1, <2>3, <3>3 DEF Step, MutationStep
  <2> QED BY <2>4, <2>5
\* A publisher at work: the record is Updating, and it goes on or ends.
<1>8. ASSUME NEW t \in Thread, phase[t] \in Publisher, UNCHANGED <<record, issued>>, LeavesOthers(t),
             issued <= pgen',
             End(t) \/ Proceeds(t)
      PROVE  Done
  <2>1. \A u \in Thread \ {t} : phase[u] \notin Publisher
    BY <1>1, <1>8, PublishersAreAlone
  <2>2. record = Updating /\ X("header-state") \in holds[t] /\ issued <= base[t].id.p
    BY <1>8 DEF AllReplacing, Replacing
  <2>3. Numbered'
    BY <1>8, <2>2 DEF Numbered, Updating
  <2>4. CASE End(t)
    BY <1>5, <1>8, <2>1, <2>3, <2>4, AloneKeeps
  <2>5. CASE ~End(t)
    <3>1. PICK ph \in Publisher \ {"headers"} : GoesOnTo(t, ph)
      BY <1>8, <2>5 DEF Proceeds
    <3>2. phase'[t] = ph /\ X("header-state") \in holds'[t] /\ UNCHANGED <<base, staged>>
      BY <1>1, <2>2, <3>1 DEF GoesOnTo, Goto, ThreadsTyped, Keep, Held
    <3>3. Replacing(t)'
      <4>1. ph \notin {"publish", "headers"}
        BY DEF Publisher
      <4> QED BY <1>8, <2>2, <3>1, <3>2, <4>1 DEF GoesOnTo, Replacing, NextGeneration, Newest
    <3> QED BY <1>8, <2>1, <2>3, <3>3, AloneKeeps
  <2> QED BY <2>4, <2>5
<1>9. ASSUME NEW t \in Thread, CommitHeaders(t) \/ Rewrite(t) \/ StampHeaders(t) PROVE Done
  <2>1. phase[t] \in Publisher /\ UNCHANGED <<record, issued, pgen>>
    BY <1>9 DEF CommitHeaders, Rewrite, StampHeaders, At, Publisher
  <2>2. LeavesOthers(t)
    BY <1>3, <1>9 DEF Step, SyncStep, MutationStep
  <2>3. issued <= pgen'
    BY <2>1 DEF Numbered
  <2> QED BY <1>8, <1>9, <2>1, <2>2, <2>3 
    DEF CommitHeaders, Rewrite, StampHeaders, Publisher, Proceeds, GoesOnTo
<1>10. ASSUME NEW t \in Thread, CommitPeers(t) \/ StampPeers(t) PROVE Done
  <2>1. /\ phase[t] \in Publisher /\ UNCHANGED <<record, issued, hgen>>
        /\ hgen = NextGeneration(base[t].id) /\ pgen' = hgen /\ issued <= base[t].id.p
    BY <1>10 DEF CommitPeers, StampPeers, At, Publisher, AllReplacing, Replacing
  <2>2. LeavesOthers(t)
    BY <1>3, <1>10 DEF Step, SyncStep, MutationStep
  <2>3. base[t].id.p \in Nat /\ issued <= pgen'
    BY <1>1, <2>1, Generations, LimitsAreNat DEF Gen
  <2> QED BY <1>8, <1>10, <2>1, <2>2, <2>3 
    DEF CommitPeers, StampPeers, Publisher, Proceeds, GoesOnTo
<1>11. ASSUME NEW t \in Thread, MarkReady(t) PROVE Done
  <2>1. /\ phase[t] = "finish" /\ hgen = pgen /\ End(t) /\ record' = Ready(Live)
        /\ UNCHANGED <<hgen, best, pgen>> /\ issued' = IF hgen > issued THEN hgen ELSE issued
    BY <1>11 DEF MarkReady, At, AllReplacing, Replacing
  <2>2. \A u \in Thread \ {t} : phase[u] \notin Publisher
    BY <1>1, <2>1, PublishersAreAlone DEF Publisher
  <2>3. AllReplacing'
    BY <1>3, <1>5, <1>11, <2>1, <2>2 DEF Step, SyncStep
  <2>4. Numbered'
    BY <1>1, <2>1 DEF Numbered, Ready, Live
  <2> QED BY <2>3, <2>4
<1>12. ASSUME NEW t \in Thread, Acquire(t) PROVE Done
  <2>1. Quiet /\ UNCHANGED <<phase, base, staged>> /\ holds[t] \subseteq holds'[t]
    BY <1>1, <1>12 DEF Acquire, Quiet, disk, ThreadsTyped
  <2>2. LeavesOthers(t)
    BY <1>3, <1>12
  <2>3. AllReplacing'
    BY <2>1, <2>2 DEF AllReplacing, Replacing, Quiet, LeavesOthers, NextGeneration, Newest
  <2> QED BY <1>1, <2>1, <2>3, QuietSteps
\* The record is cut short by the last step of a thread: nobody else publishes.
<1>13. ASSUME record' \in {record} \cup Torn, UNCHANGED <<hgen, best, pgen, issued>>,
              \A u \in Thread : phase'[u] = "idle" \/ Stays(u)
       PROVE  Done
  <2>1. Numbered'
    BY <1>13 DEF Numbered, Torn, NotReady, Live
  <2>2. AllReplacing'
    BY <1>13 DEF Stays, AllReplacing, Replacing, Publisher, NextGeneration, Newest
  <2> QED BY <2>1, <2>2
<1>14. ASSUME NEW t \in Thread, WritesRecord(t) PROVE \A u \in Thread \ {t} : phase[u] \notin Publisher
  BY <1>1, <1>14, PublishersAreAlone DEF WritesRecord, Publisher
<1>15. ASSUME NEW t \in Thread, Fail(t) PROVE Done
  <2>1. /\ record' \in {record} \cup Torn /\ UNCHANGED <<hgen, best, pgen, issued>> /\ End(t)
        /\ WritesRecord(t) \/ record' = record
    BY <1>15 DEF Fail
  <2>2. LeavesOthers(t) /\ phase'[t] = "idle"
    BY <1>1, <1>3, <1>15, <2>1 DEF End, EndWith, Goto, ThreadsTyped
  <2> QED BY <1>13, <1>14, <2>1, <2>2 DEF LeavesOthers, Stays
<1>16. ASSUME NEW p \in Process, Crash(p) PROVE Done
  <2>1. /\ record' \in {record} \cup Torn /\ UNCHANGED <<hgen, best, pgen, issued>>
        /\ (\E t \in Thread : Home[t] = p /\ WritesRecord(t)) \/ record' = record
    BY <1>16 DEF Crash
  <2>2. \A u \in Thread : IF Home[u] = p THEN phase'[u] = "idle"
                           ELSE phase'[u] = phase[u] /\ holds'[u] = holds[u] /\ base'[u] = base[u]
                                /\ staged'[u] = staged[u]
    BY <1>16 DEF Crash
  <2> QED BY <1>13, <1>14, <2>1, <2>2 DEF Stays
<1>17. ASSUME NEW p \in Process, InitializeRecord(p) PROVE Done
  <2>1. \A u \in Thread : phase[u] \notin Publisher
    <3>1. Clash(X("header-state"), X("header-state"))
      BY Locks DEF Clash
    <3> QED BY <1>17, <3>1 DEF InitializeRecord, Free, AllReplacing, Replacing
  <2>2. /\ UNCHANGED <<hgen, best, pgen, phase, holds, base, staged>>
        /\ record' = record \/ record' = Updating \/ (hgen = pgen /\ record' = Ready(Live))
        /\ issued' = IF record'.state = "ready" /\ hgen > issued THEN hgen ELSE issued
    BY <1>17 DEF InitializeRecord, threads
  <2>3. AllReplacing'
    BY <2>1, <2>2 DEF AllReplacing, Replacing, Publisher
  <2>4. Numbered'
    BY <1>1, <2>2 DEF Numbered, Ready, Updating, Live
  <2> QED BY <2>3, <2>4
<1>18. ASSUME Quiet, UNCHANGED threads PROVE Done
  <2>1. AllReplacing'
    BY <1>18 DEF Quiet, threads, AllReplacing, Replacing, NextGeneration, Newest
  <2> QED BY <1>1, <1>18, <2>1, QuietSteps
<1>19. CASE Expire \/ UNCHANGED vars \/ \E p \in Process : ObserveInitial(p)
  BY <1>18, <1>19 DEF Expire, vars, ObserveInitial, Quiet, disk
<1> QED
  BY <1>2, <1>4, <1>6, <1>7, <1>9, <1>10, <1>11, <1>12, <1>15, <1>16, <1>17, <1>19
  DEF Next, Undisturbed, Step, SyncStep, MutationStep
-----------------------------------------------------------------------------
(* Epochs and leases                                                       *)

\* What a step may do to the memory of a process, and to the mark of a lease.
Moves(p) ==
    /\ UNCHANGED life
    /\ \/ UNCHANGED <<epoch, remembered>>
       \/ BeginMaintenance(p)
       \/ \E seen \in Root \cup {NoRoot} : Reconcile(p, seen)
Marks(p, u) ==
    \/ spoiled'[u] = spoiled[u]
    \/ BeginMaintenance(p) /\ Home[u] = p /\ lease[u] # NoLease

\* The part of Leased that is about the epoch.
Current(u) ==
    LET now == epoch[Home[u]] IN
    /\ lease[u] = NoLease => ~spoiled[u]
    /\ now # 0 => lease[u].epoch <= now
    /\ now # 0 /\ lease[u].epoch = now => ~spoiled[u] /\ lease[u].root = remembered[Home[u]]

\* An epoch that moves leaves every lease behind; a root that is learnt
\* without a new epoch is the one the leases of the epoch have.
LEMMA MovesKeepCurrent ==
    ASSUME MemoryTyped, ThreadsTyped, NEW p \in Process, NEW u \in Thread, Current(u),
           Moves(p), Marks(p, u), lease'[u] = lease[u]
    PROVE  Current(u)'
<1> DEFINE q == Home[u]
<1>1. /\ q \in Process /\ epoch[q] \in Nat /\ epoch[p] \in Nat
      /\ lease[u].epoch \in Nat /\ lease[u].root \in Root \cup {NoRoot}
  BY Homes, LimitsAreNat DEF MemoryTyped, ThreadsTyped, Lease
<1>2. Pending \notin Root \cup {NoRoot}
  BY NothingIsTyped
<1>3. lease'[u] = NoLease => ~spoiled'[u]
  BY DEF Current, Marks
<1>4. ASSUME epoch'[q] = 0 \/ (epoch'[q] = epoch[q] + 1 /\ epoch[q] # 0) PROVE Current(u)'
  <2>1. epoch'[q] # 0 => lease'[u].epoch < epoch'[q] /\ lease'[u].epoch \in Nat /\ epoch'[q] \in Nat
    BY <1>1, <1>4 DEF Current
  <2>2. epoch'[q] # 0 => lease'[u].epoch <= epoch'[q] /\ lease'[u].epoch # epoch'[q]
    BY <2>1
  <2> QED BY <1>3, <2>2 DEF Current
<1>5. CASE UNCHANGED <<epoch, remembered>>
  <2>1. spoiled'[u] = spoiled[u] \/ BeginMaintenance(p)
    BY DEF Marks
  <2>2. CASE spoiled'[u] = spoiled[u]
    BY <1>5, <2>2 DEF Current
  <2>3. CASE BeginMaintenance(p) /\ Home[u] = p
    <3>1. epoch[p] = 0
      BY <1>1, <1>5, <2>3, LimitsAreNat DEF BeginMaintenance, NextEpoch, CanAdvance, MemoryTyped
    <3> QED BY <1>5, <2>3, <3>1 DEF Current, Marks
  <2> QED BY <2>2, <2>3 DEF Marks
<1>6. CASE BeginMaintenance(p)
  <2>1. CASE q = p
    <3>1. epoch'[q] = 0 \/ (epoch'[q] = epoch[q] + 1 /\ epoch[q] # 0)
      BY <1>1, <1>6, <2>1 DEF BeginMaintenance, NextEpoch, CanAdvance, MemoryTyped
    <3> QED BY <1>4, <3>1
  <2>2. CASE q # p
    BY <1>1, <1>6, <2>2 DEF BeginMaintenance, MemoryTyped, Current, Marks
  <2> QED BY <2>1, <2>2
<1>7. ASSUME NEW seen \in Root \cup {NoRoot}, Reconcile(p, seen), ~BeginMaintenance(p) PROVE Current(u)'
  <2>1. spoiled'[u] = spoiled[u]
    BY <1>7 DEF Marks
  <2>2. CASE q = p /\ remembered[p] \in {Pending, seen}
    <3>1. epoch' = epoch /\ remembered'[q] = seen
      BY <1>1, <1>7, <2>2 DEF Reconcile, Settled, MemoryTyped
    <3> QED BY <1>1, <1>2, <2>1, <2>2, <3>1 DEF Current
  <2>3. CASE q = p /\ remembered[p] \notin {Pending, seen}
    <3>1. epoch'[q] = 0 \/ (epoch'[q] = epoch[q] + 1 /\ epoch[q] # 0)
      BY <1>1, <1>7, <2>3 DEF Reconcile, NextEpoch, CanAdvance, MemoryTyped
    <3> QED BY <1>4, <3>1
  <2>4. CASE q # p
    BY <1>1, <1>7, <2>1, <2>4 DEF Reconcile, MemoryTyped, Current
  <2> QED BY <2>2, <2>3, <2>4
<1> QED BY <1>5, <1>6, <1>7 DEF Moves

\* Every step of a thread is of this kind.
LEMMA ThreadMoves ==
    ASSUME DiskTyped, ThreadsTyped, NEW t \in Thread,
           Start(t) \/ Acquire(t) \/ Backoff(t) \/ Step(t) \/ Cancel(t) \/ Fail(t)
    PROVE  Moves(Home[t]) /\ \A u \in Thread \ {t} : Marks(Home[t], u)
<1> USE DEF memory
<1>1. ASSUME UNCHANGED memory PROVE Moves(Home[t])
  BY <1>1 DEF Moves
<1>2. ASSUME UNCHANGED spoiled \/ End(t) \/ \E snapshot : EndWith(t, snapshot)
      PROVE  \A u \in Thread \ {t} : Marks(Home[t], u)
  BY <1>2 DEF End, EndWith, Marks, ThreadsTyped
<1>3. ASSUME Spoil(Home[t]), BeginMaintenance(Home[t]) PROVE \A u \in Thread \ {t} : Marks(Home[t], u)
  BY <1>3 DEF Spoil, Marks, ThreadsTyped
<1>4. ASSUME Reconciled(t) PROVE \A u \in Thread \ {t} : Marks(Home[t], u)
  BY <1>2, <1>4 DEF Reconciled, Keep
<1>5. CASE Start(t)
  BY <1>1, <1>5 DEF Start, Marks, ThreadsTyped
<1>6. CASE Acquire(t) \/ Backoff(t) \/ Cancel(t) \/ Fail(t)
  BY <1>1, <1>2, <1>6 DEF Acquire, Backoff, Cancel, Fail
<1>7. CASE BeginSync(t) \/ Compare(t) \/ Observe(t) \/ Decide(t) \/ Stage(t) \/ Fetch(t)
  BY <1>1, <1>2, <1>4, <1>7 DEF BeginSync, Compare, Observe, Decide, Stage, Fetch, Keep
<1>8. CASE ReconcileCurrent(t) \/ TryReconcile(t) \/ MarkReady(t)
  <2>1. Moves(Home[t])
    BY <1>8, ReadingIsTyped DEF ReconcileCurrent, TryReconcile, MarkReady, Moves
  <2>2. \A u \in Thread \ {t} : Marks(Home[t], u)
    BY <1>2, <1>4, <1>8 DEF ReconcileCurrent, TryReconcile, MarkReady, Keep
  <2> QED BY <2>1, <2>2
<1>9. CASE BeginPublication(t) \/ BeginMutation(t) \/ ClearCache(t)
  <2>1. UNCHANGED memory \/ (BeginMaintenance(Home[t]) /\ UNCHANGED life)
    BY <1>9 DEF BeginPublication, BeginMutation, ClearCache
  <2>2. UNCHANGED spoiled \/ End(t) \/ (Spoil(Home[t]) /\ BeginMaintenance(Home[t]))
    BY <1>9 DEF BeginPublication, BeginMutation, ClearCache, Keep
  <2> QED BY <1>2, <1>3, <2>1, <2>2 DEF Moves
<1>10. CASE CommitHeaders(t) \/ CommitPeers(t) \/ Rewrite(t) \/ StampHeaders(t) \/ StampPeers(t)
  BY <1>1, <1>2, <1>10 DEF CommitHeaders, CommitPeers, Rewrite, StampHeaders, StampPeers, Keep
<1>11. CASE AddPeer(t) \/ ReadStatus(t) \/ Admit(t) \/ Resolve(t) \/ LoadPeers(t)
  BY <1>1, <1>2, <1>11 DEF AddPeer, ReadStatus, Admit, Resolve, LoadPeers, Keep
<1>12. CASE SavePeers(t) \/ Answer(t) \/ Write(t) \/ Relay(t) \/ Relayed(t)
  BY <1>1, <1>2, <1>12 DEF SavePeers, Answer, Write, Relay, Relayed, Keep
<1> QED
  BY <1>5, <1>6, <1>7, <1>8, <1>9, <1>10, <1>11, <1>12 DEF Step, SyncStep, MutationStep, RequestStep
\* What a thread does to its own lease: it drops it, carries it on as work or
\* goes on without one, or takes one under the epoch and the root of now.
Drops(t) == phase'[t] \notin Working /\ lease'[t] = NoLease /\ ~spoiled'[t]
Carries(t) ==
    /\ lease'[t] = lease[t] /\ Marks(Home[t], t)
    /\ \/ phase'[t] = phase[t]
       \/ phase[t] \in Working /\ phase'[t] \in Working
       \/ phase[t] \notin Working \cup {"idle"} /\ phase'[t] \notin Working
Takes(t) ==
    /\ lease'[t] = [epoch |-> epoch[Home[t]], root |-> remembered[Home[t]]]
    /\ UNCHANGED memory /\ remembered[Home[t]] = Observed
    /\ phase[t] \notin Working \cup {"idle"}
    /\ \/ phase'[t] = "idle" /\ ~spoiled'[t]
       \/ /\ phase'[t] = "working" /\ UNCHANGED spoiled
          /\ epoch[Home[t]] # 0 /\ Observed # NoRoot

\* Every step of a thread is one of the three.
LEMMA OwnLease ==
    ASSUME ThreadsTyped, NEW t \in Thread,
           Start(t) \/ Acquire(t) \/ Backoff(t) \/ Step(t) \/ Cancel(t) \/ Fail(t)
    PROVE  Drops(t) \/ Carries(t) \/ Takes(t)
<1> USE DEF Working, At
<1>1. ASSUME NEW ph, NEW kept, Goto(t, ph, kept) PROVE phase'[t] = ph
  BY <1>1 DEF Goto, ThreadsTyped
<1>2. ASSUME End(t) PROVE Drops(t)
  BY <1>1, <1>2 DEF End, EndWith, Drops, ThreadsTyped
<1>3. ASSUME UNCHANGED <<lease, spoiled>> PROVE lease'[t] = lease[t] /\ Marks(Home[t], t)
  BY <1>3 DEF Marks
<1>4. ASSUME Reconciled(t), phase[t] \in {"compare", "reconcile"} PROVE Drops(t) \/ Carries(t)
  BY <1>1, <1>2, <1>3, <1>4 DEF Reconciled, Keep, Carries
<1>5. CASE Start(t)
  <2>1. lease'[t] = NoLease /\ ~spoiled'[t]
    BY <1>5 DEF Start, ThreadsTyped
  <2>2. phase'[t] \notin Working
    BY <1>1, <1>5, DutiesAreOperations DEF Start
  <2> QED BY <2>1, <2>2 DEF Drops
<1>6. CASE Acquire(t) \/ Backoff(t)
  BY <1>3, <1>6 DEF Acquire, Backoff, Carries, Polled, ThreadsTyped
<1>7. CASE Cancel(t) \/ Fail(t)
  BY <1>2, <1>7 DEF Cancel, Fail
<1>8. CASE BeginSync(t) \/ Compare(t) \/ ReconcileCurrent(t) \/ Decide(t)
  BY <1>1, <1>2, <1>3, <1>4, <1>8 DEF BeginSync, Compare, ReconcileCurrent, Decide, Carries, Keep
<1>9. CASE Observe(t) \/ Stage(t) \/ Fetch(t) \/ LoadPeers(t)
  BY <1>1, <1>3, <1>9 DEF Observe, Stage, Fetch, LoadPeers, Carries
<1>10. CASE BeginPublication(t) \/ BeginMutation(t) \/ ClearCache(t)
  <2>1. ASSUME Spoil(Home[t]), BeginMaintenance(Home[t]) PROVE Marks(Home[t], t)
    BY <2>1 DEF Spoil, Marks, ThreadsTyped
  <2>2. CASE BeginPublication(t)
    BY <1>1, <1>2, <1>3, <2>1, <2>2 DEF BeginPublication, Carries, Keep
  <2>3. CASE BeginMutation(t)
    BY <1>1, <1>2, <2>1, <2>3 DEF BeginMutation, Carries
  <2>4. CASE ClearCache(t)
    BY <1>1, <2>1, <2>4 DEF ClearCache, Carries
  <2> QED BY <1>10, <2>2, <2>3, <2>4
<1>11. CASE CommitHeaders(t) \/ CommitPeers(t) \/ MarkReady(t) \/ Rewrite(t) \/ StampHeaders(t) \/ StampPeers(t)
  BY <1>1, <1>2, <1>3, <1>11
  DEF CommitHeaders, CommitPeers, MarkReady, Rewrite, StampHeaders, StampPeers, Carries, Keep
<1>12. CASE AddPeer(t) \/ TryReconcile(t)
  BY <1>1, <1>2, <1>3, <1>12 DEF AddPeer, TryReconcile, Carries, Keep
<1>13. CASE ReadStatus(t)
  <2>1. ASSUME Matches(t), EndWith(t, [epoch |-> epoch[Home[t]], root |-> Observed]) PROVE Takes(t)
    BY <1>1, <1>13, <2>1 DEF ReadStatus, EndWith, Takes, Matches, ThreadsTyped
  <2> QED BY <1>1, <1>2, <1>3, <1>13, <2>1 DEF ReadStatus, Carries, Keep
<1>14. CASE Admit(t)
  <2>1. ASSUME epoch[Home[t]] # 0, Observed # NoRoot, Matches(t) PROVE Takes(t)
    BY <1>1, <1>14, <2>1 DEF Admit, Takes, Matches, ThreadsTyped
  <2> QED BY <1>1, <1>2, <1>3, <1>14, <2>1 DEF Admit, Carries, Keep
<1>15. CASE Resolve(t) \/ SavePeers(t) \/ Answer(t) \/ Write(t) \/ Relay(t) \/ Relayed(t)
  BY <1>1, <1>2, <1>3, <1>15 DEF Resolve, SavePeers, Answer, Write, Relay, Relayed, Carries, Keep
<1> QED
  BY <1>5, <1>6, <1>7, <1>8, <1>9, <1>10, <1>11, <1>12, <1>13, <1>14, <1>15
  DEF Step, SyncStep, MutationStep, RequestStep

\* What is said of a lease by the place of its thread.
Placed(u) ==
    /\ life[Home[u]] # "up" => phase[u] = "idle" /\ lease[u] = NoLease
    /\ phase[u] \notin Working \cup {"idle"} => lease[u] = NoLease
    /\ phase[u] \in Working => lease[u].epoch # 0 /\ lease[u].root # NoRoot

\* Every step keeps what is said of the leases.
LEMMA LeasedStep ==
    ASSUME TypeOK, AllLeased, [Next]_vars PROVE AllLeased'
<1>1. DiskTyped /\ MemoryTyped /\ ThreadsTyped
  BY TypeParts
<1>2. \A u \in Thread : Placed(u) /\ Current(u)
  BY DEF AllLeased, Leased, Placed, Current
<1> SUFFICES ASSUME NEW u \in Thread PROVE Placed(u)' /\ Current(u)'
  BY DEF AllLeased, Leased, Placed, Current
<1>3. NoLease.epoch = 0 /\ epoch[Home[u]] \in Nat
  BY <1>1, Homes, LimitsAreNat DEF NoLease, MemoryTyped
<1>4. ASSUME NEW t \in Thread, Start(t) \/ Acquire(t) \/ Backoff(t) \/ Step(t) \/ Cancel(t) \/ Fail(t)
      PROVE  Placed(u)' /\ Current(u)'
  <2>1. LeavesOthers(t) /\ Moves(Home[t]) /\ (u # t => Marks(Home[t], u))
    BY <1>1, <1>4, ThreadsAreApart, ThreadMoves
  <2>2. CASE u # t
    <3>1. Current(u)'
      BY <1>1, <1>2, <2>1, <2>2, Homes, MovesKeepCurrent DEF LeavesOthers
    <3>2. Placed(u)'
      BY <1>2, <2>1, <2>2 DEF Placed, LeavesOthers, Moves
    <3> QED BY <3>1, <3>2
  <2>3. life'[Home[t]] = "up"
    <3>1. life[Home[t]] = "up" \/ phase[t] = "idle"
      BY <1>2 DEF Placed
    <3>2. phase[t] = "idle" => life[Home[t]] = "up"
      BY <1>4, <3>1, RequiredLocks DEF Start, Acquire, HasAll, Lacks, Backoff, Polled, Step, SyncStep, MutationStep,
         RequestStep, BeginSync, Compare, ReconcileCurrent, Observe, Decide, Stage, Fetch,
         BeginPublication, CommitHeaders, CommitPeers, MarkReady, BeginMutation, Rewrite, StampHeaders,
         StampPeers, ClearCache, AddPeer, ReadStatus, Admit, TryReconcile, Resolve, LoadPeers, SavePeers,
         Answer, Write, Relay, Relayed, At, Cancel, Fail
    <3> QED BY <2>1, <3>1, <3>2 DEF Moves
  <2>4. CASE Drops(t) /\ u = t
    <3>1. Placed(t)'
      BY <2>3, <2>4 DEF Drops, Placed
    <3>2. lease'[u] = NoLease /\ ~spoiled'[u]
      BY <2>4 DEF Drops
    <3>3. epoch'[Home[u]] \in Nat
      BY <1>1, <2>1, Homes, EpochTyped, LimitsAreNat DEF Moves, MemoryTyped
    <3>4. Current(u)'
      <4>1. epoch'[Home[u]] # 0 => lease'[u].epoch <= epoch'[Home[u]] /\ lease'[u].epoch # epoch'[Home[u]]
        BY <1>3, <3>2, <3>3
      <4> QED BY <3>2, <4>1 DEF Current
    <3> QED BY <2>4, <3>1, <3>4
  <2>5. CASE Carries(t) /\ u = t
    <3>1. Current(t)'
      BY <1>1, <1>2, <2>1, <2>5, Homes, MovesKeepCurrent DEF Carries
    <3>2. Placed(t)'
      BY <1>2, <2>3, <2>5 DEF Placed, Carries
    <3> QED BY <2>5, <3>1, <3>2
  <2>6. CASE Takes(t) /\ u = t
    <3>1. ~spoiled'[t]
      BY <1>2, <2>6 DEF Takes, Placed, Current
    <3>2. /\ lease'[t].epoch = epoch[Home[t]] /\ lease'[t].root = remembered[Home[t]]
          /\ epoch' = epoch /\ remembered' = remembered
      BY <2>6 DEF Takes, memory
    <3>3. epoch'[Home[t]] # 0 => lease'[t].epoch <= epoch'[Home[t]]
      BY <1>3, <2>6, <3>2
    <3>4. Current(t)'
      BY <3>1, <3>2, <3>3 DEF Current
    <3>5. Placed(t)'
      BY <2>3, <2>6, <3>2 DEF Takes, Placed, Working
    <3> QED BY <2>6, <3>4, <3>5
  <2> QED BY <1>1, <1>4, <2>2, <2>4, <2>5, <2>6, OwnLease
<1>5. ASSUME NEW p \in Process, Crash(p) PROVE Placed(u)' /\ Current(u)'
  <2>1. CASE Home[u] = p
    <3>1. /\ phase'[u] = "idle" /\ lease'[u] = NoLease /\ ~spoiled'[u]
          /\ life'[Home[u]] = "down" /\ epoch'[Home[u]] = 0
      BY <1>1, <1>5, <2>1 DEF Crash, MemoryTyped
    <3> QED BY <3>1 DEF Placed, Current, Working
  <2>2. CASE Home[u] # p
    <3>1. /\ phase'[u] = phase[u] /\ lease'[u] = lease[u] /\ spoiled'[u] = spoiled[u]
          /\ life'[Home[u]] = life[Home[u]] /\ epoch'[Home[u]] = epoch[Home[u]]
          /\ remembered'[Home[u]] = remembered[Home[u]]
      BY <1>1, <1>5, <2>2, Homes DEF Crash, MemoryTyped
    <3> QED BY <1>2, <3>1 DEF Placed, Current
  <2> QED BY <2>1, <2>2
<1>6. ASSUME NEW p \in Process, ObserveInitial(p) PROVE Placed(u)' /\ Current(u)'
  <2>1. lease' = lease /\ phase' = phase /\ spoiled' = spoiled /\ life[p] # "up"
    BY <1>6 DEF ObserveInitial, threads
  <2>2. CASE Home[u] = p
    <3>1. phase[u] = "idle" /\ lease[u] = NoLease /\ ~spoiled[u] /\ epoch'[Home[u]] = 1
      BY <1>1, <1>2, <1>6, <2>1, <2>2 DEF ObserveInitial, MemoryTyped, Placed, Current
    <3>2. lease'[u].epoch <= epoch'[Home[u]] /\ lease'[u].epoch # epoch'[Home[u]]
      BY <1>3, <2>1, <3>1
    <3> QED BY <2>1, <3>1, <3>2 DEF Placed, Current, Working
  <2>3. CASE Home[u] # p
    <3>1. /\ life'[Home[u]] = life[Home[u]] /\ epoch'[Home[u]] = epoch[Home[u]]
          /\ remembered'[Home[u]] = remembered[Home[u]]
      BY <1>1, <1>6, <2>3, Homes DEF ObserveInitial, MemoryTyped
    <3> QED BY <1>2, <2>1, <3>1 DEF Placed, Current
  <2> QED BY <2>2, <2>3
<1>7. ASSUME NEW p \in Process, InitializeRecord(p) PROVE Placed(u)' /\ Current(u)'
  <2>1. UNCHANGED <<epoch, remembered, threads>> /\ (life'[Home[u]] = life[Home[u]] \/ life[Home[u]] # "up")
    BY <1>1, <1>7 DEF InitializeRecord, MemoryTyped
  <2> QED BY <1>2, <2>1 DEF Placed, Current, threads
<1>8. CASE Expire \/ UNCHANGED vars
  BY <1>2, <1>8 DEF Expire, vars, memory, threads, Placed, Current
<1> QED
  BY <1>4, <1>5, <1>6, <1>7, <1>8 DEF Next, Undisturbed
\* Two leases of one epoch agree.
LEMMA NamesStep ==
    ASSUME TypeOK, AllLeased, EpochNamesOneRoot, [Next]_vars PROVE EpochNamesOneRoot'
<1>1. ThreadsTyped
  BY TypeParts
<1>2. ASSUME NEW v \in Thread
      PROVE  lease'[v] = lease[v] \/ lease'[v].epoch = 0 \/ Takes(v)
  <2>1. NoLease.epoch = 0
    BY DEF NoLease
  <2>2. ASSUME NEW t \in Thread, Start(t) \/ Acquire(t) \/ Backoff(t) \/ Step(t) \/ Cancel(t) \/ Fail(t)
        PROVE  lease'[v] = lease[v] \/ lease'[v] = NoLease \/ Takes(v)
    <3>1. CASE v = t
      BY <1>1, <2>2, <3>1, OwnLease DEF Drops, Carries
    <3>2. CASE v # t
      BY <1>1, <2>2, <3>2, ThreadsAreApart DEF LeavesOthers
    <3> QED BY <3>1, <3>2
  <2>3. ASSUME NEW p \in Process, Crash(p) PROVE lease'[v] = lease[v] \/ lease'[v] = NoLease
    BY <2>3 DEF Crash
  <2> QED
    BY <2>1, <2>2, <2>3 DEF Next, Undisturbed, vars, threads, InitializeRecord, ObserveInitial, Expire
<1> SUFFICES ASSUME NEW v \in Thread, NEW w \in Thread, Home[v] = Home[w],
                    lease'[v].epoch = lease'[w].epoch, lease'[v].epoch # 0
             PROVE  lease'[v].root = lease'[w].root
  BY DEF EpochNamesOneRoot
<1>3. ASSUME NEW u \in Thread, lease[u].epoch = epoch[Home[u]], lease[u].epoch # 0
      PROVE  lease[u].root = remembered[Home[u]]
  BY <1>3 DEF AllLeased, Leased
<1>4. CASE Takes(v) \/ Takes(w)
  BY <1>2, <1>3, <1>4 DEF Takes
<1> QED BY <1>2, <1>4 DEF EpochNamesOneRoot

\* Bytes pass only in the two steps that ask for the epoch.
LEMMA BytesPassUnderTheEpoch ==
    ASSUME ThreadsTyped, [Next]_vars, NEW t \in Thread, PassesBytes(t)
    PROVE  (Write(t) \/ Relay(t)) /\ EpochIsCurrent(t) /\ phase[t] \in Working
<1>1. /\ phase[t] \in {"write", "tunnel"} /\ phase'[t] # phase[t]
      /\ phase'[t] \in {"tunnel", "relay"}
  BY DEF PassesBytes
<1>2. ASSUME NEW u \in Thread, Start(u) \/ Acquire(u) \/ Backoff(u) \/ Step(u) \/ Cancel(u) \/ Fail(u)
      PROVE  u = t /\ (Write(t) \/ Relay(t))
  <2>1. u = t
    BY <1>1, <1>2, ThreadsAreApart DEF LeavesOthers
  <2>2. ~End(t)
    BY <1>1 DEF End, EndWith, Goto, ThreadsTyped
  <2>3. ~(Start(t) \/ Acquire(t) \/ Backoff(t) \/ Cancel(t) \/ Fail(t))
    BY <1>1, <2>2 DEF Start, Acquire, Backoff, Polled, Cancel, Fail
  <2> QED
    BY <1>1, <1>2, <2>1, <2>3
    DEF Step, SyncStep, MutationStep, RequestStep, BeginSync, Compare, ReconcileCurrent, Observe, Decide,
        Stage, Fetch, BeginPublication, CommitHeaders, CommitPeers, MarkReady, BeginMutation, Rewrite,
        StampHeaders, StampPeers, ClearCache, AddPeer, ReadStatus, Admit, TryReconcile, Resolve,
        LoadPeers, SavePeers, Answer, Relayed, At
<1>3. ASSUME NEW p \in Process, Crash(p) PROVE FALSE
  BY <1>1, <1>3 DEF Crash
<1>4. Write(t) \/ Relay(t)
  BY <1>1, <1>2, <1>3 DEF Next, Undisturbed, vars, threads, InitializeRecord, ObserveInitial, Expire
<1>5. ~End(t)
  BY <1>1 DEF End, EndWith, Goto, ThreadsTyped
<1> QED BY <1>1, <1>4, <1>5 DEF Write, Relay, Working

\* Nothing passes of work that is spoiled or of a process without epochs,
\* and such a process stays so while it lives.
LEMMA EpochsAreFinal ==
    ASSUME TypeOK, AllLeased, [Next]_vars PROVE WritesUnspoiled /\ StaysExhausted
<1>1. DiskTyped /\ MemoryTyped /\ ThreadsTyped
  BY TypeParts
<1>2. ASSUME NEW t \in Thread, PassesBytes(t) PROVE ~spoiled[t] /\ epoch[Home[t]] # 0
  BY <1>1, <1>2, BytesPassUnderTheEpoch DEF EpochIsCurrent, AllLeased, Leased
<1>3. ASSUME NEW p \in Process, life[p] = "up", epoch[p] = 0, life'[p] = "up" PROVE epoch'[p] = 0
  <2>1. ASSUME NEW t \in Thread, Moves(Home[t]) PROVE epoch'[p] = 0
    BY <1>1, <1>3, <2>1, Homes
    DEF Moves, BeginMaintenance, Reconcile, NextEpoch, CanAdvance, MemoryTyped
  <2>2. ASSUME NEW q \in Process, Crash(q) PROVE epoch'[p] = 0
    BY <1>1, <1>3, <2>2 DEF Crash, MemoryTyped
  <2>3. ASSUME NEW q \in Process, ObserveInitial(q) PROVE epoch'[p] = 0
    BY <1>1, <1>3, <2>3 DEF ObserveInitial, MemoryTyped
  <2> QED
    BY <1>1, <1>3, <2>1, <2>2, <2>3, ThreadMoves
    DEF Next, Undisturbed, vars, memory, InitializeRecord, Expire
<1> QED BY <1>2, <1>3 DEF WritesUnspoiled, StaysExhausted

-----------------------------------------------------------------------------
(* The theorems                                                            *)

\* The invariant holds at first and is kept by every step.
LEMMA InvStep == (Init => IInv) /\ (IInv /\ [Next]_vars => IInv')
<1>1. ASSUME Init PROVE IInv
  <2>1. AllReplacing
    BY <1>1 DEF Init, AllReplacing, Replacing, Publisher
  <2>2. Numbered
    BY <1>1 DEF Init, Numbered
  <2>3. AllLeased
    <3>1. ASSUME NEW t \in Thread
          PROVE  phase[t] = "idle" /\ lease[t] = NoLease /\ ~spoiled[t] /\ epoch[Home[t]] = 0
      BY <1>1, Homes DEF Init
    <3> QED BY <3>1 DEF AllLeased, Leased, Working
  <2>4. EpochNamesOneRoot
    BY <1>1 DEF Init, EpochNamesOneRoot
  <2> QED BY <1>1, <2>1, <2>2, <2>3, <2>4, TypeStep, LockStep DEF IInv
<1>2. ASSUME IInv, [Next]_vars PROVE IInv'
  <2>1. TypeOK'
    BY <1>2, TypeStep DEF IInv
  <2>2. Exclusion' /\ InOrder'
    BY <1>2, LockStep, TypeParts DEF IInv
  <2>3. AllReplacing' /\ Numbered'
    BY <1>2, <2>1, ReplacingStep DEF IInv
  <2>4. AllLeased' /\ EpochNamesOneRoot'
    BY <1>2, LeasedStep, NamesStep DEF IInv
  <2> QED BY <2>1, <2>2, <2>3, <2>4 DEF IInv
<1> QED BY <1>1, <1>2

\* The inductive invariant: what each phase of a publication has written and
\* holds locked, and what each lease knows of its epoch.
THEOREM InvariantHolds == Spec => []IInv
  BY InvStep, PTL DEF Spec

\* Every variable keeps its type: no generation and no epoch passes its limit.
THEOREM TypeCorrect == Spec => []TypeOK
<1>1. IInv => TypeOK
  BY DEF IInv
<1> QED BY <1>1, InvariantHolds, PTL

\* No two threads, of one process or of two, hold locks that clash.
THEOREM LocksExclude == Spec => []Exclusion
<1>1. IInv => Exclusion
  BY DEF IInv
<1> QED BY <1>1, InvariantHolds, PTL

\* Whatever failed or died on the way, a record that says ready describes the
\* two databases as they are, and they are of one publication.
THEOREM ReadyStatesAreWhole == Spec => []ReadyIsWhole
<1>1. IInv => ReadyIsWhole
  BY DEF IInv, Numbered, ReadyIsWhole
<1> QED BY <1>1, InvariantHolds, PTL

\* Within a process an epoch is handed out with one root.
THEOREM EpochsNameRoots == Spec => []EpochNamesOneRoot
<1>1. IInv => EpochNamesOneRoot
  BY DEF IInv
<1> QED BY <1>1, InvariantHolds, PTL

\* Nothing admitted before a maintenance passes bytes after it, and a process
\* whose epochs ran out serves nothing until it is started again.
THEOREM WorkEndsWithItsEpoch == Spec => WorkDiesWithItsEpoch
<1>1. IInv /\ [Next]_vars => [WritesUnspoiled /\ StaysExhausted]_vars
  BY EpochsAreFinal DEF IInv
<1> QED BY <1>1, InvariantHolds, PTL DEF Spec, WorkDiesWithItsEpoch

\* Whoever is about to mark a publication ready has a new number for it.
LEMMA FinishIsNewer ==
    ASSUME IInv, NEW t \in Thread, phase[t] = "finish" PROVE hgen > issued
<1>1. ThreadsTyped /\ issued \in Nat
  BY TypeParts DEF IInv, DiskTyped, Gen
<1>2. base[t].id.p \in Nat /\ NextGeneration(base[t].id) > base[t].id.p
  BY <1>1, Generations, LimitsAreNat DEF Gen
<1>3. hgen = NextGeneration(base[t].id) /\ issued <= base[t].id.p
  BY DEF IInv, AllReplacing, Replacing, Publisher
<1>4. NextGeneration(base[t].id) \in Nat
  BY <1>3, TypeParts, LimitsAreNat DEF IInv, DiskTyped, Gen
<1> QED BY <1>1, <1>2, <1>3, <1>4

\* A publication has a generation beyond every one that was ready before,
\* although a reset takes that of the headers back to zero.
THEOREM GenerationsOnlyGrow == Spec => GenerationsAreNotReused
<1>1. IInv => GenerationGrows
  BY FinishIsNewer DEF GenerationGrows, MarksReady
<1>2. IInv /\ [Next]_vars => [GenerationGrows]_vars
  BY <1>1
<1> QED BY <1>2, InvariantHolds, PTL DEF Spec, GenerationsAreNotReused

\* An endpoint that was added is never lost, whatever copies of the peers
\* from before are merged, published or abandoned.
THEOREM PeersAreKept == Spec => AddedPeersAreKept
<1>1. [Next]_vars => [PeersGrow]_vars
  <2> SUFFICES ASSUME Next PROVE PeersGrow
    OBVIOUS
  <2> USE DEF PeersGrow, disk
  <2>1. ASSUME NEW t \in Thread, CommitPeers(t) \/ SavePeers(t) \/ AddPeer(t) PROVE PeersGrow
    BY <2>1 DEF CommitPeers, SavePeers, AddPeer, MergePeers
  <2>2. ASSUME NEW t \in Thread, Step(t) PROVE PeersGrow
    BY <2>1, <2>2
    DEF Step, SyncStep, MutationStep, RequestStep, BeginSync, Compare, ReconcileCurrent, Observe, Decide,
        Stage, Fetch, BeginPublication, CommitHeaders, MarkReady, BeginMutation, Rewrite, StampHeaders,
        StampPeers, ClearCache, ReadStatus, Admit, TryReconcile, Resolve, LoadPeers, Answer, Write,
        Relay, Relayed
  <2> QED
    BY <2>2 DEF Next, Undisturbed, Start, Acquire, Backoff, Cancel, InitializeRecord, ObserveInitial,
       Expire, Fail, Crash
<1> QED BY <1>1, PTL DEF Spec, AddedPeersAreKept
\* Threads that all wait have one that waits for the highest lock.
LEMMA HighestWaiter ==
    ASSUME ThreadsTyped, NEW ring \in SUBSET Thread, ring # {}, \A t \in ring : ~HasAll(t)
    PROVE  \E top \in ring : \A t \in ring : Rank(Wanted(t)) <= Rank(Wanted(top))
<1> DEFINE R(t) == Rank(Wanted(t))
<1>1. \A t \in ring : R(t) \in 1 .. 6
  <2>1. \A t \in ring : Wanted(t) \in Lacks(t) /\ Lacks(t) \subseteq LockMode
    BY WantedIsLowest, RequiredLocks DEF Lacks, ThreadsTyped
  <2> QED BY <2>1, Locks
<1> HIDE DEF R
<1>2. SUFFICES ASSUME \A top \in ring : \E t \in ring : R(t) > R(top) PROVE FALSE
  <2>1. (\E top \in ring : \A t \in ring : R(t) <= R(top)) => \E top \in ring : \A t \in ring : Rank(Wanted(t)) <= Rank(Wanted(top))
    BY DEF R
  <2>2. \A t, u \in ring : ~(R(t) <= R(u)) => R(t) > R(u)
    BY <1>1
  <2> QED BY <2>1, <2>2
<1>3. \A t \in ring : R(t) \in 1 .. 5
  BY <1>1, <1>2
<1>4. \A t \in ring : R(t) \in 1 .. 4
  BY <1>2, <1>3
<1>5. \A t \in ring : R(t) \in 1 .. 3
  BY <1>2, <1>4
<1>6. \A t \in ring : R(t) \in 1 .. 2
  BY <1>2, <1>5
<1>7. \A t \in ring : R(t) = 1
  BY <1>2, <1>6
<1> QED BY <1>2, <1>7

\* Threads never wait in a circle, writers that queue before readers included:
\* whoever waits for the highest lock waits for somebody who goes on.
THEOREM NobodyWaitsInACircle == Spec => []NoCircularWait
<1>1. ASSUME IInv, NEW ring \in SUBSET Thread, ring # {}, \A t \in ring : WaitsFor(t) \cap ring # {}
      PROVE  FALSE
  <2>1. ThreadsTyped /\ \A t \in ring : ~HasAll(t)
    BY <1>1, TypeParts DEF IInv, WaitsFor
  <2>2. PICK top \in ring : \A t \in ring : Rank(Wanted(t)) <= Rank(Wanted(top))
    BY <1>1, <2>1, HighestWaiter
  <2>3. \A t \in ring : Wanted(t) \in Lacks(t) /\ Rank(Wanted(t)) \in 1 .. 6
    BY <2>1, WantedIsLowest, RequiredLocks, Locks DEF Lacks, ThreadsTyped
  <2>4. ASSUME NEW t \in ring, Rank(Wanted(t)) = Rank(Wanted(top)), NEW u \in ring, u \in Holders(t, Wanted(t))
        PROVE  FALSE
    <3>1. PICK h \in holds[u] : Clash(h, Wanted(t))
      BY <2>4 DEF Holders
    <3>2. Rank(h) = Rank(Wanted(t))
      BY <3>1 DEF Clash, Rank
    <3>3. Rank(h) < Rank(Wanted(u))
      BY <1>1, <2>3 DEF IInv, InOrder
    <3> QED BY <2>2, <2>3, <2>4, <3>2, <3>3
  <2>5. PICK u \in ring : u \in WaitsFor(top)
    BY <1>1
  <2>6. CASE u \in Queued(top)
    <3>1. Wanted(top) = S("maintenance") /\ Wanted(u) = X("maintenance")
      BY <2>6 DEF Queued
    <3>2. Rank(Wanted(u)) = Rank(Wanted(top)) /\ Wanted(u) # S("maintenance")
      BY <3>1, Locks
    <3>3. PICK v \in ring : v \in WaitsFor(u)
      BY <1>1
    <3>4. v \in Holders(u, Wanted(u))
      BY <3>2, <3>3 DEF WaitsFor, Queued
    <3> QED BY <2>4, <3>2, <3>4
  <2> QED BY <2>4, <2>5, <2>6 DEF WaitsFor
<1>2. IInv => NoCircularWait
  BY <1>1 DEF NoCircularWait
<1> QED BY <1>2, InvariantHolds, PTL
-----------------------------------------------------------------------------
(* The refinement of AtomicHeaderState                                     *)

Visible == IF Readable THEN [gen |-> hgen, best |-> best] ELSE NoId
Work == [t \in Thread |-> lease[t].root]
Delivered == [t \in Thread |-> phase[t] \in {"tunnel", "relay"}]

\* What a reader sees is something, and what it observes is its root.
LEMMA VisibleFacts ==
    /\ \A g, b : [gen |-> g, best |-> b] # NoId
    /\ Readable => Visible = [gen |-> hgen, best |-> best] /\ Visible # NoId
    /\ Observed # NoRoot => Readable /\ Observed = RootOf[Visible.best]
    /\ Numbered /\ Readable => issued = hgen
    /\ record \in NotReady => Visible = NoId
<1>1. ASSUME NEW g, NEW b PROVE [gen |-> g, best |-> b] # NoId
  <2>1. "gen" \in DOMAIN [gen |-> g, best |-> b] /\ "gen" \notin DOMAIN NoId
    BY DEF NoId
  <2> QED BY <2>1
<1>2. Readable => record.state = "ready"
  BY DEF Readable, Ready
<1>3. record \in NotReady => ~Readable
  BY <1>2 DEF NotReady
<1> QED BY <1>1, <1>2, <1>3 DEF Visible, Observed, Authority, Numbered
\* Work that is neither taken up nor delivered by a step is kept or dropped.
KeepsWork(w) ==
    lease'[w].root = lease[w].root /\ (phase'[w] \in {"tunnel", "relay"} <=> phase[w] \in {"tunnel", "relay"})
DropsWork(w) == lease'[w].root = NoRoot /\ phase'[w] \notin {"tunnel", "relay"}
LEMMA DropsAreAtomic ==
    /\ \A gone \in SUBSET Thread :
          (\A w \in Thread : IF w \in gone THEN DropsWork(w) ELSE KeepsWork(w)) => Atomic!Drop(gone)
    /\ (\A w \in Thread : KeepsWork(w)) => UNCHANGED <<Work, Delivered>>
<1>1. ASSUME NEW gone \in SUBSET Thread, \A w \in Thread : IF w \in gone THEN DropsWork(w) ELSE KeepsWork(w)
      PROVE  Atomic!Drop(gone)
  <2>1. \A w \in Thread : lease'[w].root = IF w \in gone THEN NoRoot ELSE lease[w].root
    BY <1>1 DEF DropsWork, KeepsWork
  <2>2. \A w \in Thread : (phase'[w] \in {"tunnel", "relay"}) = (w \notin gone /\ phase[w] \in {"tunnel", "relay"})
    BY <1>1 DEF DropsWork, KeepsWork
  <2> QED BY <2>1, <2>2 DEF Atomic!Drop
<1>2. ASSUME \A w \in Thread : KeepsWork(w) PROVE UNCHANGED <<Work, Delivered>>
  <2>1. \A w \in Thread : (phase'[w] \in {"tunnel", "relay"}) = (phase[w] \in {"tunnel", "relay"})
    BY <1>2 DEF KeepsWork
  <2> QED BY <1>2, <2>1 DEF KeepsWork, Work, Delivered
<1> QED BY <1>1, <1>2

\* A step of a thread keeps or drops its own work, takes it up or delivers it.
LEMMA OwnWork ==
    ASSUME ThreadsTyped, NEW t \in Thread,
           Start(t) \/ Acquire(t) \/ Backoff(t) \/ Step(t) \/ Cancel(t) \/ Fail(t)
    PROVE  \/ KeepsWork(t) \/ DropsWork(t)
           \/ Takes(t) /\ UNCHANGED disk
           \/ Write(t) /\ Observed = lease[t].root /\ phase'[t] = "tunnel" /\ lease'[t] = lease[t]
<1>1. CASE Drops(t)
  BY <1>1 DEF Drops, DropsWork, Working, NoLease
<1>2. CASE Takes(t)
  <2>1. Admit(t) \/ ReadStatus(t) \/ lease'[t] = lease[t] \/ lease'[t] = NoLease
    <3>1. CASE Admit(t) \/ ReadStatus(t)
      BY <3>1
    <3>2. CASE ~(Admit(t) \/ ReadStatus(t))
      <4>1. ASSUME End(t) PROVE lease'[t] = NoLease
        BY <4>1 DEF End, EndWith, ThreadsTyped
      <4>2. ASSUME Reconciled(t) PROVE lease'[t] \in {lease[t], NoLease}
        BY <4>1, <4>2 DEF Reconciled, Keep
      <4> QED
        BY <3>2, <4>1, <4>2
        DEF Start, Acquire, Backoff, Cancel, Fail, Step, SyncStep, MutationStep, RequestStep, BeginSync,
            Compare, ReconcileCurrent, Observe, Decide, Stage, Fetch, BeginPublication, CommitHeaders,
            CommitPeers, MarkReady, BeginMutation, Rewrite, StampHeaders, StampPeers, ClearCache, AddPeer,
            TryReconcile, Resolve, LoadPeers, SavePeers, Answer, Write, Relay, Relayed, Keep, ThreadsTyped
    <3> QED BY <3>1, <3>2
  <2>2. CASE Admit(t) \/ ReadStatus(t)
    BY <1>2, <2>2 DEF Admit, ReadStatus
  <2>3. CASE lease'[t] = lease[t]
    BY <1>2, <2>3 DEF Takes, KeepsWork, Working
  <2>4. CASE lease'[t] = NoLease
    BY <1>2, <2>4 DEF Takes, DropsWork, NoLease
  <2> QED BY <2>1, <2>2, <2>3, <2>4
<1>3. CASE Carries(t) /\ ~Drops(t)
  <2>1. lease'[t] = lease[t]
    BY <1>3 DEF Carries
  <2>2. CASE phase'[t] = phase[t] \/ (phase[t] \notin Working \cup {"idle"} /\ phase'[t] \notin Working)
    BY <2>1, <2>2 DEF KeepsWork, Working
  <2>3. CASE phase[t] \in Working /\ phase'[t] \in Working /\ phase'[t] # phase[t]
    <3>1. ASSUME NEW ph, NEW kept, Goto(t, ph, kept) PROVE phase'[t] = ph
      BY <3>1 DEF Goto, ThreadsTyped
    <3>2. ~End(t)
      BY <2>3, <3>1 DEF End, EndWith, Working
    <3>3. Resolve(t) \/ LoadPeers(t) \/ SavePeers(t) \/ Answer(t) \/ Write(t) \/ Relay(t) \/ Relayed(t)
      BY <2>3, <3>2
      DEF Start, Acquire, Backoff, Polled, Cancel, Fail, Step, SyncStep, MutationStep, RequestStep,
          BeginSync, Compare, ReconcileCurrent, Observe, Decide, Stage, Fetch, BeginPublication,
          CommitHeaders, CommitPeers, MarkReady, BeginMutation, Rewrite, StampHeaders, StampPeers,
          ClearCache, AddPeer, ReadStatus, Admit, TryReconcile, At, Working
    <3> QED
      BY <2>1, <3>1, <3>2, <3>3
      DEF Resolve, LoadPeers, SavePeers, Answer, Write, Relay, Relayed, At, KeepsWork
  <2> QED BY <1>3, <2>2, <2>3 DEF Carries
<1> QED BY <1>1, <1>2, <1>3, OwnLease
\* What a step does to what a reader sees: nothing, it is taken away, or one
\* that was not there comes with a new number or with the number it had.
Shows ==
    /\ Visible = NoId /\ Visible' = [gen |-> issued', best |-> best'] /\ best' \in Chain
    /\ issued' = issued \/ issued' > issued
Hides == Visible' \in {Visible, NoId} /\ issued' = issued

\* Only the end of a publication shows anything.
LEMMA ThreadsHide ==
    ASSUME IInv, NEW t \in Thread,
           Start(t) \/ Acquire(t) \/ Backoff(t) \/ Step(t) \/ Cancel(t) \/ Fail(t)
    PROVE  Hides \/ (MarkReady(t) /\ Shows)
<1>1. ThreadsTyped /\ DiskTyped
  BY TypeParts DEF IInv
<1>2. ASSUME record' \in NotReady, UNCHANGED issued PROVE Hides
  <2>1. record'.state # "ready"
    BY <1>2 DEF NotReady
  <2> QED BY <1>2, <2>1 DEF Hides, Visible, Readable, Ready
<1>3. ASSUME UNCHANGED <<hgen, best, pgen, record, issued>> PROVE Hides
  BY <1>3 DEF Hides, Visible, Readable, Live
<1>4. ASSUME UNCHANGED <<hgen, best, pgen, issued>>, record' \in {record} \cup NotReady PROVE Hides
  BY <1>2, <1>3, <1>4
<1>5. CASE Acquire(t) \/ Fetch(t)
  BY <1>3, <1>5 DEF Acquire, Fetch, disk
<1>6. CASE BeginPublication(t) \/ BeginMutation(t) \/ Fail(t)
  BY <1>4, <1>6, NothingIsTyped DEF BeginPublication, BeginMutation, Fail
<1>7. CASE CommitHeaders(t) \/ CommitPeers(t) \/ Rewrite(t) \/ StampHeaders(t) \/ StampPeers(t)
  <2>1. record = Updating
    BY <1>7 DEF CommitHeaders, CommitPeers, Rewrite, StampHeaders, StampPeers, At, IInv, AllReplacing,
       Replacing, Publisher
  <2>2. record' \in NotReady /\ UNCHANGED issued
    BY <1>7, <2>1, NothingIsTyped DEF CommitHeaders, CommitPeers, Rewrite, StampHeaders, StampPeers
  <2> QED BY <1>2, <2>2
<1>8. CASE MarkReady(t)
  <2>1. phase[t] = "finish" /\ record' = Ready(Live) /\ UNCHANGED <<hgen, best, pgen>>
    BY <1>8 DEF MarkReady, At
  <2>2. record = Updating /\ hgen > issued /\ best \in Chain
    BY <1>1, <2>1, FinishIsNewer DEF IInv, AllReplacing, Replacing, Publisher, DiskTyped
  <2>3. Visible = NoId
    BY <2>2, NothingIsTyped, VisibleFacts
  <2>4. issued' = hgen /\ Visible' = [gen |-> hgen', best |-> best']
    BY <1>8, <2>1, <2>2 DEF MarkReady, Visible, Readable, Live
  <2> QED BY <1>8, <2>1, <2>2, <2>3, <2>4 DEF Shows
<1>9. CASE \/ BeginSync(t) \/ Compare(t) \/ ReconcileCurrent(t) \/ Observe(t) \/ Decide(t) \/ Stage(t)
           \/ ClearCache(t) \/ AddPeer(t) \/ ReadStatus(t) \/ RequestStep(t)
           \/ Start(t) \/ Backoff(t) \/ Cancel(t)
  BY <1>1, <1>3, <1>9, ElsewhereSteps DEF Quiet
<1> QED
  BY <1>5, <1>6, <1>7, <1>8, <1>9 DEF Step, SyncStep, MutationStep

\* A process that opens the storage shows what it finds whole, or hides it.
LEMMA OpeningShows ==
    ASSUME IInv, NEW p \in Process, InitializeRecord(p) PROVE Hides \/ Shows
<1>1. DiskTyped /\ hgen \in Nat /\ issued \in Nat
  BY TypeParts, LimitsAreNat DEF IInv, DiskTyped, Gen
<1>2. UNCHANGED <<hgen, best, pgen>> /\ issued' = IF record'.state = "ready" /\ hgen > issued THEN hgen ELSE issued
  BY <1>1 DEF InitializeRecord
<1>3. CASE record' = Updating
  <2>1. record'.state # "ready"
    BY <1>3 DEF Updating
  <2> QED BY <1>2, <2>1 DEF Hides, Visible, Readable, Ready
<1>4. CASE record' = record
  <2>1. issued' = issued
    BY <1>1, <1>2, <1>4 DEF IInv, Numbered
  <2> QED BY <1>2, <1>4, <2>1 DEF Hides, Visible, Readable, Live
<1>5. CASE record.state = "empty" /\ hgen = pgen /\ record' = Ready(Live)
  <2>1. Visible = NoId
    BY <1>5 DEF Visible, Readable, Ready
  <2>2. record'.state = "ready" /\ Visible' = [gen |-> hgen', best |-> best']
    BY <1>2, <1>5 DEF Visible, Readable, Ready, Live
  <2>3. issued' = hgen /\ (issued' = issued \/ issued' > issued)
    BY <1>1, <1>2, <1>5, <2>2 DEF IInv, Numbered
  <2> QED BY <1>1, <1>2, <2>1, <2>2, <2>3 DEF Shows, DiskTyped
<1> QED BY <1>3, <1>4, <1>5 DEF InitializeRecord

\* What hides and shows is a step of the abstract state, with what becomes of
\* the work at the same time.
LEMMA AtomicSteps ==
    /\ \A gone \in SUBSET Thread : Hides /\ Atomic!Drop(gone) => Atomic!Next
    /\ Shows /\ UNCHANGED <<Work, Delivered>> => Atomic!Next
<1>1. ASSUME NEW gone \in SUBSET Thread, Hides, Atomic!Drop(gone) PROVE Atomic!Next
  <2>1. Atomic!Withdraw \/ UNCHANGED <<Visible, issued>>
    BY <1>1 DEF Hides, Atomic!Withdraw, Visible
  <2> QED BY <1>1, <2>1 DEF Atomic!Next, Visible
<1>2. ASSUME Shows, UNCHANGED <<Work, Delivered>> PROVE Atomic!Next
  <2>1. Atomic!Restore \/ Atomic!Publish
    BY <1>2 DEF Shows, Atomic!Restore, Atomic!Publish, Visible
  <2> QED BY <1>2, <2>1 DEF Atomic!Next, Work, Delivered
<1> QED BY <1>1, <1>2
\* The initial states are initial, and every step is one of the abstract state.
LEMMA AtomicStep ==
    /\ Init => Atomic!Init
    /\ IInv /\ IInv' /\ [Next]_vars => [Atomic!Next]_Atomic!vars
<1>1. ASSUME Init PROVE Atomic!Init
  <2>1. ~Readable /\ \A t \in Thread : lease[t].root = NoRoot /\ phase[t] \notin {"tunnel", "relay"}
    BY <1>1 DEF Init, Readable, Ready, NoLease
  <2>2. [t \in Thread |-> lease[t].root] = [w \in Thread |-> NoRoot]
    BY <2>1
  <2>3. \A t \in Thread : (phase[t] \in {"tunnel", "relay"}) = FALSE
    BY <2>1
  <2>4. [t \in Thread |-> phase[t] \in {"tunnel", "relay"}] = [w \in Thread |-> FALSE]
    BY <2>3, Zenon
  <2>5. issued = 0
    BY <1>1 DEF Init
  <2> QED BY <2>1, <2>2, <2>4, <2>5, Zenon DEF Atomic!Init
<1> SUFFICES ASSUME IInv, IInv', [Next]_vars PROVE [Atomic!Next]_Atomic!vars
  BY <1>1
<1>2. ThreadsTyped /\ AllLeased /\ Numbered
  BY TypeParts DEF IInv
<1>3. ASSUME NEW t \in Thread,
             Start(t) \/ Acquire(t) \/ Backoff(t) \/ Step(t) \/ Cancel(t) \/ Fail(t)
      PROVE  Atomic!Next
  <2>1. \A w \in Thread \ {t} : KeepsWork(w)
    BY <1>2, <1>3, ThreadsAreApart DEF LeavesOthers, KeepsWork
  <2>2. CASE MarkReady(t) /\ Shows
    <3>1. phase[t] = "finish" /\ phase'[t] = "idle" /\ lease'[t] = NoLease /\ lease[t] = NoLease
      BY <1>2, <2>2 DEF MarkReady, At, End, EndWith, Goto, ThreadsTyped, AllLeased, Leased, Working
    <3>2. \A w \in Thread : KeepsWork(w)
      BY <2>1, <3>1 DEF KeepsWork
    <3> QED BY <2>2, <3>2, DropsAreAtomic, AtomicSteps
  <2>3. CASE Hides /\ KeepsWork(t)
    <3>1. {} \in SUBSET Thread /\ \A w \in Thread : IF w \in {} THEN DropsWork(w) ELSE KeepsWork(w)
      BY <2>1, <2>3
    <3>2. Atomic!Drop({})
      BY <3>1, DropsAreAtomic, Zenon
    <3> QED BY <2>3, <3>1, <3>2, AtomicSteps, Zenon
  <2>4. CASE Hides /\ DropsWork(t)
    <3>1. \A w \in Thread : IF w \in {t} THEN DropsWork(w) ELSE KeepsWork(w)
      BY <2>1, <2>4
    <3> QED BY <2>4, <3>1, DropsAreAtomic, AtomicSteps
  <2>5. CASE Takes(t) /\ UNCHANGED disk /\ Observed = NoRoot
    <3>1. DropsWork(t)
      BY <2>5 DEF Takes, DropsWork
    <3>2. Hides
      BY <2>5 DEF Hides, Visible, Readable, Live, disk
    <3> QED BY <2>4, <3>1, <3>2
  <2>6. CASE Takes(t) /\ UNCHANGED disk /\ Observed # NoRoot
    <3>1. /\ lease'[t].root = RootOf[Visible.best] /\ Visible # NoId /\ RootOf[Visible.best] # NoRoot
          /\ phase[t] \notin {"tunnel", "relay"} /\ phase'[t] \notin {"tunnel", "relay"}
      BY <2>6, VisibleFacts DEF Takes, Working
    <3>2. \A w \in Thread : (phase'[w] \in {"tunnel", "relay"}) = (phase[w] \in {"tunnel", "relay"})
      BY <2>1, <3>1 DEF KeepsWork
    <3>3. UNCHANGED <<Visible, issued, Delivered>>
      BY <2>6, <3>2 DEF Visible, Readable, Live, disk, Delivered
    <3>4. Work' = [Work EXCEPT ![t] = RootOf[Visible.best]]
      BY <2>1, <3>1 DEF KeepsWork, Work
    <3> QED BY <3>1, <3>3, <3>4 DEF Atomic!Next, Atomic!Begin, Visible, Work, Delivered
  <2>7. CASE Write(t) /\ Observed = lease[t].root /\ phase'[t] = "tunnel" /\ lease'[t] = lease[t]
    <3>1. lease[t].root # NoRoot
      BY <1>2, <2>7 DEF Write, At, AllLeased, Leased, Working
    <3>2. Visible # NoId /\ lease[t].root = RootOf[Visible.best]
      BY <2>7, <3>1, VisibleFacts
    <3>3. UNCHANGED <<Visible, issued, Work>>
      BY <2>1, <2>7 DEF Write, Visible, Readable, Live, disk, KeepsWork, Work
    <3>4. \A w \in Thread :
             (phase'[w] \in {"tunnel", "relay"}) = IF w = t THEN TRUE ELSE phase[w] \in {"tunnel", "relay"}
      <4>1. phase'[t] \in {"tunnel", "relay"}
        BY <2>7
      <4>2. \A w \in Thread \ {t} : (phase'[w] \in {"tunnel", "relay"}) = (phase[w] \in {"tunnel", "relay"})
        BY <2>1 DEF KeepsWork
      <4> QED BY <4>1, <4>2
    <3>5. Delivered' = [Delivered EXCEPT ![t] = TRUE]
      BY <3>4 DEF Delivered
    <3> QED BY <3>1, <3>2, <3>3, <3>5 DEF Atomic!Next, Atomic!Deliver, Visible, Work, Delivered
  <2> QED BY <1>2, <1>3, <2>2, <2>3, <2>4, <2>5, <2>6, <2>7, OwnWork, ThreadsHide
<1>4. ASSUME NEW p \in Process, Crash(p) PROVE Atomic!Next
  <2>1. Hides
    <3>1. UNCHANGED <<hgen, best, pgen, issued>> /\ record' \in {record} \cup NotReady
      BY <1>4, NothingIsTyped DEF Crash
    <3>2. CASE record' = record
      BY <3>1, <3>2 DEF Hides, Visible, Readable, Live
    <3>3. CASE record' \in NotReady
      <4>1. record'.state # "ready"
        BY <3>3 DEF NotReady
      <4> QED BY <3>1, <4>1 DEF Hides, Visible, Readable, Ready
    <3> QED BY <3>1, <3>2, <3>3
  <2> DEFINE lost == {t \in Thread : Home[t] = p}
  <2>2. \A w \in Thread : IF w \in lost THEN DropsWork(w) ELSE KeepsWork(w)
    BY <1>4 DEF Crash, DropsWork, KeepsWork, NoLease
  <2> QED BY <2>1, <2>2, DropsAreAtomic, AtomicSteps
<1>5. ASSUME UNCHANGED threads PROVE \A w \in Thread : KeepsWork(w)
  BY <1>5 DEF threads, KeepsWork
<1>6. ASSUME Hides, UNCHANGED threads PROVE Atomic!Next
  <2>1. {} \in SUBSET Thread /\ \A w \in Thread : IF w \in {} THEN DropsWork(w) ELSE KeepsWork(w)
    BY <1>5, <1>6
  <2>2. Atomic!Drop({})
    BY <2>1, DropsAreAtomic, Zenon
  <2> QED BY <1>6, <2>1, <2>2, AtomicSteps
<1>7. ASSUME NEW p \in Process, InitializeRecord(p) PROVE Atomic!Next
  <2>1. UNCHANGED threads
    BY <1>7 DEF InitializeRecord
  <2> QED BY <1>5, <1>6, <1>7, <2>1, OpeningShows, DropsAreAtomic, AtomicSteps
<1>8. CASE Expire \/ UNCHANGED vars \/ \E p \in Process : ObserveInitial(p)
  <2>1. Hides /\ UNCHANGED threads
    BY <1>8 DEF Expire, vars, ObserveInitial, Hides, Visible, Readable, Live, disk
  <2> QED BY <1>6, <2>1
<1> QED
  BY <1>3, <1>4, <1>7, <1>8 DEF Next, Undisturbed

\* To its readers the state is one that is replaced atomically, whichever
\* process replaced it and whatever failed, and work is delivered only under
\* the root it was admitted under.
THEOREM StateIsAtomic == Spec => IsAtomic
<1>1. Spec => []IInv
  BY InvariantHolds
<1> QED BY <1>1, AtomicStep, PTL DEF Spec, IsAtomic, Atomic!Spec
=============================================================================
