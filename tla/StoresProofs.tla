----------------------------- MODULE StoresProofs -----------------------------
(***************************************************************************)
(* The local CA store: as long as no lock file is old enough to be judged  *)
(* stale, the store has one authority for any number of processes, crashes *)
(* and failures.  The hypothesis is needed: see the run that lets abandoned *)
(* lock files age.                                                         *)
(*                                                                         *)
(* The setup program: what a run has done when it stops, for any number of *)
(* browsers, manifests and certificates and after any number of failed,    *)
(* repeated and interrupted runs.                                          *)
(***************************************************************************)
EXTENDS MCStores, FiniteSetTheorems, TLAPS

-----------------------------------------------------------------------------
(* The local CA store.                                                     *)

\* The lock file excludes: whoever is under the lock created the file.
Exclusion ==
    /\ \A p \in Process : pc[p] \in UnderLock => owner = p
    /\ ~old /\ \A p \in Process : pc[p] # "remove"

\* Nobody who is about to write a bundle finds one.
WriterFindsNone ==
    \A p \in Process : pc[p] \in {"generate", "write"} => bundle = 0

\* Together with the types these are inductive.
IInv == TypeOK /\ Exclusion /\ WriterFindsNone /\ OneAuthority

\* One step keeps every type, stale lock files or not.
LEMMA TypeStep == ASSUME TypeOK, [Next]_vars PROVE TypeOK'
<1> USE NoOneIsNoProcess, LimitsAreNat
    DEF TypeOK, Authority, Step, Goes, disk, file, Unlink, Leave, Fault
<1>1. ASSUME NEW p \in Process, Open(p) PROVE TypeOK'
  BY <1>1 DEF Open
<1>2. ASSUME NEW p \in Process, Look(p) \/ CheckBundle(p) \/ CheckAge(p) \/ CheckAgain(p)
      PROVE TypeOK'
  BY <1>2 DEF Look, CheckBundle, CheckAge, CheckAgain
<1>3. ASSUME NEW p \in Process, Acquire(p) PROVE TypeOK'
  <2>1. UNCHANGED <<disk, made, own, held, faults>>
    BY <1>3 DEF Acquire
  <2>2. /\ owner' \in Process \cup {NoOne} /\ old' \in BOOLEAN
        /\ pc' \in [Process -> Step]
    BY <1>3 DEF Acquire
  <2>3. tries' \in [Process -> 0 .. LOCAL_CA_LOCK_ATTEMPTS]
    <3>1. CASE tries[p] = 0
      BY <1>3, <3>1 DEF Acquire
    <3>2. CASE tries[p] # 0
      <4>1. tries' = [tries EXCEPT ![p] = tries[p] - 1]
        BY <1>3, <3>2 DEF Acquire
      <4>2. tries[p] - 1 \in 0 .. LOCAL_CA_LOCK_ATTEMPTS
        BY <3>2
      <4> QED BY <4>1, <4>2
    <3> QED BY <3>1, <3>2
  <2> QED BY <2>1, <2>2, <2>3
<1>4. ASSUME NEW p \in Process, RemoveStale(p) \/ Unlock(p) PROVE TypeOK'
  BY <1>4 DEF RemoveStale, Unlock
<1>5. ASSUME NEW p \in Process, Generate(p) PROVE TypeOK'
  BY <1>5 DEF Generate
<1>6. ASSUME NEW p \in Process, WriteBundle(p) PROVE TypeOK'
  BY <1>6 DEF WriteBundle
<1>7. ASSUME NEW p \in Process, Load(p) \/ ComparePem(p) \/ WritePem(p) PROVE TypeOK'
  BY <1>7 DEF Load, ComparePem, WritePem
<1>8. ASSUME NEW p \in Process, Mark(p) \/ Exit(p) PROVE TypeOK'
  BY <1>8 DEF Mark, Exit
<1>11. ASSUME NEW p \in Process, Fail(p) \/ Die(p) PROVE TypeOK'
  <2>1. faults' \in 0 .. MaxFaults
    BY <1>11 DEF Fail, Die
  <2>2. /\ pc' = [pc EXCEPT ![p] = "idle"] /\ Leave(p)
        /\ UNCHANGED <<disk, tries, made>>
        /\ owner' \in Process \cup {NoOne} /\ old' \in BOOLEAN
    BY <1>11 DEF Fail, Die
  <2>3. held' \in [Process -> Authority] /\ own' \in [Process -> Authority]
    BY <2>2
  <2> QED BY <2>1, <2>2, <2>3
<1>9. CASE Age
  BY <1>9 DEF Age
<1>10. CASE UNCHANGED vars
  BY <1>10 DEF vars
<1> QED
  BY <1>1, <1>2, <1>3, <1>4, <1>5, <1>6, <1>7, <1>8, <1>9, <1>10, <1>11
     DEF Next, Opening

\* A store that is not there yet has every type.
LEMMA TypeInit == Init => TypeOK
<1> SUFFICES ASSUME Init PROVE TypeOK
  OBVIOUS
<1>1. 0 \in Authority /\ 0 \in 0 .. LOCAL_CA_LOCK_ATTEMPTS /\ 0 \in 0 .. MaxFaults
  BY LimitsAreNat DEF Authority
<1>2. "idle" \in Step
  BY DEF Step
<1> QED BY <1>1, <1>2 DEF Init, TypeOK

\* Every variable keeps its type: no process makes more attempts than it may.
THEOREM TypeCorrect == Spec => []TypeOK
  BY TypeInit, TypeStep, PTL DEF Spec

-----------------------------------------------------------------------------
\* One step keeps the invariant, while lock files do not age.
LEMMA InvStep == ASSUME Aging = "none", IInv, [Next]_vars PROVE IInv'
<1> USE NoOneIsNoProcess DEF IInv
<1>0. TypeOK /\ TypeOK'
  BY TypeStep
<1> SUFFICES Exclusion' /\ WriterFindsNone' /\ OneAuthority'
  BY <1>0
<1> USE <1>0 DEF Exclusion, WriterFindsNone, OneAuthority, TypeOK, UnderLock, Goes,
                 disk, file, Unlink, Leave
<1>1. ASSUME NEW p \in Process, Open(p) PROVE Exclusion' /\ WriterFindsNone' /\ OneAuthority'
  BY <1>1 DEF Open
<1>2. ASSUME NEW p \in Process, Look(p) \/ CheckBundle(p) \/ CheckAge(p) \/ CheckAgain(p)
      PROVE Exclusion' /\ WriterFindsNone' /\ OneAuthority'
  BY <1>2 DEF Look, CheckBundle, CheckAge, CheckAgain, LockIsStale
<1>3. ASSUME NEW p \in Process, Acquire(p)
      PROVE Exclusion' /\ WriterFindsNone' /\ OneAuthority'
  BY <1>3 DEF Acquire
<1>4. ASSUME NEW p \in Process, RemoveStale(p) \/ Unlock(p)
      PROVE Exclusion' /\ WriterFindsNone' /\ OneAuthority'
  BY <1>4 DEF RemoveStale, Unlock
<1>5. ASSUME NEW p \in Process, Generate(p)
      PROVE Exclusion' /\ WriterFindsNone' /\ OneAuthority'
  BY <1>5 DEF Generate
<1>6. ASSUME NEW p \in Process, WriteBundle(p)
      PROVE Exclusion' /\ WriterFindsNone' /\ OneAuthority'
  BY <1>6 DEF WriteBundle
<1>7. ASSUME NEW p \in Process, Load(p) \/ ComparePem(p) \/ WritePem(p)
      PROVE Exclusion' /\ WriterFindsNone' /\ OneAuthority'
  BY <1>7 DEF Load, ComparePem, WritePem
<1>8. ASSUME NEW p \in Process, Mark(p) \/ Exit(p) \/ Fail(p) \/ Die(p)
      PROVE Exclusion' /\ WriterFindsNone' /\ OneAuthority'
  BY <1>8 DEF Mark, Exit, Fail, Die
<1>9. CASE Age
  BY <1>9 DEF Age
<1>10. CASE UNCHANGED vars
  BY <1>10 DEF vars
<1> QED
  BY <1>1, <1>2, <1>3, <1>4, <1>5, <1>6, <1>7, <1>8, <1>9, <1>10 DEF Next, Opening

\* ... and the invariant.
LEMMA InvInit == Init => IInv
  BY TypeInit DEF Init, IInv, Exclusion, WriterFindsNone, OneAuthority, UnderLock

\* The lock file excludes and no writer finds a bundle.
THEOREM LockExcludes == ASSUME Aging = "none" PROVE Spec => []IInv
  BY InvInit, InvStep, PTL DEF Spec

\* All processes, the published certificate and the marker agree with the
\* bundle on disk.
THEOREM OneAuthorityHolds == ASSUME Aging = "none" PROVE Spec => []OneAuthority
<1>1. IInv => OneAuthority
  BY DEF IInv
<1> QED BY <1>1, LockExcludes, PTL

\* A bundle, once written, is there for good.
THEOREM BundleIsKept == ASSUME Aging = "none" PROVE Spec => AuthorityIsKept
<1>1. IInv /\ [Next]_vars => [KeepsBundle]_vars
  <2> SUFFICES ASSUME IInv, Next, bundle # 0 PROVE bundle' = bundle
    BY DEF KeepsBundle
  <2> USE DEF IInv, WriterFindsNone, Goes, disk
  <2>1. ASSUME NEW p \in Process, WriteBundle(p) PROVE bundle' = bundle
    BY <2>1 DEF WriteBundle
  <2> QED
    BY <2>1 DEF Next, Opening, Open, Look, Acquire, CheckBundle, CheckAge, RemoveStale,
       CheckAgain, Generate, Unlock, Load, ComparePem, WritePem, Mark, Exit, Fail, Die, Age
<1> QED BY <1>1, LockExcludes, PTL DEF Spec, AuthorityIsKept

-----------------------------------------------------------------------------
(* The setup program: its invariant.                                       *)

\* What a setup process knows.
RunState ==
    [at : Setup!Phases, manifest : Manifests \cup {NONE}, browsers : SUBSET Browsers,
     host : Payloads \cup {NONE}, cert : Setup!Certs \cup {0}, store : Stores \cup {NONE},
     todo : SUBSET (Browsers \cup Setup!Certs), manifests : SUBSET Manifests]
\* A record, or none.
RecordState == Setup!Records \cup {Setup!NoRecord}

\* The type invariant, with the trust store's entries as a function.
SetupTyped ==
    /\ root \in BOOLEAN /\ licences \in BOOLEAN /\ loaders \in BOOLEAN
    /\ host \in Payloads \cup {NONE} /\ master \in Manifests \cup {NONE}
    /\ registered \in [Browsers -> Manifests \cup {NONE, FOREIGN}]
    /\ ca \in [cert : Setup!Certs \cup {0}, marked : BOOLEAN] /\ generated \in 0 .. MaxCa
    /\ anchors \in [Stores -> [Setup!Certs -> Setup!Certs \cup {NONE, FOREIGN}]]
    /\ \A s \in Stores, c \in Setup!Certs : anchors[s][c] \in {NONE, FOREIGN, c}
    /\ receipt \in RecordState /\ transaction \in RecordState
    /\ \A r \in Setup!Known : Setup!Whole(r)
    /\ run \in RunState
    /\ outcome \in {"none", "installed", "uninstalled", "refused", "kept", "failed"}

\* The phases in which a run has announced its certificate in the transaction,
Announced == {"snapshot", "anchor", "trust", "mark", "confirm", "receipt"}
\* ... those in which it knows the certificate and the trust store,
Chosen == {"transaction"} \cup Announced
\* ... those in which it has an install root,
Installing == {"licences", "manifest", "register"} \cup Chosen
\* ... and those in which the receipt is its only record.
Clearing == {"unselected", "stale", "inspect"}

\* One trust store, that of every record and of the run.
OneStore ==
    /\ \A r, t \in Setup!Known : r.store = t.store
    /\ run.at \in Installing \cup {"host"} => run.manifest \in Manifests /\ run.host \in Payloads
    /\ run.at \in Chosen =>
          /\ run.cert \in Setup!Certs /\ run.store \in Stores
          /\ \A r \in Setup!Known : r.store = run.store

\* Nothing is trusted that no record names: the transaction does before it is,
\* and whatever replaces a record names as much.
Recorded ==
    /\ Setup!AnchorsAreRecorded
    /\ run.at \in Announced => transaction # Setup!NoRecord /\ run.cert \in transaction.certs
    /\ run.at = "trust" => anchors[run.store][run.cert] # FOREIGN
    /\ run.at \in Clearing \cup {"clear"} => receipt # Setup!NoRecord
    /\ run.at = "clear" => \A r \in Setup!Known : r.certs \subseteq receipt.certs
    /\ run.at \in Clearing => transaction = Setup!NoRecord

\* A record is in an install root.
Rooted == Setup!HasRecord \/ run.at \in Installing => root

\* What a clearing run is past is gone.
Cleared ==
    /\ run.at \in Clearing =>
          \A b \in Browsers \ receipt.browsers :
              (run.at = "unselected" /\ b \in run.todo) \/ registered[b] \notin receipt.manifests
    /\ run.at \in {"stale", "inspect"} =>
          \A c \in Setup!StaleCerts :
              (run.at = "stale" /\ c \in run.todo) \/ anchors[receipt.store][c] # c
    /\ run.at \in {"inspect", "unmark", "distrust", "purge"} => ~loaders

\* What a removal is past is gone.
Removed ==
    /\ run.at \in {"remove", "unmark", "distrust", "purge"} =>
          \A b \in Browsers :
              (run.at = "remove" /\ b \in run.todo) \/ registered[b] \notin run.manifests
    /\ run.at \in {"distrust", "purge"} =>
          \A s \in Stores, c \in Setup!Certs :
              anchors[s][c] = c => run.at = "distrust" /\ c \in run.todo

\* The inductive invariant.
SetupInv == SetupTyped /\ OneStore /\ Recorded /\ Rooted /\ Cleared /\ Removed

-----------------------------------------------------------------------------
(* The setup program: the types.                                           *)

\* What stands for nothing and for others is nothing of ours.
LEMMA MarkersAre ==
    /\ FOREIGN # NONE
    /\ FOREIGN \notin Manifests /\ NONE \notin Manifests
    /\ NONE \notin Stores /\ NONE \notin Payloads
    /\ FOREIGN \notin Setup!Certs /\ NONE \notin Setup!Certs
    /\ CANONICAL \subseteq Manifests
BY SetupConstants DEF Setup!Assumptions, Setup!Certs

\* The first certificate has a number that is not that of none.
LEMMA CertsAreNat ==
    MaxCa \in Nat /\ \A c \in Setup!Certs : c \in Nat /\ c # 0
BY SetupConstants DEF Setup!Assumptions, Setup!Certs

\* A record that is there is typed.
LEMMA KnownAre ==
    ASSUME SetupTyped
    PROVE  /\ \A r \in Setup!Known : r \in Setup!Records /\ Setup!Whole(r)
           /\ receipt # Setup!NoRecord => receipt \in Setup!Known
           /\ transaction # Setup!NoRecord => transaction \in Setup!Known
           /\ Setup!Known \subseteq {receipt, transaction}
           /\ Setup!HasRecord <=> Setup!Known # {}
BY DEF SetupTyped, RecordState, Setup!Known, Setup!HasRecord

\* A record, field by field.
LEMMA RecordsAre ==
    ASSUME NEW r \in Setup!Records
    PROVE  /\ r.manifest \in Manifests /\ r.browsers \subseteq Browsers /\ r.host \in Payloads
           /\ r.cert \in Setup!Certs /\ r.manifests \subseteq Manifests
           /\ r.certs \subseteq Setup!Certs /\ r.store \in Stores /\ r # Setup!NoRecord
<1>1. r.manifest \in Manifests
  BY DEF Setup!Records
<1>2. r # Setup!NoRecord
  BY <1>1, MarkersAre DEF Setup!NoRecord
<1> QED BY <1>1, <1>2 DEF Setup!Records

\* What the run is, field by field.
LEMMA RunFields ==
    ASSUME SetupTyped
    PROVE  /\ run.at \in Setup!Phases /\ run.manifest \in Manifests \cup {NONE}
           /\ run.browsers \subseteq Browsers /\ run.host \in Payloads \cup {NONE}
           /\ run.cert \in Setup!Certs \cup {0} /\ run.store \in Stores \cup {NONE}
           /\ run.todo \subseteq Browsers \cup Setup!Certs /\ run.manifests \subseteq Manifests
BY DEF SetupTyped, RunState

\* What a run knows stays as it is while it goes on.
SameRun ==
    /\ run' \in RunState
    /\ run'.manifest = run.manifest /\ run'.browsers = run.browsers /\ run'.host = run.host
    /\ run'.cert = run.cert /\ run'.store = run.store /\ run'.manifests = run.manifests

\* The three ways a run goes on,
LEMMA RunGoesTo ==
    ASSUME SetupTyped, NEW phase \in Setup!Phases, Setup!To(phase)
    PROVE  SameRun /\ run'.at = phase /\ run'.todo = run.todo /\ outcome' = outcome
BY DEF SetupTyped, RunState, Setup!To, SameRun

\* ... with elements to handle,
LEMMA RunGoesToAll ==
    ASSUME SetupTyped, NEW phase \in Setup!Phases, NEW todo \in SUBSET (Browsers \cup Setup!Certs),
           Setup!ToAll(phase, todo)
    PROVE  SameRun /\ run'.at = phase /\ run'.todo = todo /\ outcome' = outcome
<1>1. run' = [run EXCEPT !.at = phase, !.todo = todo] /\ outcome' = outcome
  BY DEF Setup!ToAll
<1> QED BY <1>1 DEF SetupTyped, RunState, SameRun

\* ... with one of them handled,
LEMMA RunHandles ==
    ASSUME SetupTyped, NEW x, Setup!Handled(x)
    PROVE  SameRun /\ run'.at = run.at /\ run'.todo = run.todo \ {x} /\ outcome' = outcome
<1>1. run' = [run EXCEPT !.todo = run.todo \ {x}] /\ outcome' = outcome
  BY DEF Setup!Handled
<1>2. run.todo \ {x} \in SUBSET (Browsers \cup Setup!Certs)
  BY RunFields
<1> QED BY <1>1, <1>2 DEF SetupTyped, RunState, SameRun

\* ... and the way it ends.
LEMMA RunStops ==
    ASSUME NEW how, Setup!Stop(how)
    PROVE  run' \in RunState /\ run'.at = "idle" /\ outcome' = how
BY DEF Setup!Stop, Setup!Idle, RunState, Setup!Phases

\* The history a record is written with has all that earlier ones had.
LEMMA RecordIs ==
    ASSUME SetupTyped, OneStore, run.at \in Chosen
    PROVE  /\ Setup!Record \in Setup!Records /\ Setup!Whole(Setup!Record)
           /\ Setup!Record # Setup!NoRecord
           /\ Setup!Record.store = run.store /\ run.cert \in Setup!Record.certs
           /\ \A r \in Setup!Known : r.certs \subseteq Setup!Record.certs
<1>1. /\ run.manifest \in Manifests /\ run.host \in Payloads /\ run.cert \in Setup!Certs
      /\ run.store \in Stores /\ run.browsers \subseteq Browsers
  BY RunFields DEF OneStore, Installing
<1>2. /\ \A r \in Setup!Known : r.manifests \subseteq Manifests /\ r.certs \subseteq Setup!Certs
  BY KnownAre, RecordsAre
<1>3. /\ Setup!OwnedManifests(run.manifest) \subseteq Manifests
      /\ run.manifest \in Setup!OwnedManifests(run.manifest)
  BY <1>1, <1>2 DEF Setup!OwnedManifests, Setup!Merged
<1>4. /\ Setup!OwnedCerts(run.cert) \subseteq Setup!Certs
      /\ run.cert \in Setup!OwnedCerts(run.cert)
      /\ \A r \in Setup!Known : r.certs \subseteq Setup!OwnedCerts(run.cert)
  BY <1>1, <1>2 DEF Setup!OwnedCerts, Setup!Merged
<1>5. Setup!Record \in Setup!Records
  BY <1>1, <1>3, <1>4 DEF Setup!Record, Setup!Records
<1> QED BY <1>3, <1>4, <1>5, RecordsAre DEF Setup!Record, Setup!Whole

-----------------------------------------------------------------------------
(* The setup program: steps that change neither records nor trust.         *)

\* What is said of the records holds while they are left alone.
LEMMA RecordsKept ==
    ASSUME UNCHANGED <<receipt, transaction>>
    PROVE  /\ Setup!Known' = Setup!Known /\ (Setup!HasRecord' <=> Setup!HasRecord)
           /\ Setup!StaleCerts' = Setup!StaleCerts
           /\ UNCHANGED anchors => (Setup!AnchorsAreRecorded' <=> Setup!AnchorsAreRecorded)
           /\ (\A r \in Setup!Known : Setup!Whole(r)) => \A r \in Setup!Known' : Setup!Whole(r)'
BY DEF Setup!Known, Setup!HasRecord, Setup!StaleCerts, Setup!AnchorsAreRecorded, Setup!Whole

\* Before the first run there is no record and nothing is trusted.
LEMMA SetupInit == ASSUME Setup!Init PROVE SetupInv
<1>1. /\ root = FALSE /\ host = NONE /\ licences = FALSE /\ master = NONE
      /\ registered \in [Browsers -> {NONE, FOREIGN} \cup CANONICAL] /\ loaders \in BOOLEAN
      /\ ca = Setup!NoCa /\ generated = 0
      /\ anchors = [s \in Stores |-> [c \in Setup!Certs |-> NONE]]
      /\ receipt = Setup!NoRecord /\ transaction = Setup!NoRecord
      /\ run = Setup!Idle /\ outcome = "none"
  BY DEF Setup!Init
<1>2. Setup!Known = {} /\ ~Setup!HasRecord
  BY <1>1 DEF Setup!Known, Setup!HasRecord
<1>3. run \in RunState /\ run.at = "idle"
  BY <1>1 DEF Setup!Idle, RunState, Setup!Phases
<1>4. registered \in [Browsers -> Manifests \cup {NONE, FOREIGN}]
  BY <1>1, MarkersAre
<1>5. SetupTyped
  <2>1. anchors \in [Stores -> [Setup!Certs -> Setup!Certs \cup {NONE, FOREIGN}]]
    BY <1>1
  <2>2. \A s \in Stores, c \in Setup!Certs : anchors[s][c] \in {NONE, FOREIGN, c}
    BY <1>1
  <2>3. ca \in [cert : Setup!Certs \cup {0}, marked : BOOLEAN] /\ generated \in 0 .. MaxCa
    BY <1>1, CertsAreNat DEF Setup!NoCa
  <2> QED BY <1>1, <1>2, <1>3, <1>4, <2>1, <2>2, <2>3 DEF SetupTyped, RecordState
<1>6. Setup!AnchorsAreRecorded
  BY <1>1, MarkersAre DEF Setup!AnchorsAreRecorded
<1> QED
  BY <1>2, <1>3, <1>5, <1>6 DEF SetupInv, OneStore, Recorded, Rooted, Cleared, Removed,
     Announced, Chosen, Installing, Clearing

\* While the files of the host are written nothing else is.
LEMMA FilesKeep ==
    ASSUME SetupInv, Setup!WriteHost \/ Setup!WriteLicences \/ Setup!WriteManifest
    PROVE  SetupInv'
<1>1. SetupTyped /\ OneStore /\ Recorded /\ Rooted /\ Cleared /\ Removed
  BY DEF SetupInv
<1>2. /\ UNCHANGED <<registered, ca, generated, loaders, anchors, receipt, transaction>>
      /\ run.at \in {"host", "licences", "manifest"}
      /\ root' \in BOOLEAN /\ (root \/ run.at = "host" => root')
  BY <1>1
     DEF Setup!WriteHost, Setup!WriteLicences, Setup!WriteManifest, Setup!At, Setup!records,
         SetupTyped
<1>3. /\ Setup!Known' = Setup!Known /\ (Setup!HasRecord' <=> Setup!HasRecord)
      /\ Setup!StaleCerts' = Setup!StaleCerts /\ Setup!AnchorsAreRecorded'
      /\ \A r \in Setup!Known' : Setup!Whole(r)'
  BY <1>1, <1>2, RecordsKept DEF SetupTyped, Recorded
<1>4. /\ SameRun /\ outcome' = outcome
      /\ run'.at \in {"licences", "manifest", "register"}
  <2>1. CASE Setup!WriteHost
    BY <1>1, <2>1, RunGoesTo DEF Setup!WriteHost, Setup!Phases
  <2>2. CASE Setup!WriteLicences
    BY <1>1, <2>2, RunGoesTo DEF Setup!WriteLicences, Setup!Phases
  <2>3. CASE Setup!WriteManifest
    BY <1>1, <2>3, RunGoesToAll, RunFields DEF Setup!WriteManifest, Setup!Phases
  <2> QED BY <2>1, <2>2, <2>3
<1>5. /\ run.manifest \in Manifests /\ run.host \in Payloads
  BY <1>1, <1>2 DEF OneStore, Installing
<1>6. host' \in Payloads \cup {NONE} /\ licences' \in BOOLEAN /\ master' \in Manifests \cup {NONE}
  BY <1>1, <1>5 DEF Setup!WriteHost, Setup!WriteLicences, Setup!WriteManifest, SetupTyped
<1>7. SetupTyped'
  BY <1>1, <1>2, <1>3, <1>4, <1>6 DEF SetupTyped, SameRun
<1>8. OneStore' /\ Recorded' /\ Cleared' /\ Removed'
  BY <1>1, <1>3, <1>4, <1>5 DEF OneStore, Recorded, Cleared, Removed, SameRun, Announced, Chosen,
     Installing, Clearing
<1>9. Rooted'
  BY <1>1, <1>2, <1>3, <1>4 DEF Rooted, Installing
<1> QED BY <1>7, <1>8, <1>9 DEF SetupInv

\* A run that ends, and whoever acts between two runs, only has to keep records
\* and trust together.
LEMMA IdleKeeps ==
    ASSUME SetupTyped', run'.at = "idle", Setup!AnchorsAreRecorded', Setup!HasRecord' => root',
           \A r, t \in Setup!Known' : r.store = t.store
    PROVE  SetupInv'
BY
   DEF SetupInv, OneStore, Recorded, Rooted, Cleared, Removed, Announced, Chosen, Installing, Clearing

\* A run that ends, or is killed, leaves what it has written.
LEMMA StopsKeep ==
    ASSUME SetupInv, Setup!Break \/ Setup!Finish \/ \E b \in Browsers : Setup!Refuse(b)
    PROVE  SetupInv'
<1>1. SetupTyped /\ OneStore /\ Recorded /\ Rooted
  BY DEF SetupInv
<1>2. /\ UNCHANGED <<root, host, licences, master, registered, loaders, ca, generated, anchors,
                    receipt, transaction>>
      /\ run' \in RunState /\ run'.at = "idle"
      /\ outcome' \in {"installed", "refused", "failed"}
  BY RunStops DEF Setup!Break, Setup!Finish, Setup!Refuse, Setup!files, Setup!records
<1>3. /\ Setup!Known' = Setup!Known /\ (Setup!HasRecord' <=> Setup!HasRecord)
      /\ Setup!AnchorsAreRecorded' /\ \A r \in Setup!Known' : Setup!Whole(r)'
  BY <1>1, <1>2, RecordsKept DEF SetupTyped, Recorded
<1>4. SetupTyped'
  BY <1>1, <1>2, <1>3 DEF SetupTyped
<1> QED BY <1>1, <1>2, <1>3, <1>4, IdleKeeps DEF OneStore, Rooted

\* Others change a registration, take a free nickname, or renew the authority.
LEMMA OthersKeepSetup ==
    ASSUME SetupInv,
           \/ \E b \in Browsers, r \in {FOREIGN, NONE} : Setup!Meddle(b, r)
           \/ \E s \in Stores, c \in Setup!Certs : Setup!Squat(s, c)
           \/ Setup!Renew
    PROVE  SetupInv'
<1>1. SetupTyped /\ OneStore /\ Recorded /\ Rooted
  BY DEF SetupInv
<1>2. /\ UNCHANGED <<root, host, licences, master, loaders, receipt, transaction, run, outcome>>
      /\ run.at = "idle"
  BY DEF Setup!Meddle, Setup!Squat, Setup!Renew, Setup!files, Setup!records, Setup!At
<1>3. /\ Setup!Known' = Setup!Known /\ (Setup!HasRecord' <=> Setup!HasRecord)
      /\ \A r \in Setup!Known' : Setup!Whole(r)'
  BY <1>1, <1>2, RecordsKept DEF SetupTyped
<1>4. /\ registered' \in [Browsers -> Manifests \cup {NONE, FOREIGN}]
      /\ ca' \in [cert : Setup!Certs \cup {0}, marked : BOOLEAN] /\ generated' \in 0 .. MaxCa
  <2>1. CASE \E b \in Browsers, r \in {FOREIGN, NONE} : Setup!Meddle(b, r)
    BY <1>1, <2>1 DEF Setup!Meddle, SetupTyped
  <2>2. CASE \E s \in Stores, c \in Setup!Certs : Setup!Squat(s, c)
    BY <1>1, <2>2 DEF Setup!Squat, SetupTyped
  <2>3. CASE Setup!Renew
    <3>1. generated' = generated + 1 /\ generated < MaxCa /\ registered' = registered
          /\ ca' = [cert |-> generated', marked |-> FALSE]
      BY <2>3 DEF Setup!Renew
    <3>2. generated' \in Setup!Certs /\ generated' \in 0 .. MaxCa
      BY <1>1, <3>1, CertsAreNat DEF SetupTyped, Setup!Certs
    <3> QED BY <1>1, <3>1, <3>2 DEF SetupTyped
  <2> QED BY <2>1, <2>2, <2>3
<1>5. /\ anchors' \in [Stores -> [Setup!Certs -> Setup!Certs \cup {NONE, FOREIGN}]]
      /\ \A s \in Stores, c \in Setup!Certs :
            anchors'[s][c] \in {NONE, FOREIGN, c} /\ (anchors'[s][c] = c => anchors[s][c] = c)
  <2>1. CASE UNCHANGED anchors
    BY <1>1, <2>1 DEF SetupTyped
  <2>2. CASE \E s \in Stores, c \in Setup!Certs : Setup!Squat(s, c)
    BY <1>1, <2>2, MarkersAre DEF Setup!Squat, SetupTyped
  <2> QED BY <2>1, <2>2 DEF Setup!Meddle, Setup!Renew
<1>6. SetupTyped'
  BY <1>1, <1>2, <1>3, <1>4, <1>5 DEF SetupTyped
<1>7. Setup!AnchorsAreRecorded'
  BY <1>1, <1>3, <1>5 DEF Recorded, Setup!AnchorsAreRecorded
<1> QED BY <1>1, <1>2, <1>3, <1>6, <1>7, IdleKeeps DEF OneStore, Rooted

\* A new run begins with what it was asked for.
LEMMA BeginsKeep ==
    ASSUME SetupInv,
           \/ \E m \in Manifests, bs \in SUBSET Browsers, p \in Payloads : Setup!Apply(m, bs, p)
           \/ Setup!Uninstall
    PROVE  SetupInv'
<1>1. SetupTyped /\ OneStore /\ Recorded /\ Rooted
  BY DEF SetupInv
<1>2. /\ UNCHANGED <<root, host, licences, master, registered, loaders, ca, generated, anchors,
                    receipt, transaction>>
      /\ outcome' = "none"
  BY DEF Setup!Apply, Setup!Uninstall, Setup!files, Setup!records
<1>3. /\ Setup!Known' = Setup!Known /\ (Setup!HasRecord' <=> Setup!HasRecord)
      /\ Setup!AnchorsAreRecorded' /\ \A r \in Setup!Known' : Setup!Whole(r)'
  BY <1>1, <1>2, RecordsKept DEF SetupTyped, Recorded
<1>4. CASE \E m \in Manifests, bs \in SUBSET Browsers, p \in Payloads : Setup!Apply(m, bs, p)
  <2>1. PICK m \in Manifests, bs \in SUBSET Browsers, p \in Payloads :
           run' = [Setup!Idle EXCEPT !.at = "host", !.manifest = m, !.browsers = bs, !.host = p]
    BY <1>4 DEF Setup!Apply
  <2>2. run' \in RunState /\ run'.at = "host" /\ run'.manifest = m /\ run'.host = p
    BY <2>1 DEF Setup!Idle, RunState, Setup!Phases
  <2>3. SetupTyped'
    BY <1>1, <1>2, <1>3, <2>2 DEF SetupTyped
  <2> QED BY <1>1, <1>2, <1>3, <2>2, <2>3
     DEF SetupInv, OneStore, Recorded, Rooted, Cleared, Removed,
     Announced, Chosen, Installing, Clearing
<1>5. CASE Setup!Uninstall
  <2>1. run' = [Setup!Idle EXCEPT !.at = "remove", !.todo = Browsers, !.manifests = Setup!Collected]
    BY <1>5 DEF Setup!Uninstall
  <2>2. Setup!Collected \subseteq Manifests
    <3>1. \A r \in Setup!Known : r.manifests \subseteq Manifests
      BY <1>1, KnownAre, RecordsAre
    <3>2. master \in Manifests \cup {NONE}
      BY <1>1 DEF SetupTyped
    <3> QED BY <3>1, <3>2 DEF Setup!Collected
  <2>3. run' \in RunState /\ run'.at = "remove" /\ run'.todo = Browsers
    BY <2>1, <2>2 DEF Setup!Idle, RunState, Setup!Phases
  <2>4. SetupTyped'
    BY <1>1, <1>2, <1>3, <2>3 DEF SetupTyped
  <2> QED BY <1>1, <1>2, <1>3, <2>3, <2>4
     DEF SetupInv, OneStore, Recorded, Rooted, Cleared, Removed,
     Announced, Chosen, Installing, Clearing
<1> QED BY <1>4, <1>5

-----------------------------------------------------------------------------
(* The setup program: an installation.                                     *)

\* A registration is written over what this product owns only.
LEMMA RegisterKeeps ==
    ASSUME SetupInv, NEW b \in Browsers, Setup!Register(b) PROVE SetupInv'
<1>1. SetupTyped /\ OneStore /\ Recorded /\ Rooted
  BY DEF SetupInv
<1>2. /\ UNCHANGED <<root, host, licences, master, loaders, ca, generated, anchors, receipt,
                    transaction>>
      /\ registered' = [registered EXCEPT ![b] = run.manifest] /\ run.at = "register"
  BY DEF Setup!Register, Setup!files, Setup!records, Setup!At
<1>3. /\ Setup!Known' = Setup!Known /\ (Setup!HasRecord' <=> Setup!HasRecord)
      /\ Setup!AnchorsAreRecorded' /\ \A r \in Setup!Known' : Setup!Whole(r)'
  BY <1>1, <1>2, RecordsKept DEF SetupTyped, Recorded
<1>4. SameRun /\ run'.at = "register" /\ outcome' = outcome
  BY <1>1, <1>2, RunHandles DEF Setup!Register
<1>5. run.manifest \in Manifests /\ run.host \in Payloads
  BY <1>1, <1>2 DEF OneStore, Installing
<1>6. SetupTyped'
  BY <1>1, <1>2, <1>3, <1>4, <1>5 DEF SetupTyped, SameRun
<1> QED
  BY <1>1, <1>2, <1>3, <1>4, <1>5, <1>6 DEF SetupInv, OneStore, Recorded, Rooted, Cleared, Removed,
     SameRun, Announced, Chosen, Installing, Clearing

\* The store of a run is that of the records there are.
LEMMA ChosenIsKnown ==
    ASSUME SetupInv, NEW s \in Setup!ChosenStores
    PROVE  s \in Stores /\ \A r \in Setup!Known : r.store = s
<1>1. SetupTyped /\ OneStore
  BY DEF SetupInv
<1>2. CASE ~Setup!HasRecord
  BY <1>1, <1>2, KnownAre DEF Setup!ChosenStores
<1>3. CASE Setup!HasRecord
  <2>1. PICK t \in Setup!Known : s = t.store
    BY <1>1, <1>3, KnownAre DEF Setup!ChosenStores, Setup!HasRecord
  <2>2. t.store \in Stores
    BY <1>1, KnownAre, RecordsAre
  <2> QED BY <1>1, <2>1, <2>2 DEF OneStore
<1> QED BY <1>2, <1>3

\* The run takes the host's certificate and the trust store of the records.
LEMMA ReadAuthorityKeeps == ASSUME SetupInv, Setup!ReadAuthority PROVE SetupInv'
<1>1. SetupTyped /\ OneStore /\ Recorded /\ Rooted
  BY DEF SetupInv
<1>2. PICK s \in Setup!ChosenStores :
         run' = [run EXCEPT !.at = "transaction", !.cert = ca'.cert, !.store = s]
  BY DEF Setup!ReadAuthority
<1>3. /\ UNCHANGED <<root, host, licences, master, registered, loaders, anchors, receipt,
                    transaction, outcome>>
      /\ run.at = "register" /\ (ca.cert # 0 \/ generated < MaxCa)
      /\ ca' = IF ca.cert # 0 THEN ca ELSE [cert |-> generated + 1, marked |-> FALSE]
      /\ generated' = IF ca.cert # 0 THEN generated ELSE generated + 1
  BY DEF Setup!ReadAuthority, Setup!Authority, Setup!files, Setup!records, Setup!At
<1>4. /\ Setup!Known' = Setup!Known /\ (Setup!HasRecord' <=> Setup!HasRecord)
      /\ Setup!AnchorsAreRecorded' /\ \A r \in Setup!Known' : Setup!Whole(r)'
  BY <1>1, <1>3, RecordsKept DEF SetupTyped, Recorded
<1>5. /\ ca' \in [cert : Setup!Certs \cup {0}, marked : BOOLEAN] /\ ca'.cert \in Setup!Certs
      /\ generated' \in 0 .. MaxCa
  <2>1. CASE ca.cert # 0
    BY <1>1, <1>3, <2>1 DEF SetupTyped
  <2>2. CASE ca.cert = 0
    <3>1. generated + 1 \in Setup!Certs /\ generated + 1 \in 0 .. MaxCa
      BY <1>1, <1>3, <2>2, CertsAreNat DEF SetupTyped, Setup!Certs
    <3> QED BY <1>3, <2>2, <3>1
  <2> QED BY <2>1, <2>2
<1>6. s \in Stores /\ \A r \in Setup!Known : r.store = s
  BY ChosenIsKnown
<1>7. run.manifest \in Manifests /\ run.host \in Payloads
  BY <1>1, <1>3 DEF OneStore, Installing
<1>8. /\ run' \in RunState /\ run'.at = "transaction" /\ run'.cert \in Setup!Certs
      /\ run'.store = s /\ run'.manifest = run.manifest /\ run'.host = run.host
  BY <1>1, <1>2, <1>5, <1>6 DEF SetupTyped, RunState, Setup!Phases
<1>9. SetupTyped'
  BY <1>1, <1>3, <1>4, <1>5, <1>8 DEF SetupTyped
<1> QED
  BY <1>1, <1>3, <1>4, <1>6, <1>7, <1>8, <1>9
     DEF SetupInv, OneStore, Recorded, Rooted, Cleared, Removed,
     Announced, Chosen, Installing, Clearing

\* A record is replaced by one that names as much.
LEMMA WriteTransactionKeeps == ASSUME SetupInv, Setup!WriteTransaction PROVE SetupInv'
<1>1. SetupTyped /\ OneStore /\ Recorded /\ Rooted
  BY DEF SetupInv
<1>2. /\ UNCHANGED <<root, host, licences, master, registered, loaders, ca, generated, anchors,
                    receipt>>
      /\ run.at = "transaction" /\ transaction' = Setup!Record
  BY DEF Setup!WriteTransaction, Setup!files, Setup!At
<1>3. SameRun /\ run'.at = "snapshot" /\ outcome' = outcome
  BY <1>1, RunGoesTo DEF Setup!WriteTransaction, Setup!Phases
<1>4. /\ Setup!Record \in Setup!Records /\ Setup!Whole(Setup!Record)
      /\ Setup!Record # Setup!NoRecord /\ Setup!Record.store = run.store
      /\ run.cert \in Setup!Record.certs
      /\ \A r \in Setup!Known : r.certs \subseteq Setup!Record.certs
  BY <1>1, <1>2, RecordIs DEF Chosen
<1> DEFINE new == Setup!Record
<1> HIDE DEF new
<1>5. /\ new \in Setup!Known' /\ \A r \in Setup!Known' : r = new \/ r \in Setup!Known
  BY <1>2, <1>4 DEF Setup!Known, new
<1>6. /\ run.manifest \in Manifests /\ run.host \in Payloads /\ run.cert \in Setup!Certs
      /\ run.store \in Stores /\ \A r \in Setup!Known : r.store = run.store
  BY <1>1, <1>2 DEF OneStore, Installing, Chosen
<1>7. SetupTyped'
  <2>1. \A r \in Setup!Known' : Setup!Whole(r)'
    BY <1>1, <1>4, <1>5 DEF SetupTyped, Setup!Whole, new
  <2> QED BY <1>1, <1>2, <1>3, <1>4, <2>1 DEF SetupTyped, RecordState, SameRun
<1>8. Setup!AnchorsAreRecorded'
  <2> SUFFICES ASSUME NEW s \in Stores, NEW c \in Setup!Certs, anchors[s][c] = c
               PROVE  new.store = s /\ c \in new.certs
    BY <1>2, <1>5 DEF Setup!AnchorsAreRecorded
  <2> QED BY <1>1, <1>4, <1>6 DEF Recorded, Setup!AnchorsAreRecorded, new
<1>9. OneStore'
  BY <1>3, <1>4, <1>5, <1>6 DEF OneStore, SameRun, Installing, Chosen, Announced, new
<1>10. Recorded'
  BY <1>2, <1>3, <1>4, <1>8 DEF Recorded, SameRun, Announced, Clearing
<1>11. Rooted'
  BY <1>1, <1>2, <1>3 DEF Rooted, Installing, Chosen
<1> QED
  BY <1>3, <1>7, <1>9, <1>10, <1>11 DEF SetupInv, Cleared, Removed, Clearing

\* The receipt takes over what both records named.
LEMMA WriteReceiptKeeps == ASSUME SetupInv, Setup!WriteReceipt PROVE SetupInv'
<1>1. SetupTyped /\ OneStore /\ Recorded /\ Rooted
  BY DEF SetupInv
<1>2. /\ UNCHANGED <<root, host, licences, master, registered, loaders, ca, generated, anchors,
                    transaction>>
      /\ run.at = "receipt" /\ receipt' = Setup!Record
  BY DEF Setup!WriteReceipt, Setup!files, Setup!At
<1>3. SameRun /\ run'.at = "clear" /\ outcome' = outcome
  BY <1>1, RunGoesTo DEF Setup!WriteReceipt, Setup!Phases
<1>4. /\ Setup!Record \in Setup!Records /\ Setup!Whole(Setup!Record)
      /\ Setup!Record # Setup!NoRecord /\ Setup!Record.store = run.store
      /\ \A r \in Setup!Known : r.certs \subseteq Setup!Record.certs
  BY <1>1, <1>2, RecordIs DEF Chosen, Announced
<1> DEFINE new == Setup!Record
<1> HIDE DEF new
<1>5. /\ new \in Setup!Known' /\ \A r \in Setup!Known' : r = new \/ r \in Setup!Known
  BY <1>2, <1>4 DEF Setup!Known, new
<1>6. \A r \in Setup!Known : r.store = run.store
  BY <1>1, <1>2 DEF OneStore, Announced, Chosen
<1>7. SetupTyped'
  <2>1. \A r \in Setup!Known' : Setup!Whole(r)'
    BY <1>1, <1>4, <1>5 DEF SetupTyped, Setup!Whole, new
  <2> QED BY <1>1, <1>2, <1>3, <1>4, <2>1 DEF SetupTyped, RecordState, SameRun
<1>8. Setup!AnchorsAreRecorded'
  <2> SUFFICES ASSUME NEW s \in Stores, NEW c \in Setup!Certs, anchors[s][c] = c
               PROVE  new.store = s /\ c \in new.certs
    BY <1>2, <1>5 DEF Setup!AnchorsAreRecorded
  <2> QED BY <1>1, <1>4, <1>6 DEF Recorded, Setup!AnchorsAreRecorded, new
<1>9. OneStore'
  BY <1>3, <1>4, <1>5, <1>6 DEF OneStore, Installing, Chosen, Announced, new
<1>10. Recorded'
  <2>1. \A r \in Setup!Known' : r.certs \subseteq receipt'.certs
    BY <1>2, <1>4, <1>5 DEF new
  <2> QED BY <1>2, <1>3, <1>4, <1>8, <2>1 DEF Recorded, Announced, Clearing
<1>11. Rooted'
  BY <1>1, <1>2, <1>3 DEF Rooted, Installing, Chosen, Announced
<1> QED
  BY <1>3, <1>7, <1>9, <1>10, <1>11 DEF SetupInv, Cleared, Removed, Clearing

\* The snapshot, the marker and its confirmation change neither records nor trust.
LEMMA QuietKeeps ==
    ASSUME SetupInv, Setup!InstallSnapshot \/ Setup!MarkInstalled \/ Setup!ConfirmMarked
    PROVE  SetupInv'
<1>1. SetupTyped /\ OneStore /\ Recorded /\ Rooted
  BY DEF SetupInv
<1>2. /\ UNCHANGED <<root, host, licences, master, registered, loaders, generated, anchors,
                    receipt, transaction>>
      /\ ca' \in {ca, [ca EXCEPT !.marked = TRUE]}
      /\ run.at \in {"snapshot", "mark", "confirm"}
  BY DEF Setup!InstallSnapshot, Setup!MarkInstalled, Setup!ConfirmMarked, Setup!files,
         Setup!records, Setup!At
<1>3. /\ Setup!Known' = Setup!Known /\ (Setup!HasRecord' <=> Setup!HasRecord)
      /\ Setup!AnchorsAreRecorded' /\ \A r \in Setup!Known' : Setup!Whole(r)'
  BY <1>1, <1>2, RecordsKept DEF SetupTyped, Recorded
<1>4. SameRun /\ run'.at \in {"anchor", "confirm", "receipt"} /\ outcome' = outcome
  BY <1>1, RunGoesTo
     DEF Setup!InstallSnapshot, Setup!MarkInstalled, Setup!ConfirmMarked, Setup!Phases
<1>5. ca' \in [cert : Setup!Certs \cup {0}, marked : BOOLEAN]
  BY <1>1, <1>2 DEF SetupTyped
<1>6. SetupTyped'
  BY <1>1, <1>2, <1>3, <1>4, <1>5 DEF SetupTyped, SameRun
<1> QED
  BY <1>1, <1>2, <1>3, <1>4, <1>6 DEF SetupInv, OneStore, Recorded, Rooted, Cleared, Removed,
     SameRun, Announced, Chosen, Installing, Clearing

\* The nickname is freed of our own certificate only, and then ours, which the
\* transaction names, is put there.
LEMMA TrustKeeps ==
    ASSUME SetupInv, Setup!ReplaceAnchor \/ Setup!InstallAnchor PROVE SetupInv'
<1>1. SetupTyped /\ OneStore /\ Recorded /\ Rooted
  BY DEF SetupInv
<1>2. /\ UNCHANGED <<root, host, licences, master, registered, loaders, ca, generated,
                    receipt, transaction>>
      /\ \/ /\ run.at = "anchor" /\ anchors' = [anchors EXCEPT ![run.store][run.cert] = NONE]
         \/ /\ run.at = "trust" /\ anchors' = [anchors EXCEPT ![run.store][run.cert] = run.cert]
  BY DEF Setup!ReplaceAnchor, Setup!InstallAnchor, Setup!files, Setup!records, Setup!At
<1>3. /\ Setup!Known' = Setup!Known /\ (Setup!HasRecord' <=> Setup!HasRecord)
      /\ \A r \in Setup!Known' : Setup!Whole(r)'
  BY <1>1, <1>2, RecordsKept DEF SetupTyped
<1>4. /\ SameRun /\ outcome' = outcome
      /\ run.at = "anchor" => run'.at = "trust"
      /\ run.at = "trust" => run'.at = "mark"
  BY <1>1, RunGoesTo DEF Setup!ReplaceAnchor, Setup!InstallAnchor, Setup!Phases, Setup!At
<1>5. /\ run.store \in Stores /\ run.cert \in Setup!Certs
      /\ \A r \in Setup!Known : r.store = run.store
      /\ transaction \in Setup!Known /\ run.cert \in transaction.certs
  BY <1>1, <1>2, KnownAre DEF OneStore, Recorded, Chosen, Announced
<1>6. \A s \in Stores, c \in Setup!Certs :
         anchors'[s][c] = IF s = run.store /\ c = run.cert
                          THEN IF run.at = "anchor" THEN NONE ELSE run.cert
                          ELSE anchors[s][c]
  BY <1>1, <1>2, <1>5 DEF SetupTyped
<1>7. SetupTyped'
  <2>1. anchors' \in [Stores -> [Setup!Certs -> Setup!Certs \cup {NONE, FOREIGN}]]
    <3>1. anchors \in [Stores -> [Setup!Certs -> Setup!Certs \cup {NONE, FOREIGN}]]
      BY <1>1 DEF SetupTyped
    <3>2. PICK entry \in {NONE, run.cert} :
             anchors' = [anchors EXCEPT ![run.store][run.cert] = entry]
      BY <1>2
    <3>3. entry \in Setup!Certs \cup {NONE, FOREIGN}
      BY <1>5, <3>2
    <3> QED BY <1>5, <3>1, <3>2, <3>3
  <2>2. \A s \in Stores, c \in Setup!Certs : anchors'[s][c] \in {NONE, FOREIGN, c}
    BY <1>1, <1>6 DEF SetupTyped
  <2> QED BY <1>1, <1>2, <1>3, <1>4, <2>1, <2>2 DEF SetupTyped, SameRun
<1>8. Setup!AnchorsAreRecorded'
  BY <1>1, <1>3, <1>5, <1>6, MarkersAre DEF Recorded, Setup!AnchorsAreRecorded
<1>9. Recorded'
  <2>1. run'.at = "trust" => anchors'[run.store][run.cert] # FOREIGN
    BY <1>2, <1>4, <1>5, <1>6, MarkersAre
  <2> QED BY <1>1, <1>2, <1>4, <1>5, <1>8, <2>1 DEF Recorded, SameRun, Announced, Clearing
<1> QED
  BY <1>1, <1>2, <1>3, <1>4, <1>7, <1>9 DEF SetupInv, OneStore, Rooted, Cleared, Removed,
     SameRun, Announced, Chosen, Installing, Clearing

\* The receipt names all that the transaction did, which may go.
LEMMA ClearTransactionKeeps == ASSUME SetupInv, Setup!ClearTransaction PROVE SetupInv'
<1>1. SetupTyped /\ OneStore /\ Recorded /\ Rooted
  BY DEF SetupInv
<1>2. /\ UNCHANGED <<root, host, licences, master, registered, loaders, ca, generated, anchors,
                    receipt>>
      /\ run.at = "clear" /\ transaction' = Setup!NoRecord
  BY DEF Setup!ClearTransaction, Setup!files, Setup!At
<1>3. /\ receipt # Setup!NoRecord /\ receipt \in Setup!Known
      /\ \A r \in Setup!Known : r.certs \subseteq receipt.certs /\ r.store = receipt.store
  BY <1>1, <1>2, KnownAre DEF Recorded, OneStore
<1>4. Setup!Known' = {receipt}
  BY <1>2, <1>3 DEF Setup!Known
<1>5. /\ SameRun /\ run'.at = "unselected" /\ run'.todo = Browsers \ receipt.browsers
      /\ outcome' = outcome
  BY <1>1, RunGoesToAll DEF Setup!ClearTransaction, Setup!Phases
<1>6. SetupTyped'
  <2>1. \A r \in Setup!Known' : Setup!Whole(r)'
    BY <1>1, <1>3, <1>4 DEF SetupTyped, Setup!Whole
  <2> QED BY <1>1, <1>2, <1>5, <2>1 DEF SetupTyped, RecordState, SameRun
<1>7. Setup!AnchorsAreRecorded'
  <2> SUFFICES ASSUME NEW s \in Stores, NEW c \in Setup!Certs, anchors[s][c] = c
               PROVE  receipt.store = s /\ c \in receipt.certs
    BY <1>2, <1>4 DEF Setup!AnchorsAreRecorded
  <2> QED BY <1>1, <1>3 DEF Recorded, Setup!AnchorsAreRecorded
<1>8. OneStore' /\ Recorded'
  BY <1>2, <1>3, <1>4, <1>5, <1>7 DEF OneStore, Recorded, Announced, Chosen, Installing, Clearing
<1>9. Rooted'
  BY <1>1, <1>2, <1>3, <1>5 DEF Rooted, Setup!HasRecord, Installing, Chosen, Announced
<1>10. Cleared' /\ Removed'
  BY <1>2, <1>5 DEF Cleared, Removed, Clearing
<1> QED BY <1>6, <1>8, <1>9, <1>10 DEF SetupInv

\* What is removed of a registration or of trust.
LEMMA UnregisteredIs ==
    ASSUME SetupTyped, NEW b \in Browsers, NEW owned \in SUBSET Manifests,
           registered' = Setup!Unregistered(b, owned)
    PROVE  /\ registered' \in [Browsers -> Manifests \cup {NONE, FOREIGN}]
           /\ \A a \in Browsers : registered'[a] \in {registered[a], NONE}
           /\ registered'[b] \notin owned
           /\ \A a \in Browsers : registered[a] = FOREIGN => registered'[a] = FOREIGN
BY MarkersAre DEF SetupTyped, Setup!Unregistered

\* Distrusting a certificate removes ours and leaves every other entry.
LEMMA DistrustedIs ==
    ASSUME SetupTyped, NEW s \in Stores, NEW c \in Setup!Certs, anchors' = Setup!Distrusted(s, c)
    PROVE  /\ anchors' \in [Stores -> [Setup!Certs -> Setup!Certs \cup {NONE, FOREIGN}]]
           /\ \A t \in Stores, d \in Setup!Certs :
                 /\ anchors'[t][d] \in {NONE, FOREIGN, d}
                 /\ anchors'[t][d] = d => anchors[t][d] = d
                 /\ anchors[t][d] = FOREIGN => anchors'[t][d] = FOREIGN
           /\ anchors'[s][c] # c
<1>1. /\ anchors \in [Stores -> [Setup!Certs -> Setup!Certs \cup {NONE, FOREIGN}]]
      /\ \A t \in Stores, d \in Setup!Certs : anchors[t][d] \in {NONE, FOREIGN, d}
  BY DEF SetupTyped
<1>2. CASE anchors[s][c] = c
  <2>1. anchors' = [anchors EXCEPT ![s][c] = NONE]
    BY <1>2 DEF Setup!Distrusted
  <2>2. \A t \in Stores, d \in Setup!Certs :
           anchors'[t][d] = IF t = s /\ d = c THEN NONE ELSE anchors[t][d]
    BY <1>1, <2>1
  <2>3. anchors' \in [Stores -> [Setup!Certs -> Setup!Certs \cup {NONE, FOREIGN}]]
    BY <1>1, <2>1
  <2> QED BY <1>1, <1>2, <2>2, <2>3, MarkersAre
<1>3. CASE anchors[s][c] # c
  BY <1>1, <1>3 DEF Setup!Distrusted
<1> QED BY <1>2, <1>3

-----------------------------------------------------------------------------
(* The setup program: what an installation clears away.                    *)

\* Trust that only shrinks stays recorded.
LEMMA TrustShrinks ==
    ASSUME Setup!AnchorsAreRecorded, UNCHANGED <<receipt, transaction>>,
           \A s \in Stores, c \in Setup!Certs : anchors'[s][c] = c => anchors[s][c] = c
    PROVE  Setup!AnchorsAreRecorded'
<1>1. Setup!Known' = Setup!Known
  BY RecordsKept
<1> QED BY <1>1 DEF Setup!AnchorsAreRecorded

\* A browser that is no longer selected loses its registration.
LEMMA UnselectedKeeps ==
    ASSUME SetupInv,
           Setup!UnselectedRemoved \/ \E b \in Browsers : Setup!RemoveUnselected(b)
    PROVE  SetupInv'
<1>1. SetupTyped /\ OneStore /\ Recorded /\ Rooted /\ Cleared
  BY DEF SetupInv
<1>2. /\ UNCHANGED <<root, host, licences, master, loaders, ca, generated, anchors, receipt,
                    transaction>>
      /\ run.at = "unselected"
  BY DEF Setup!UnselectedRemoved, Setup!RemoveUnselected, Setup!files, Setup!records, Setup!At
<1>3. /\ Setup!Known' = Setup!Known /\ (Setup!HasRecord' <=> Setup!HasRecord)
      /\ Setup!StaleCerts' = Setup!StaleCerts
      /\ Setup!AnchorsAreRecorded' /\ \A r \in Setup!Known' : Setup!Whole(r)'
  BY <1>1, <1>2, RecordsKept DEF SetupTyped, Recorded
<1>4. receipt \in Setup!Records /\ receipt.manifests \subseteq Manifests
      /\ Setup!StaleCerts \subseteq Setup!Certs
  <2>1. receipt \in Setup!Records
    BY <1>1, <1>2, KnownAre DEF Recorded, Clearing
  <2> QED BY <2>1, RecordsAre DEF Setup!StaleCerts
<1>5. CASE Setup!UnselectedRemoved
  <2>1. /\ SameRun /\ run'.at = "stale" /\ run'.todo = Setup!StaleCerts /\ outcome' = outcome
        /\ registered' = registered /\ run.todo = {}
    BY <1>1, <1>4, <1>5, RunGoesToAll DEF Setup!UnselectedRemoved, Setup!Phases
  <2>2. SetupTyped'
    BY <1>1, <1>2, <1>3, <2>1 DEF SetupTyped, SameRun
  <2> QED BY <1>1, <1>2, <1>3, <2>1, <2>2
     DEF SetupInv, OneStore, Recorded, Rooted, Cleared, Removed,
     Announced, Chosen, Installing, Clearing
<1>6. ASSUME NEW b \in Browsers, Setup!RemoveUnselected(b) PROVE SetupInv'
  <2>1. /\ SameRun /\ run'.at = "unselected" /\ run'.todo = run.todo \ {b} /\ outcome' = outcome
    BY <1>1, <1>2, <1>6, RunHandles DEF Setup!RemoveUnselected
  <2>2. registered' = Setup!Unregistered(b, receipt.manifests)
    BY <1>6 DEF Setup!RemoveUnselected
  <2>3. /\ registered' \in [Browsers -> Manifests \cup {NONE, FOREIGN}]
        /\ \A a \in Browsers : registered'[a] \in {registered[a], NONE}
        /\ registered'[b] \notin receipt.manifests
    BY <1>1, <1>4, <2>2, UnregisteredIs
  <2>4. SetupTyped'
    BY <1>1, <1>2, <1>3, <2>1, <2>3 DEF SetupTyped, SameRun
  <2>5. Cleared'
    <3> SUFFICES ASSUME NEW a \in Browsers \ receipt.browsers, a \notin run'.todo
                 PROVE  registered'[a] \notin receipt.manifests
      BY <1>2, <2>1 DEF Cleared
    <3>1. a = b \/ registered[a] \notin receipt.manifests
      BY <1>1, <1>2, <2>1 DEF Cleared, Clearing
    <3> QED BY <1>4, <2>3, <3>1, MarkersAre
  <2> QED BY <1>1, <1>2, <1>3, <2>1, <2>4, <2>5 DEF SetupInv, OneStore, Recorded, Rooted, Removed,
     Announced, Chosen, Installing, Clearing
<1> QED BY <1>5, <1>6

\* A certificate that is no longer the host's is distrusted.
LEMMA StaleKeeps ==
    ASSUME SetupInv, Setup!StaleRemoved \/ \E c \in Setup!Certs : Setup!RemoveStale(c)
    PROVE  SetupInv'
<1>1. SetupTyped /\ OneStore /\ Recorded /\ Rooted /\ Cleared
  BY DEF SetupInv
<1>2. /\ UNCHANGED <<root, host, licences, master, registered, ca, generated, receipt,
                    transaction>>
      /\ run.at = "stale"
  BY DEF Setup!StaleRemoved, Setup!RemoveStale, Setup!files, Setup!records, Setup!At
<1>3. /\ Setup!Known' = Setup!Known /\ (Setup!HasRecord' <=> Setup!HasRecord)
      /\ Setup!StaleCerts' = Setup!StaleCerts
      /\ \A r \in Setup!Known' : Setup!Whole(r)'
  BY <1>1, <1>2, RecordsKept DEF SetupTyped
<1>4. /\ receipt \in Setup!Records /\ receipt.store \in Stores
      /\ Setup!StaleCerts \subseteq Setup!Certs
  <2>1. receipt \in Setup!Records
    BY <1>1, <1>2, KnownAre DEF Recorded, Clearing
  <2> QED BY <2>1, RecordsAre DEF Setup!StaleCerts
<1>5. CASE Setup!StaleRemoved
  <2>1. /\ SameRun /\ run'.at = "inspect" /\ outcome' = outcome
        /\ anchors' = anchors /\ loaders' = FALSE /\ run.todo = {}
    BY <1>1, <1>5, RunGoesTo DEF Setup!StaleRemoved, Setup!LoadersAfter, Setup!Phases
  <2>2. SetupTyped' /\ Setup!AnchorsAreRecorded'
    BY <1>1, <1>2, <1>3, <2>1, RecordsKept DEF SetupTyped, SameRun, Recorded
  <2> QED BY <1>1, <1>2, <1>3, <2>1, <2>2
     DEF SetupInv, OneStore, Recorded, Rooted, Cleared, Removed,
     Announced, Chosen, Installing, Clearing
<1>6. ASSUME NEW c \in Setup!Certs, Setup!RemoveStale(c) PROVE SetupInv'
  <2>1. /\ SameRun /\ run'.at = "stale" /\ run'.todo = run.todo \ {c} /\ outcome' = outcome
        /\ loaders' = loaders /\ anchors' = Setup!Distrusted(receipt.store, c)
    BY <1>1, <1>2, <1>6, RunHandles DEF Setup!RemoveStale
  <2>2. /\ anchors' \in [Stores -> [Setup!Certs -> Setup!Certs \cup {NONE, FOREIGN}]]
        /\ \A t \in Stores, d \in Setup!Certs :
              anchors'[t][d] \in {NONE, FOREIGN, d} /\ (anchors'[t][d] = d => anchors[t][d] = d)
        /\ anchors'[receipt.store][c] # c
    BY <1>1, <1>4, <2>1, DistrustedIs
  <2>3. SetupTyped' /\ Setup!AnchorsAreRecorded'
    BY <1>1, <1>2, <1>3, <2>1, <2>2, TrustShrinks DEF SetupTyped, SameRun, Recorded
  <2>4. Cleared'
    <3>1. ASSUME NEW d \in Setup!StaleCerts, d \notin run'.todo
          PROVE  anchors'[receipt.store][d] # d
      BY <1>1, <1>2, <1>4, <2>1, <2>2, <3>1 DEF Cleared
    <3> QED BY <1>1, <1>2, <1>3, <2>1, <3>1 DEF Cleared, Clearing
  <2> QED BY <1>1, <1>2, <1>3, <2>1, <2>3, <2>4 DEF SetupInv, OneStore, Recorded, Rooted, Removed,
     Announced, Chosen, Installing, Clearing
<1> QED BY <1>5, <1>6

-----------------------------------------------------------------------------
(* The setup program: a removal.                                           *)

\* A browser handled by a removal holds nothing the run collected.
LEMMA RemovalKeeps ==
    ASSUME SetupInv,
           Setup!RegistrationsRemoved \/ \E b \in Browsers : Setup!RemoveRegistration(b)
    PROVE  SetupInv'
<1>1. SetupTyped /\ OneStore /\ Recorded /\ Rooted /\ Removed
  BY DEF SetupInv
<1>2. /\ UNCHANGED <<root, host, licences, master, ca, generated, anchors, receipt, transaction>>
      /\ run.at = "remove"
  BY DEF Setup!RegistrationsRemoved, Setup!RemoveRegistration, Setup!files, Setup!records, Setup!At
<1>3. /\ Setup!Known' = Setup!Known /\ (Setup!HasRecord' <=> Setup!HasRecord)
      /\ Setup!AnchorsAreRecorded' /\ \A r \in Setup!Known' : Setup!Whole(r)'
  BY <1>1, <1>2, RecordsKept DEF SetupTyped, Recorded
<1>4. CASE Setup!RegistrationsRemoved /\ Setup!Stop("kept")
  <2>1. /\ run' \in RunState /\ run'.at = "idle" /\ outcome' = "kept"
        /\ registered' = registered /\ loaders' = FALSE
    BY <1>4, RunStops DEF Setup!RegistrationsRemoved, Setup!LoadersAfter
  <2>2. SetupTyped'
    BY <1>1, <1>2, <1>3, <2>1 DEF SetupTyped
  <2> QED BY <1>1, <1>2, <1>3, <2>1, <2>2, IdleKeeps DEF OneStore, Rooted
<1>5. CASE Setup!RegistrationsRemoved /\ Setup!To("unmark")
  <2>1. /\ SameRun /\ run'.at = "unmark" /\ outcome' = outcome
        /\ registered' = registered /\ loaders' = FALSE /\ run.todo = {}
    BY <1>1, <1>5, RunGoesTo DEF Setup!RegistrationsRemoved, Setup!LoadersAfter, Setup!Phases
  <2>2. SetupTyped'
    BY <1>1, <1>2, <1>3, <2>1 DEF SetupTyped, SameRun
  <2> QED BY <1>1, <1>2, <1>3, <2>1, <2>2
     DEF SetupInv, OneStore, Recorded, Rooted, Cleared, Removed,
     SameRun, Announced, Chosen, Installing, Clearing
<1>6. ASSUME NEW b \in Browsers, Setup!RemoveRegistration(b) PROVE SetupInv'
  <2>1. /\ SameRun /\ run'.at = "remove" /\ run'.todo = run.todo \ {b} /\ outcome' = outcome
        /\ loaders' = loaders /\ registered' = Setup!Unregistered(b, run.manifests)
    BY <1>1, <1>2, <1>6, RunHandles DEF Setup!RemoveRegistration
  <2>2. run.manifests \subseteq Manifests
    BY <1>1, RunFields
  <2>3. /\ registered' \in [Browsers -> Manifests \cup {NONE, FOREIGN}]
        /\ \A a \in Browsers : registered'[a] \in {registered[a], NONE}
        /\ registered'[b] \notin run.manifests
    BY <1>1, <2>1, <2>2, UnregisteredIs
  <2>4. SetupTyped'
    BY <1>1, <1>2, <1>3, <2>1, <2>3 DEF SetupTyped, SameRun
  <2>5. \A a \in Browsers : a \in run'.todo \/ registered'[a] \notin run'.manifests
    BY <1>1, <1>2, <2>1, <2>2, <2>3, MarkersAre DEF Removed, SameRun
  <2> QED BY <1>1, <1>2, <1>3, <2>1, <2>4, <2>5
     DEF SetupInv, OneStore, Recorded, Rooted, Cleared, Removed,
     Announced, Chosen, Installing, Clearing
<1> QED BY <1>4, <1>5, <1>6 DEF Setup!RegistrationsRemoved

\* Whatever is trusted is recorded, so what is to be distrusted is all there is.
LEMMA ClearMarkKeeps == ASSUME SetupInv, Setup!ClearMark PROVE SetupInv'
<1>1. SetupTyped /\ OneStore /\ Recorded /\ Rooted /\ Cleared /\ Removed
  BY DEF SetupInv
<1>2. /\ UNCHANGED <<root, host, licences, master, registered, loaders, generated, anchors,
                    receipt, transaction>>
      /\ run.at = "unmark"
  BY DEF Setup!ClearMark, Setup!files, Setup!records, Setup!At
<1>3. /\ Setup!Known' = Setup!Known /\ (Setup!HasRecord' <=> Setup!HasRecord)
      /\ Setup!AnchorsAreRecorded' /\ \A r \in Setup!Known' : Setup!Whole(r)'
  BY <1>1, <1>2, RecordsKept DEF SetupTyped, Recorded
<1>4. /\ Setup!RecordedCerts \subseteq Setup!Certs
      /\ \A r \in Setup!Known : r.certs \subseteq Setup!RecordedCerts
  <2>1. \A r \in Setup!Known : r.certs \subseteq Setup!Certs
    BY <1>1, KnownAre, RecordsAre
  <2> QED BY <2>1 DEF Setup!RecordedCerts
<1>5. PICK todo \in SUBSET Setup!Certs :
         /\ Setup!RecordedCerts \subseteq todo /\ Setup!ToAll("distrust", todo)
         /\ ca' \in {ca, [ca EXCEPT !.marked = FALSE]}
  <2>1. CASE Setup!TrustedHost /\ ca.cert # 0
    <3>1. Setup!RecordedCerts \cup {ca.cert} \in SUBSET Setup!Certs
      BY <1>1, <1>4, <2>1 DEF SetupTyped
    <3> QED BY <2>1, <3>1 DEF Setup!ClearMark
  <2>2. CASE ~(Setup!TrustedHost /\ ca.cert # 0)
    BY <1>4, <2>2 DEF Setup!ClearMark
  <2> QED BY <2>1, <2>2
<1>6. SameRun /\ run'.at = "distrust" /\ run'.todo = todo /\ outcome' = outcome
  BY <1>1, <1>5, RunGoesToAll DEF Setup!Phases
<1>7. SetupTyped'
  BY <1>1, <1>2, <1>3, <1>5, <1>6 DEF SetupTyped, SameRun
<1>8. \A s \in Stores, c \in Setup!Certs : anchors'[s][c] = c => c \in run'.todo
  BY <1>1, <1>2, <1>4, <1>5, <1>6 DEF Recorded, Setup!AnchorsAreRecorded
<1> QED
  BY <1>1, <1>2, <1>3, <1>6, <1>7, <1>8 DEF SetupInv, OneStore, Recorded, Rooted, Cleared, Removed,
     SameRun, Announced, Chosen, Installing, Clearing

\* Trust is taken from where the records say it was given.
LEMMA RemoveAnchorKeeps ==
    ASSUME SetupInv, NEW c \in Setup!Certs, Setup!RemoveAnchor(c) PROVE SetupInv'
<1>1. SetupTyped /\ OneStore /\ Recorded /\ Rooted /\ Cleared /\ Removed
  BY DEF SetupInv
<1>2. /\ UNCHANGED <<root, host, licences, master, registered, loaders, ca, generated, receipt,
                    transaction>>
      /\ run.at = "distrust"
  BY DEF Setup!RemoveAnchor, Setup!files, Setup!records, Setup!At
<1>3. /\ Setup!Known' = Setup!Known /\ (Setup!HasRecord' <=> Setup!HasRecord)
      /\ \A r \in Setup!Known' : Setup!Whole(r)'
  BY <1>1, <1>2, RecordsKept DEF SetupTyped
<1>4. SameRun /\ run'.at = "distrust" /\ run'.todo = run.todo \ {c} /\ outcome' = outcome
  BY <1>1, <1>2, RunHandles DEF Setup!RemoveAnchor
<1>5. PICK s \in Setup!ChosenStores : anchors' = Setup!Distrusted(s, c)
  BY DEF Setup!RemoveAnchor
<1>6. s \in Stores /\ \A r \in Setup!Known : r.store = s
  BY ChosenIsKnown
<1>7. /\ anchors' \in [Stores -> [Setup!Certs -> Setup!Certs \cup {NONE, FOREIGN}]]
      /\ \A t \in Stores, d \in Setup!Certs :
            anchors'[t][d] \in {NONE, FOREIGN, d} /\ (anchors'[t][d] = d => anchors[t][d] = d)
      /\ anchors'[s][c] # c
  BY <1>1, <1>5, <1>6, DistrustedIs
<1>8. SetupTyped' /\ Setup!AnchorsAreRecorded'
  BY <1>1, <1>2, <1>3, <1>4, <1>7, TrustShrinks DEF SetupTyped, SameRun, Recorded
<1>9. ASSUME NEW t \in Stores, NEW d \in Setup!Certs, anchors'[t][d] = d PROVE d \in run'.todo
  <2>1. anchors[t][d] = d /\ t = s
    BY <1>1, <1>6, <1>7, <1>9 DEF Recorded, Setup!AnchorsAreRecorded
  <2>2. d \in run.todo /\ d # c
    BY <1>1, <1>2, <1>7, <1>9, <2>1 DEF Removed
  <2> QED BY <1>4, <2>2
<1> QED
  BY <1>1, <1>2, <1>3, <1>4, <1>8, <1>9 DEF SetupInv, OneStore, Recorded, Rooted, Cleared, Removed,
     SameRun, Announced, Chosen, Installing, Clearing

\* With nothing left to distrust, nothing of ours is trusted.
LEMMA AnchorsRemovedKeeps == ASSUME SetupInv, Setup!AnchorsRemoved PROVE SetupInv'
<1>1. SetupTyped /\ OneStore /\ Recorded /\ Rooted /\ Cleared /\ Removed
  BY DEF SetupInv
<1>2. /\ UNCHANGED <<root, host, licences, master, registered, loaders, ca, generated, anchors,
                    receipt, transaction>>
      /\ run.at = "distrust" /\ run.todo = {}
  BY DEF Setup!AnchorsRemoved, Setup!files, Setup!records, Setup!At
<1>3. /\ Setup!Known' = Setup!Known /\ (Setup!HasRecord' <=> Setup!HasRecord)
      /\ Setup!AnchorsAreRecorded' /\ \A r \in Setup!Known' : Setup!Whole(r)'
  BY <1>1, <1>2, RecordsKept DEF SetupTyped, Recorded
<1>4. CASE Setup!To("purge")
  <2>1. SameRun /\ run'.at = "purge" /\ outcome' = outcome
    BY <1>1, <1>4, RunGoesTo DEF Setup!Phases
  <2>2. SetupTyped'
    BY <1>1, <1>2, <1>3, <2>1 DEF SetupTyped, SameRun
  <2> QED
    BY <1>1, <1>2, <1>3, <2>1, <2>2 DEF SetupInv, OneStore, Recorded, Rooted, Cleared, Removed,
       SameRun, Announced, Chosen, Installing, Clearing
<1>5. CASE Setup!Stop("uninstalled")
  <2>1. run' \in RunState /\ run'.at = "idle" /\ outcome' = "uninstalled"
    BY <1>5, RunStops
  <2>2. SetupTyped'
    BY <1>1, <1>2, <1>3, <2>1 DEF SetupTyped
  <2> QED BY <1>1, <1>2, <1>3, <2>1, <2>2, IdleKeeps DEF OneStore, Rooted
<1> QED BY <1>4, <1>5 DEF Setup!AnchorsRemoved

\* Records go when nothing is trusted any more.
LEMMA PurgeKeeps == ASSUME SetupInv, Setup!Purge PROVE SetupInv'
<1>1. SetupTyped /\ OneStore /\ Recorded /\ Rooted /\ Cleared /\ Removed
  BY DEF SetupInv
<1>2. /\ UNCHANGED <<root, registered, loaders, generated, anchors, run, outcome>>
      /\ run.at = "purge"
      /\ host' \in {host, NONE} /\ licences' \in BOOLEAN /\ master' \in {master, NONE}
      /\ ca' \in {ca, Setup!NoCa}
      /\ receipt' \in {receipt, Setup!NoRecord} /\ transaction' \in {transaction, Setup!NoRecord}
  BY <1>1 DEF Setup!Purge, Setup!records, Setup!At, SetupTyped
<1>3. /\ Setup!Known' \subseteq Setup!Known /\ (Setup!HasRecord' => Setup!HasRecord)
  BY <1>2 DEF Setup!Known, Setup!HasRecord
<1>4. SetupTyped'
  <2>1. ca' \in [cert : Setup!Certs \cup {0}, marked : BOOLEAN]
    <3>1. Setup!NoCa \in [cert : Setup!Certs \cup {0}, marked : BOOLEAN]
      BY DEF Setup!NoCa
    <3>2. ca \in [cert : Setup!Certs \cup {0}, marked : BOOLEAN]
      BY <1>1 DEF SetupTyped
    <3> QED BY <1>2, <3>1, <3>2
  <2>2. \A r \in Setup!Known' : Setup!Whole(r)'
    BY <1>1, <1>3 DEF SetupTyped, Setup!Whole
  <2> QED BY <1>1, <1>2, <2>1, <2>2 DEF SetupTyped, RecordState
<1>5. \A s \in Stores, c \in Setup!Certs : anchors[s][c] # c
  BY <1>1, <1>2 DEF Removed
<1>6. Setup!AnchorsAreRecorded'
  BY <1>2, <1>5 DEF Setup!AnchorsAreRecorded
<1> QED
  BY <1>1, <1>2, <1>3, <1>4, <1>6 DEF SetupInv, OneStore, Recorded, Rooted, Cleared, Removed,
     Announced, Chosen, Installing, Clearing

\* The install root goes when it is empty, and no record is left.
LEMMA PurgedKeeps == ASSUME SetupInv, Setup!Purged PROVE SetupInv'
<1>1. SetupTyped /\ OneStore /\ Recorded /\ Rooted
  BY DEF SetupInv
<1>2. /\ UNCHANGED <<host, licences, master, registered, loaders, ca, generated, anchors,
                    receipt, transaction>>
      /\ root' = FALSE /\ ~Setup!HasRecord
      /\ run' \in RunState /\ run'.at = "idle" /\ outcome' = "uninstalled"
  BY RunStops DEF Setup!Purged, Setup!records
<1>3. /\ Setup!Known' = Setup!Known /\ (Setup!HasRecord' <=> Setup!HasRecord)
      /\ Setup!AnchorsAreRecorded' /\ \A r \in Setup!Known' : Setup!Whole(r)'
  BY <1>1, <1>2, RecordsKept DEF SetupTyped, Recorded
<1>4. SetupTyped'
  BY <1>1, <1>2, <1>3 DEF SetupTyped
<1> QED BY <1>1, <1>2, <1>3, <1>4, IdleKeeps DEF OneStore
-----------------------------------------------------------------------------
(* The setup program: what it promises.                                    *)

\* One step of setup, or of those around it, keeps the invariant.
LEMMA SetupStep == ASSUME SetupInv, [Setup!Next]_setupVars PROVE SetupInv'
<1>1. CASE UNCHANGED setupVars
  <2>1. UNCHANGED <<root, host, licences, master, registered, loaders, ca, generated, anchors,
                    receipt, transaction, run, outcome>>
    BY <1>1 DEF setupVars
  <2>2. /\ Setup!Known' = Setup!Known /\ (Setup!HasRecord' <=> Setup!HasRecord)
        /\ Setup!StaleCerts' = Setup!StaleCerts
        /\ (Setup!AnchorsAreRecorded' <=> Setup!AnchorsAreRecorded)
        /\ (\A r \in Setup!Known : Setup!Whole(r)) => \A r \in Setup!Known' : Setup!Whole(r)'
    BY <2>1, RecordsKept
  <2> QED
    BY <2>1, <2>2 DEF SetupInv, SetupTyped, OneStore, Recorded, Rooted, Cleared, Removed
<1>2. CASE Setup!Next
  BY <1>2, FilesKeep, StopsKeep, OthersKeepSetup, BeginsKeep, RegisterKeeps, ReadAuthorityKeeps,
     WriteTransactionKeeps, WriteReceiptKeeps, QuietKeeps, TrustKeeps, ClearTransactionKeeps,
     UnselectedKeeps, StaleKeeps, RemovalKeeps, ClearMarkKeeps, RemoveAnchorKeeps,
     AnchorsRemovedKeeps, PurgeKeeps, PurgedKeeps DEF Setup!Next
<1> QED BY <1>1, <1>2

\* Cardinality is the same under either instance.
LEMMA SetupCardinality == \A S : Setup!Cardinality(S) = Cardinality(S)
BY DEF Setup!Cardinality, Cardinality

\* The records there are agree on the trust store.
LEMMA SetupIsTyped == ASSUME SetupInv PROVE Setup!TypeOK
<1> DEFINE named == {r.store : r \in Setup!Known}
<1>1. SetupTyped /\ OneStore
  BY DEF SetupInv
<1>2. \E s : named \subseteq {s}
  <2>1. CASE Setup!Known = {}
    BY <2>1
  <2>2. CASE Setup!Known # {}
    <3>1. PICK r \in Setup!Known : TRUE
      BY <2>2
    <3>2. named \subseteq {r.store}
      BY <1>1 DEF OneStore
    <3> QED BY <3>2
  <2> QED BY <2>1, <2>2
<1>3. Cardinality(named) < 2
  <2>1. PICK s : named \subseteq {s}
    BY <1>2
  <2>2. named = {} \/ named = {s}
    BY <2>1
  <2> HIDE DEF named
  <2>3. Cardinality(named) = 0 \/ Cardinality(named) = 1
    BY <2>2, FS_EmptySet, FS_Singleton
  <2> QED BY <2>3
<1>4. Setup!RecordsAgree
  BY <1>3, SetupCardinality DEF Setup!RecordsAgree
<1> QED BY <1>1, <1>4, KnownAre DEF Setup!TypeOK, SetupTyped, RunState

\* Only the last look at an installation reports it, and it sees what an exact
\* one looks like.
LEMMA InstallationsAreExact == ASSUME SetupInv, Setup!Next PROVE Setup!InstallsExactly
<1> SUFFICES ASSUME outcome' = "installed", outcome # "installed"
             PROVE  /\ {b \in Browsers : registered[b] \in receipt.manifests} = receipt.browsers
                    /\ \A s \in Stores, c \in Setup!Certs :
                          anchors[s][c] = c <=> s = receipt.store /\ c = ca.cert
                    /\ ca.marked /\ host = receipt.host /\ transaction = Setup!NoRecord /\ ~loaders
  BY DEF Setup!InstallsExactly
<1>1. SetupTyped /\ OneStore /\ Recorded /\ Cleared
  BY DEF SetupInv
<1>2. Setup!Finish
  BY DEF Setup!Next, Setup!Apply, Setup!WriteHost, Setup!WriteLicences, Setup!WriteManifest,
         Setup!Register, Setup!Refuse, Setup!ReadAuthority, Setup!WriteTransaction,
         Setup!InstallSnapshot, Setup!ReplaceAnchor, Setup!InstallAnchor, Setup!MarkInstalled,
         Setup!ConfirmMarked, Setup!WriteReceipt, Setup!ClearTransaction, Setup!RemoveUnselected,
         Setup!UnselectedRemoved, Setup!RemoveStale, Setup!StaleRemoved, Setup!Uninstall,
         Setup!RemoveRegistration, Setup!RegistrationsRemoved, Setup!ClearMark,
         Setup!RemoveAnchor, Setup!AnchorsRemoved, Setup!Purge, Setup!Purged, Setup!Break,
         Setup!Meddle, Setup!Squat, Setup!Renew, Setup!To, Setup!ToAll, Setup!Handled, Setup!Stop
<1>3. run.at = "inspect" /\ Setup!Installed
  BY <1>2 DEF Setup!Finish, Setup!At, Setup!Stop
<1>4. /\ receipt # Setup!NoRecord /\ transaction = Setup!NoRecord /\ ~loaders
      /\ host = receipt.host /\ Setup!RegistrationsMatch
      /\ ca = [cert |-> receipt.cert, marked |-> TRUE]
      /\ anchors[receipt.store][receipt.cert] = receipt.cert
  BY <1>1, <1>3 DEF Setup!Installed, Setup!Trusted, Recorded, Cleared, Clearing
<1>5. /\ receipt \in Setup!Records /\ receipt.manifest \in receipt.manifests
      /\ Setup!Known = {receipt}
  BY <1>1, <1>4, KnownAre DEF Setup!Known, Setup!Whole
<1>6. receipt.browsers \subseteq Browsers
  BY <1>5, RecordsAre
<1>7. \A b \in Browsers \ receipt.browsers : registered[b] \notin receipt.manifests
  BY <1>1, <1>3 DEF Cleared, Clearing
<1>8. \A b \in receipt.browsers : registered[b] \in receipt.manifests
  BY <1>4, <1>5 DEF Setup!RegistrationsMatch
<1>9. ASSUME NEW s \in Stores, NEW c \in Setup!Certs, anchors[s][c] = c
      PROVE  s = receipt.store /\ c = receipt.cert
  <2>1. receipt.store = s /\ c \in receipt.certs
    BY <1>1, <1>5, <1>9 DEF Recorded, Setup!AnchorsAreRecorded
  <2>2. \A d \in Setup!StaleCerts : anchors[receipt.store][d] # d
    BY <1>1, <1>3 DEF Cleared
  <2> QED BY <1>9, <2>1, <2>2 DEF Setup!StaleCerts
<1>10. ca.cert = receipt.cert /\ ca.marked
  BY <1>4
<1> QED BY <1>4, <1>6, <1>7, <1>8, <1>9, <1>10

\* Complete removal reports success from two places: when nothing is left to
\* distrust and there never was an install root, and when the root is emptied.
LEMMA UninstallationsAreComplete == ASSUME SetupInv, Setup!Next PROVE Setup!UninstallsCompletely
<1> SUFFICES ASSUME outcome' = "uninstalled", outcome # "uninstalled"
             PROVE  /\ ~root' /\ ~Setup!HasRecord' /\ ~loaders'
                    /\ \A b \in Browsers : registered[b] \notin run.manifests
                    /\ \A s \in Stores, c \in Setup!Certs : anchors[s][c] # c
  BY DEF Setup!UninstallsCompletely
<1>1. SetupTyped /\ Rooted /\ Cleared /\ Removed
  BY DEF SetupInv
<1>2. Setup!AnchorsRemoved \/ Setup!Purged
  BY DEF Setup!Next, Setup!Apply, Setup!WriteHost, Setup!WriteLicences, Setup!WriteManifest,
         Setup!Register, Setup!Refuse, Setup!ReadAuthority, Setup!WriteTransaction,
         Setup!InstallSnapshot, Setup!ReplaceAnchor, Setup!InstallAnchor, Setup!MarkInstalled,
         Setup!ConfirmMarked, Setup!WriteReceipt, Setup!ClearTransaction, Setup!RemoveUnselected,
         Setup!UnselectedRemoved, Setup!RemoveStale, Setup!StaleRemoved, Setup!Finish,
         Setup!Uninstall, Setup!RemoveRegistration, Setup!RegistrationsRemoved, Setup!ClearMark,
         Setup!RemoveAnchor, Setup!Purge, Setup!Break, Setup!Meddle, Setup!Squat, Setup!Renew,
         Setup!To, Setup!ToAll, Setup!Handled, Setup!Stop
<1>3. /\ run.at \in {"distrust", "purge"} /\ (run.at = "distrust" => run.todo = {})
      /\ UNCHANGED <<loaders, receipt, transaction>>
  BY <1>2 DEF Setup!AnchorsRemoved, Setup!Purged, Setup!At, Setup!records
<1>4. ~root' /\ ~Setup!HasRecord
  <2>1. CASE Setup!AnchorsRemoved
    <3>1. ~root /\ root' = root
      BY <2>1 DEF Setup!AnchorsRemoved, Setup!To, Setup!files
    <3> QED BY <1>1, <3>1 DEF Rooted
  <2>2. CASE Setup!Purged
    BY <2>2 DEF Setup!Purged
  <2> QED BY <1>2, <2>1, <2>2
<1>5. ~Setup!HasRecord'
  BY <1>3, <1>4, RecordsKept
<1>6. ~loaders' /\ \A b \in Browsers : registered[b] \notin run.manifests
  BY <1>1, <1>3 DEF Cleared, Removed
<1>7. \A s \in Stores, c \in Setup!Certs : anchors[s][c] # c
  BY <1>1, <1>3 DEF Removed
<1> QED BY <1>4, <1>5, <1>6, <1>7

\* A registration of somebody else is neither free to replace nor owned; an
\* entry under one of our nicknames is replaced only when it is not theirs.
LEMMA OthersAreKept == ASSUME SetupInv, Setup!Next PROVE Setup!KeepsForeign
<1> SUFFICES ASSUME run.at # "idle"
             PROVE  /\ \A b \in Browsers : registered[b] = FOREIGN => registered'[b] = FOREIGN
                    /\ \A s \in Stores, c \in Setup!Certs :
                          anchors[s][c] = FOREIGN => anchors'[s][c] = FOREIGN
  BY DEF Setup!KeepsForeign, Setup!At
<1>1. SetupTyped /\ OneStore /\ Recorded
  BY DEF SetupInv
<1>2. ASSUME NEW b \in Browsers, Setup!Register(b)
      PROVE  \A a \in Browsers : registered[a] = FOREIGN => registered'[a] = FOREIGN
  <2>1. registered' = [registered EXCEPT ![b] = run.manifest] /\ run.at = "register"
    BY <1>2 DEF Setup!Register, Setup!At
  <2>2. registered[b] # FOREIGN
    <3>1. \A r \in Setup!Known : r.manifests \subseteq Manifests
      BY <1>1, KnownAre, RecordsAre
    <3>2. run.manifest \in Manifests
      BY <1>1, <2>1 DEF OneStore, Installing
    <3>3. Setup!OwnedManifests(run.manifest) \subseteq Manifests
      BY <3>1, <3>2 DEF Setup!OwnedManifests, Setup!Merged
    <3> QED BY <1>2, <3>3, MarkersAre DEF Setup!Register, Setup!Replaceable, Setup!Legacy
  <2> QED BY <1>1, <2>1, <2>2 DEF SetupTyped
<1>3. ASSUME NEW b \in Browsers, NEW owned \in SUBSET Manifests,
             registered' = Setup!Unregistered(b, owned)
      PROVE  \A a \in Browsers : registered[a] = FOREIGN => registered'[a] = FOREIGN
  BY <1>1, <1>3, UnregisteredIs
<1>4. ASSUME NEW s \in Stores, NEW c \in Setup!Certs, anchors' = Setup!Distrusted(s, c)
      PROVE  \A t \in Stores, d \in Setup!Certs :
                anchors[t][d] = FOREIGN => anchors'[t][d] = FOREIGN
  BY <1>1, <1>4, DistrustedIs
<1>5. ASSUME Setup!ReplaceAnchor \/ Setup!InstallAnchor
      PROVE  \A t \in Stores, d \in Setup!Certs :
                anchors[t][d] = FOREIGN => anchors'[t][d] = FOREIGN
  <2>1. /\ anchors[run.store][run.cert] # FOREIGN
        /\ \E entry : anchors' = [anchors EXCEPT ![run.store][run.cert] = entry]
    BY <1>1, <1>5 DEF Setup!ReplaceAnchor, Setup!InstallAnchor, Setup!At, Recorded
  <2>2. PICK entry : anchors' = [anchors EXCEPT ![run.store][run.cert] = entry]
    BY <2>1
  <2>3. anchors \in [Stores -> [Setup!Certs -> Setup!Certs \cup {NONE, FOREIGN}]]
    BY <1>1 DEF SetupTyped
  <2> SUFFICES ASSUME NEW t \in Stores, NEW d \in Setup!Certs, anchors[t][d] = FOREIGN
               PROVE  anchors'[t][d] = FOREIGN
    OBVIOUS
  <2>4. CASE t = run.store /\ d = run.cert
    BY <2>1, <2>4
  <2>5. CASE t # run.store \/ d # run.cert
    BY <2>2, <2>3, <2>5
  <2> QED BY <2>4, <2>5
<1>6. ASSUME NEW b \in Browsers, Setup!RemoveUnselected(b)
      PROVE  \A a \in Browsers : registered[a] = FOREIGN => registered'[a] = FOREIGN
  <2>1. receipt \in Setup!Records
    BY <1>1, <1>6, KnownAre DEF Setup!RemoveUnselected, Setup!At, Recorded, Clearing
  <2>2. receipt.manifests \in SUBSET Manifests
    BY <2>1, RecordsAre
  <2> QED BY <1>3, <1>6, <2>2 DEF Setup!RemoveUnselected
<1>7. ASSUME NEW b \in Browsers, Setup!RemoveRegistration(b)
      PROVE  \A a \in Browsers : registered[a] = FOREIGN => registered'[a] = FOREIGN
  <2>1. run.manifests \in SUBSET Manifests
    BY <1>1, RunFields
  <2> QED BY <1>3, <1>7, <2>1 DEF Setup!RemoveRegistration
<1>8. ASSUME NEW c \in Setup!Certs, Setup!RemoveStale(c)
      PROVE  \A t \in Stores, d \in Setup!Certs :
                anchors[t][d] = FOREIGN => anchors'[t][d] = FOREIGN
  <2>1. receipt \in Setup!Records
    BY <1>1, <1>8, KnownAre DEF Setup!RemoveStale, Setup!At, Recorded, Clearing
  <2>2. receipt.store \in Stores
    BY <2>1, RecordsAre
  <2> QED BY <1>4, <1>8, <2>2 DEF Setup!RemoveStale
<1>9. ASSUME NEW c \in Setup!Certs, Setup!RemoveAnchor(c)
      PROVE  \A t \in Stores, d \in Setup!Certs :
                anchors[t][d] = FOREIGN => anchors'[t][d] = FOREIGN
  <2>1. PICK s \in Setup!ChosenStores : anchors' = Setup!Distrusted(s, c)
    BY <1>9 DEF Setup!RemoveAnchor
  <2>2. s \in Stores
    BY <1>1, ChosenIsKnown
  <2> QED BY <1>4, <2>1, <2>2
<1>10. CASE \E b \in Browsers :
               Setup!Register(b) \/ Setup!RemoveUnselected(b) \/ Setup!RemoveRegistration(b)
  <2>1. UNCHANGED anchors
    BY <1>10 DEF Setup!Register, Setup!RemoveUnselected, Setup!RemoveRegistration
  <2> QED BY <1>2, <1>6, <1>7, <1>10, <2>1
<1>11. CASE \/ Setup!ReplaceAnchor \/ Setup!InstallAnchor
            \/ \E c \in Setup!Certs : Setup!RemoveStale(c) \/ Setup!RemoveAnchor(c)
  <2>1. UNCHANGED registered
    BY <1>11 DEF Setup!ReplaceAnchor, Setup!InstallAnchor, Setup!RemoveStale, Setup!RemoveAnchor
  <2> QED BY <1>5, <1>8, <1>9, <1>11, <2>1
<1>12. CASE UNCHANGED <<registered, anchors>>
  BY <1>12
<1>13. \/ \E b \in Browsers :
             Setup!Register(b) \/ Setup!RemoveUnselected(b) \/ Setup!RemoveRegistration(b)
       \/ \/ Setup!ReplaceAnchor \/ Setup!InstallAnchor
          \/ \E c \in Setup!Certs : Setup!RemoveStale(c) \/ Setup!RemoveAnchor(c)
       \/ UNCHANGED <<registered, anchors>>
  BY DEF Setup!Next, Setup!Apply, Setup!WriteHost, Setup!WriteLicences, Setup!WriteManifest,
         Setup!Refuse, Setup!ReadAuthority, Setup!WriteTransaction, Setup!InstallSnapshot,
         Setup!MarkInstalled, Setup!ConfirmMarked, Setup!WriteReceipt, Setup!ClearTransaction,
         Setup!UnselectedRemoved, Setup!StaleRemoved, Setup!Finish, Setup!Uninstall,
         Setup!RegistrationsRemoved, Setup!ClearMark, Setup!AnchorsRemoved, Setup!Purge,
         Setup!Purged, Setup!Break, Setup!Meddle, Setup!Squat, Setup!Renew, Setup!At
<1> QED BY <1>10, <1>11, <1>12, <1>13

-----------------------------------------------------------------------------
(* The two together.                                                       *)

\* The invariant of both.
StoresInv == TypeOK /\ SetupInv

\* The two share no state: a step is one of the part it is about, and none of
\* the other.
LEMMA StoresPartsStep ==
    ASSUME [StoresNext]_<<vars, setupVars, part>>
    PROVE  [Next]_vars /\ [Setup!Next]_setupVars /\ part' = part
BY DEF StoresNext

\* Whichever of the two a behaviour is about, the certificate store keeps to its
\* types and what the setup program has done so far is what its phase says.
THEOREM StoresInvariantHolds == StoresSpec => []StoresInv
<1>1. StoresInit => StoresInv
  BY TypeInit, SetupInit DEF StoresInit, StoresInv
<1>2. StoresInv /\ [StoresNext]_<<vars, setupVars, part>> => StoresInv'
  <2> SUFFICES ASSUME StoresInv, [StoresNext]_<<vars, setupVars, part>> PROVE StoresInv'
    OBVIOUS
  <2> QED BY StoresPartsStep, TypeStep, SetupStep DEF StoresInv
<1> QED BY <1>1, <1>2, PTL DEF StoresSpec

\* A behaviour of the two is, for the certificate store, one of its own
\* specification, and so keeps what the theorems above say of it.
THEOREM StoresImplementsCa == StoresSpec => Spec
<1>1. StoresInit => Init
  BY DEF StoresInit
<1>2. [StoresNext]_<<vars, setupVars, part>> => [Next]_vars
  BY StoresPartsStep
<1> QED BY <1>1, <1>2, PTL DEF StoresSpec, Spec

\* The store and the setup program keep to their types: a record of an
\* installation has its own manifest and certificate in its history, and two
\* records name one trust store.
THEOREM StoresTypesCorrect == StoresSpec => []TypesOK
<1>1. StoresSpec => [](part \in {"ca", "setup"})
  <2>1. StoresInit => part \in {"ca", "setup"}
    BY DEF StoresInit
  <2>2. part \in {"ca", "setup"} /\ [StoresNext]_<<vars, setupVars, part>>
           => (part \in {"ca", "setup"})'
    BY DEF StoresNext
  <2> QED BY <2>1, <2>2, PTL DEF StoresSpec
<1>2. part \in {"ca", "setup"} /\ StoresInv => TypesOK
  BY SetupIsTyped DEF StoresInv, TypesOK
<1> QED BY <1>1, <1>2, StoresInvariantHolds, PTL

\* Wherever setup is killed, whatever the host's authority does meanwhile: a
\* certificate it made trusted is one the next run will know to distrust.
THEOREM TrustIsRecorded == StoresSpec => []AnchorsAreRecorded
<1>1. StoresInv => AnchorsAreRecorded
  BY DEF StoresInv, SetupInv, Recorded, AnchorsAreRecorded
<1> QED BY <1>1, StoresInvariantHolds, PTL

\* A reported installation is exact, a reported removal complete, and neither
\* touches what belongs to others.
THEOREM SetupOutcomesAreExact == StoresSpec => OutcomesAreExact
<1>1. StoresInv /\ [StoresNext]_<<vars, setupVars, part>>
         => [part = "setup" => Setup!InstallsExactly /\ Setup!UninstallsCompletely
                               /\ Setup!KeepsForeign]_<<setupVars, part>>
  <2> SUFFICES ASSUME StoresInv, StoresNext, part = "setup", ~UNCHANGED <<setupVars, part>>
               PROVE  Setup!InstallsExactly /\ Setup!UninstallsCompletely /\ Setup!KeepsForeign
    BY DEF setupVars
  <2>1. Setup!Next
    BY DEF StoresNext
  <2> QED
    BY <2>1, InstallationsAreExact, UninstallationsAreComplete, OthersAreKept DEF StoresInv
<1> QED BY <1>1, StoresInvariantHolds, PTL DEF StoresSpec, OutcomesAreExact
=============================================================================
