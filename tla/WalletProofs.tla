---------------------------- MODULE WalletProofs ----------------------------
(***************************************************************************)
(* What MCWallet promises, proved with TLAPS: the admission and launch of  *)
(* the wallet service for any number of hosts with any tables, the read    *)
(* session with its service, and the pool statistics, each by an inductive *)
(* invariant of its own, and the three together.                           *)
(***************************************************************************)
EXTENDS MCWallet, FiniteSetTheorems, TLAPS

-----------------------------------------------------------------------------
(* Admission and launch: their invariant.                                  *)

\* The release a host is about.
Doc(h) == retained[h].manifest.doc

\* The parts of the types that the safety properties rest on.
AdmissionTyped ==
    /\ manifest \in Files(Documents) /\ artifact \in Files(Contents)
    /\ state \in [Lines -> Entries \cup {Absent}]
    /\ read \in [Hosts -> [Lines -> Entries \cup {Absent}]]
    /\ lock \in Hosts \cup {Nobody}
    /\ pc \in [Hosts -> Steps]
    /\ admitted = [h \in Hosts |-> admitted[h]]
    /\ retained \in [Hosts -> [manifest : Files(Documents), artifact : Files(Contents)]]
    /\ children \in [Hosts -> SUBSET [doc : Documents, content : Contents \cup {Absent}]]

\* Whoever works on the state or launches has the lock.
Exclusion == \A h \in Hosts : pc[h] \in Holding => lock = h

\* The manifest a host holds open decoded; past the checks the executable
\* is the one it names, and the release is qualified by this host's tables.
Checked(h) ==
    /\ retained[h].artifact.doc = Doc(h).artifact
    /\ QualifiedRelease(Configuration[h], Doc(h)) # {}
Inspecting == {"manifest", "artifact", "commit", "record"}
Launching == {"launch", "copy", "verify", "spawn", "spawned"}
Offering(h) == admitted[h] = Admitted /\ pc[h] \notin Inspecting
InspectedBy(h) ==
    /\ pc[h] \in {"artifact", "commit", "record"} \/ Offering(h) => Doc(h) \in Documents
    /\ pc[h] \in {"commit", "record"} \/ Offering(h) => Checked(h)
    /\ pc[h] \in Launching => admitted[h] = Admitted
Inspected == \A h \in Hosts : InspectedBy(h)

\* What was read under the lock is what is there, unless it was deleted.
ReadIsCurrent == \A h \in Hosts : pc[h] = "record" => read[h] = state \/ (removed /\ state = Empty)

\* A host that called a release admitted finds it, or a later one.
Durable ==
    \A h \in Hosts : Offering(h) /\ ~removed =>
        state[Doc(h).line] # Absent /\ state[Doc(h).line].seq >= Doc(h).seq

\* Between the last check and the start the state names the release.
StillNamed ==
    \A h \in Hosts : pc[h] = "spawn" => Recorded(state, Doc(h)) \/ (removed /\ state = Empty)

AdmissionInv == AdmissionTyped /\ removed \in BOOLEAN /\ Exclusion /\ Inspected /\ ReadIsCurrent /\ Durable /\ StillNamed

\* An entry is that of its line, and not the absence of one.
LEMMA EntryFacts ==
    ASSUME NEW m \in Documents
    PROVE  /\ m.line \in Lines /\ Entry(m) \in Entries /\ Entry(m) # Absent
           /\ Entry(m).seq = m.seq /\ Entry(m).manifest = m.id /\ m.seq \in Nat
  BY AbsentIsNothing, SequencesAreNat DEF Lines, Entries, Entry

\* Entries carry natural sequence numbers.
LEMMA EntriesAreNat == \A e \in Entries : e.seq \in Nat
  BY EntryFacts DEF Entries

\* No other verdict is the admission.
LEMMA OnlyAdmitted == Missing # Admitted /\ \A reason : Rejected(reason) # Admitted
<1>1. Admitted.kind = "launchAdmitted" /\ Missing.kind = "missing"
  BY DEF Admitted, Missing
<1>2. ASSUME NEW reason PROVE Rejected(reason).kind = "rejected"
  BY DEF Rejected
<1> QED BY <1>1, <1>2

\* The initial state.
LEMMA AdmissionInit == Init => AdmissionInv
<1> SUFFICES ASSUME Init PROVE AdmissionInv
  OBVIOUS
<1>1. NoFile \in Files(Documents) /\ NoFile \in Files(Contents)
  BY DEF NoFile, Files, Modes
<1>2. Nothing \in [manifest : Files(Documents), artifact : Files(Contents)]
  BY <1>1 DEF Nothing
<1>3. Empty \in [Lines -> Entries \cup {Absent}]
  BY DEF Empty
<1>4. Missing # Admitted
  BY OnlyAdmitted
<1>5. AdmissionTyped
  BY <1>1, <1>2, <1>3, <1>4 DEF Init, AdmissionTyped, Steps
<1> QED
  BY <1>4, <1>5 DEF Init, AdmissionInv, Exclusion, Inspected, InspectedBy, Offering, ReadIsCurrent, Durable, StillNamed,
                    Holding, Inspecting, Launching

\* A commit under the lock moves its line to the release, from nothing or
\* from the entry the release names as its predecessor, or changes nothing.
LEMMA CommitMoves ==
    ASSUME AdmissionInv, NEW h \in Hosts, Commit(h)
    PROVE  \/ state' = state
           \/ /\ state' = [read[h] EXCEPT ![Doc(h).line] = Entry(Doc(h))]
              /\ \/ read[h][Doc(h).line] = Absent
                 \/ /\ Doc(h).seq > read[h][Doc(h).line].seq
                    /\ Doc(h).previous = read[h][Doc(h).line].manifest
<1> DEFINE m == Doc(h)
           genesis == \E q \in QualifiedRelease(Configuration[h], m) : q.genesis
<1>1. m \in Documents
  BY DEF Commit, Goes, AdmissionInv, Inspected, InspectedBy
<1>2. SUFFICES ASSUME state' # state
               PROVE  /\ state' = [read[h] EXCEPT ![m.line] = Entry(m)]
                      /\ \/ read[h][m.line] = Absent
                         \/ m.seq > read[h][m.line].seq /\ m.previous = read[h][m.line].manifest
  OBVIOUS
<1>3. /\ Accepts(read[h], m, genesis) /\ ~Recorded(read[h], m)
      /\ state' = [read[h] EXCEPT ![m.line] = Entry(m)]
  BY <1>2 DEF Commit, Doc
<1>4. ASSUME read[h][m.line] # Absent
      PROVE  m.seq > read[h][m.line].seq /\ m.previous = read[h][m.line].manifest
  BY <1>3, <1>4 DEF Accepts, Recorded
<1> QED BY <1>3, <1>4

\* No step takes the state back.
LEMMA StateStep == ASSUME AdmissionInv, [Next]_vars PROVE state' = state \/ NeverGoesBack
<1>1. ASSUME NEW h \in Hosts, Commit(h) PROVE state' = state \/ NeverGoesBack
  <2>1. Doc(h) \in Documents /\ pc[h] = "record"
    BY <1>1 DEF Commit, Goes, AdmissionInv, Inspected, InspectedBy
  <2>2. read[h] \in [Lines -> Entries \cup {Absent}]
    BY DEF AdmissionInv, AdmissionTyped
  <2>3. CASE read[h] = state
    <3> SUFFICES ASSUME state' # state, NEW l \in Lines, state[l] # Absent, state'[l] # state[l]
                 PROVE  /\ state'[l] # Absent /\ state'[l].seq > state[l].seq
                        /\ \E m \in Documents : Entry(m) = state'[l] /\ m.previous = state[l].manifest
      BY DEF NeverGoesBack
    <3>1. /\ l = Doc(h).line /\ state'[l] = Entry(Doc(h))
          /\ Doc(h).seq > state[l].seq /\ Doc(h).previous = state[l].manifest
      BY <1>1, <2>1, <2>2, <2>3, CommitMoves
    <3> QED BY <2>1, <3>1, EntryFacts
  <2>4. CASE removed /\ state = Empty
    BY <2>4 DEF NeverGoesBack, Empty
  <2> QED BY <2>1, <2>3, <2>4 DEF AdmissionInv, ReadIsCurrent
<1>2. CASE RemoveState
  BY <1>2 DEF RemoveState, NeverGoesBack
<1>3. CASE UNCHANGED vars
  BY <1>3 DEF vars, shared
<1> QED
  BY <1>1, <1>2, <1>3 DEF Next, World, Inspect, ReadManifest, CheckArtifact, BeginCommit, Launch,
     LockForLaunch, Copy, Verify, Spawn, AttestDatabase, EndSession, Die, InstallManifest,
     InstallArtifact, ReplaceDatabase, Tick, shared

-----------------------------------------------------------------------------
(* The invariant, a part at a time                                         *)

\* One step keeps the types.
LEMMA TypedStep == ASSUME AdmissionInv, [Next]_vars PROVE AdmissionTyped'
<1> USE DEF AdmissionInv, AdmissionTyped, Goes, Becomes, files, shared, host, Unlock, Acquire, Steps
<1>1. ASSUME NEW h \in Hosts, Inspect(h) PROVE AdmissionTyped'
  <2>1. Nothing \in [manifest : Files(Documents), artifact : Files(Contents)]
    BY DEF Nothing, NoFile, Files, Modes
  <2> QED BY <1>1, <2>1 DEF Inspect
<1>2. ASSUME NEW h \in Hosts, ReadManifest(h) PROVE AdmissionTyped'
  BY <1>2, ZenonT(40) DEF ReadManifest
<1>3. ASSUME NEW h \in Hosts, CheckArtifact(h) PROVE AdmissionTyped'
  <2>1. Nothing \in [manifest : Files(Documents), artifact : Files(Contents)]
    BY DEF Nothing, NoFile, Files, Modes
  <2> QED BY <1>3, <2>1, SMTT(20) DEF CheckArtifact
<1>4. ASSUME NEW h \in Hosts, BeginCommit(h) PROVE AdmissionTyped'
  BY <1>4 DEF BeginCommit
<1>5. ASSUME NEW h \in Hosts, Commit(h) PROVE AdmissionTyped'
  <2>1. Nothing \in [manifest : Files(Documents), artifact : Files(Contents)]
    BY DEF Nothing, NoFile, Files, Modes
  <2>2. Empty \in [Lines -> Entries \cup {Absent}]
    BY DEF Empty
  <2>3. Doc(h) \in Documents
    BY <1>5 DEF Commit, Inspected, InspectedBy
  <2>4. state' \in [Lines -> Entries \cup {Absent}]
    BY <1>5, <2>3, CommitMoves, EntryFacts
  <2>5. retained' \in [Hosts -> [manifest : Files(Documents), artifact : Files(Contents)]]
    BY <1>5, <2>1 DEF Commit
  <2>6. admitted' = [g \in Hosts |-> admitted'[g]]
    BY <1>5 DEF Commit
  <2>7. read' \in [Hosts -> [Lines -> Entries \cup {Absent}]] /\ pc' \in [Hosts -> Steps]
    BY <1>5, <2>2 DEF Commit
  <2> QED BY <1>5, <2>4, <2>5, <2>6, <2>7 DEF Commit
<1>6. ASSUME NEW h \in Hosts, Launch(h) \/ LockForLaunch(h) \/ Copy(h) \/ Verify(h) PROVE AdmissionTyped'
  BY <1>6 DEF Launch, LockForLaunch, Copy, Verify, Aborts
<1>7. ASSUME NEW h \in Hosts, Spawn(h) PROVE AdmissionTyped'
  <2>1. pc[h] = "spawn"
    BY <1>7 DEF Spawn, Aborts
  <2>2. Doc(h) \in Documents
    BY <2>1 DEF Inspected, InspectedBy, Offering, Launching, Inspecting
  <2>3. retained[h].artifact.doc \in Contents \cup {Absent}
    BY DEF Files
  <2> DEFINE s == [doc |-> Doc(h), content |-> retained[h].artifact.doc]
  <2>4. s \in [doc : Documents, content : Contents \cup {Absent}]
    BY <2>2, <2>3
  <2>5. children' = children \/ children' = [children EXCEPT ![h] = {s}]
    BY <1>7 DEF Spawn, Doc
  <2>6. children' \in [Hosts -> SUBSET [doc : Documents, content : Contents \cup {Absent}]]
    BY <2>4, <2>5
  <2> QED BY <1>7, <2>6 DEF Spawn, Aborts
<1>8. ASSUME NEW h \in Hosts, AttestDatabase(h) \/ EndSession(h) PROVE AdmissionTyped'
  BY <1>8 DEF AttestDatabase, EndSession, Aborts
<1>9. ASSUME NEW h \in Hosts, Die(h) PROVE AdmissionTyped'
  <2>1. Nothing \in [manifest : Files(Documents), artifact : Files(Contents)]
    BY DEF Nothing, NoFile, Files, Modes
  <2>2. Empty \in [Lines -> Entries \cup {Absent}]
    BY DEF Empty
  <2> QED BY <1>9, <2>1, <2>2 DEF Die, LockAfterDeath
<1>10. CASE InstallManifest
  <2>1. manifest' \in Files(Documents)
    BY <1>10, FilesAreDocuments DEF InstallManifest, Files
  <2> QED BY <1>10, <2>1 DEF InstallManifest
<1>11. CASE InstallArtifact
  <2>1. artifact' \in Files(Contents)
    BY <1>11, FilesAreDocuments DEF InstallArtifact, Files
  <2> QED BY <1>11, <2>1 DEF InstallArtifact
<1>12. CASE RemoveState
  BY <1>12 DEF RemoveState, Empty
<1>13. CASE ReplaceDatabase \/ Tick \/ UNCHANGED vars
  BY <1>13 DEF ReplaceDatabase, Tick, vars
<1> QED
  BY <1>1, <1>2, <1>3, <1>4, <1>5, <1>6, <1>7, <1>8, <1>9, <1>10, <1>11, <1>12, <1>13
     DEF Next, World

\* The lock excludes: nobody is taken the lock away but by his own death.
LEMMA ExclusionStep == ASSUME AdmissionInv, [Next]_vars PROVE Exclusion'
<1> USE NobodyIsNoHost DEF AdmissionInv, AdmissionTyped, Exclusion, Holding, Goes, shared, host, Unlock, Acquire, LockIsFree
<1>1. ASSUME NEW h \in Hosts, Inspect(h) \/ ReadManifest(h) \/ CheckArtifact(h) PROVE Exclusion'
  BY <1>1 DEF Inspect, ReadManifest, CheckArtifact
<1>2. ASSUME NEW h \in Hosts, BeginCommit(h) \/ LockForLaunch(h) PROVE Exclusion'
  BY <1>2 DEF BeginCommit, LockForLaunch
<1>3. ASSUME NEW h \in Hosts, Commit(h) PROVE Exclusion'
  BY <1>3 DEF Commit
<1>4. ASSUME NEW h \in Hosts, Launch(h) \/ EndSession(h) PROVE Exclusion'
  BY <1>4 DEF Launch, EndSession
<1>5. ASSUME NEW h \in Hosts, Copy(h) \/ Verify(h) PROVE Exclusion'
  BY <1>5 DEF Copy, Verify, Aborts
<1>6. ASSUME NEW h \in Hosts, Spawn(h) \/ AttestDatabase(h) PROVE Exclusion'
  <2>1. /\ lock = h
        /\ \/ lock' = lock /\ pc' = [pc EXCEPT ![h] = "spawned"]
           \/ lock' = Nobody /\ pc' = [pc EXCEPT ![h] = "idle"]
    BY <1>6 DEF Spawn, AttestDatabase, Aborts
  <2> QED BY <2>1
<1>7. ASSUME NEW h \in Hosts, Die(h) PROVE Exclusion'
  BY <1>7 DEF Die, LockAfterDeath
<1>8. CASE World \/ UNCHANGED vars
  BY <1>8 DEF World, InstallManifest, InstallArtifact, RemoveState, ReplaceDatabase, Tick, vars
<1> QED BY <1>1, <1>2, <1>3, <1>4, <1>5, <1>6, <1>7, <1>8 DEF Next

\* A host that makes no step keeps what it checked ...
LEMMA Bystander ==
    ASSUME AdmissionInv, NEW h \in Hosts,
           pc'[h] = pc[h], retained'[h] = retained[h], admitted'[h] = admitted[h]
    PROVE  InspectedBy(h)'
  BY DEF AdmissionInv, Inspected, InspectedBy, Offering, Doc, Checked

\* ... and so does one that makes any.
LEMMA InspectedStep == ASSUME AdmissionInv, [Next]_vars PROVE Inspected'
<1> SUFFICES ASSUME NEW g \in Hosts PROVE InspectedBy(g)'
  BY DEF Inspected
<1> USE DEF AdmissionInv, AdmissionTyped, Goes, Becomes, host
<1>a. InspectedBy(g)
  BY DEF Inspected
<1>1. ASSUME NEW h \in Hosts, Inspect(h) PROVE InspectedBy(g)'
  <2>1. CASE g = h
    <3>1. pc'[g] = "manifest" \/ (pc'[g] = "idle" /\ admitted'[g] # Admitted)
      BY <1>1, <2>1, OnlyAdmitted DEF Inspect
    <3> QED BY <3>1 DEF InspectedBy, Offering, Inspecting, Launching
  <2>2. CASE g # h
    BY <1>1, <2>2, Bystander DEF Inspect
  <2> QED BY <2>1, <2>2
<1>2. ASSUME NEW h \in Hosts, ReadManifest(h) PROVE InspectedBy(g)'
  <2>1. CASE g = h
    <3>1. \/ pc'[g] = "artifact" /\ retained'[g].manifest = manifest /\ manifest.doc # Absent
          \/ pc'[g] = "idle" /\ admitted'[g] # Admitted
      BY <1>2, <2>1, OnlyAdmitted DEF ReadManifest
    <3>2. manifest.doc # Absent => manifest.doc \in Documents
      BY DEF Files
    <3> QED BY <3>1, <3>2 DEF InspectedBy, Offering, Inspecting, Launching, Doc
  <2>2. CASE g # h
    BY <1>2, <2>2, Bystander DEF ReadManifest
  <2> QED BY <2>1, <2>2
<1>3. ASSUME NEW h \in Hosts, CheckArtifact(h) PROVE InspectedBy(g)'
  <2> DEFINE verdict == Verdict(Configuration[h], retained[h].manifest, artifact)
  <2>1. CASE g = h /\ verdict = Admitted
    <3>1. artifact.doc = Doc(h).artifact /\ QualifiedRelease(Configuration[h], Doc(h)) # {}
      BY <2>1, OnlyAdmitted DEF Verdict, DigestMatches, Integrity, Authentic, Admitted, Doc
    <3>2. /\ retained' = [retained EXCEPT ![h].artifact = artifact]
          /\ pc'[g] = "commit" /\ pc[g] = "artifact"
      BY <1>3, <2>1 DEF CheckArtifact
    <3>3. retained'[g].artifact = artifact /\ retained'[g].manifest = retained[g].manifest
      BY <2>1, <3>2
    <3> QED
      BY <1>a, <2>1, <3>1, <3>2, <3>3
         DEF InspectedBy, Offering, Inspecting, Launching, Doc, Checked
  <2>2. CASE g = h /\ verdict # Admitted
    <3>1. admitted'[g] # Admitted /\ pc'[g] = "idle"
      BY <1>3, <2>2 DEF CheckArtifact
    <3> QED BY <3>1 DEF InspectedBy, Offering, Inspecting, Launching
  <2>3. CASE g # h
    BY <1>3, <2>3, Bystander DEF CheckArtifact
  <2> QED BY <2>1, <2>2, <2>3
<1>4. ASSUME NEW h \in Hosts, BeginCommit(h) PROVE InspectedBy(g)'
  <2>1. CASE g = h
    BY <1>a, <1>4, <2>1
       DEF BeginCommit, InspectedBy, Offering, Inspecting, Launching, Doc, Checked
  <2>2. CASE g # h
    BY <1>4, <2>2, Bystander DEF BeginCommit
  <2> QED BY <2>1, <2>2
<1>5. ASSUME NEW h \in Hosts, Commit(h) PROVE InspectedBy(g)'
  <2>1. CASE g = h
    <3>1. /\ pc[g] = "record" /\ pc'[g] = "idle"
          /\ admitted'[g] = Admitted => retained'[g] = retained[g]
      <4>1. PICK written \in BOOLEAN :
               \/ Becomes(h, Admitted) /\ UNCHANGED retained
               \/ Becomes(h, Rejected("walletArtifactRollbackRejected"))
        BY <1>5 DEF Commit
      <4>2. Rejected("walletArtifactRollbackRejected") # Admitted
        BY OnlyAdmitted
      <4> QED BY <1>5, <2>1, <4>1, <4>2 DEF Commit
    <3> QED BY <1>a, <3>1 DEF InspectedBy, Offering, Inspecting, Launching, Doc, Checked
  <2>2. CASE g # h
    BY <1>5, <2>2, Bystander DEF Commit
  <2> QED BY <2>1, <2>2
<1>6. ASSUME NEW h \in Hosts,
             \/ Launch(h) \/ LockForLaunch(h) \/ Copy(h) \/ Verify(h) \/ Spawn(h)
             \/ AttestDatabase(h) \/ EndSession(h)
      PROVE InspectedBy(g)'
  <2>1. retained' = retained /\ admitted' = admitted
    BY <1>6 DEF Launch, LockForLaunch, Copy, Verify, Spawn, AttestDatabase, EndSession, Aborts
  <2>2. CASE g = h
    <3>1. /\ pc'[g] \in {"idle"} \cup Launching /\ pc[g] \in {"idle"} \cup Launching
          /\ pc'[g] \in Launching => pc[g] \in Launching \/ admitted[g] = Admitted
      BY <1>6, <2>2
         DEF Launch, LockForLaunch, Copy, Verify, Spawn, AttestDatabase, EndSession, Aborts, Launching
    <3> QED BY <1>a, <2>1, <3>1 DEF InspectedBy, Offering, Inspecting, Launching, Doc, Checked
  <2>3. CASE g # h
    <3>1. pc'[g] = pc[g]
      BY <1>6, <2>3
         DEF Launch, LockForLaunch, Copy, Verify, Spawn, AttestDatabase, EndSession, Aborts
    <3> QED BY <2>1, <3>1, Bystander
  <2> QED BY <2>2, <2>3
<1>7. ASSUME NEW h \in Hosts, Die(h) PROVE InspectedBy(g)'
  <2>1. CASE g = h
    BY <1>7, <2>1, OnlyAdmitted DEF Die, InspectedBy, Offering, Launching
  <2>2. CASE g # h
    BY <1>7, <2>2, Bystander DEF Die
  <2> QED BY <2>1, <2>2
<1>8. CASE World \/ UNCHANGED vars
  BY <1>8, Bystander
     DEF World, InstallManifest, InstallArtifact, RemoveState, ReplaceDatabase, Tick, vars
<1> QED BY <1>1, <1>2, <1>3, <1>4, <1>5, <1>6, <1>7, <1>8 DEF Next

\* Only the holder of the lock writes the state.
LEMMA OnlyHoldersWrite ==
    ASSUME AdmissionInv, [Next]_vars, state' # state
    PROVE  (\E h \in Hosts : Commit(h)) \/ RemoveState
  BY DEF Next, World, Inspect, ReadManifest, CheckArtifact, BeginCommit, Launch,
     LockForLaunch, Copy, Verify, Spawn, AttestDatabase, EndSession, Die, InstallManifest,
     InstallArtifact, ReplaceDatabase, Tick, shared, vars

\* What was read under the lock is what is there: a writer needs the lock.
LEMMA ReadStep == ASSUME AdmissionInv, [Next]_vars PROVE ReadIsCurrent'
<1> SUFFICES ASSUME NEW g \in Hosts, pc'[g] = "record"
             PROVE  read'[g] = state' \/ (removed' /\ state' = Empty)
  BY DEF ReadIsCurrent
<1> USE DEF AdmissionInv, AdmissionTyped, Goes, Becomes, host, shared
<1>1. ASSUME NEW h \in Hosts, Commit(h) PROVE FALSE
  <2>1. h # g /\ pc[g] = "record" /\ pc[h] = "record"
    BY <1>1 DEF Commit
  <2> QED BY <2>1 DEF Exclusion, Holding
<1>2. CASE RemoveState
  BY <1>2 DEF RemoveState
<1>3. CASE state' = state
  <2>1. \/ read'[g] = state
        \/ pc[g] = "record" /\ read'[g] = read[g] /\ (removed => removed')
    BY <1>1, <1>3, ZenonT(40)
       DEF Next, World, Inspect, ReadManifest, CheckArtifact, BeginCommit, Launch,
           LockForLaunch, Copy, Verify, Spawn, AttestDatabase, EndSession, Die, InstallManifest,
           InstallArtifact, RemoveState, ReplaceDatabase, Tick, vars, Aborts
  <2> QED BY <1>3, <2>1 DEF ReadIsCurrent
<1> QED BY <1>1, <1>2, <1>3, OnlyHoldersWrite

\* Between the last check and the start the state only gets lost.
LEMMA NamedStep == ASSUME AdmissionInv, [Next]_vars PROVE StillNamed'
<1> SUFFICES ASSUME NEW g \in Hosts, pc'[g] = "spawn"
             PROVE  Recorded(state, Doc(g))' \/ (removed' /\ state' = Empty)
  BY DEF StillNamed
<1> USE DEF AdmissionInv, AdmissionTyped, Goes, Becomes, host, shared
<1>1. ASSUME NEW h \in Hosts, Commit(h) PROVE FALSE
  <2>1. h # g /\ pc[g] = "spawn" /\ pc[h] = "record"
    BY <1>1 DEF Commit
  <2> QED BY <2>1 DEF Exclusion, Holding
<1>2. CASE RemoveState
  BY <1>2 DEF RemoveState
<1>3. CASE state' = state
  <2>1. /\ retained'[g] = retained[g]
        /\ \/ Recorded(state, Doc(g))
           \/ pc[g] = "spawn" /\ (removed => removed')
    BY <1>1, ZenonT(40)
       DEF Next, World, Inspect, ReadManifest, CheckArtifact, BeginCommit, Launch,
           LockForLaunch, Copy, Verify, Spawn, AttestDatabase, EndSession, Die, InstallManifest,
           InstallArtifact, RemoveState, ReplaceDatabase, Tick, vars, Aborts, Revalidated, Doc
  <2> QED BY <1>3, <2>1 DEF StillNamed, Recorded, Doc
<1> QED BY <1>1, <1>2, <1>3, OnlyHoldersWrite

\* A host begins to call a release admitted in a commit only.
LEMMA OnlyCommitsOffer ==
    ASSUME AdmissionInv, [Next]_vars, NEW g \in Hosts, Offering(g)', ~Commit(g)
    PROVE  Offering(g) /\ retained'[g] = retained[g]
<1> USE DEF AdmissionInv, AdmissionTyped, Goes, Becomes, host, Offering, Inspecting
<1>1. ASSUME NEW h \in Hosts, Inspect(h) \/ ReadManifest(h)
      PROVE Offering(g) /\ retained'[g] = retained[g]
  BY <1>1, OnlyAdmitted, ZenonT(40) DEF Inspect, ReadManifest
<1>2. ASSUME NEW h \in Hosts, CheckArtifact(h) PROVE Offering(g) /\ retained'[g] = retained[g]
  BY <1>2 DEF CheckArtifact
<1>3. ASSUME NEW h \in Hosts, Commit(h) PROVE Offering(g) /\ retained'[g] = retained[g]
  <2>1. h # g
    BY <1>3
  <2>2. pc'[g] = pc[g] /\ admitted'[g] = admitted[g] /\ retained'[g] = retained[g]
    BY <1>3, <2>1 DEF Commit
  <2> QED BY <2>2
<1>4. ASSUME NEW h \in Hosts, BeginCommit(h) \/ Die(h)
      PROVE Offering(g) /\ retained'[g] = retained[g]
  BY <1>4, OnlyAdmitted DEF BeginCommit, Die
<1>5. ASSUME NEW h \in Hosts,
             \/ Launch(h) \/ LockForLaunch(h) \/ Copy(h) \/ Verify(h) \/ Spawn(h)
             \/ AttestDatabase(h) \/ EndSession(h)
      PROVE Offering(g) /\ retained'[g] = retained[g]
  BY <1>5 DEF Launch, LockForLaunch, Copy, Verify, Spawn, AttestDatabase, EndSession, Aborts
<1>6. CASE World \/ UNCHANGED vars
  BY <1>6 DEF World, InstallManifest, InstallArtifact, RemoveState, ReplaceDatabase, Tick, vars
<1> QED BY <1>1, <1>2, <1>3, <1>4, <1>5, <1>6 DEF Next

\* Whether somebody deleted the state is not forgotten.
LEMMA RemovalIsKept == ASSUME AdmissionInv, [Next]_vars, removed PROVE removed'
  BY DEF Next, World, Inspect, ReadManifest, CheckArtifact, BeginCommit, Commit, Launch,
     LockForLaunch, Copy, Verify, Spawn, AttestDatabase, EndSession, Die, InstallManifest,
     InstallArtifact, RemoveState, ReplaceDatabase, Tick, vars, shared, Aborts

\* What a host called admitted stays in the state, or is followed there.
LEMMA DurableStep == ASSUME AdmissionInv, [Next]_vars PROVE Durable'
<1> SUFFICES ASSUME NEW g \in Hosts, Offering(g)', ~removed'
             PROVE  (state[Doc(g).line] # Absent /\ state[Doc(g).line].seq >= Doc(g).seq)'
  BY DEF Durable
<1>1. ~removed
  BY RemovalIsKept
<1>2. AdmissionTyped /\ AdmissionTyped' /\ Inspected'
  BY TypedStep, InspectedStep DEF AdmissionInv
<1> DEFINE m == Doc(g)'
<1>3. m \in Documents /\ m.line \in Lines /\ m.seq \in Nat
  BY <1>2, EntryFacts DEF Inspected, InspectedBy
<1>4. CASE Commit(g)
  <2>1. pc[g] = "record" /\ read[g] = state
    BY <1>1, <1>4 DEF Commit, Goes, AdmissionInv, ReadIsCurrent
  <2>2. retained'[g] = retained[g] /\ state'[m.line] = Entry(m)
    <3>1. PICK written \in BOOLEAN :
             /\ state' = IF /\ Accepts(read[g], Doc(g), \E q \in QualifiedRelease(Configuration[g], Doc(g)) : q.genesis)
                            /\ ~Recorded(read[g], Doc(g)) /\ written
                         THEN [read[g] EXCEPT ![Doc(g).line] = Entry(Doc(g))] ELSE state
             /\ \/ /\ Accepts(read[g], Doc(g), \E q \in QualifiedRelease(Configuration[g], Doc(g)) : q.genesis)
                   /\ Recorded(read[g], Doc(g)) \/ written
                   /\ UNCHANGED retained
                \/ Becomes(g, Rejected("walletArtifactRollbackRejected"))
      BY <1>4 DEF Commit, Committed, Doc
    <3>2. admitted'[g] = Admitted
      BY DEF Offering
    <3>3. ~Becomes(g, Rejected("walletArtifactRollbackRejected"))
      BY <1>2, <3>2, OnlyAdmitted DEF Becomes, AdmissionTyped
    <3>4. retained' = retained /\ m = Doc(g)
      BY <3>1, <3>3 DEF Doc
    <3> QED BY <1>2, <1>3, <2>1, <3>1, <3>3, <3>4 DEF Recorded, AdmissionTyped
  <2> QED BY <1>3, <2>2, EntryFacts
<1>5. CASE ~Commit(g)
  <2>1. Offering(g) /\ m = Doc(g)
    BY <1>5, OnlyCommitsOffer DEF Doc
  <2>2. state[m.line] # Absent /\ state[m.line].seq >= m.seq
    BY <1>1, <2>1 DEF AdmissionInv, Durable
  <2>3. state[m.line] \in Entries /\ state'[m.line] \in Entries \cup {Absent}
    BY <1>2, <1>3, <2>2 DEF AdmissionTyped
  <2>4. CASE state'[m.line] = state[m.line]
    BY <2>2, <2>4
  <2>5. CASE state'[m.line] # Absent /\ state'[m.line].seq > state[m.line].seq
    BY <1>3, <2>2, <2>3, <2>5, EntriesAreNat
  <2> QED BY <1>3, <2>2, <2>4, <2>5, StateStep DEF NeverGoesBack
<1> QED BY <1>4, <1>5

\* One step keeps the invariant.
LEMMA AdmissionStep == AdmissionInv /\ [Next]_vars => AdmissionInv'
<1> SUFFICES ASSUME AdmissionInv, [Next]_vars PROVE AdmissionInv'
  OBVIOUS
<1>1. removed' \in BOOLEAN
  BY DEF AdmissionInv, Next, World, Inspect, ReadManifest, CheckArtifact, BeginCommit, Commit, Launch,
     LockForLaunch, Copy, Verify, Spawn, AttestDatabase, EndSession, Die, InstallManifest,
     InstallArtifact, RemoveState, ReplaceDatabase, Tick, vars, shared, Aborts
<1> QED
  BY <1>1, TypedStep, ExclusionStep, InspectedStep, ReadStep, DurableStep, NamedStep DEF AdmissionInv

-----------------------------------------------------------------------------
(* Admission and launch: what else their types say.                        *)

Measured ==
    /\ clock \in Nat /\ faults \in Nat /\ clock <= faults /\ faults <= MaxFaults
    /\ database \in BOOLEAN /\ admitted \in [Hosts -> Verdicts]

LEMMA VerdictsAre ==
    /\ Missing \in Verdicts /\ Admitted \in Verdicts
    /\ \A reason \in Reasons : Rejected(reason) \in Verdicts
    /\ {"walletArtifactVerifierConfigurationInvalid", "walletArtifactRollbackRejected"}
          \subseteq Reasons
  BY DEF Verdicts, Reasons

\* A reason is that of a check, or the shape of a manifest that is not canonical.
LEMMA ReasonsAre ==
    ASSUME NEW f \in Files(Documents), f.doc # Absent, NEW now, ManifestRejection(f, now) # ""
    PROVE  ManifestRejection(f, now) \in Reasons
<1>1. f.doc.shape \in Reasons
  BY DEF Files, Reasons
<1> QED BY <1>1 DEF ManifestRejection, Reasons

LEMMA VerdictIs ==
    ASSUME NEW c, NEW m, NEW f PROVE Verdict(c, m, f) \in Verdicts
<1>1. {"walletArtifactMissing", "walletArtifactUnsafe", "walletArtifactDigestMismatch",
       "walletArtifactSignatureInvalid", "walletArtifactReleaseBelowFloor",
       "walletArtifactMutable", "walletArtifactPlatformMismatch"} \subseteq Reasons
  BY DEF Reasons
<1>2. \A reason \in Reasons : Rejected(reason) \in Verdicts
  BY VerdictsAre
<1>3. {Integrity, Authentic, Admitted} \subseteq Verdicts
  BY DEF Verdicts
<1> QED BY <1>1, <1>2, <1>3 DEF Verdict

\* Only a fault moves the clock, and every fault is counted.
LEMMA MeasuredStep == ASSUME AdmissionInv, Measured, [Next]_vars PROVE Measured'
<1>1. AdmissionTyped
  BY DEF AdmissionInv
<1>2. MaxFaults \in Nat /\ Missing \in Verdicts
  BY BoundsAreNat, VerdictsAre
<1>3. ASSUME NEW h \in Hosts, NEW verdict \in Verdicts, Becomes(h, verdict)
      PROVE  admitted' \in [Hosts -> Verdicts]
  BY <1>3 DEF Becomes, Measured
<1>4. ASSUME UNCHANGED <<clock, database, faults>>, admitted' \in [Hosts -> Verdicts]
      PROVE  Measured'
  BY <1>4 DEF Measured
<1>5. ASSUME NEW h \in Hosts, Inspect(h) PROVE Measured'
  <2>1. Becomes(h, Rejected("walletArtifactVerifierConfigurationInvalid")) \/ UNCHANGED admitted
    BY <1>5 DEF Inspect
  <2>2. admitted' \in [Hosts -> Verdicts]
    BY <1>3, <2>1, VerdictsAre DEF Measured
  <2> QED BY <1>4, <1>5, <2>2 DEF Inspect
<1>6. ASSUME NEW h \in Hosts, ReadManifest(h) PROVE Measured'
  <2> DEFINE reason == ManifestRejection(manifest, clock)
  <2>1. \/ UNCHANGED admitted
        \/ Becomes(h, Missing)
        \/ manifest.doc # Absent /\ reason # "" /\ Becomes(h, Rejected(reason))
    BY <1>6 DEF ReadManifest
  <2>2. manifest.doc # Absent /\ reason # "" => reason \in Reasons
    BY <1>1, ReasonsAre DEF AdmissionTyped
  <2> HIDE DEF reason
  <2>3. admitted' \in [Hosts -> Verdicts]
    BY <1>2, <1>3, <2>1, <2>2, VerdictsAre DEF Measured
  <2> QED BY <1>4, <1>6, <2>3 DEF ReadManifest
<1>7. ASSUME NEW h \in Hosts, CheckArtifact(h) PROVE Measured'
  <2> DEFINE verdict == Verdict(Configuration[h], retained[h].manifest, artifact)
  <2>1. UNCHANGED admitted \/ Becomes(h, verdict)
    BY <1>7 DEF CheckArtifact
  <2>2. admitted' \in [Hosts -> Verdicts]
    BY <1>3, <2>1, VerdictIs DEF Measured
  <2> QED BY <1>4, <1>7, <2>2 DEF CheckArtifact
<1>8. ASSUME NEW h \in Hosts, Commit(h) PROVE Measured'
  <2>1. Becomes(h, Admitted) \/ Becomes(h, Rejected("walletArtifactRollbackRejected"))
    BY <1>8 DEF Commit
  <2>2. admitted' \in [Hosts -> Verdicts]
    BY <1>3, <2>1, VerdictsAre
  <2> QED BY <1>4, <1>8, <2>2 DEF Commit
<1>9. ASSUME NEW h \in Hosts,
             \/ BeginCommit(h) \/ Launch(h) \/ LockForLaunch(h) \/ Copy(h) \/ Verify(h)
             \/ Spawn(h) \/ AttestDatabase(h) \/ EndSession(h)
      PROVE  Measured'
  BY <1>4, <1>9 DEF BeginCommit, Launch, LockForLaunch, Copy, Verify, Spawn, AttestDatabase,
                    EndSession, Measured
<1>10. ASSUME NEW h \in Hosts, Die(h) PROVE Measured'
  <2>1. admitted' = [admitted EXCEPT ![h] = Missing] /\ clock' = clock /\ database' = database
    BY <1>10 DEF Die
  <2>2. faults' = faults + 1 /\ faults < MaxFaults
    BY <1>10 DEF Die, Fault
  <2> QED BY <1>2, <2>1, <2>2 DEF Measured
<1>11. CASE RemoveState \/ ReplaceDatabase \/ Tick
  <2>1. faults' = faults + 1 /\ faults < MaxFaults
    BY <1>11 DEF RemoveState, ReplaceDatabase, Tick, Fault
  <2>2. admitted' = admitted /\ (clock' = clock \/ clock' = clock + 1) /\ database' \in BOOLEAN
    BY <1>11 DEF RemoveState, ReplaceDatabase, Tick, host, Measured
  <2> QED BY <1>2, <2>1, <2>2 DEF Measured
<1>12. CASE InstallManifest \/ InstallArtifact \/ UNCHANGED vars
  BY <1>12 DEF InstallManifest, InstallArtifact, vars, host, Measured
<1> QED
  BY <1>5, <1>6, <1>7, <1>8, <1>9, <1>10, <1>11, <1>12 DEF Next, World

LEMMA MeasuredInit == ASSUME Init PROVE Measured
BY BoundsAreNat, VerdictsAre DEF Init, Measured

LEMMA AdmissionIsTyped == ASSUME AdmissionInv, Measured PROVE TypeOK
<1>1. AdmissionTyped /\ clock \in 0 .. MaxFaults /\ database \in BOOLEAN
  BY BoundsAreNat DEF AdmissionInv, Measured
<1>2. ASSUME NEW h \in Hosts, pc[h] \in Holding
      PROVE  lock = h /\ retained[h].manifest.doc # Absent
  <2>1. lock = h
    BY <1>2 DEF AdmissionInv, Exclusion
  <2>2. Doc(h) \in Documents
    BY <1>2 DEF AdmissionInv, Inspected, InspectedBy, Offering, Holding, Launching, Inspecting
  <2> QED BY <2>1, <2>2, AbsentIsNothing DEF Doc
<1> QED BY <1>1, <1>2 DEF AdmissionTyped, Measured, TypeOK
-----------------------------------------------------------------------------
\* The lock excludes, what a host read under it is what is there, and what
\* was admitted is in the state (commit_anti_rollback, launch_for_database).
THEOREM AdmissionInvariantHolds == Spec => []AdmissionInv
  BY AdmissionInit, AdmissionStep, PTL DEF Spec

\* The anti-rollback state never goes back, for any hosts with any tables.
THEOREM StateNeverGoesBack == Spec => NoRollback
<1>1. AdmissionInv /\ [Next]_vars => [NeverGoesBack]_vars
  <2> SUFFICES ASSUME AdmissionInv, Next PROVE NeverGoesBack
    BY DEF vars
  <2>1. state' = state => NeverGoesBack
    BY DEF NeverGoesBack
  <2> QED BY <2>1, StateStep
<1> QED BY <1>1, AdmissionInvariantHolds, PTL DEF Spec, NoRollback

\* A release a host calls admitted is durable, or was followed by a later one.
THEOREM AdmittedReleasesAreDurable == Spec => []AdmittedIsDurable
<1>1. AdmissionInv => AdmittedIsDurable
  BY DEF AdmissionInv, Durable, Offering, Inspecting, Doc, AdmittedIsDurable
<1> QED BY <1>1, AdmissionInvariantHolds, PTL

\* What is started is the newest release of its line, and qualified.
THEOREM OnlyCurrentReleasesStart == Spec => OnlyTheCurrentReleaseStarts
<1>1. AdmissionInv /\ [Next]_vars => [StartsTheCurrent]_vars
  <2> SUFFICES ASSUME AdmissionInv, Next, NEW h \in Hosts, NEW s \in children'[h] \ children[h]
               PROVE  /\ state'[s.doc.line] \in {Entry(s.doc)} \cup (IF removed THEN {Absent} ELSE {})
                      /\ s.content = s.doc.artifact
                      /\ QualifiedRelease(Configuration[h], s.doc) # {}
    BY DEF StartsTheCurrent
  <2>1. Spawn(h)
    BY DEF AdmissionInv, AdmissionTyped, Next, World, Inspect, ReadManifest, CheckArtifact, BeginCommit, Commit,
       Launch, LockForLaunch, Copy, Verify, Spawn, AttestDatabase, EndSession, Die,
       InstallManifest, InstallArtifact, RemoveState, ReplaceDatabase, Tick, host, Aborts
  <2>2. /\ pc[h] = "spawn" /\ state' = state
        /\ s = [doc |-> Doc(h), content |-> retained[h].artifact.doc]
    BY <2>1 DEF Spawn, Goes, Aborts, Doc, AdmissionInv, AdmissionTyped
  <2>3. Doc(h) \in Documents /\ Checked(h)
    BY <2>2 DEF AdmissionInv, Inspected, InspectedBy, Offering, Inspecting, Launching
  <2>4. s.doc = Doc(h) /\ s.content = retained[h].artifact.doc /\ Doc(h).line \in Lines
    BY <2>2, <2>3, EntryFacts
  <2>5. Recorded(state, Doc(h)) \/ (removed /\ state = Empty)
    BY <2>2 DEF AdmissionInv, StillNamed
  <2> QED BY <2>2, <2>3, <2>4, <2>5 DEF Checked, Recorded, Empty
<1> QED BY <1>1, AdmissionInvariantHolds, PTL DEF Spec, OnlyTheCurrentReleaseStarts

-----------------------------------------------------------------------------
(* The session: its invariant.                                             *)

Operations == Session!Reads \cup {"start", "all", "authority"}
SessionState ==
    [gen : 0 .. MaxGeneration, next : 0 .. MaxSequence, capabilities : SUBSET Session!Ceiling,
     wallet : Wallets \cup {NONE}, account : Wallets \cup {NONE}, claim : Nat, database : Nat]
ServiceState == [gen : 1 .. MaxGeneration, next : Nat, database : Nat]
CallState ==
    [op : Operations \cup {"none"}, at : Nat, ok : BOOLEAN,
     taken : [gen : 0 .. MaxGeneration, claim : Nat, database : Nat],
     status : {NONE} \cup [active : Wallets \cup {NONE}, hns : BOOLEAN],
     account : Wallets \cup {NONE}, context : Nat]

SessionTyped ==
    /\ next \in 1 .. MaxGeneration /\ newest \in Nat /\ session \in SessionState
    /\ live \subseteq ServiceState /\ call \in CallState /\ result \in {"none", "ok", "error"}
    /\ used \in [revision : Nat, lease : Nat, database : Nat]
    /\ wallet \in [active : Wallets \cup {NONE}, revision : Nat, hns : BOOLEAN, ready : BOOLEAN]
    /\ lease \in Nat /\ disk \in Nat /\ changes \in Nat

\* A call is at one of its steps, and has no result before its end.
Placed ==
    /\ call.op = "none" => call = Session!NoCall
    /\ call.op # "none" => call.at \in 1 .. Len(Session!Program(call.op)) /\ result = "none"

\* The generation of a start is a fresh one until its process exists.
Fresh ==
    /\ newest < next
    /\ call.op = "start" => /\ call.taken.gen \in 1 .. MaxGeneration /\ call.taken.gen < next
                            /\ call.at = 1 => newest < call.taken.gen
                            /\ call.taken.claim <= lease /\ call.taken.database <= disk

\* There is one process: none before a start has launched it, its own then, and
\* that of the session otherwise.  Both ends count alike.
Owned ==
    /\ live = {} \/ \E s \in live : live = {s}
    /\ session = Session!NoSession \/ session.gen # 0
    /\ call.op = "start" /\ call.at \in {1, 2} => session = Session!NoSession
    /\ call.op = "start" /\ call.at = 1 => live = {}
    /\ call.op = "start" /\ call.at = 2 => \A s \in live : s.next = 1
    /\ call.op = "start" /\ call.at = 3 => session.gen = call.taken.gen
    /\ call.op \notin {"none", "start"} => session # Session!NoSession
    /\ \A s \in live : s.gen = IF call.op = "start" THEN call.taken.gen ELSE session.gen
    /\ \A s \in live : s.gen = session.gen => s.next = session.next

\* The lease, the database and the revision only grow, so what was so at a use
\* lies between what was so before and after it.
Between ==
    /\ session.claim <= lease /\ session.database <= disk
    /\ call.op = "authority" =>
          /\ call.at >= 6 => call.context <= wallet.revision
          /\ call.at >= 8 =>
                /\ session.claim <= used.lease /\ used.lease <= lease
                /\ session.database <= used.database /\ used.database <= disk
                /\ call.context <= used.revision /\ used.revision <= wallet.revision
          /\ call.at >= 11 => used.revision = call.context
          /\ call.at = 12 => used.database = session.database

SessionInv == SessionTyped /\ Placed /\ Fresh /\ Owned /\ Between

-----------------------------------------------------------------------------
(* The session: where the steps of a call are.                             *)

Values == {"balance", "target", "history", "module"}

LEMMA ProgramIs ==
    /\ Session!Program("start") = <<"compose", "hello", "attest">>
    /\ Session!Program("all") = <<"enter", "boundary", "status", "accounts", "balance", "target",
                                  "history", "module", "boundary", "leave">>
    /\ Session!Program("authority") =
          <<"enter", "boundary", "status", "accounts", "context", "boundary",
            "use", "status", "accounts", "context", "boundary", "leave">>
    /\ \A op \in Session!Reads :
          Session!Program(op) = <<"enter", "boundary", op, "boundary", "leave">>
BY DEF Session!Program, Session!Reads

LEMMA ProgramLengths ==
    /\ Len(Session!Program("start")) = 3 /\ Len(Session!Program("all")) = 10
    /\ Len(Session!Program("authority")) = 12
    /\ \A op \in Session!Reads : Len(Session!Program(op)) = 5
BY ProgramIs

LEMMA Spans ==
    /\ 1 \in 1 .. Len(Session!Program("start")) /\ 2 \in 1 .. Len(Session!Program("start"))
    /\ 3 \in 1 .. Len(Session!Program("start"))
    /\ \A op \in Operations : 1 \in 1 .. Len(Session!Program(op))
<1>1. \A n \in {3, 5, 10, 12} : 1 \in 1 .. n /\ 2 \in 1 .. n /\ 3 \in 1 .. n
  OBVIOUS
<1>2. \A op \in Operations : Len(Session!Program(op)) \in {3, 5, 10, 12}
  BY ProgramLengths DEF Operations
<1>3. "start" \in Operations
  BY DEF Operations
<1> QED BY <1>1, <1>2, <1>3, Zenon

\* A start composes, says hello and attests, in this order.
LEMMA StartSteps ==
    ASSUME NEW at \in 1 .. 3, NEW step, Session!Program("start")[at] = step
    PROVE  /\ step = "compose" <=> at = 1
           /\ step = "hello" <=> at = 2
           /\ step = "attest" <=> at = 3
BY ProgramIs

\* A use of the authority is between two rounds of reads.
LEMMA AuthoritySteps ==
    ASSUME NEW at \in 1 .. 12, NEW step, Session!Program("authority")[at] = step
    PROVE  /\ step \notin {"compose", "hello", "attest"} \cup Values
           /\ step = "enter" <=> at = 1
           /\ step = "boundary" <=> at \in {2, 6, 11}
           /\ step = "status" <=> at \in {3, 8}
           /\ step = "accounts" <=> at \in {4, 9}
           /\ step = "context" <=> at \in {5, 10}
           /\ step = "use" <=> at = 7
           /\ step = "leave" <=> at = 12
<1>1. Session!Program("authority") =
          <<"enter", "boundary", "status", "accounts", "context", "boundary",
            "use", "status", "accounts", "context", "boundary", "leave">>
  BY ProgramIs
<1>2. at \in {1, 2, 3, 4, 5, 6, 7, 8, 9, 10, 11, 12}
  OBVIOUS
<1> QED BY <1>1, <1>2 DEF Values

\* No other call uses the authority, and all end with the release of the guard.
LEMMA ReadSteps ==
    ASSUME NEW op \in Session!Reads \cup {"all"}, NEW at \in 1 .. Len(Session!Program(op)),
           NEW step, Session!Program(op)[at] = step
    PROVE  /\ step \notin {"compose", "hello", "attest", "use", "context"}
           /\ step = "leave" <=> at = Len(Session!Program(op))
           /\ Len(Session!Program(op)) \in {5, 10}
<1>1. CASE op = "all"
  <2>1. at \in {1, 2, 3, 4, 5, 6, 7, 8, 9, 10} /\ Len(Session!Program(op)) = 10
    BY <1>1, ProgramLengths
  <2>2. Session!Program(op) = <<"enter", "boundary", "status", "accounts", "balance", "target",
                                "history", "module", "boundary", "leave">>
    BY <1>1, ProgramIs
  <2> QED BY <2>1, <2>2
<1>2. CASE op \in Session!Reads
  <2>1. at \in {1, 2, 3, 4, 5} /\ Len(Session!Program(op)) = 5
    BY <1>2, ProgramLengths
  <2>2. Session!Program(op) = <<"enter", "boundary", op, "boundary", "leave">>
    BY <1>2, ProgramIs
  <2>3. op \in {"status", "accounts", "balance", "target", "history", "module"}
    BY <1>2 DEF Session!Reads
  <2> QED BY <2>1, <2>2, <2>3
<1> QED BY <1>1, <1>2

\* What a step says of the call it belongs to.
Length(op) == Len(Session!Program(op))
LEMMA Placing ==
    ASSUME SessionTyped, Placed, NEW step, Session!Doing(step)
    PROVE  /\ call.op \in Operations /\ call.at \in 1 .. Length(call.op) /\ result = "none"
           /\ step \notin {"leave", "attest"} => call.at + 1 \in 1 .. Length(call.op)
           /\ call.op # "start" => Length(call.op) - 1 \in 1 .. Length(call.op)
<1>1. /\ call.op \in Operations /\ call.at \in Nat /\ result = "none"
      /\ call.at \in 1 .. Length(call.op)
      /\ Session!Program(call.op)[call.at] = step
  BY DEF SessionTyped, CallState, Placed, Session!Doing, Length
<1>2. CASE call.op = "start"
  <2>1. Length(call.op) = 3
    BY <1>2, ProgramLengths DEF Length
  <2>2. step # "attest" => call.at # 3
    BY <1>1, <1>2, <2>1, StartSteps
  <2> QED BY <1>1, <1>2, <2>1, <2>2
<1>3. CASE call.op = "authority"
  <2>1. Length(call.op) = 12
    BY <1>3, ProgramLengths DEF Length
  <2>2. step # "leave" => call.at # 12
    BY <1>1, <1>3, <2>1, AuthoritySteps
  <2> QED BY <1>1, <2>1, <2>2
<1>4. CASE call.op \in Session!Reads \cup {"all"}
  <2>1. /\ step = "leave" <=> call.at = Length(call.op)
        /\ Length(call.op) \in {5, 10}
    BY <1>1, <1>4, ReadSteps DEF Length
  <2> DEFINE n == Length(call.op)
  <2>2. call.at \in 1 .. n /\ n \in {5, 10} /\ (step = "leave" <=> call.at = n)
    BY <1>1, <2>1
  <2> HIDE DEF n
  <2>3. (step # "leave" => call.at + 1 \in 1 .. n) /\ n - 1 \in 1 .. n
    BY <2>2
  <2> QED BY <1>1, <2>3 DEF n
<1> QED BY <1>1, <1>2, <1>3, <1>4 DEF Operations

LEMMA PlacingStart ==
    ASSUME SessionTyped, Placed, NEW step, Session!Doing(step), call.op = "start"
    PROVE  /\ step \in {"compose", "hello", "attest"} /\ call.at \in {1, 2, 3}
           /\ step = "compose" <=> call.at = 1
           /\ step = "hello" <=> call.at = 2
           /\ step = "attest" <=> call.at = 3
<1>1. call.at \in 1 .. 3 /\ Session!Program("start")[call.at] = step
  BY Placing, ProgramLengths DEF Session!Doing, Length
<1>2. call.at \in {1, 2, 3}
  BY <1>1
<1> QED BY <1>1, <1>2, StartSteps

LEMMA PlacingAuthority ==
    ASSUME SessionTyped, Placed, NEW step, Session!Doing(step), call.op = "authority"
    PROVE  /\ call.at \in 1 .. 12
           /\ step \notin {"compose", "hello", "attest"} \cup Values
           /\ step = "enter" <=> call.at = 1
           /\ step = "boundary" <=> call.at \in {2, 6, 11}
           /\ step = "status" <=> call.at \in {3, 8}
           /\ step = "accounts" <=> call.at \in {4, 9}
           /\ step = "context" <=> call.at \in {5, 10}
           /\ step = "use" <=> call.at = 7
           /\ step = "leave" <=> call.at = 12
<1>1. call.at \in 1 .. 12 /\ Session!Program("authority")[call.at] = step
  BY Placing, ProgramLengths DEF Session!Doing, Length
<1> QED BY <1>1, AuthoritySteps

LEMMA PlacingOthers ==
    ASSUME SessionTyped, Placed, NEW step, Session!Doing(step)
    PROVE  /\ step \in {"compose", "hello", "attest"} <=> call.op = "start"
           /\ step \in {"use", "context"} => call.op = "authority"
           /\ step \in Values => call.op # "authority"
<1>1. CASE call.op = "start"
  <2>1. step \in {"compose", "hello", "attest"}
    BY <1>1, PlacingStart
  <2> QED BY <1>1, <2>1
<1>2. CASE call.op = "authority"
  <2>1. step \notin {"compose", "hello", "attest"} \cup Values
    BY <1>2, PlacingAuthority
  <2> QED BY <1>2, <2>1
<1>3. CASE call.op \in Session!Reads \cup {"all"}
  <2>1. call.at \in 1 .. Length(call.op) /\ Session!Program(call.op)[call.at] = step
    BY Placing DEF Session!Doing
  <2>2. step \notin {"compose", "hello", "attest", "use", "context"}
    BY <1>3, <2>1, ReadSteps DEF Length
  <2>3. call.op # "start" /\ call.op # "authority"
    BY <1>3 DEF Session!Reads
  <2> QED BY <2>2, <2>3
<1> QED BY <1>1, <1>2, <1>3, Placing DEF Operations

-----------------------------------------------------------------------------
(* The session: how a step of a call ends.                                 *)

SessionSettled == UNCHANGED <<next, newest, wallet, lease, disk, changes>>
UsedTyped == used \in [revision : Nat, lease : Nat, database : Nat]

LEMMA NothingIsTypedInSessions ==
    /\ Session!NoSession \in SessionState /\ Session!NoSession.gen = 0
    /\ Session!NoSession.claim = 0 /\ Session!NoSession.database = 0
    /\ Session!NoSession.next = 0
    /\ Session!NoCall \in CallState /\ Session!NoCall.op = "none"
    /\ Session!NotUsed \in [revision : Nat, lease : Nat, database : Nat]
BY SessionConstants DEF Session!Assumptions, Session!NoSession, Session!NoCall, Session!NotUsed,
   Session!Taken, SessionState, CallState

\* The call returns and leaves the session and its process, or the session ends
\* and its process with it.
LEMMA CallReturns ==
    ASSUME SessionInv, SessionSettled, UsedTyped', call' = Session!NoCall,
           result' \in {"none", "ok", "error"},
           \/ session' = session /\ live' \subseteq live /\ \A s \in live' : s.gen = session.gen
           \/ session' = Session!NoSession /\ live' = {}
    PROVE  SessionInv'
<1>1. /\ SessionTyped /\ Placed /\ Fresh /\ Owned /\ Between
  BY DEF SessionInv
<1>2. SessionTyped'
  BY <1>1, NothingIsTypedInSessions DEF SessionTyped, SessionSettled, UsedTyped
<1>3. Placed' /\ Fresh'
  BY <1>1, NothingIsTypedInSessions DEF Placed, Fresh, SessionSettled
<1>4. Owned'
  <2>1. call'.op = "none"
    BY NothingIsTypedInSessions
  <2>2. CASE session' = session /\ live' \subseteq live /\ \A s \in live' : s.gen = session.gen
    <3>1. live' = {} \/ \E s \in live' : live' = {s}
      BY <1>1, <2>2 DEF Owned
    <3> QED BY <1>1, <2>1, <2>2, <3>1 DEF Owned
  <2>3. CASE session' = Session!NoSession /\ live' = {}
    BY <2>1, <2>3 DEF Owned
  <2> QED BY <2>2, <2>3
<1>5. Between'
  <2>1. call'.op # "authority"
    BY NothingIsTypedInSessions
  <2>2. lease' = lease /\ disk' = disk /\ lease \in Nat /\ disk \in Nat
    BY <1>1 DEF SessionTyped, SessionSettled
  <2> QED BY <1>1, <2>1, <2>2, NothingIsTypedInSessions DEF Between
<1> QED BY <1>2, <1>3, <1>4, <1>5 DEF SessionInv

\* Nothing is left of a session that is poisoned.
LEMMA PoisonKeeps ==
    ASSUME SessionInv, SessionSettled, UsedTyped', Session!Poison,
           call.op = "start" => call.at = 3
    PROVE  SessionInv'
<1>1. \A s \in live : s.gen = session.gen
  BY DEF SessionInv, Owned
<1>2. live' = {} /\ session' = Session!NoSession /\ call' = Session!NoCall /\ result' = "error"
  BY <1>1 DEF Session!Poison, Session!Killed, Session!Return
<1> QED BY <1>2, CallReturns

\* The call goes on to another of its steps.
LEMMA CallGoesOn ==
    ASSUME SessionInv, SessionSettled, UsedTyped', result' = result,
           call.op \notin {"none", "start"}, call' \in CallState, call'.op = call.op,
           call'.at \in 1 .. Length(call.op), session' \in SessionState,
           session'.gen = session.gen, session'.claim = session.claim,
           session'.database = session.database,
           \/ live' = live /\ session'.next = session.next
           \/ \E s \in live, t \in ServiceState :
                 live' = {t} /\ t.gen = s.gen /\ t.next = session'.next,
           call.op = "authority" => Between'
    PROVE  SessionInv'
<1>1. /\ SessionTyped /\ Placed /\ Fresh /\ Owned /\ Between
  BY DEF SessionInv
<1>2. live' \subseteq ServiceState
  BY <1>1 DEF SessionTyped
<1>3. SessionTyped'
  BY <1>1, <1>2 DEF SessionTyped, SessionSettled, UsedTyped
<1>4. Placed' /\ Fresh'
  BY <1>1 DEF Placed, Fresh, SessionSettled, Length
<1>5. Owned'
  <2>1. session.gen # 0
    BY <1>1 DEF Owned
  <2>2. session' # Session!NoSession /\ session'.gen # 0
    BY <2>1, NothingIsTypedInSessions
  <2>3. live' = {} \/ \E s \in live' : live' = {s}
    BY <1>1 DEF Owned
  <2>4. \A t \in live' : t.gen = session'.gen
    BY <1>1 DEF Owned
  <2>5. \A t \in live' : t.gen = session'.gen => t.next = session'.next
    BY <1>1 DEF Owned
  <2> QED BY <2>2, <2>3, <2>4, <2>5 DEF Owned
<1>6. Between'
  <2>1. lease' = lease /\ disk' = disk
    BY DEF SessionSettled
  <2> QED BY <1>1, <2>1 DEF Between
<1> QED BY <1>3, <1>4, <1>5, <1>6 DEF SessionInv

\* One exchange: both ends count it.
LEMMA CountedMoves ==
    ASSUME SessionInv, call.op \notin {"none", "start"}, NEW failed, NEW selected \in SessionState,
           selected.gen = session.gen, Session!Services # {}, Session!Counted(failed, selected)
    PROVE  /\ session' \in SessionState /\ session'.gen = selected.gen
           /\ session'.claim = selected.claim /\ session'.database = selected.database
           /\ \E s \in live, t \in ServiceState :
                 live' = {t} /\ t.gen = s.gen /\ t.next = session'.next
<1>1. /\ SessionTyped /\ Owned
  BY DEF SessionInv
<1> DEFINE s == Session!Service
           t == [s EXCEPT !.next = s.next + 1]
<1>2. s \in live
  BY DEF Session!Service, Session!Services
<1>3. live = {s} /\ s \in ServiceState
  BY <1>1, <1>2 DEF Owned, SessionTyped
<1>4. /\ session.next < MaxSequence /\ s.next = session.next
      /\ session' = [selected EXCEPT !.next = session.next + 1]
      /\ live' = (live \ {s}) \cup {t}
  BY DEF Session!Counted, Session!Advanced
<1> HIDE DEF s
<1>5. t \in ServiceState /\ t.gen = s.gen /\ t.next = s.next + 1
  BY <1>3 DEF ServiceState
<1> HIDE DEF t
<1>6. live' = {t}
  BY <1>3, <1>4
<1>7. session.next + 1 \in 0 .. MaxSequence
  BY <1>1, <1>4, SessionConstants DEF SessionTyped, SessionState, Session!Assumptions
<1>8. /\ session' \in SessionState /\ session'.gen = selected.gen /\ session'.next = session.next + 1
      /\ session'.claim = selected.claim /\ session'.database = selected.database
  BY <1>4, <1>7 DEF SessionState
<1>9. t.next = session'.next
  BY <1>4, <1>5, <1>8
<1> QED BY <1>2, <1>5, <1>6, <1>8, <1>9

\* An error that the session survives.
LEMMA RefuseKeeps ==
    ASSUME SessionInv, SessionSettled, used' = used, call.op \notin {"none", "start", "authority"},
           Session!Refuse,
           \/ session' = session /\ live' = live
           \/ \E failed \in BOOLEAN, selected \in SessionState :
                 /\ selected.gen = session.gen /\ selected.claim = session.claim
                 /\ selected.database = session.database
                 /\ Session!Services # {} /\ Session!Counted(failed, selected)
    PROVE  SessionInv'
<1>1. /\ SessionTyped /\ Placed
  BY DEF SessionInv
<1>2. /\ call' = [call EXCEPT !.ok = FALSE, !.at = Length(call.op) - 1] /\ result' = result
  BY DEF Session!Refuse, Length
<1>3. Length(call.op) - 1 \in 1 .. Length(call.op) /\ Length(call.op) - 1 \in Nat
  <2>1. call.op \in Session!Reads \cup {"all"}
    BY <1>1 DEF SessionTyped, CallState, Operations
  <2>2. Length(call.op) \in {5, 10}
    BY <2>1, ProgramLengths DEF Length
  <2> QED BY <2>2
<1>4. /\ call' \in CallState /\ call'.op = call.op /\ call'.at = Length(call.op) - 1
  BY <1>1, <1>2, <1>3 DEF SessionTyped, CallState
<1>5. UsedTyped'
  BY <1>1 DEF SessionTyped, UsedTyped
<1>6. CASE session' = session /\ live' = live
  BY <1>1, <1>2, <1>3, <1>4, <1>5, <1>6, CallGoesOn DEF SessionTyped
<1>7. CASE \E failed \in BOOLEAN, selected \in SessionState :
              /\ selected.gen = session.gen /\ selected.claim = session.claim
              /\ selected.database = session.database
              /\ Session!Services # {} /\ Session!Counted(failed, selected)
  <2>1. /\ session' \in SessionState /\ session'.gen = session.gen
        /\ session'.claim = session.claim /\ session'.database = session.database
        /\ \E s \in live, t \in ServiceState :
              live' = {t} /\ t.gen = s.gen /\ t.next = session'.next
    BY <1>7, CountedMoves
  <2> QED BY <1>2, <1>3, <1>4, <1>5, <2>1, CallGoesOn
<1> QED BY <1>6, <1>7

\* An exchange without an answer that could be used.
LEMMA UnansweredKeeps ==
    ASSUME SessionInv, SessionSettled, used' = used, call.op \notin {"none", "start"},
           Session!Unanswered
    PROVE  SessionInv'
<1>1. UsedTyped' /\ session \in SessionState
  BY DEF SessionInv, SessionTyped, UsedTyped
<1>2. CASE Session!Poison
  BY <1>1, <1>2, PoisonKeeps
<1>3. CASE /\ Session!Services # {} /\ call.op # "authority"
           /\ Session!Counted(TRUE, session) /\ Session!Refuse
  BY <1>1, <1>3, RefuseKeeps
<1> QED BY <1>2, <1>3 DEF Session!Unanswered, Session!Failed, Session!Malformed, Session!TimedOut

-----------------------------------------------------------------------------
(* The session: its steps.                                                 *)

LEMMA StartKeeps == ASSUME SessionInv, Session!Start PROVE SessionInv'
<1>1. /\ SessionTyped /\ Placed /\ Fresh /\ Owned /\ Between
  BY DEF SessionInv
<1>2. /\ call.op = "none" /\ next < MaxGeneration /\ next' = next + 1 /\ newest' = newest
      /\ session' = Session!NoSession /\ used' = Session!NotUsed
      /\ wallet' = wallet /\ lease' = lease /\ disk' = disk /\ changes' = changes
  BY NothingIsTypedInSessions DEF Session!Start, Session!NextGeneration, Session!world
<1>3. live' = {}
  BY <1>1, <1>2 DEF Session!Start, Session!DropsPrevious, Session!Killed, Owned
<1>4. MaxGeneration \in Nat /\ next + 1 \in 1 .. MaxGeneration /\ next \in 1 .. MaxGeneration
  BY <1>1, <1>2, SessionConstants DEF SessionTyped, Session!Assumptions
<1>5. CASE call' = Session!NoCall /\ result' = "error"
  <2>1. SessionTyped'
    BY <1>1, <1>2, <1>3, <1>4, <1>5, NothingIsTypedInSessions DEF SessionTyped
  <2>2. Placed' /\ Fresh'
    BY <1>1, <1>2, <1>4, <1>5, NothingIsTypedInSessions DEF Placed, Fresh, SessionTyped
  <2>3. Owned' /\ Between'
    BY <1>1, <1>2, <1>3, <1>5, NothingIsTypedInSessions DEF Owned, Between, SessionTyped
  <2> QED BY <2>1, <2>2, <2>3 DEF SessionInv
<1>6. CASE /\ call' = [Session!NoCall EXCEPT !.op = "start", !.at = 1,
                           !.taken = [gen |-> next, claim |-> lease, database |-> disk]]
           /\ result' = "none"
  <2>1. /\ call' \in CallState /\ call'.op = "start" /\ call'.at = 1
        /\ call'.taken = [gen |-> next, claim |-> lease, database |-> disk]
    <3> DEFINE taken == [gen |-> next, claim |-> lease, database |-> disk]
    <3>1. taken \in [gen : 0 .. MaxGeneration, claim : Nat, database : Nat]
      BY <1>1, <1>4 DEF SessionTyped
    <3>2. taken.gen = next /\ taken.claim = lease /\ taken.database = disk
      OBVIOUS
    <3> HIDE DEF taken
    <3>3. call' = [Session!NoCall EXCEPT !.op = "start", !.at = 1, !.taken = taken]
      BY <1>6 DEF taken
    <3>4. "start" \in Operations /\ 1 \in Nat
      BY DEF Operations
    <3>5. /\ call' \in CallState /\ call'.op = "start" /\ call'.at = 1 /\ call'.taken = taken
      BY <3>1, <3>3, <3>4, NothingIsTypedInSessions DEF CallState
    <3> QED BY <3>5 DEF taken
  <2>2. SessionTyped'
    BY <1>1, <1>2, <1>3, <1>4, <1>6, <2>1, NothingIsTypedInSessions DEF SessionTyped
  <2>3. Placed' /\ Fresh'
    <3>1. /\ call'.taken.gen = next /\ call'.taken.claim = lease /\ call'.taken.database = disk
          /\ newest \in Nat /\ lease \in Nat /\ disk \in Nat /\ newest < next
      BY <1>1, <2>1 DEF SessionTyped, Fresh
    <3>2. Placed'
      BY <1>6, <2>1, Spans DEF Placed
    <3>3. Fresh'
      BY <1>2, <1>4, <3>1 DEF Fresh
    <3> QED BY <3>2, <3>3
  <2>4. Owned' /\ Between'
    BY <1>1, <1>2, <1>3, <2>1, NothingIsTypedInSessions DEF Owned, Between, SessionTyped
  <2> QED BY <2>2, <2>3, <2>4 DEF SessionInv
<1> QED BY <1>5, <1>6 DEF Session!Start, Session!Return

LEMMA ComposeKeeps == ASSUME SessionInv, Session!Compose PROVE SessionInv'
<1>1. /\ SessionTyped /\ Placed /\ Fresh /\ Owned /\ Between
  BY DEF SessionInv
<1>2. call.op = "start" /\ call.at = 1
  <2>1. call.op = "start"
    BY <1>1, PlacingOthers DEF Session!Compose
  <2> QED BY <1>1, <2>1, PlacingStart DEF Session!Compose
<1>3. /\ live = {} /\ session = Session!NoSession /\ session' = session /\ used' = used
      /\ next' = next /\ wallet' = wallet /\ lease' = lease /\ disk' = disk /\ changes' = changes
      /\ Session!Gen = call.taken.gen
  BY <1>1, <1>2 DEF Session!Compose, Session!world, Session!Gen, Owned
<1>4. CASE Session!Return("error") /\ UNCHANGED <<live, newest>>
  BY <1>1, <1>3, <1>4, CallReturns DEF Session!Return, SessionSettled, UsedTyped, SessionTyped
<1>5. CASE /\ disk = call.taken.database
           /\ live' = live \cup {[gen |-> Session!Gen, next |-> 1, database |-> disk]}
           /\ newest' = Session!Gen /\ Session!Continue
  <2> DEFINE s == [gen |-> call.taken.gen, next |-> 1, database |-> disk]
  <2>1. live' = {s} /\ newest' = call.taken.gen /\ result' = result
    BY <1>3, <1>5 DEF Session!Continue
  <2>2. call' = [call EXCEPT !.at = call.at + 1]
    BY <1>5 DEF Session!Continue
  <2>3. /\ call' \in CallState /\ call'.op = "start" /\ call'.at = 2 /\ call'.taken = call.taken
    BY <1>1, <1>2, <2>2 DEF SessionTyped, CallState
  <2>4. s \in ServiceState /\ s.gen = call.taken.gen /\ s.next = 1
    BY <1>1, <1>2 DEF ServiceState, SessionTyped, Fresh
  <2> HIDE DEF s
  <2>5. call.taken.gen \in Nat
    BY <1>1, <1>2 DEF Fresh
  <2>6. SessionTyped'
    BY <1>1, <1>3, <2>1, <2>3, <2>4, <2>5 DEF SessionTyped
  <2>7. Placed' /\ Fresh'
    <3>1. Placed'
      BY <1>1, <1>2, <2>1, <2>3, Spans DEF Placed
    <3>2. Fresh'
      BY <1>1, <1>2, <1>3, <2>1, <2>3, <2>5 DEF Fresh
    <3> QED BY <3>1, <3>2
  <2>8. Owned'
    BY <1>1, <1>2, <1>3, <2>1, <2>3, <2>4, NothingIsTypedInSessions DEF Owned, Fresh
  <2>9. Between'
    BY <1>1, <1>3, <2>3 DEF Between
  <2> QED BY <2>6, <2>7, <2>8, <2>9 DEF SessionInv
<1> QED BY <1>4, <1>5 DEF Session!Compose

LEMMA HelloKeeps == ASSUME SessionInv, Session!Hello PROVE SessionInv'
<1>1. /\ SessionTyped /\ Placed /\ Fresh /\ Owned /\ Between
  BY DEF SessionInv
<1>2. call.op = "start" /\ call.at = 2
  <2>1. call.op = "start"
    BY <1>1, PlacingOthers DEF Session!Hello
  <2> QED BY <1>1, <2>1, PlacingStart DEF Session!Hello
<1>3. /\ session = Session!NoSession /\ next' = next /\ newest' = newest /\ used' = used
      /\ wallet' = wallet /\ lease' = lease /\ disk' = disk /\ changes' = changes
      /\ Session!Gen = call.taken.gen
  BY <1>1, <1>2 DEF Session!Hello, Session!world, Session!Gen, Owned
<1>4. CASE /\ Session!Return("error") /\ live' = live \ Session!Services /\ UNCHANGED session
  <2>1. live' = {}
    BY <1>1, <1>2, <1>3, <1>4 DEF Owned, Session!Services
  <2> QED BY <1>1, <1>3, <1>4, <2>1, CallReturns DEF Session!Return, SessionSettled, UsedTyped, SessionTyped
<1>5. CASE \E claimed \in SUBSET Session!Capabilities :
              /\ Session!HelloAccepted(claimed)
              /\ session' = [Session!NoSession EXCEPT
                                !.gen = Session!Gen, !.next = 1, !.capabilities = claimed,
                                !.claim = call.taken.claim, !.database = call.taken.database]
              /\ Session!Continue /\ UNCHANGED live
  <2>1. PICK claimed \in SUBSET Session!Ceiling :
              /\ session' = [Session!NoSession EXCEPT
                                !.gen = call.taken.gen, !.next = 1, !.capabilities = claimed,
                                !.claim = call.taken.claim, !.database = call.taken.database]
              /\ Session!Continue /\ live' = live
    BY <1>3, <1>5 DEF Session!HelloAccepted
  <2>2. /\ call.taken.gen \in 1 .. MaxGeneration /\ call.taken.claim \in Nat
        /\ call.taken.database \in Nat /\ MaxSequence \in Nat \ {0}
    BY <1>1, <1>2, SessionConstants DEF Fresh, SessionTyped, CallState, Session!Assumptions
  <2>3. /\ session' \in SessionState /\ session'.gen = call.taken.gen /\ session'.next = 1
        /\ session'.claim = call.taken.claim /\ session'.database = call.taken.database
    <3>1. /\ call.taken.gen \in 0 .. MaxGeneration /\ 1 \in 0 .. MaxSequence
      BY <2>2, SessionConstants DEF Session!Assumptions
    <3> QED BY <2>1, <2>2, <3>1, NothingIsTypedInSessions DEF SessionState
  <2>4. /\ call' \in CallState /\ call'.op = "start" /\ call'.at = 3 /\ call'.taken = call.taken
        /\ result' = result
    BY <1>1, <1>2, <2>1 DEF SessionTyped, CallState, Session!Continue
  <2>5. SessionTyped'
    BY <1>1, <1>3, <2>1, <2>3, <2>4 DEF SessionTyped
  <2>6. Placed' /\ Fresh'
    <3>1. Placed'
      BY <1>1, <1>2, <2>4, Spans DEF Placed
    <3>2. Fresh'
      BY <1>1, <1>2, <1>3, <2>4 DEF Fresh
    <3> QED BY <3>1, <3>2
  <2>7. Owned'
    BY <1>1, <1>2, <2>1, <2>2, <2>3, <2>4 DEF Owned
  <2>8. Between'
    BY <1>1, <1>2, <1>3, <2>3, <2>4 DEF Between, Fresh
  <2> QED BY <2>5, <2>6, <2>7, <2>8 DEF SessionInv
<1> QED BY <1>4, <1>5 DEF Session!Hello

LEMMA AttestKeeps == ASSUME SessionInv, Session!Attest PROVE SessionInv'
<1>1. /\ SessionTyped /\ Placed /\ Fresh /\ Owned /\ Between
  BY DEF SessionInv
<1>2. call.op = "start" /\ call.at = 3
  <2>1. call.op = "start"
    BY <1>1, PlacingOthers DEF Session!Attest
  <2> QED BY <1>1, <2>1, PlacingStart DEF Session!Attest
<1>3. SessionSettled /\ UsedTyped'
  BY <1>1 DEF Session!Attest, Session!world, SessionSettled, UsedTyped, SessionTyped
<1>4. CASE Session!Poison
  BY <1>2, <1>3, <1>4, PoisonKeeps
<1>5. CASE Session!Return("ok") /\ UNCHANGED <<session, live>>
  <2>1. \A s \in live : s.gen = session.gen
    BY <1>1, <1>2 DEF Owned
  <2> QED BY <1>3, <1>5, <2>1, CallReturns DEF Session!Return
<1> QED BY <1>4, <1>5 DEF Session!Attest

LEMMA InvalidateKeeps ==
    ASSUME SessionInv, NEW gen, Session!Invalidate(gen) PROVE SessionInv'
<1>1. /\ SessionTyped /\ Owned
  BY DEF SessionInv
<1>2. live' = {}
  BY <1>1, NothingIsTypedInSessions DEF Session!Invalidate, Session!Killed, Owned
<1> QED BY <1>1, <1>2, CallReturns
        DEF Session!Invalidate, Session!world, SessionSettled, UsedTyped, SessionTyped

LEMMA CallKeeps ==
    ASSUME SessionInv, NEW op \in Session!Reads \cup {"all", "authority"}, Session!Call(op)
    PROVE  SessionInv'
<1>1. /\ SessionTyped /\ Placed /\ Fresh /\ Owned /\ Between
  BY DEF SessionInv
<1>2. /\ call.op = "none" /\ session # Session!NoSession /\ session' = session /\ live' = live
      /\ result' = "none" /\ used' = Session!NotUsed /\ next' = next /\ newest' = newest
      /\ wallet' = wallet /\ lease' = lease /\ disk' = disk /\ changes' = changes
  BY NothingIsTypedInSessions DEF Session!Call, Session!world
<1>3. op \in Operations /\ op \notin {"none", "start"}
  BY DEF Operations, Session!Reads
<1>4. call' \in CallState /\ call'.op = op /\ call'.at = 1
  BY <1>3, NothingIsTypedInSessions DEF Session!Call, CallState
<1>5. 1 \in 1 .. Len(Session!Program(op))
  BY <1>3, Spans
<1>6. SessionTyped'
  BY <1>1, <1>2, <1>4, NothingIsTypedInSessions DEF SessionTyped
<1>7. Placed' /\ Fresh'
  BY <1>1, <1>2, <1>3, <1>4, <1>5 DEF Placed, Fresh
<1>8. Owned' /\ Between'
  BY <1>1, <1>2, <1>3, <1>4 DEF Owned, Between
<1> QED BY <1>6, <1>7, <1>8 DEF SessionInv

\* What a use of the authority knows of the time around it, one step on.
LEMMA AuthorityGoesOn ==
    ASSUME SessionInv, SessionSettled, used' = used, call.op = "authority",
           call.at \in Nat, call'.at = call.at + 1, call.at # 7,
           session'.claim = session.claim, session'.database = session.database,
           call'.context = IF call.at = 5 THEN wallet.revision ELSE call.context,
           call.at = 10 => wallet.revision = call.context,
           call.at = 11 => disk = session.database
    PROVE  Between'
<1>1. SessionTyped /\ Between
  BY DEF SessionInv
<1>2. /\ lease' = lease /\ disk' = disk /\ wallet' = wallet
      /\ wallet.revision \in Nat /\ used.revision \in Nat /\ used.database \in Nat
      /\ call.context \in Nat /\ session.database \in Nat /\ disk \in Nat
  BY <1>1 DEF SessionTyped, SessionSettled, CallState, SessionState
<1>3. session'.claim <= lease' /\ session'.database <= disk'
  BY <1>1, <1>2 DEF Between
<1>4. call'.at >= 6 => call'.context <= wallet.revision
  BY <1>1, <1>2 DEF Between
<1>5. CASE call'.at >= 8
  <2>1. call.at >= 8 /\ call.at >= 6 /\ call.at # 5 /\ call'.context = call.context
    BY <1>5
  <2>2. call'.at >= 11 => used.revision = call.context
    BY <1>1, <1>2, <2>1 DEF Between
  <2>3. call'.at = 12 => used.database = session.database
    BY <1>1, <1>2, <2>1 DEF Between
  <2> QED BY <1>1, <1>2, <1>3, <1>4, <2>1, <2>2, <2>3 DEF Between
<1>6. CASE ~(call'.at >= 8)
  <2>1. call'.at # 12 /\ ~(call'.at >= 11)
    BY <1>6
  <2> QED BY <1>2, <1>3, <1>4, <1>6, <2>1 DEF Between
<1> QED BY <1>5, <1>6

\* A step of the guard or at a boundary.
LEMMA GuardKeeps ==
    ASSUME SessionInv, SessionSettled, used' = used, call.op \notin {"none", "start"},
           call.at + 1 \in 1 .. Length(call.op), Session!Continue, UNCHANGED <<session, live>>,
           call.op = "authority" => call.at \notin {5, 7, 10},
           call.op = "authority" /\ call.at = 11 => disk = session.database
    PROVE  SessionInv'
<1>1. SessionTyped
  BY DEF SessionInv
<1>2. /\ call' \in CallState /\ call'.op = call.op /\ call'.at = call.at + 1
      /\ call'.context = call.context /\ call.at \in Nat /\ result' = result
  BY <1>1 DEF SessionTyped, CallState, Session!Continue
<1>3. call.op = "authority" => Between'
  BY <1>2, AuthorityGoesOn
<1>4. UsedTyped' /\ session' \in SessionState
  BY <1>1 DEF SessionTyped, UsedTyped
<1> QED BY <1>2, <1>3, <1>4, CallGoesOn

LEMMA EnterKeeps == ASSUME SessionInv, Session!Enter PROVE SessionInv'
<1>1. /\ SessionTyped /\ Placed /\ Session!Doing("enter")
  BY DEF SessionInv, Session!Enter
<1>2. call.op \in Operations /\ call.op # "start" /\ call.at + 1 \in 1 .. Length(call.op)
  BY <1>1, Placing, PlacingOthers
<1>3. call.op # "none"
  BY <1>2 DEF Operations, Session!Reads
<1>4. call.op = "authority" => call.at = 1
  BY <1>1, PlacingAuthority
<1>5. SessionSettled /\ used' = used /\ UsedTyped'
  BY <1>1 DEF Session!Enter, Session!world, SessionSettled, SessionTyped, UsedTyped
<1>6. CASE Session!Poison
  BY <1>2, <1>5, <1>6, PoisonKeeps
<1>7. CASE Session!Continue /\ UNCHANGED <<session, live>>
  BY <1>2, <1>3, <1>4, <1>5, <1>7, GuardKeeps
<1> QED BY <1>6, <1>7 DEF Session!Enter

LEMMA BoundaryKeeps == ASSUME SessionInv, Session!Boundary PROVE SessionInv'
<1>1. /\ SessionTyped /\ Placed /\ Session!Doing("boundary")
  BY DEF SessionInv, Session!Boundary
<1>2. call.op \in Operations /\ call.op # "start" /\ call.at + 1 \in 1 .. Length(call.op)
  BY <1>1, Placing, PlacingOthers
<1>3. call.op # "none"
  BY <1>2 DEF Operations, Session!Reads
<1>4. call.op = "authority" => call.at \in {2, 6, 11}
  BY <1>1, PlacingAuthority
<1>5. SessionSettled /\ used' = used /\ UsedTyped'
  BY <1>1 DEF Session!Boundary, Session!world, SessionSettled, SessionTyped, UsedTyped
<1>6. CASE Session!Poison
  BY <1>2, <1>5, <1>6, PoisonKeeps
<1>7. CASE /\ Session!DatabaseHeld /\ Session!Continue /\ UNCHANGED <<session, live>>
  <2>1. disk = session.database
    BY <1>7 DEF Session!DatabaseHeld
  <2>2. call.op = "authority" => call.at \notin {5, 7, 10}
    BY <1>4
  <2> QED BY <1>2, <1>3, <1>5, <1>7, <2>1, <2>2, GuardKeeps
<1> QED BY <1>6, <1>7 DEF Session!Boundary

LEMMA LeaveKeeps == ASSUME SessionInv, Session!Leave PROVE SessionInv'
<1>1. /\ SessionTyped /\ Placed /\ Owned /\ Session!Doing("leave")
  BY DEF SessionInv, Session!Leave
<1>2. call.op # "start"
  BY <1>1, PlacingOthers
<1>3. SessionSettled /\ UsedTyped'
  BY <1>1 DEF Session!Leave, Session!world, SessionSettled, SessionTyped, UsedTyped
<1>4. CASE Session!Poison
  BY <1>2, <1>3, <1>4, PoisonKeeps
<1>5. CASE Session!Return(IF call.ok THEN "ok" ELSE "error") /\ UNCHANGED <<session, live>>
  <2>1. \A s \in live : s.gen = session.gen
    BY <1>1, <1>2 DEF Owned
  <2> QED BY <1>3, <1>5, <2>1, CallReturns DEF Session!Return
<1> QED BY <1>4, <1>5 DEF Session!Leave

\* The consumer sees what lies between the two rounds of reads.
LEMMA UseKeeps == ASSUME SessionInv, Session!Use PROVE SessionInv'
<1>1. /\ SessionTyped /\ Placed /\ Between /\ Session!Doing("use")
  BY DEF SessionInv, Session!Use
<1>2. call.op = "authority" /\ call.at = 7
  <2>1. call.op = "authority"
    BY <1>1, PlacingOthers
  <2> QED BY <1>1, <2>1, PlacingAuthority
<1>3. SessionSettled /\ used' = [revision |-> wallet.revision, lease |-> lease, database |-> disk]
  BY DEF Session!Use, Session!world, SessionSettled
<1>4. UsedTyped'
  BY <1>1, <1>3 DEF SessionTyped, UsedTyped
<1>5. CASE Session!Poison
  BY <1>2, <1>3, <1>4, <1>5, PoisonKeeps
<1>6. CASE /\ \E ok \in BOOLEAN : call' = [call EXCEPT !.at = @ + 1, !.ok = ok]
           /\ UNCHANGED <<session, live, result>>
  <2>1. /\ call' \in CallState /\ call'.op = call.op /\ call'.at = 8
        /\ call'.context = call.context
    <3>1. PICK ok \in BOOLEAN : call' = [call EXCEPT !.at = call.at + 1, !.ok = ok]
      BY <1>6
    <3>2. call.at + 1 = 8 /\ call.at + 1 \in Nat /\ call \in CallState
      BY <1>1, <1>2 DEF SessionTyped
    <3> QED BY <3>1, <3>2 DEF CallState
  <2>2. /\ lease' = lease /\ disk' = disk /\ wallet' = wallet /\ session' = session
        /\ wallet.revision \in Nat /\ lease \in Nat /\ disk \in Nat
    BY <1>1, <1>3, <1>6 DEF SessionTyped, SessionSettled
  <2>3. Between'
    BY <1>1, <1>2, <1>3, <2>1, <2>2 DEF Between
  <2>4. call'.at \in 1 .. Length(call.op)
    <3>1. Length(call.op) = 12
      BY <1>2, ProgramLengths DEF Length
    <3> QED BY <2>1, <3>1
  <2> QED BY <1>1, <1>2, <1>3, <1>4, <1>6, <2>1, <2>3, <2>4, CallGoesOn DEF SessionTyped
<1> QED BY <1>5, <1>6 DEF Session!Use

\* An answer that the call uses.
LEMMA AnsweredKeeps ==
    ASSUME SessionInv, SessionSettled, used' = used, call.op \notin {"none", "start"},
           call.at + 1 \in 1 .. Length(call.op), Session!Services # {},
           NEW selected \in SessionState, selected.gen = session.gen,
           selected.claim = session.claim, selected.database = session.database,
           NEW seen \in CallState, seen.op = call.op, seen.at = call.at,
           call.op = "authority" =>
              /\ call.at \notin {7, 11}
              /\ seen.context = IF call.at = 5 THEN wallet.revision ELSE call.context
              /\ call.at = 10 => wallet.revision = call.context,
           Session!Answered(selected, seen)
    PROVE  SessionInv'
<1>1. SessionTyped
  BY DEF SessionInv
<1>2. /\ call' = [seen EXCEPT !.at = @ + 1] /\ result' = result /\ Session!Counted(FALSE, selected)
  BY DEF Session!Answered
<1>3. /\ call' \in CallState /\ call'.op = call.op /\ call'.at = call.at + 1
      /\ call'.context = seen.context /\ call.at \in Nat
  BY <1>1, <1>2 DEF SessionTyped, CallState
<1>4. /\ session' \in SessionState /\ session'.gen = session.gen
      /\ session'.claim = session.claim /\ session'.database = session.database
      /\ \E s \in live, t \in ServiceState :
            live' = {t} /\ t.gen = s.gen /\ t.next = session'.next
  BY <1>2, CountedMoves
<1>5. call.op = "authority" => Between'
  BY <1>3, <1>4, AuthorityGoesOn
<1>6. UsedTyped'
  BY <1>1 DEF SessionTyped, UsedTyped
<1> QED BY <1>2, <1>3, <1>4, <1>5, <1>6, CallGoesOn

LEMMA StatusKeeps == ASSUME SessionInv, Session!ReadStatus PROVE SessionInv'
<1>1. /\ SessionTyped /\ Placed /\ Session!Doing("status")
  BY DEF SessionInv, Session!ReadStatus
<1>2. call.op \in Operations /\ call.op # "start" /\ call.at + 1 \in 1 .. Length(call.op)
  BY <1>1, Placing, PlacingOthers
<1>3. call.op # "none"
  BY <1>2 DEF Operations, Session!Reads
<1>4. call.op = "authority" => call.at \in {3, 8}
  BY <1>1, PlacingAuthority
<1>5. SessionSettled /\ used' = used
  BY DEF Session!ReadStatus, Session!world, SessionSettled
<1> DEFINE seen == [call EXCEPT !.status =
                       IF call.op = "authority" THEN Session!StatusNow ELSE NONE]
<1>6. /\ Session!Bound \in SessionState /\ Session!Bound.gen = session.gen
      /\ Session!Bound.claim = session.claim /\ Session!Bound.database = session.database
  BY <1>1 DEF SessionTyped, SessionState, Session!Bound, Session!Readable
<1>7. seen \in CallState /\ seen.op = call.op /\ seen.at = call.at /\ seen.context = call.context
  <2>1. Session!StatusNow \in [active : Wallets \cup {NONE}, hns : BOOLEAN]
    BY <1>1 DEF Session!StatusNow, SessionTyped
  <2> QED BY <1>1, <2>1 DEF SessionTyped, CallState
<1> HIDE DEF seen
<1>8. CASE Session!Services # {} /\ Session!Answered(Session!Bound, seen)
  <2>1. call.op = "authority" => call.at \notin {5, 7, 10, 11}
    BY <1>4
  <2> QED BY <1>2, <1>3, <1>5, <1>6, <1>7, <1>8, <2>1, AnsweredKeeps
<1>9. CASE /\ Session!Services # {} /\ call.op = "all"
           /\ Session!Counted(FALSE, Session!Bound) /\ Session!Refuse
  BY <1>5, <1>6, <1>9, RefuseKeeps
<1>10. CASE Session!Unanswered
  BY <1>2, <1>3, <1>5, <1>10, UnansweredKeeps
<1> QED BY <1>8, <1>9, <1>10 DEF Session!ReadStatus, seen

LEMMA AccountsKeep == ASSUME SessionInv, Session!ListAccounts PROVE SessionInv'
<1>1. /\ SessionTyped /\ Placed /\ Session!Doing("accounts")
  BY DEF SessionInv, Session!ListAccounts
<1>2. call.op \in Operations /\ call.op # "start" /\ call.at + 1 \in 1 .. Length(call.op)
  BY <1>1, Placing, PlacingOthers
<1>3. call.op # "none"
  BY <1>2 DEF Operations, Session!Reads
<1>4. call.op = "authority" => call.at \in {4, 9}
  BY <1>1, PlacingAuthority
<1>5. SessionSettled /\ used' = used
  BY DEF Session!ListAccounts, Session!world, SessionSettled
<1> DEFINE seen == [call EXCEPT !.account = IF call.op = "authority" THEN wallet.active ELSE NONE]
           selected == [session EXCEPT !.account = wallet.active]
<1>6. /\ selected \in SessionState /\ selected.gen = session.gen
      /\ selected.claim = session.claim /\ selected.database = session.database
  BY <1>1 DEF SessionTyped, SessionState
<1>7. seen \in CallState /\ seen.op = call.op /\ seen.at = call.at /\ seen.context = call.context
  BY <1>1 DEF SessionTyped, CallState
<1> HIDE DEF seen, selected
<1>8. CASE Session!Services # {} /\ Session!Answered(selected, seen)
  <2>1. call.op = "authority" => call.at \notin {5, 7, 10, 11}
    BY <1>4
  <2> QED BY <1>2, <1>3, <1>5, <1>6, <1>7, <1>8, <2>1, AnsweredKeeps
<1>9. CASE Session!Unanswered
  BY <1>2, <1>3, <1>5, <1>9, UnansweredKeeps
<1> QED BY <1>8, <1>9 DEF Session!ListAccounts, seen, selected

LEMMA ValueKeeps == ASSUME SessionInv, Session!ReadValue PROVE SessionInv'
<1>1. PICK step \in Values : Session!Doing(step)
  BY DEF Session!ReadValue, Values
<1>2. /\ SessionTyped /\ Placed
  BY DEF SessionInv
<1>3. step \notin {"leave", "attest", "compose", "hello"}
  BY DEF Values
<1>4. /\ call.op \in Operations /\ call.op \notin {"start", "authority"}
      /\ call.at + 1 \in 1 .. Length(call.op)
  BY <1>1, <1>2, <1>3, Placing, PlacingOthers
<1>5. call.op # "none"
  BY <1>4 DEF Operations, Session!Reads
<1>6. SessionSettled /\ used' = used
  BY DEF Session!ReadValue, Session!world, SessionSettled
<1>7. CASE Session!Refuse /\ UNCHANGED <<session, live>>
  BY <1>4, <1>5, <1>6, <1>7, RefuseKeeps
<1>8. CASE Session!Services # {} /\ Session!Answered(session, call)
  BY <1>2, <1>4, <1>5, <1>6, <1>8, AnsweredKeeps DEF SessionTyped
<1>9. CASE Session!Unanswered
  BY <1>4, <1>5, <1>6, <1>9, UnansweredKeeps
<1> QED BY <1>7, <1>8, <1>9 DEF Session!ReadValue

\* The closing context has the revision of the first.
LEMMA ContextKeeps == ASSUME SessionInv, Session!ReadContext PROVE SessionInv'
<1>1. /\ SessionTyped /\ Placed /\ Session!Doing("context")
  BY DEF SessionInv, Session!ReadContext
<1>2. call.op = "authority" /\ call.at \in {5, 10} /\ call.at + 1 \in 1 .. Length(call.op)
  <2>1. call.op = "authority" /\ call.at + 1 \in 1 .. Length(call.op)
    BY <1>1, Placing, PlacingOthers
  <2> QED BY <1>1, <2>1, PlacingAuthority
<1>3. SessionSettled /\ used' = used /\ UsedTyped'
  BY <1>1 DEF Session!ReadContext, Session!world, SessionSettled, SessionTyped, UsedTyped
<1> DEFINE seen == [call EXCEPT !.context = wallet.revision]
<1>4. /\ seen \in CallState /\ seen.op = call.op /\ seen.at = call.at
      /\ seen.context = wallet.revision
  BY <1>1 DEF SessionTyped, CallState
<1> HIDE DEF seen
<1>5. CASE Session!Poison
  BY <1>2, <1>3, <1>5, PoisonKeeps
<1>6. CASE /\ Session!Services # {} /\ Session!ContextUnchanged /\ Session!Answered(session, seen)
  <2>1. call.at = 10 => wallet.revision = call.context
    BY <1>6 DEF Session!ContextUnchanged, Session!Second
  <2>2. call.at \notin {7, 11}
    BY <1>2
  <2>3. call.at # 5 => seen.context = call.context
    BY <1>2, <1>4, <2>1
  <2> QED BY <1>1, <1>2, <1>3, <1>4, <1>6, <2>1, <2>2, <2>3, AnsweredKeeps DEF SessionTyped
<1> QED BY <1>5, <1>6 DEF Session!ReadContext, seen

\* What changes around a call only grows.
LEMMA ChangesKeep ==
    ASSUME SessionInv,
           \/ Session!ChangeWallet \/ Session!MoveLease \/ Session!ReplaceDatabase
           \/ Session!ServiceExits
    PROVE  SessionInv'
<1>1. /\ SessionTyped /\ Placed /\ Fresh /\ Owned /\ Between
  BY DEF SessionInv
<1>2. /\ next' = next /\ newest' = newest /\ session' = session /\ call' = call
      /\ result' = result /\ used' = used /\ live' \in {live, {}} /\ changes' = changes + 1
  BY DEF Session!ChangeWallet, Session!MoveLease, Session!ReplaceDatabase, Session!ServiceExits,
         Session!Change
<1>3. /\ wallet' \in [active : Wallets \cup {NONE}, revision : Nat, hns : BOOLEAN, ready : BOOLEAN]
      /\ lease' \in Nat /\ disk' \in Nat /\ changes' \in Nat
      /\ wallet.revision <= wallet'.revision /\ lease <= lease' /\ disk <= disk'
  <2>1. /\ wallet \in [active : Wallets \cup {NONE}, revision : Nat, hns : BOOLEAN, ready : BOOLEAN]
        /\ wallet.revision \in Nat /\ lease \in Nat /\ disk \in Nat /\ changes \in Nat
    BY <1>1 DEF SessionTyped
  <2>2. CASE Session!ChangeWallet
    <3>1. PICK active \in Wallets \cup {NONE}, hns \in BOOLEAN, ready \in BOOLEAN :
             wallet' = [active |-> active, hns |-> hns, ready |-> ready,
                        revision |-> wallet.revision + 1]
      BY <2>2 DEF Session!ChangeWallet
    <3>2. lease' = lease /\ disk' = disk /\ changes' = changes + 1
      BY <2>2 DEF Session!ChangeWallet, Session!Change
    <3> QED BY <2>1, <3>1, <3>2
  <2>3. CASE Session!MoveLease
    BY <2>1, <2>3 DEF Session!MoveLease, Session!Change
  <2>4. CASE Session!ReplaceDatabase
    BY <2>1, <2>4 DEF Session!ReplaceDatabase, Session!Change
  <2>5. CASE Session!ServiceExits
    <3>1. wallet' = wallet /\ lease' = lease /\ disk' = disk /\ changes' = changes + 1
      BY <2>5 DEF Session!ServiceExits, Session!Change
    <3> QED BY <2>1, <3>1
  <2> QED BY <2>2, <2>3, <2>4, <2>5
<1>4. SessionTyped'
  BY <1>1, <1>2, <1>3 DEF SessionTyped
<1>5. Placed' /\ Owned'
  BY <1>1, <1>2 DEF Placed, Owned
<1>6. Fresh'
  <2>1. /\ lease \in Nat /\ disk \in Nat
        /\ call.taken.claim \in Nat /\ call.taken.database \in Nat
    BY <1>1 DEF SessionTyped, CallState
  <2> QED BY <1>1, <1>2, <1>3, <2>1 DEF Fresh
<1>7. Between'
  <2>1. /\ lease \in Nat /\ disk \in Nat /\ wallet.revision \in Nat /\ call.context \in Nat
        /\ session.claim \in Nat /\ session.database \in Nat
        /\ used.lease \in Nat /\ used.database \in Nat /\ used.revision \in Nat
        /\ wallet'.revision \in Nat
    BY <1>1, <1>3 DEF SessionTyped, CallState, SessionState
  <2> QED BY <1>1, <1>2, <1>3, <2>1 DEF Between
<1> QED BY <1>4, <1>5, <1>6, <1>7 DEF SessionInv

LEMMA SessionInit == ASSUME Session!Init PROVE SessionInv
<1>1. /\ next = 1 /\ newest = 0 /\ session = Session!NoSession /\ live = {}
      /\ call = Session!NoCall /\ result = "none" /\ used = Session!NotUsed
      /\ wallet \in [active : Wallets \cup {NONE}, revision : {1}, hns : {TRUE}, ready : {TRUE}]
      /\ lease = 1 /\ disk = 1 /\ changes = 0
  BY DEF Session!Init
<1>2. 1 \in 1 .. MaxGeneration
  BY SessionConstants DEF Session!Assumptions
<1>3. SessionTyped
  <2>1. wallet \in [active : Wallets \cup {NONE}, revision : Nat, hns : BOOLEAN, ready : BOOLEAN]
    <3>1. /\ wallet.active \in Wallets \cup {NONE} /\ wallet.revision = 1
          /\ wallet.hns = TRUE /\ wallet.ready = TRUE
          /\ wallet = [active |-> wallet.active, revision |-> wallet.revision, hns |-> wallet.hns,
                       ready |-> wallet.ready]
      BY <1>1
    <3>2. TRUE \in BOOLEAN /\ 1 \in Nat
      OBVIOUS
    <3> QED BY <3>1, <3>2
  <2> QED BY <1>1, <1>2, <2>1, NothingIsTypedInSessions DEF SessionTyped
<1>4. Placed /\ Fresh /\ Owned /\ Between
  BY <1>1, NothingIsTypedInSessions DEF Placed, Fresh, Owned, Between
<1> QED BY <1>3, <1>4 DEF SessionInv

LEMMA SessionStep ==
    ASSUME SessionInv, [Session!Next]_sessionVars PROVE SessionInv'
<1>1. CASE Session!Next
  <2>1. CASE Session!Step
    BY <2>1, ComposeKeeps, HelloKeeps, AttestKeeps, EnterKeeps, BoundaryKeeps, LeaveKeeps, UseKeeps,
       StatusKeeps, AccountsKeep, ValueKeeps, ContextKeeps DEF Session!Step
  <2>2. CASE \E gen \in 1 .. MaxGeneration : Session!Invalidate(gen)
    BY <2>2, InvalidateKeeps
  <2>3. CASE \E op \in Session!Reads \cup {"all", "authority"} : Session!Call(op)
    BY <2>3, CallKeeps
  <2> QED BY <1>1, <2>1, <2>2, <2>3, StartKeeps, ChangesKeep DEF Session!Next
<1>2. CASE UNCHANGED sessionVars
  BY <1>2 DEF sessionVars, SessionInv, SessionTyped, Placed, Fresh, Owned, Between
<1> QED BY <1>1, <1>2

-----------------------------------------------------------------------------
(* The session: what it promises.                                          *)

LEMMA SessionIsTyped == ASSUME SessionInv PROVE Session!TypeOK
<1>1. SessionTyped
  BY DEF SessionInv
<1>2. /\ session.gen \in 0 .. MaxGeneration /\ session.next \in 0 .. MaxSequence
      /\ session.capabilities \subseteq Session!Ceiling
      /\ session.wallet \in Wallets \cup {NONE} /\ session.account \in Wallets \cup {NONE}
      /\ \A s \in live : s.gen \in 1 .. MaxGeneration /\ s.next \in Nat /\ s.database \in Nat
  BY <1>1 DEF SessionTyped, SessionState, ServiceState
<1>3. call.op \in Session!Reads \cup {"none", "start", "all", "authority"} /\ call.ok \in BOOLEAN
  BY <1>1 DEF SessionTyped, CallState, Operations
<1> QED BY <1>1, <1>2, <1>3 DEF SessionTyped, Session!TypeOK

LEMMA SameCardinality == \A S : Session!Cardinality(S) = Cardinality(S)
BY DEF Session!Cardinality, Cardinality

LEMMA OneServiceAtATime ==
    ASSUME SessionInv PROVE Session!OneService /\ Session!SequencesAgree
<1>1. Owned
  BY DEF SessionInv
<1>2. Cardinality(live) <= 1
  <2>1. CASE live = {}
    BY <2>1, FS_EmptySet
  <2>2. CASE \E s \in live : live = {s}
    BY <2>2, FS_Singleton
  <2> QED BY <1>1, <2>1, <2>2 DEF Owned
<1>3. call = Session!NoCall => \A s \in live : s.gen = session.gen
  BY <1>1, NothingIsTypedInSessions DEF Owned
<1> QED BY <1>1, <1>2, <1>3, SameCardinality DEF Session!OneService, Session!SequencesAgree, Owned

\* Only a start makes a process, of the generation that it took.
LEMMA ProcessesAreFresh ==
    ASSUME SessionInv, Session!Next PROVE Session!SpawnsFresh
<1>1. /\ SessionTyped /\ Placed /\ Fresh /\ Owned
  BY DEF SessionInv
<1> DEFINE Old == \A s \in live' : s.gen \in {t.gen : t \in live}
<1>2. Old => Session!SpawnsFresh
  BY DEF Session!SpawnsFresh
<1>3. CASE Session!Compose
  <2>1. call.op = "start"
    BY <1>1, <1>3, PlacingOthers DEF Session!Compose
  <2>2. call.at = 1
    BY <1>1, <1>3, <2>1, PlacingStart DEF Session!Compose
  <2>3. newest < call.taken.gen
    BY <1>1, <2>1, <2>2 DEF Fresh
  <2> QED BY <1>3, <2>1, <2>3 DEF Session!Compose, Session!Gen, Session!SpawnsFresh
<1>4. ASSUME NEW failed, NEW selected, Session!Services # {}, Session!Counted(failed, selected) PROVE Old
  <2> DEFINE s == Session!Service
  <2>1. s \in live
    BY <1>4 DEF Session!Service, Session!Services
  <2>2. live' = (live \ {s}) \cup {[s EXCEPT !.next = s.next + 1]}
    BY <1>4 DEF Session!Counted
  <2> HIDE DEF s
  <2>3. [s EXCEPT !.next = s.next + 1].gen = s.gen
    BY <1>1, <2>1 DEF SessionTyped, ServiceState
  <2> QED BY <2>1, <2>2, <2>3
<1>5. Session!Poison => Old
  BY DEF Session!Poison, Session!Killed
<1>6. live' \subseteq live => Old
  OBVIOUS
<1>7. Session!Unanswered => Old
  BY <1>4, <1>5 DEF Session!Unanswered, Session!Failed, Session!Malformed, Session!TimedOut
<1>8. ASSUME NEW selected, NEW seen, Session!Services # {}, Session!Answered(selected, seen) PROVE Old
  BY <1>4, <1>8 DEF Session!Answered
<1>9. Session!ReadStatus => Old
  BY <1>4, <1>7, <1>8 DEF Session!ReadStatus
<1>10. Session!ListAccounts => Old
  BY <1>7, <1>8 DEF Session!ListAccounts
<1>11. Session!ReadValue => Old
  BY <1>6, <1>7, <1>8 DEF Session!ReadValue
<1>12. Session!ReadContext => Old
  BY <1>5, <1>8 DEF Session!ReadContext
<1> HIDE DEF Old
<1>13. \/ Session!Hello \/ Session!Attest \/ Session!Enter \/ Session!Boundary \/ Session!Leave
       \/ Session!Use
       => Old
  BY <1>5, <1>6 DEF Session!Hello, Session!Attest, Session!Enter, Session!Boundary, Session!Leave, Session!Use
<1>14. Session!Start \/ (\E gen \in 1 .. MaxGeneration : Session!Invalidate(gen))
       \/ (\E op \in Session!Reads \cup {"all", "authority"} : Session!Call(op))
       \/ Session!ChangeWallet \/ Session!MoveLease \/ Session!ReplaceDatabase \/ Session!ServiceExits
       => Old
  BY <1>6 DEF Session!Start, Session!DropsPrevious, Session!Killed, Session!Invalidate, Session!Call,
              Session!ChangeWallet, Session!MoveLease, Session!ReplaceDatabase, Session!ServiceExits
<1> QED BY <1>2, <1>3, <1>9, <1>10, <1>11, <1>12, <1>13, <1>14 DEF Session!Next, Session!Step

\* The only step by which a use of the authority succeeds is the release of the
\* guard, when lease, database and revision are what they were at the use.
LEMMA UsesAreHeld ==
    ASSUME SessionInv, [Session!Next]_sessionVars PROVE Session!UsesHeldAuthority
<1> SUFFICES ASSUME call.op = "authority", result' = "ok"
             PROVE  /\ used.revision = call.context
                    /\ used.lease = session.claim /\ used.database = session.database
  BY DEF Session!UsesHeldAuthority
<1>1. /\ SessionTyped /\ Placed /\ Between
  BY DEF SessionInv
<1>2. result = "none" /\ call # Session!NoCall
  BY <1>1, NothingIsTypedInSessions DEF Placed
<1>3. ~Session!Attest /\ ~Session!Compose /\ ~Session!Hello
  BY <1>1, PlacingAuthority DEF Session!Attest, Session!Compose, Session!Hello
<1>4. ~Session!Poison /\ ~Session!Refuse /\ ~Session!Continue
  BY <1>2 DEF Session!Poison, Session!Return, Session!Refuse, Session!Continue
<1>5. ~Session!Unanswered
  BY <1>4 DEF Session!Unanswered, Session!Failed, Session!Malformed, Session!TimedOut
<1>6. \A selected, seen : ~Session!Answered(selected, seen)
  BY <1>2 DEF Session!Answered
<1>7. /\ ~Session!Enter /\ ~Session!Boundary /\ ~Session!Use /\ ~Session!ReadStatus
      /\ ~Session!ListAccounts /\ ~Session!ReadValue /\ ~Session!ReadContext
  BY <1>2, <1>4, <1>5, <1>6 DEF Session!Enter, Session!Boundary, Session!Use, Session!ReadStatus,
     Session!ListAccounts, Session!ReadValue, Session!ReadContext
<1>8. /\ ~Session!Start /\ \A gen : ~Session!Invalidate(gen) /\ \A op : ~Session!Call(op)
  BY <1>2 DEF Session!Start, Session!Invalidate, Session!Call
<1>9. /\ ~Session!ChangeWallet /\ ~Session!MoveLease /\ ~Session!ReplaceDatabase
      /\ ~Session!ServiceExits /\ ~UNCHANGED sessionVars
  BY <1>2 DEF Session!ChangeWallet, Session!MoveLease, Session!ReplaceDatabase,
     Session!ServiceExits, sessionVars
<1>10. Session!Leave
  BY <1>3, <1>7, <1>8, <1>9 DEF Session!Next, Session!Step
<1>11. lease = session.claim
  BY <1>4, <1>10 DEF Session!Leave, Session!HeldAtRelease, Session!LeaseHeld
<1>12. call.at = 12
  BY <1>1, <1>10, PlacingAuthority DEF Session!Leave
<1>13. /\ session.claim <= used.lease /\ used.lease <= lease
       /\ used.revision = call.context /\ used.database = session.database
  BY <1>1, <1>12 DEF Between
<1>14. used.lease \in Nat /\ lease \in Nat /\ session.claim \in Nat
  BY <1>1 DEF SessionTyped, SessionState
<1> QED BY <1>11, <1>13, <1>14

-----------------------------------------------------------------------------
(* The pool statistics: their invariant.                                   *)

HrmState ==
    [generation : 0 .. MaxCommits, time : Hrm!Times,
     status : {"active", "conflicted", "exhausted"}, seen : Hrm!Authorities \cup {NONE},
     endpoints : [Endpoints -> Hrm!Positions], operators : [Operators -> Hrm!Positions]]

\* A history within its limit; only a state that was never used saw no authority.
WithinLimit(table, limit) ==
    IsFiniteSet(Hrm!Seen(table)) /\ Cardinality(Hrm!Seen(table)) <= limit
SoundState(s) ==
    /\ s \in HrmState
    /\ WithinLimit(s.endpoints, EndpointLimit) /\ WithinLimit(s.operators, OperatorLimit)
    /\ IF s.generation = 0 THEN s = Hrm!New ELSE s.seen \in Hrm!Authorities

\* What a state may become: a position moves on or stays, and every change
\* has a generation of its own.
Ahead(p, q) == p.number < q.number \/ p = q
Forward(s, t) ==
    /\ t.time >= s.time /\ ~Hrm!Older(t.seen, s.seen)
    /\ s.status # "active" => t.status # "active"
    /\ t.seen.service = s.seen.service =>
          /\ \A e \in Endpoints : Ahead(s.endpoints[e], t.endpoints[e])
          /\ \A o \in Operators : Ahead(s.operators[o], t.operators[o])
Moves(s, t) ==
    \/ t = s
    \/ s.generation < t.generation /\ (s.generation # 0 => Forward(s, t))

\* A result is of the state it was taken from.
IsOf(r, s) ==
    /\ r.snapshot = s.operators[r.operator] /\ r.authority = s.seen
    /\ r.at = s.time /\ r.generation = s.generation /\ s.status = "active"

HrmTyped ==
    /\ SoundState(stored) /\ loaded \in {stored, Hrm!NoState} /\ hold \in 0 .. MaxNumber
    /\ DOMAIN admission = {"at", "candidate", "result", "lease"}
    /\ admission.at \in {"idle", "commit", "release"}
    /\ admission.result \in Hrm!Results \cup {NONE}
    /\ released \in [Hrm!Numbers -> [Operators -> Hrm!Positions]]
    /\ held \in Hrm!Results \cup {NONE}

\* An admission works on a state that moves on from what is stored, and what
\* it releases is what is stored.
Candidate ==
    admission.at # "idle" =>
        /\ loaded = stored
        /\ SoundState(admission.candidate) /\ admission.candidate.generation # 0
        /\ Moves(stored, admission.candidate)
        /\ admission.at = "release" => admission.candidate = stored
        /\ admission.at = "commit" => admission.candidate # stored
        /\ admission.result # NONE => IsOf(admission.result, admission.candidate)

\* Nothing released is ahead of what is stored.
ReleasedBehind ==
    \A n \in Hrm!Numbers, o \in Operators :
        /\ stored.generation = 0 \/ n > stored.seen.service => released[n][o] = Hrm!NeverSeen
        /\ stored.generation # 0 /\ n = stored.seen.service =>
              Ahead(released[n][o], stored.operators[o])

\* What the caller holds is of the stored state if that is still the one.
HeldBehind ==
    held # NONE =>
        /\ held.generation <= stored.generation
        /\ held.generation = stored.generation => IsOf(held, stored)

HrmInv == HrmTyped /\ Candidate /\ ReleasedBehind /\ HeldBehind

-----------------------------------------------------------------------------
(* The pool statistics: what their operators do to a state.                *)

LEMMA NumbersAreNat ==
    /\ MaxCommits \in Nat \ {0} /\ MaxNumber \in Nat \ {0} /\ MaxTime \in Nat
    /\ EndpointLimit \in Nat /\ OperatorLimit \in Nat
    /\ \A n \in Hrm!Numbers : n \in Nat /\ n # 0
    /\ \A t \in Hrm!Times : t \in Nat
BY HrmConstants DEF Hrm!Assumptions, Hrm!Numbers, Hrm!Times

LEMMA PositionsAre ==
    /\ Hrm!NeverSeen \in Hrm!Positions /\ Hrm!NeverSeen.number = 0
    /\ \A p \in Hrm!Positions : p.number \in Nat /\ (p.number = 0 <=> p = Hrm!NeverSeen)
BY NumbersAreNat DEF Hrm!NeverSeen, Hrm!Positions

LEMMA AheadIsTransitive ==
    ASSUME NEW p \in Hrm!Positions, NEW q \in Hrm!Positions, NEW r \in Hrm!Positions,
           Ahead(p, q), Ahead(q, r)
    PROVE  Ahead(p, r)
BY PositionsAre DEF Ahead

LEMMA AuthoritiesAre ==
    \A a \in Hrm!Authorities :
        a.revision \in Nat /\ a.sequence \in Nat /\ a.service \in Hrm!Numbers /\ a.service \in Nat
BY NumbersAreNat DEF Hrm!Authorities

LEMMA SameHrmCardinality == \A S : Hrm!Cardinality(S) = Cardinality(S)
BY DEF Hrm!Cardinality, Cardinality

\* The fields of a sound state.
LEMMA SoundFields ==
    ASSUME NEW s, SoundState(s)
    PROVE  /\ s.generation \in 0 .. MaxCommits /\ s.generation \in Nat /\ s.time \in Nat
           /\ s.endpoints \in [Endpoints -> Hrm!Positions]
           /\ s.operators \in [Operators -> Hrm!Positions]
           /\ s.generation # 0 => s.seen \in Hrm!Authorities
BY NumbersAreNat DEF SoundState, HrmState

LEMMA EmptyIsWithin ==
    ASSUME NEW K, NEW limit \in Nat
    PROVE  WithinLimit([k \in K |-> Hrm!NeverSeen], limit)
<1> DEFINE f == [k \in K |-> Hrm!NeverSeen]
<1>1. Hrm!Seen(f) = {}
  BY DEF Hrm!Seen
<1> QED BY <1>1, FS_EmptySet DEF WithinLimit

LEMMA NewIsSound == SoundState(Hrm!New) /\ Hrm!New.generation = 0
<1>1. WithinLimit(Hrm!New.endpoints, EndpointLimit) /\ WithinLimit(Hrm!New.operators, OperatorLimit)
  BY EmptyIsWithin, NumbersAreNat DEF Hrm!New
<1>2. Hrm!New \in HrmState /\ Hrm!New.generation = 0
  BY PositionsAre, NumbersAreNat DEF Hrm!New, HrmState, Hrm!Times
<1> QED BY <1>1, <1>2 DEF SoundState

\* A position put into a history that is not full leaves it within its limit.
LEMMA PlacedIsWithin ==
    ASSUME NEW K, NEW f \in [K -> Hrm!Positions], NEW limit \in Nat, WithinLimit(f, limit),
           NEW k \in K, NEW p \in Hrm!Positions, p # Hrm!NeverSeen,
           f[k] = Hrm!NeverSeen => ~Hrm!Full(f, limit)
    PROVE  [f EXCEPT ![k] = p] \in [K -> Hrm!Positions] /\ WithinLimit([f EXCEPT ![k] = p], limit)
<1> DEFINE g == [f EXCEPT ![k] = p]
<1>1. g \in [K -> Hrm!Positions]
  OBVIOUS
<1>2. Hrm!Seen(g) = Hrm!Seen(f) \cup {k}
  BY DEF Hrm!Seen
<1>3. IsFiniteSet(Hrm!Seen(f)) /\ Cardinality(Hrm!Seen(f)) <= limit
  BY DEF WithinLimit
<1>4. CASE f[k] # Hrm!NeverSeen
  <2>1. Hrm!Seen(g) = Hrm!Seen(f)
    BY <1>2, <1>4 DEF Hrm!Seen
  <2> QED BY <1>1, <1>3, <2>1 DEF WithinLimit
<1>5. CASE f[k] = Hrm!NeverSeen
  <2>1. k \notin Hrm!Seen(f)
    BY <1>5 DEF Hrm!Seen
  <2>2. /\ IsFiniteSet(Hrm!Seen(f) \cup {k})
        /\ Cardinality(Hrm!Seen(f) \cup {k}) = Cardinality(Hrm!Seen(f)) + 1
    BY <1>3, <2>1, FS_AddElement
  <2>3. Cardinality(Hrm!Seen(f)) \in Nat
    BY <1>3, FS_CardinalityType
  <2>4. ~(Cardinality(Hrm!Seen(f)) >= limit)
    BY <1>5, SameHrmCardinality DEF Hrm!Full
  <2> DEFINE n == Cardinality(Hrm!Seen(f))
  <2>5. n + 1 <= limit
    <3> HIDE DEF n
    <3>1. n \in Nat /\ ~(n >= limit)
      BY <2>3, <2>4 DEF n
    <3> QED BY <3>1
  <2>6. Cardinality(Hrm!Seen(g)) <= limit
    BY <1>2, <2>2, <2>5, Zenon
  <2> QED BY <1>1, <1>2, <2>2, <2>6 DEF WithinLimit
<1> QED BY <1>4, <1>5

LEMMA ForwardIsTransitive ==
    ASSUME NEW s, NEW t, NEW u, SoundState(s), SoundState(t), SoundState(u),
           s.generation # 0, t.generation # 0, u.generation # 0, Forward(s, t), Forward(t, u)
    PROVE  Forward(s, u)
<1>1. /\ s.time \in Nat /\ t.time \in Nat /\ u.time \in Nat
      /\ s.seen \in Hrm!Authorities /\ t.seen \in Hrm!Authorities /\ u.seen \in Hrm!Authorities
  BY SoundFields
<1>2. u.time >= s.time /\ (s.status # "active" => u.status # "active")
  BY <1>1 DEF Forward
<1>3. /\ ~Hrm!Older(u.seen, s.seen)
      /\ u.seen.service = s.seen.service => t.seen.service = s.seen.service /\ u.seen.service = t.seen.service
  BY <1>1, AuthoritiesAre DEF Forward, Hrm!Older
<1>4. ASSUME NEW e \in Endpoints, u.seen.service = s.seen.service
      PROVE  Ahead(s.endpoints[e], u.endpoints[e])
  <2>1. /\ s.endpoints[e] \in Hrm!Positions /\ t.endpoints[e] \in Hrm!Positions
        /\ u.endpoints[e] \in Hrm!Positions
    BY SoundFields
  <2>2. Ahead(s.endpoints[e], t.endpoints[e]) /\ Ahead(t.endpoints[e], u.endpoints[e])
    BY <1>3, <1>4 DEF Forward
  <2> QED BY <2>1, <2>2, AheadIsTransitive
<1>5. ASSUME NEW o \in Operators, u.seen.service = s.seen.service
      PROVE  Ahead(s.operators[o], u.operators[o])
  <2>1. /\ s.operators[o] \in Hrm!Positions /\ t.operators[o] \in Hrm!Positions
        /\ u.operators[o] \in Hrm!Positions
    BY SoundFields
  <2>2. Ahead(s.operators[o], t.operators[o]) /\ Ahead(t.operators[o], u.operators[o])
    BY <1>3, <1>5 DEF Forward
  <2> QED BY <2>1, <2>2, AheadIsTransitive
<1> QED BY <1>2, <1>3, <1>4, <1>5 DEF Forward

LEMMA MovesAreTransitive ==
    ASSUME NEW s, NEW t, NEW u, SoundState(s), SoundState(t), SoundState(u),
           Moves(s, t), Moves(t, u)
    PROVE  Moves(s, u)
<1>1. CASE s = t \/ t = u
  BY <1>1
<1>2. CASE s # t /\ t # u
  <2>1. /\ s.generation < t.generation /\ t.generation < u.generation
        /\ s.generation \in Nat /\ t.generation \in Nat /\ u.generation \in Nat
    BY <1>2, SoundFields DEF Moves
  <2>2. s.generation < u.generation /\ t.generation # 0 /\ u.generation # 0
    BY <2>1
  <2>3. s.generation # 0 => Forward(s, u)
    BY <1>2, <2>2, ForwardIsTransitive DEF Moves
  <2> QED BY <2>2, <2>3 DEF Moves
<1> QED BY <1>1, <1>2

LEMMA ForwardIsReflexive ==
    ASSUME NEW s, SoundState(s), s.generation # 0 PROVE Forward(s, s)
BY SoundFields, AuthoritiesAre DEF Forward, Ahead, Hrm!Older

\* A change of a used state, announced by its next generation or refused.
Takes(t, c) ==
    /\ t.time = c.time /\ t.status = c.status /\ t.seen = c.seen
    /\ t.endpoints = c.endpoints /\ t.operators = c.operators
MovesOn(s, r) ==
    SoundState(r.state) /\ r.state.generation # 0 /\ Moves(s, r.state) /\ r.ok \in BOOLEAN

LEMMA BumpedMoves ==
    ASSUME NEW s, SoundState(s), s.generation # 0, NEW c \in HrmState,
           WithinLimit(c.endpoints, EndpointLimit), WithinLimit(c.operators, OperatorLimit),
           c.seen \in Hrm!Authorities, Forward(s, c)
    PROVE  /\ MovesOn(s, Hrm!Bumped(s, c))
           /\ Hrm!Bumped(s, c).ok => Takes(Hrm!Bumped(s, c).state, c)
           /\ ~Hrm!Bumped(s, c).ok => Hrm!Bumped(s, c).state = s
<1> DEFINE t == [c EXCEPT !.generation = s.generation + 1]
<1>1. CASE s.generation < MaxCommits
  <2>1. Hrm!Bumped(s, c).state = t /\ Hrm!Bumped(s, c).ok = TRUE
    BY <1>1 DEF Hrm!Bumped, Hrm!Go
  <2>2. s.generation + 1 \in 0 .. MaxCommits /\ s.generation \in Nat
    BY <1>1, SoundFields, NumbersAreNat
  <2>3. t \in HrmState /\ t.generation = s.generation + 1 /\ Takes(t, c)
    BY <2>2 DEF HrmState, Takes
  <2> HIDE DEF t
  <2>4. t.generation # 0 /\ s.generation < t.generation
    BY <2>2, <2>3
  <2>5. SoundState(t)
    BY <2>3, <2>4 DEF SoundState, Takes
  <2>6. Forward(s, t)
    BY <2>3 DEF Forward, Takes
  <2> QED BY <2>1, <2>3, <2>4, <2>5, <2>6 DEF MovesOn, Moves
<1>2. CASE ~(s.generation < MaxCommits)
  <2>1. Hrm!Bumped(s, c).state = s /\ Hrm!Bumped(s, c).ok = FALSE
    BY <1>2 DEF Hrm!Bumped, Hrm!Fail
  <2> QED BY <2>1 DEF MovesOn, Moves
<1> QED BY <1>1, <1>2

LEMMA QuarantinedMoves ==
    ASSUME NEW s, SoundState(s), s.generation # 0, NEW status \in {"conflicted", "exhausted"}
    PROVE  MovesOn(s, Hrm!Quarantined(s, status)) /\ ~Hrm!Quarantined(s, status).ok
<1> DEFINE c == [s EXCEPT !.status = status]
<1>1. CASE s.status = status
  <2>1. Hrm!Quarantined(s, status).state = s /\ Hrm!Quarantined(s, status).ok = FALSE
    BY <1>1 DEF Hrm!Quarantined, Hrm!Fail
  <2> QED BY <2>1 DEF MovesOn, Moves
<1>2. CASE s.status # status
  <2>1. /\ Hrm!Quarantined(s, status).state = Hrm!Bumped(s, c).state
        /\ Hrm!Quarantined(s, status).ok = FALSE
    BY <1>2 DEF Hrm!Quarantined, Hrm!Fail
  <2>2. /\ c \in HrmState /\ c.seen = s.seen /\ c.endpoints = s.endpoints
        /\ c.operators = s.operators /\ c.time = s.time /\ c.status = status
    BY DEF SoundState, HrmState
  <2> HIDE DEF c
  <2>3. Forward(s, c)
    BY <2>2, ForwardIsReflexive DEF Forward
  <2>4. MovesOn(s, Hrm!Bumped(s, c))
    BY <2>2, <2>3, BumpedMoves, SoundFields DEF SoundState
  <2> QED BY <2>1, <2>4 DEF MovesOn
<1> QED BY <1>1, <1>2

\* A position of an endpoint or of an operator, against the last one.
LEMMA EndpointsMove ==
    ASSUME NEW s, SoundState(s), s.generation # 0, NEW e \in Endpoints,
           NEW p \in Hrm!Positions, p # Hrm!NeverSeen
    PROVE  LET r == Hrm!Sequenced(s, "endpoints", e, p, EndpointLimit)
           IN  /\ MovesOn(s, r)
               /\ r.ok => /\ r.state.seen = s.seen /\ r.state.time = s.time
                          /\ r.state.status = s.status
<1> DEFINE f == s.endpoints
           r == Hrm!Sequenced(s, "endpoints", e, p, EndpointLimit)
           c == [s EXCEPT !.endpoints = [f EXCEPT ![e] = p]]
<1>1. /\ f \in [Endpoints -> Hrm!Positions] /\ WithinLimit(f, EndpointLimit)
      /\ WithinLimit(s.operators, OperatorLimit) /\ s.seen \in Hrm!Authorities
  BY SoundFields DEF SoundState
<1>2. f[e].number \in Nat /\ p.number \in Nat /\ f[e] \in Hrm!Positions
  BY <1>1, PositionsAre
<1>3. CASE f[e] = Hrm!NeverSeen /\ Hrm!Full(f, EndpointLimit)
  <2>1. r = Hrm!Quarantined(s, "exhausted")
    BY <1>3 DEF Hrm!Sequenced
  <2> QED BY <2>1, QuarantinedMoves
<1>4. CASE ~(f[e] = Hrm!NeverSeen /\ Hrm!Full(f, EndpointLimit)) /\ p.number < f[e].number
  <2>1. r.state = s /\ r.ok = FALSE
    BY <1>4 DEF Hrm!Sequenced, Hrm!Fail
  <2> QED BY <2>1 DEF MovesOn, Moves
<1>5. CASE ~(f[e] = Hrm!NeverSeen /\ Hrm!Full(f, EndpointLimit)) /\ p.number > f[e].number
  <2>1. r = Hrm!Bumped(s, c)
    BY <1>2, <1>5 DEF Hrm!Sequenced
  <2>2. [f EXCEPT ![e] = p] \in [Endpoints -> Hrm!Positions] /\ WithinLimit([f EXCEPT ![e] = p], EndpointLimit)
    BY <1>1, <1>5, PlacedIsWithin, NumbersAreNat
  <2>3. /\ c \in HrmState /\ c.seen = s.seen /\ c.time = s.time /\ c.status = s.status
        /\ c.operators = s.operators /\ c.endpoints = [f EXCEPT ![e] = p]
    BY <2>2 DEF SoundState, HrmState
  <2> HIDE DEF c
  <2>4. \A k \in Endpoints : Ahead(f[k], c.endpoints[k])
    BY <1>1, <1>5, <2>3 DEF Ahead
  <2> HIDE DEF f
  <2>5. Forward(s, c)
    BY <2>3, <2>4, ForwardIsReflexive DEF Forward, f
  <2>6. MovesOn(s, Hrm!Bumped(s, c)) /\ (Hrm!Bumped(s, c).ok => Takes(Hrm!Bumped(s, c).state, c))
    BY <1>1, <2>2, <2>3, <2>5, BumpedMoves
  <2> HIDE DEF r
  <2> QED BY <2>1, <2>3, <2>6 DEF Takes, r
<1>6. CASE /\ ~(f[e] = Hrm!NeverSeen /\ Hrm!Full(f, EndpointLimit))
           /\ ~(p.number < f[e].number) /\ ~(p.number > f[e].number)
  <2>1. CASE p = f[e]
    <3>1. r.state = s /\ r.ok = TRUE
      BY <1>6, <2>1 DEF Hrm!Sequenced, Hrm!Go
    <3> QED BY <3>1 DEF MovesOn, Moves
  <2>2. CASE p # f[e]
    <3>1. r = Hrm!Quarantined(s, "conflicted")
      BY <1>6, <2>2 DEF Hrm!Sequenced
    <3> QED BY <3>1, QuarantinedMoves
  <2> QED BY <2>1, <2>2
<1> QED BY <1>3, <1>4, <1>5, <1>6

LEMMA OperatorsMove ==
    ASSUME NEW s, SoundState(s), s.generation # 0, NEW o \in Operators,
           NEW p \in Hrm!Positions, p # Hrm!NeverSeen
    PROVE  LET r == Hrm!Sequenced(s, "operators", o, p, OperatorLimit)
           IN  /\ MovesOn(s, r)
               /\ r.ok => /\ r.state.seen = s.seen /\ r.state.time = s.time
                          /\ r.state.status = s.status /\ r.state.operators[o] = p
<1> DEFINE f == s.operators
           r == Hrm!Sequenced(s, "operators", o, p, OperatorLimit)
           c == [s EXCEPT !.operators = [f EXCEPT ![o] = p]]
<1>1. /\ f \in [Operators -> Hrm!Positions] /\ WithinLimit(f, OperatorLimit)
      /\ WithinLimit(s.endpoints, EndpointLimit) /\ s.seen \in Hrm!Authorities
  BY SoundFields DEF SoundState
<1>2. f[o].number \in Nat /\ p.number \in Nat /\ f[o] \in Hrm!Positions
  BY <1>1, PositionsAre
<1>3. CASE f[o] = Hrm!NeverSeen /\ Hrm!Full(f, OperatorLimit)
  <2>1. r = Hrm!Quarantined(s, "exhausted")
    BY <1>3 DEF Hrm!Sequenced
  <2> QED BY <2>1, QuarantinedMoves
<1>4. CASE ~(f[o] = Hrm!NeverSeen /\ Hrm!Full(f, OperatorLimit)) /\ p.number < f[o].number
  <2>1. r.state = s /\ r.ok = FALSE
    BY <1>4 DEF Hrm!Sequenced, Hrm!Fail
  <2> QED BY <2>1 DEF MovesOn, Moves
<1>5. CASE ~(f[o] = Hrm!NeverSeen /\ Hrm!Full(f, OperatorLimit)) /\ p.number > f[o].number
  <2>1. r = Hrm!Bumped(s, c)
    BY <1>2, <1>5 DEF Hrm!Sequenced
  <2>2. [f EXCEPT ![o] = p] \in [Operators -> Hrm!Positions] /\ WithinLimit([f EXCEPT ![o] = p], OperatorLimit)
    BY <1>1, <1>5, PlacedIsWithin, NumbersAreNat
  <2>3. /\ c \in HrmState /\ c.seen = s.seen /\ c.time = s.time /\ c.status = s.status
        /\ c.endpoints = s.endpoints /\ c.operators = [f EXCEPT ![o] = p]
    BY <2>2 DEF SoundState, HrmState
  <2> HIDE DEF c
  <2>4. (\A k \in Operators : Ahead(f[k], c.operators[k])) /\ c.operators[o] = p
    BY <1>1, <1>5, <2>3 DEF Ahead
  <2> HIDE DEF f
  <2>5. Forward(s, c)
    BY <2>3, <2>4, ForwardIsReflexive DEF Forward, f
  <2>6. MovesOn(s, Hrm!Bumped(s, c)) /\ (Hrm!Bumped(s, c).ok => Takes(Hrm!Bumped(s, c).state, c))
    BY <1>1, <2>2, <2>3, <2>5, BumpedMoves
  <2> HIDE DEF r
  <2> QED BY <2>1, <2>3, <2>4, <2>6 DEF Takes, r
<1>6. CASE /\ ~(f[o] = Hrm!NeverSeen /\ Hrm!Full(f, OperatorLimit))
           /\ ~(p.number < f[o].number) /\ ~(p.number > f[o].number)
  <2>1. CASE p = f[o]
    <3>1. r.state = s /\ r.ok = TRUE
      BY <1>6, <2>1 DEF Hrm!Sequenced, Hrm!Go
    <3> QED BY <2>1, <3>1 DEF MovesOn, Moves
  <2>2. CASE p # f[o]
    <3>1. r = Hrm!Quarantined(s, "conflicted")
      BY <1>6, <2>2 DEF Hrm!Sequenced
    <3> QED BY <3>1, QuarantinedMoves
  <2> QED BY <2>1, <2>2
<1> QED BY <1>3, <1>4, <1>5, <1>6

LEMMA DocumentsAre ==
    ASSUME NEW d \in Hrm!PoolStatsDocuments
    PROVE  /\ d.endpoint \in Endpoints /\ d.delegated \in Hrm!Positions
           /\ d.operator \in Operators /\ d.snapshot \in Hrm!Positions
<1>1. PICK e \in Hrm!EndpointDelegation, s \in Hrm!PoolStatsSnapshot :
         d = [endpoint |-> e.endpoint, delegated |-> e.delegated, operator |-> s.operator,
              snapshot |-> s.snapshot]
  BY DEF Hrm!PoolStatsDocuments
<1> QED BY <1>1 DEF Hrm!EndpointDelegation, Hrm!PoolStatsSnapshot

\* A document is let through when both of its positions are.
LEMMA VerifiedMoves ==
    ASSUME NEW s, SoundState(s), s.generation # 0, NEW d \in Hrm!PoolStatsDocuments
    PROVE  LET v == Hrm!Verified(s, d)
           IN  /\ MovesOn(s, v)
               /\ v.ok => /\ v.state.seen = s.seen /\ v.state.time = s.time
                          /\ v.state.status = s.status
                          /\ v.state.operators[d.operator] = d.snapshot
                          /\ d.snapshot # Hrm!NeverSeen
<1> DEFINE v == Hrm!Verified(s, d)
           r == Hrm!Sequenced(s, "endpoints", d.endpoint, d.delegated, EndpointLimit)
           t == Hrm!Sequenced(r.state, "operators", d.operator, d.snapshot, OperatorLimit)
<1>1. /\ d.endpoint \in Endpoints /\ d.delegated \in Hrm!Positions
      /\ d.operator \in Operators /\ d.snapshot \in Hrm!Positions
  BY DocumentsAre
<1>2. CASE d.delegated = Hrm!NeverSeen
  <2>1. v.state = s /\ v.ok = FALSE
    BY <1>2 DEF Hrm!Verified, Hrm!Fail
  <2> QED BY <2>1 DEF MovesOn, Moves
<1>3. CASE d.delegated # Hrm!NeverSeen
  <2>1. /\ MovesOn(s, r)
        /\ r.ok => r.state.seen = s.seen /\ r.state.time = s.time /\ r.state.status = s.status
    BY <1>1, <1>3, EndpointsMove
  <2>2. CASE ~r.ok \/ d.snapshot = Hrm!NeverSeen
    <3>1. v.state = r.state /\ v.ok = FALSE
      BY <1>3, <2>2 DEF Hrm!Verified, Hrm!Fail
    <3> HIDE DEF v, r
    <3> QED BY <2>1, <3>1 DEF MovesOn, v
  <2>3. CASE r.ok /\ d.snapshot # Hrm!NeverSeen
    <3>1. v = t
      BY <1>3, <2>3 DEF Hrm!Verified
    <3>2. SoundState(r.state) /\ r.state.generation # 0 /\ Moves(s, r.state)
      BY <2>1 DEF MovesOn
    <3> HIDE DEF r
    <3>3. /\ MovesOn(r.state, t)
          /\ t.ok => /\ t.state.seen = r.state.seen /\ t.state.time = r.state.time
                     /\ t.state.status = r.state.status /\ t.state.operators[d.operator] = d.snapshot
      BY <1>1, <2>3, <3>2, OperatorsMove
    <3> HIDE DEF t
    <3>4. MovesOn(s, t)
      BY <3>2, <3>3, MovesAreTransitive DEF MovesOn
    <3> HIDE DEF v
    <3> QED BY <2>1, <2>3, <3>1, <3>3, <3>4 DEF v
  <2> QED BY <2>2, <2>3
<1> QED BY <1>2, <1>3

\* The first authority that is seen starts the state.
LEMMA FirstAuthority ==
    ASSUME NEW a \in Hrm!Authorities, NEW now \in Hrm!Times
    PROVE  LET r == Hrm!ObserveAuthority(Hrm!New, a, now)
           IN  /\ MovesOn(Hrm!New, r) /\ r.ok
               /\ r.state.seen = a /\ r.state.time = now /\ r.state.status = "active"
<1> DEFINE c == [Hrm!New EXCEPT !.time = now, !.seen = a]
           t == [c EXCEPT !.generation = 1]
           r == Hrm!ObserveAuthority(Hrm!New, a, now)
<1>1. Hrm!New.generation = 0 /\ 0 < MaxCommits /\ 1 \in 0 .. MaxCommits
  BY NewIsSound, NumbersAreNat
<1>2. r.state = t /\ r.ok = TRUE
  BY <1>1 DEF Hrm!ObserveAuthority, Hrm!Bumped, Hrm!Go
<1>3. /\ t.generation = 1 /\ t.time = now /\ t.seen = a /\ t.status = "active"
      /\ t.endpoints = Hrm!New.endpoints /\ t.operators = Hrm!New.operators
      /\ t \in HrmState
  <2>1. /\ Hrm!New.endpoints \in [Endpoints -> Hrm!Positions]
        /\ Hrm!New.operators \in [Operators -> Hrm!Positions]
    BY NewIsSound, SoundFields
  <2> DEFINE all == {"generation", "time", "status", "seen", "endpoints", "operators"}
  <2>2. /\ DOMAIN Hrm!New = all /\ Hrm!New.status = "active"
    BY DEF Hrm!New
  <2>4. /\ DOMAIN c = all /\ c.time = now /\ c.seen = a /\ c.status = "active"
        /\ c.endpoints = Hrm!New.endpoints /\ c.operators = Hrm!New.operators
    BY <2>2
  <2> HIDE DEF c
  <2>5. /\ t.generation = 1 /\ t.time = now /\ t.seen = a /\ t.status = "active"
        /\ t.endpoints = Hrm!New.endpoints /\ t.operators = Hrm!New.operators
    BY <2>4
  <2>6. t = [generation |-> 1, time |-> now, status |-> "active", seen |-> a,
             endpoints |-> Hrm!New.endpoints, operators |-> Hrm!New.operators]
    BY <2>4, <2>5
  <2>3. 1 \in 0 .. MaxCommits
    BY NumbersAreNat
  <2> HIDE DEF t
  <2> QED BY <2>1, <2>3, <2>5, <2>6 DEF HrmState
<1> HIDE DEF t, r
<1>4. SoundState(t)
  BY <1>3, NewIsSound DEF SoundState
<1>5. MovesOn(Hrm!New, r)
  <2>1. Moves(Hrm!New, t) /\ t.generation # 0
    BY <1>1, <1>3 DEF Moves
  <2> QED BY <1>2, <1>4, <2>1 DEF MovesOn
<1> QED BY <1>2, <1>3, <1>5 DEF r

\* A later time comes first, and stays whatever is said of the authority.
LEMMA ClockedMoves ==
    ASSUME NEW s, SoundState(s), s.generation # 0, NEW now \in Hrm!Times, ~(now < s.time)
    PROVE  LET t == Hrm!Clocked(s, now)
           IN  /\ MovesOn(s, t)
               /\ t.ok => /\ t.state.time = now /\ t.state.seen = s.seen
                          /\ t.state.status = s.status
<1> DEFINE t == Hrm!Clocked(s, now)
           c == [s EXCEPT !.time = now]
<1>1. now \in Nat /\ s.time \in Nat /\ s.seen \in Hrm!Authorities
  BY SoundFields, NumbersAreNat
<1>2. CASE now > s.time
  <2>1. t = Hrm!Bumped(s, c)
    BY <1>2 DEF Hrm!Clocked
  <2>2. /\ c \in HrmState /\ c.time = now /\ c.seen = s.seen /\ c.status = s.status
        /\ c.endpoints = s.endpoints /\ c.operators = s.operators
    BY DEF SoundState, HrmState
  <2> HIDE DEF c
  <2>3. Forward(s, c)
    BY <1>1, <1>2, <2>2, ForwardIsReflexive DEF Forward
  <2>4. MovesOn(s, Hrm!Bumped(s, c)) /\ (Hrm!Bumped(s, c).ok => Takes(Hrm!Bumped(s, c).state, c))
    BY <1>1, <2>2, <2>3, BumpedMoves DEF SoundState
  <2> QED BY <2>1, <2>2, <2>4 DEF Takes
<1>3. CASE ~(now > s.time)
  <2>1. t.state = s /\ t.ok = TRUE /\ now = s.time
    BY <1>1, <1>3 DEF Hrm!Clocked, Hrm!Go
  <2> QED BY <2>1 DEF MovesOn, Moves
<1> QED BY <1>2, <1>3

\* An authority that is no older is adopted; a new service drops the histories.
LEMMA AdoptedMoves ==
    ASSUME NEW s, SoundState(s), s.generation # 0, NEW a \in Hrm!Authorities,
           ~Hrm!Older(a, s.seen)
    PROVE  LET r == Hrm!Bumped(s, Hrm!Adopted(s, a))
           IN  /\ MovesOn(s, r)
               /\ r.ok => /\ r.state.time = s.time /\ r.state.seen = a
                          /\ r.state.status = s.status
<1> DEFINE c == Hrm!Adopted(s, a)
<1>1. /\ s.seen \in Hrm!Authorities /\ s.seen.service \in Nat /\ a.service \in Nat
      /\ s.endpoints \in [Endpoints -> Hrm!Positions]
      /\ s.operators \in [Operators -> Hrm!Positions]
  BY SoundFields, AuthoritiesAre
<1>2. /\ Hrm!New.endpoints \in [Endpoints -> Hrm!Positions]
      /\ Hrm!New.operators \in [Operators -> Hrm!Positions]
      /\ WithinLimit(Hrm!New.endpoints, EndpointLimit)
      /\ WithinLimit(Hrm!New.operators, OperatorLimit)
  BY NewIsSound, SoundFields DEF SoundState
<1>3. /\ c \in HrmState /\ c.time = s.time /\ c.seen = a /\ c.status = s.status
      /\ c.endpoints = IF a.service > s.seen.service THEN Hrm!New.endpoints ELSE s.endpoints
      /\ c.operators = IF a.service > s.seen.service THEN Hrm!New.operators ELSE s.operators
  BY <1>1, <1>2 DEF SoundState, HrmState, Hrm!Adopted
<1> HIDE DEF c
<1>4. /\ WithinLimit(c.endpoints, EndpointLimit) /\ WithinLimit(c.operators, OperatorLimit)
  BY <1>2, <1>3 DEF SoundState
<1>5. Forward(s, c)
  BY <1>1, <1>3, ForwardIsReflexive DEF Forward
<1>6. /\ MovesOn(s, Hrm!Bumped(s, c))
      /\ Hrm!Bumped(s, c).ok => Takes(Hrm!Bumped(s, c).state, c)
  BY <1>3, <1>4, <1>5, BumpedMoves
<1> QED BY <1>3, <1>6 DEF Takes, c

\* What becomes of a state when an authority is observed.
LEMMA ObservedMoves ==
    ASSUME NEW s, SoundState(s), NEW a \in Hrm!Authorities, NEW now \in Hrm!Times
    PROVE  LET r == Hrm!ObserveAuthority(s, a, now)
           IN  /\ MovesOn(s, r)
               /\ r.ok => /\ r.state.seen = a /\ r.state.time = now
                          /\ r.state.status = "active"
<1> DEFINE r == Hrm!ObserveAuthority(s, a, now)
           t == Hrm!Clocked(s, now)
<1>1. CASE s.generation = 0
  <2>1. s = Hrm!New
    BY <1>1 DEF SoundState
  <2> QED BY <2>1, FirstAuthority
<1>2. CASE s.generation # 0 /\ (a.name # s.seen.name \/ now < s.time)
  <2>1. r.state = s /\ r.ok = FALSE
    BY <1>2 DEF Hrm!ObserveAuthority, Hrm!Fail
  <2> QED BY <1>2, <2>1 DEF MovesOn, Moves
<1>3. CASE s.generation # 0 /\ ~(a.name # s.seen.name \/ now < s.time)
  <2>1. /\ MovesOn(s, t)
        /\ t.ok => t.state.time = now /\ t.state.seen = s.seen /\ t.state.status = s.status
    BY <1>3, ClockedMoves
  <2>2. r = IF ~t.ok \/ Hrm!Older(a, s.seen) THEN Hrm!Fail(t.state)
            ELSE IF a.revision = s.seen.revision /\ a # s.seen
            THEN Hrm!Quarantined(t.state, "conflicted")
            ELSE IF ~Hrm!Acknowledged(s, a, now) THEN Hrm!Fail(t.state)
            ELSE IF Hrm!Contradicts(a, s.seen) THEN Hrm!Quarantined(t.state, "conflicted")
            ELSE Hrm!RequireActive(IF a = s.seen THEN t
                                   ELSE Hrm!Bumped(t.state, Hrm!Adopted(t.state, a)))
    BY <1>3 DEF Hrm!ObserveAuthority
  <2> HIDE DEF t, r
  <2>3. SoundState(t.state) /\ t.state.generation # 0 /\ Moves(s, t.state)
    BY <2>1 DEF MovesOn
  <2>4. CASE r = Hrm!Fail(t.state)
    <3>1. r.state = t.state /\ r.ok = FALSE
      BY <2>4 DEF Hrm!Fail
    <3> QED BY <2>3, <3>1 DEF MovesOn, r
  <2>5. CASE r = Hrm!Quarantined(t.state, "conflicted")
    <3>1. MovesOn(t.state, r) /\ ~r.ok
      BY <2>3, <2>5, QuarantinedMoves
    <3>2. MovesOn(s, r)
      BY <2>3, <3>1, MovesAreTransitive DEF MovesOn
    <3> QED BY <3>1, <3>2 DEF r
  <2>6. CASE t.ok /\ a = s.seen /\ r = Hrm!RequireActive(t)
    <3>1. r.state = t.state /\ (r.ok <=> t.ok /\ t.state.status = "active") /\ r.ok \in BOOLEAN
      <4>1. t = Hrm!Clocked(s, now)
        BY DEF t
      <4>2. DOMAIN t = {"state", "ok"}
        BY <4>1 DEF Hrm!Clocked, Hrm!Bumped, Hrm!Go, Hrm!Fail
      <4> QED BY <2>1, <2>6, <4>2 DEF Hrm!RequireActive, MovesOn
    <3>2. MovesOn(s, r)
      BY <2>3, <3>1 DEF MovesOn
    <3> QED BY <2>1, <2>6, <3>1, <3>2 DEF r
  <2> DEFINE u == Hrm!Bumped(t.state, Hrm!Adopted(t.state, a))
  <2>7. CASE t.ok /\ ~Hrm!Older(a, s.seen) /\ r = Hrm!RequireActive(u)
    <3>1. /\ MovesOn(t.state, u)
          /\ u.ok => u.state.time = t.state.time /\ u.state.seen = a /\ u.state.status = t.state.status
      BY <2>1, <2>3, <2>7, AdoptedMoves
    <3>2. DOMAIN u = {"state", "ok"}
      BY DEF Hrm!Bumped, Hrm!Go, Hrm!Fail
    <3> HIDE DEF u
    <3>3. r.state = u.state /\ (r.ok <=> u.ok /\ u.state.status = "active") /\ r.ok \in BOOLEAN
      BY <2>7, <3>1, <3>2 DEF Hrm!RequireActive, MovesOn
    <3>4. MovesOn(s, r)
      BY <2>3, <3>1, <3>3, MovesAreTransitive DEF MovesOn
    <3> QED BY <2>1, <2>7, <3>1, <3>3, <3>4 DEF r
  <2> QED BY <2>2, <2>4, <2>5, <2>6, <2>7
<1> QED BY <1>1, <1>2, <1>3

-----------------------------------------------------------------------------
(* The pool statistics: the invariant.                                     *)

LEMMA HrmInit == ASSUME Hrm!Init PROVE HrmInv
<1>1. /\ stored = Hrm!New /\ loaded = Hrm!New /\ hold = 1 /\ admission = Hrm!NoCall
      /\ released = [n \in Hrm!Numbers |-> [o \in Operators |-> Hrm!NeverSeen]] /\ held = NONE
  BY DEF Hrm!Init
<1>2. HrmTyped
  BY <1>1, NewIsSound, PositionsAre, NumbersAreNat DEF HrmTyped, Hrm!NoCall
<1>3. Candidate /\ HeldBehind
  BY <1>1 DEF Candidate, HeldBehind, Hrm!NoCall
<1>4. ReleasedBehind
  BY <1>1, NewIsSound DEF ReleasedBehind
<1> QED BY <1>2, <1>3, <1>4 DEF HrmInv

LEMMA StoredIsNotNoState == ASSUME NEW s, SoundState(s) PROVE s # Hrm!NoState
<1>1. Hrm!NoState.generation = -1
  BY DEF Hrm!NoState
<1> QED BY <1>1, SoundFields

\* An admission ends in a candidate that moves on from the loaded state.
LEMMA BeginKeeps ==
    ASSUME HrmInv, loaded # Hrm!NoState, NEW candidate, NEW outcome \in Hrm!Results \cup {NONE},
           SoundState(candidate), candidate.generation # 0, Moves(loaded, candidate),
           outcome # NONE => IsOf(outcome, candidate), Hrm!Begin(candidate, outcome)
    PROVE  HrmInv'
<1>1. HrmTyped /\ Candidate /\ ReleasedBehind /\ HeldBehind /\ loaded = stored
  BY DEF HrmInv, HrmTyped
<1>2. /\ admission' = [at |-> Hrm!Pending(candidate), candidate |-> candidate, result |-> outcome,
                       lease |-> hold]
      /\ stored' = stored /\ loaded' = loaded /\ hold' = hold /\ released' = released
      /\ held' = held
  BY DEF Hrm!Begin
<1>3. Hrm!Pending(candidate) = IF candidate.generation # loaded.generation THEN "commit" ELSE "release"
  BY DEF Hrm!Pending
<1>4. HrmTyped'
  BY <1>1, <1>2, <1>3 DEF HrmTyped
<1>5. Candidate'
  <2>1. candidate.generation = loaded.generation => candidate = loaded
    BY <1>1, SoundFields DEF Moves, HrmTyped
  <2> QED BY <1>1, <1>2, <1>3, <2>1 DEF Candidate
<1>6. ReleasedBehind' /\ HeldBehind'
  BY <1>1, <1>2 DEF ReleasedBehind, HeldBehind
<1> QED BY <1>4, <1>5, <1>6 DEF HrmInv

LEMMA AdmitKeeps == ASSUME HrmInv, Hrm!Admit PROVE HrmInv'
<1>1. /\ SoundState(stored) /\ loaded \in {stored, Hrm!NoState} /\ hold \in 0 .. MaxNumber
  BY DEF HrmInv, HrmTyped
<1>2. PICK a \in Hrm!Authorities, now \in Hrm!Times :
         LET observed == Hrm!ObserveAuthority(loaded, a, now)
         IN  \/ ~observed.ok /\ Hrm!Begin(observed.state, NONE)
             \/ /\ observed.ok
                /\ \E d \in Hrm!PoolStatsDocuments :
                      LET v == Hrm!Verified(observed.state, d)
                      IN  Hrm!Begin(v.state, IF v.ok THEN Hrm!Minimized(a, now, d, v.state.generation)
                                             ELSE NONE)
  BY DEF Hrm!Admit
<1>3. loaded # Hrm!NoState /\ SoundState(loaded) /\ hold # 0
  BY <1>1 DEF Hrm!Admit
<1> DEFINE observed == Hrm!ObserveAuthority(loaded, a, now)
<1>4. /\ MovesOn(loaded, observed)
      /\ observed.ok => /\ observed.state.seen = a /\ observed.state.time = now
                        /\ observed.state.status = "active"
  BY <1>3, ObservedMoves
<1>5. CASE ~observed.ok /\ Hrm!Begin(observed.state, NONE)
  BY <1>3, <1>4, <1>5, BeginKeeps DEF MovesOn
<1>6. ASSUME observed.ok, NEW d \in Hrm!PoolStatsDocuments,
             LET v == Hrm!Verified(observed.state, d)
             IN  Hrm!Begin(v.state, IF v.ok THEN Hrm!Minimized(a, now, d, v.state.generation)
                                    ELSE NONE)
      PROVE  HrmInv'
  <2> DEFINE s == observed.state
             v == Hrm!Verified(s, d)
             m == Hrm!Minimized(a, now, d, v.state.generation)
             outcome == IF v.ok THEN m ELSE NONE
  <2>1. SoundState(s) /\ s.generation # 0 /\ Moves(loaded, s)
        /\ s.seen = a /\ s.time = now /\ s.status = "active"
    BY <1>4, <1>6 DEF MovesOn
  <2> HIDE DEF observed, s
  <2>2. /\ MovesOn(s, v)
        /\ v.ok => /\ v.state.seen = s.seen /\ v.state.time = s.time
                   /\ v.state.status = s.status /\ v.state.operators[d.operator] = d.snapshot
                   /\ d.snapshot # Hrm!NeverSeen
    BY <2>1, VerifiedMoves
  <2>3. Hrm!Begin(v.state, outcome)
    BY <1>6 DEF s
  <2> HIDE DEF v
  <2>4. SoundState(v.state) /\ v.state.generation # 0 /\ Moves(loaded, v.state)
    BY <1>3, <2>1, <2>2, MovesAreTransitive DEF MovesOn
  <2>5. m = [authority |-> a, operator |-> d.operator, snapshot |-> d.snapshot,
             generation |-> v.state.generation, at |-> now, lease |-> hold]
    BY DEF Hrm!Minimized
  <2> HIDE DEF m
  <2>6. v.ok => IsOf(m, v.state)
    BY <2>1, <2>2, <2>5 DEF IsOf
  <2>7. v.ok => m \in Hrm!Results
    <3>1. v.state.generation \in 1 .. MaxCommits /\ hold \in Hrm!Numbers
      BY <1>1, <1>3, <2>4, SoundFields, NumbersAreNat DEF Hrm!Numbers
    <3>2. d.operator \in Operators /\ d.snapshot \in Hrm!Positions
      BY DocumentsAre
    <3> QED BY <2>2, <2>5, <3>1, <3>2 DEF Hrm!Results
  <2>8. outcome \in Hrm!Results \cup {NONE} /\ (outcome # NONE => IsOf(outcome, v.state))
    BY <2>6, <2>7
  <2> HIDE DEF outcome
  <2> QED BY <1>3, <2>3, <2>4, <2>8, BeginKeeps
<1> QED BY <1>2, <1>5, <1>6

\* What is stored is replaced by the candidate.
LEMMA StoringKeeps ==
    ASSUME HrmInv, admission.at = "commit", stored' = admission.candidate,
           hold' = hold, released' = released, held' = held
    PROVE  SoundState(stored)' /\ ReleasedBehind' /\ HeldBehind'
<1> DEFINE c == admission.candidate
<1>1. HrmTyped /\ Candidate /\ ReleasedBehind /\ HeldBehind
  BY DEF HrmInv
<1>2. SoundState(c) /\ SoundState(stored) /\ c.generation # 0 /\ Moves(stored, c) /\ c # stored
  BY <1>1 DEF Candidate, HrmTyped
<1>3. stored.generation < c.generation /\ (stored.generation # 0 => Forward(stored, c))
      /\ stored.generation \in Nat /\ c.generation \in Nat
  BY <1>2, SoundFields DEF Moves
<1>4. stored' = c
  OBVIOUS
<1> HIDE DEF c
<1>5. HeldBehind'
  <2>1. held # NONE => held.generation <= stored.generation /\ held.generation \in Nat
    BY <1>1, NumbersAreNat DEF HeldBehind, HrmTyped, Hrm!Results
  <2> QED BY <1>3, <1>4, <2>1 DEF HeldBehind
<1>6. ReleasedBehind'
  <2> SUFFICES ASSUME NEW n \in Hrm!Numbers, NEW o \in Operators
               PROVE  /\ n > c.seen.service => released[n][o] = Hrm!NeverSeen
                      /\ n = c.seen.service => Ahead(released[n][o], c.operators[o])
    BY <1>2, <1>4 DEF ReleasedBehind
  <2>1. released[n][o] \in Hrm!Positions /\ c.operators[o] \in Hrm!Positions
    BY <1>1, <1>2, SoundFields DEF HrmTyped
  <2>2. CASE stored.generation = 0
    <3>1. released[n][o] = Hrm!NeverSeen
      BY <1>1, <2>2 DEF ReleasedBehind
    <3> QED BY <2>1, <3>1, PositionsAre DEF Ahead
  <2>3. CASE stored.generation # 0
    <3>1. /\ stored.seen.service \in Nat /\ c.seen.service \in Nat /\ n \in Nat
          /\ stored.seen.service <= c.seen.service
      BY <1>2, <1>3, <2>3, SoundFields, AuthoritiesAre, NumbersAreNat DEF Forward, Hrm!Older
    <3>2. n > c.seen.service => released[n][o] = Hrm!NeverSeen
      BY <1>1, <3>1 DEF ReleasedBehind
    <3>3. CASE n = c.seen.service /\ c.seen.service = stored.seen.service
      <4>1. Ahead(released[n][o], stored.operators[o]) /\ Ahead(stored.operators[o], c.operators[o])
        BY <1>1, <1>3, <2>3, <3>3 DEF ReleasedBehind, Forward
      <4>2. stored.operators[o] \in Hrm!Positions
        BY <1>2, SoundFields
      <4> QED BY <2>1, <3>2, <4>1, <4>2, AheadIsTransitive
    <3>4. CASE n = c.seen.service /\ c.seen.service # stored.seen.service
      <4>1. released[n][o] = Hrm!NeverSeen
        BY <1>1, <3>1, <3>4 DEF ReleasedBehind
      <4> QED BY <2>1, <3>2, <4>1, PositionsAre DEF Ahead
    <3> QED BY <3>2, <3>3, <3>4
  <2> QED BY <2>2, <2>3
<1> QED BY <1>2, <1>4, <1>5, <1>6

LEMMA CommitKeeps == ASSUME HrmInv, Hrm!Commit \/ Hrm!CommitIsUnknown PROVE HrmInv'
<1>1. HrmTyped /\ Candidate
  BY DEF HrmInv
<1>2. /\ admission.at = "commit" /\ stored' = admission.candidate /\ hold' = hold
      /\ released' = released /\ held' = held
  BY DEF Hrm!Commit, Hrm!CommitIsUnknown
<1>3. SoundState(stored)' /\ ReleasedBehind' /\ HeldBehind'
  BY <1>2, StoringKeeps
<1>4. CASE Hrm!Commit
  <2>1. /\ loaded' = admission.candidate /\ admission' = [admission EXCEPT !.at = "release"]
        /\ DOMAIN admission = {"at", "candidate", "result", "lease"}
    BY <1>1, <1>4 DEF Hrm!Commit, HrmTyped
  <2>2. /\ admission'.at = "release" /\ admission'.candidate = admission.candidate
        /\ admission'.result = admission.result
        /\ DOMAIN admission' = {"at", "candidate", "result", "lease"}
    BY <2>1
  <2>3. HrmTyped'
    BY <1>1, <1>2, <1>3, <2>1, <2>2 DEF HrmTyped
  <2>4. Candidate'
    <3>1. Moves(stored, stored)'
      BY DEF Moves
    <3> QED BY <1>1, <1>2, <1>3, <2>1, <2>2, <3>1 DEF Candidate
  <2> QED BY <1>3, <2>3, <2>4 DEF HrmInv
<1>5. CASE Hrm!CommitIsUnknown
  <2>1. loaded' = Hrm!NoState /\ admission' = Hrm!NoCall
    BY <1>5 DEF Hrm!CommitIsUnknown, Hrm!AfterFailedCommit
  <2>2. HrmTyped' /\ Candidate'
    BY <1>1, <1>2, <1>3, <2>1 DEF HrmTyped, Candidate, Hrm!NoCall
  <2> QED BY <1>3, <2>2 DEF HrmInv
<1> QED BY <1>4, <1>5

\* An admission that is given up, loaded anew, or loses its lease, changes
\* nothing that is stored or released.
LEMMA OthersKeep ==
    ASSUME HrmInv, Hrm!CommitFails \/ Hrm!Load \/ Hrm!LoseLease PROVE HrmInv'
<1>1. HrmTyped /\ Candidate /\ ReleasedBehind /\ HeldBehind
  BY DEF HrmInv
<1>2. /\ stored' = stored /\ released' = released /\ held' = held
  BY DEF Hrm!CommitFails, Hrm!Load, Hrm!LoseLease
<1>3. ReleasedBehind' /\ HeldBehind'
  BY <1>1, <1>2 DEF ReleasedBehind, HeldBehind
<1>4. CASE Hrm!LoseLease
  <2>1. loaded' = loaded /\ admission' = admission /\ hold' \in 0 .. MaxNumber
    BY <1>1, <1>4, NumbersAreNat DEF Hrm!LoseLease, HrmTyped
  <2> QED BY <1>1, <1>2, <1>3, <2>1 DEF HrmInv, HrmTyped, Candidate
<1>5. CASE Hrm!CommitFails \/ Hrm!Load
  <2>1. loaded' \in {loaded, stored} /\ admission' = Hrm!NoCall /\ hold' = hold
    BY <1>5 DEF Hrm!CommitFails, Hrm!Load, Hrm!AfterFailedCommit
  <2>2. HrmTyped' /\ Candidate'
    BY <1>1, <1>2, <2>1 DEF HrmTyped, Candidate, Hrm!NoCall
  <2> QED BY <1>3, <2>2 DEF HrmInv
<1> QED BY <1>4, <1>5

\* A result is released from the stored state.
LEMMA ReleaseMoves ==
    ASSUME HrmInv, Hrm!Release, released' # released \/ held' # held
    PROVE  /\ admission.result \in Hrm!Results /\ IsOf(admission.result, stored)
           /\ stored.generation # 0 /\ held' = admission.result
           /\ released' = [released EXCEPT ![stored.seen.service][admission.result.operator] =
                                               admission.result.snapshot]
<1>1. HrmTyped /\ Candidate
  BY DEF HrmInv
<1>2. /\ admission.at = "release" /\ admission.result # NONE /\ held' = admission.result
      /\ released' = [released EXCEPT
                        ![admission.result.authority.service][admission.result.operator] =
                            admission.result.snapshot]
  BY DEF Hrm!Release
<1>3. IsOf(admission.result, stored) /\ stored.generation # 0 /\ admission.result \in Hrm!Results
  BY <1>1, <1>2 DEF Candidate, HrmTyped
<1> QED BY <1>2, <1>3 DEF IsOf

LEMMA ReleaseKeeps == ASSUME HrmInv, Hrm!Release PROVE HrmInv'
<1>1. HrmTyped /\ Candidate /\ ReleasedBehind /\ HeldBehind
  BY DEF HrmInv
<1>2. /\ stored' = stored /\ loaded' = loaded /\ hold' = hold /\ admission' = Hrm!NoCall
  BY DEF Hrm!Release
<1>3. CASE released' = released /\ held' = held
  BY <1>1, <1>2, <1>3 DEF HrmInv, HrmTyped, Candidate, ReleasedBehind, HeldBehind, Hrm!NoCall
<1>4. CASE released' # released \/ held' # held
  <2> DEFINE r == admission.result
             n == stored.seen.service
  <2>1. /\ r \in Hrm!Results /\ IsOf(r, stored) /\ stored.generation # 0 /\ held' = r
        /\ released' = [released EXCEPT ![n][r.operator] = r.snapshot]
    BY <1>4, ReleaseMoves
  <2>2. n \in Hrm!Numbers /\ n \in Nat
    BY <1>1, <2>1, SoundFields, AuthoritiesAre DEF HrmTyped
  <2>3. /\ r.operator \in Operators /\ r.snapshot \in Hrm!Positions
        /\ r.snapshot = stored.operators[r.operator] /\ r.generation = stored.generation
        /\ stored.generation \in Nat
    BY <1>1, <2>1, SoundFields DEF Hrm!Results, IsOf, HrmTyped
  <2> HIDE DEF r, n
  <2>4. released' \in [Hrm!Numbers -> [Operators -> Hrm!Positions]]
    BY <1>1, <2>1, <2>3 DEF HrmTyped
  <2>5. HrmTyped' /\ Candidate'
    BY <1>1, <1>2, <2>1, <2>4 DEF HrmTyped, Candidate, Hrm!NoCall
  <2>6. HeldBehind'
    BY <1>2, <2>1, <2>3 DEF HeldBehind
  <2>7. ReleasedBehind'
    <3> SUFFICES ASSUME NEW k \in Hrm!Numbers, NEW o \in Operators
                 PROVE  /\ k > n => released'[k][o] = Hrm!NeverSeen
                        /\ k = n => Ahead(released'[k][o], stored.operators[o])
      BY <1>2, <2>1 DEF ReleasedBehind, n
    <3>1. released'[k][o] = IF k = n /\ o = r.operator THEN r.snapshot ELSE released[k][o]
      BY <1>1, <2>1, <2>2, <2>3 DEF HrmTyped
    <3>2. k \in Nat
      BY NumbersAreNat
    <3>3. /\ k > n => released[k][o] = Hrm!NeverSeen
          /\ k = n => Ahead(released[k][o], stored.operators[o])
      BY <1>1, <2>1 DEF ReleasedBehind, n
    <3>4. Ahead(r.snapshot, stored.operators[r.operator])
      BY <2>3 DEF Ahead
    <3> QED BY <2>2, <3>1, <3>2, <3>3, <3>4
  <2> QED BY <2>5, <2>6, <2>7 DEF HrmInv
<1> QED BY <1>3, <1>4

LEMMA HrmStep == ASSUME HrmInv, [Hrm!Next]_hrmVars PROVE HrmInv'
<1>1. CASE Hrm!Next
  BY <1>1, AdmitKeeps, CommitKeeps, OthersKeep, ReleaseKeeps DEF Hrm!Next
<1>2. CASE UNCHANGED hrmVars
  BY <1>2 DEF hrmVars, HrmInv, HrmTyped, Candidate, ReleasedBehind, HeldBehind
<1> QED BY <1>1, <1>2

-----------------------------------------------------------------------------
(* The pool statistics: what their invariant says.                         *)

LEMMA SoundIsStored ==
    ASSUME NEW s, SoundState(s) PROVE s = Hrm!New \/ Hrm!ValidShape(s)
<1>1. CASE s.generation = 0
  BY <1>1 DEF SoundState
<1>2. CASE s.generation # 0
  <2>1. s.generation \in 1 .. MaxCommits /\ s.seen \in Hrm!Authorities
    BY <1>2, SoundFields, NumbersAreNat
  <2>2. /\ Hrm!Cardinality(Hrm!Seen(s.endpoints)) <= EndpointLimit
        /\ Hrm!Cardinality(Hrm!Seen(s.operators)) <= OperatorLimit
    BY SameHrmCardinality DEF SoundState, WithinLimit
  <2> QED BY <2>1, <2>2 DEF Hrm!ValidShape, SoundState, HrmState
<1> QED BY <1>1, <1>2

\* The candidate of an admission can always be encoded and read back.
LEMMA HrmIsTyped == ASSUME HrmInv PROVE Hrm!TypeOK
<1>1. HrmTyped /\ Candidate
  BY DEF HrmInv
<1>2. stored = Hrm!New \/ Hrm!ValidShape(stored)
  BY <1>1, SoundIsStored DEF HrmTyped
<1>3. loaded \in {Hrm!New, Hrm!NoState} \/ Hrm!ValidShape(loaded)
  BY <1>1, <1>2 DEF HrmTyped
<1>4. admission.at = "commit" => Hrm!ValidShape(admission.candidate)
  BY <1>1, SoundIsStored, NewIsSound DEF Candidate
<1> QED BY <1>1, <1>2, <1>3, <1>4 DEF HrmTyped, Hrm!TypeOK

\* What can be reconfirmed is of the state that is stored.
LEMMA ReconfirmedIsOfTheState == ASSUME HrmInv PROVE Hrm!ReconfirmedIsNewest
<1> SUFFICES ASSUME held # NONE, Hrm!Reconfirmed(held.authority, held.at)
             PROVE  /\ held.snapshot = stored.operators[held.operator]
                    /\ stored.seen = held.authority /\ stored.status = "active"
  BY DEF Hrm!ReconfirmedIsNewest
<1>1. loaded = stored /\ held.generation = stored.generation
  BY DEF Hrm!Reconfirmed, Hrm!SameAdmission, HrmInv, HrmTyped
<1>2. IsOf(held, stored)
  BY <1>1 DEF HrmInv, HeldBehind
<1> QED BY <1>2 DEF IsOf

\* A release is of the stored state, which nothing released is ahead of.
LEMMA ReleasesAreInOrder ==
    ASSUME HrmInv, Hrm!Next PROVE Hrm!ReleasesInOrder /\ Hrm!ReleasesWhileActive
<1>1. HrmTyped /\ ReleasedBehind
  BY DEF HrmInv
<1>2. CASE released' = released
  BY <1>2 DEF Hrm!ReleasesInOrder, Hrm!ReleasesWhileActive
<1>3. CASE released' # released
  <2> DEFINE r == admission.result
             n == stored.seen.service
  <2>1. Hrm!Release
    BY <1>3 DEF Hrm!Next, Hrm!Admit, Hrm!Begin, Hrm!Commit, Hrm!CommitFails,
                Hrm!CommitIsUnknown, Hrm!Load, Hrm!LoseLease
  <2>2. /\ r \in Hrm!Results /\ IsOf(r, stored) /\ stored.generation # 0
        /\ released' = [released EXCEPT ![n][r.operator] = r.snapshot]
    BY <1>3, <2>1, ReleaseMoves
  <2>3. n \in Hrm!Numbers
    BY <1>1, <2>2, SoundFields, AuthoritiesAre DEF HrmTyped
  <2>4. r.operator \in Operators /\ r.snapshot = stored.operators[r.operator]
    BY <2>2 DEF Hrm!Results, IsOf
  <2>5. Ahead(released[n][r.operator], r.snapshot)
    BY <1>1, <2>2, <2>3, <2>4 DEF ReleasedBehind
  <2> HIDE DEF r, n
  <2>6. ASSUME NEW k \in Hrm!Numbers, NEW o \in Operators
        PROVE  Ahead(released[k][o], released'[k][o])
    <3>1. released'[k][o] = IF k = n /\ o = r.operator THEN r.snapshot ELSE released[k][o]
      BY <1>1, <2>2, <2>3, <2>4 DEF HrmTyped
    <3> QED BY <2>5, <3>1 DEF Ahead
  <2>7. Hrm!ReleasesInOrder
    BY <2>6 DEF Hrm!ReleasesInOrder, Ahead
  <2>8. Hrm!ReleasesWhileActive
    BY <2>2 DEF Hrm!ReleasesWhileActive, IsOf
  <2> QED BY <2>7, <2>8
<1> QED BY <1>2, <1>3

\* What is stored is kept, or replaced by a candidate that moves on from it.
LEMMA StateMovesOn == ASSUME HrmInv, Hrm!Next PROVE Hrm!NeverForgets
<1>1. SoundState(stored) /\ Candidate
  BY DEF HrmInv, HrmTyped
<1> SUFFICES ASSUME stored # Hrm!New PROVE Hrm!NeverForgets
  BY DEF Hrm!NeverForgets
<1>2. stored.generation # 0
  BY <1>1 DEF SoundState
<1>3. SoundState(stored') /\ Moves(stored, stored')
  <2>1. CASE Hrm!Commit \/ Hrm!CommitIsUnknown
    BY <1>1, <2>1 DEF Candidate, Hrm!Commit, Hrm!CommitIsUnknown
  <2>2. CASE ~(Hrm!Commit \/ Hrm!CommitIsUnknown)
    <3>1. stored' = stored
      BY <2>2 DEF Hrm!Next, Hrm!Admit, Hrm!Begin, Hrm!CommitFails, Hrm!Release, Hrm!Load,
                  Hrm!LoseLease
    <3> QED BY <1>1, <3>1 DEF Moves
  <2> QED BY <2>1, <2>2
<1>4. Forward(stored, stored')
  BY <1>1, <1>2, <1>3, ForwardIsReflexive DEF Moves
<1>5. ASSUME NEW p \in Hrm!Positions, NEW q \in Hrm!Positions, Ahead(p, q)
      PROVE  q.number >= p.number
  BY <1>5, PositionsAre DEF Ahead
<1>6. /\ stored.endpoints \in [Endpoints -> Hrm!Positions]
      /\ stored'.endpoints \in [Endpoints -> Hrm!Positions]
      /\ stored.operators \in [Operators -> Hrm!Positions]
      /\ stored'.operators \in [Operators -> Hrm!Positions]
  BY <1>1, <1>3, SoundFields
<1>7. stored'.seen.service = stored.seen.service =>
        /\ \A e \in Endpoints : stored'.endpoints[e].number >= stored.endpoints[e].number
        /\ \A o \in Operators : stored'.operators[o].number >= stored.operators[o].number
  BY <1>4, <1>5, <1>6 DEF Forward
<1> QED BY <1>4, <1>7 DEF Hrm!NeverForgets, Forward

-----------------------------------------------------------------------------
(* The three together.                                                     *)

WalletInv == AdmissionInv /\ Measured /\ SessionInv /\ HrmInv
WalletParts == {"admission", "session", "hrm"}

\* The three share no state: a step is one of the part it is about, and none
\* of the others.
LEMMA WalletPartsStep ==
    ASSUME [WalletNext]_<<vars, sessionVars, hrmVars, part>>
    PROVE  [Next]_vars /\ [Session!Next]_sessionVars /\ [Hrm!Next]_hrmVars /\ part' = part
BY DEF WalletNext

\* Whichever of the three a behaviour is about, the three invariants hold throughout.
THEOREM WalletInvariantHolds == WalletSpec => []WalletInv
<1>1. WalletInit => WalletInv
  BY AdmissionInit, MeasuredInit, SessionInit, HrmInit DEF WalletInit, WalletInv
<1>2. WalletInv /\ [WalletNext]_<<vars, sessionVars, hrmVars, part>> => WalletInv'
  <2> SUFFICES ASSUME WalletInv, [WalletNext]_<<vars, sessionVars, hrmVars, part>>
               PROVE  WalletInv'
    OBVIOUS
  <2> QED BY WalletPartsStep, AdmissionStep, MeasuredStep, SessionStep, HrmStep DEF WalletInv
<1> QED BY <1>1, <1>2, PTL DEF WalletSpec

\* A behaviour of the three is, for the admission, one of its own specification,
\* and so keeps what the theorems above say of it.
THEOREM WalletImplementsAdmission == WalletSpec => Spec
<1>1. WalletInit => Init
  BY DEF WalletInit
<1>2. [WalletNext]_<<vars, sessionVars, hrmVars, part>> => [Next]_vars
  BY WalletPartsStep
<1> QED BY <1>1, <1>2, PTL DEF WalletSpec, Spec

\* The admission, the session and the pool statistics keep to their types: a
\* host that launches holds the lock and its files, and what an admission of
\* pool statistics is about to commit can be encoded and read back.
THEOREM WalletTypesCorrect == WalletSpec => []TypesOK
<1>1. WalletSpec => [](part \in WalletParts)
  <2>1. WalletInit => part \in WalletParts
    BY DEF WalletInit, WalletParts
  <2>2. part \in WalletParts /\ [WalletNext]_<<vars, sessionVars, hrmVars, part>>
           => (part \in WalletParts)'
    BY DEF WalletNext
  <2> QED BY <2>1, <2>2, PTL DEF WalletSpec
<1>2. part \in WalletParts /\ WalletInv => TypesOK
  BY AdmissionIsTyped, SessionIsTyped, HrmIsTyped DEF WalletInv, TypesOK, WalletParts
<1> QED BY <1>1, <1>2, WalletInvariantHolds, PTL

\* There is one wallet service at most, it agrees with the host on the next
\* sequence, and every process has a restart generation of its own.
THEOREM ServicesStaySeparate == WalletSpec => ServicesAreSeparate
<1> DEFINE Separate == part = "session" => Session!OneService /\ Session!SequencesAgree
           Spawns == part = "session" => Session!SpawnsFresh
<1>1. WalletInv => Separate
  BY OneServiceAtATime DEF WalletInv
<1>2. WalletInv /\ [WalletNext]_<<vars, sessionVars, hrmVars, part>>
         => [Spawns]_<<sessionVars, part>>
  <2> SUFFICES ASSUME WalletInv, WalletNext, part = "session", ~UNCHANGED <<sessionVars, part>>
               PROVE  Session!SpawnsFresh
    BY DEF sessionVars, hrmVars
  <2>1. Session!Next
    BY DEF WalletNext
  <2> QED BY <2>1, ProcessesAreFresh DEF WalletInv
<1> HIDE DEF Separate, Spawns
<1>3. WalletSpec => []Separate /\ [][Spawns]_<<sessionVars, part>>
  BY <1>1, <1>2, WalletInvariantHolds, PTL DEF WalletSpec
<1> QED BY <1>3 DEF ServicesAreSeparate, Separate, Spawns

\* A use of the wallet authority that is reported as done ran at the revision,
\* under the lease and on the database the session was made for.
THEOREM AuthorityIsHeldInUse == WalletSpec => AuthorityHeldInUse
<1>1. WalletInv /\ [WalletNext]_<<vars, sessionVars, hrmVars, part>>
         => [part = "session" => Session!UsesHeldAuthority]_<<sessionVars, part>>
  <2> SUFFICES ASSUME WalletInv, [WalletNext]_<<vars, sessionVars, hrmVars, part>>
               PROVE  Session!UsesHeldAuthority
    OBVIOUS
  <2> QED BY WalletPartsStep, UsesAreHeld DEF WalletInv
<1> QED BY <1>1, WalletInvariantHolds, PTL DEF WalletSpec, AuthorityHeldInUse

\* The pool statistics never go back: releases of an operator are in order and
\* none comes after a contradiction, the durable state forgets nothing, and
\* what can be reconfirmed is the newest that was accepted.
THEOREM PoolStatsStayAhead == WalletSpec => PoolStatsNeverGoBack
<1> DEFINE Newest == part = "hrm" => Hrm!ReconfirmedIsNewest
           Onward == part = "hrm" => /\ Hrm!ReleasesInOrder /\ Hrm!ReleasesWhileActive
                                     /\ Hrm!NeverForgets
<1>1. WalletInv => Newest
  BY ReconfirmedIsOfTheState DEF WalletInv
<1>2. WalletInv /\ [WalletNext]_<<vars, sessionVars, hrmVars, part>>
         => [Onward]_<<hrmVars, part>>
  <2> SUFFICES ASSUME WalletInv, WalletNext, part = "hrm", ~UNCHANGED <<hrmVars, part>>
               PROVE  Hrm!ReleasesInOrder /\ Hrm!ReleasesWhileActive /\ Hrm!NeverForgets
    BY DEF sessionVars, hrmVars
  <2>1. Hrm!Next
    BY DEF WalletNext
  <2> QED BY <2>1, ReleasesAreInOrder, StateMovesOn DEF WalletInv
<1> HIDE DEF Newest, Onward
<1>3. WalletSpec => []Newest /\ [][Onward]_<<hrmVars, part>>
  BY <1>1, <1>2, WalletInvariantHolds, PTL DEF WalletSpec
<1> QED BY <1>3 DEF PoolStatsNeverGoBack, Newest, Onward
=============================================================================
