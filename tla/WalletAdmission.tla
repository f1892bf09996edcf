-------------------------- MODULE WalletAdmission --------------------------
(***************************************************************************)
(* Admission and launch of the wallet service's released executable.       *)
(*                                                                         *)
(* A release is a manifest and the executable it names, put by an          *)
(* installer into a directory of the data directory.  Every native host of *)
(* the installation inspects them, commits the release to the anti-rollback *)
(* state they share (a file written by rename, under a file lock) and, when *)
(* a wallet session starts, revalidates everything under the same lock,    *)
(* copies the executable into a sealed memory file and starts the copy.    *)
(* The installer, another host and the clock act between any two steps; a  *)
(* host may die at any step, and the state file may be deleted.            *)
(*                                                                         *)
(* Documents are records of what the checks tell apart.  A digest is the   *)
(* thing digested: a manifest's is the manifest's id, an executable's the  *)
(* content's.  The version of a file stands for the device, inode, size,   *)
(* owner, mode and times that same_open_file compares; the directories'    *)
(* identities are those of the files in them.  The signature is a flag.    *)
(***************************************************************************)
EXTENDS Integers, Sequences, FiniteSets, Functions

CONSTANTS
    Hosts,             \* native hosts that share a data directory
    Configuration,     \* the tables compiled into each host
    Documents,         \* manifests
    Contents,          \* executables, by content
    ManifestFiles,     \* what an installer leaves behind: pairs of a document and a mode
    ArtifactFiles,     \* pairs of a content and a mode
    Absent,            \* no file, no state entry, no predecessor, no expiry
    Nobody,
    NATIVE,            \* the contents current_platform_executable accepts
    MAX_ANTI_ROLLBACK_RELEASE_LINES,
    MaxInstalls,       \* bound: files installed
    MaxFaults          \* bound: deaths, removals, replaced databases and clock ticks

SERVICE_CAPABILITIES ==
    {"base", "reads", "authority", "provider", "value", "browser"}
REQUIRED_BASE_CAPABILITIES == {"base"}
Modes == {"immutable", "writable", "shared"}

Lines == {d.line : d \in Documents}
Entry(m) == [line |-> m.line, seq |-> m.seq, manifest |-> m.id, key |-> m.key, artifact |-> m.artifact]
Entries == {Entry(m) : m \in Documents}

ASSUME NobodyIsNoHost == Nobody \notin Hosts
ASSUME AbsentIsNothing == Absent \notin Documents /\ Absent \notin Contents /\ Absent \notin Entries
ASSUME SequencesAreNat == \A m \in Documents : m.seq \in Nat
ASSUME FilesAreDocuments ==
    /\ ManifestFiles \subseteq (Documents \cup {Absent}) \X Modes
    /\ ArtifactFiles \subseteq (Contents \cup {Absent}) \X Modes
ASSUME BoundsAreNat ==
    MAX_ANTI_ROLLBACK_RELEASE_LINES \in Nat /\ MaxInstalls \in Nat /\ MaxFaults \in Nat

VARIABLES
    manifest,    \* manifest.json: [doc, mode, version]
    artifact,    \* the executable: [doc (its content), mode, version]
    state,       \* the anti-rollback state: release line -> entry
    lock,        \* holder of the admission lock
    clock,
    database,    \* the wallet database still is the one of the bootstrap lease
    pc,          \* what a host is at
    admitted,    \* WalletAbiDiscovery.state of a host
    retained,    \* the files a host holds open: [manifest, artifact]
    read,        \* the state as a host has read it under the lock
    children,    \* services a host has started: [doc, content]
    removed,     \* somebody deleted the state file
    installs, faults

files == <<manifest, artifact, installs>>
shared == <<state, lock, removed>>
host == <<pc, admitted, retained, read, children>>
vars == <<files, shared, clock, database, host, faults>>

Steps == {"idle", "manifest", "artifact", "commit", "record", "launch", "copy", "verify",
          "spawn", "spawned"}
\* A host at one of these steps holds the admission lock.
Holding == {"record", "copy", "verify", "spawn", "spawned"}

NoFile == [doc |-> Absent, mode |-> "immutable", version |-> 0]
Nothing == [manifest |-> NoFile, artifact |-> NoFile]
Missing == [kind |-> "missing", reason |-> "walletArtifactMissing"]
Rejected(reason) == [kind |-> "rejected", reason |-> reason]
Integrity == [kind |-> "integrityChecked", reason |-> "walletArtifactAuthenticityUnavailable"]
Authentic == [kind |-> "authenticityVerified", reason |-> "walletArtifactQualificationUnavailable"]
Admitted == [kind |-> "launchAdmitted", reason |-> "walletServiceTransportUnavailable"]

-----------------------------------------------------------------------------
(* WalletAbiVerifierConfiguration: trust roots, floors, qualified releases *)

TrustRoots(c, key, line, seq) ==
    {r \in c.roots : r.key = key /\ r.line = line /\ seq \in r.first .. r.last}

Floors(c, line) == {f \in c.floors : f.line = line}
AboveFloor(c, line, seq) == \E f \in Floors(c, line) : f.minimum <= seq

QualifiedRelease(c, m) ==
    {q \in c.qualified : [q EXCEPT !.genesis = FALSE]
                         = [key |-> m.key, line |-> m.line, seq |-> m.seq, manifest |-> m.id,
                            artifact |-> m.artifact, genesis |-> FALSE]}

UniqueConfiguration(c) ==
    /\ \A r, s \in c.roots :
          r # s => \/ r.key # s.key \/ r.line # s.line
                   \/ r.last < s.first \/ s.last < r.first
    /\ \A f, g \in c.floors : f.line = g.line => f = g
    /\ \A p, q \in c.qualified : p.line = q.line /\ p.seq = q.seq => p = q

ValidConfiguration(c) ==
    /\ \A r \in c.roots : 0 < r.first /\ r.first <= r.last /\ Floors(c, r.line) # {}
    /\ \A f \in c.floors : f.minimum > 0
    /\ \A q \in c.qualified :
          /\ q.seq > 0 /\ AboveFloor(c, q.line, q.seq)
          /\ TrustRoots(c, q.key, q.line, q.seq) # {}
    /\ UniqueConfiguration(c)

-----------------------------------------------------------------------------
(* valid_manifest_contract and the checks around it                        *)

WindowOpen(m, now) ==
    /\ m.published <= now /\ m.from <= now
    /\ m.until # Absent => m.until > now /\ m.until > m.from

ExactCapabilities(names) ==
    /\ Len(names) <= Cardinality(SERVICE_CAPABILITIES)
    /\ IsInjective(names)
    /\ Range(names) \subseteq SERVICE_CAPABILITIES
    /\ REQUIRED_BASE_CAPABILITIES \subseteq Range(names)

\* The syntax of every text field, and the versions this host requires.
FieldsWellFormed(m) == m.fields

ContractHolds(m, now) ==
    FieldsWellFormed(m) /\ m.seq > 0 /\ ExactCapabilities(m.capabilities) /\ WindowOpen(m, now)

\* What the mode of a file allows: others may write it, the owner may, nobody.
Unsafe(f) == f.mode = "shared"
Immutable(f) == f.mode = "immutable"

\* The bytes are the canonical encoding (JCS) of the document they decode to.
Canonical(m) == m.shape = "canonical"

\* What inspect_manifest says of the manifest's bytes, "" when it goes on.
ManifestRejection(f, now) ==
    IF Unsafe(f) THEN "walletArtifactManifestUnsafe"
    ELSE IF ~Canonical(f.doc) THEN f.doc.shape
    ELSE IF ~ContractHolds(f.doc, now) THEN "walletArtifactContractMismatch"
    ELSE IF ~f.doc.payloadMatches THEN "walletArtifactSignaturePayloadMismatch"
    ELSE ""

-----------------------------------------------------------------------------
(* The anti-rollback state                                                 *)

Empty == [l \in Lines |-> Absent]

Recorded(s, m) == s[m.line] = Entry(m)

\* commit_anti_rollback accepts m after what the state s says of its line.
Accepts(s, m, genesis) ==
    LET previous == s[m.line] IN
    IF previous = Absent
    THEN /\ genesis /\ m.previous = Absent
         /\ Cardinality({l \in Lines : s[l] # Absent}) < MAX_ANTI_ROLLBACK_RELEASE_LINES
    ELSE \/ m.seq = previous.seq /\ Entry(m) = previous
         \/ m.seq > previous.seq /\ m.previous = previous.manifest

\* Mutant: the lock file is opened, and not locked.
LockIsIgnored(h) == TRUE

LockIsFree(h) == lock = Nobody

Acquire(h) == LockIsFree(h) /\ lock' = h
Unlock == lock' = Nobody

-----------------------------------------------------------------------------
Init ==
    /\ manifest = NoFile /\ artifact = NoFile
    /\ state = Empty /\ lock = Nobody
    /\ clock = 0 /\ database = TRUE
    /\ pc = [h \in Hosts |-> "idle"] /\ admitted = [h \in Hosts |-> Missing]
    /\ retained = [h \in Hosts |-> Nothing] /\ read = [h \in Hosts |-> Empty]
    /\ children = [h \in Hosts |-> {}]
    /\ removed = FALSE /\ installs = 0 /\ faults = 0

Goes(h, from, to) == pc[h] = from /\ pc' = [pc EXCEPT ![h] = to]
Becomes(h, verdict) == admitted' = [admitted EXCEPT ![h] = verdict]

-----------------------------------------------------------------------------
(* refresh: inspect_manifest                                               *)

Inspect(h) ==
    /\ IF ValidConfiguration(Configuration[h])
       THEN Goes(h, "idle", "manifest") /\ UNCHANGED admitted
       ELSE Goes(h, "idle", "idle")
            /\ Becomes(h, Rejected("walletArtifactVerifierConfigurationInvalid"))
    /\ retained' = [retained EXCEPT ![h] = Nothing]
    /\ UNCHANGED <<files, shared, clock, database, read, children, faults>>

ReadManifest(h) ==
    /\ LET reason == ManifestRejection(manifest, clock) IN
       \/ /\ manifest.doc = Absent /\ Goes(h, "manifest", "idle") /\ Becomes(h, Missing)
          /\ UNCHANGED retained
       \/ /\ manifest.doc # Absent /\ reason # ""
          /\ Goes(h, "manifest", "idle") /\ Becomes(h, Rejected(reason))
          /\ UNCHANGED retained
       \/ /\ manifest.doc # Absent /\ reason = ""
          /\ Goes(h, "manifest", "artifact")
          /\ retained' = [retained EXCEPT ![h].manifest = manifest]
          /\ UNCHANGED admitted
    /\ UNCHANGED <<files, shared, clock, database, read, children, faults>>

\* The executable's digest is the manifest's, and its header this platform's.
DigestMatches(m, f) == f.doc = m.doc.artifact
PlatformMatches(f) == f.doc \in NATIVE

\* The verdict on the executable of a manifest that was read, and then on
\* the signature, the floor, the qualification and the permissions.
Verdict(c, m, f) ==
    LET doc == m.doc IN
    IF f.doc = Absent THEN Rejected("walletArtifactMissing")
    ELSE IF Unsafe(f) THEN Rejected("walletArtifactUnsafe")
    ELSE IF ~DigestMatches(m, f) THEN Rejected("walletArtifactDigestMismatch")
    ELSE IF TrustRoots(c, doc.key, doc.line, doc.seq) = {} THEN Integrity
    ELSE IF ~doc.signed THEN Rejected("walletArtifactSignatureInvalid")
    ELSE IF ~AboveFloor(c, doc.line, doc.seq) THEN Rejected("walletArtifactReleaseBelowFloor")
    ELSE IF QualifiedRelease(c, doc) = {} THEN Authentic
    ELSE IF ~Immutable(m) \/ ~Immutable(f) THEN Rejected("walletArtifactMutable")
    ELSE IF ~PlatformMatches(f) THEN Rejected("walletArtifactPlatformMismatch")
    ELSE Admitted

CheckArtifact(h) ==
    /\ pc[h] = "artifact"
    /\ LET verdict == Verdict(Configuration[h], retained[h].manifest, artifact) IN
       IF verdict = Admitted
       THEN /\ Goes(h, "artifact", "commit")
            /\ retained' = [retained EXCEPT ![h].artifact = artifact]
            /\ UNCHANGED admitted
       ELSE /\ Goes(h, "artifact", "idle") /\ Becomes(h, verdict)
            /\ retained' = [retained EXCEPT ![h] = Nothing]
    /\ UNCHANGED <<files, shared, clock, database, read, children, faults>>

\* commit_anti_rollback takes the lock and reads the state ...
BeginCommit(h) ==
    /\ Goes(h, "commit", "record") /\ Acquire(h)
    /\ read' = [read EXCEPT ![h] = state]
    /\ UNCHANGED <<files, state, removed, clock, database, admitted, retained, children, faults>>

\* Mutant: a state file that could not be written is not noticed.
CommittedRegardless(h, written) == TRUE

Committed(h, written) == written

\* ... and accepts the release or not, writes, reads back and unlocks.  The
\* write may fail: the temporary file is unlinked and nothing was renamed.
Commit(h) ==
    LET m == retained[h].manifest.doc
        accepted == Accepts(read[h], m, \E q \in QualifiedRelease(Configuration[h], m) : q.genesis)
    IN
    /\ Goes(h, "record", "idle") /\ Unlock
    /\ read' = [read EXCEPT ![h] = Empty]
    /\ \E written \in BOOLEAN :
          /\ state' = IF accepted /\ ~Recorded(read[h], m) /\ written
                      THEN [read[h] EXCEPT ![m.line] = Entry(m)] ELSE state
          /\ IF accepted /\ (Recorded(read[h], m) \/ Committed(h, written))
             THEN Becomes(h, Admitted) /\ UNCHANGED retained
             ELSE /\ Becomes(h, Rejected("walletArtifactRollbackRejected"))
                  /\ retained' = [retained EXCEPT ![h] = Nothing]
    /\ UNCHANGED <<files, removed, clock, database, children, faults>>

-----------------------------------------------------------------------------
(* launch_for_database                                                     *)

\* The paths still lead to the files held open (device, inode, size, times).
SameFiles(h) == [manifest |-> manifest, artifact |-> artifact] = retained[h]

\* Mutant: the state is not read again before the launch.
RevalidatedFilesOnly(h) == SameFiles(h) /\ WindowOpen(retained[h].manifest.doc, clock)

\* revalidate_for_launch_while_locked: the paths still lead to the files
\* held open, and the state still names this release.
Revalidated(h) ==
    LET m == retained[h].manifest.doc IN
    SameFiles(h) /\ Recorded(state, m) /\ WindowOpen(m, clock)

Aborts(h, from) == Goes(h, from, "idle") /\ Unlock

Launch(h) ==
    /\ admitted[h] = Admitted /\ database /\ children[h] = {}
    /\ Goes(h, "idle", "launch")
    /\ UNCHANGED <<files, shared, clock, database, admitted, retained, read, children, faults>>

LockForLaunch(h) ==
    /\ Acquire(h)
    /\ Goes(h, "launch", "copy")
    /\ UNCHANGED <<files, state, removed, clock, database, admitted, retained, read, children, faults>>

\* The first revalidation and sealed_executable_copy.
Copy(h) ==
    /\ pc[h] = "copy"
    /\ IF Revalidated(h) THEN Goes(h, "copy", "verify") /\ UNCHANGED lock ELSE Aborts(h, "copy")
    /\ UNCHANGED <<files, state, removed, clock, database, admitted, retained, read, children, faults>>

\* The second revalidation, still under the lock ...
Verify(h) ==
    /\ pc[h] = "verify"
    /\ IF Revalidated(h) THEN Goes(h, "verify", "spawn") /\ UNCHANGED lock ELSE Aborts(h, "verify")
    /\ UNCHANGED <<files, state, removed, clock, database, admitted, retained, read, children, faults>>

\* ... and the start of the sealed copy.
Spawn(h) ==
    /\ IF database
       THEN /\ Goes(h, "spawn", "spawned") /\ UNCHANGED lock
            /\ children' = [children EXCEPT ![h] =
                  {[doc |-> retained[h].manifest.doc, content |-> retained[h].artifact.doc]}]
       ELSE Aborts(h, "spawn") /\ UNCHANGED children
    /\ UNCHANGED <<files, state, removed, clock, database, admitted, retained, read, faults>>

\* A database that changed while the service started costs the service.
AttestDatabase(h) ==
    /\ Aborts(h, "spawned")
    /\ children' = IF database THEN children ELSE [children EXCEPT ![h] = {}]
    /\ UNCHANGED <<files, state, removed, clock, database, admitted, retained, read, faults>>

\* The read session ends and takes its service with it.
EndSession(h) ==
    /\ pc[h] = "idle" /\ children[h] # {}
    /\ children' = [children EXCEPT ![h] = {}]
    /\ UNCHANGED <<files, shared, clock, database, pc, admitted, retained, read, faults>>

-----------------------------------------------------------------------------
(* Installer, user, clock, and hosts that die                              *)

InstallManifest ==
    /\ installs < MaxInstalls /\ installs' = installs + 1
    /\ \E f \in ManifestFiles :
          manifest' = [doc |-> f[1], mode |-> f[2], version |-> manifest.version + 1]
    /\ UNCHANGED <<artifact, shared, clock, database, host, faults>>

InstallArtifact ==
    /\ installs < MaxInstalls /\ installs' = installs + 1
    /\ \E f \in ArtifactFiles :
          artifact' = [doc |-> f[1], mode |-> f[2], version |-> artifact.version + 1]
    /\ UNCHANGED <<manifest, shared, clock, database, host, faults>>

Fault == faults < MaxFaults /\ faults' = faults + 1

RemoveState ==
    /\ Fault /\ removed' = TRUE
    /\ state' = Empty
    /\ UNCHANGED <<files, lock, clock, database, host>>

ReplaceDatabase ==
    /\ Fault /\ database /\ database' = FALSE
    /\ UNCHANGED <<files, shared, clock, host>>

Tick ==
    /\ Fault /\ clock' = clock + 1
    /\ UNCHANGED <<files, shared, database, host>>

LockAfterDeath(h) == IF lock = h THEN Nobody ELSE lock

Die(h) ==
    /\ Fault
    /\ lock' = LockAfterDeath(h)
    /\ pc' = [pc EXCEPT ![h] = "idle"] /\ admitted' = [admitted EXCEPT ![h] = Missing]
    /\ retained' = [retained EXCEPT ![h] = Nothing]
    /\ read' = [read EXCEPT ![h] = Empty] /\ children' = [children EXCEPT ![h] = {}]
    /\ UNCHANGED <<files, state, removed, clock, database>>

-----------------------------------------------------------------------------
World == InstallManifest \/ InstallArtifact \/ RemoveState \/ ReplaceDatabase \/ Tick

Next ==
    \/ \E h \in Hosts :
          \/ Inspect(h) \/ ReadManifest(h) \/ CheckArtifact(h) \/ BeginCommit(h) \/ Commit(h)
          \/ Launch(h) \/ LockForLaunch(h) \/ Copy(h) \/ Verify(h) \/ Spawn(h)
          \/ AttestDatabase(h) \/ EndSession(h) \/ Die(h)
    \/ World

Spec == Init /\ [][Next]_vars

-----------------------------------------------------------------------------
\* What a host can say of an artifact.
Reasons ==
    {"walletArtifactVerifierConfigurationInvalid", "walletArtifactManifestUnsafe",
     "walletArtifactContractMismatch", "walletArtifactSignaturePayloadMismatch",
     "walletArtifactMissing", "walletArtifactUnsafe", "walletArtifactDigestMismatch",
     "walletArtifactSignatureInvalid", "walletArtifactReleaseBelowFloor",
     "walletArtifactMutable", "walletArtifactPlatformMismatch",
     "walletArtifactRollbackRejected"} \cup {m.shape : m \in Documents}
Verdicts == {Missing, Integrity, Authentic, Admitted} \cup {Rejected(r) : r \in Reasons}

Files(contents) == [doc : contents \cup {Absent}, mode : Modes, version : Nat]

\* The types of the variables; a host that is at a step of the commit or of
\* the launch holds the lock and the two files it opened, and what it says of
\* them is one of its verdicts.
TypeOK ==
    /\ manifest \in Files(Documents) /\ artifact \in Files(Contents)
    /\ state \in [Lines -> Entries \cup {Absent}]
    /\ read \in [Hosts -> [Lines -> Entries \cup {Absent}]]
    /\ lock \in Hosts \cup {Nobody}
    /\ clock \in 0 .. MaxFaults /\ database \in BOOLEAN
    /\ pc \in [Hosts -> Steps]
    /\ admitted \in [Hosts -> Verdicts]
    /\ retained \in [Hosts -> [manifest : Files(Documents), artifact : Files(Contents)]]
    /\ \A h \in Hosts : pc[h] \in Holding => lock = h /\ retained[h].manifest.doc # Absent

\* No interleaving of hosts takes the anti-rollback state back: a line keeps
\* its entry, moves to a release that names the entry's manifest as its
\* predecessor and has a higher sequence, or is lost with the whole file
\* (commit_anti_rollback reads, decides and renames under one lock).
NeverGoesBack ==
    \/ removed' /\ state' = Empty
    \/ \A l \in Lines : state[l] # Absent =>
          \/ state'[l] = state[l]
          \/ /\ state'[l] # Absent /\ state'[l].seq > state[l].seq
             /\ \E m \in Documents : Entry(m) = state'[l] /\ m.previous = state[l].manifest
NoRollback == [][NeverGoesBack]_vars

\* A host that calls a release admitted has it in the durable state, or a
\* later release of its line, unless somebody removed the state since: no
\* death and no failed write separates the two.
AdmittedIsDurable ==
    \A h \in Hosts : admitted[h] = Admitted /\ ~removed /\ pc[h] \in {"idle", "launch", "copy"} =>
        LET m == retained[h].manifest.doc IN
        state[m.line] # Absent /\ state[m.line].seq >= m.seq

\* What is started is, at the moment it starts, the newest release of its
\* line in the state all hosts share, and its bytes are those of a release
\* that this host's table qualifies: the lock spans the last check and the
\* start, so no newer release can be committed in between (only the whole
\* file can still be removed).
StartsTheCurrent ==
    \A h \in Hosts : \A s \in children'[h] \ children[h] :
        /\ state'[s.doc.line] \in {Entry(s.doc)} \cup (IF removed THEN {Absent} ELSE {})
        /\ s.content = s.doc.artifact
        /\ QualifiedRelease(Configuration[h], s.doc) # {}
OnlyTheCurrentReleaseStarts == [][StartsTheCurrent]_vars
=============================================================================
