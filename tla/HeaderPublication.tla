-------------------------- MODULE HeaderPublication --------------------------
(***************************************************************************)
(* How several processes share one header state on disk: two databases     *)
(* that no transaction spans, a small record that says whether they may be *)
(* read, advisory file locks between processes, an RwLock and two mutexes  *)
(* within each, and an epoch that every process advances when the name     *)
(* tree it hands out may have changed.                                     *)
(*                                                                         *)
(* Every lock is taken by a step of its own, in the order of the code.     *)
(* Writes to disk are separate steps too, so that a process can die or     *)
(* fail between any two.  The network exchange of a sync is one choice of  *)
(* a chain and of fresh or stale peer evidence.                            *)
(***************************************************************************)
EXTENDS Integers, Sequences, FiniteSets

CONSTANTS
    Process, Thread,
    Home,             \* the process of a thread
    Duties,           \* the operations a thread runs
    Chain,            \* best headers, i.e. header chains
    Genesis,          \* the chain of an empty database
    NoChain,          \* no identity was read yet
    RootOf,           \* the name-tree root a chain has authority for
    NoRoot,           \* ... or none
    Pending,          \* RememberedNameTreeAuthority::PendingLocalInvalidation
    Endpoint,         \* endpoints of relay peers
    MAX_GENERATION,   \* stands for u64::MAX of a storage generation
    MAX_EPOCH,        \* stands for u64::MAX of a maintenance epoch
    MaxFaults,        \* bound: crashes and I/O failures
    OneByOne          \* grain: a step for each lock, or one for all of a section

ASSUME HomeIsAProcess == Home \in [Thread -> Process]
ASSUME RootsAreNotMarkers ==
    /\ Genesis \in Chain /\ NoChain \notin Chain /\ RootOf[Genesis] = NoRoot
    /\ Pending # NoRoot /\ Pending \notin {RootOf[c] : c \in Chain}
ASSUME DutiesAreOperations ==
    Duties \in [Thread -> SUBSET {"sync", "mutate", "clear", "addPeer", "status", "request"}]
ASSUME LimitsAreNat ==
    /\ MAX_GENERATION \in Nat /\ MAX_EPOCH \in Nat \ {0} /\ MaxFaults \in Nat
    /\ OneByOne \in BOOLEAN

VARIABLES
    hgen, best,    \* headers.sqlite: generation and best header
    pgen, fresh,   \* peers.sqlite: generation, evidence for the target height
    known,         \* peers.sqlite: the relay endpoints that were added
    record,        \* the record in .header-state
    life,          \* whether a process has opened its coordination
    epoch,         \* RuntimeCoordination::maintenance_epoch
    remembered,    \* RuntimeCoordination::observed_name_tree_authority
    phase, holds,  \* what a thread is at, and the locks it holds
    base,          \* the storage identity a thread read last, and its record
    staged,        \* what its private sync produced
    lease,         \* the epoch and root of a request or of a status snapshot
    spoiled,       \* history: maintenance began since the lease was taken
    issued,        \* history: the highest generation ever marked ready
    faults

disk    == <<hgen, best, pgen, fresh, known, record, issued>>
memory  == <<life, epoch, remembered>>
threads == <<phase, holds, base, staged, lease, spoiled>>
vars == <<disk, memory, threads, faults>>

Root     == {RootOf[c] : c \in Chain} \ {NoRoot}
Gen      == 0 .. MAX_GENERATION
Identity == [h : Gen, p : Gen, best : Chain \cup {NoChain}]
NoId     == [h |-> 0, p |-> 0, best |-> NoChain]
Ready(id) == [state |-> "ready", id |-> id]
NotReady  == {[state |-> s, id |-> NoId] : s \in {"updating", "empty", "malformed"}}
Updating  == [state |-> "updating", id |-> NoId]
Torn      == NotReady \ {Updating}
NoBase  == [id |-> NoId, ready |-> FALSE]
NoStage == [best |-> NoChain, fresh |-> FALSE, known |-> {}]
NoLease == [epoch |-> 0, root |-> NoRoot]

-----------------------------------------------------------------------------
(* The locks each step needs, in the order the code takes them.            *)

X(l) == <<l, "exclusive">>
S(l) == <<l, "shared">>
File == {"header-sync", "header-state", "peer-state"}
LockMode ==
    {X(l) : l \in File \cup {"sync", "maintenance", "peers"}} \cup
    {S(l) : l \in File \cup {"maintenance"}}

Reading == <<S("maintenance"), S("header-state"), S("peer-state")>>
Admission == <<S("maintenance"), S("header-state"), X("peers"), S("peer-state")>>
\* Mutant: publication takes the file before the lock of its own process.
PublishingFileFirst ==
    <<X("header-state"), X("maintenance"), X("peers"), X("peer-state")>>

Publishing == <<X("maintenance"), X("header-state"), X("peers"), X("peer-state")>>
SavingPeers == <<X("peers"), X("peer-state")>>
Phase == {"idle", "sync", "compare", "reconcile", "observe", "decide", "stage", "fetch",
          "publish", "headers", "peers", "finish", "mutate", "rewrite", "stampHeaders",
          "stampPeers", "clear", "addPeer", "status", "admit", "retry", "refuse",
          "working", "loadPeers", "savePeers", "write", "tunnel", "relay"}
Polled == {"admit", "retry", "refuse"}

Needs == [ph \in Phase |->
    CASE ph = "sync"      -> <<X("sync")>>
      [] ph = "compare"   -> Reading
      [] ph = "reconcile" -> <<X("maintenance"), S("header-state"), S("peer-state")>>
      [] ph = "observe"   -> <<S("header-state")>>
      [] ph = "decide"    -> <<X("header-sync"), S("header-state")>>
      [] ph \in {"stage", "status", "admit"} -> Admission
      [] ph = "publish"   -> Publishing
      [] ph = "mutate"    -> <<X("sync"), X("header-sync")>> \o Publishing
      [] ph = "clear"     -> <<X("sync"), X("maintenance"), X("header-state")>>
      [] ph = "addPeer"   -> <<X("sync"), S("maintenance"), S("header-state")>> \o SavingPeers
      [] ph \in {"retry", "refuse"} ->
           <<X("maintenance"), S("header-state"), X("peers"), S("peer-state")>>
      [] ph \in {"loadPeers", "savePeers"} -> SavingPeers
      [] ph = "write"     -> Reading
      [] ph = "tunnel"    -> <<S("maintenance")>>
      [] OTHER            -> <<>>]

Required == [ph \in Phase |-> {Needs[ph][i] : i \in DOMAIN Needs[ph]}]
Lacks(t) == Required[phase[t]] \ holds[t]
HasAll(t) == Lacks(t) = {}
Wanted(t) ==
    LET needs == Needs[phase[t]]
    IN needs[CHOOSE i \in DOMAIN needs :
                needs[i] \notin holds[t] /\ \A j \in 1 .. i - 1 : needs[j] \in holds[t]]

Clash(h, l) == h[1] = l[1] /\ "exclusive" \in {h[2], l[2]}
SameLock(t, u, l) == l[1] \in File \/ Home[t] = Home[u]
Holders(t, l) ==
    {u \in Thread \ {t} : SameLock(t, u, l) /\ \E h \in holds[u] : Clash(h, l)}

Acquire(t) ==
    /\ OneByOne /\ ~HasAll(t)
    /\ Holders(t, Wanted(t)) = {}
    /\ holds' = [holds EXCEPT ![t] = @ \cup {Wanted(t)}]
    /\ UNCHANGED <<disk, memory, phase, base, staged, lease, spoiled, faults>>

\* Nothing is read or written between two acquisitions: a run that is not
\* about waiting may take all the locks of a section as the section begins.
Locked(t) ==
    IF OneByOne THEN HasAll(t)
    ELSE \A l \in Lacks(t) : Holders(t, l) = {}
Held(t) == holds[t] \cup Lacks(t)

\* A request polls with try_lock: it gives up all it has and starts again.
Backoff(t) ==
    /\ phase[t] \in Polled /\ ~Locked(t)
    /\ Holders(t, Wanted(t)) # {} \/ ~OneByOne
    /\ holds' = [holds EXCEPT ![t] = {}] /\ phase' = [phase EXCEPT ![t] = "admit"]
    /\ UNCHANGED <<disk, memory, base, staged, lease, spoiled, faults>>

-----------------------------------------------------------------------------
(* What a reader of the disk sees.                                         *)

Live == [h |-> hgen, p |-> pgen, best |-> best]
Readable == record = Ready(Live)
\* local_chain_currentness: equal generations, evidence that has not expired.
Authority == IF hgen = pgen /\ fresh THEN RootOf[best] ELSE NoRoot
Observed == IF Readable THEN Authority ELSE NoRoot
Matches(t) == remembered[Home[t]] = Observed

At(t, ph) == phase[t] = ph /\ Locked(t)
Goto(t, ph, kept) ==
    phase' = [phase EXCEPT ![t] = ph] /\ holds' = [holds EXCEPT ![t] = kept]
Keep == UNCHANGED <<base, staged, lease, spoiled>>
Kept(t) == Held(t) \cap {X("sync"), X("header-sync")}

\* The end of an operation: every guard is dropped.
EndWith(t, snapshot) ==
    /\ Goto(t, "idle", {})
    /\ base' = [base EXCEPT ![t] = NoBase]
    /\ staged' = [staged EXCEPT ![t] = NoStage]
    /\ lease' = [lease EXCEPT ![t] = snapshot]
    /\ spoiled' = [spoiled EXCEPT ![t] = FALSE]
End(t) == EndWith(t, NoLease)

CanAdvance(p) == epoch[p] \notin {0, MAX_EPOCH}
\* Mutants: an addition that no one checks, and a counter that wraps.
NextEpochUnchecked(p) == IF epoch[p] = 0 THEN 0 ELSE epoch[p] + 1
NextEpochWraps(p) == IF epoch[p] = MAX_EPOCH THEN 0 ELSE epoch[p] + 1

NextEpoch(p) == IF CanAdvance(p) THEN epoch[p] + 1 ELSE 0

\* Mutant: the maintenance is announced, the epoch stays.
AnnounceOnly(p) ==
    /\ remembered' = [remembered EXCEPT ![p] = Pending] /\ UNCHANGED epoch

\* begin_maintenance, and the error it returns once the epoch is exhausted.
BeginMaintenance(p) ==
    /\ epoch' = [epoch EXCEPT ![p] = NextEpoch(p)]
    /\ remembered' = [remembered EXCEPT ![p] = IF CanAdvance(p) THEN Pending ELSE @]

\* reconcile_observed_authority, and its error once the epoch is exhausted.
Settled(p, seen) == remembered[p] \in {Pending, seen} \/ CanAdvance(p)

\* Mutant: what is observed replaces what was remembered.
ReconcileSilently(p, seen) ==
    remembered' = [remembered EXCEPT ![p] = seen] /\ UNCHANGED epoch

Reconcile(p, seen) ==
    /\ epoch' = IF remembered[p] \in {Pending, seen} THEN epoch
                ELSE [epoch EXCEPT ![p] = NextEpoch(p)]
    /\ remembered' = [remembered EXCEPT ![p] = IF Settled(p, seen) THEN seen ELSE @]

-----------------------------------------------------------------------------
(* runtime_coordination: a process opens the storage.                      *)

Free(l) == \A u \in Thread : \A h \in holds[u] : ~Clash(h, l)

\* Mutant: a record that is not there yet is written whatever it describes.
InitializeUnchecked(p) ==
    /\ life[p] = "down" /\ Free(X("header-state"))
    /\ life' = [life EXCEPT ![p] = "opening"]
    /\ record' = CASE record \in {Ready(Live), Updating} -> record
                   [] record.state = "empty" -> Ready(Live)
                   [] OTHER -> Updating
    /\ issued' = IF record'.state = "ready" /\ hgen > issued THEN hgen ELSE issued
    /\ UNCHANGED <<hgen, best, pgen, fresh, known, epoch, remembered, threads, faults>>

\* initialize_header_state_record, under the exclusive file lock.
InitializeRecord(p) ==
    /\ life[p] = "down" /\ Free(X("header-state"))
    /\ life' = [life EXCEPT ![p] = "opening"]
    /\ record' = CASE record \in {Ready(Live), Updating} -> record
                   [] record.state = "empty" /\ hgen = pgen -> Ready(Live)
                   [] OTHER -> Updating
    /\ issued' = IF record'.state = "ready" /\ hgen > issued THEN hgen ELSE issued
    /\ UNCHANGED <<hgen, best, pgen, fresh, known, epoch, remembered, threads, faults>>

ObserveInitial(p) ==
    /\ life[p] = "opening" /\ Free(S("header-state")) /\ Free(S("peer-state"))
    /\ life' = [life EXCEPT ![p] = "up"]
    /\ epoch' = [epoch EXCEPT ![p] = 1]
    /\ remembered' = [remembered EXCEPT ![p] = Observed]
    /\ UNCHANGED <<disk, threads, faults>>

Start(t) ==
    /\ phase[t] = "idle" /\ life[Home[t]] = "up"
    /\ \E duty \in Duties[t] :
          Goto(t, CASE duty = "status" -> "compare" [] duty = "request" -> "admit"
                    [] OTHER -> duty, {})
    /\ lease' = [lease EXCEPT ![t] = NoLease]
    /\ spoiled' = [spoiled EXCEPT ![t] = FALSE]
    /\ UNCHANGED <<disk, memory, base, staged, faults>>

-----------------------------------------------------------------------------
(* reconcile_current_authority, within a sync or a status read.            *)

Reconciled(t) ==
    CASE X("header-sync") \in holds[t] -> End(t)
      [] X("sync") \in holds[t] /\ X("header-sync") \notin holds[t]
           -> Goto(t, "observe", Kept(t)) /\ Keep
      [] OTHER -> Goto(t, "status", {}) /\ Keep

BeginSync(t) ==
    /\ At(t, "sync") /\ Goto(t, "compare", Kept(t)) /\ Keep
    /\ UNCHANGED <<disk, memory, faults>>

Compare(t) ==
    /\ At(t, "compare")
    /\ IF Matches(t) THEN Reconciled(t) ELSE Goto(t, "reconcile", Kept(t)) /\ Keep
    /\ UNCHANGED <<disk, memory, faults>>

ReconcileCurrent(t) ==
    /\ At(t, "reconcile")
    /\ Reconcile(Home[t], Observed)
    /\ IF Settled(Home[t], Observed) THEN Reconciled(t) ELSE End(t)
    /\ UNCHANGED <<disk, life, faults>>

-----------------------------------------------------------------------------
(* sync_once                                                               *)

Read(t) == base' = [base EXCEPT ![t] = [id |-> Live, ready |-> Readable]]

Observe(t) ==
    /\ At(t, "observe") /\ Goto(t, "decide", Kept(t))
    /\ Read(t)
    /\ UNCHANGED <<disk, memory, staged, lease, spoiled, faults>>

\* Somebody else synced while this thread waited for the file lock.  (An
\* evidence deadline moves with the generation of the peers, never alone.)
Refreshed(t) == base[t].id # Live \/ (~base[t].ready /\ Readable)

Decide(t) ==
    /\ At(t, "decide")
    /\ IF Refreshed(t) /\ Observed # NoRoot
       THEN Goto(t, "compare", Kept(t)) ELSE Goto(t, "stage", Kept(t))
    /\ Keep /\ UNCHANGED <<disk, memory, faults>>

\* prepare_header_sync_stage: a private copy and the baseline it came from.
Stage(t) ==
    /\ At(t, "stage") /\ Goto(t, "fetch", Kept(t))
    /\ Read(t)
    /\ staged' = [staged EXCEPT ![t] = [best |-> best, fresh |-> fresh, known |-> known]]
    /\ UNCHANGED <<disk, memory, lease, spoiled, faults>>

\* run_sync_once, on the private copy and without any shared lock.
Fetch(t) ==
    /\ At(t, "fetch") /\ Goto(t, "publish", Kept(t))
    /\ \E c \in Chain \ {Genesis}, f \in BOOLEAN :
          staged' = [staged EXCEPT ![t] = [@ EXCEPT !.best = c, !.fresh = f]]
    /\ UNCHANGED <<disk, memory, base, lease, spoiled, faults>>

LiveAuthority == IF fresh THEN RootOf[best] ELSE NoRoot
StagedAuthority(t) == IF staged[t].fresh THEN RootOf[staged[t].best] ELSE NoRoot
\* Not the generations: the sync that repairs a half publication asks too.
PreservesAuthority(t) ==
    /\ LiveAuthority # NoRoot /\ LiveAuthority = StagedAuthority(t)
    /\ remembered[Home[t]] = LiveAuthority

Spoil(p) ==
    spoiled' = [u \in Thread |-> spoiled[u] \/ (Home[u] = p /\ lease[u] # NoLease)]

\* Mutant: a state that is not ready stops its own replacement.
StageIsCurrentAndReady(t) == base[t].id = Live /\ Readable

\* The baseline decides, not the record: an unreadable state must be replaced.
StageIsCurrent(t) == base[t].id = Live

\* mark_updating, and begin_maintenance unless the authority stays.
BeginPublication(t) ==
    /\ At(t, "publish")
    /\ IF ~StageIsCurrent(t)
       THEN End(t) /\ UNCHANGED <<record, epoch, remembered>>
       ELSE /\ record' = Updating
            /\ IF PreservesAuthority(t)
               THEN /\ Goto(t, "headers", Held(t)) /\ Keep
                    /\ UNCHANGED <<epoch, remembered>>
               ELSE /\ BeginMaintenance(Home[t])
                    /\ IF CanAdvance(Home[t])
                       THEN /\ Goto(t, "headers", Held(t)) /\ Spoil(Home[t])
                            /\ UNCHANGED <<base, staged, lease>>
                       ELSE End(t)
    /\ UNCHANGED <<hgen, best, pgen, fresh, known, issued, life, faults>>

Newest(id) == IF id.h > id.p THEN id.h ELSE id.p
Exhausted(t) == Newest(base[t].id) = MAX_GENERATION

\* Mutant: the generation after that of the headers alone.
NextOfHeaders(id) == id.h + 1

NextGeneration(id) == Newest(id) + 1

CommitHeaders(t) ==
    /\ At(t, "headers")
    /\ IF Exhausted(t) THEN End(t) /\ UNCHANGED <<hgen, best>>
       ELSE /\ hgen' = NextGeneration(base[t].id) /\ best' = staged[t].best
            /\ Goto(t, "peers", Held(t)) /\ Keep
    /\ UNCHANGED <<pgen, fresh, known, record, issued, memory, faults>>

\* Mutant: the private copy replaces whatever was added to the live one.
MergeStagedOnly(t) == staged[t].known

\* merge_staged_peer_manager keeps what either side knows.
MergePeers(t) == staged[t].known \cup known

CommitPeers(t) ==
    /\ At(t, "peers") /\ Goto(t, "finish", Held(t)) /\ Keep
    /\ pgen' = NextGeneration(base[t].id)
    /\ fresh' = staged[t].fresh /\ known' = MergePeers(t)
    /\ UNCHANGED <<hgen, best, record, issued, memory, faults>>

\* mark_ready with what is on disk now, then reconcile_observed_authority.
MarkReady(t) ==
    /\ At(t, "finish") /\ End(t)
    /\ record' = Ready(Live) /\ issued' = IF hgen > issued THEN hgen ELSE issued
    /\ Reconcile(Home[t], Authority)
    /\ UNCHANGED <<hgen, best, pgen, fresh, known, life, faults>>

-----------------------------------------------------------------------------
(* coordinated_header_mutation: a snapshot import or a reset.              *)

BeginMutation(t) ==
    /\ At(t, "mutate") /\ record' = Updating
    /\ BeginMaintenance(Home[t])
    /\ IF CanAdvance(Home[t])
       THEN /\ Goto(t, "rewrite", Held(t)) /\ Read(t) /\ Spoil(Home[t])
            /\ UNCHANGED <<staged, lease>>
       ELSE End(t)
    /\ UNCHANGED <<hgen, best, pgen, fresh, known, issued, life, faults>>

\* A reset removes the database and its generation with it; an import leaves
\* the generation alone and may fail when some of its batches are in.
Rewrite(t) ==
    /\ At(t, "rewrite")
    /\ \/ hgen' = 0 /\ best' = Genesis
       \/ UNCHANGED hgen /\ best' \in Chain
    /\ \/ Goto(t, "stampHeaders", Held(t)) /\ Keep
       \/ End(t)
    /\ UNCHANGED <<pgen, fresh, known, record, issued, memory, faults>>

StampHeaders(t) ==
    /\ At(t, "stampHeaders")
    /\ IF Exhausted(t) THEN End(t) /\ UNCHANGED hgen
       ELSE /\ hgen' = NextGeneration(base[t].id)
            /\ Goto(t, "stampPeers", Held(t)) /\ Keep
    /\ UNCHANGED <<best, pgen, fresh, known, record, issued, memory, faults>>

StampPeers(t) ==
    /\ At(t, "stampPeers") /\ Goto(t, "finish", Held(t)) /\ Keep
    /\ pgen' = NextGeneration(base[t].id)
    /\ UNCHANGED <<hgen, best, fresh, known, record, issued, memory, faults>>

-----------------------------------------------------------------------------
(* clear_resolver_cache, add_static_relay_peer, a status snapshot.         *)

ClearCache(t) ==
    /\ At(t, "clear")
    /\ BeginMaintenance(Home[t])
    /\ Goto(t, "idle", {}) /\ Spoil(Home[t])
    /\ UNCHANGED <<disk, life, base, staged, lease, faults>>

AddPeer(t) ==
    /\ At(t, "addPeer") /\ End(t)
    /\ known' \in {known \cup {e} : e \in Endpoint}
    /\ UNCHANGED <<hgen, best, pgen, fresh, record, issued, memory, faults>>

ReadStatus(t) ==
    /\ At(t, "status")
    /\ IF ~Readable THEN End(t)
       ELSE IF Matches(t) THEN EndWith(t, [epoch |-> epoch[Home[t]], root |-> Observed])
       ELSE Goto(t, "compare", {}) /\ Keep
    /\ UNCHANGED <<disk, memory, faults>>

-----------------------------------------------------------------------------
(* A proxied request, and the tunnel that a CONNECT leaves behind.         *)

\* acquire_proxy_maintenance
Admit(t) ==
    /\ At(t, "admit")
    /\ IF epoch[Home[t]] = 0 THEN End(t)
       ELSE IF Observed = NoRoot \/ ~Matches(t)
       THEN Goto(t, IF Observed = NoRoot THEN "refuse" ELSE "retry", {}) /\ Keep
       ELSE /\ Goto(t, "working", {})
            /\ lease' = [lease EXCEPT ![t] = [epoch |-> epoch[Home[t]], root |-> Observed]]
            /\ UNCHANGED <<base, staged, spoiled>>
    /\ UNCHANGED <<disk, memory, faults>>

\* try_reconcile_current_authority; without authority the request then fails.
TryReconcile(t) ==
    /\ At(t, "retry") \/ At(t, "refuse")
    /\ Reconcile(Home[t], Observed)
    /\ IF phase[t] = "retry" /\ Settled(Home[t], Observed)
       THEN Goto(t, "admit", {}) /\ Keep ELSE End(t)
    /\ UNCHANGED <<disk, life, faults>>

\* A live proof: the peers are read, and saved again after the exchange.
Resolve(t) ==
    /\ At(t, "working") /\ Goto(t, "loadPeers", {}) /\ Keep
    /\ UNCHANGED <<disk, memory, faults>>

LoadPeers(t) ==
    /\ At(t, "loadPeers") /\ Goto(t, "savePeers", {})
    /\ staged' = [staged EXCEPT ![t].known = known]
    /\ base' = [base EXCEPT ![t].id.p = pgen]
    /\ UNCHANGED <<disk, memory, lease, spoiled, faults>>

\* persist_gateway_proof_peer_updates: merged, under the generation of now.
SavePeers(t) ==
    /\ At(t, "savePeers") /\ Goto(t, "write", {}) /\ Keep
    /\ known' = MergePeers(t)
    /\ UNCHANGED <<hgen, best, pgen, fresh, record, issued, memory, faults>>

\* An answer from the cache needs no proof.
Answer(t) ==
    /\ At(t, "working") /\ Goto(t, "write", {}) /\ Keep
    /\ UNCHANGED <<disk, memory, faults>>

EpochIsCurrent(t) == epoch[Home[t]] = lease[t].epoch

\* Mutant: only the epoch of this process is asked.
WriteUnderEpoch(t) ==
    /\ At(t, "write")
    /\ IF EpochIsCurrent(t) THEN Goto(t, "tunnel", {}) /\ Keep ELSE End(t)
    /\ UNCHANGED <<disk, memory, faults>>

\* CanonicalProxyPublicationAuthority::publish and HeaderStateLease::acquire
Write(t) ==
    /\ At(t, "write")
    /\ IF EpochIsCurrent(t) /\ Observed = lease[t].root
       THEN Goto(t, "tunnel", {}) /\ Keep ELSE End(t)
    /\ UNCHANGED <<disk, memory, faults>>

\* MaintenanceBoundConnectWriter keeps the read lock while the bytes pass.
Relay(t) ==
    /\ At(t, "tunnel")
    /\ IF EpochIsCurrent(t) THEN Goto(t, "relay", Held(t)) /\ Keep ELSE End(t)
    /\ UNCHANGED <<disk, memory, faults>>

Relayed(t) ==
    /\ At(t, "relay") /\ Goto(t, "tunnel", {}) /\ Keep
    /\ UNCHANGED <<disk, memory, faults>>

\* The client goes away, or the proxy stops.
Cancel(t) ==
    /\ phase[t] \in {"admit", "working", "savePeers", "write", "tunnel"}
    /\ holds[t] = {} /\ End(t)
    /\ UNCHANGED <<disk, memory, faults>>

-----------------------------------------------------------------------------
(* Faults and time.                                                        *)

\* A record is rewritten in place: it may be found empty or cut short.
WritesRecord(t) == Locked(t) /\ phase[t] \in {"publish", "mutate", "finish"}

Fail(t) ==
    /\ phase[t] # "idle" /\ Locked(t) /\ faults < MaxFaults
    /\ faults' = faults + 1
    /\ record' \in {record} \cup (IF WritesRecord(t) THEN Torn ELSE {})
    /\ End(t)
    /\ UNCHANGED <<hgen, best, pgen, fresh, known, issued, memory>>

Crash(p) ==
    /\ life[p] # "down" /\ faults < MaxFaults
    /\ faults' = faults + 1
    /\ life' = [life EXCEPT ![p] = "down"]
    /\ epoch' = [epoch EXCEPT ![p] = 0]
    /\ remembered' = [remembered EXCEPT ![p] = NoRoot]
    /\ LET lost == {t \in Thread : Home[t] = p}
           Cleared(f, nil) == [t \in Thread |-> IF t \in lost THEN nil ELSE f[t]]
       IN /\ phase' = Cleared(phase, "idle") /\ holds' = Cleared(holds, {})
          /\ base' = Cleared(base, NoBase) /\ staged' = Cleared(staged, NoStage)
          /\ lease' = Cleared(lease, NoLease) /\ spoiled' = Cleared(spoiled, FALSE)
          /\ record' \in {record} \cup
                (IF \E t \in lost : WritesRecord(t) THEN Torn ELSE {})
    /\ UNCHANGED <<hgen, best, pgen, fresh, known, issued>>

\* Evidence runs out with the clock, whatever locks are held.
Expire ==
    /\ fresh /\ fresh' = FALSE
    /\ UNCHANGED <<hgen, best, pgen, known, record, issued, memory, threads, faults>>

-----------------------------------------------------------------------------
Init ==
    /\ hgen = 0 /\ pgen = 0 /\ best \in Chain /\ fresh \in BOOLEAN /\ known = {}
    /\ record = [state |-> "empty", id |-> NoId] /\ issued = 0
    /\ life = [p \in Process |-> "down"] /\ epoch = [p \in Process |-> 0]
    /\ remembered = [p \in Process |-> NoRoot]
    /\ phase = [t \in Thread |-> "idle"] /\ holds = [t \in Thread |-> {}]
    /\ base = [t \in Thread |-> NoBase] /\ staged = [t \in Thread |-> NoStage]
    /\ lease = [t \in Thread |-> NoLease] /\ spoiled = [t \in Thread |-> FALSE]
    /\ faults = 0

SyncStep(t) ==
    \/ BeginSync(t) \/ Compare(t) \/ ReconcileCurrent(t) \/ Observe(t) \/ Decide(t)
    \/ Stage(t) \/ Fetch(t) \/ BeginPublication(t) \/ CommitHeaders(t)
    \/ CommitPeers(t) \/ MarkReady(t)
MutationStep(t) ==
    BeginMutation(t) \/ Rewrite(t) \/ StampHeaders(t) \/ StampPeers(t)
RequestStep(t) ==
    \/ Admit(t) \/ TryReconcile(t) \/ Resolve(t) \/ LoadPeers(t) \/ SavePeers(t)
    \/ Answer(t) \/ Write(t) \/ Relay(t) \/ Relayed(t)
Step(t) ==
    \/ SyncStep(t) \/ MutationStep(t) \/ RequestStep(t)
    \/ ClearCache(t) \/ AddPeer(t) \/ ReadStatus(t)

\* What happens when nothing fails, and everything that happens.
Undisturbed ==
    \/ \E t \in Thread : \/ Start(t) \/ Acquire(t) \/ Backoff(t) \/ Step(t) \/ Cancel(t)
    \/ \E p \in Process : InitializeRecord(p) \/ ObserveInitial(p)
    \/ Expire
Next ==
    \/ Undisturbed
    \/ \E t \in Thread : Fail(t)
    \/ \E p \in Process : Crash(p)

\* Storage is opened again after a crash, syncs are started again and again,
\* and a waiter gets a lock that is free infinitely often.
Fairness ==
    /\ \A t \in Thread : SF_vars(Step(t) \/ Acquire(t))
    /\ \A t \in Thread : Duties[t] = {"sync"} => WF_vars(Start(t))
    /\ \A p \in Process : SF_vars(InitializeRecord(p) \/ ObserveInitial(p))

Spec == Init /\ [][Next]_vars
FairSpec == Spec /\ Fairness

\* of instances without faults
UndisturbedSpec == Init /\ [][Undisturbed]_vars

-----------------------------------------------------------------------------
TypeOK ==
    /\ hgen \in Gen /\ pgen \in Gen /\ best \in Chain /\ fresh \in BOOLEAN
    /\ known \subseteq Endpoint /\ issued \in Gen
    /\ record \in {Ready(id) : id \in Identity} \cup NotReady
    /\ life \in [Process -> {"down", "opening", "up"}]
    /\ epoch \in [Process -> 0 .. MAX_EPOCH]
    /\ remembered \in [Process -> Root \cup {NoRoot, Pending}]
    /\ phase \in [Thread -> Phase]
    /\ holds \in [Thread -> SUBSET LockMode]
    /\ base \in [Thread -> [id : Identity, ready : BOOLEAN]]
    /\ staged \in [Thread -> [best : Chain \cup {NoChain}, fresh : BOOLEAN,
                              known : SUBSET Endpoint]]
    /\ lease \in [Thread -> [epoch : 0 .. MAX_EPOCH, root : Root \cup {NoRoot}]]
    /\ spoiled \in [Thread -> BOOLEAN] /\ faults \in 0 .. MaxFaults

\* A record that says ready describes the two databases as they are, and
\* they come from one publication: whatever failed or died on the way, no
\* reader ever takes half a publication for a whole one.
ReadyIsWhole == record.state = "ready" => record.id = Live /\ hgen = pgen

\* A publication gets a generation that no earlier one had, although a reset
\* takes the headers' own counter back to zero.
MarksReady(t) == phase[t] = "finish" /\ record'.state = "ready"
GenerationGrows == \A t \in Thread : MarksReady(t) => hgen > issued
GenerationsAreNotReused == [][GenerationGrows]_vars

\* Within a process, an epoch names one root: what is handed out with it, to
\* requests and in status snapshots, agrees however it was obtained.
EpochNamesOneRoot ==
    \A t, u \in Thread :
        Home[t] = Home[u] /\ lease[t].epoch = lease[u].epoch /\ lease[t].epoch # 0
        => lease[t].root = lease[u].root

PassesBytes(t) ==
    \/ phase[t] = "write" /\ phase'[t] = "tunnel"
    \/ phase[t] = "tunnel" /\ phase'[t] = "relay"
WritesUnspoiled == \A t \in Thread : PassesBytes(t) => ~spoiled[t]
StaysExhausted ==
    \A p \in Process :
        life[p] = "up" /\ epoch[p] = 0 /\ life'[p] = "up" =>
            /\ epoch'[p] = 0
            /\ \A t \in Thread : Home[t] = p => ~PassesBytes(t)

\* Nothing a process admitted before it cleared its cache or rewrote its
\* headers reaches a client afterwards, and an epoch that ran out stays out:
\* the process serves nothing until it is started again.
WorkDiesWithItsEpoch == [][WritesUnspoiled /\ StaysExhausted]_vars

\* An endpoint that a user added stays, whatever stages, proofs and imports
\* were under way with a copy of the peers from before.
PeersGrow == known \subseteq known'
AddedPeersAreKept == [][PeersGrow]_vars

\* No set of threads waits for each other, counting a reader as waiting for
\* the writer that queues before it on the maintenance RwLock.
Queued(t) ==
    {u \in Thread \ {t} : /\ Home[u] = Home[t] /\ Wanted(t) = S("maintenance")
                          /\ ~HasAll(u) /\ Wanted(u) = X("maintenance")}
WaitsFor(t) ==
    IF HasAll(t) \/ phase[t] \in Polled THEN {} ELSE Holders(t, Wanted(t)) \cup Queued(t)
NoCircularWait ==
    \A ring \in (SUBSET Thread) \ {{}} : \E t \in ring : WaitsFor(t) \cap ring = {}

\* A counter has run out: nothing is published any more.
OutOfNumbers ==
    Newest(Live) = MAX_GENERATION \/ \E p \in Process : life[p] = "up" /\ epoch[p] = 0

\* To its readers this is one state that is replaced atomically, and work is
\* delivered under the root it was admitted under, whichever process replaced
\* the state in between.
Atomic ==
    INSTANCE AtomicHeaderState WITH
        Worker <- Thread, None <- NoId,
        visible <- IF Readable THEN [gen |-> hgen, best |-> best] ELSE NoId,
        last <- issued,
        work <- [t \in Thread |-> lease[t].root],
        delivered <- [t \in Thread |-> phase[t] \in {"tunnel", "relay"}]
IsAtomic == Atomic!Spec
=============================================================================
