---------------------------- MODULE LocalCaStore ----------------------------
(***************************************************************************)
(* The local certificate authority of an installation: a bundle on disk    *)
(* that the first process to need one creates under a lock file, the PEM   *)
(* copy of its certificate, and the marker that names the authority whose  *)
(* certificate was installed.  Native hosts of several browsers and the    *)
(* utility commands of the setup application open the store at any time,   *)
(* in processes that may die at any step.                                  *)
(*                                                                         *)
(* Every access to the file system is a step.  Files are written by rename *)
(* and so never seen in part; an authority is a number, 0 for none.        *)
(***************************************************************************)
EXTENDS Integers

CONSTANTS
    Process,                 \* native hosts and utility commands
    NoOne,
    LOCAL_CA_LOCK_ATTEMPTS,
    Aging,                   \* which lock files can reach STALE_LOCAL_CA_LOCK_AGE
    MaxMade,                 \* bound: authorities generated
    MaxFaults                \* bound: processes that die or fail

ASSUME NoOneIsNoProcess == NoOne \notin Process
ASSUME AgingAssumption == Aging \in {"none", "abandoned"}
ASSUME LimitsAreNat ==
    /\ LOCAL_CA_LOCK_ATTEMPTS \in Nat \ {0} /\ MaxMade \in Nat /\ MaxFaults \in Nat

VARIABLES
    bundle,    \* ca-bundle.json: the authority in it
    pem,       \* hns-dane-browser-local-ca.pem
    marker,    \* ca-installed.json
    owner,     \* who created ca-generation.lock, NoOne while there is none
    old,       \* its age reached STALE_LOCAL_CA_LOCK_AGE
    pc,        \* what a process is at
    tries,     \* attempts left in acquire_ca_lock
    made,      \* authorities generated so far
    own, held, \* the authority a process generated, and the one it loaded
    faults

disk == <<bundle, pem, marker>>
file == <<owner, old>>
vars == <<disk, file, pc, tries, made, own, held, faults>>

Authority == 0 .. MaxMade
Step == {"idle", "look", "acquire", "exists", "stale", "remove", "recheck", "generate",
         "write", "unlock", "load", "compare", "publish", "open"}

Init ==
    /\ bundle = 0 /\ pem = 0 /\ marker = 0
    /\ owner = NoOne /\ old = FALSE
    /\ pc = [p \in Process |-> "idle"] /\ tries = [p \in Process |-> 0]
    /\ made = 0 /\ own = [p \in Process |-> 0] /\ held = [p \in Process |-> 0]
    /\ faults = 0

Goes(p, from, to) == pc[p] = from /\ pc' = [pc EXCEPT ![p] = to]

-----------------------------------------------------------------------------
(* LocalCaStore::open and create_local_ca_bundle                           *)

Open(p) ==
    /\ Goes(p, "idle", "look")
    /\ tries' = [tries EXCEPT ![p] = LOCAL_CA_LOCK_ATTEMPTS]
    /\ UNCHANGED <<disk, file, made, own, held, faults>>

Look(p) ==
    /\ Goes(p, "look", IF bundle = 0 THEN "acquire" ELSE "load")
    /\ UNCHANGED <<disk, file, tries, made, own, held, faults>>

\* Mutant: the attempt is counted after it is made, and the last one twice.
AcquireOnceMore(p) ==
    /\ IF tries[p] < 0 THEN Goes(p, "acquire", "idle") /\ UNCHANGED <<file, tries>>
       ELSE /\ tries' = [tries EXCEPT ![p] = @ - 1]
            /\ IF owner = NoOne
               THEN Goes(p, "acquire", "recheck") /\ owner' = p /\ old' = FALSE
               ELSE Goes(p, "acquire", "exists") /\ UNCHANGED file
    /\ UNCHANGED <<disk, made, own, held, faults>>

\* One attempt to create the lock file; after the last one the open fails.
Acquire(p) ==
    /\ IF tries[p] = 0 THEN Goes(p, "acquire", "idle") /\ UNCHANGED <<file, tries>>
       ELSE /\ tries' = [tries EXCEPT ![p] = @ - 1]
            /\ IF owner = NoOne
               THEN Goes(p, "acquire", "recheck") /\ owner' = p /\ old' = FALSE
               ELSE Goes(p, "acquire", "exists") /\ UNCHANGED file
    /\ UNCHANGED <<disk, made, own, held, faults>>

\* Somebody else's lock: the bundle may be there by now.
CheckBundle(p) ==
    /\ Goes(p, "exists", IF bundle = 0 THEN "stale" ELSE "load")
    /\ UNCHANGED <<disk, file, tries, made, own, held, faults>>

\* Mutant: a lock file is waited for, however old.
LockIsNeverStale == FALSE

LockIsStale == owner # NoOne /\ old

CheckAge(p) ==
    /\ Goes(p, "stale", IF LockIsStale THEN "remove" ELSE "acquire")
    /\ UNCHANGED <<disk, file, tries, made, own, held, faults>>

\* fs::remove_file names a path: it takes whichever lock file is there now.
Unlink == owner' = NoOne /\ old' = FALSE

RemoveStale(p) ==
    /\ Goes(p, "remove", "acquire") /\ Unlink
    /\ UNCHANGED <<disk, tries, made, own, held, faults>>

\* Mutant: whoever gets the lock generates.
GenerateUnchecked(p) ==
    /\ Goes(p, "recheck", "generate")
    /\ UNCHANGED <<disk, file, tries, made, own, held, faults>>

\* Under the lock: somebody may have created the bundle before.
CheckAgain(p) ==
    /\ Goes(p, "recheck", IF bundle = 0 THEN "generate" ELSE "unlock")
    /\ UNCHANGED <<disk, file, tries, made, own, held, faults>>

Generate(p) ==
    /\ Goes(p, "generate", "write")
    /\ made < MaxMade /\ made' = made + 1
    /\ own' = [own EXCEPT ![p] = made']
    /\ UNCHANGED <<disk, file, tries, held, faults>>

WriteBundle(p) ==
    /\ Goes(p, "write", "unlock")
    /\ bundle' = own[p] /\ own' = [own EXCEPT ![p] = 0]
    /\ UNCHANGED <<pem, marker, file, tries, made, held, faults>>

\* LocalCaLock::drop, by path like every removal.
Unlock(p) ==
    /\ Goes(p, "unlock", "load") /\ Unlink
    /\ UNCHANGED <<disk, tries, made, own, held, faults>>

-----------------------------------------------------------------------------
(* The rest of the open, and what is done with an open store.              *)

Load(p) ==
    /\ Goes(p, "load", "compare")
    /\ held' = [held EXCEPT ![p] = bundle]
    /\ UNCHANGED <<disk, file, tries, made, own, faults>>

\* ensure_public_certificate
ComparePem(p) ==
    /\ Goes(p, "compare", IF pem = held[p] THEN "open" ELSE "publish")
    /\ UNCHANGED <<disk, file, tries, made, own, held, faults>>

WritePem(p) ==
    /\ Goes(p, "publish", "open") /\ pem' = held[p]
    /\ UNCHANGED <<bundle, marker, file, tries, made, own, held, faults>>

\* --mark-ca-installed and --clear-ca-installed
Mark(p) ==
    /\ pc[p] = "open" /\ marker' \in {held[p], 0}
    /\ UNCHANGED <<bundle, pem, file, pc, tries, made, own, held, faults>>

Leave(p) == held' = [held EXCEPT ![p] = 0] /\ own' = [own EXCEPT ![p] = 0]

Exit(p) ==
    /\ Goes(p, "open", "idle") /\ Leave(p)
    /\ UNCHANGED <<disk, file, tries, made, faults>>

-----------------------------------------------------------------------------
(* Faults and time.                                                        *)

Fault == faults < MaxFaults /\ faults' = faults + 1

\* An error under the lock: the guard is dropped and removes the lock file.
Fail(p) ==
    /\ pc[p] \in {"generate", "write"} /\ pc' = [pc EXCEPT ![p] = "idle"]
    /\ Fault /\ Unlink /\ Leave(p)
    /\ UNCHANGED <<disk, tries, made>>

\* A process that dies leaves its lock file behind.
Die(p) ==
    /\ pc[p] # "idle" /\ pc' = [pc EXCEPT ![p] = "idle"]
    /\ Fault /\ Leave(p)
    /\ UNCHANGED <<disk, file, tries, made>>

UnderLock == {"recheck", "generate", "write", "unlock"}
Abandoned == owner # NoOne /\ pc[owner] \notin UnderLock

\* A lock file that nobody will remove grows old.
Age ==
    /\ Aging = "abandoned" /\ Abandoned /\ ~old /\ old' = TRUE
    /\ UNCHANGED <<disk, owner, pc, tries, made, own, held, faults>>

Opening(p) ==
    \/ Look(p) \/ Acquire(p) \/ CheckBundle(p) \/ CheckAge(p) \/ RemoveStale(p)
    \/ CheckAgain(p) \/ Generate(p) \/ WriteBundle(p) \/ Unlock(p)
    \/ Load(p) \/ ComparePem(p) \/ WritePem(p)

Next ==
    \/ \E p \in Process :
          \/ Open(p) \/ Opening(p) \/ Mark(p) \/ Exit(p) \/ Fail(p) \/ Die(p)
    \/ Age

\* The browser starts a host again when the last one failed, and time passes.
Fairness ==
    /\ \A p \in Process : WF_vars(Open(p)) /\ WF_vars(Opening(p))
    /\ WF_vars(Age)

Spec == Init /\ [][Next]_vars
FairSpec == Spec /\ Fairness

-----------------------------------------------------------------------------
TypeOK ==
    /\ bundle \in Authority /\ pem \in Authority /\ marker \in Authority
    /\ owner \in Process \cup {NoOne} /\ old \in BOOLEAN
    /\ pc \in [Process -> Step] /\ tries \in [Process -> 0 .. LOCAL_CA_LOCK_ATTEMPTS]
    /\ made \in Authority
    /\ own \in [Process -> Authority] /\ held \in [Process -> Authority]
    /\ faults \in 0 .. MaxFaults

\* An installation has one authority: every process that opened the store
\* issues certificates with the one on disk, its certificate is the one that
\* is published for installation, and the marker names no other.
OneAuthority ==
    /\ pem \in {0, bundle} /\ marker \in {0, bundle}
    /\ \A p \in Process : held[p] \in {0, bundle}

\* An authority that some process may have loaded is never replaced.
KeepsBundle == bundle # 0 => bundle' = bundle
AuthorityIsKept == [][KeepsBundle]_vars

\* A lock file left behind by a process that died does not keep the others
\* from ever opening the store.
AuthorityIsCreated == <>(bundle # 0)
=============================================================================
