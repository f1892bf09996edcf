----------------------------- MODULE MCRecovery -----------------------------
(* HeaderPublication and LocalCaStore in one run, with crashes: `part` says *)
(* which of the two a behaviour is about; the other one keeps its initial   *)
(* state.                                                                   *)
EXTENDS HeaderPublication, TLC

CONSTANTS a, b, syncer, other, genesis, chainX, rootX,
          NoOne, LOCAL_CA_LOCK_ATTEMPTS, Aging, MaxMade, MaxDeaths

OneRoot == genesis :> NoRoot @@ chainX :> rootX
TwoProcesses == [t \in Thread |-> IF t = other THEN b ELSE a]
CrashDuties == [t \in Thread |-> IF t = syncer THEN {"sync"} ELSE {"mutate"}]

VARIABLES bundle, pem, marker, owner, old, pc, tries, made, own, held, deaths, part

caVars == <<bundle, pem, marker, owner, old, pc, tries, made, own, held, deaths>>

Ca == INSTANCE LocalCaStore WITH MaxFaults <- MaxDeaths, faults <- deaths

OfHeaders(action) == part = "headers" /\ action /\ UNCHANGED <<caVars, part>>
OfCa(action) == part = "ca" /\ action /\ UNCHANGED <<vars, part>>

RecoveryInit ==
    /\ Init /\ Ca!Init /\ part \in {"headers", "ca"}
    /\ part = "ca" => best = genesis /\ fresh
RecoveryNext ==
    /\ UNCHANGED part
    /\ \/ part = "headers" /\ Next /\ UNCHANGED caVars
       \/ part = "ca" /\ Ca!Next /\ UNCHANGED vars

all == <<vars, caVars, part>>

\* The fairness of both: the store of headers is opened again after a crash, syncs are
\* started again, and the browser starts a host again whose store failed to open.
RecoveryFairness ==
    /\ \A t \in Thread : SF_all(OfHeaders(Step(t) \/ Acquire(t)))
    /\ \A t \in Thread : Duties[t] = {"sync"} => WF_all(OfHeaders(Start(t)))
    /\ \A p \in Process : SF_all(OfHeaders(InitializeRecord(p) \/ ObserveInitial(p)))
    /\ \A p \in Process : WF_all(OfCa(Ca!Open(p))) /\ WF_all(OfCa(Ca!Opening(p)))
    /\ WF_all(OfCa(Ca!Age))

RecoverySpec == RecoveryInit /\ [][RecoveryNext]_all /\ RecoveryFairness

\* Whatever a crash or a failed publication left behind, a later sync makes the header
\* state readable again, unless a counter has run out.
HeadersRecover == part = "headers" /\ ~Readable ~> Readable \/ OutOfNumbers

\* A lock file left behind by a process that died does not keep the others from ever
\* opening the store of the certificate authority.
AuthorityIsCreated == part = "ca" ~> bundle # 0
=============================================================================
