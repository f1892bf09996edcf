----------------------------- MODULE HrmPoolStats -----------------------------
(***************************************************************************)
(* The verifier of MeshMine pool statistics: signed snapshots of mining    *)
(* operators, admitted under the name's current HRM/HNSA authority against *)
(* a bounded replay state that is committed before a result is released.   *)
(*                                                                         *)
(* An admission verifies on a copy of the loaded state, commits the copy   *)
(* when its generation changed, even for an error, adopts it, and releases *)
(* the result if the broker's lease is still held.  The commit may fail, or *)
(* may end unknown: the caller then loads what is stored before it admits  *)
(* anything else.  The process may die at any time.                        *)
(*                                                                         *)
(* The authority and the documents offered are arbitrary: a broker rolled  *)
(* back, an operator that signs two records with one number.  Bytes, keys  *)
(* and signatures are abstracted to "decodes and verifies under this       *)
(* authority at this time".                                                *)
(***************************************************************************)
EXTENDS Integers, FiniteSets

CONSTANTS
    Names,          \* (network, name) a verifier may be asked about
    Envelopes,      \* envelope hashes of HRM records
    Delegations,    \* delegation identifiers of the service
    Endpoints,      \* endpoint keys
    Operators,
    Digests,        \* delegation identifiers and snapshot digests
    NONE,
    EndpointLimit,  \* MAX_ENDPOINT_HISTORIES
    OperatorLimit,  \* MAX_OPERATOR_HISTORIES
    MaxNumber,      \* bound: revisions, generations of the service, sequences
    MaxTime,        \* bound: the clock
    MaxGeneration   \* u64::MAX: the generation of the state ends there

\* What the constants are assumed to be.
Assumptions ==
    /\ NONE \notin Digests \cup Names
    /\ EndpointLimit \in Nat \ {0} /\ OperatorLimit \in Nat \ {0}
    /\ MaxNumber \in Nat \ {0} /\ MaxTime \in Nat /\ MaxGeneration \in Nat \ {0}

Numbers == 1..MaxNumber
Times == 0..MaxTime

\* CurrentHrmNamedService, as far as validate() lets it through
Authorities == [name : Names, revision : Numbers, sequence : Numbers, envelope : Envelopes,
                delegation : Delegations, service : Numbers]

\* a position of an endpoint or an operator in its own sequence
NeverSeen == [number |-> 0, digest |-> NONE]
Positions == [number : Numbers, digest : Digests] \cup {NeverSeen}

\* The two records of a document, NeverSeen for one that does not decode, is not in time
\* or does not verify under the authority of the call.
EndpointDelegation == [endpoint : Endpoints, delegated : Positions]
PoolStatsSnapshot == [operator : Operators, snapshot : Positions]

PoolStatsDocuments ==
    {[endpoint |-> e.endpoint, delegated |-> e.delegated, operator |-> s.operator,
      snapshot |-> s.snapshot] : e \in EndpointDelegation, s \in PoolStatsSnapshot}

\* VerifiedHrmPoolStatsSnapshot
Results == [authority : Authorities, operator : Operators, snapshot : Positions \ {NeverSeen},
            generation : 1..MaxGeneration, at : Times, lease : Numbers]

VARIABLES
    stored,     \* the durable state
    loaded,     \* the caller's, in memory; NoState when it has to be loaded
    lease,      \* generation of the broker's lease on the subject, 0 when it is lost
    call,       \* the admission in progress
    released,   \* service -> operator -> the last snapshot released
    held        \* the result the caller holds, with the lease it came under

vars == <<stored, loaded, lease, call, released, held>>

(***************************************************************************)
(* HrmPoolStatsState                                                       *)
(***************************************************************************)
New == [generation |-> 0, time |-> 0, status |-> "active",
        seen |-> NONE,
        endpoints |-> [e \in Endpoints |-> NeverSeen],
        operators |-> [o \in Operators |-> NeverSeen]]
NoState == [generation |-> -1]

Go(s) == [state |-> s, ok |-> TRUE]
Fail(s) == [state |-> s, ok |-> FALSE]

\* bump_generation, with the change it announces
Bumped(s, changed) ==
    IF s.generation < MaxGeneration
    THEN Go([changed EXCEPT !.generation = s.generation + 1])
    ELSE Fail(s)

\* mark_conflicted, mark_exhausted: both end in an error
Quarantined(s, status) ==
    Fail(IF s.status = status THEN s ELSE Bumped(s, [s EXCEPT !.status = status]).state)

StatusIgnored(r) == r
RequireActive(r) == [r EXCEPT !.ok = @ /\ r.state.status = "active"]

Older(a, b) == a.revision < b.revision \/ a.sequence < b.sequence \/ a.service < b.service

\* An equal number never stands for something else, a new service is a new delegation.
Contradicts(a, b) ==
    \/ a.sequence = b.sequence /\ a.envelope # b.envelope
    \/ (a.service = b.service) # (a.delegation = b.delegation)

AdoptedFromScratch(s, a) ==
    [s EXCEPT !.seen = a, !.endpoints = New.endpoints, !.operators = New.operators]

\* the histories of another generation of the service are dropped
Adopted(s, a) ==
    [s EXCEPT !.seen = a,
              !.endpoints = IF a.service > s.seen.service THEN New.endpoints ELSE @,
              !.operators = IF a.service > s.seen.service THEN New.operators ELSE @]

\* a later time is kept even when the authority that came with it is refused
Clocked(s, now) == IF now > s.time THEN Bumped(s, [s EXCEPT !.time = now]) ELSE Go(s)

\* what was seen at another time has to be acknowledged by a new revision
Acknowledged(s, a, now) == a.revision > s.seen.revision \/ now = s.time

ObserveAuthority(s, a, now) ==
    IF s.generation = 0
    THEN Bumped(s, [New EXCEPT !.time = now, !.seen = a])
    ELSE IF a.name # s.seen.name \/ now < s.time
    THEN Fail(s)
    ELSE LET t == Clocked(s, now)
         IN  IF ~t.ok \/ Older(a, s.seen) THEN Fail(t.state)
             ELSE IF a.revision = s.seen.revision /\ a # s.seen
             THEN Quarantined(t.state, "conflicted")
             ELSE IF ~Acknowledged(s, a, now) THEN Fail(t.state)
             ELSE IF Contradicts(a, s.seen) THEN Quarantined(t.state, "conflicted")
             ELSE RequireActive(IF a = s.seen THEN t
                                ELSE Bumped(t.state, Adopted(t.state, a)))

Seen(table) == {k \in DOMAIN table : table[k] # NeverSeen}

OverFull(table, limit) == Cardinality(Seen(table)) > limit
Full(table, limit) == Cardinality(Seen(table)) >= limit

\* advance_endpoint and advance_snapshot
Sequenced(s, table, key, position, limit) ==
    LET last == s[table][key]
    IN  IF last = NeverSeen /\ Full(s[table], limit) THEN Quarantined(s, "exhausted")
        ELSE IF position.number < last.number THEN Fail(s)
        ELSE IF position.number > last.number
        THEN Bumped(s, [s EXCEPT ![table][key] = position])
        ELSE IF position = last THEN Go(s) ELSE Quarantined(s, "conflicted")

\* verify_document once the authority is observed: the state of each step is kept, the
\* first step that fails ends it
Verified(s, d) ==
    LET delegated == Sequenced(s, "endpoints", d.endpoint, d.delegated, EndpointLimit)
    IN  IF d.delegated = NeverSeen THEN Fail(s)
        ELSE IF ~delegated.ok \/ d.snapshot = NeverSeen THEN Fail(delegated.state)
        ELSE Sequenced(delegated.state, "operators", d.operator, d.snapshot, OperatorLimit)

\* what encode() accepts
ValidShape(s) ==
    /\ s.generation \in 1..MaxGeneration /\ s.time \in Times
    /\ s.status \in {"active", "conflicted", "exhausted"}
    /\ s.seen \in Authorities
    /\ s.endpoints \in [Endpoints -> Positions]
    /\ Cardinality(Seen(s.endpoints)) <= EndpointLimit
    /\ s.operators \in [Operators -> Positions]
    /\ Cardinality(Seen(s.operators)) <= OperatorLimit

(***************************************************************************)
(* verify_engine_current_hrm_and_commit                                    *)
(***************************************************************************)
NoCall == [at |-> "idle", candidate |-> New, result |-> NONE, lease |-> 0]

Init ==
    /\ stored = New /\ loaded = New
    /\ lease = 1
    /\ call = NoCall
    /\ released = [n \in Numbers |-> [o \in Operators |-> NeverSeen]]
    /\ held = NONE

\* minimize()
Minimized(a, now, d, generation) ==
    [authority |-> a, operator |-> d.operator, snapshot |-> d.snapshot,
     generation |-> generation, at |-> now, lease |-> lease]

ReleasedAtOnce(candidate) == "release"

\* Commit before release: every change is committed, also that of an error.
Pending(candidate) == IF candidate.generation # loaded.generation THEN "commit" ELSE "release"

Begin(candidate, result) ==
    /\ call' = [at |-> Pending(candidate), candidate |-> candidate, result |-> result,
                lease |-> lease]
    /\ UNCHANGED <<stored, loaded, lease, released, held>>

Admit ==
    /\ call.at = "idle" /\ loaded # NoState /\ lease # 0
    /\ \E a \in Authorities, now \in Times :
          LET observed == ObserveAuthority(loaded, a, now)
          IN  \/ ~observed.ok /\ Begin(observed.state, NONE)
              \/ /\ observed.ok
                 /\ \E d \in PoolStatsDocuments :
                       LET v == Verified(observed.state, d)
                       IN  Begin(v.state,
                                 IF v.ok THEN Minimized(a, now, d, v.state.generation) ELSE NONE)

\* the store compares the previous generation and replaces the state as a whole
Commit ==
    /\ call.at = "commit" /\ ValidShape(call.candidate)
    /\ stored.generation = loaded.generation
    /\ stored' = call.candidate /\ loaded' = call.candidate
    /\ call' = [call EXCEPT !.at = "release"]
    /\ UNCHANGED <<lease, released, held>>

AfterFailedCommit == NoCall

CommitFails ==
    /\ call.at = "commit"
    /\ call' = AfterFailedCommit
    /\ UNCHANGED <<stored, loaded, lease, released, held>>

\* external: the write ends in an error and has happened all the same
CommitIsUnknown ==
    /\ call.at = "commit" /\ stored.generation = loaded.generation
    /\ stored' = call.candidate
    /\ loaded' = NoState
    /\ call' = AfterFailedCommit
    /\ UNCHANGED <<lease, released, held>>

\* ensure_lease_held
Held == lease = call.lease

Release ==
    /\ call.at = "release"
    /\ IF Held /\ call.result # NONE
       THEN /\ held' = call.result
            /\ released' = [released EXCEPT
                              ![call.result.authority.service][call.result.operator] =
                                  call.result.snapshot]
       ELSE UNCHANGED <<released, held>>
    /\ call' = NoCall
    /\ UNCHANGED <<stored, loaded, lease>>

\* A caller that lost its state, or a process that died, decodes what is stored.
Load ==
    /\ loaded # stored \/ call # NoCall
    /\ loaded' = stored
    /\ call' = NoCall
    /\ UNCHANGED <<stored, lease, released, held>>

\* external: the broker loses the lease, and takes it again as another one
LoseLease ==
    /\ lease # 0
    /\ \/ lease' = 0
       \/ lease < MaxNumber /\ lease' = lease + 1
    /\ UNCHANGED <<stored, loaded, call, released, held>>

Next ==
    \/ Admit \/ Commit \/ CommitFails \/ CommitIsUnknown \/ Release \/ Load \/ LoseLease

Spec == Init /\ [][Next]_vars

AnyAdmission == TRUE
SameAdmission == held.generation = loaded.generation

\* reconfirm_current, of what the caller holds, at the time and under the authority given
Reconfirmed(a, now) ==
    /\ held # NONE /\ call = NoCall /\ loaded # NoState
    /\ held.authority = a /\ held.lease = lease /\ held.at = now
    /\ SameAdmission
    /\ loaded.status = "active" /\ loaded.time = now /\ loaded.seen = a

(***************************************************************************)
(* What the verifier promises.                                             *)
(***************************************************************************)
\* The candidate of an admission is always a state that can be encoded and read back,
\* and what is stored always is one.
TypeOK ==
    /\ stored = New \/ ValidShape(stored)
    /\ loaded \in {New, NoState} \/ ValidShape(loaded)
    /\ lease \in 0..MaxNumber
    /\ call.at \in {"idle", "commit", "release"} /\ call.result \in Results \cup {NONE}
    /\ call.at = "commit" => ValidShape(call.candidate)
    /\ held \in Results \cup {NONE}

\* Whatever fails, is retried or is lost between them, the snapshots of an operator are
\* released in the order of their numbers and never two with one number.
ReleasesInOrder ==
    \A n \in Numbers, o \in Operators :
        LET old == released[n][o]
            new == released'[n][o]
        IN  old.number < new.number \/ old = new
ReleasesAreOrdered == [][ReleasesInOrder]_vars

\* The durable state never forgets: neither time nor authority goes back, quarantine is
\* for ever, and within one service generation no replay position goes back.
NeverForgets ==
    stored # New =>
        /\ stored'.time >= stored.time /\ ~Older(stored'.seen, stored.seen)
        /\ stored.status # "active" => stored'.status # "active"
        /\ stored'.seen.service = stored.seen.service =>
             /\ \A e \in Endpoints : stored'.endpoints[e].number >= stored.endpoints[e].number
             /\ \A o \in Operators :
                   stored'.operators[o].number >= stored.operators[o].number
NothingIsForgotten == [][NeverForgets]_vars

\* Nothing is released after an operator or an authority was caught contradicting itself,
\* or after a history overflowed.
ReleasesWhileActive ==
    released' # released => stored.status = "active"
QuarantineReleasesNothing == [][ReleasesWhileActive]_vars

\* A result that can be reconfirmed is the newest its operator was ever accepted with,
\* released or not, and its authority is the last one seen.
ReconfirmedIsNewest ==
    held # NONE /\ Reconfirmed(held.authority, held.at) =>
        /\ held.snapshot = stored.operators[held.operator]
        /\ stored.seen = held.authority /\ stored.status = "active"
=============================================================================
