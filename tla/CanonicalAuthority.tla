------------------------- MODULE CanonicalAuthority -------------------------
(***************************************************************************)
(* The canonical request authority of the native runtime: the state        *)
(* machine behind one Mutex, the two atomics that bind it to a loopback    *)
(* proxy generation, the policy it was told, the registry of statuses that *)
(* wait for their response, and the threads that race over all of it:      *)
(* proxy starts and stops, policy changes, and browser requests that are   *)
(* admitted, work without any lock, and publish.                           *)
(*                                                                         *)
(* A critical section under the runtime Mutex is one action.  Everything   *)
(* done outside of it is a step of its own.  The header state on disk is   *)
(* reduced to the name-tree root that readiness verifies; the protocol     *)
(* that publishes it is in HeaderPublication.                              *)
(***************************************************************************)
EXTENDS Integers, FiniteSets

CONSTANTS
    Request,             \* request threads; each one runs one request
    Root,                \* name-tree roots
    NoRoot,              \* readiness fails: evidence or record is missing
    MaxGeneration,       \* bound: proxy generations started
    MaxRevision,         \* bound: policy changes
    Crowd, CrowdRoot,    \* bound: see WithinBound
    MAX_PENDING_CANONICAL_STATUSES

ASSUME BoundsAreNat ==
    /\ MaxGeneration \in Nat /\ MaxRevision \in Nat
    /\ MAX_PENDING_CANONICAL_STATUSES \in Nat \ {0}
ASSUME NoRootIsNotARoot == NoRoot \notin Root

VARIABLES
    authState,    \* CanonicalBrowserRuntime::authority_state()
    event,        \* last event sequence the runtime issued
    floor,        \* event of the last invalidation: older stamps are stale
    prepared,     \* prepared_proxy_generation, 0 for none
    active,       \* active_proxy_generation, 0 for none
    generation,   \* RuntimeInner::proxy_generation
    listener,     \* life of the proxy of each generation
    policy,       \* RuntimeInner::policy_revision
    canonical,    \* generation of CanonicalAuthority::policy
    writer,       \* progress of the thread that holds the policy write lock
    root,         \* the root readiness would verify now
    pc, stamp,    \* a request's progress and its CanonicalWorkStamp
    work,         \* the policy revision the request's work reads
    tuple,        \* the policy generation in the request's status tuple
    pending,      \* CanonicalStatusRegistry::pending
    pushes,       \* statuses pushed so far: the order of the queue
    observation   \* progress of the metadata observer of each response

authority == <<authState, event, floor, prepared, active>>
proxies   == <<generation, listener>>
policies  == <<policy, canonical, writer>>
requests  == <<pc, stamp, work, tuple>>
statuses  == <<pending, pushes, observation>>
vars == <<authority, proxies, policies, root, requests, statuses>>

Generation == 1 .. MaxGeneration
Unread     == -1
AuthState  == {"LocalStateOpened", "HeaderSyncing", "Active", "Degraded", "Revoked"}
Phase      == {"idle", "locked", "admitting", "admitted", "working", "described",
               "ready", "verified", "published", "cancelled"}
Stamp      == [gen : {0} \cup Generation, event : Nat, root : Root \cup {NoRoot}]

TypeOK ==
    /\ authState \in AuthState /\ event \in Nat /\ floor \in Nat
    /\ prepared \in {0} \cup Generation /\ active \in {0} \cup Generation
    /\ generation \in {0} \cup Generation
    /\ listener \in [Generation -> {"unused", "counted", "prepared", "listening",
                                    "refused", "live", "stopping", "ended"}]
    /\ policy \in Nat /\ canonical \in Nat
    /\ writer \in {"idle", "changed", "cleared"}
    /\ root \in Root \cup {NoRoot}
    /\ pc \in [Request -> Phase] /\ stamp \in [Request -> Stamp]
    /\ work \in [Request -> Nat \cup {Unread}]
    /\ tuple \in [Request -> Nat \cup {Unread}]
    /\ pending \in SUBSET [request : Request, at : Nat] /\ pushes \in Nat
    /\ observation \in [Request -> {"none", "queued", "taken", "checked",
                                    "dropped", "delivered"}]

Init ==
    /\ authState = "LocalStateOpened" /\ event = 0 /\ floor = 0
    /\ prepared = 0 /\ active = 0 /\ generation = 0
    /\ listener = [g \in Generation |-> "unused"]
    /\ policy = 0 /\ canonical = 1 /\ writer = "idle"
    /\ root \in Root \cup {NoRoot}
    /\ pc = [r \in Request |-> "idle"]
    /\ stamp = [r \in Request |-> [gen |-> 0, event |-> 0, root |-> NoRoot]]
    /\ work = [r \in Request |-> Unread] /\ tuple = [r \in Request |-> Unread]
    /\ pending = {} /\ pushes = 0
    /\ observation = [r \in Request |-> "none"]

-----------------------------------------------------------------------------
(* The runtime crate, as the code uses it: an invalidation takes an event  *)
(* sequence of its own, and a stamp is admitted while the authority is     *)
(* Active and no invalidation is newer than the stamp.                     *)

Invalidate == event' = event + 1 /\ floor' = event + 1

Transition(to) ==
    /\ authState' = to
    /\ IF authState = "Active" THEN Invalidate ELSE UNCHANGED <<event, floor>>

\* Mutant: the state changes without an invalidation event.
DegradeWithoutInvalidation ==
    /\ authState' = IF authState = "Revoked" THEN authState ELSE "Degraded"
    /\ UNCHANGED <<event, floor>>

\* readiness_or_invalidate and cancel_prepared_proxy: fail closed.
Degrade ==
    IF authState \in {"Degraded", "Revoked"}
    THEN UNCHANGED <<authState, event, floor>>
    ELSE Transition("Degraded")

BindingIsCurrent(g) == g = 0 \/ active = g

\* admits_without_readiness: the test made under the Mutex by every caller.
Admits(r) ==
    /\ BindingIsCurrent(stamp[r].gen)
    /\ authState = "Active"
    /\ stamp[r].event > floor

-----------------------------------------------------------------------------
(* start_browser_proxy_with_options, stop and drop of a BrowserProxy.      *)

\* Bound: a request of Crowd runs beside one proxy and under a root of CrowdRoot.
WithinBound ==
    \/ \A r \in Crowd : pc[r] = "idle"
    \/ generation <= 1 /\ root \in CrowdRoot \cup {NoRoot}

\* Mutant: fetch_add instead of a checked increment.
CountGenerationUnchecked ==
    /\ generation' = generation + 1
    /\ listener' = [listener EXCEPT ![generation + 1] = "counted"]
    /\ UNCHANGED <<authority, policies, root, requests, statuses>>

CountGeneration ==
    /\ generation < MaxGeneration
    /\ generation' = generation + 1
    /\ listener' = [listener EXCEPT ![generation + 1] = "counted"]
    /\ UNCHANGED <<authority, policies, root, requests, statuses>>
    /\ WithinBound'

\* The old binding goes first: every earlier stamp is stale from here on.
PrepareProxy(g) ==
    /\ listener[g] = "counted"
    /\ Transition("HeaderSyncing")
    /\ active' = 0 /\ prepared' = g
    /\ listener' = [listener EXCEPT ![g] = "prepared"]
    /\ UNCHANGED <<generation, policies, root, requests, statuses>>

\* RunningProxy::start: the socket accepts before the generation is bound.
StartListener(g) ==
    /\ listener[g] = "prepared"
    /\ \E outcome \in {"listening", "refused"} :
          listener' = [listener EXCEPT ![g] = outcome]
    /\ UNCHANGED <<authority, generation, policies, root, requests, statuses>>

CanActivate(g) ==
    authState \in {"HeaderSyncing", "Degraded"} /\ active = 0 /\ prepared = g

ActivateProxy(g) ==
    /\ listener[g] = "listening"
    /\ IF CanActivate(g)
       THEN /\ active' = g /\ prepared' = 0
            /\ listener' = [listener EXCEPT ![g] = "live"]
       ELSE /\ listener' = [listener EXCEPT ![g] = "refused"]
            /\ UNCHANGED <<active, prepared>>
    /\ UNCHANGED <<authState, event, floor, generation, policies, root, requests, statuses>>

\* A generation that a newer preparation replaced leaves that one alone.
CancelPreparedProxy(g) ==
    /\ listener[g] = "refused"
    /\ listener' = [listener EXCEPT ![g] = "ended"]
    /\ IF prepared = g
       THEN /\ prepared' = 0
            /\ IF active = 0 THEN Degrade ELSE UNCHANGED <<authState, event, floor>>
       ELSE UNCHANGED <<prepared, authState, event, floor>>
    /\ UNCHANGED <<active, generation, policies, root, requests, statuses>>

\* request_stop, then CanonicalStatusRegistry::clear_generation.
StopProxy(g) ==
    /\ listener[g] = "live"
    /\ listener' = [listener EXCEPT ![g] = "stopping"]
    /\ pending' = {e \in pending : stamp[e.request].gen # g}
    /\ UNCHANGED <<authority, generation, policies, root, requests, pushes, observation>>

\* Mutant: a stop revokes the state and leaves the binding.
RevokeStateOnly(g) ==
    /\ listener[g] = "stopping"
    /\ listener' = [listener EXCEPT ![g] = "ended"]
    /\ Transition("Revoked")
    /\ UNCHANGED <<prepared, active, generation, policies, root, requests, statuses>>

RevokeProxy(g) ==
    /\ listener[g] = "stopping"
    /\ listener' = [listener EXCEPT ![g] = "ended"]
    /\ IF active # g THEN UNCHANGED <<active, authState, event, floor>>
       ELSE /\ active' = 0
            /\ IF authState = "Revoked" THEN UNCHANGED <<authState, event, floor>>
               ELSE Transition("Revoked")
    /\ UNCHANGED <<prepared, generation, policies, root, requests, statuses>>

-----------------------------------------------------------------------------
(* set_policy_locked: the write lock is held over the three steps.         *)

\* update_policy.  Which state policy_changed leaves is the crate's choice;
\* what counts here is that every stamp is stale and every binding is gone.
UpdatePolicy ==
    /\ writer = "idle" /\ policy < MaxRevision
    /\ writer' = "changed"
    /\ Invalidate
    /\ authState' \in {authState, "Revoked"}
    /\ prepared' = 0 /\ active' = 0
    /\ canonical' = policy + 2
    /\ UNCHANGED <<policy, proxies, root, requests, statuses>>

ClearStatuses ==
    /\ writer = "changed"
    /\ writer' = "cleared" /\ pending' = {}
    /\ UNCHANGED <<authority, proxies, policy, canonical, root, requests, pushes, observation>>

StorePolicy ==
    /\ writer = "cleared"
    /\ writer' = "idle" /\ policy' = policy + 1
    /\ UNCHANGED <<authority, proxies, canonical, root, requests, statuses>>

-----------------------------------------------------------------------------
(* A request: gateway_request (generation 0) or the proxy backend's work.  *)

Moves(r, from, to) == pc[r] = from /\ pc' = [pc EXCEPT ![r] = to]

\* The request takes the shared header-state locks and observes the root.
BeginRequest(r, g) ==
    /\ g # 0 => listener[g] \in {"listening", "live"}
    /\ Moves(r, "idle", "locked")
    /\ stamp' = [stamp EXCEPT ![r] = [gen |-> g, event |-> 0, root |-> root]]
    /\ UNCHANGED <<authority, proxies, policies, root, work, tuple, statuses>>
    /\ WithinBound'

\* The first half of admit_binding: binding, then readiness without the Mutex.
VerifyForAdmission(r) ==
    /\ \/ /\ ~BindingIsCurrent(stamp[r].gen)
          /\ Moves(r, "locked", "cancelled") /\ UNCHANGED authority
       \/ /\ BindingIsCurrent(stamp[r].gen) /\ root = NoRoot
          /\ Moves(r, "locked", "cancelled") /\ Degrade
          /\ UNCHANGED <<prepared, active>>
       \/ /\ BindingIsCurrent(stamp[r].gen) /\ root # NoRoot
          /\ Moves(r, "locked", "admitting") /\ UNCHANGED authority
    /\ UNCHANGED <<proxies, policies, root, stamp, work, tuple, statuses>>

\* Mutant: a request that lost its binding waits to get it back.
AdmitOrWait(r) ==
    /\ BindingIsCurrent(stamp[r].gen)
    /\ Moves(r, "admitting", "admitted")
    /\ authState' = "Active" /\ event' = event + 1
    /\ stamp' = [stamp EXCEPT ![r].event = event + 1]
    /\ UNCHANGED <<floor, prepared, active, proxies, policies, root, work, tuple, statuses>>

\* The second half, under the Mutex: the binding again, the walk to Active,
\* and the event.  The shared locks are dropped.
Admit(r) ==
    /\ IF BindingIsCurrent(stamp[r].gen)
       THEN /\ Moves(r, "admitting", "admitted")
            /\ authState' = "Active" /\ event' = event + 1
            /\ stamp' = [stamp EXCEPT ![r].event = event + 1]
       ELSE /\ Moves(r, "admitting", "cancelled")
            /\ UNCHANGED <<authState, event, stamp>>
    /\ UNCHANGED <<floor, prepared, active, proxies, policies, root, work, tuple, statuses>>

\* Mutant: the policy is read from a copy that no lock protects.
ReadPolicyUnlocked(r) ==
    /\ Moves(r, "admitted", "working")
    /\ work' = [work EXCEPT ![r] = policy]
    /\ UNCHANGED <<authority, proxies, policies, root, stamp, tuple, statuses>>

\* gateway_header_text reads the policy, after admission and behind the lock
\* that a policy change holds.
ReadPolicy(r) ==
    /\ writer = "idle"
    /\ Moves(r, "admitted", "working")
    /\ work' = [work EXCEPT ![r] = policy]
    /\ UNCHANGED <<authority, proxies, policies, root, stamp, tuple, statuses>>

\* Mutant: status_context describes any stamp.
DescribeAnyStatus(r) ==
    /\ stamp[r].gen # 0
    /\ Moves(r, "working", "described") /\ tuple' = [tuple EXCEPT ![r] = canonical]
    /\ UNCHANGED <<authority, proxies, policies, root, stamp, work, statuses>>

\* insert_with_epoch: the tuple under the Mutex (none for a stale stamp) ...
DescribeStatus(r) ==
    /\ stamp[r].gen # 0
    /\ IF Admits(r)
       THEN Moves(r, "working", "described") /\ tuple' = [tuple EXCEPT ![r] = canonical]
       ELSE Moves(r, "working", "ready") /\ UNCHANGED tuple
    /\ UNCHANGED <<authority, proxies, policies, root, stamp, work, statuses>>

\* ... and then the queue, which drops its oldest entry when it is full.
PushStatus(r) ==
    /\ Moves(r, "described", "ready")
    /\ \E evicted \in SUBSET pending :
          /\ IF Cardinality(pending) < MAX_PENDING_CANONICAL_STATUSES THEN evicted = {}
             ELSE \E e \in pending : evicted = {e} /\ \A o \in pending : e.at <= o.at
          /\ pending' = (pending \ evicted) \cup {[request |-> r, at |-> pushes]}
    /\ pushes' = pushes + 1
    /\ observation' = [observation EXCEPT ![r] = "queued"]
    /\ UNCHANGED <<authority, proxies, policies, root, stamp, work, tuple>>

\* A request that found no current authority: a failed check between two
\* stages of the work, a client that went away, or a stopped listener.
Abandon(r) ==
    /\ \E from \in {"admitted", "working", "described", "ready"} : Moves(r, from, "cancelled")
    /\ \/ (~Admits(r) \/ root # stamp[r].root) /\ UNCHANGED authority
       \/ root = NoRoot /\ Degrade /\ UNCHANGED <<prepared, active>>
       \/ /\ stamp[r].gen # 0 /\ listener[stamp[r].gen] \in {"stopping", "ended"}
          /\ UNCHANGED authority
    /\ UNCHANGED <<proxies, policies, root, stamp, work, tuple, statuses>>

\* Mutant: publication asks for readiness, not for the stamped root.
VerifyReadinessOnly(r) ==
    /\ \E from \in {"working", "ready"} : Moves(r, from, "verified")
    /\ root # NoRoot
    /\ UNCHANGED <<authority, proxies, policies, root, stamp, work, tuple, statuses>>

\* publish: the shared locks, the stamped root still live, readiness ...
VerifyForPublication(r) ==
    /\ \E from \in {"working", "ready"} : Moves(r, from, "verified")
    /\ root = stamp[r].root
    /\ UNCHANGED <<authority, proxies, policies, root, stamp, work, tuple, statuses>>

\* ... and the bytes under the Mutex, if the stamp is still admitted.
Publish(r) ==
    /\ Moves(r, "verified", IF Admits(r) THEN "published" ELSE "cancelled")
    /\ UNCHANGED <<authority, proxies, policies, root, stamp, work, tuple, statuses>>

-----------------------------------------------------------------------------
(* RuntimeProxyStatusMetadataObserver::observe, called by the proxy.       *)

Settle(r, from, to) ==
    observation[r] = from /\ observation' = [observation EXCEPT ![r] = to]

Queued(r) == \E e \in pending : e.request = r

\* CanonicalStatusRegistry::take removes the entry whatever it then decides.
TakeStatus(r) ==
    /\ pending' = {e \in pending : e.request # r}
    /\ \/ /\ Queued(r) /\ Admits(r) /\ root = stamp[r].root
          /\ Settle(r, "queued", "taken") /\ UNCHANGED authority
       \/ /\ ~Queued(r) \/ ~Admits(r) \/ root # stamp[r].root
          /\ Settle(r, "queued", "dropped")
          /\ IF Queued(r) /\ root = NoRoot THEN Degrade /\ UNCHANGED <<prepared, active>>
             ELSE UNCHANGED authority
    /\ UNCHANGED <<proxies, policies, root, requests, pushes>>

CheckStatus(r) ==
    /\ \/ /\ Admits(r) /\ root = stamp[r].root
          /\ Settle(r, "taken", "checked") /\ UNCHANGED authority
       \/ /\ ~Admits(r) \/ root # stamp[r].root
          /\ Settle(r, "taken", "dropped")
          /\ IF root = NoRoot THEN Degrade /\ UNCHANGED <<prepared, active>>
             ELSE UNCHANGED authority
    /\ UNCHANGED <<proxies, policies, root, requests, pending, pushes>>

\* observe_status runs with no lock: the status may be stale by then.
DeliverStatus(r) ==
    /\ Settle(r, "checked", "delivered")
    /\ UNCHANGED <<authority, proxies, policies, root, requests, pending, pushes>>

-----------------------------------------------------------------------------
(* The header state, as readiness sees it.                                 *)

HoldsHeaderState(r) == pc[r] \in {"locked", "admitting", "verified"}

\* A publication needs the exclusive lock, so no shared holder may be left.
PublishRoot ==
    /\ \A r \in Request : ~HoldsHeaderState(r)
    /\ root' \in Root \ {root}
    /\ UNCHANGED <<authority, proxies, policies, requests, statuses>>
    /\ WithinBound'

\* Evidence runs out with the clock; no lock can hold that up.
ExpireRoot ==
    /\ root # NoRoot /\ root' = NoRoot
    /\ UNCHANGED <<authority, proxies, policies, requests, statuses>>

ProxyStep(g) ==
    \/ PrepareProxy(g) \/ StartListener(g) \/ ActivateProxy(g)
    \/ CancelPreparedProxy(g) \/ StopProxy(g) \/ RevokeProxy(g)
PolicyStep  == ClearStatuses \/ StorePolicy
RequestStep(r) ==
    \/ VerifyForAdmission(r) \/ Admit(r) \/ ReadPolicy(r) \/ DescribeStatus(r)
    \/ PushStatus(r) \/ Abandon(r) \/ VerifyForPublication(r) \/ Publish(r)
ObserverStep(r) == TakeStatus(r) \/ CheckStatus(r) \/ DeliverStatus(r)

Next ==
    \/ CountGeneration \/ (\E g \in Generation : ProxyStep(g))
    \/ UpdatePolicy \/ PolicyStep
    \/ \E r \in Request : \/ \E g \in {0} \cup Generation : BeginRequest(r, g)
                          \/ RequestStep(r) \/ ObserverStep(r)
    \/ PublishRoot \/ ExpireRoot

\* A thread in the middle of a call goes on; nobody has to start one.
Fairness ==
    /\ WF_vars(PolicyStep)
    /\ \A r \in Request : WF_vars(RequestStep(r)) /\ WF_vars(ObserverStep(r))
    /\ \A g \in Generation : WF_vars(CancelPreparedProxy(g) \/ RevokeProxy(g))

Spec == Init /\ [][Next]_vars
FairSpec == Spec /\ Fairness

-----------------------------------------------------------------------------
Admitted(r) == pc[r] \in {"admitted", "working", "described", "ready", "verified"}
Publishes(r) == pc[r] = "verified" /\ pc'[r] = "published"

\* The policy that admission, resolution and status all ran under is still the one in
\* force (set_policy_locked).
PolicyInForce(r) == writer = "idle" /\ work[r] = policy /\ canonical = policy + 1
KeepsPolicy == \A r \in Request : Publishes(r) => PolicyInForce(r)

\* The proxy the bytes go through is the one that is bound: after a stop, a replacement
\* or a policy change the old one is silent.
BoundAndAlive(g) == active = g /\ listener[g] \in {"live", "stopping"}
KeepsBinding ==
    \A r \in Request : Publishes(r) /\ stamp[r].gen # 0 => BoundAndAlive(stamp[r].gen)

\* The name tree the work was proved against is the one published last: it may run out
\* of evidence between check and write, it is never replaced.
KeepsRoot == \A r \in Request : Publishes(r) => root \in {stamp[r].root, NoRoot}

\* Whatever stops, restarts, changes policy or moves the tree while a request is under
\* way, its bytes reach a browser only under the policy, the proxy and the name tree it
\* was admitted under, all three in force when it is published.
PublishedUnderItsStamp == [][KeepsPolicy /\ KeepsBinding /\ KeepsRoot]_vars

\* A stamp that lost its authority never regains it, whatever sequence of
\* degradations, recoveries and proxy starts follows (no ABA).
NeverReadmits == \A r \in Request : Admitted(r) /\ ~Admits(r) => ~Admits(r)'
StaleStampsStayStale == [][NeverReadmits]_vars

\* The tuple of a status names the policy generation its work ran under,
\* although the two are read by different steps under different locks.
StatusNamesItsPolicy ==
    \A r \in Request : tuple[r] # Unread => tuple[r] = work[r] + 1

\* A request that took the locks ends: no step waits for another request.
Ends(r) == pc[r] = "locked" ~> pc[r] \in {"published", "cancelled"}
=============================================================================
