----------------------------- MODULE NativeHost -----------------------------
(***************************************************************************)
(* The native messaging host: one thread that answers the extension's      *)
(* requests one at a time, the proxy it starts and stops, and the security *)
(* observations that the proxy's worker threads hand it meanwhile, in      *)
(* whatever order they finish.  Each access to the mutex of                *)
(* SecurityObservations is one action.                                     *)
(*                                                                         *)
(* The runtime appears as the counters the host reads: the maintenance     *)
(* epoch (HeaderPublication), the policy generation and the event sequence *)
(* (CanonicalAuthority).  An epoch of 0 is Rust's None, as it is in the    *)
(* code once publication_epoch or a filter was asked.                      *)
(***************************************************************************)
EXTENDS Integers, Sequences, FiniteSets, SequencesExt

CONSTANTS
    MAX_EPOCH,                    \* stands for u64::MAX of a maintenance epoch
    MAX_RECENT_SECURITY_RESULTS,
    MaxGeneration,                \* bound: proxies started
    MaxPolicy,                    \* bound: policy generations
    MaxEvents,                    \* bound: observations made
    MaxFlight                     \* bound: observations under way at a time

ASSUME LimitsArePositive ==
    /\ MAX_EPOCH \in Nat \ {0} /\ MAX_RECENT_SECURITY_RESULTS \in Nat \ {0}
    /\ MaxGeneration \in Nat /\ MaxPolicy \in Nat \ {0} /\ MaxEvents \in Nat
    /\ MaxFlight \in Nat

VARIABLES
    epoch, policy, event,  \* the runtime's counters
    generation, running,   \* proxies started so far, and those not stopped
    flight,                \* observations that workers have yet to hand over
    context,               \* SecurityObservationState::active
    highest,               \* highest_maintenance_epoch
    main,                  \* latest_main_frame*, its epoch, reason and floor
    recent, connects,      \* recent, recent_connect_decisions
    step, request,         \* what the host's thread does, for which request
    proxy,                 \* NativeHostController::proxy, 0 for none
    sample,                \* the epoch it read
    answer,                \* the response it puts together
    shown,                 \* the last response that was written
    newest                 \* history: the newest main frame ever shown

runtime == <<epoch, policy, event, generation, running>>
store   == <<context, highest, main, recent, connects>>
host    == <<step, request, proxy, sample, answer, shown, newest>>
vars == <<runtime, flight, store, host>>

Gen   == 0 .. MaxGeneration
Epoch == 0 .. MAX_EPOCH
\* A worker's observation: a page's own response, that of one of its parts,
\* or a CONNECT decision; "available" unless the status had no authority.
Observation == [gen : Gen \ {0}, policy : 1 .. MaxPolicy, epoch : Epoch \ {0},
                event : 1 .. MaxEvents, kind : {"page", "part", "connect"},
                available : BOOLEAN]
Context   == [gen : Gen, policy : 0 .. MaxPolicy]
Inactive  == [gen |-> 0, policy |-> 0]
NoMain    == [epoch |-> 0, floor |-> 0, result |-> {}, reason |-> FALSE]
NoAnswer  == [of |-> Inactive, epoch |-> 0, main |-> {}, reason |-> FALSE,
              recent |-> <<>>, connects |-> <<>>]

Init ==
    /\ epoch = 1 /\ policy = 1 /\ event = 0 /\ generation = 0 /\ running = {}
    /\ flight = {}
    /\ context = Inactive /\ highest = 0 /\ main = NoMain
    /\ recent = <<>> /\ connects = <<>>
    /\ step = "idle" /\ request = "none" /\ proxy = 0 /\ sample = 0
    /\ answer = NoAnswer /\ shown = NoAnswer /\ newest = 0

-----------------------------------------------------------------------------
(* SecurityObservations, under its mutex.                                  *)

\* activate and deactivate forget whatever was observed before.
Reset(c, e) ==
    /\ context' = c /\ highest' = e
    /\ main' = NoMain /\ recent' = <<>> /\ connects' = <<>>

\* admit_security_observation_epoch: an older epoch is refused, a newer one
\* replaces everything.
Admits(o) == o.epoch >= highest
Replaces(o) == o.epoch > highest

Known(s, o) == \E i \in DOMAIN s : s[i].event = o.event
\* Mutant: a list that only grows.
All(s) == s

NewestOf(s) ==
    SubSeq(s, IF Len(s) > MAX_RECENT_SECURITY_RESULTS
              THEN Len(s) - MAX_RECENT_SECURITY_RESULTS + 1 ELSE 1, Len(s))

\* Mutant: an observation is appended, late or not.
Appended(s, o) == IF Known(s, o) THEN s ELSE NewestOf(Append(s, o))

\* Insertion by event sequence; the oldest go when there are too many.
Retained(s, o) ==
    LET later == {i \in DOMAIN s : s[i].event > o.event} \cup {Len(s) + 1}
    IN IF Known(s, o) THEN s ELSE NewestOf(InsertAt(s, Min(later), o))

\* Mutant: the last page that finished is the latest.
MainOfLast(old, o) ==
    IF o.kind # "page" THEN old
    ELSE [epoch |-> o.epoch, floor |-> o.event,
          result |-> IF o.available THEN {o} ELSE {}, reason |-> ~o.available]

\* The page with the highest event sequence is the latest, whether its own
\* status is available or not.
MainAfter(old, o) ==
    IF o.kind # "page" \/ o.event <= old.floor THEN old
    ELSE [epoch |-> o.epoch, floor |-> o.event,
          result |-> IF o.available THEN {o} ELSE {}, reason |-> ~o.available]

\* Mutant: whatever proxy is active takes the observation.
MatchesAnyContext(o) == context # Inactive

\* canonical_observation_matches_context
MatchesContext(o) == context = [gen |-> o.gen, policy |-> o.policy]

\* retain_security_observation and retain_connect_security_decision
Retain(o) ==
    LET Base(s) == IF Replaces(o) THEN <<>> ELSE s
    IN /\ highest' = o.epoch
       /\ main' = MainAfter(IF Replaces(o) THEN NoMain ELSE main, o)
       /\ recent' = IF o.kind # "connect" /\ o.available
                    THEN Retained(Base(recent), o) ELSE Base(recent)
       /\ connects' = IF o.kind = "connect" THEN Retained(Base(connects), o)
                      ELSE Base(connects)

\* NativeSecurityObserver::observe_status, in a worker of the proxy.
Observe(o) ==
    /\ o \in flight /\ flight' = flight \ {o}
    /\ IF MatchesContext(o) /\ Admits(o) /\ (o.kind = "connect" => o.available)
       THEN Retain(o) ELSE UNCHANGED <<highest, main, recent, connects>>
    /\ UNCHANGED <<runtime, context, host>>

\* The observations of one epoch, in their order.
OfEpoch(s, e) ==
    LET kept[n \in 0 .. Len(s)] ==
            IF n = 0 THEN <<>>
            ELSE IF s[n].epoch = e THEN Append(kept[n - 1], s[n]) ELSE kept[n - 1]
    IN kept[Len(s)]

\* retain_maintenance_epoch
ForgetOtherEpochs(e) ==
    /\ highest' = e
    /\ main' = IF main.epoch = e THEN main ELSE NoMain
    /\ recent' = OfEpoch(recent, e) /\ connects' = OfEpoch(connects, e)

-----------------------------------------------------------------------------
(* The workers and the runtime.                                            *)

\* A request is admitted: it takes an event, under the epoch of that moment.
Admit(g) ==
    /\ g \in running /\ epoch # 0
    /\ event < MaxEvents /\ Cardinality(flight) < MaxFlight
    /\ event' = event + 1
    /\ \E k \in {"page", "part", "connect"}, b \in BOOLEAN :
          flight' = flight \cup {[gen |-> g, policy |-> policy, epoch |-> epoch,
                                  event |-> event', kind |-> k, available |-> b]}
    /\ UNCHANGED <<epoch, policy, generation, running, store, host>>

\* Its status was not taken, or its stamp went stale before it was.
Lose(o) ==
    /\ o \in flight /\ flight' = flight \ {o}
    /\ UNCHANGED <<runtime, store, host>>

\* A request of the proxy, the status or the sync of the host finds another
\* name tree on disk, or replaces it.
AdvanceEpoch ==
    /\ epoch # 0
    /\ running # {} \/ step \in {"sample", "sync"}
    /\ epoch' = IF epoch = MAX_EPOCH THEN 0 ELSE epoch + 1
    /\ UNCHANGED <<policy, event, generation, running, flight, store, host>>

-----------------------------------------------------------------------------
(* NativeHostController                                                    *)

Goes(from, to) == step = from /\ step' = to
Stay == UNCHANGED <<proxy, sample, answer, shown, newest>>

\* A start with a policy the host does not support changes nothing.
BeginStart ==
    /\ Goes("idle", "stop") /\ request' = "start"
    /\ Reset(Inactive, 0) /\ Stay
    /\ UNCHANGED <<runtime, flight>>

BeginStop ==
    /\ Goes("idle", "stop") /\ request' \in {"stop", "shutdown"}
    /\ Reset(Inactive, 0) /\ Stay
    /\ UNCHANGED <<runtime, flight>>

BeginStatus ==
    /\ Goes("idle", "sample") /\ request' \in {"status", "diagnostics"}
    /\ Stay /\ UNCHANGED <<runtime, flight, store>>

BeginSync ==
    /\ Goes("idle", "sync") /\ request' = "sync"
    /\ Stay /\ UNCHANGED <<runtime, flight, store>>

\* BrowserProxy::stop returns once the workers are gone; a proxy that was
\* dropped does not wait for them.  Neither is relied upon here.
StopRunningProxy ==
    /\ step = "stop" /\ step' = IF request = "start" THEN "policy" ELSE "sample"
    /\ running' = running \ {proxy} /\ proxy' = 0
    /\ UNCHANGED <<epoch, policy, event, generation, flight, store, request,
                   sample, answer, shown, newest>>

\* set_policy: the same policy keeps its generation.
SetPolicy ==
    /\ step = "policy" /\ step' \in {"start", "idle"}
    /\ policy' \in {policy, policy + 1} \cap 1 .. MaxPolicy
    /\ UNCHANGED <<epoch, event, generation, running, flight, store, request>> /\ Stay

\* The proxy accepts requests from here on; its context is not active yet.
StartProxy ==
    /\ step = "start"
    /\ \/ /\ generation < MaxGeneration /\ step' = "tuple"
          /\ generation' = generation + 1 /\ running' = running \cup {generation'}
       \/ step' = "idle" /\ UNCHANGED <<generation, running>>
    /\ UNCHANGED <<epoch, policy, event, flight, store, request>> /\ Stay

\* header_sync_status_result: the epoch, or none when the status fails.
SampleForStart ==
    /\ Goes("tuple", "activate") /\ sample' \in {epoch, 0}
    /\ UNCHANGED <<runtime, flight, store, request, proxy, answer, shown, newest>>

Activate ==
    /\ Goes("activate", "idle")
    /\ LET c == [gen |-> generation, policy |-> policy]
       IN Reset(c, sample) /\ shown' = [NoAnswer EXCEPT !.of = c, !.epoch = sample]
    /\ proxy' = generation
    /\ sample' = 0
    /\ UNCHANGED <<runtime, flight, request, answer, newest>>

\* status_result: the context and the epoch first ...
SampleForStatus ==
    /\ Goes("sample", "latest")
    /\ sample' \in {epoch, 0}
    /\ answer' = [NoAnswer EXCEPT !.of = context, !.epoch = sample']
    /\ UNCHANGED <<runtime, flight, store, request, proxy, shown, newest>>

LatestMainFrame == IF main.epoch = sample THEN main.result ELSE {}

\* ... and each part of the observations under a lock of its own.
ReadLatest ==
    /\ Goes("latest", "reason")
    /\ answer' = [answer EXCEPT !.main = LatestMainFrame]
    /\ UNCHANGED <<runtime, flight, store, request, proxy, sample, shown, newest>>

ReadReason ==
    /\ Goes("reason", "connects")
    /\ answer' = [answer EXCEPT !.reason = main.epoch = sample /\ main.reason]
    /\ UNCHANGED <<runtime, flight, store, request, proxy, sample, shown, newest>>

OfSample(s) == OfEpoch(s, sample)

ReadConnects ==
    /\ step = "connects"
    /\ step' = IF request = "diagnostics" THEN "recent" ELSE "reply"
    /\ answer' = [answer EXCEPT !.connects = OfSample(connects)]
    /\ UNCHANGED <<runtime, flight, store, request, proxy, sample, shown, newest>>

\* The diagnostics list the recent results, and the decisions once more.
ReadRecent ==
    /\ Goes("recent", "again")
    /\ answer' = [answer EXCEPT !.recent = OfSample(recent)]
    /\ UNCHANGED <<runtime, flight, store, request, proxy, sample, shown, newest>>

ReadConnectsAgain ==
    /\ Goes("again", "reply")
    /\ answer' = [answer EXCEPT !.connects = OfSample(connects)]
    /\ UNCHANGED <<runtime, flight, store, request, proxy, sample, shown, newest>>

Reply ==
    /\ step = "reply" /\ step' = IF request = "shutdown" THEN "exited" ELSE "idle"
    /\ shown' = answer /\ answer' = NoAnswer
    /\ newest' = IF answer.main = {} THEN newest
                 ELSE (CHOOSE o \in answer.main : TRUE).event
    /\ sample' = 0
    /\ UNCHANGED <<runtime, flight, store, request, proxy>>

\* sync_once is over, with or without an error: the epoch is read, without
\* any lock ...
SampleAfterSync ==
    /\ Goes("sync", "retain") /\ sample' = epoch
    /\ UNCHANGED <<runtime, flight, store, request, proxy, answer, shown, newest>>

\* ... and then what belongs to another epoch is forgotten.
RetainEpoch ==
    /\ Goes("retain", "idle")
    /\ ForgetOtherEpochs(sample) /\ sample' = 0
    /\ UNCHANGED <<runtime, flight, context, request, proxy, answer, shown, newest>>

StartStep == SetPolicy \/ StartProxy \/ SampleForStart \/ Activate
StatusStep ==
    \/ SampleForStatus \/ ReadLatest \/ ReadReason \/ ReadConnects \/ ReadRecent
    \/ ReadConnectsAgain \/ Reply
HostStep ==
    \/ BeginStart \/ BeginStop \/ BeginStatus \/ BeginSync
    \/ StopRunningProxy \/ StartStep \/ StatusStep \/ SampleAfterSync \/ RetainEpoch

Next ==
    \/ HostStep \/ AdvanceEpoch
    \/ \E g \in Gen : Admit(g)
    \/ \E o \in flight : Observe(o) \/ Lose(o)

Spec == Init /\ [][Next]_vars

-----------------------------------------------------------------------------
Step == {"idle", "stop", "policy", "start", "tuple", "activate", "sample",
         "latest", "reason", "connects", "recent", "again", "reply", "sync", "retain",
         "exited"}
Request == {"none", "start", "stop", "shutdown", "status", "diagnostics", "sync"}
MainFrame == [epoch : Epoch, floor : 0 .. MaxEvents, result : SUBSET Observation,
              reason : BOOLEAN]
Answer == [of : Context, epoch : Epoch, main : SUBSET Observation, reason : BOOLEAN,
           recent : Seq(Observation), connects : Seq(Observation)]

IsShort(s) == Len(s) <= MAX_RECENT_SECURITY_RESULTS
TypeOK ==
    /\ epoch \in Epoch /\ policy \in 1 .. MaxPolicy /\ event \in 0 .. MaxEvents
    /\ generation \in Gen /\ running \subseteq 1 .. generation
    /\ flight \subseteq Observation
    /\ context \in Context /\ highest \in Epoch /\ main \in MainFrame
    /\ recent \in Seq(Observation) /\ connects \in Seq(Observation)
    /\ IsShort(recent) /\ IsShort(connects)
    /\ step \in Step /\ request \in Request
    /\ proxy \in Gen /\ sample \in Epoch /\ newest \in 0 .. MaxEvents
    /\ answer \in Answer /\ shown \in Answer
    /\ \A a \in {answer, shown} : IsShort(a.recent) /\ IsShort(a.connects)

\* Everything the extension is told about security was observed by the proxy,
\* under the policy and in the epoch that the same response names, although
\* these are read one after the other while workers go on.
Told(a) == a.main \cup ToSet(a.recent) \cup ToSet(a.connects)
ShownIsOfOneTuple ==
    \A o \in Told(shown) :
        [gen |-> o.gen, policy |-> o.policy] = shown.of /\ o.epoch = shown.epoch

\* The main frame that the extension is shown never goes back to an earlier
\* one: not when responses finish late, nor across syncs and restarts of the
\* proxy, which forget the floor that late ones are compared with.
NewestGrows == newest' >= newest
MainFrameNeverRegresses == [][NewestGrows]_vars

\* The decisions of a response ascend, which the extension insists on, and
\* what is stored is of one epoch and of the active proxy.
Ascends(s) == \A i, j \in DOMAIN s : i < j => s[i].event < s[j].event
ObservationsAreOrdered ==
    /\ Ascends(recent) /\ Ascends(connects)
    /\ Ascends(shown.recent) /\ Ascends(shown.connects)
    /\ \A o \in main.result \cup ToSet(recent) \cup ToSet(connects) :
          o.epoch = highest /\ MatchesContext(o)

\* "Retain observations published under the resulting epoch while discarding
\* only stale-epoch results": a sync forgets no decision of the epoch that is
\* current when it forgets.
ForgetsOnlyStale ==
    step = "retain" /\ step' = "idle" =>
        \A o \in ToSet(connects) : o.epoch = epoch => o \in ToSet(connects')
SyncDiscardsOnlyStaleResults == [][ForgetsOnlyStale]_vars
=============================================================================
