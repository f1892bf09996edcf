------------------------------- MODULE DnsRelay -------------------------------
(***************************************************************************)
(* The delegated half of HNS resolution: direct authoritative DNS, then    *)
(* the experimental relay over an HNS peer, then the recursive DoH service *)
(* the user configured.  A request owns a resolver, with what it remembers *)
(* of each root; all requests share one relay client, its table of queries *)
(* in flight, and the store of peers, which header sync and proof requests *)
(* write too.                                                              *)
(*                                                                         *)
(* Every section under the peer-state lock is one step: it reads and       *)
(* writes the store and holds no other wait.  The client's mutex is held   *)
(* over several steps.  DnsRelayClient, the DNSSEC validator and the       *)
(* transports are not in the repository: they may end either way.          *)
(* A peer's score and counters follow its ban, all merged by maximum.      *)
(***************************************************************************)
EXTENDS Integers, Sequences, FiniteSets

CONSTANTS
    Requests,       \* gateway requests, each on a thread of its own
    Settings,       \* [relay : BOOLEAN, doh : BOOLEAN] of a request
    Roots,          \* fallback_cache_root of the names looked up
    Queries,        \* queries, their identifiers zeroed
    Peers,
    Seeds,          \* seed_peers_for_network
    Height,         \* what header sync sees at each time, for every peer
    NONE,
    MaxLookups,     \* bound: lookups of each request
    MaxExchanges,   \* bound: exchanges of one validation
    MaxWrites       \* bound: writes of header sync to the store

ASSUME NoneIsNothing ==
    /\ NONE \notin Peers \cup Queries \cup Requests
    /\ NONE \notin {"failed"} \cup [answer : Peers \cup {"failed", NONE}]
ASSUME SettingsAreFlags == Settings \subseteq [relay : BOOLEAN, doh : BOOLEAN]
ASSUME SeedsArePeers == Seeds \subseteq Peers /\ Seeds # {}
ASSUME HeightIsAHistory == Height \in Seq(Nat \ {0}) /\ Height # <<>>
ASSUME BoundsAreNatural ==
    /\ MaxLookups \in [Requests -> Nat] /\ MaxExchanges \in Nat \ {0} /\ MaxWrites \in Nat

Times == 1..Len(Height)
Heights == {0} \cup {Height[t] : t \in Times}

\* hns_p2p::PeerState: banned_until, last_height, last_height_observed_at (0 for None)
PeerState == [until : 0..Len(Height) + 1, height : Heights, at : {0} \cup Times]
Unknown == [until |-> 0, height |-> 0, at |-> 0]
NoPeers == [p \in {} |-> Unknown]
Managers == UNION {[ps -> PeerState] : ps \in SUBSET Peers}
ASSUME NoneIsNoManager == NONE \notin Managers

Failed == "failed"
ASSUME FailedIsNoPeer == Failed \notin Peers
Phases == {"new", "between", "relay", "queued", "asking", "publish", "remove",
           "following", "report", "doh", "done"}

VARIABLES
    clock,
    store,      \* peers.sqlite
    writes,     \* writes of header sync so far
    client,     \* DnsRelayClient's peers, NONE before it is initialised
    pool,       \* peers it keeps a session with
    holder,     \* the request that holds the client's mutex
    live,       \* query -> NONE, or the state of its flight
    run,        \* request -> where it is, and its resolver's memory
    asked,      \* history: peers whose answers the running validation consumed
    exhausted,  \* history: <<request, root, transport>> that failed to transport
    spoiled     \* history: requests whose running lookup had a relay validation fail

vars == <<clock, store, writes, client, pool, holder, live, run, asked, exhausted, spoiled>>
network == <<clock, store, writes>>
shared == <<client, pool, holder, live>>
history == <<asked, exhausted, spoiled>>

Banned(peer) == peer.until > clock
Later(a, b) == IF a > b THEN a ELSE b

(***************************************************************************)
(* Peer state                                                              *)
(***************************************************************************)
\* A height and the time it was observed are one piece of evidence.
RaisedApart(stored, relay) == [stored EXCEPT !.height = Later(@, relay.height),
                                             !.at = Later(@, relay.at)]
Observation(stored, relay) == IF relay.at > stored.at THEN relay ELSE stored

\* merge_dns_relay_peer_state
RelayWins(stored, relay) == relay
Merge(stored, relay) ==
    [Observation(stored, relay) EXCEPT !.until = Later(stored.until, relay.until)]

Known(manager, p) == p \in DOMAIN manager

\* what a refresh makes of the client's peers: the store decides who is one
Refreshed == [p \in DOMAIN store |->
                 IF Known(client, p) THEN Merge(store[p], client[p]) ELSE store[p]]

\* sessions that outlive a refresh
NothingInvalidated(refreshed) == pool
SessionsAfter(refreshed) ==
    IF \E p \in DOMAIN client :
          \/ ~Known(refreshed, p)
          \/ Banned(refreshed[p]) /\ ~Banned(client[p])
    THEN {} ELSE pool

\* persist_dns_relay_peers, from the peers the client has by now
Persisted(peers) == [p \in DOMAIN store \cup DOMAIN peers |->
                        IF ~Known(peers, p) THEN store[p]
                        ELSE IF Known(store, p) THEN Merge(store[p], peers[p]) ELSE peers[p]]

\* A failure to persist is ignored.
Persist(peers) == \/ store' = Persisted(peers)
                  \/ UNCHANGED store

Penalised(ps) == [p \in DOMAIN client |->
                     IF p \in ps THEN [client[p] EXCEPT !.until = Later(@, clock + 1)] ELSE client[p]]

\* initialize_dns_relay_client: the client's peers are the store's, or the seeds
Seeded == IF store = NoPeers THEN [p \in Seeds |-> Unknown] ELSE store

(***************************************************************************)
(* A request and its ladder of transports                                  *)
(***************************************************************************)
Fresh == [at |-> "new", setting |-> [relay |-> FALSE, doh |-> FALSE], broken |-> FALSE,
          lookups |-> 0, root |-> NONE, relayed |-> {}, recovered |-> {}, offset |-> 0,
          exchanges |-> 0, attempts |-> <<>>, peers |-> {}, query |-> NONE, answer |-> NONE]

In(c, phase) == run[c].at = phase
Goes(c, phase) == run' = [run EXCEPT ![c] = [@ EXCEPT !.at = phase]]

\* android_gateway_resolver: the first request to need the relay initialises its client.
Open(c) == \E s \in Settings, fails \in BOOLEAN :
    /\ In(c, "new") /\ holder = NONE
    /\ fails => s.relay /\ client = NONE
    /\ run' = [run EXCEPT ![c] = [@ EXCEPT !.at = "between", !.setting = s, !.broken = fails]]
    /\ IF s.relay /\ client = NONE /\ ~fails
       THEN /\ store' = Seeded /\ client' = Seeded
       ELSE UNCHANGED <<store, client>>
    /\ UNCHANGED <<clock, writes, pool, holder, live, history>>

\* DnsRelayAttemptTracker: begin() and finish(), on this thread's own stack
Begun(attempts) == Append(attempts, {})
NotPopped(attempts) == attempts
Popped(attempts) == SubSeq(attempts, 1, Len(attempts) - 1)

\* A validation over the relay begins; 'offset' is 1 for the retry.
Attempt(r, offset) ==
    [r EXCEPT !.at = "relay", !.offset = offset, !.exchanges = 0, !.attempts = Begun(@)]

\* memory of the two layers for a root, once it fell through
RememberAll(roots, root) == Roots
Remember(roots, root) == roots \cup {root}

\* ConfiguredDohFallbackDelegatedResolver over the layers below, which ended with this
\* error: the lookup ends with it, or at the recovery service, whatever that answers.
Ended(r, error) ==
    IF error = "transport" /\ r.setting.doh
    THEN [r EXCEPT !.at = "doh", !.recovered = Remember(@, r.root), !.peers = {}]
    ELSE [r EXCEPT !.at = "between", !.peers = {}]

\* P2pFallbackDelegatedResolver over the direct transport, which ended like this
AfterDirect(r, result) ==
    IF result = "transport" /\ r.setting.relay
    THEN Attempt([r EXCEPT !.relayed = Remember(@, r.root)], 0)
    ELSE Ended(r, result)

\* of authoritative DNS over UDP, TCP and DoH, and of a validation over the relay
DirectResults == {"ok", "transport", "other"}
RelayResults == {"ok", "dnssec", "transport", "other"}

\* A lookup walks down to the first layer its root still has to try.
Lookup(c) == \E root \in Roots, result \in DirectResults :
    LET r == [run[c] EXCEPT !.root = root, !.lookups = @ + 1]
        direct == root \notin r.recovered \cup r.relayed IN
    /\ run[c].at \in {"between", "doh"} /\ run[c].lookups < MaxLookups[c]
    /\ ~direct => result = "ok"
    /\ run' = [run EXCEPT ![c] = CASE root \in r.recovered -> [r EXCEPT !.at = "doh"]
                                   [] direct -> AfterDirect(r, result)
                                   [] OTHER -> Attempt(r, 0)]
    /\ exhausted' = IF result = "transport" THEN exhausted \cup {<<c, root, "direct">>}
                    ELSE exhausted
    /\ spoiled' = spoiled \ {c}
    /\ UNCHANGED <<network, shared, asked>>

\* The request drops its resolver.
Close(c) ==
    /\ run[c].at \in {"between", "doh"}
    /\ run' = [run EXCEPT ![c] = [Fresh EXCEPT !.at = "done"]]
    /\ asked' = [asked EXCEPT ![c] = {}]
    /\ exhausted' = {e \in exhausted : e[1] # c}
    /\ spoiled' = spoiled \ {c}
    /\ UNCHANGED <<network, shared>>

(***************************************************************************)
(* An exchange: one flight for all requests with the same query            *)
(***************************************************************************)
\* coalesced_exchange returned to traced_exchange: observe() notes the peer
Noted(attempts, answer) ==
    IF answer \in Peers THEN [attempts EXCEPT ![Len(attempts)] = @ \cup {answer}] ELSE attempts
Observed(r, answer) ==
    [r EXCEPT !.at = "relay", !.query = NONE, !.answer = NONE, !.exchanges = @ + 1,
              !.attempts = Noted(@, answer)]
Consumed(c, answer) == IF answer \in Peers THEN [asked EXCEPT ![c] = @ \cup {answer}] ELSE asked

\* A request with the query already in flight waits for it, or takes its answer if
\* it came; a request without a flight to join leads one.
Ask(c) == \E q \in Queries :
    /\ In(c, "relay") /\ run[c].exchanges < MaxExchanges
    /\ IF live[q] = NONE
       THEN /\ live' = [live EXCEPT ![q] = [answer |-> NONE]]
            /\ run' = [run EXCEPT ![c] = [@ EXCEPT !.at = "queued", !.query = q]]
            /\ UNCHANGED asked
       ELSE /\ IF live[q].answer = NONE
               THEN /\ run' = [run EXCEPT ![c] = [@ EXCEPT !.at = "following", !.query = q]]
                    /\ UNCHANGED asked
               ELSE /\ run' = [run EXCEPT ![c] = Observed(@, live[q].answer)]
                    /\ asked' = Consumed(c, live[q].answer)
            /\ UNCHANGED live
    /\ UNCHANGED <<network, client, pool, holder, exhausted, spoiled>>

\* A leader whose transport failed to initialise answers its flight with that error.
Unusable(c) ==
    /\ In(c, "queued") /\ run[c].broken
    /\ run' = [run EXCEPT ![c] = [@ EXCEPT !.at = "publish", !.answer = Failed]]
    /\ UNCHANGED <<network, shared, history>>

\* refresh_dns_relay_peers, under the client's mutex and the peer-state lock; when it
\* fails the exchange does.
Refresh(c) ==
    /\ In(c, "queued") /\ ~run[c].broken /\ holder = NONE
    /\ \/ /\ holder' = c /\ Goes(c, "asking")
          /\ client' = Refreshed
          /\ pool' = SessionsAfter(Refreshed)
       \/ /\ run' = [run EXCEPT ![c] = [@ EXCEPT !.at = "publish", !.answer = Failed]]
          /\ UNCHANGED <<client, pool, holder>>
    /\ UNCHANGED <<network, live, history>>

\* DnsRelayClient::resolve, then persist: a peer with a session, or a member that is not
\* banned, answers; one that fails is penalised and dropped; or there is none.
Resolve(c) ==
    /\ In(c, "asking")
    /\ \E p \in pool \cup {m \in DOMAIN client : ~Banned(client[m])} :
          \/ /\ run' = [run EXCEPT ![c] = [@ EXCEPT !.at = "publish", !.answer = p]]
             /\ pool' = pool \cup {p} /\ UNCHANGED client
          \/ /\ run' = [run EXCEPT ![c] = [@ EXCEPT !.at = "publish", !.answer = Failed]]
             /\ client' = Penalised({p}) /\ pool' = pool \ {p}
    /\ Persist(client')
    /\ holder' = NONE
    /\ UNCHANGED <<clock, writes, live, history>>

NoPeerLeft(c) ==
    /\ In(c, "asking")
    /\ pool = {} /\ \A p \in DOMAIN client : Banned(client[p])
    /\ run' = [run EXCEPT ![c] = [@ EXCEPT !.at = "publish", !.answer = Failed]]
    /\ Persist(client)
    /\ holder' = NONE
    /\ UNCHANGED <<clock, writes, client, pool, live, history>>

Followers(q) == {f \in Requests : In(f, "following") /\ run[f].query = q}

\* Whom a finished flight wakes: everyone waiting on its condition variable.
NobodyWoken(q) == {}
Woken(q) == Followers(q)

Publish(c) ==
    LET q == run[c].query  answer == run[c].answer IN
    /\ In(c, "publish")
    /\ live' = [live EXCEPT ![q] = [@ EXCEPT !.answer = answer]]
    /\ run' = [f \in Requests |->
                  IF f = c THEN [run[c] EXCEPT !.at = "remove"]
                  ELSE IF f \in Woken(q) THEN Observed(run[f], answer) ELSE run[f]]
    /\ asked' = [f \in Requests |-> IF f \in Woken(q) THEN Consumed(f, answer)[f] ELSE asked[f]]
    /\ UNCHANGED <<network, client, pool, holder, exhausted, spoiled>>

Remove(c) ==
    /\ In(c, "remove")
    /\ live' = [live EXCEPT ![run[c].query] = NONE]
    /\ run' = [run EXCEPT ![c] = Observed(@, run[c].answer)]
    /\ asked' = Consumed(c, run[c].answer)
    /\ UNCHANGED <<network, client, pool, holder, exhausted, spoiled>>

(***************************************************************************)
(* RelayDnssecRetryDelegatedResolver                                       *)
(***************************************************************************)
\* what a retry that did not validate is for the layers above
RawFailure(result) == result
RetryFailure(result) == "relayDnssec"

\* The first validation over the relay ends: finish_attempt pops its peers.
FirstEnds(c, result) ==
    LET peers == run[c].attempts[Len(run[c].attempts)]
        r == [run[c] EXCEPT !.exchanges = 0, !.offset = 0,
                              !.attempts = Popped(@), !.peers = peers] IN
    /\ run[c].offset = 0
    /\ run' = [run EXCEPT ![c] =
                   CASE result = "dnssec" /\ peers = {} -> Ended(r, "relayDnssec")
                     [] result = "dnssec" /\ peers # {} -> [r EXCEPT !.at = "report"]
                     [] OTHER -> Ended(r, result)]

RetryEnds(c, result) ==
    LET peers == run[c].attempts[Len(run[c].attempts)]
        r == [run[c] EXCEPT !.exchanges = 0, !.offset = 0,
                              !.attempts = Popped(@), !.peers = peers] IN
    /\ run[c].offset = 1
    /\ run' = [run EXCEPT ![c] =
                   CASE result = "ok" -> Ended(r, "ok")
                     [] result # "ok" /\ peers = {} -> Ended(r, RetryFailure(result))
                     [] OTHER -> [r EXCEPT !.at = "report", !.offset = 1]]

\* Validation of the answers so far ends, in any way that does not need an answer it lacks.
Validate(c) == \E result \in RelayResults :
    /\ In(c, "relay")
    /\ result = "ok" => asked[c] # {}
    /\ FirstEnds(c, result) \/ RetryEnds(c, result)
    /\ spoiled' = IF result = "dnssec" THEN spoiled \cup {c} ELSE spoiled
    /\ exhausted' = IF result = "transport" THEN exhausted \cup {<<c, run[c].root, "relay">>}
                    ELSE exhausted
    /\ asked' = IF run'[c].at = "report" THEN asked ELSE [asked EXCEPT ![c] = {}]
    /\ UNCHANGED <<network, shared>>

\* whom a failed validation is reported against
BlamedSessions(c) == pool
Blamed(c) == run[c].peers

\* report_dnssec_failure: penalise under the client's mutex, persist; then retry, or end.
Report(c) ==
    /\ In(c, "report") /\ holder = NONE
    /\ client' = Penalised(Blamed(c)) /\ pool' = pool \ Blamed(c)
    /\ Persist(client')
    /\ run' = [run EXCEPT ![c] =
                   IF run[c].offset = 0 THEN Attempt(run[c], 1)
                   ELSE Ended([run[c] EXCEPT !.offset = 0], RetryFailure("transport"))]
    /\ asked' = [asked EXCEPT ![c] = {}]
    /\ UNCHANGED <<clock, writes, holder, live, exhausted, spoiled>>

(***************************************************************************)
(* The rest of the program                                                 *)
(***************************************************************************)
\* Header sync and proof requests meet, ban, observe and drop peers, under the same lock.
SyncWrites == \E p \in Peers :
    /\ writes < MaxWrites /\ writes' = writes + 1
    /\ \/ /\ Known(store, p)
          /\ store' = [x \in DOMAIN store \ {p} |-> store[x]]
       \/ \E banned \in BOOLEAN :
             LET old == IF Known(store, p) THEN store[p] ELSE Unknown
                 new == IF banned THEN [old EXCEPT !.until = Later(@, clock + 1)]
                        ELSE [old EXCEPT !.height = Height[clock], !.at = clock]
             IN store' = [x \in DOMAIN store \cup {p} |-> IF x = p THEN new ELSE store[x]]
    /\ UNCHANGED <<clock, shared, run, history>>

Tick ==
    /\ clock < Len(Height) /\ clock' = clock + 1
    /\ UNCHANGED <<store, writes, shared, run, history>>

\* The peers an earlier run of the program left.
Init ==
    /\ clock = 1 /\ writes = 0
    /\ store = [p \in Seeds |-> [until |-> 0, height |-> Height[1], at |-> 1]]
    /\ client = NONE /\ pool = {} /\ holder = NONE
    /\ live = [q \in Queries |-> NONE]
    /\ run = [c \in Requests |-> Fresh]
    /\ asked = [c \in Requests |-> {}] /\ exhausted = {} /\ spoiled = {}

Step(c) ==
    \/ Open(c) \/ Lookup(c) \/ Close(c)
    \/ Ask(c) \/ Unusable(c) \/ Refresh(c) \/ Resolve(c) \/ NoPeerLeft(c)
    \/ Publish(c) \/ Remove(c) \/ Validate(c) \/ Report(c)

Terminated == (\A c \in Requests : In(c, "done")) /\ UNCHANGED vars

Next == SyncWrites \/ Tick \/ Terminated \/ \E c \in Requests : Step(c)

Spec == Init /\ [][Next]_vars

(***************************************************************************)
(* Properties                                                              *)
(***************************************************************************)
\* Types; no more than one leader has a flight on a query, and only a leader holds the
\* client over a step.
TypeOK ==
    /\ clock \in Times /\ writes \in 0..MaxWrites
    /\ store \in Managers /\ client \in Managers \cup {NONE} /\ pool \subseteq Peers
    /\ holder \in Requests \cup {NONE}
    /\ holder # NONE => In(holder, "asking")
    /\ \A c \in Requests :
          /\ run[c].at \in Phases /\ run[c].exchanges \in 0..MaxExchanges
          /\ run[c].attempts \in Seq(SUBSET Peers)
          /\ Len(run[c].attempts) = IF run[c].at \in {"relay", "queued", "asking", "publish",
                                                      "remove", "following"} THEN 1 ELSE 0
    /\ \A q \in Queries : live[q] # NONE =>
          Cardinality({c \in Requests : run[c].query = q /\ ~In(c, "following")}) = 1

\* The service the user configured is asked last: direct DNS and, when it is on, the
\* relay failed to transport a query for the same root in the same request.
DohComesLast == \A c \in Requests : In(c, "doh") =>
    /\ <<c, run[c].root, "direct">> \in exhausted
    /\ run[c].setting.relay => <<c, run[c].root, "relay">> \in exhausted

\* Once relay answers of a lookup failed local validation, that lookup ends there or with
\* the retry: no later error reopens the recursive DoH service.
RelayFailureNeverReachesDoh == \A c \in Requests : In(c, "doh") => c \notin spoiled

\* The recursive DoH service is asked last, and not at all in a lookup whose relay answers
\* failed the local validation: no later error of the same lookup reopens it.
DohIsTheLastResort == DohComesLast /\ RelayFailureNeverReachesDoh

\* Whatever header sync and other requests do in between, a peer is penalised for a failed
\* validation only if that validation consumed an answer of its, and then it is banned.
PenalisesDeserved ==
    \A c \in Requests : In(c, "report") /\ run'[c].at # "report" =>
    \A p \in DOMAIN client :
        /\ client'[p] # client[p] => p \in asked[c]
        /\ p \in asked[c] => Banned(client'[p])

\* The relay writes the store from a copy that may be old: it lowers no ban, and it leaves
\* no ban it just read out of its own selection.
KeepsPenalties ==
    writes' = writes => \A p \in DOMAIN store :
    /\ Known(store', p) /\ store'[p].until >= store[p].until
    /\ holder = NONE /\ holder' # NONE =>
          Known(client', p) /\ client'[p].until >= store[p].until

\* A relay peer is penalised for a failed validation only if an answer of its was consumed
\* there, and no copy of the peers, however old, lifts a ban that another path imposed.
PenaltiesAreSound == [][PenalisesDeserved /\ KeepsPenalties]_vars

\* A height in the store was observed at the time beside it: a merge never dates an older
\* height with a newer observation.
HeightsAreObserved == \A p \in DOMAIN store :
    store[p].at # 0 => store[p].height = Height[store[p].at]

\* While an exchange runs, the client has no session with a peer that was removed from the
\* store, or banned there by another path, before the exchange refreshed.
SessionsAreEligible == holder # NONE => \A p \in pool :
    Known(client, p) /\ ~Banned(client[p])

\* A follower's wait has no timeout: whoever waits on a flight finds it in the table,
\* unanswered, with a leader that still has to answer it.
FollowersHaveALeader == \A f \in Requests : In(f, "following") =>
    /\ live[run[f].query] = [answer |-> NONE]
    /\ \E c \in Requests : /\ run[c].at \in {"queued", "asking", "publish"}
                           /\ run[c].query = run[f].query

\* What the client and the store of the relay hold agrees, whoever wrote in between: heights
\* keep the time they were seen at, sessions are with peers that may be asked, and whoever
\* waits for an answer waits for somebody who will give one.
RelayStateIsSound == HeightsAreObserved /\ SessionsAreEligible /\ FollowersHaveALeader
===============================================================================
