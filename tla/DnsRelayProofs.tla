---------------------------- MODULE DnsRelayProofs ----------------------------
(***************************************************************************)
(* What DnsRelay promises of the ladder of transports, of the penalties of *)
(* relay peers and of the answers that requests share, for every number of *)
(* requests, roots, queries and peers and every history of heights, proved *)
(* with TLAPS.                                                             *)
(*                                                                         *)
(* The inductive invariant has a part for each of the four: the peers, the *)
(* flights, what a validation consumed, and the layers a root fell         *)
(* through.                                                                *)
(***************************************************************************)
EXTENDS DnsRelay, FiniteSetTheorems, SequenceTheorems, TLAPS

\* Where a request leads a flight, and where a validation over the relay runs.
Flying == {"queued", "asking", "publish", "remove"}
Working == Flying \cup {"relay", "following"}

RunState ==
    [at : Phases, setting : [relay : BOOLEAN, doh : BOOLEAN], broken : BOOLEAN,
     lookups : Nat, root : Roots \cup {NONE}, relayed : SUBSET Roots, recovered : SUBSET Roots,
     offset : {0, 1}, exchanges : 0 .. MaxExchanges, attempts : Seq(SUBSET Peers),
     peers : SUBSET Peers, query : Queries \cup {NONE}, answer : Peers \cup {Failed, NONE}]
Flight == [answer : Peers \cup {Failed, NONE}]

PeersTyped ==
    /\ clock \in Times /\ writes \in 0 .. MaxWrites
    /\ store \in Managers /\ client \in Managers \cup {NONE} /\ pool \subseteq Peers
RunsTyped ==
    /\ holder \in Requests \cup {NONE} /\ live \in [Queries -> {NONE} \cup Flight]
    /\ run \in [Requests -> RunState] /\ asked \in [Requests -> SUBSET Peers]

\* Heights keep their time in the store and in the client, and every session
\* is with a member that is not banned.
Dated(m) == \A p \in DOMAIN m : m[p].at # 0 => m[p].height = Height[m[p].at]
PeersAreSound ==
    /\ Dated(store) /\ (client # NONE => Dated(client))
    /\ \A p \in pool : client # NONE /\ Known(client, p) /\ ~Banned(client[p])

\* Before the client is there nobody was answered, and nobody will ask it.
NothingYet ==
    client = NONE =>
        /\ pool = {} /\ \A q \in Queries : live[q] # NONE => live[q].answer \notin Peers
        /\ \A c \in Requests : /\ asked[c] = {} /\ run[c].answer \notin Peers
                               /\ run[c].setting.relay => run[c].broken

\* A flight is in the table from the moment its one leader asks until that
\* leader has removed it, and it is unanswered as long as somebody waits.
Leads(c) ==
    run[c].at \in Flying =>
        /\ run[c].query \in Queries /\ run[c].exchanges < MaxExchanges
        /\ live[run[c].query] # NONE
        /\ live[run[c].query].answer = IF run[c].at = "remove" THEN run[c].answer ELSE NONE
        /\ run[c].at \in {"publish", "remove"} => run[c].answer # NONE
        /\ run[c].at = "asking" => holder = c /\ ~run[c].broken
Follows(c) ==
    run[c].at = "following" =>
        /\ run[c].query \in Queries /\ run[c].exchanges < MaxExchanges
        /\ live[run[c].query] = [answer |-> NONE]
Flights ==
    /\ \A c \in Requests : Leads(c) /\ Follows(c)
    /\ \A c \in Requests : run[c].at \notin Flying \cup {"following"} => run[c].query = NONE
    /\ \A c, d \in Requests :
          run[c].at \in Flying /\ run[d].at \in Flying /\ run[c].query = run[d].query => c = d
    /\ \A q \in Queries :
          live[q] # NONE => \E c \in Requests : run[c].at \in Flying /\ run[c].query = q
    /\ holder # NONE => run[holder].at = "asking"

\* The stack of a request's tracker holds the peers whose answers the running
\* validation consumed, and a report is against those.
Tracked(c) ==
    /\ run[c].attempts = IF run[c].at \in Working THEN <<asked[c]>> ELSE <<>>
    /\ run[c].at = "report" => run[c].peers = asked[c] /\ asked[c] # {}
    /\ run[c].at \notin Working \cup {"report"} => asked[c] = {}

\* A root is remembered at a layer only after the layers above it failed, and
\* a validation that failed is behind a request only on its retry.
Climbed(c) ==
    /\ run[c].at = "new" => run[c] = Fresh
    /\ run[c].at \in Working \cup {"report"} => run[c].setting.relay /\ run[c].root \in run[c].relayed
    /\ run[c].at = "doh" => run[c].root \in run[c].recovered /\ c \notin spoiled
    /\ run[c].at \in Working /\ run[c].offset = 0 => c \notin spoiled
    /\ \A root \in run[c].relayed : run[c].setting.relay /\ <<c, root, "direct">> \in exhausted
    /\ \A root \in run[c].recovered :
          /\ <<c, root, "direct">> \in exhausted
          /\ run[c].setting.relay => <<c, root, "relay">> \in exhausted

IInv ==
    /\ PeersTyped /\ RunsTyped /\ PeersAreSound /\ NothingYet /\ Flights
    /\ \A c \in Requests : Tracked(c) /\ Climbed(c)

-----------------------------------------------------------------------------
(* Peers.                                                                  *)

LEMMA ClockIsNat ==
    /\ \A t \in Times : t \in Nat /\ t + 1 \in 0 .. Len(Height) + 1 /\ Height[t] \in Heights
    /\ 0 \in Heights /\ \A s \in PeerState : s.until \in Nat /\ s.at \in Nat
    /\ \A a, b \in 0 .. Len(Height) + 1 :
          Later(a, b) \in 0 .. Len(Height) + 1 /\ Later(a, b) >= a /\ Later(a, b) >= b /\ Later(a, b) \in {a, b}
<1>1. Len(Height) \in Nat
  BY HeightIsAHistory
<1> QED BY <1>1 DEF Times, Heights, PeerState, Later

\* Managers are the functions from peers to their state.
LEMMA ManagerIs ==
    /\ \A m \in Managers : DOMAIN m \subseteq Peers /\ \A p \in DOMAIN m : m[p] \in PeerState
    /\ \A ps \in SUBSET Peers : \A m \in [ps -> PeerState] : m \in Managers
BY DEF Managers

\* A merge takes height and time from one of the two, and the longer ban.
LEMMA MergeIs ==
    ASSUME NEW s \in PeerState, NEW r \in PeerState
    PROVE  /\ Merge(s, r) \in PeerState
           /\ Merge(s, r).until >= s.until /\ Merge(s, r).until >= r.until
           /\ Merge(s, r).until \in {s.until, r.until}
           /\ \/ Merge(s, r).at = s.at /\ Merge(s, r).height = s.height
              \/ Merge(s, r).at = r.at /\ Merge(s, r).height = r.height
<1> DEFINE o == Observation(s, r)
           u == Later(s.until, r.until)
<1>1. o \in PeerState /\ o \in {s, r}
  BY DEF Observation
<1>2. s.until \in 0 .. Len(Height) + 1 /\ r.until \in 0 .. Len(Height) + 1
  BY DEF PeerState
<1>3. u \in 0 .. Len(Height) + 1 /\ u >= s.until /\ u >= r.until /\ u \in {s.until, r.until}
  BY <1>2, ClockIsNat
<1>4. Merge(s, r) = [o EXCEPT !.until = u]
  BY DEF Merge
<1> HIDE DEF o, u
<1> QED BY <1>1, <1>3, <1>4 DEF PeerState

\* What the four ways of writing peers keep: the type, the times, the bans.
LEMMA RefreshedIs ==
    ASSUME store \in Managers, client \in Managers, Dated(store), Dated(client)
    PROVE  /\ Refreshed \in Managers /\ Dated(Refreshed) /\ DOMAIN Refreshed = DOMAIN store
           /\ \A p \in DOMAIN store : Refreshed[p].until >= store[p].until
<1>1. DOMAIN Refreshed = DOMAIN store /\ DOMAIN store \subseteq Peers
  BY ManagerIs DEF Refreshed
<1>2. ASSUME NEW p \in DOMAIN store
      PROVE  /\ Refreshed[p] \in PeerState /\ Refreshed[p].until >= store[p].until
             /\ Refreshed[p].at # 0 => Refreshed[p].height = Height[Refreshed[p].at]
  <2>1. store[p] \in PeerState /\ store[p].until \in Nat
    BY ManagerIs, ClockIsNat
  <2>2. CASE Known(client, p)
    <3>1. client[p] \in PeerState
      BY <2>2, ManagerIs DEF Known
    <3>2. Refreshed[p] = Merge(store[p], client[p])
      BY <2>2 DEF Refreshed
    <3> QED BY <2>1, <2>2, <3>1, <3>2, MergeIs DEF Dated, Known
  <2>3. CASE ~Known(client, p)
    BY <2>1, <2>3 DEF Refreshed, Dated
  <2> QED BY <2>2, <2>3
<1>3. Refreshed \in [DOMAIN store -> PeerState]
  BY <1>1, <1>2 DEF Refreshed
<1> QED BY <1>1, <1>2, <1>3, ManagerIs DEF Dated

LEMMA PersistedIs ==
    ASSUME store \in Managers, Dated(store), NEW m \in Managers, Dated(m)
    PROVE  /\ Persisted(m) \in Managers /\ Dated(Persisted(m))
           /\ \A p \in DOMAIN store : Known(Persisted(m), p) /\ Persisted(m)[p].until >= store[p].until
<1>1. DOMAIN Persisted(m) = DOMAIN store \cup DOMAIN m /\ DOMAIN store \cup DOMAIN m \subseteq Peers
  BY ManagerIs DEF Persisted
<1>2. ASSUME NEW p \in DOMAIN store \cup DOMAIN m
      PROVE  /\ Persisted(m)[p] \in PeerState
             /\ p \in DOMAIN store => Persisted(m)[p].until >= store[p].until
             /\ Persisted(m)[p].at # 0 => Persisted(m)[p].height = Height[Persisted(m)[p].at]
  <2>1. /\ p \in DOMAIN store => store[p] \in PeerState /\ store[p].until \in Nat
        /\ p \in DOMAIN m => m[p] \in PeerState
    BY ManagerIs, ClockIsNat
  <2>2. Persisted(m)[p] = IF ~Known(m, p) THEN store[p]
                          ELSE IF Known(store, p) THEN Merge(store[p], m[p]) ELSE m[p]
    BY DEF Persisted
  <2>3. CASE p \in DOMAIN store /\ p \in DOMAIN m
    BY <2>1, <2>2, <2>3, MergeIs DEF Known, Dated
  <2>4. CASE ~(p \in DOMAIN store /\ p \in DOMAIN m)
    BY <2>1, <2>2, <2>4 DEF Known, Dated
  <2> QED BY <2>3, <2>4
<1>3. Persisted(m) \in [DOMAIN store \cup DOMAIN m -> PeerState]
  BY <1>1, <1>2 DEF Persisted
<1> QED BY <1>1, <1>2, <1>3, ManagerIs DEF Dated, Known

LEMMA PenalisedIs ==
    ASSUME client \in Managers, Dated(client), clock \in Times, NEW ps
    PROVE  /\ Penalised(ps) \in Managers /\ Dated(Penalised(ps)) /\ DOMAIN Penalised(ps) = DOMAIN client
           /\ \A p \in DOMAIN client : /\ p \notin ps => Penalised(ps)[p] = client[p]
                                       /\ p \in ps => Penalised(ps)[p].until > clock
<1>1. DOMAIN Penalised(ps) = DOMAIN client /\ DOMAIN client \subseteq Peers
  BY ManagerIs DEF Penalised
<1>2. ASSUME NEW p \in DOMAIN client
      PROVE  /\ Penalised(ps)[p] \in PeerState
             /\ p \notin ps => Penalised(ps)[p] = client[p]
             /\ p \in ps => Penalised(ps)[p].until > clock
             /\ Penalised(ps)[p].at # 0 => Penalised(ps)[p].height = Height[Penalised(ps)[p].at]
  <2> DEFINE u == Later(client[p].until, clock + 1)
  <2>1. client[p] \in PeerState /\ client[p].until \in 0 .. Len(Height) + 1
    BY ManagerIs DEF PeerState
  <2>2. clock \in Nat /\ clock + 1 \in 0 .. Len(Height) + 1
    BY ClockIsNat
  <2>3. u \in 0 .. Len(Height) + 1 /\ u >= clock + 1
    BY <2>1, <2>2, ClockIsNat
  <2>4. Penalised(ps)[p] = IF p \in ps THEN [client[p] EXCEPT !.until = u] ELSE client[p]
    BY DEF Penalised
  <2> HIDE DEF u
  <2>5. CASE p \in ps
    BY <2>1, <2>2, <2>3, <2>4, <2>5 DEF PeerState, Dated
  <2>6. CASE p \notin ps
    BY <2>1, <2>4, <2>6 DEF Dated
  <2> QED BY <2>5, <2>6
<1>3. Penalised(ps) \in [DOMAIN client -> PeerState]
  BY <1>1, <1>2 DEF Penalised
<1> QED BY <1>1, <1>2, <1>3, ManagerIs DEF Dated

LEMMA SeededIs ==
    ASSUME store \in Managers, Dated(store)
    PROVE  /\ Seeded \in Managers /\ Dated(Seeded)
           /\ \A p \in DOMAIN store : Known(Seeded, p) /\ Seeded[p] = store[p]
<1>1. CASE store = NoPeers
  <2>1. Seeded = [p \in Seeds |-> Unknown] /\ DOMAIN store = {}
    BY <1>1 DEF Seeded, NoPeers
  <2>2. Unknown \in PeerState
    BY ClockIsNat, HeightIsAHistory DEF Unknown, PeerState
  <2>3. Seeded \in [Seeds -> PeerState]
    BY <2>1, <2>2
  <2> QED BY <2>1, <2>3, ManagerIs, SeedsArePeers DEF Dated, Unknown
<1>2. CASE store # NoPeers
  BY <1>2 DEF Seeded, Known
<1> QED BY <1>1, <1>2

-----------------------------------------------------------------------------
(* A request's record: what each way of leaving a layer makes of it.       *)

LEMMA ObservedIs ==
    ASSUME NEW r \in RunState, NEW a \in Peers \cup {Failed, NONE}, NEW s \in SUBSET Peers,
           r.attempts = <<s>>, r.exchanges < MaxExchanges
    PROVE  /\ Observed(r, a) \in RunState
           /\ Observed(r, a).at = "relay"
           /\ a \in Peers => Observed(r, a).attempts = <<s \cup {a}>>
           /\ a \notin Peers => Observed(r, a).attempts = r.attempts
           /\ Observed(r, a).query = NONE /\ Observed(r, a).answer = NONE
           /\ Observed(r, a).setting = r.setting /\ Observed(r, a).broken = r.broken
           /\ Observed(r, a).root = r.root /\ Observed(r, a).offset = r.offset
           /\ Observed(r, a).relayed = r.relayed /\ Observed(r, a).recovered = r.recovered
<1> DEFINE t == Noted(r.attempts, a)
<1>1. t = <<IF a \in Peers THEN s \cup {a} ELSE s>> /\ t \in Seq(SUBSET Peers)
  <2>1. Len(<<s>>) = 1 /\ <<s>>[1] = s
    OBVIOUS
  <2>2. CASE a \in Peers
    <3>1. t = [<<s>> EXCEPT ![1] = @ \cup {a}]
      BY <2>1, <2>2 DEF Noted
    <3>2. t = <<s \cup {a}>>
      BY <3>1
    <3>3. s \cup {a} \in SUBSET Peers
      BY <2>2
    <3>4. <<s \cup {a}>> \in Seq(SUBSET Peers)
      BY <3>3
    <3> QED BY <2>2, <3>2, <3>4
  <2>3. CASE a \notin Peers
    BY <2>3 DEF Noted
  <2> QED BY <2>2, <2>3
<1>2. r.exchanges + 1 \in 0 .. MaxExchanges /\ "relay" \in Phases
  BY BoundsAreNatural DEF RunState, Phases
<1>3. Observed(r, a) = [r EXCEPT !.at = "relay", !.query = NONE, !.answer = NONE,
                                 !.exchanges = r.exchanges + 1, !.attempts = t]
  BY DEF Observed
<1> HIDE DEF t
<1> QED BY <1>1, <1>2, <1>3 DEF RunState

LEMMA EndedIs ==
    ASSUME NEW r \in RunState, r.root \in Roots, NEW e
    PROVE  /\ Ended(r, e) \in RunState
           /\ Ended(r, e).at = IF e = "transport" /\ r.setting.doh THEN "doh" ELSE "between"
           /\ Ended(r, e).recovered = IF e = "transport" /\ r.setting.doh
                                      THEN r.recovered \cup {r.root} ELSE r.recovered
           /\ Ended(r, e).peers = {} /\ Ended(r, e).attempts = r.attempts
           /\ Ended(r, e).query = r.query /\ Ended(r, e).answer = r.answer
           /\ Ended(r, e).setting = r.setting /\ Ended(r, e).broken = r.broken
           /\ Ended(r, e).root = r.root /\ Ended(r, e).offset = r.offset
           /\ Ended(r, e).relayed = r.relayed
<1>1. "doh" \in Phases /\ "between" \in Phases /\ {} \in SUBSET Peers
  BY DEF Phases
<1>2. r.recovered \cup {r.root} \in SUBSET Roots
  BY DEF RunState
<1> QED BY <1>1, <1>2 DEF Ended, Remember, RunState

LEMMA AttemptIs ==
    ASSUME NEW r \in RunState, NEW o \in {0, 1}, r.attempts = <<>>
    PROVE  /\ Attempt(r, o) \in RunState
           /\ Attempt(r, o).at = "relay" /\ Attempt(r, o).attempts = <<{}>>
           /\ Attempt(r, o).query = r.query /\ Attempt(r, o).answer = r.answer
           /\ Attempt(r, o).setting = r.setting /\ Attempt(r, o).broken = r.broken
           /\ Attempt(r, o).root = r.root /\ Attempt(r, o).offset = o
           /\ Attempt(r, o).relayed = r.relayed /\ Attempt(r, o).recovered = r.recovered
<1> DEFINE t == Append(r.attempts, {})
<1>1. t = <<{}>> /\ t \in Seq(SUBSET Peers)
  <2>1. {} \in SUBSET Peers
    OBVIOUS
  <2> QED BY <2>1
<1>2. 0 \in 0 .. MaxExchanges /\ "relay" \in Phases
  BY BoundsAreNatural DEF Phases
<1>3. Attempt(r, o) = [r EXCEPT !.at = "relay", !.offset = o, !.exchanges = 0, !.attempts = t]
  BY DEF Attempt, Begun
<1> HIDE DEF t
<1> QED BY <1>1, <1>2, <1>3 DEF RunState

\* What a lookup makes of a request that had no validation running.
LEMMA LookedUpIs ==
    ASSUME NEW r \in RunState, NEW root \in Roots, NEW result \in DirectResults,
           r.root = root, r.attempts = <<>>,
           NEW n, root \in r.recovered => n = [r EXCEPT !.at = "doh"],
           root \notin r.recovered /\ root \notin r.relayed => n = AfterDirect(r, result),
           root \notin r.recovered /\ root \in r.relayed => n = Attempt(r, 0)
    PROVE  /\ n \in RunState /\ n.at \in {"relay", "between", "doh"}
           /\ n.attempts = IF n.at = "relay" THEN <<{}>> ELSE <<>>
           /\ n.query = r.query /\ n.answer = r.answer
           /\ n.setting = r.setting /\ n.broken = r.broken /\ n.root = root
           /\ n.at = "relay" => /\ root \in n.relayed /\ n.recovered = r.recovered
                                /\ root \in r.relayed \/ n.setting.relay
           /\ n.at = "doh" => root \in n.recovered
           /\ \A x \in n.relayed : \/ x \in r.relayed
                                   \/ x = root /\ result = "transport" /\ n.setting.relay
           /\ \A x \in n.recovered : \/ x \in r.recovered
                                     \/ x = root /\ result = "transport" /\ ~n.setting.relay
<1>1. CASE root \in r.recovered
  <2>1. n = [r EXCEPT !.at = "doh"] /\ "doh" \in Phases
    BY <1>1 DEF Phases
  <2> QED BY <1>1, <2>1 DEF RunState
<1>2. CASE root \notin r.recovered /\ root \notin r.relayed
  <2>1. n = AfterDirect(r, result)
    BY <1>2
  <2>2. CASE result = "transport" /\ r.setting.relay
    <3> DEFINE m == [r EXCEPT !.relayed = r.relayed \cup {root}]
    <3>1. m \in RunState /\ m.attempts = <<>> /\ m.relayed = r.relayed \cup {root}
      BY DEF RunState
    <3>2. /\ m.query = r.query /\ m.answer = r.answer /\ m.setting = r.setting /\ m.broken = r.broken
          /\ m.root = root /\ m.recovered = r.recovered
      BY DEF RunState
    <3>3. n = Attempt(m, 0)
      BY <2>1, <2>2 DEF AfterDirect, Remember
    <3> HIDE DEF m
    <3>4. 0 \in {0, 1}
      OBVIOUS
    <3>5. /\ n \in RunState /\ n.at = "relay" /\ n.attempts = <<{}>>
          /\ n.query = m.query /\ n.answer = m.answer /\ n.setting = m.setting
          /\ n.broken = m.broken /\ n.root = m.root
          /\ n.relayed = m.relayed /\ n.recovered = m.recovered
      BY <3>1, <3>3, <3>4, AttemptIs
    <3> QED BY <2>2, <3>1, <3>2, <3>5
  <2>3. CASE ~(result = "transport" /\ r.setting.relay)
    <3>1. n = Ended(r, result)
      BY <2>1, <2>3 DEF AfterDirect
    <3>2. /\ n \in RunState /\ n.attempts = r.attempts /\ n.query = r.query /\ n.answer = r.answer
          /\ n.at = IF result = "transport" /\ r.setting.doh THEN "doh" ELSE "between"
          /\ n.recovered = IF result = "transport" /\ r.setting.doh
                           THEN r.recovered \cup {root} ELSE r.recovered
          /\ n.setting = r.setting /\ n.broken = r.broken /\ n.root = root /\ n.relayed = r.relayed
      BY ONLY r \in RunState, r.root = root, root \in Roots, <3>1, EndedIs
    <3> QED BY <2>3, <3>2
  <2> QED BY <2>2, <2>3
<1>3. CASE root \notin r.recovered /\ root \in r.relayed
  <2>1. n = Attempt(r, 0) /\ 0 \in {0, 1}
    BY <1>3
  <2>2. /\ n \in RunState /\ n.at = "relay" /\ n.attempts = <<{}>>
        /\ n.query = r.query /\ n.answer = r.answer /\ n.setting = r.setting
        /\ n.broken = r.broken /\ n.root = r.root
        /\ n.relayed = r.relayed /\ n.recovered = r.recovered
    BY ONLY r \in RunState, r.attempts = <<>>, <2>1, AttemptIs
  <2> QED BY <1>3, <2>2
<1> QED BY <1>1, <1>2, <1>3

-----------------------------------------------------------------------------
(* The store, the client's peers and its sessions.                         *)

LEMMA PersistIs ==
    ASSUME store \in Managers, Dated(store), NEW m \in Managers, Dated(m), Persist(m)
    PROVE  /\ store' \in Managers /\ Dated(store')
           /\ \A p \in DOMAIN store : Known(store', p) /\ store'[p].until >= store[p].until
<1>1. CASE store' = Persisted(m)
  BY <1>1, PersistedIs
<1>2. CASE store' = store
  <2>1. \A p \in DOMAIN store : store[p].until \in Nat
    BY ManagerIs, ClockIsNat
  <2>2. Dated(store')
    BY <1>2 DEF Dated
  <2> QED BY <1>2, <2>1, <2>2 DEF Known
<1> QED BY <1>1, <1>2 DEF Persist

\* Whoever asks the client, or reports to it, finds it initialised.
LEMMA ClientIsThere ==
    ASSUME IInv, NEW c \in Requests,
           \/ run[c].at = "queued" /\ ~run[c].broken
           \/ run[c].at \in {"asking", "report"}
    PROVE  client \in Managers /\ Dated(client)
<1>1. client # NONE
  <2>1. CASE run[c].at \in {"queued", "asking"}
    <3>1. run[c].setting.relay
      BY <2>1 DEF IInv, Climbed, Working, Flying
    <3>2. ~run[c].broken
      BY <2>1 DEF IInv, Flights, Leads, Flying
    <3> QED BY <3>1, <3>2 DEF IInv, NothingYet
  <2>2. CASE run[c].at = "report"
    BY <2>2 DEF IInv, NothingYet, Tracked
  <2> QED BY <2>1, <2>2
<1> QED BY <1>1 DEF IInv, PeersTyped, PeersAreSound

LEMMA WritesAreDated ==
    ASSUME store \in Managers, Dated(store), clock \in Times, SyncWrites
    PROVE  store' \in Managers /\ Dated(store')
<1> DEFINE Old(p) == IF Known(store, p) THEN store[p] ELSE Unknown
           New(p, banned) == IF banned THEN [Old(p) EXCEPT !.until = Later(@, clock + 1)]
                             ELSE [Old(p) EXCEPT !.height = Height[clock], !.at = clock]
<1> PICK p \in Peers :
        \/ store' = [x \in DOMAIN store \ {p} |-> store[x]]
        \/ \E banned \in BOOLEAN :
              store' = [x \in DOMAIN store \cup {p} |-> IF x = p THEN New(p, banned) ELSE store[x]]
  BY DEF SyncWrites
<1>1. DOMAIN store \subseteq Peers /\ \A x \in DOMAIN store : store[x] \in PeerState
  BY ManagerIs
<1>2. CASE store' = [x \in DOMAIN store \ {p} |-> store[x]]
  <2>1. store' \in [DOMAIN store \ {p} -> PeerState]
    BY <1>1, <1>2
  <2>2. store' \in Managers
    BY <1>1, <2>1, ManagerIs
  <2> QED BY <1>2, <2>2 DEF Dated
<1>3. ASSUME NEW banned \in BOOLEAN,
             store' = [x \in DOMAIN store \cup {p} |-> IF x = p THEN New(p, banned) ELSE store[x]]
      PROVE  store' \in Managers /\ Dated(store')
  <2> DEFINE old == Old(p)  new == New(p, banned)
  <2>1. Unknown \in PeerState
    BY ClockIsNat, HeightIsAHistory DEF Unknown, PeerState
  <2>2. old \in PeerState /\ (old.at # 0 => old.height = Height[old.at])
    BY <1>1, <2>1 DEF Known, Dated, Unknown
  <2>3. new \in PeerState /\ (new.at # 0 => new.height = Height[new.at])
    <3>1. clock \in Nat /\ clock + 1 \in 0 .. Len(Height) + 1 /\ Height[clock] \in Heights
      BY ClockIsNat
    <3>2. CASE banned
      <4> DEFINE u == Later(old.until, clock + 1)
      <4>1. u \in 0 .. Len(Height) + 1
        BY <2>2, <3>1, ClockIsNat DEF PeerState
      <4>2. new = [old EXCEPT !.until = u]
        BY <3>2
      <4> HIDE DEF u
      <4> QED BY <2>2, <4>1, <4>2 DEF PeerState
    <3>3. CASE ~banned
      <4>1. new = [old EXCEPT !.height = Height[clock], !.at = clock]
        BY <3>3
      <4> QED BY <2>2, <3>1, <4>1 DEF PeerState
    <3> QED BY <3>2, <3>3
  <2> HIDE DEF Old, New
  <2>4. store' \in [DOMAIN store \cup {p} -> PeerState]
    BY <1>1, <1>3, <2>3
  <2>5. store' \in Managers
    BY <1>1, <2>4, ManagerIs
  <2> QED BY <1>1, <1>3, <2>3, <2>5 DEF Dated
<1> QED BY <1>2, <1>3

LEMMA PeersStep ==
    ASSUME IInv, [Next]_vars
    PROVE  PeersTyped' /\ PeersAreSound'
<1>1. PeersTyped /\ PeersAreSound /\ RunsTyped
  BY DEF IInv
<1>2. clock \in Nat /\ \A p \in DOMAIN store : store[p] \in PeerState
  BY <1>1, ManagerIs, ClockIsNat DEF PeersTyped
<1>3. CASE SyncWrites
  <2>1. store' \in Managers /\ Dated(store')
    BY <1>1, <1>3, WritesAreDated DEF PeersTyped, PeersAreSound
  <2>2. writes' \in 0 .. MaxWrites
    BY <1>1, <1>3, BoundsAreNatural DEF PeersTyped, SyncWrites
  <2>3. clock' = clock /\ client' = client /\ pool' = pool
    BY <1>3 DEF SyncWrites, shared
  <2> QED BY <1>1, <2>1, <2>2, <2>3 DEF PeersTyped, PeersAreSound, Banned, Dated
<1>4. CASE Tick
  <2>1. clock' = clock + 1 /\ clock' \in Times
    BY <1>1, <1>2, <1>4, HeightIsAHistory DEF PeersTyped, Tick, Times
  <2>2. store' = store /\ writes' = writes /\ client' = client /\ pool' = pool
    BY <1>4 DEF Tick, shared
  <2>3. ASSUME NEW p \in pool
        PROVE  client # NONE /\ Known(client, p) /\ ~(client[p].until > clock')
    <3>1. client # NONE /\ Known(client, p) /\ ~(client[p].until > clock)
      BY <1>1 DEF PeersAreSound, Banned
    <3>2. client[p].until \in Nat
      BY <1>1, <3>1, ManagerIs, ClockIsNat DEF PeersTyped, Known
    <3> QED BY <1>2, <2>1, <3>1, <3>2
  <2> QED BY <1>1, <2>1, <2>2, <2>3 DEF PeersTyped, PeersAreSound, Banned, Dated
<1>5. ASSUME UNCHANGED <<clock, store, writes, client, pool>>
      PROVE  PeersTyped' /\ PeersAreSound'
  BY <1>1, <1>5 DEF PeersTyped, PeersAreSound, Banned, Dated
<1>6. ASSUME NEW c \in Requests, Step(c)
      PROVE  PeersTyped' /\ PeersAreSound'
  <2>1. CASE Open(c)
    <3>1. clock' = clock /\ writes' = writes /\ pool' = pool
      BY <2>1 DEF Open
    <3>2. CASE store' = store /\ client' = client
      BY <1>5, <3>1, <3>2
    <3>3. CASE client = NONE /\ store' = Seeded /\ client' = Seeded
      <4>1. Seeded \in Managers /\ Dated(Seeded) /\ pool = {}
        BY <1>1, <3>3, SeededIs DEF PeersTyped, PeersAreSound, IInv, NothingYet
      <4> QED BY <1>1, <3>1, <3>3, <4>1 DEF PeersTyped, PeersAreSound, Dated
    <3> QED BY <2>1, <3>2, <3>3 DEF Open
  <2>2. CASE Lookup(c) \/ Close(c) \/ Ask(c) \/ Unusable(c) \/ Publish(c) \/ Remove(c) \/ Validate(c)
    <3>1. UNCHANGED <<clock, store, writes, client, pool>>
      BY <2>2 DEF Lookup, Close, Ask, Unusable, Publish, Remove, Validate, network, shared
    <3> QED BY <1>5, <3>1
  <2>3. CASE Refresh(c)
    <3>1. UNCHANGED <<clock, store, writes>> /\ run[c].at = "queued" /\ ~run[c].broken
      BY <2>3 DEF Refresh, network, In
    <3>2. CASE client' = client /\ pool' = pool
      BY <1>5, <3>1, <3>2
    <3>3. CASE client' = Refreshed /\ pool' = SessionsAfter(Refreshed)
      <4>1. client \in Managers /\ Dated(client)
        BY <3>1, ClientIsThere
      <4>2. Refreshed \in Managers /\ Dated(Refreshed)
        BY <1>1, <4>1, RefreshedIs DEF PeersTyped, PeersAreSound
      <4>3. ASSUME NEW p \in SessionsAfter(Refreshed)
            PROVE  p \in pool /\ Known(Refreshed, p) /\ ~Banned(Refreshed[p])
        <5>1. p \in pool /\ ~\E x \in DOMAIN client :
                                  \/ ~Known(Refreshed, x)
                                  \/ Banned(Refreshed[x]) /\ ~Banned(client[x])
          BY DEF SessionsAfter
        <5>2. Known(client, p) /\ ~Banned(client[p])
          BY <1>1, <5>1 DEF PeersAreSound
        <5> QED BY <5>1, <5>2 DEF Known
      <4>4. Refreshed # NONE
        BY <4>2, NoneIsNoManager
      <4> QED BY <1>1, <3>1, <3>3, <4>2, <4>3, <4>4 DEF PeersTyped, PeersAreSound, Banned, Dated
    <3> QED BY <2>3, <3>2, <3>3 DEF Refresh
  <2>4. ASSUME clock' = clock, writes' = writes, client \in Managers, Dated(client), Persist(client'),
               NEW ps, client' = client \/ client' = Penalised(ps),
               \A p \in pool' : Known(client', p) /\ ~Banned(client'[p])
        PROVE  PeersTyped' /\ PeersAreSound'
    <3>1. client' \in Managers /\ Dated(client')
      <4>1. CASE client' = client
        BY <2>4, <4>1
      <4>2. CASE client' = Penalised(ps)
        BY <1>1, <2>4, <4>2, PenalisedIs DEF PeersTyped
      <4> QED BY <2>4, <4>1, <4>2
    <3>2. store' \in Managers /\ Dated(store')
      BY <1>1, <2>4, <3>1, PersistIs DEF PeersTyped, PeersAreSound
    <3>3. pool' \subseteq Peers /\ client' # NONE
      BY <2>4, <3>1, ManagerIs, NoneIsNoManager DEF Known
    <3> QED BY <1>1, <2>4, <3>1, <3>2, <3>3 DEF PeersTyped, PeersAreSound, Banned, Dated
  <2>5. CASE Resolve(c)
    <3>1. clock' = clock /\ writes' = writes /\ run[c].at = "asking" /\ Persist(client')
      BY <2>5 DEF Resolve, In
    <3>2. client \in Managers /\ Dated(client)
      BY <3>1, ClientIsThere
    <3>3. PICK p \in pool \cup {m \in DOMAIN client : ~Banned(client[m])} :
              \/ pool' = pool \cup {p} /\ client' = client
              \/ client' = Penalised({p}) /\ pool' = pool \ {p}
      BY <2>5 DEF Resolve
    <3>4. Known(client, p) /\ ~Banned(client[p])
      BY <1>1, <3>3 DEF PeersAreSound, Known
    <3>5. \A x \in pool' : Known(client', x) /\ ~Banned(client'[x])
      <4>1. CASE pool' = pool \cup {p} /\ client' = client
        BY <1>1, <3>4, <4>1 DEF PeersAreSound
      <4>2. CASE client' = Penalised({p}) /\ pool' = pool \ {p}
        BY <1>1, <3>2, <4>2, PenalisedIs DEF PeersTyped, PeersAreSound, Known
      <4> QED BY <3>3, <4>1, <4>2
    <3> QED BY <2>4, <3>1, <3>2, <3>3, <3>5
  <2>6. CASE NoPeerLeft(c)
    <3>1. clock' = clock /\ writes' = writes /\ client' = client /\ pool' = pool
      BY <2>6 DEF NoPeerLeft
    <3>2. run[c].at = "asking" /\ Persist(client)
      BY <2>6 DEF NoPeerLeft, In
    <3>3. client \in Managers /\ Dated(client)
      BY <3>2, ClientIsThere
    <3>4. Persist(client')
      BY <3>1, <3>2
    <3>5. \A p \in pool' : Known(client', p) /\ ~Banned(client'[p])
      BY <1>1, <3>1 DEF PeersAreSound
    <3> QED BY <2>4, <3>1, <3>3, <3>4, <3>5
  <2>7. CASE Report(c)
    <3>1. clock' = clock /\ writes' = writes /\ run[c].at = "report" /\ Persist(client')
      BY <2>7 DEF Report, In
    <3>2. client \in Managers /\ Dated(client)
      BY <3>1, ClientIsThere
    <3>3. client' = Penalised(Blamed(c)) /\ pool' = pool \ Blamed(c)
      BY <2>7 DEF Report
    <3>4. \A p \in pool' : Known(client', p) /\ ~Banned(client'[p])
      BY <1>1, <3>2, <3>3, PenalisedIs DEF PeersTyped, PeersAreSound, Known
    <3> QED BY <2>4, <3>1, <3>2, <3>3, <3>4
  <2> QED BY <1>6, <2>1, <2>2, <2>3, <2>5, <2>6, <2>7 DEF Step
<1>7. CASE UNCHANGED vars \/ Terminated
  <2>1. UNCHANGED <<clock, store, writes, client, pool>>
    BY <1>7 DEF vars, Terminated
  <2> QED BY <1>5, <2>1
<1> QED BY <1>3, <1>4, <1>6, <1>7 DEF Next

-----------------------------------------------------------------------------
(* The requests.  The lemmas of this section say what a step of a request  *)
(* keeps of the flights and of the other requests.                         *)

RequestsAreSound ==
    /\ RunsTyped /\ NothingYet /\ Flights
    /\ \A c \in Requests : Tracked(c) /\ Climbed(c)

\* A flight is a record, and nothing else is.
LEMMA FlightIs ==
    /\ \A a \in Peers \cup {Failed, NONE} : [answer |-> a] \in Flight /\ [answer |-> a] # NONE
    /\ \A f \in Flight : f # NONE /\ f = [answer |-> f.answer] /\ f.answer \in Peers \cup {Failed, NONE}
    /\ \A f, a : f \in Flight => [f EXCEPT !.answer = a] = [answer |-> a]
    /\ Failed # NONE /\ NONE \notin Peers /\ NONE \notin Requests /\ NONE \notin Queries
<1>1. Flight = [answer : Peers \cup {"failed", NONE}] /\ NONE \notin Flight
  BY NoneIsNothing DEF Flight, Failed
<1>2. \A a \in Peers \cup {Failed, NONE} : [answer |-> a] \in Flight
  BY DEF Flight
<1>3. \A f \in Flight : f = [answer |-> f.answer] /\ f.answer \in Peers \cup {Failed, NONE}
  BY DEF Flight
<1>4. \A f, a : f \in Flight => [f EXCEPT !.answer = a] = [answer |-> a]
  BY DEF Flight
<1> QED BY <1>1, <1>2, <1>3, <1>4, NoneIsNothing DEF Failed

\* A step of another request, or of none.
LEMMA OthersStay ==
    ASSUME IInv, NEW d \in Requests, run'[d] = run[d], asked'[d] = asked[d],
           \A root, layer : <<d, root, layer>> \in exhausted => <<d, root, layer>> \in exhausted',
           d \in spoiled' => d \in spoiled
    PROVE  Tracked(d)' /\ Climbed(d)'
<1>1. Tracked(d) /\ Climbed(d)
  BY DEF IInv
<1>2. Tracked(d)'
  BY <1>1 DEF Tracked
<1>3. Climbed(d)'
  BY <1>1 DEF Climbed, Fresh
<1> QED BY <1>2, <1>3

LEMMA OthersFly ==
    ASSUME IInv, NEW d \in Requests, run'[d] = run[d], holder = d => holder' = d,
           run[d].at \in Flying \cup {"following"} => live'[run[d].query] = live[run[d].query]
    PROVE  Leads(d)' /\ Follows(d)'
<1>1. Leads(d) /\ Follows(d)
  BY DEF IInv, Flights
<1> QED BY <1>1 DEF Leads, Follows, Flying

\* A request that leads no flight, before and after.
LEMMA OnTheGround ==
    ASSUME IInv, NEW c \in Requests, NEW r \in RunState, run' = [run EXCEPT ![c] = r],
           live' = live, holder' = holder, run[c].at \notin Flying, r.at \notin Flying,
           \/ r.at # "following" /\ r.query = NONE
           \/ /\ r.at = "following" /\ r.query \in Queries /\ r.exchanges < MaxExchanges
              /\ live[r.query] = [answer |-> NONE]
    PROVE  Flights' /\ run' \in [Requests -> RunState]
<1>1. run \in [Requests -> RunState] /\ Flights
  BY DEF IInv, RunsTyped
<1>2. run' \in [Requests -> RunState] /\ run'[c] = r /\ \A d \in Requests \ {c} : run'[d] = run[d]
  BY <1>1
<1>3. \A d \in Requests : Leads(d)' /\ Follows(d)'
  <2>1. ASSUME NEW d \in Requests, d # c PROVE Leads(d)' /\ Follows(d)'
    BY <1>2, <2>1, OthersFly
  <2>2. Leads(c)' /\ Follows(c)'
    BY <1>2 DEF Leads, Follows, Flying
  <2> QED BY <2>1, <2>2
<1>4. \A d \in Requests : run'[d].at \notin Flying \cup {"following"} => run'[d].query = NONE
  BY <1>1, <1>2 DEF Flights
<1>5. \A d, e \in Requests :
         run'[d].at \in Flying /\ run'[e].at \in Flying /\ run'[d].query = run'[e].query => d = e
  BY <1>1, <1>2 DEF Flights
<1>6. \A q \in Queries :
         live'[q] # NONE => \E d \in Requests : run'[d].at \in Flying /\ run'[d].query = q
  BY <1>1, <1>2 DEF Flights
<1>7. holder' # NONE => run'[holder'].at = "asking"
  <2>1. holder # NONE => run[holder].at = "asking" /\ holder \in Requests
    BY <1>1 DEF Flights, IInv, RunsTyped
  <2> QED BY <1>2, <2>1 DEF Flying
<1> QED BY <1>2, <1>3, <1>4, <1>5, <1>6, <1>7 DEF Flights

\* The leader of a flight moves on with it.
LEMMA InTheAir ==
    ASSUME IInv, NEW c \in Requests, NEW r \in RunState, run' = [run EXCEPT ![c] = r],
           live' = live, run[c].at \in {"queued", "asking"}, r.at \in {"asking", "publish"},
           r.query = run[c].query, r.exchanges = run[c].exchanges, r.broken = run[c].broken,
           r.at = "publish" => r.answer # NONE, r.at = "asking" => ~r.broken,
           holder' = IF r.at = "asking" THEN c ELSE IF run[c].at = "asking" THEN NONE ELSE holder,
           r.at = "asking" => holder = NONE
    PROVE  Flights' /\ run' \in [Requests -> RunState] /\ holder' \in Requests \cup {NONE}
<1>1. run \in [Requests -> RunState] /\ Flights /\ holder \in Requests \cup {NONE}
  BY DEF IInv, RunsTyped
<1>2. run' \in [Requests -> RunState] /\ run'[c] = r /\ \A d \in Requests \ {c} : run'[d] = run[d]
  BY <1>1
<1>3. Leads(c) /\ (holder # NONE => holder \in Requests /\ run[holder].at = "asking")
  BY <1>1 DEF Flights
<1>4. \A d \in Requests : run[d].at = "asking" => holder = d
  BY <1>1 DEF Flights, Leads, Flying
<1>5. \A d \in Requests : Leads(d)' /\ Follows(d)'
  <2>1. ASSUME NEW d \in Requests, d # c PROVE Leads(d)' /\ Follows(d)'
    <3>1. holder = d => holder' = d
      BY <1>3, <1>4, <2>1, FlightIs
    <3> QED BY <1>2, <2>1, <3>1, OthersFly
  <2>2. Leads(c)' /\ Follows(c)'
    BY <1>2, <1>3 DEF Leads, Follows, Flying
  <2> QED BY <2>1, <2>2
<1>6. \A d \in Requests : run'[d].at \notin Flying \cup {"following"} => run'[d].query = NONE
  BY <1>1, <1>2 DEF Flights, Flying
<1>7. \A d, e \in Requests :
         run'[d].at \in Flying /\ run'[e].at \in Flying /\ run'[d].query = run'[e].query => d = e
  BY <1>1, <1>2 DEF Flights, Flying
<1>8. \A q \in Queries :
         live'[q] # NONE => \E d \in Requests : run'[d].at \in Flying /\ run'[d].query = q
  BY <1>1, <1>2 DEF Flights, Flying
<1>9. holder' # NONE => run'[holder'].at = "asking"
  BY <1>2, <1>3, <1>4, FlightIs
<1> QED BY <1>1, <1>2, <1>5, <1>6, <1>7, <1>8, <1>9 DEF Flights

\* A request that takes an answer goes on with its validation.
LEMMA TakesAnAnswer ==
    ASSUME IInv, NEW c \in Requests, NEW a \in Peers \cup {Failed, NONE},
           run[c].at \in Working, run[c].exchanges < MaxExchanges,
           run'[c] = Observed(run[c], a), asked'[c] = Consumed(c, a)[c],
           exhausted' = exhausted, spoiled' = spoiled
    PROVE  /\ Observed(run[c], a) \in RunState /\ Consumed(c, a) \in [Requests -> SUBSET Peers]
           /\ \A d \in Requests : d # c \/ a \notin Peers => Consumed(c, a)[d] = asked[d]
           /\ Tracked(c)' /\ Climbed(c)'
<1>1. run[c] \in RunState /\ asked \in [Requests -> SUBSET Peers] /\ Tracked(c) /\ Climbed(c)
  BY DEF IInv, RunsTyped
<1>2. run[c].attempts = <<asked[c]>> /\ asked[c] \in SUBSET Peers
  BY <1>1 DEF Tracked
<1>3. /\ Observed(run[c], a) \in RunState
      /\ Observed(run[c], a).at = "relay"
      /\ a \in Peers => Observed(run[c], a).attempts = <<asked[c] \cup {a}>>
      /\ a \notin Peers => Observed(run[c], a).attempts = <<asked[c]>>
      /\ Observed(run[c], a).setting = run[c].setting /\ Observed(run[c], a).root = run[c].root
      /\ Observed(run[c], a).offset = run[c].offset
      /\ Observed(run[c], a).relayed = run[c].relayed
      /\ Observed(run[c], a).recovered = run[c].recovered
  <2>1. /\ run[c] \in RunState /\ a \in Peers \cup {Failed, NONE} /\ asked[c] \in SUBSET Peers
        /\ run[c].attempts = <<asked[c]>> /\ run[c].exchanges < MaxExchanges
    BY <1>1, <1>2
  <2> QED BY ONLY <2>1, ObservedIs
<1>4. /\ Consumed(c, a) \in [Requests -> SUBSET Peers]
      /\ Consumed(c, a)[c] = IF a \in Peers THEN asked[c] \cup {a} ELSE asked[c]
      /\ \A d \in Requests : d # c \/ a \notin Peers => Consumed(c, a)[d] = asked[d]
  <2>1. CASE a \in Peers
    <3>1. Consumed(c, a) = [asked EXCEPT ![c] = asked[c] \cup {a}] /\ asked[c] \cup {a} \in SUBSET Peers
      BY <1>2, <2>1 DEF Consumed
    <3> QED BY <1>1, <2>1, <3>1
  <2>2. CASE a \notin Peers
    BY <1>1, <2>2 DEF Consumed
  <2> QED BY <2>1, <2>2
<1>5. Tracked(c)'
  BY <1>3, <1>4 DEF Tracked, Working
<1>6. Climbed(c)'
  <2>1. /\ run'[c].at = "relay" /\ run'[c].setting = run[c].setting /\ run'[c].root = run[c].root
        /\ run'[c].offset = run[c].offset
        /\ run'[c].relayed = run[c].relayed /\ run'[c].recovered = run[c].recovered
    BY <1>3
  <2> QED BY <1>1, <2>1 DEF Climbed, Working
<1> QED BY <1>3, <1>4, <1>5, <1>6

\* A leader has its answer; one that held the client leaves it.
LEMMA AnswerStep ==
    ASSUME IInv, NEW c \in Requests, NEW a \in Peers \cup {Failed},
           run' = [run EXCEPT ![c] = [@ EXCEPT !.at = "publish", !.answer = a]],
           run[c].at \in {"queued", "asking"}, a = Failed \/ client # NONE,
           holder' = IF run[c].at = "asking" THEN NONE ELSE holder,
           live' = live, asked' = asked, exhausted' = exhausted, spoiled' = spoiled,
           client' = NONE => client = NONE /\ pool' = {}
    PROVE  RequestsAreSound'
<1> DEFINE r == [run[c] EXCEPT !.at = "publish", !.answer = a]
<1>1. run[c] \in RunState /\ RunsTyped /\ Tracked(c) /\ Climbed(c) /\ NothingYet
  BY DEF IInv, RunsTyped
<1>2. /\ r \in RunState /\ r.at = "publish" /\ r.query = run[c].query /\ r.answer = a
      /\ r.exchanges = run[c].exchanges /\ r.broken = run[c].broken
      /\ r.attempts = run[c].attempts /\ r.setting = run[c].setting /\ r.root = run[c].root
      /\ r.offset = run[c].offset /\ r.relayed = run[c].relayed /\ r.recovered = run[c].recovered
  <2>1. "publish" \in Phases
    BY DEF Phases
  <2> QED BY <1>1, <2>1 DEF RunState
<1>3. run' = [run EXCEPT ![c] = r]
  OBVIOUS
<1> HIDE DEF r
<1>4. run'[c] = r /\ \A d \in Requests \ {c} : run'[d] = run[d]
  BY <1>1, <1>3 DEF RunsTyped
<1>5. Flights' /\ run' \in [Requests -> RunState] /\ holder' \in Requests \cup {NONE}
  <2>1. /\ r.at \in {"asking", "publish"} /\ r.at # "asking" /\ r.answer # NONE
        /\ holder' = IF r.at = "asking" THEN c ELSE IF run[c].at = "asking" THEN NONE ELSE holder
    BY <1>2, FlightIs
  <2> QED BY <1>2, <1>3, <2>1, InTheAir
<1>6. RunsTyped'
  BY <1>1, <1>5 DEF RunsTyped
<1>7. NothingYet'
  BY <1>1, <1>2, <1>4, FailedIsNoPeer DEF NothingYet
<1>8. \A d \in Requests : Tracked(d)' /\ Climbed(d)'
  <2>1. ASSUME NEW d \in Requests, d # c PROVE Tracked(d)' /\ Climbed(d)'
    BY <1>4, <2>1, OthersStay
  <2>2. Tracked(c)'
    BY <1>1, <1>2, <1>4 DEF Tracked, Working, Flying
  <2>3. Climbed(c)'
    BY <1>1, <1>2, <1>4 DEF Climbed, Working, Flying
  <2> QED BY <2>1, <2>2, <2>3
<1> QED BY <1>5, <1>6, <1>7, <1>8 DEF RequestsAreSound

\* A leader refreshed the client and may ask it.
LEMMA AskingStep ==
    ASSUME IInv, NEW c \in Requests, run[c].at = "queued", ~run[c].broken,
           run' = [run EXCEPT ![c] = [@ EXCEPT !.at = "asking"]],
           holder = NONE, holder' = c,
           live' = live, asked' = asked, exhausted' = exhausted, spoiled' = spoiled,
           client' = NONE => client = NONE /\ pool' = {}
    PROVE  RequestsAreSound'
<1> DEFINE r == [run[c] EXCEPT !.at = "asking"]
<1>1. run[c] \in RunState /\ RunsTyped /\ Tracked(c) /\ Climbed(c) /\ NothingYet
  BY DEF IInv, RunsTyped
<1>2. /\ r \in RunState /\ r.at = "asking" /\ r.query = run[c].query /\ r.answer = run[c].answer
      /\ r.exchanges = run[c].exchanges /\ r.broken = run[c].broken
      /\ r.attempts = run[c].attempts /\ r.setting = run[c].setting /\ r.root = run[c].root
      /\ r.offset = run[c].offset /\ r.relayed = run[c].relayed /\ r.recovered = run[c].recovered
  <2>1. "asking" \in Phases
    BY DEF Phases
  <2> QED BY <1>1, <2>1 DEF RunState
<1>3. run' = [run EXCEPT ![c] = r]
  OBVIOUS
<1> HIDE DEF r
<1>4. run'[c] = r /\ \A d \in Requests \ {c} : run'[d] = run[d]
  BY <1>1, <1>3 DEF RunsTyped
<1>5. Flights' /\ run' \in [Requests -> RunState] /\ holder' \in Requests \cup {NONE}
  <2>1. /\ r.at \in {"asking", "publish"} /\ r.at # "publish" /\ ~r.broken
        /\ holder' = IF r.at = "asking" THEN c ELSE IF run[c].at = "asking" THEN NONE ELSE holder
    BY <1>2
  <2> QED BY <1>2, <1>3, <2>1, InTheAir
<1>6. RunsTyped'
  BY <1>1, <1>5 DEF RunsTyped
<1>7. NothingYet'
  BY <1>1, <1>2, <1>4 DEF NothingYet
<1>8. \A d \in Requests : Tracked(d)' /\ Climbed(d)'
  <2>1. ASSUME NEW d \in Requests, d # c PROVE Tracked(d)' /\ Climbed(d)'
    BY <1>4, <2>1, OthersStay
  <2>2. Tracked(c)'
    BY <1>1, <1>2, <1>4 DEF Tracked, Working, Flying
  <2>3. Climbed(c)'
    BY <1>1, <1>2, <1>4 DEF Climbed, Working, Flying
  <2> QED BY <2>1, <2>2, <2>3
<1> QED BY <1>5, <1>6, <1>7, <1>8 DEF RequestsAreSound

\* A request walks on the ground: what its new record has to fulfil.
LEMMA GroundStep ==
    ASSUME IInv, NEW c \in Requests, NEW r \in RunState, run' = [run EXCEPT ![c] = r],
           live' = live, holder' = holder, run[c].at \notin Flying, r.at \notin Flying,
           \/ r.at # "following" /\ r.query = NONE
           \/ /\ r.at = "following" /\ r.query \in Queries /\ r.exchanges < MaxExchanges
              /\ live[r.query] = [answer |-> NONE],
           r.answer = run[c].answer \/ r.answer = NONE,
           asked' \in [Requests -> SUBSET Peers], \A d \in Requests \ {c} : asked'[d] = asked[d],
           \A d \in Requests \ {c} : /\ d \in spoiled' => d \in spoiled
                                     /\ \A root, layer : <<d, root, layer>> \in exhausted
                                                            => <<d, root, layer>> \in exhausted',
           client' = NONE => /\ client = NONE /\ pool' = {} /\ asked'[c] = {}
                             /\ r.setting.relay => r.broken,
           Tracked(c)', Climbed(c)'
    PROVE  RequestsAreSound'
<1>1. RunsTyped /\ NothingYet
  BY DEF IInv
<1>2. run'[c] = r /\ \A d \in Requests \ {c} : run'[d] = run[d]
  BY <1>1 DEF RunsTyped
<1>3. Flights' /\ run' \in [Requests -> RunState]
  BY OnTheGround
<1>4. RunsTyped'
  BY <1>1, <1>3 DEF RunsTyped
<1>5. NothingYet'
  BY <1>1, <1>2, FlightIs DEF NothingYet
<1>6. \A d \in Requests : Tracked(d)' /\ Climbed(d)'
  <2>1. ASSUME NEW d \in Requests, d # c PROVE Tracked(d)' /\ Climbed(d)'
    BY <1>2, <2>1, OthersStay
  <2> QED BY <2>1
<1> QED BY <1>3, <1>4, <1>5, <1>6 DEF RequestsAreSound

-----------------------------------------------------------------------------
(* The actions of a request.                                               *)

LEMMA OpenStep ==
    ASSUME IInv, NEW c \in Requests, Open(c) PROVE RequestsAreSound'
<1> PICK s \in Settings, fails \in BOOLEAN :
        /\ fails => s.relay /\ client = NONE
        /\ run' = [run EXCEPT ![c] = [@ EXCEPT !.at = "between", !.setting = s, !.broken = fails]]
        /\ IF s.relay /\ client = NONE /\ ~fails THEN client' = Seeded ELSE client' = client
  BY DEF Open
<1> DEFINE r == [run[c] EXCEPT !.at = "between", !.setting = s, !.broken = fails]
<1>1. /\ run[c] = Fresh /\ run[c] \in RunState /\ RunsTyped /\ Tracked(c) /\ NothingYet
      /\ store \in Managers /\ Dated(store)
  BY DEF IInv, RunsTyped, Climbed, Open, In, PeersTyped, PeersAreSound
<1>2. /\ r \in RunState /\ r.at = "between" /\ r.query = NONE /\ r.answer = NONE /\ r.attempts = <<>>
      /\ r.relayed = {} /\ r.recovered = {} /\ r.setting = s /\ r.broken = fails
  <2>1. "between" \in Phases /\ s \in [relay : BOOLEAN, doh : BOOLEAN]
    BY SettingsAreFlags DEF Phases
  <2>2. r.query = NONE /\ r.answer = NONE /\ r.attempts = <<>> /\ r.relayed = {} /\ r.recovered = {}
    BY <1>1 DEF Fresh
  <2>3. r \in RunState /\ r.at = "between" /\ r.setting = s /\ r.broken = fails
    BY <1>1, <2>1 DEF RunState
  <2> QED BY <2>2, <2>3
<1>3. run' = [run EXCEPT ![c] = r]
  OBVIOUS
<1> HIDE DEF r
<1>4. live' = live /\ holder' = holder /\ pool' = pool /\ UNCHANGED history /\ run[c].at = "new"
  BY DEF Open, In
<1>5. client' = NONE => client = NONE /\ (s.relay => fails)
  <2>1. Seeded # NONE
    BY <1>1, SeededIs, NoneIsNoManager
  <2> QED BY <2>1
<1>6. run'[c] = r /\ asked[c] = {}
  BY <1>1, <1>3, <1>4 DEF RunsTyped, Tracked, Working, Flying
<1>7. Tracked(c)' /\ Climbed(c)'
  BY <1>2, <1>4, <1>6 DEF Tracked, Climbed, Working, Flying, history
<1>8. client' = NONE => client = NONE /\ pool' = {} /\ asked'[c] = {} /\ (r.setting.relay => r.broken)
  BY <1>1, <1>2, <1>4, <1>5, <1>6 DEF NothingYet, history
<1>9. /\ asked' \in [Requests -> SUBSET Peers] /\ asked' = asked
      /\ exhausted' = exhausted /\ spoiled' = spoiled
  BY <1>1, <1>4 DEF history, RunsTyped
<1> QED BY <1>2, <1>3, <1>4, <1>7, <1>8, <1>9, GroundStep DEF Flying

LEMMA CloseStep ==
    ASSUME IInv, NEW c \in Requests, Close(c) PROVE RequestsAreSound'
<1> DEFINE r == [Fresh EXCEPT !.at = "done"]
<1>1. run[c] \in RunState /\ RunsTyped /\ NothingYet
  BY DEF IInv, RunsTyped
<1>2. /\ r \in RunState /\ r.at = "done" /\ r.query = NONE /\ r.answer = NONE /\ r.attempts = <<>>
      /\ r.relayed = {} /\ r.recovered = {} /\ ~r.setting.relay
  <2>1. "done" \in Phases /\ 0 \in 0 .. MaxExchanges /\ <<>> \in Seq(SUBSET Peers) /\ {} \in SUBSET Peers
    BY BoundsAreNatural DEF Phases
  <2>2. {} \in SUBSET Roots /\ 0 \in Nat
    OBVIOUS
  <2> QED BY <2>1, <2>2 DEF Fresh, RunState
<1>3. /\ run' = [run EXCEPT ![c] = r] /\ asked' = [asked EXCEPT ![c] = {}]
      /\ exhausted' = {e \in exhausted : e[1] # c} /\ spoiled' = spoiled \ {c}
      /\ run[c].at \in {"between", "doh"}
      /\ live' = live /\ holder' = holder /\ client' = client /\ pool' = pool
  BY DEF Close, network, shared
<1> HIDE DEF r
<1>4. run'[c] = r /\ asked'[c] = {}
  BY <1>1, <1>3 DEF RunsTyped
<1>5. Tracked(c)' /\ Climbed(c)'
  BY <1>2, <1>4 DEF Tracked, Climbed, Working, Flying
<1>6. asked' \in [Requests -> SUBSET Peers] /\ \A d \in Requests \ {c} : asked'[d] = asked[d]
  <2>1. {} \in SUBSET Peers
    OBVIOUS
  <2> QED BY <1>1, <1>3, <2>1 DEF RunsTyped
<1>7. \A d \in Requests \ {c} : /\ d \in spoiled' => d \in spoiled
                                /\ \A root, layer : <<d, root, layer>> \in exhausted
                                                        => <<d, root, layer>> \in exhausted'
  BY <1>3
<1>8. client' = NONE => client = NONE /\ pool' = {} /\ asked'[c] = {} /\ (r.setting.relay => r.broken)
  BY <1>1, <1>2, <1>3, <1>4 DEF NothingYet
<1> QED BY <1>2, <1>3, <1>5, <1>6, <1>7, <1>8, GroundStep DEF Flying

LEMMA LookupStep ==
    ASSUME IInv, NEW c \in Requests, Lookup(c) PROVE RequestsAreSound'
<1> DEFINE R(root) == [run[c] EXCEPT !.root = root, !.lookups = @ + 1]
           N(root, result) == CASE root \in R(root).recovered -> [R(root) EXCEPT !.at = "doh"]
                                [] root \notin R(root).recovered \cup R(root).relayed
                                       -> AfterDirect(R(root), result)
                                [] OTHER -> Attempt(R(root), 0)
<1> PICK root \in Roots, result \in DirectResults :
        /\ run' = [run EXCEPT ![c] = N(root, result)]
        /\ exhausted' = IF result = "transport" THEN exhausted \cup {<<c, root, "direct">>}
                        ELSE exhausted
  BY DEF Lookup
<1> DEFINE r == R(root)  n == N(root, result)
<1>1. run[c] \in RunState /\ RunsTyped /\ Tracked(c) /\ Climbed(c) /\ NothingYet /\ Flights
  BY DEF IInv, RunsTyped
<1>2. /\ run[c].at \in {"between", "doh"} /\ live' = live /\ holder' = holder /\ client' = client
      /\ pool' = pool /\ asked' = asked /\ spoiled' = spoiled \ {c}
  BY DEF Lookup, network, shared
<1>3. run[c].attempts = <<>> /\ run[c].query = NONE /\ asked[c] = {}
  BY <1>1, <1>2 DEF Tracked, Flights, Working, Flying
<1>4. /\ r \in RunState /\ r.root = root /\ r.attempts = <<>> /\ r.query = NONE
      /\ r.answer = run[c].answer /\ r.setting = run[c].setting /\ r.broken = run[c].broken
      /\ r.relayed = run[c].relayed /\ r.recovered = run[c].recovered
  <2> DEFINE o == run[c]  k == o.lookups + 1
  <2>1. o \in RunState /\ o.attempts = <<>> /\ o.query = NONE
    BY <1>1, <1>3
  <2>2. r = [o EXCEPT !.root = root, !.lookups = k] /\ k \in Nat
    BY <2>1 DEF RunState
  <2> HIDE DEF o, k, r, N, R
  <2>3. /\ r \in RunState /\ r.root = root /\ r.attempts = <<>> /\ r.query = NONE
        /\ r.answer = o.answer /\ r.setting = o.setting /\ r.broken = o.broken
        /\ r.relayed = o.relayed /\ r.recovered = o.recovered
    BY <2>1, <2>2 DEF RunState
  <2> QED BY <2>3 DEF o
<1>5. run' = [run EXCEPT ![c] = n]
  OBVIOUS
<1> HIDE DEF R
<1>6. /\ root \in r.recovered => n = [r EXCEPT !.at = "doh"]
      /\ root \notin r.recovered /\ root \notin r.relayed => n = AfterDirect(r, result)
      /\ root \notin r.recovered /\ root \in r.relayed => n = Attempt(r, 0)
  OBVIOUS
<1> HIDE DEF N, r, n
<1>7. /\ n \in RunState /\ n.at \in {"relay", "between", "doh"}
      /\ n.attempts = IF n.at = "relay" THEN <<{}>> ELSE <<>>
      /\ n.query = r.query /\ n.answer = r.answer
      /\ n.setting = r.setting /\ n.broken = r.broken /\ n.root = root
      /\ n.at = "relay" => /\ root \in n.relayed /\ n.recovered = r.recovered
                           /\ root \in r.relayed \/ n.setting.relay
      /\ n.at = "doh" => root \in n.recovered
      /\ \A x \in n.relayed : \/ x \in r.relayed
                              \/ x = root /\ result = "transport" /\ n.setting.relay
      /\ \A x \in n.recovered : \/ x \in r.recovered
                                \/ x = root /\ result = "transport" /\ ~n.setting.relay
  BY <1>4, <1>6, LookedUpIs
<1>8. run'[c] = n
  BY <1>1, <1>5 DEF RunsTyped
<1>9. Tracked(c)'
  BY <1>2, <1>3, <1>7, <1>8 DEF Tracked, Working, Flying
<1>10. Climbed(c)'
  <2>1. \A x \in n.relayed : n.setting.relay /\ <<c, x, "direct">> \in exhausted'
    BY <1>1, <1>4, <1>7 DEF Climbed
  <2>2. \A x \in n.recovered : /\ <<c, x, "direct">> \in exhausted'
                               /\ n.setting.relay => <<c, x, "relay">> \in exhausted'
    BY <1>1, <1>4, <1>7 DEF Climbed
  <2>3. n.at = "relay" => n.setting.relay /\ root \in n.relayed
    BY <1>7, <2>1
  <2> QED BY <1>2, <1>7, <1>8, <2>1, <2>2, <2>3 DEF Climbed, Working, Flying
<1>11. \A d \in Requests \ {c} : /\ d \in spoiled' => d \in spoiled
                                 /\ \A x, layer : <<d, x, layer>> \in exhausted
                                                     => <<d, x, layer>> \in exhausted'
  BY <1>2
<1>12. client' = NONE => client = NONE /\ pool' = {} /\ asked'[c] = {} /\ (n.setting.relay => n.broken)
  BY <1>1, <1>2, <1>3, <1>4, <1>7 DEF NothingYet
<1>13. asked' \in [Requests -> SUBSET Peers] /\ \A d \in Requests \ {c} : asked'[d] = asked[d]
  BY <1>1, <1>2 DEF RunsTyped
<1>14. /\ n.at \notin Flying /\ n.at # "following" /\ n.query = NONE /\ n.answer = run[c].answer
       /\ run[c].at \notin Flying
  BY <1>2, <1>4, <1>7 DEF Flying
<1> QED BY <1>2, <1>5, <1>7, <1>9, <1>10, <1>11, <1>12, <1>13, <1>14, GroundStep

LEMMA AskStep ==
    ASSUME IInv, NEW c \in Requests, Ask(c) PROVE RequestsAreSound'
<1>1. /\ run[c] \in RunState /\ RunsTyped /\ Tracked(c) /\ Climbed(c) /\ NothingYet /\ Flights
      /\ run[c].at = "relay" /\ run[c].exchanges < MaxExchanges
  BY DEF IInv, RunsTyped, Ask, In
<1>2. client' = client /\ pool' = pool /\ holder' = holder /\ exhausted' = exhausted /\ spoiled' = spoiled
  BY DEF Ask
<1>3. run[c].query = NONE /\ run[c].at \notin Flying
  BY <1>1 DEF Flights, Flying
<1> DEFINE Sent(at, q) == [run[c] EXCEPT !.at = at, !.query = q]
<1>4. \A at \in {"queued", "following"}, q \in Queries :
          LET r == Sent(at, q) IN
          /\ r \in RunState /\ r.at = at /\ r.query = q /\ r.answer = run[c].answer
          /\ r.exchanges = run[c].exchanges /\ r.attempts = run[c].attempts
          /\ r.setting = run[c].setting /\ r.broken = run[c].broken
          /\ r.root = run[c].root /\ r.offset = run[c].offset
          /\ r.relayed = run[c].relayed /\ r.recovered = run[c].recovered
  <2>1. "queued" \in Phases /\ "following" \in Phases
    BY DEF Phases
  <2> TAKE at \in {"queued", "following"}, q \in Queries
  <2>2. at \in Phases
    BY <2>1
  <2> DEFINE o == run[c]
  <2>3. o \in RunState
    BY <1>1
  <2>5. Sent(at, q) = [o EXCEPT !.at = at, !.query = q]
    OBVIOUS
  <2> HIDE DEF o, Sent
  <2>4. LET r == Sent(at, q) IN
        /\ r \in RunState /\ r.at = at /\ r.query = q /\ r.answer = o.answer
        /\ r.exchanges = o.exchanges /\ r.attempts = o.attempts
        /\ r.setting = o.setting /\ r.broken = o.broken
        /\ r.root = o.root /\ r.offset = o.offset
        /\ r.relayed = o.relayed /\ r.recovered = o.recovered
    BY <2>2, <2>3, <2>5 DEF RunState
  <2> QED BY <2>4 DEF o
<1> HIDE DEF Sent
<1>5. \A at \in {"queued", "following"}, q \in Queries :
          run'[c] = Sent(at, q) /\ asked' = asked => Tracked(c)' /\ Climbed(c)'
  <2> SUFFICES ASSUME NEW at \in {"queued", "following"}, NEW q \in Queries,
                      run'[c] = Sent(at, q), asked' = asked
               PROVE  Tracked(c)' /\ Climbed(c)'
    OBVIOUS
  <2>1. /\ run'[c].at = at /\ run'[c].attempts = run[c].attempts /\ run'[c].setting = run[c].setting
        /\ run'[c].root = run[c].root /\ run'[c].offset = run[c].offset
        /\ run'[c].relayed = run[c].relayed /\ run'[c].recovered = run[c].recovered
    BY <1>4
  <2>2. Tracked(c)'
    BY <1>1, <2>1 DEF Tracked, Working, Flying
  <2>3. Climbed(c)'
    BY <1>1, <1>2, <2>1 DEF Climbed, Working, Flying
  <2> QED BY <2>2, <2>3
<1>6. ASSUME client' = NONE
      PROVE  client = NONE /\ pool' = {} /\ asked[c] = {} /\ (run[c].setting.relay => run[c].broken)
  BY <1>1, <1>2, <1>6 DEF NothingYet
<1>7. PICK q \in Queries :
          \/ /\ live[q] = NONE /\ live' = [live EXCEPT ![q] = [answer |-> NONE]] /\ asked' = asked
             /\ run' = [run EXCEPT ![c] = [@ EXCEPT !.at = "queued", !.query = q]]
          \/ /\ live[q] # NONE /\ live[q].answer = NONE /\ live' = live /\ asked' = asked
             /\ run' = [run EXCEPT ![c] = [@ EXCEPT !.at = "following", !.query = q]]
          \/ /\ live[q] # NONE /\ live[q].answer # NONE /\ live' = live
             /\ run' = [run EXCEPT ![c] = Observed(@, live[q].answer)]
             /\ asked' = Consumed(c, live[q].answer)
  BY DEF Ask
<1>8. live[q] # NONE => live[q] \in Flight
  BY <1>1 DEF RunsTyped
<1>9. CASE /\ live[q] = NONE /\ live' = [live EXCEPT ![q] = [answer |-> NONE]] /\ asked' = asked
           /\ run' = [run EXCEPT ![c] = [@ EXCEPT !.at = "queued", !.query = q]]
  <2> DEFINE r == Sent("queued", q)
  <2>1. run' = [run EXCEPT ![c] = r]
    BY <1>9 DEF Sent
  <2>2. /\ r \in RunState /\ r.at = "queued" /\ r.query = q /\ r.exchanges = run[c].exchanges
        /\ r.answer = run[c].answer /\ r.setting = run[c].setting /\ r.broken = run[c].broken
    BY <1>4
  <2>3. run'[c] = r /\ Tracked(c)' /\ Climbed(c)'
    BY <1>1, <1>5, <1>9, <2>1 DEF RunsTyped
  <2> HIDE DEF r
  <2>4. \A d \in Requests \ {c} : run'[d] = run[d]
    BY <1>1, <2>1 DEF RunsTyped
  <2>5. /\ live' \in [Queries -> {NONE} \cup Flight]
        /\ live'[q] = [answer |-> NONE] /\ live'[q] # NONE
        /\ \A x \in Queries \ {q} : live'[x] = live[x]
    BY <1>1, <1>9, FlightIs DEF RunsTyped
  <2>6. RunsTyped'
    BY <1>1, <1>2, <1>9, <2>1, <2>2, <2>5 DEF RunsTyped
  <2>7. NothingYet'
    BY <1>1, <1>2, <1>9, <2>2, <2>3, <2>4, <2>5, FlightIs DEF NothingYet
  <2>8. \A d \in Requests : run[d].at \in Flying \cup {"following"} =>
                               run[d].query \in Queries /\ run[d].query # q
    BY <1>1, <1>9, FlightIs DEF Flights, Leads, Follows
  <2>9. \A d \in Requests : Leads(d)' /\ Follows(d)'
    <3>1. ASSUME NEW d \in Requests, d # c PROVE Leads(d)' /\ Follows(d)'
      BY <1>2, <2>4, <2>5, <2>8, <3>1, OthersFly
    <3>2. Leads(c)' /\ Follows(c)'
      BY <1>1, <2>2, <2>3, <2>5 DEF Leads, Follows
    <3> QED BY <3>1, <3>2
  <2>10. \A d \in Requests : run'[d].at \notin Flying \cup {"following"} => run'[d].query = NONE
    BY <1>1, <2>2, <2>3, <2>4 DEF Flights, Flying
  <2>11. \A d, e \in Requests :
            run'[d].at \in Flying /\ run'[e].at \in Flying /\ run'[d].query = run'[e].query => d = e
    BY <1>1, <2>2, <2>3, <2>4, <2>8 DEF Flights
  <2>12. \A x \in Queries :
            live'[x] # NONE => \E d \in Requests : run'[d].at \in Flying /\ run'[d].query = x
    BY <1>1, <1>3, <2>2, <2>3, <2>4, <2>5 DEF Flights, Flying
  <2>13. holder' # NONE => run'[holder'].at = "asking"
    BY <1>1, <1>2, <2>4 DEF Flights, RunsTyped
  <2>14. Flights'
    BY <2>9, <2>10, <2>11, <2>12, <2>13 DEF Flights
  <2>15. \A d \in Requests : Tracked(d)' /\ Climbed(d)'
    BY <1>2, <1>9, <2>3, <2>4, OthersStay
  <2> QED BY <2>6, <2>7, <2>14, <2>15 DEF RequestsAreSound
<1>10. CASE /\ live[q] # NONE /\ live[q].answer = NONE /\ live' = live /\ asked' = asked
            /\ run' = [run EXCEPT ![c] = [@ EXCEPT !.at = "following", !.query = q]]
  <2> DEFINE r == Sent("following", q)
  <2>1. run' = [run EXCEPT ![c] = r]
    BY <1>10 DEF Sent
  <2>2. /\ r \in RunState /\ r.at = "following" /\ r.query = q /\ r.exchanges < MaxExchanges
        /\ r.answer = run[c].answer /\ r.setting = run[c].setting /\ r.broken = run[c].broken
    BY <1>1, <1>4
  <2>3. run'[c] = r /\ Tracked(c)' /\ Climbed(c)'
    BY <1>1, <1>5, <1>10, <2>1 DEF RunsTyped
  <2> HIDE DEF r
  <2>4. live[q] = [answer |-> NONE]
    BY <1>8, <1>10, FlightIs
  <2>5. client' = NONE => client = NONE /\ pool' = {} /\ asked'[c] = {} /\ (r.setting.relay => r.broken)
    BY <1>6, <1>10, <2>2
  <2>6. asked' \in [Requests -> SUBSET Peers] /\ r.at \notin Flying
    BY <1>1, <1>10, <2>2 DEF RunsTyped, Flying
  <2> QED BY <1>2, <1>3, <1>10, <2>1, <2>2, <2>3, <2>4, <2>5, <2>6, GroundStep
<1>11. CASE /\ live[q] # NONE /\ live[q].answer # NONE /\ live' = live
            /\ run' = [run EXCEPT ![c] = Observed(@, live[q].answer)]
            /\ asked' = Consumed(c, live[q].answer)
  <2> DEFINE a == live[q].answer  r == Observed(run[c], a)
  <2>1. a \in Peers \cup {Failed, NONE}
    BY <1>8, <1>11, FlightIs
  <2>2. run' = [run EXCEPT ![c] = r] /\ run'[c] = r /\ asked' = Consumed(c, a)
    BY <1>1, <1>11 DEF RunsTyped
  <2>3. client = NONE => a \notin Peers
    BY <1>1, <1>11 DEF NothingYet
  <2> HIDE DEF a, r
  <2>4. /\ r \in RunState /\ asked' \in [Requests -> SUBSET Peers]
        /\ \A d \in Requests : d # c \/ a \notin Peers => asked'[d] = asked[d]
        /\ Tracked(c)' /\ Climbed(c)'
    BY <1>1, <1>2, <2>1, <2>2, TakesAnAnswer DEF Working, r
  <2>5. /\ r.at = "relay" /\ r.query = NONE /\ r.answer = NONE
        /\ r.setting = run[c].setting /\ r.broken = run[c].broken
    <3>1. run[c].attempts = <<asked[c]>> /\ asked[c] \in SUBSET Peers
      BY <1>1 DEF Tracked, Working, RunsTyped
    <3> QED BY <1>1, <2>1, <3>1, ObservedIs DEF r
  <2>6. client' = NONE => client = NONE /\ pool' = {} /\ asked'[c] = {} /\ (r.setting.relay => r.broken)
    BY <1>2, <1>6, <2>3, <2>4, <2>5
  <2>7. r.at \notin Flying /\ r.at # "following"
    BY <2>5 DEF Flying
  <2> QED BY <1>2, <1>3, <1>11, <2>2, <2>4, <2>5, <2>6, <2>7, GroundStep
<1> QED BY <1>7, <1>9, <1>10, <1>11

LEMMA RemoveStep ==
    ASSUME IInv, NEW c \in Requests, Remove(c) PROVE RequestsAreSound'
<1> DEFINE q == run[c].query  a == run[c].answer  r == Observed(run[c], a)
<1>1. run[c] \in RunState /\ RunsTyped /\ Tracked(c) /\ NothingYet /\ Flights /\ run[c].at = "remove"
  BY DEF IInv, RunsTyped, Remove, In
<1>2. /\ client' = client /\ pool' = pool /\ holder' = holder
      /\ exhausted' = exhausted /\ spoiled' = spoiled
      /\ live' = [live EXCEPT ![q] = NONE] /\ run' = [run EXCEPT ![c] = r] /\ asked' = Consumed(c, a)
  BY DEF Remove
<1>3. /\ q \in Queries /\ run[c].exchanges < MaxExchanges /\ live[q] # NONE /\ live[q].answer = a
      /\ a # NONE /\ a \in Peers \cup {Failed, NONE} /\ run[c].at \in Flying
  BY <1>1 DEF Flights, Leads, Flying, RunState
<1>4. run'[c] = r
  BY <1>1, <1>2 DEF RunsTyped
<1>5. client = NONE => a \notin Peers
  BY <1>1 DEF NothingYet
<1>6. /\ r \in RunState /\ asked' \in [Requests -> SUBSET Peers]
      /\ \A d \in Requests : d # c \/ a \notin Peers => asked'[d] = asked[d]
      /\ Tracked(c)' /\ Climbed(c)'
  BY <1>2, <1>3, <1>4, TakesAnAnswer DEF Working
<1>7. /\ r.at = "relay" /\ r.query = NONE /\ r.answer = NONE
      /\ r.setting = run[c].setting /\ r.broken = run[c].broken
  <2>1. run[c].attempts = <<asked[c]>> /\ asked[c] \in SUBSET Peers
    BY <1>1, <1>3 DEF Tracked, Working, RunsTyped
  <2> QED BY <1>1, <1>3, <2>1, ObservedIs
<1>8. /\ live' \in [Queries -> {NONE} \cup Flight] /\ live'[q] = NONE
      /\ \A x \in Queries \ {q} : live'[x] = live[x]
  BY <1>1, <1>2, <1>3 DEF RunsTyped
<1>9. \A d \in Requests \ {c} : run'[d] = run[d]
  BY <1>1, <1>2 DEF RunsTyped
<1>10. \A d \in Requests \ {c} : run[d].at \in Flying \cup {"following"} =>
                                    run[d].query \in Queries /\ run[d].query # q
  <2> TAKE d \in Requests \ {c}
  <2>1. CASE run[d].at \in Flying
    BY <1>1, <1>3, <2>1 DEF Flights, Leads
  <2>2. CASE run[d].at = "following"
    <3>1. run[d].query \in Queries /\ live[run[d].query] = [answer |-> NONE]
      BY <1>1, <2>2 DEF Flights, Follows
    <3> QED BY <1>3, <3>1
  <2> QED BY <2>1, <2>2
<1> HIDE DEF q, a, r
<1>11. RunsTyped'
  BY <1>1, <1>2, <1>6, <1>8 DEF RunsTyped
<1>12. NothingYet'
  <2> SUFFICES ASSUME client' = NONE
               PROVE  /\ pool' = {} /\ \A x \in Queries : live'[x] # NONE => live'[x].answer \notin Peers
                      /\ \A d \in Requests : /\ asked'[d] = {} /\ run'[d].answer \notin Peers
                                             /\ run'[d].setting.relay => run'[d].broken
    BY DEF NothingYet
  <2>1. client = NONE /\ a \notin Peers
    BY <1>2, <1>5
  <2> QED BY <1>1, <1>2, <1>4, <1>6, <1>7, <1>8, <1>9, <2>1, FlightIs DEF NothingYet
<1>13. Flights'
  <2>1. \A d \in Requests : Leads(d)' /\ Follows(d)'
    <3>1. ASSUME NEW d \in Requests, d # c PROVE Leads(d)' /\ Follows(d)'
      BY <1>2, <1>8, <1>9, <1>10, <3>1, OthersFly
    <3>2. Leads(c)' /\ Follows(c)'
      BY <1>4, <1>7 DEF Leads, Follows, Flying
    <3> QED BY <3>1, <3>2
  <2>2. \A d \in Requests : run'[d].at \notin Flying \cup {"following"} => run'[d].query = NONE
    BY <1>1, <1>4, <1>7, <1>9 DEF Flights
  <2>3. \A d, e \in Requests :
           run'[d].at \in Flying /\ run'[e].at \in Flying /\ run'[d].query = run'[e].query => d = e
    BY <1>1, <1>4, <1>7, <1>9 DEF Flights, Flying
  <2>4. \A x \in Queries :
           live'[x] # NONE => \E d \in Requests : run'[d].at \in Flying /\ run'[d].query = x
    BY <1>1, <1>8, <1>9 DEF Flights, q
  <2>5. holder' # NONE => run'[holder'].at = "asking"
    BY <1>1, <1>2, <1>9 DEF Flights, RunsTyped
  <2> QED BY <2>1, <2>2, <2>3, <2>4, <2>5 DEF Flights
<1>14. \A d \in Requests : Tracked(d)' /\ Climbed(d)'
  <2>1. ASSUME NEW d \in Requests, d # c PROVE Tracked(d)' /\ Climbed(d)'
    <3>1. run'[d] = run[d] /\ asked'[d] = asked[d]
      BY <1>6, <1>9, <2>1
    <3> QED BY <1>2, <3>1, OthersStay
  <2> QED BY <1>6, <2>1
<1> QED BY <1>11, <1>12, <1>13, <1>14 DEF RequestsAreSound

\* The one step in which a request changes others: it wakes its followers.
LEMMA PublishStep ==
    ASSUME IInv, NEW c \in Requests, Publish(c) PROVE RequestsAreSound'
<1> DEFINE q == run[c].query  a == run[c].answer  r == [run[c] EXCEPT !.at = "remove"]
           F == Followers(q)
<1>1. run[c] \in RunState /\ RunsTyped /\ Tracked(c) /\ NothingYet /\ Flights /\ Climbed(c)
  BY DEF IInv, RunsTyped
<1>2. /\ client' = client /\ pool' = pool /\ holder' = holder /\ run[c].at = "publish"
      /\ exhausted' = exhausted /\ spoiled' = spoiled
      /\ live' = [live EXCEPT ![q] = [@ EXCEPT !.answer = a]]
      /\ run' = [f \in Requests |-> IF f = c THEN r ELSE IF f \in F THEN Observed(run[f], a) ELSE run[f]]
      /\ asked' = [f \in Requests |-> IF f \in F THEN Consumed(f, a)[f] ELSE asked[f]]
  BY DEF Publish, Woken, In
<1>3. /\ q \in Queries /\ run[c].exchanges < MaxExchanges /\ live[q] # NONE /\ live[q] \in Flight
      /\ a # NONE /\ a \in Peers \cup {Failed, NONE}
  BY <1>1, <1>2 DEF Flights, Leads, Flying, RunState, RunsTyped
<1>4. /\ r \in RunState /\ r.at = "remove" /\ r.query = q /\ r.answer = a
      /\ r.exchanges = run[c].exchanges /\ r.attempts = run[c].attempts
      /\ r.setting = run[c].setting /\ r.broken = run[c].broken
      /\ r.root = run[c].root /\ r.offset = run[c].offset
      /\ r.relayed = run[c].relayed /\ r.recovered = run[c].recovered
  <2>1. "remove" \in Phases
    BY DEF Phases
  <2> QED BY <1>1, <2>1 DEF RunState
<1>5. client = NONE => a \notin Peers
  BY <1>1 DEF NothingYet
<1>6. \A f \in Requests : f \in F <=> run[f].at = "following" /\ run[f].query = q
  BY DEF Followers, In
<1>7. c \notin F
  BY <1>2, <1>6
<1>8. /\ live' \in [Queries -> {NONE} \cup Flight] /\ live'[q] = [answer |-> a] /\ live'[q] # NONE
      /\ \A x \in Queries \ {q} : live'[x] = live[x]
  <2>1. [live[q] EXCEPT !.answer = a] = [answer |-> a] /\ [answer |-> a] \in Flight /\ [answer |-> a] # NONE
    BY <1>3, FlightIs
  <2>2. live' = [live EXCEPT ![q] = [answer |-> a]]
    BY <1>2, <2>1
  <2> QED BY <1>1, <1>3, <2>1, <2>2 DEF RunsTyped
<1>9. run'[c] = r /\ asked'[c] = asked[c]
  BY <1>2, <1>7
<1>10. \A d \in Requests \ (F \cup {c}) : run'[d] = run[d] /\ asked'[d] = asked[d]
  BY <1>2
<1>11. \A f \in F : /\ run'[f] = Observed(run[f], a) /\ asked'[f] = Consumed(f, a)[f]
                    /\ f \in Requests
  BY <1>2, <1>7 DEF Followers
<1> HIDE DEF q, a, r, F
<1>12. ASSUME NEW f \in F
       PROVE  /\ run'[f] \in RunState /\ asked'[f] \in SUBSET Peers
              /\ a \notin Peers => asked'[f] = asked[f]
              /\ run'[f].at = "relay" /\ run'[f].query = NONE /\ run'[f].answer = NONE
              /\ run'[f].setting = run[f].setting /\ run'[f].broken = run[f].broken
              /\ Tracked(f)' /\ Climbed(f)'
  <2>1. /\ f \in Requests /\ run[f] \in RunState /\ run[f].at = "following" /\ run[f].at \in Working
        /\ run[f].exchanges < MaxExchanges
    BY <1>1, <1>6, <1>11 DEF RunsTyped, Working, Flights, Follows
  <2>2. /\ Observed(run[f], a) \in RunState /\ Consumed(f, a) \in [Requests -> SUBSET Peers]
        /\ a \notin Peers => Consumed(f, a)[f] = asked[f]
        /\ Tracked(f)' /\ Climbed(f)'
    BY <1>2, <1>3, <1>11, <2>1, TakesAnAnswer
  <2>3. run[f].attempts = <<asked[f]>> /\ asked[f] \in SUBSET Peers
    BY <1>1, <2>1 DEF IInv, Tracked, RunsTyped
  <2>4. /\ Observed(run[f], a).at = "relay" /\ Observed(run[f], a).query = NONE
        /\ Observed(run[f], a).answer = NONE
        /\ Observed(run[f], a).setting = run[f].setting /\ Observed(run[f], a).broken = run[f].broken
    BY <1>3, <2>1, <2>3, ObservedIs
  <2> QED BY <1>11, <2>1, <2>2, <2>4
<1>13. RunsTyped'
  <2>1. run' \in [Requests -> RunState]
    BY <1>1, <1>2, <1>4, <1>9, <1>10, <1>12 DEF RunsTyped
  <2>2. asked' \in [Requests -> SUBSET Peers]
    BY <1>1, <1>2, <1>9, <1>10, <1>12 DEF RunsTyped
  <2> QED BY <1>1, <1>2, <1>8, <2>1, <2>2 DEF RunsTyped
<1>14. NothingYet'
  <2> SUFFICES ASSUME client' = NONE
               PROVE  /\ pool' = {} /\ \A x \in Queries : live'[x] # NONE => live'[x].answer \notin Peers
                      /\ \A d \in Requests : /\ asked'[d] = {} /\ run'[d].answer \notin Peers
                                             /\ run'[d].setting.relay => run'[d].broken
    BY DEF NothingYet
  <2>1. client = NONE /\ a \notin Peers
    BY <1>2, <1>5
  <2>2. pool' = {} /\ \A x \in Queries : live'[x] # NONE => live'[x].answer \notin Peers
    BY <1>1, <1>2, <1>8, <2>1 DEF NothingYet
  <2>3. ASSUME NEW d \in Requests
        PROVE  /\ asked'[d] = {} /\ run'[d].answer \notin Peers
               /\ run'[d].setting.relay => run'[d].broken
    <3>1. asked[d] = {} /\ run[d].answer \notin Peers /\ (run[d].setting.relay => run[d].broken)
      BY <1>1, <2>1 DEF NothingYet
    <3> QED BY <1>4, <1>9, <1>10, <1>12, <2>1, <3>1, FlightIs
  <2> QED BY <2>2, <2>3
<1>15. \A d \in Requests : d # c /\ run[d].at \in Flying => run[d].query \in Queries /\ run[d].query # q
  BY <1>1, <1>2 DEF Flights, Leads, q, Flying
<1>16. Flights'
  <2>1. \A d \in Requests : Leads(d)' /\ Follows(d)'
    <3>1. ASSUME NEW d \in Requests \ (F \cup {c}) PROVE Leads(d)' /\ Follows(d)'
      <4>1. run[d].at \in Flying \cup {"following"} => run[d].query \in Queries /\ run[d].query # q
        BY <1>1, <1>6, <1>15 DEF Flights, Follows
      <4> QED BY <1>2, <1>8, <1>10, <4>1, OthersFly
    <3>2. Leads(c)' /\ Follows(c)'
      BY <1>3, <1>4, <1>8, <1>9 DEF Leads, Follows
    <3>3. ASSUME NEW d \in F PROVE Leads(d)' /\ Follows(d)'
      BY <1>12 DEF Leads, Follows, Flying
    <3> QED BY <3>1, <3>2, <3>3
  <2>2. \A d \in Requests : run'[d].at \notin Flying \cup {"following"} => run'[d].query = NONE
    BY <1>1, <1>4, <1>9, <1>10, <1>12 DEF Flights, Flying
  <2>3. \A d \in Requests : run'[d].at \in Flying =>
            d \notin F /\ run[d].at \in Flying /\ run'[d].query = run[d].query
    BY <1>2, <1>4, <1>9, <1>10, <1>12 DEF Flying, q
  <2>4. \A d, e \in Requests :
           run'[d].at \in Flying /\ run'[e].at \in Flying /\ run'[d].query = run'[e].query => d = e
    BY <1>1, <2>3 DEF Flights
  <2>5. \A d \in Requests : run[d].at \in Flying => run'[d].at \in Flying /\ run'[d].query = run[d].query
    BY <1>4, <1>6, <1>9, <1>10 DEF Flying, q
  <2>6. \A x \in Queries :
           live'[x] # NONE => \E d \in Requests : run'[d].at \in Flying /\ run'[d].query = x
    <3> TAKE x \in Queries
    <3>1. live'[x] # NONE => live[x] # NONE
      BY <1>3, <1>8
    <3> QED BY <1>1, <2>5, <3>1 DEF Flights
  <2>7. holder' # NONE => run'[holder'].at = "asking"
    BY <1>1, <1>2, <1>6, <1>10 DEF Flights, RunsTyped
  <2> QED BY <2>1, <2>2, <2>4, <2>6, <2>7 DEF Flights
<1>17. \A d \in Requests : Tracked(d)' /\ Climbed(d)'
  <2>1. ASSUME NEW d \in Requests \ (F \cup {c}) PROVE Tracked(d)' /\ Climbed(d)'
    BY <1>2, <1>10, OthersStay
  <2>2. Tracked(c)'
    BY <1>1, <1>2, <1>4, <1>9 DEF Tracked, Working, Flying
  <2>3. Climbed(c)'
    BY <1>1, <1>2, <1>4, <1>9 DEF Climbed, Working, Flying
  <2> QED BY <1>12, <2>1, <2>2, <2>3
<1> QED BY <1>13, <1>14, <1>16, <1>17 DEF RequestsAreSound

\* A validation over the relay ends: with a report against the peers it
\* consumed, with the lookup, or at the recovery service.
LEMMA ValidatedIs ==
    ASSUME IInv, NEW c \in Requests, run[c].at = "relay", NEW result \in RelayResults,
           FirstEnds(c, result) \/ RetryEnds(c, result)
    PROVE  LET n == run'[c] IN
           /\ n \in RunState /\ run' = [run EXCEPT ![c] = n] /\ n.at \in {"report", "between", "doh"}
           /\ n.attempts = <<>> /\ n.query = run[c].query /\ n.answer = run[c].answer
           /\ n.setting = run[c].setting /\ n.broken = run[c].broken
           /\ n.root = run[c].root /\ n.relayed = run[c].relayed
           /\ n.at = "report" => n.peers = asked[c] /\ asked[c] # {} /\ n.recovered = run[c].recovered
           /\ n.at = "between" => n.recovered = run[c].recovered
           /\ n.at = "doh" => /\ result = "transport" /\ run[c].offset = 0
                              /\ n.recovered = run[c].recovered \cup {run[c].root}
<1> DEFINE peers == run[c].attempts[Len(run[c].attempts)]
           r == [run[c] EXCEPT !.exchanges = 0, !.offset = 0, !.attempts = Popped(@), !.peers = peers]
           n == run'[c]
<1>1. run[c] \in RunState /\ RunsTyped /\ Tracked(c) /\ Climbed(c)
  BY DEF IInv, RunsTyped
<1>2. run[c].attempts = <<asked[c]>> /\ asked[c] \in SUBSET Peers /\ run[c].root \in Roots
  BY <1>1 DEF Tracked, Climbed, Working, RunsTyped, RunState
<1>3. peers = asked[c] /\ Popped(run[c].attempts) = <<>>
  BY <1>2 DEF Popped
<1>4. r = [run[c] EXCEPT !.exchanges = 0, !.offset = 0, !.attempts = <<>>, !.peers = asked[c]]
  BY <1>3
<1>5. \/ /\ run[c].offset = 0
         /\ run' = [run EXCEPT ![c] =
                       CASE result = "dnssec" /\ peers = {} -> Ended(r, "relayDnssec")
                         [] result = "dnssec" /\ peers # {} -> [r EXCEPT !.at = "report"]
                         [] OTHER -> Ended(r, result)]
      \/ /\ run' = [run EXCEPT ![c] =
                       CASE result = "ok" -> Ended(r, "ok")
                         [] result # "ok" /\ peers = {} -> Ended(r, RetryFailure(result))
                         [] OTHER -> [r EXCEPT !.at = "report", !.offset = 1]]
  BY DEF FirstEnds, RetryEnds
<1> HIDE DEF r, peers
<1>6. /\ r \in RunState /\ r.attempts = <<>> /\ r.query = run[c].query /\ r.answer = run[c].answer
      /\ r.setting = run[c].setting /\ r.broken = run[c].broken /\ r.root = run[c].root
      /\ r.relayed = run[c].relayed /\ r.recovered = run[c].recovered /\ r.peers = asked[c]
  <2>1. 0 \in 0 .. MaxExchanges /\ <<>> \in Seq(SUBSET Peers)
    BY BoundsAreNatural
  <2> QED BY <1>1, <1>2, <1>4, <2>1 DEF RunState
<1>7. /\ run' = [run EXCEPT ![c] = n]
      /\ \/ n = Ended(r, "relayDnssec") \/ n = Ended(r, "ok")
         \/ n = Ended(r, result) /\ run[c].offset = 0
         \/ peers # {} /\ n = [r EXCEPT !.at = "report"]
         \/ peers # {} /\ n = [r EXCEPT !.at = "report", !.offset = 1]
  <2>1. run \in [Requests -> RunState]
    BY <1>1 DEF RunsTyped
  <2> QED BY <1>5, <2>1 DEF RetryFailure
<1> HIDE DEF n
<1>8. ASSUME NEW e, n = Ended(r, e)
      PROVE  /\ n \in RunState /\ n.at = (IF e = "transport" /\ r.setting.doh THEN "doh" ELSE "between")
             /\ n.attempts = <<>> /\ n.query = r.query /\ n.answer = r.answer
             /\ n.setting = r.setting /\ n.broken = r.broken
             /\ n.root = r.root /\ n.relayed = r.relayed
             /\ n.recovered = IF e = "transport" /\ r.setting.doh
                              THEN r.recovered \cup {r.root} ELSE r.recovered
  <2>1. r \in RunState /\ r.root \in Roots /\ r.attempts = <<>>
    BY <1>2, <1>6
  <2> QED BY ONLY <2>1, <1>8, EndedIs
<1>9. ASSUME n = [r EXCEPT !.at = "report"] \/ n = [r EXCEPT !.at = "report", !.offset = 1], peers # {}
      PROVE  /\ n \in RunState /\ n.at = "report" /\ n.attempts = <<>>
             /\ n.query = r.query /\ n.answer = r.answer
             /\ n.setting = r.setting /\ n.broken = r.broken /\ n.root = r.root
             /\ n.relayed = r.relayed /\ n.recovered = r.recovered
             /\ n.peers = asked[c] /\ asked[c] # {}
  <2>1. "report" \in Phases
    BY DEF Phases
  <2> QED BY <1>3, <1>6, <1>9, <2>1, ZenonT(40) DEF RunState
<1>10. LET m == n IN
       /\ m \in RunState /\ run' = [run EXCEPT ![c] = m] /\ m.at \in {"report", "between", "doh"}
       /\ m.attempts = <<>> /\ m.query = run[c].query /\ m.answer = run[c].answer
       /\ m.setting = run[c].setting /\ m.broken = run[c].broken
       /\ m.root = run[c].root /\ m.relayed = run[c].relayed
       /\ m.at = "report" => m.peers = asked[c] /\ asked[c] # {} /\ m.recovered = run[c].recovered
       /\ m.at = "between" => m.recovered = run[c].recovered
       /\ m.at = "doh" => /\ result = "transport" /\ run[c].offset = 0
                          /\ m.recovered = run[c].recovered \cup {run[c].root}
  <2>1. CASE n = Ended(r, "relayDnssec") \/ n = Ended(r, "ok")
    <3>1. PICK e \in {"relayDnssec", "ok"} : n = Ended(r, e)
      BY <2>1
    <3> QED BY <1>6, <1>7, <1>8, <3>1
  <2>2. CASE n = Ended(r, result) /\ run[c].offset = 0
    BY <1>6, <1>7, <1>8, <2>2
  <2>3. CASE peers # {} /\ (n = [r EXCEPT !.at = "report"] \/ n = [r EXCEPT !.at = "report", !.offset = 1])
    BY <1>6, <1>7, <1>9, <2>3
  <2> QED BY <1>7, <2>1, <2>2, <2>3
<1> QED BY <1>10 DEF n

LEMMA ValidateStep ==
    ASSUME IInv, NEW c \in Requests, Validate(c) PROVE RequestsAreSound'
<1> DEFINE n == run'[c]
<1>1. /\ run[c] \in RunState /\ RunsTyped /\ Tracked(c) /\ Climbed(c) /\ NothingYet /\ Flights
      /\ run[c].at = "relay"
  BY DEF IInv, RunsTyped, Validate, In
<1>2. PICK result \in RelayResults :
        /\ FirstEnds(c, result) \/ RetryEnds(c, result)
        /\ spoiled' = IF result = "dnssec" THEN spoiled \cup {c} ELSE spoiled
        /\ exhausted' = IF result = "transport" THEN exhausted \cup {<<c, run[c].root, "relay">>}
                        ELSE exhausted
  BY DEF Validate
<1>3. live' = live /\ holder' = holder /\ client' = client /\ pool' = pool
  BY DEF Validate, shared
<1>4. asked' = IF n.at = "report" THEN asked ELSE [asked EXCEPT ![c] = {}]
  BY DEF Validate
<1>5. /\ n \in RunState /\ run' = [run EXCEPT ![c] = n] /\ n.at \in {"report", "between", "doh"}
      /\ n.attempts = <<>> /\ n.query = run[c].query /\ n.answer = run[c].answer
      /\ n.setting = run[c].setting /\ n.broken = run[c].broken
      /\ n.root = run[c].root /\ n.relayed = run[c].relayed
      /\ n.at = "report" => n.peers = asked[c] /\ asked[c] # {} /\ n.recovered = run[c].recovered
      /\ n.at = "between" => n.recovered = run[c].recovered
      /\ n.at = "doh" => /\ result = "transport" /\ run[c].offset = 0
                         /\ n.recovered = run[c].recovered \cup {run[c].root}
  BY <1>1, <1>2, ValidatedIs
<1> HIDE DEF n
<1>6. /\ asked' \in [Requests -> SUBSET Peers] /\ \A d \in Requests \ {c} : asked'[d] = asked[d]
      /\ asked'[c] = IF n.at = "report" THEN asked[c] ELSE {}
  <2>1. {} \in SUBSET Peers
    OBVIOUS
  <2> QED BY <1>1, <1>4, <2>1 DEF RunsTyped
<1>7. Tracked(c)'
  BY <1>5, <1>6 DEF Tracked, Working, Flying, n
<1>8. Climbed(c)'
  <2>1. run[c].setting.relay /\ run[c].root \in run[c].relayed /\ (run[c].offset = 0 => c \notin spoiled)
    BY <1>1 DEF Climbed, Working
  <2>2. \A x \in n.relayed : n.setting.relay /\ <<c, x, "direct">> \in exhausted'
    BY <1>1, <1>2, <1>5 DEF Climbed
  <2>3. \A x \in n.recovered : /\ <<c, x, "direct">> \in exhausted'
                               /\ n.setting.relay => <<c, x, "relay">> \in exhausted'
    BY <1>1, <1>2, <1>5, <2>1 DEF Climbed
  <2>4. n.at = "doh" => n.root \in n.recovered /\ c \notin spoiled'
    BY <1>2, <1>5, <2>1
  <2>5. n.at \notin Working /\ n.at # "new"
    BY <1>5 DEF Working, Flying
  <2> QED BY <1>5, <2>1, <2>2, <2>3, <2>4, <2>5 DEF Climbed, n
<1>9. \A d \in Requests \ {c} : /\ d \in spoiled' => d \in spoiled
                                /\ \A x, layer : <<d, x, layer>> \in exhausted
                                                    => <<d, x, layer>> \in exhausted'
  BY <1>2
<1>10. client' = NONE => client = NONE /\ pool' = {} /\ asked'[c] = {} /\ (n.setting.relay => n.broken)
  BY <1>1, <1>3, <1>5, <1>6 DEF NothingYet
<1>11. /\ n.at \notin Flying /\ n.at # "following" /\ n.query = NONE /\ n.answer = run[c].answer
       /\ run[c].at \notin Flying
  BY <1>1, <1>5 DEF Flights, Flying
<1> QED BY <1>3, <1>5, <1>6, <1>7, <1>8, <1>9, <1>10, <1>11, GroundStep

LEMMA ReportStep ==
    ASSUME IInv, NEW c \in Requests, Report(c) PROVE RequestsAreSound'
<1> DEFINE n == IF run[c].offset = 0 THEN Attempt(run[c], 1)
                ELSE Ended([run[c] EXCEPT !.offset = 0], RetryFailure("transport"))
<1>1. /\ run[c] \in RunState /\ RunsTyped /\ Tracked(c) /\ Climbed(c) /\ Flights
      /\ run[c].at = "report"
  BY DEF IInv, RunsTyped, Report, In
<1>2. /\ live' = live /\ holder' = holder /\ exhausted' = exhausted /\ spoiled' = spoiled
      /\ asked' = [asked EXCEPT ![c] = {}] /\ run' = [run EXCEPT ![c] = n]
  BY DEF Report
<1>3. run[c].attempts = <<>> /\ run[c].query = NONE /\ run[c].root \in Roots
  BY <1>1 DEF Tracked, Flights, Climbed, Working, Flying, RunState
<1>4. /\ n \in RunState /\ n.at \in {"relay", "between"}
      /\ n.attempts = IF n.at = "relay" THEN <<{}>> ELSE <<>>
      /\ n.query = NONE /\ n.answer = run[c].answer
      /\ n.setting = run[c].setting /\ n.broken = run[c].broken /\ n.root = run[c].root
      /\ n.relayed = run[c].relayed /\ n.recovered = run[c].recovered
      /\ n.at = "relay" => n.offset = 1
  <2>1. CASE run[c].offset = 0
    <3>1. n = Attempt(run[c], 1) /\ 1 \in {0, 1}
      BY <2>1
    <3> HIDE DEF n
    <3>2. run[c] \in RunState /\ run[c].attempts = <<>> /\ run[c].query = NONE
      BY <1>1, <1>3
    <3> QED BY ONLY <3>1, <3>2, AttemptIs
  <2>2. CASE run[c].offset # 0
    <3> DEFINE o == [run[c] EXCEPT !.offset = 0]
    <3>1. n = Ended(o, "relayDnssec")
      BY <2>2 DEF RetryFailure
    <3>2. /\ o \in RunState /\ o.attempts = <<>> /\ o.query = NONE /\ o.root \in Roots
          /\ o.answer = run[c].answer
          /\ o.setting = run[c].setting /\ o.broken = run[c].broken /\ o.root = run[c].root
          /\ o.relayed = run[c].relayed /\ o.recovered = run[c].recovered
      BY <1>1, <1>3 DEF RunState
    <3> HIDE DEF n, o
    <3>3. /\ n \in RunState /\ n.at = "between" /\ n.attempts = <<>> /\ n.query = NONE
          /\ n.answer = o.answer /\ n.setting = o.setting /\ n.broken = o.broken /\ n.root = o.root
          /\ n.relayed = o.relayed /\ n.recovered = o.recovered
      BY ONLY <3>1, <3>2, EndedIs
    <3> QED BY <3>2, <3>3
  <2> QED BY <2>1, <2>2
<1> HIDE DEF n
<1>5. run'[c] = n
  BY <1>1, <1>2 DEF RunsTyped
<1>6. /\ asked' \in [Requests -> SUBSET Peers] /\ \A d \in Requests \ {c} : asked'[d] = asked[d]
      /\ asked'[c] = {}
  <2>1. {} \in SUBSET Peers
    OBVIOUS
  <2> QED BY <1>1, <1>2, <2>1 DEF RunsTyped
<1>7. Tracked(c)'
  BY <1>4, <1>5, <1>6 DEF Tracked, Working, Flying
<1>8. Climbed(c)'
  BY <1>1, <1>2, <1>4, <1>5 DEF Climbed, Working, Flying
<1>9. client' # NONE
  <2>1. client \in Managers /\ Dated(client)
    BY <1>1, ClientIsThere
  <2>2. client' = Penalised(Blamed(c)) /\ clock \in Times
    BY DEF Report, IInv, PeersTyped
  <2> QED BY <2>1, <2>2, PenalisedIs, NoneIsNoManager
<1>10. \A d \in Requests \ {c} : /\ d \in spoiled' => d \in spoiled
                                 /\ \A x, layer : <<d, x, layer>> \in exhausted
                                                     => <<d, x, layer>> \in exhausted'
  BY <1>2
<1>11. /\ n.at \notin Flying /\ n.at # "following" /\ run[c].at \notin Flying
  BY <1>1, <1>4 DEF Flying
<1> QED BY <1>2, <1>4, <1>6, <1>7, <1>8, <1>9, <1>10, <1>11, GroundStep

\* Unusable, Refresh, Resolve and NoPeerLeft are steps of a leader.
LEMMA LeaderStep ==
    ASSUME IInv, NEW c \in Requests, Unusable(c) \/ Refresh(c) \/ Resolve(c) \/ NoPeerLeft(c)
    PROVE  RequestsAreSound'
<1>1. PeersTyped /\ PeersAreSound /\ NothingYet
  BY DEF IInv
<1>2. ASSUME client' = client, pool' = pool
      PROVE  client' = NONE => client = NONE /\ pool' = {}
  BY <1>1, <1>2 DEF NothingYet
<1>3. Failed \in Peers \cup {Failed}
  OBVIOUS
<1>4. CASE Unusable(c)
  <2>1. /\ run' = [run EXCEPT ![c] = [@ EXCEPT !.at = "publish", !.answer = Failed]]
        /\ run[c].at = "queued" /\ UNCHANGED shared /\ UNCHANGED history
    BY <1>4 DEF Unusable, In
  <2> QED BY <1>2, <1>3, <2>1, AnswerStep DEF shared, history
<1>5. CASE Refresh(c)
  <2>1. /\ run[c].at = "queued" /\ ~run[c].broken /\ holder = NONE
        /\ live' = live /\ UNCHANGED history
    BY <1>5 DEF Refresh, In
  <2>2. CASE /\ run' = [run EXCEPT ![c] = [@ EXCEPT !.at = "publish", !.answer = Failed]]
             /\ UNCHANGED <<client, pool, holder>>
    BY <1>2, <1>3, <2>1, <2>2, AnswerStep DEF history
  <2>3. CASE holder' = c /\ Goes(c, "asking") /\ client' = Refreshed
    <3>1. client \in Managers /\ Dated(client)
      BY <2>1, ClientIsThere
    <3>2. client' # NONE
      BY <1>1, <2>3, <3>1, RefreshedIs, NoneIsNoManager DEF PeersTyped, PeersAreSound
    <3> QED BY <2>1, <2>3, <3>2, AskingStep DEF Goes, history
  <2> QED BY <1>5, <2>2, <2>3 DEF Refresh
<1>6. CASE Resolve(c)
  <2>1. run[c].at = "asking" /\ holder' = NONE /\ live' = live /\ UNCHANGED history
    BY <1>6 DEF Resolve, In
  <2>2. client \in Managers /\ Dated(client) /\ client # NONE
    BY <2>1, ClientIsThere, NoneIsNoManager
  <2>3. PICK p \in pool \cup {m \in DOMAIN client : ~Banned(client[m])} :
            \/ /\ run' = [run EXCEPT ![c] = [@ EXCEPT !.at = "publish", !.answer = p]]
               /\ client' = client
            \/ /\ run' = [run EXCEPT ![c] = [@ EXCEPT !.at = "publish", !.answer = Failed]]
               /\ client' = Penalised({p})
    BY <1>6 DEF Resolve
  <2>4. p \in Peers
    BY <1>1, <2>2, ManagerIs DEF PeersTyped
  <2>5. client' # NONE
    BY <1>1, <2>2, <2>3, PenalisedIs, NoneIsNoManager DEF PeersTyped
  <2>6. PICK a \in Peers \cup {Failed} :
            run' = [run EXCEPT ![c] = [@ EXCEPT !.at = "publish", !.answer = a]]
    BY <2>3, <2>4
  <2> QED BY <2>1, <2>2, <2>5, <2>6, AnswerStep DEF history
<1>7. CASE NoPeerLeft(c)
  <2>1. /\ run' = [run EXCEPT ![c] = [@ EXCEPT !.at = "publish", !.answer = Failed]]
        /\ run[c].at = "asking" /\ holder' = NONE /\ client' = client /\ pool' = pool /\ live' = live
        /\ UNCHANGED history
    BY <1>7 DEF NoPeerLeft, In
  <2> QED BY <1>2, <1>3, <2>1, AnswerStep DEF history
<1> QED BY <1>4, <1>5, <1>6, <1>7

-----------------------------------------------------------------------------
(* The theorems.                                                           *)

LEMMA InvariantInit == Init => IInv
<1> SUFFICES ASSUME Init PROVE IInv
  OBVIOUS
<1>1. PeersTyped /\ PeersAreSound
  <2>1. clock \in Times /\ writes \in 0 .. MaxWrites
    BY HeightIsAHistory, BoundsAreNatural DEF Init, Times
  <2>2. [until |-> 0, height |-> Height[1], at |-> 1] \in PeerState
    BY HeightIsAHistory, ClockIsNat DEF PeerState, Times
  <2>3. store \in [Seeds -> PeerState]
    BY <2>2 DEF Init
  <2>4. store \in Managers
    BY <2>3, SeedsArePeers, ManagerIs
  <2>5. Dated(store)
    BY DEF Init, Dated
  <2> QED BY <2>1, <2>4, <2>5 DEF Init, PeersTyped, PeersAreSound
<1>2. Fresh \in RunState /\ Fresh.at = "new" /\ Fresh.query = NONE /\ Fresh.answer = NONE
      /\ Fresh.attempts = <<>> /\ Fresh.relayed = {} /\ Fresh.recovered = {} /\ ~Fresh.setting.relay
  <2>1. "new" \in Phases /\ 0 \in 0 .. MaxExchanges /\ <<>> \in Seq(SUBSET Peers)
    BY BoundsAreNatural DEF Phases
  <2>2. {} \in SUBSET Roots /\ 0 \in Nat /\ {} \in SUBSET Peers
    OBVIOUS
  <2> QED BY <2>1, <2>2 DEF Fresh, RunState
<1>3. \A c \in Requests : run[c] = Fresh /\ asked[c] = {}
  BY DEF Init
<1>4. RunsTyped
  BY <1>2 DEF Init, RunsTyped
<1>5. NothingYet
  BY <1>2, <1>3, FlightIs DEF Init, NothingYet
<1>6. Flights
  BY <1>2, <1>3 DEF Init, Flights, Leads, Follows, Flying
<1>7. \A c \in Requests : Tracked(c) /\ Climbed(c)
  BY <1>2, <1>3 DEF Init, Tracked, Climbed, Working, Flying
<1> QED BY <1>1, <1>4, <1>5, <1>6, <1>7 DEF IInv

LEMMA InvariantStep ==
    ASSUME IInv, [Next]_vars PROVE IInv'
<1>1. PeersTyped' /\ PeersAreSound'
  BY PeersStep
<1>2. ASSUME UNCHANGED <<shared, run, history>> PROVE RequestsAreSound'
  <2>1. /\ live' = live /\ holder' = holder /\ client' = client /\ pool' = pool /\ run' = run
        /\ asked' = asked /\ exhausted' = exhausted /\ spoiled' = spoiled
    BY <1>2 DEF shared, history
  <2>2. RunsTyped' /\ NothingYet'
    BY <2>1 DEF IInv, RunsTyped, NothingYet
  <2>3. \A c \in Requests : Leads(c)' /\ Follows(c)'
    BY <2>1, OthersFly
  <2>4. Flights'
    BY <2>1, <2>3 DEF IInv, Flights
  <2>5. \A c \in Requests : Tracked(c)' /\ Climbed(c)'
    BY <2>1, OthersStay
  <2> QED BY <2>2, <2>4, <2>5 DEF RequestsAreSound
<1>3. CASE SyncWrites \/ Tick \/ Terminated \/ UNCHANGED vars
  <2>1. UNCHANGED <<shared, run, history>>
    BY <1>3 DEF SyncWrites, Tick, Terminated, vars, shared, history
  <2> QED BY <1>1, <1>2, <2>1 DEF IInv, RequestsAreSound
<1>4. ASSUME NEW c \in Requests, Step(c) PROVE RequestsAreSound'
  BY <1>4, OpenStep, LookupStep, CloseStep, AskStep, LeaderStep, PublishStep, RemoveStep,
     ValidateStep, ReportStep DEF Step
<1> QED BY <1>1, <1>3, <1>4 DEF Next, IInv, RequestsAreSound

\* The peers, the flights, what a validation consumed and the layers a root
\* fell through agree in every reachable state.
THEOREM InvariantHolds == Spec => []IInv
<1>1. Init => IInv
  BY InvariantInit
<1>2. IInv /\ [Next]_vars => IInv'
  BY InvariantStep
<1> QED BY <1>1, <1>2, PTL DEF Spec

\* What the invariant says of the types.
LEMMA InvariantIsTyped == ASSUME IInv PROVE TypeOK
<1>1. PeersTyped /\ RunsTyped /\ Flights
  BY DEF IInv
<1>2. \A c \in Requests :
          /\ run[c].at \in Phases /\ run[c].exchanges \in 0 .. MaxExchanges
          /\ run[c].attempts \in Seq(SUBSET Peers)
  BY <1>1 DEF RunsTyped, RunState
<1>3. \A c \in Requests :
          Len(run[c].attempts) = IF run[c].at \in {"relay", "queued", "asking", "publish",
                                                   "remove", "following"} THEN 1 ELSE 0
  <2> TAKE c \in Requests
  <2>1. run[c].attempts = IF run[c].at \in Working THEN <<asked[c]>> ELSE <<>>
    BY DEF IInv, Tracked
  <2>2. Len(<<asked[c]>>) = 1 /\ Len(<<>>) = 0
    OBVIOUS
  <2> QED BY <2>1, <2>2 DEF Working, Flying
<1>4. ASSUME NEW q \in Queries, live[q] # NONE
      PROVE  Cardinality({c \in Requests : run[c].query = q /\ ~In(c, "following")}) = 1
  <2>1. PICK c \in Requests : run[c].at \in Flying /\ run[c].query = q
    BY <1>1, <1>4 DEF Flights
  <2>2. {d \in Requests : run[d].query = q /\ ~In(d, "following")} = {c}
    <3>1. ASSUME NEW d \in Requests, run[d].query = q, run[d].at # "following" PROVE d = c
      BY <1>1, <2>1, <3>1, FlightIs DEF Flights
    <3> QED BY <2>1, <3>1 DEF In, Flying
  <2> QED BY <2>2, FS_Singleton
<1>5. holder # NONE => In(holder, "asking")
  BY <1>1 DEF Flights, In
<1> QED BY <1>1, <1>2, <1>3, <1>4, <1>5 DEF TypeOK, PeersTyped, RunsTyped

\* Every variable keeps its type, one leader has a flight on a query, and only
\* a leader that asks holds the client.
THEOREM TypeCorrect == Spec => []TypeOK
BY InvariantIsTyped, InvariantHolds, PTL

\* A lookup reaches the service the user configured only after the transports
\* above it failed for that root, and never after relay answers failed to validate.
THEOREM LadderEndsInDoh == Spec => []DohIsTheLastResort
<1>1. ASSUME IInv PROVE DohIsTheLastResort
  <2>1. \A c \in Requests : Climbed(c)
    BY <1>1 DEF IInv
  <2> QED BY <2>1 DEF Climbed, DohIsTheLastResort, DohComesLast, RelayFailureNeverReachesDoh, In
<1> QED BY <1>1, InvariantHolds, PTL

\* A height keeps the time it was observed at, a session is with a peer that may be
\* asked, and whoever waits for an answer waits for a leader that still has to give it.
THEOREM RelayStateStaysSound == Spec => []RelayStateIsSound
<1>1. ASSUME IInv PROVE RelayStateIsSound
  <2>1. HeightsAreObserved /\ SessionsAreEligible
    BY <1>1 DEF IInv, PeersAreSound, Dated, HeightsAreObserved, SessionsAreEligible
  <2>2. ASSUME NEW f \in Requests, run[f].at = "following"
        PROVE  /\ live[run[f].query] = [answer |-> NONE]
               /\ \E c \in Requests : /\ run[c].at \in {"queued", "asking", "publish"}
                                      /\ run[c].query = run[f].query
    <3>1. live[run[f].query] = [answer |-> NONE] /\ run[f].query \in Queries
      BY <1>1, <2>2 DEF IInv, Flights, Follows
    <3>2. live[run[f].query] # NONE /\ live[run[f].query].answer = NONE
      BY <3>1, FlightIs
    <3>3. PICK c \in Requests : run[c].at \in Flying /\ run[c].query = run[f].query
      BY <1>1, <3>1, <3>2 DEF IInv, Flights
    <3>4. run[c].at # "remove"
      BY <1>1, <3>2, <3>3 DEF IInv, Flights, Leads
    <3> QED BY <3>1, <3>3, <3>4 DEF Flying
  <2> QED BY <2>1, <2>2 DEF RelayStateIsSound, FollowersHaveALeader, In
<1> QED BY <1>1, InvariantHolds, PTL

\* Only a report moves a request on whose validation failed.
LEMMA OnlyReportLeaves ==
    ASSUME IInv, [Next]_vars, NEW c \in Requests, run[c].at = "report", run'[c].at # "report"
    PROVE  Report(c)
<1>1. run \in [Requests -> RunState]
  BY DEF IInv, RunsTyped
<1>2. CASE SyncWrites \/ Tick \/ Terminated \/ UNCHANGED vars
  BY <1>2 DEF SyncWrites, Tick, Terminated, vars
<1>3. ASSUME NEW d \in Requests, Step(d), d # c PROVE FALSE
  <2>1. ASSUME Publish(d) PROVE FALSE
    <3>1. c \notin Woken(run[d].query)
      BY DEF Woken, Followers, In
    <3> QED BY <1>3, <2>1, <3>1 DEF Publish
  <2>2. ASSUME NEW r, run' = [run EXCEPT ![d] = r] PROVE FALSE
    BY <1>1, <1>3, <2>2
  <2>3. CASE Open(d) \/ Lookup(d)
    BY <2>2, <2>3 DEF Open, Lookup
  <2>4. CASE Close(d) \/ Unusable(d) \/ Report(d) \/ Remove(d) \/ NoPeerLeft(d)
    BY <2>2, <2>4 DEF Close, Unusable, Report, Remove, NoPeerLeft
  <2>5. CASE Ask(d) \/ Refresh(d) \/ Resolve(d)
    BY <2>2, <2>5 DEF Ask, Refresh, Resolve, Goes
  <2>6. CASE Validate(d)
    BY <2>2, <2>6 DEF Validate, FirstEnds, RetryEnds
  <2> QED BY <1>3, <2>1, <2>3, <2>4, <2>5, <2>6 DEF Step
<1>4. ASSUME Step(c) PROVE Report(c)
  BY <1>4 DEF Step, Open, Lookup, Close, Ask, Unusable, Refresh, Resolve, NoPeerLeft, Publish,
              Remove, Validate, In
<1> QED BY <1>2, <1>3, <1>4 DEF Next

\* A peer is penalised for a failed validation only if that validation consumed an
\* answer of its, and no copy of the peers, however old, lifts a ban.
THEOREM PenaltiesStaySound == Spec => PenaltiesAreSound
<1>1. ASSUME IInv, [Next]_vars PROVE PenalisesDeserved
  <2> SUFFICES ASSUME NEW c \in Requests, In(c, "report"), run'[c].at # "report",
                      NEW p \in DOMAIN client
               PROVE  /\ client'[p] # client[p] => p \in asked[c]
                      /\ p \in asked[c] => Banned(client'[p])
    BY DEF PenalisesDeserved
  <2>1. Report(c) /\ run[c].peers = asked[c]
    BY <1>1, OnlyReportLeaves DEF In, IInv, Tracked
  <2>2. client \in Managers /\ Dated(client) /\ clock \in Times
    BY <1>1, ClientIsThere DEF In, IInv, PeersTyped
  <2>3. client' = Penalised(asked[c])
    BY <2>1 DEF Report, Blamed
  <2> QED BY <2>2, <2>3, PenalisedIs DEF Banned
<1>2. ASSUME IInv, [Next]_vars PROVE KeepsPenalties
  <2> SUFFICES ASSUME writes' = writes, NEW p \in DOMAIN store
               PROVE  /\ Known(store', p) /\ store'[p].until >= store[p].until
                      /\ holder = NONE /\ holder' # NONE =>
                            Known(client', p) /\ client'[p].until >= store[p].until
    BY DEF KeepsPenalties
  <2>1. PeersTyped /\ PeersAreSound /\ store[p].until \in Nat
    BY <1>2, ManagerIs, ClockIsNat DEF IInv, PeersTyped
  <2>2. ASSUME store' = store PROVE Known(store', p) /\ store'[p].until >= store[p].until
    BY <2>1, <2>2 DEF Known
  <2>3. ASSUME client \in Managers, Dated(client), Persist(client'), NEW ps,
               client' = client \/ client' = Penalised(ps)
        PROVE  Known(store', p) /\ store'[p].until >= store[p].until
    <3>1. client' \in Managers /\ Dated(client')
      <4>1. CASE client' = client
        BY <2>3, <4>1
      <4>2. CASE client' = Penalised(ps)
        BY <2>1, <2>3, <4>2, PenalisedIs DEF PeersTyped
      <4> QED BY <2>3, <4>1, <4>2
    <3> QED BY <2>1, <2>3, <3>1, PersistIs DEF PeersTyped, PeersAreSound
  <2>4. CASE SyncWrites
    BY <2>1, <2>4, BoundsAreNatural DEF SyncWrites, PeersTyped
  <2>5. CASE Tick \/ Terminated \/ UNCHANGED vars
    BY <2>2, <2>5 DEF Tick, Terminated, vars, shared
  <2>6. ASSUME NEW c \in Requests, Step(c)
        PROVE  /\ Known(store', p) /\ store'[p].until >= store[p].until
               /\ holder = NONE /\ holder' # NONE =>
                     Known(client', p) /\ client'[p].until >= store[p].until
    <3>1. CASE Open(c)
      <4>1. Known(Seeded, p) /\ Seeded[p] = store[p]
        BY <2>1, SeededIs DEF PeersTyped, PeersAreSound
      <4>2. holder' = holder /\ (store' = store \/ store' = Seeded)
        BY <3>1 DEF Open
      <4> QED BY <2>1, <2>2, <4>1, <4>2
    <3>2. CASE Lookup(c) \/ Close(c) \/ Ask(c) \/ Unusable(c) \/ Publish(c) \/ Remove(c) \/ Validate(c)
      <4>1. store' = store /\ holder' = holder
        BY <3>2 DEF Lookup, Close, Ask, Unusable, Publish, Remove, Validate, network, shared
      <4> QED BY <2>2, <4>1
    <3>3. CASE Refresh(c)
      <4>1. store' = store /\ run[c].at = "queued" /\ ~run[c].broken
        BY <3>3 DEF Refresh, network, In
      <4>2. client \in Managers /\ Dated(client)
        BY <1>2, <4>1, ClientIsThere
      <4>3. holder' = holder \/ client' = Refreshed
        BY <3>3 DEF Refresh
      <4> QED BY <2>1, <2>2, <4>1, <4>2, <4>3, RefreshedIs DEF Known, PeersTyped, PeersAreSound
    <3>4. CASE Resolve(c)
      <4>1. run[c].at = "asking" /\ Persist(client') /\ holder' = NONE
        BY <3>4 DEF Resolve, In
      <4>2. client \in Managers /\ Dated(client)
        BY <1>2, <4>1, ClientIsThere
      <4>3. PICK x : client' = client \/ client' = Penalised({x})
        BY <3>4 DEF Resolve
      <4> QED BY <2>3, <4>1, <4>2, <4>3
    <3>5. CASE NoPeerLeft(c)
      <4>1. run[c].at = "asking" /\ Persist(client') /\ holder' = NONE /\ client' = client
        <5>1. Persist(client) /\ client' = client /\ run[c].at = "asking" /\ holder' = NONE
          BY <3>5 DEF NoPeerLeft, In
        <5> QED BY <5>1
      <4>2. client \in Managers /\ Dated(client)
        BY <1>2, <4>1, ClientIsThere
      <4> QED BY <2>3, <4>1, <4>2
    <3>6. CASE Report(c)
      <4>1. run[c].at = "report" /\ Persist(client') /\ holder' = holder /\ client' = Penalised(Blamed(c))
        BY <3>6 DEF Report, In
      <4>2. client \in Managers /\ Dated(client)
        BY <1>2, <4>1, ClientIsThere
      <4> QED BY <2>3, <4>1, <4>2
    <3> QED BY <2>6, <3>1, <3>2, <3>3, <3>4, <3>5, <3>6 DEF Step
  <2> QED BY <1>2, <2>4, <2>5, <2>6, <2>2 DEF Next
<1>3. IInv /\ [Next]_vars => [PenalisesDeserved /\ KeepsPenalties]_vars
  BY <1>1, <1>2
<1> QED BY <1>3, InvariantHolds, PTL DEF Spec, PenaltiesAreSound
=============================================================================
