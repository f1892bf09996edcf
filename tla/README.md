# Formal models of the Shakescape browser extension

TLA+ models, TLC configurations and TLAPS proofs for the Chromium extension,
the Rust native host, the platform runtime, the pool statistics verifier and the
setup program in this repository. Everything is in this directory. Paths below
are relative to the repository, and these names are short for:

- `runtime`: `src/rust/crates/hns-chromium-platform-runtime/src/lib.rs`
- `host`: `src/rust/crates/hns-chromium-native-host/src/lib.rs`
- `wallet_abi`: `src/rust/crates/hns-chromium-native-host/src/wallet_abi.rs`
- `hrm`: `src/rust/crates/hns-meshmine-pool-stats/src/hrm.rs`
- `installer`: `src/rust/crates/hns-browser-setup/src/installer.rs`
- `worker`: `src/extension/src/service-worker.js`

To run one model and one proof:

    tlc -workers 2 -config MCRecovery.cfg MCRecovery
    tlapm CanonicalAuthorityProofs.tla

`PROJECT.json` lists the components, the runs with their properties, the source
lines of every definition, the hazards, the findings and the theorems. It also
names one mutant for every property: an operator that stands right before the
definition it would replace, and with which TLC finds the property violated.

## The system

A Manifest V3 service worker selects a mandatory PAC script that sends all
browsing through a loopback proxy. The proxy lives in a native process that the
worker starts and talks to over native messaging. The process embeds a runtime
that keeps the Handshake header chain, resolves names against two roots, and
admits and publishes every proxied request under one *canonical authority*.
The same process admits and starts a released wallet service and keeps a private
read session with it. Several browsers, each with a host, and the setup program
share one data directory.

| Part | State | Operations | Hard because |
| --- | --- | --- | --- |
| Canonical authority (`runtime` 1100-1980) | state machine behind a Mutex, prepared and active proxy generation, policy generation, queue of pending statuses | prepare, activate, cancel, revoke a proxy; change the policy; admit, describe and publish a request; observe a response | request threads work without any lock between admission and publication; a proxy accepts before it is bound and is revoked after it stopped |
| Header publication (`runtime` 2140-2620, 2983-3471, 4317-4456, 13230-13400) | `headers.sqlite`, `peers.sqlite`, the `.header-state` record, three lock files; in each process a maintenance epoch and the remembered name-tree authority | sync, snapshot import, reset, cache clear, add a relay peer, status, proxied request, CONNECT tunnel | several processes; two databases without a common transaction; crashes; a long network exchange on a private copy |
| DNS relay and fallback ladder (`runtime` 6614-8008) | table of flights, shared relay client and its copy of the peers, memory of each resolver | look up, lead or follow a flight, validate, penalise, retry, ask the recursive service | a client works on its own copy of the peers; waits without timeout; a retry must not reopen a weaker transport |
| Origin plan (`runtime` 8412-9532) | the session of a build, both roots' plans, the binding store | build a plan under each root, decide, commit the namespace | many queries while trees are replaced; decisions long before their commit |
| Gateway exchange (`runtime` 3775-5700) | one exchange, its evidence, its lease, both halves of a tunnel, a staged file | CONNECT, proxied, upgrade, direct, download | minutes or hours between admission and the last byte |
| Native host (`host` 320-830, 1756-2160) | proxy, observations of the current context and epoch | start, stop, status, diagnostics, sync, shutdown; observations from worker threads | observations arrive late and out of order; a response is put together under several locks |
| Local CA store (`host` 1362-1591) | bundle, PEM, marker, generation lock file | open, mark, clear | lock file left by a dead process, judged by age and removed by path |
| Wallet admission and launch (`wallet_abi` 2891-4810) | manifest and executable, anti-rollback state under a file lock | inspect, commit, launch with revalidation | several hosts with different tables, an installer, deaths |
| Wallet read session (`wallet_abi` 1601-2891) | restart generation, active session, channel sequence | start, read, use the HNS authority, invalidate | starts that fail half way; a use between two rounds of reads |
| Pool statistics (`hrm`) | sequenced replay state, released results | admit, commit, reload, release, reconfirm | a commit that may end unknown |
| Setup program (`installer`) | install root, registrations, trust store, receipt, transaction | install, repair, uninstall | stopped between any two files; others place files at the same paths |
| Mandatory PAC (`src/extension/src/proxy-lifecycle.js` 1-118) | selected script, desired script and revision, queue | install, repair after a late mutation | Chromium may apply a setting long after the call was given up |
| Extension lifecycle (`worker` 411-1065, 1715-2187) | connection, credentials, gate, status, alarms, control epoch | start, replace, native disconnect, recover, refresh, expire, sync | every `await` is an interleaving point; the worker may be killed at any of them |
| Navigation receipts, wallet provider and approvals, header sync schedule | maps keyed by tab, origin, request | correlate, approve, expire | messages of pages, tabs and host cross |

The worker calls the host (one request at a time, answers matched by id and
session). The host calls the runtime synchronously and receives statuses from
the runtime's proxy threads by callback. A gateway exchange builds an origin
plan, whose HNS half is resolved through the fallback ladder, is admitted by the
canonical authority and reads the header state. Processes interact through the
data directory only: databases, the record, the lock files, the anti-rollback
state. The setup program calls the host's utility commands for its manifest and
its certificate authority.

What makes the parts correct, in a sentence each:

- *authority*: bytes reach a browser only under the policy, the proxy and the
  header root that the request was admitted under;
- *publication*: every reader, in every process, sees one atomically replaced
  header state, and a crash loses a publication but never the ability to make
  the next one;
- *relay*: weaker transports come last, and a peer pays for its own answers only;
- *plan*: an origin has one namespace, and what a plan rests on belongs together;
- *exchange*: what is handed on is still authorized when it is;
- *host*: what the extension is told belongs together and never goes back;
- *CA store*: one installation has one authority;
- *wallet admission*: releases go forward, and what is started is the newest;
- *wallet session*: one service, and no use of an authority that has changed;
- *pool statistics*: nothing is released out of order or after a contradiction;
- *setup*: what it reports is exact, and what it made the user trust is recorded;
- *PAC*: the script selected in the end is the one asked for last.

## Modules

| Module | Models | Role |
| --- | --- | --- |
| `CanonicalAuthority` | authority, proxy lifecycle, policy change, requests, statuses | component |
| `CanonicalAuthorityProofs` | | inductive invariant and theorems |
| `HeaderPublication` | databases, record, locks, epochs, syncs, mutations, requests, crashes | component |
| `HeaderPublicationProofs` | | inductive invariant and theorems |
| `AtomicHeaderState` | what readers of the header state are promised | abstract specification, refined by `HeaderPublication` |
| `DnsRelay` | flights, relay client, peers, attempts, order of transports | component |
| `DnsRelayProofs` | | inductive invariant and theorems |
| `OriginPlan` | `RootResolutionSession`, plans, decision, binding store | component |
| `GatewayExchange` | evidence, status, headers, permits, tunnels, downloads | component |
| `ResolutionProofs` | | inductive invariants of `OriginPlan` and `GatewayExchange`, theorems of `MCResolution` |
| `NativeHost` | host thread and `SecurityObservations` | component |
| `NativeHostProofs` | | inductive invariant and theorems |
| `LocalCaStore` | bundle, lock file, PEM, marker over several processes | component |
| `WalletAdmission` | inspection, anti-rollback state, launch | component |
| `WalletSession` | `WalletReadSessionLifecycle`, session, service | component |
| `HrmPoolStats` | replay state, quarantine, commit before release | component |
| `WalletProofs` | | inductive invariants of the three, theorems of `MCWallet` |
| `SetupTransaction` | install, repair, uninstall, trust store, records | component |
| `StoresProofs` | | inductive invariants of `LocalCaStore` and `SetupTransaction`, theorems of `MCStores` |
| `MandatoryPac` | `SerializedMandatoryPacController` and Chromium's proxy setting | component |
| `HostProofs` | | inductive invariant of `MandatoryPac`, theorems of `MCHost` |
| `MC*` | | instances for TLC |

Five of the MC modules put components that do not share state into one run.
`part` says which of them a behaviour is about and never changes; the others
keep one initial state, so the states of such a run are the disjoint union of
its parts. `MCHost` has `NativeHost` and `MandatoryPac`; `MCWallet` the three
wallet and statistics modules; `MCStores` has `LocalCaStore` and
`SetupTransaction`; `MCResolution` the three modules of name resolution and
exchange; `MCRecovery` has `HeaderPublication` and `LocalCaStore` with crashes
and the fairness of both. Properties of instanced modules are restated there for
their part.

### CanonicalAuthority

A critical section under the runtime Mutex is one action; everything done
outside is an action of its own. `PrepareProxy`, `StartListener`,
`ActivateProxy`, `CancelPreparedProxy`, `StopProxy`, `RevokeProxy` are the
steps of `start_browser_proxy_with_options` and of `BrowserProxy`'s stop and
drop. `UpdatePolicy`, `ClearStatuses`, `StorePolicy` are the three steps of
`set_policy_locked` under the policy write lock. A request goes through
`BeginRequest` (shared header locks, root observed), `VerifyForAdmission` and
`Admit` (the two halves of `admit_binding`), `ReadPolicy`, `DescribeStatus` and
`PushStatus` (`insert_with_epoch`), `VerifyForPublication` and `Publish`; a
failed check in between is `Abandon`. The observer is `TakeStatus`,
`CheckStatus`, `DeliverStatus`. The states and events of the crate
`hns_browser_runtime` are external: an invalidation takes an event of its own
and sets the floor under which stamps are stale. Which state `policy_changed`
leaves is left open. The header state is reduced to the root that readiness
would verify (`PublishRoot`, `ExpireRoot`).

### HeaderPublication and AtomicHeaderState

`Needs` gives the locks of every step in the order of the code: sync mutex,
`.header-sync`, maintenance RwLock, `.header-state`, peer mutex, `.peer-state`.
With `OneByOne` a thread takes them by separate steps (`Acquire`), and a
request, which uses `try_lock`, gives all of them up (`Backoff`); otherwise a
section starts when all its locks are free, which loses nothing when waiting is
not the question because nothing is read or written between two acquisitions.
The commits of the two databases and the writes of the record are separate
actions (`BeginPublication`, `CommitHeaders`, `CommitPeers`, `MarkReady`), so
that `Fail` and `Crash` can strike between any two, also inside a record write
(`Torn`). The exchange with the network is `Fetch`: some chain, with fresh or
stale evidence. `Stage` copies the baseline, `StageIsCurrent` compares it at
publication. `spoiled`, `issued` are history variables. `Undisturbed` is `Next`
without faults, for the instances whose question is not about them.

`AtomicHeaderState` has a visible state or none, replaced as a whole by a state
with a newer generation, and work that is delivered only while the visible
state has the root it began under. `IsAtomic` is the refinement: visible is
`Readable`, `work` is the root in a lease, `delivered` a request whose bytes
go out.

### DnsRelay

A request owns a resolver and looks up `MaxLookups` names; `run` has its phase
and what its resolver remembers of each root. Direct DNS comes first; its
transport failure leads to the relay, where a request leads a flight or follows
one (`live`), waits for the client's mutex (`holder`), refreshes the client's
copy of the peers from the store, asks, publishes the answer, and removes the
flight. `report` penalises the peers whose answers the failed validation
consumed; the one retry and the recursive service follow from the outcome.
Every section under the peer-state lock is one step. `SyncWrites` is header
sync writing the store; `Tick` lets bans lapse. `asked`, `exhausted` and
`spoiled` are history variables. The relay client, the validator and the
transports are libraries and may end either way.

### OriginPlan

One request builds a plan under HNS and then under ICANN, a query per step
(`Query`, `QueryFails`): HTTPS, addresses of both families, TLSA owner names per
transport, with alias steps. `NewTree` replaces the name tree, and with it the
proof of any later answer, between any two queries. `Decide` is the part of the
decision this repository takes, `Publish` commits the namespace, `OtherPublishes`
is any other request of the origin. `zone` fixes for a behaviour what is signed
and where TLSA records are. `published` and `proofs` are history variables.

### GatewayExchange

One exchange of any of the five kinds, from `Begin` through `Dial`, `Answers`,
`Settle` and `Publish` to the steps of the two tunnel halves or the move of the
staged file. Evidence is an honest answer in which one field has any value:
what status and headers claim may not rest on the gateway's consistency in more
than the other fields. `NewTree`, `Reconcile`, `ReadinessChanges`,
`EndAuthority`, `OtherCommits`, `RecheckIsDue` and `Crash` happen at any step.

### NativeHost

The host's thread is a sequence of `step`s, one per access to the observations'
mutex or to the runtime. `Admit` creates an observation under the runtime's
counters of that moment; `Observe` hands it over at any later time, after the
proxy stopped too (a dropped proxy does not wait for its workers). An epoch of
0 is the `None` that `publication_epoch` returns once the epoch ran out.

### LocalCaStore

Every file-system access of `LocalCaStore::open`, `create_local_ca_bundle`,
`acquire_ca_lock` and `lock_is_stale` is an action; `write_atomic` is one,
because the file appears by rename. `RemoveStale` removes *whatever* file is at
the path. `Die` leaves a lock file behind; `Age` lets it reach
`STALE_LOCAL_CA_LOCK_AGE`, if the constant `Aging` allows it. The removal
follows POSIX: an open file can be unlinked.

### WalletAdmission

A host reads the manifest, checks the executable against it, takes the file
lock and reads the anti-rollback state (`BeginCommit`), then decides, writes and
reports (`Commit`). A launch takes the lock, revalidates (`LockForLaunch`),
copies the executable, verifies the copy and the files (`Verify`) and starts it
(`Spawn`) before it lets the lock go. Documents are records of what the checks
tell apart; a file's version stands for the metadata that `same_open_file`
compares. The installer puts any prepared file at either path at any time, and
so do deaths, the removal of the state file, a replaced database and the clock.
Hosts have tables of their own: one may qualify what another does not.

### WalletSession

`Program` gives the steps of every call; `Step` runs the one at hand. A broken
exchange is one answer, whatever the frame suffered. `ChangeWallet`,
`MoveLease`, `ReplaceDatabase` and `ServiceExits` happen between any two steps.
A session ends with its service when a call fails; `next` is taken before a
start can fail. `newest` and `used` are history variables.

### HrmPoolStats

`Admit` verifies on a copy of the loaded state, `Commit`, `CommitFails` and
`CommitIsUnknown` are the three ends of the caller's write, `Load` is the reload
that an unknown end requires, `Release` gives the result out if the lease is
still held. Authorities and documents are arbitrary positions in their
sequences; bytes and signatures are abstracted to whether they verify.

### SetupTransaction

A run of setup has a phase and a set of things left `todo`; each file and each
trust entry is a step, and `Break` ends the run before any of them. Between runs
`Meddle`, `Squat` and `Renew` are other programs at the same paths, an entry
under the nickname of one of the certificates, and the host's own renewal.
Whether a registration may be replaced or removed (`Replaceable`,
`OwnedManifests`) follows from the receipt and the transaction, and the master
manifest where the code asks it.

### MandatoryPac

`Install` appends to the promise chain; its head goes through `BeginSetting`
and then `Confirm`, `Refuse` or `TimeOut`, followed by `ReadBack` or `GiveUp`.
`hung` holds the settings that Chromium has yet to apply, `watched` whether the
code attached `repairAfterLateMutation`. A setting is applied and its callback
run in one step, as in the tests' fakes; another extension taking the setting
over is not modelled.

## Runs

All bounds are constants named in the modules; a bound stops what the
environment may begin, never something the code does once begun.

| Run | Bounds | Shows |
| --- | --- | --- |
| `authority` | 2 requests (the second only beside the first proxy and root), 2 generations, 1 policy change, 2 roots, queue of 1 | bytes are published under policy, proxy and root of their admission (`PublishedUnderItsStamp`); a stale stamp stays stale; a status names the policy its work ran under; every request ends |
| `publication` | 2 processes; on one a thread that syncs, clears and reads the status and a proxied request, on the other imports, resets and added peers; 2 interchangeable chains with a root each; epoch limit 2 | refinement of `AtomicHeaderState`; an epoch names one root; work dies with its epoch, an exhausted epoch is final; no added peer is lost |
| `publication_locks` | 2 processes, 3 threads, every lock a step | no circular wait, counting readers queued behind a writer |
| `crash_recovery` | publication: 2 processes, 1 fault, 2 generations; CA store: 2 processes, 2 deaths, 2 attempts | no half publication is ever read; generations are not reused; the header state becomes readable again unless a counter ran out; an abandoned CA lock does not prevent creation |
| `host` | observations: 2 generations, 2 epochs, 3 events of which 2 at a time, lists of 2; PAC: 2 clients, 3 control epochs, 2 late settings, 5 installations | order and length of the lists; one response is of one context and epoch; the main frame never regresses; given-up settings are repaired, repairs do not multiply; "ok" means selected |
| `wallet` | admission: 2 hosts with different tables, 4 manifests in 2 lines with a fork, 4 installations, 1 fault; session: 2 wallets, 3 generations, 2 changes around it; statistics: numbers up to 2, 2 operators, 4 commits | the anti-rollback state never goes back; an admitted release is durable; only the newest release starts; one service, with fresh generations and agreed sequences; an authority used is the one held; snapshots are released in order, none after a contradiction, and what can be reconfirmed is the newest |
| `stores` | CA store: 3 processes, 2 faults, 2 attempts, no lock file ages; setup: 2 manifests, 2 browsers, 1 trust store, 2 certificates | one authority, never replaced; whatever is trusted is recorded wherever setup stops; a reported install or removal is exact; nobody else's entries are touched |
| `resolution` | relay: 2 requests with 2 and 1 lookups, 2 roots, 2 peers, 2 times, 1 write of a sync; plan: 3 trees, all signing patterns, 2 aliases; exchange: 2 trees, 2 epochs | the recursive service is the last resort; peers pay for their own answers and bans stay; one namespace per origin; a plan is of one tree and one path; DANE is not downgraded; tunnels and downloads are authorized to the end |
| `host_retention` (violation) | 1 generation, 1 event | finding 1 |
| `ca_store_stale` (violation) | 2 processes, 1 fault | finding 2 |
| `setup_repair` (violation) | no canonical manifest, 2 certificates | finding 3 |
| `plan_tlsa` (violation) | as in `resolution` | finding 4 |

Why these suffice:

- A process learns of others only through the record, which does not say who
  wrote it, so two processes meet everything a third could add; two chains with
  different roots, each of which a sync may also only renew, are what
  `PreservesAuthority` can tell apart. The single fault may fall between any two
  writes of either process, in its first publication or in one that replaces
  another. The generation and epoch limits are reached, so both counters run out.
- Two observations of one kind are enough to be out of order, three overflow a
  list of two; a proxy has one policy for its life, so a second policy would
  separate nothing that the second generation does not.
- Two openers and a dead third are what a stale lock takes.
- A fork of a release and a successor qualified by one host only are the two ways
  in which tables differ; the fourth installation replaces either file a second
  time, under a host that holds the first.
- Two requests for one query make a leader and a follower, and the second lookup
  of a request meets the memory of the first. Two observed heights, the older
  larger, are what a merge of two evidences can mix up.
- The alias limit is `MAX_ALIAS_STEPS` scaled down to 2, which is reached.
- In `stores` and `wallet` the first operator, digest, delegation and envelope of
  the statistics, and the browsers of setup, are interchangeable: `FirstNames`
  and `Renaming` keep one of each choice.

Deadlock is checked in `publication`, `publication_locks`, `crash_recovery`,
`resolution`, `ca_store_stale`, `setup_repair` and `plan_tlsa`. It is not checked
in the others because their parts may really stop: all requests may be over, the
host may have exited, a browser that installs nothing waits for nothing, the
installer has no more files, and the openers of the CA store have all finished.

## Fairness

- `CanonicalAuthority`: a thread inside a call goes on (weak fairness on its
  steps), nobody has to start one. The request steps wait for no lock for ever:
  the policy write lock is released by the fair `PolicyStep`.
- `MCRecovery`, headers: strong fairness for a thread's step or lock acquisition,
  since a lock that is free infinitely often is eventually granted by the
  operating system and by Rust's queue-fair RwLock, and for opening the storage,
  as a crashed process is started again by the reconnect alarm; weak fairness for
  starting a sync, as the extension's alarms do again and again.
- `MCRecovery`, CA store: openers go on and are started again after a failed
  open; time passes, so an abandoned lock file grows old.

The other specifications state no fairness: their properties are safety. That a
follower of a relay flight does not wait for ever, which is a liveness concern,
is checked as an invariant: whoever waits finds an unanswered flight and a leader
that still has to answer it (`FollowersHaveALeader`).

## Proofs

`CanonicalAuthorityProofs` proves for any number of requests, generations,
policy changes, roots and any queue bound:

- `TypeCorrect`;
- `InvariantHolds`, the inductive invariant `IInv`. Its parts: every stamp is
  at or below the last event, and at or below the floor whenever the state is
  not Active; the canonical policy is one ahead exactly while a change is under
  way; work whose stamp is still admitted read the policy in force, with no
  change under way; a bound generation has a listener that lives; a verified
  root is the stamped one, or evidence ran out since. None of the safety
  properties is inductive alone: they look at publication, while what makes
  them true was established at admission;
- `StatusesNameTheirPolicy`, `PublicationsKeepTheirStamp`,
  `StaleStampsAreFinal`: the safety properties of the `authority` run.

Its assumptions are those declared in the module: bounds are naturals, and
`NoRoot` is not a root.

`StoresProofs` is about `MCStores`, whose two parts share no state.

CA store: `TypeCorrect` without hypothesis and, for `Aging = "none"`, that the
lock file excludes (`LockExcludes`: who is under the lock created the file, and a
writer finds no bundle), hence `OneAuthorityHolds` and `BundleIsKept` for any
number of processes, crashes and failures. The hypothesis is needed:
`ca_store_stale` refutes the conclusion without it. `MCStores` implements this
specification (`StoresImplementsCa`).

Setup: for any browsers, manifests, trust stores, hosts and any number of
certificates, `TrustIsRecorded` and `SetupOutcomesAreExact`. `AnchorsAreRecorded`
is not inductive: a certificate becomes trusted some steps after the transaction
that names it was written, and is still trusted when the transaction goes. The
invariant `SetupInv` adds what the phases of a run rely on. `OneStore`: all
records and the run name one trust store, so a certificate is distrusted where
it was trusted. `Recorded`: from the transaction on, the transaction names the
certificate the run is about; once the receipt is written, it names whatever the
transaction did, so the transaction may go. `Rooted`: a record is in an install
root, which is why a removal that finds no root may report success with the
records unread. `Cleared` and `Removed`: what a run has passed is gone and stays
so, except what is still in `todo`. The last look of an installation
(`Installed`) checks only the selected browsers and the receipt's certificate;
`Cleared` supplies the rest of `InstallsExactly`. Assumed is that `NONE` and
`FOREIGN` are no manifest, trust store, host or certificate.

`WalletProofs` is about `MCWallet`, whose three parts share no state.

Admission: for any hosts with any tables, any documents and any number of
installations and faults, `StateNeverGoesBack`, `AdmittedReleasesAreDurable` and
`OnlyCurrentReleasesStart` of `WalletAdmission`, which `MCWallet` implements
(`WalletImplementsAdmission`). The invariant says
what the file lock is for: whoever decides or launches holds it; what was read
under it is still what the file says; a host that offers a release inspected it
and finds it, or a successor, in the state; and between the last check and the
start the state names the very release. The one exception carried through every
part is the removal of the whole file, which the code cannot prevent. Assumed
are that markers are no documents, contents or entries, that sequences are
naturals, and what an installer may leave behind.

Session (`ServicesStaySeparate`, `AuthorityIsHeldInUse`): the generation of a
start is fresh until its process exists; there is one process, that of the start
in progress or of the session, and both ends count alike. Lease, database and
revision only grow, so what held at a use lies between its values at entry and
at release (`Between`), and comparing these two is enough. The position of a
call in its program, which the actions test by name, is turned into a number
first (`StartSteps`, `AuthoritySteps`, `ReadSteps`).

Pool statistics (`PoolStatsStayAhead`): what a state may become is a relation
(`Moves`) that every operator of the verifier satisfies, a failed one included,
and that composes; a candidate has it to what is stored, nothing released or
held is ahead of what is stored, and a state of the same generation is the same
state. That histories stay within their limits makes every candidate one that
can be encoded.

`HeaderPublicationProofs` proves, for any number of processes and threads, any
chains and any limits:

- `LocksExclude`, from the invariant that two threads never hold locks that
  clash, and `NobodyWaitsInACircle`: every operation takes its locks in one
  order (`Rank`), so whoever waits in a supposed circle for the highest of the
  locks waits for a thread that waits for nothing. Writers that queue before
  readers are part of the relation;
- `ReadyStatesAreWhole` and `GenerationsOnlyGrow`. What makes them inductive is
  who may write and with which number: whoever replaces the state has announced
  it in the record, keeps the file locked, and writes a number beyond every one
  that was ever ready (`issued`), even after a reset took the generation of the
  headers back to zero;
- `EpochsNameRoots` and `WorkEndsWithItsEpoch`: a lease is no newer than the
  epoch of its process, and one of this epoch has the root remembered for it;
- `PeersAreKept`: every writer of the peers merges with what it finds, so this
  action property needs no invariant;
- `StateIsAtomic`, the refinement of `AtomicHeaderState`: every initial state
  maps to one, and every step to a step or a stutter, the steps of the four
  stores between two ready records to stutters.

`NativeHostProofs` proves `ObservationsStayOrdered`, `ResponsesAreOfOneTuple`
and `MainFramesOnlyAdvance` for any number of proxies, policies, epochs and
observations. The lists are inserted into, truncated and filtered by recursive
functions, so its lemmas about them first derive from the well-foundedness of
the naturals that what holds of 0 and is passed on holds up to any N
(`UpTo`), for a set instead of an operator. No main frame goes back because
every older one still on its way to an epoch that a response may be about meets
the floor or the highest epoch there (`NeverOlder`); a new proxy and a sync
forget the floor, but what comes after them is of later events.

`DnsRelayProofs` proves `LadderEndsInDoh`, `RelayStateStaysSound` and
`PenaltiesStaySound` for any requests, roots, queries, peers and heights. Its
invariant has four parts: heights keep the time they were observed at, and
sessions are with members that are not banned; a flight is in the table exactly
while its one leader is at it, and a follower waits for an unanswered one; a
request's stack of attempts holds exactly the peers whose answers the running
validation consumed; and the layers a root fell through, which the resolver's
memory decides by, really failed for it.

`HostProofs` is about `MCHost`. For the controller it proves
`LateSettingsAreRepaired` and `OkIsOwnScript` for any scripts, clients and
control epochs: installations wait in the order of their revisions, above
whatever was confirmed or given up, and the last one is the desired script; each
setting that may still land is paid for by a fault. `HostTypesCorrect` therefore
says that repairs do not cause repairs: revisions stay within `MaxRevision` and
the number of faults, without a bound on what the controller itself installs.

`ResolutionProofs` is about `MCResolution`, whose parts share no state, so that
its invariant is that of `DnsRelay` and one for each of the others.

- Plan (`OriginsKeepOneNamespace`, `PlansStayCoherent`, `DaneIsKept`): every
  tree that proved something to the session is remembered with the name it was
  asked about, or contradicted what was remembered; therefore a lookup that did
  not fail rests on one tree. Only an origin whose own zone is not signed is
  ever seen unsigned. A namespace is committed only where none or the same was.
- Exchange (`DeliveriesAreCurrent`): what a settled exchange may claim follows
  from how its evidence was judged, which differs for a CONNECT; while a half of
  a tunnel holds the shared locks, tree, epoch and lease stay what they were;
  what is staged for a download has the namespace it was admitted under.

Each of these modules assumes what the component's module declares: bounds are
naturals, tables have the types the code gives them, and the marker for nothing
(`NONE`, `NoRoot`, `NoChain`) is none of the values it stands beside.

Every invariant and action property of a passing run is stated by a theorem.
Only model-checked are the liveness properties (`RequestEnds`, `HeadersRecover`,
`AuthorityIsCreated`), which are out of the prover's reach. So is what a
recursive definition computes in general; only for the lists of `NativeHost`,
where a set of indices is enough, is it derived.

## Findings

1. **A sync can erase a CONNECT decision of a newer epoch** (`host` 1774). The
   epoch to retain is read without the observations' mutex. If a proxied request
   advances it and a decision of the new epoch is observed before the mutex is
   taken, the retention with the old sample drops that decision. The comment at
   `host` 1769-1773 says only stale-epoch results are discarded.
2. **Two local authorities for one installation** (`host` 1568). After a process
   died under the generation lock, two others can both judge the lock stale; the
   second removal takes the fresh lock of the first, both generate, and the
   process that loaded the first authority serves with one that is no longer on
   disk. The test `local_ca_store_is_stable_private_and_explicitly_marked`
   states the opposite for stores opened one after the other.
3. **A repair can be refused for what setup itself wrote** (`installer` 1833).
   Registrations precede the transaction that names them. A run stopped in
   between leaves a registration no record names; a repair with other extension
   ids refuses it as somebody else's, after it has overwritten the master
   manifest by which a removal would have recognised it. The comment at
   `installer` 201 calls repair the recovery of a partial installation for which
   no receipt was committed.
4. **A missing TLSA owner name counts as absence under HNS** (`runtime` 8829).
   Once addresses were found, an NXDOMAIN for the TLSA owner name still ends the
   build as an HNS absence, and ICANN can be selected. The comment at `runtime`
   8928-8934 says a DNSSEC-secure HNS address is namespace presence.

## Not modelled

- The extension lifecycle, the header sync schedule, navigation receipts, the
  wallet provider and its approvals: the extension's own concurrency above the
  PAC controller. They appear as the clients of the models they call.
- Framing and the writer thread of `main.rs`, the dispatch of wallet and
  statistics requests, PAC text, extension pages, scripts and tools.
- Windows registry, ownership and path checks of setup beyond accepted or
  refused; request parsing, sizes and deadlines of the gateway; lifetimes of
  evidence and resolver caches; byte forms of documents and snapshots.
- SQLite is assumed to commit atomically. File locks are advisory and released
  on death, as the platform promises. The `u64` limits are small constants, so
  that counters do run out.

Behaviour met while modelling that no property is about, since no document says
otherwise:

- A PAC setting accepted by readback is not watched afterwards
  (`proxy-lifecycle.js` 78): if the script was selected already, a setting given
  up may land later and nothing repairs it. `GivenUpIsRepaired` excepts it.
- The namespace of an origin is bound before the response is written
  (`runtime` 1700); when the write fails the origin stays bound.
- Followers of one flight each penalise the peer whose answer failed for all.
- A merge of relay peer state can bring back a peer that another path removed.
- A leader that panics leaves its flight unanswered, and its followers waiting.
- Two setup programs started at once share no lock; the model has one at a time.
- The rejection of a raw download request is written to the target file itself,
  not staged.

## Plan

1. `ExtensionLifecycle` over `MandatoryPac`: two racing starts, native
   disconnect and its cleanup, recovery, status refresh, evidence expiry, gate
   queue, native client, worker death. Properties: the blocker precedes the
   disconnect of the proxy a live PAC names; credentials precede the PAC; a
   restored generation is intact; eventually open or blocked once faults stop.
   Then header sync and its schedule in the same module.
2. `NavigationReceipts`, `WalletApproval` (one-time approvals, invalidation on a
   new control generation, router limits).
3. Composition of `CanonicalAuthority` with `HeaderPublication`, whose `root`
   and `Readable` are the same thing seen from two sides.
4. Proofs: what item 3 adds, and the new modules as they come.
