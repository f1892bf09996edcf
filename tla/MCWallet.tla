------------------------------ MODULE MCWallet ------------------------------
(* WalletAdmission, WalletSession and HrmPoolStats in one run: `part` says  *)
(* which of the three a behaviour is about; the others keep their initial   *)
(* state.                                                                   *)
(* Three releases of one line (the second one twice, as a fork), and one    *)
(* that starts a second line.                                               *)
EXTENDS WalletAdmission, TLC

Release(id, line, seq, previous, content) ==
    [id |-> id, line |-> line, seq |-> seq, previous |-> previous, key |-> "k",
     artifact |-> content, shape |-> "canonical", fields |-> TRUE, payloadMatches |-> TRUE,
     signed |-> TRUE, capabilities |-> <<"base", "reads">>,
     published |-> 0, from |-> 0, until |-> Absent]

One == Release("one", "l", 1, Absent, "x")
Two == Release("two", "l", 2, "one", "x")
Fork == Release("fork", "l", 2, "one", "x")
Other == [Release("other", "o", 1, Absent, "x") EXCEPT !.until = 1]

MCDocuments == {One, Two, Fork, Other}

MCManifestFiles == {<<m, "immutable">> : m \in MCDocuments} \cup {<<Two, "writable">>}
MCArtifactFiles == {<<"x", "immutable">>, <<"y", "immutable">>}

Qualify(m, genesis) ==
    [key |-> m.key, line |-> m.line, seq |-> m.seq, manifest |-> m.id, artifact |-> m.artifact,
     genesis |-> genesis]
Tables(releases) ==
    [roots |-> {[key |-> "k", line |-> l, first |-> 1, last |-> 3] : l \in {"l", "o"}},
     floors |-> {[line |-> l, minimum |-> 1] : l \in {"l", "o"}},
     qualified |-> {Qualify(m, m.seq = 1) : m \in releases}]

CONSTANTS h1, h2
MCConfiguration == (h1 :> Tables({One, Two, Other})) @@ (h2 :> Tables({One, Fork}))

CONSTANTS w1, w2, Wallets, NONE, ADMITTED, MaxGeneration, MaxSequence, MaxChanges,
          x1, y1, o1, d1, Names, Envelopes, Delegations, Endpoints, Operators, Digests,
          EndpointLimit, OperatorLimit, MaxNumber, MaxTime, MaxCommits
VARIABLES next, session, live, call, result, newest, used, wallet, lease, disk, changes,
          stored, loaded, hold, admission, released, held,
          part

sessionVars ==
    <<next, session, live, call, result, newest, used, wallet, lease, disk, changes>>

hrmVars == <<stored, loaded, hold, admission, released, held>>

Session == INSTANCE WalletSession WITH database <- disk
Hrm ==
    INSTANCE HrmPoolStats WITH call <- admission, lease <- hold, MaxGeneration <- MaxCommits

ASSUME SessionConstants == Session!Assumptions
ASSUME HrmConstants == Hrm!Assumptions

\* Envelopes, delegations, operators and digests are interchangeable, so the first commit
\* of the pool statistics may as well use the first of each.
FirstNames ==
    stored = Hrm!New /\ admission'.candidate # Hrm!New =>
        /\ admission'.candidate.seen.envelope = x1 /\ admission'.candidate.seen.delegation = y1
        /\ \A o \in Operators \ {o1} : admission'.candidate.operators[o] = Hrm!NeverSeen
        /\ \A e \in Endpoints : admission'.candidate.endpoints[e].digest \in {NONE, d1}

WalletInit ==
    /\ Init /\ Session!Init /\ Hrm!Init
    /\ part \in {"admission", "session", "hrm"}
    /\ part # "session" => wallet.active = NONE
WalletNext ==
    /\ UNCHANGED part
    /\ \/ part = "admission" /\ Next /\ UNCHANGED <<sessionVars, hrmVars>>
       \/ part = "session" /\ Session!Next /\ UNCHANGED <<vars, hrmVars>>
       \/ part = "hrm" /\ Hrm!Next /\ FirstNames /\ UNCHANGED <<vars, sessionVars>>
WalletSpec == WalletInit /\ [][WalletNext]_<<vars, sessionVars, hrmVars, part>>

\* The three keep to their types.
TypesOK ==
    CASE part = "admission" -> TypeOK [] part = "session" -> Session!TypeOK
      [] part = "hrm" -> Hrm!TypeOK

\* There is at most one wallet service, it agrees with the host on the next sequence of
\* the channel, and no restart generation is given to two processes, whatever was started,
\* poisoned or invalidated, and whichever start failed half way.
ServicesAreSeparate ==
    /\ [](part = "session" => Session!OneService /\ Session!SequencesAgree)
    /\ [][part = "session" => Session!SpawnsFresh]_<<sessionVars, part>>

\* A use of the wallet authority that is reported as done ran at the revision of the wallet,
\* under the lease and on the database the session was made for.
AuthorityHeldInUse ==
    [][part = "session" => Session!UsesHeldAuthority]_<<sessionVars, part>>

\* The pool statistics never go back, whatever fails, is retried or is lost: snapshots of an
\* operator are released in order, never two with one number and none once somebody was
\* caught contradicting himself, the durable state forgets nothing, and what a caller can
\* have reconfirmed is the newest that was accepted.
PoolStatsNeverGoBack ==
    /\ [](part = "hrm" => Hrm!ReconfirmedIsNewest)
    /\ [][part = "hrm" => /\ Hrm!ReleasesInOrder /\ Hrm!ReleasesWhileActive
                          /\ Hrm!NeverForgets]_<<hrmVars, part>>
=============================================================================
