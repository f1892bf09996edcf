-------------------------- MODULE SetupTransaction --------------------------
(***************************************************************************)
(* The browser setup program: what install, repair and uninstall do to the *)
(* per-user install root, to the browsers' native-messaging registrations  *)
(* and to the user's trust store, on Linux and macOS.                      *)
(*                                                                         *)
(* One setup process works at a time, a file or a trust entry per step.  It *)
(* may fail or be killed before any step; what it has written stays.  The  *)
(* receipt of the last complete installation and the transaction written   *)
(* before the trust store is touched say what the next process may replace *)
(* or remove.  Between two runs of setup other programs may place or remove *)
(* a registration, and the native host may renew its certificate authority *)
(* at any time.                                                            *)
(*                                                                         *)
(* A manifest stands for the set of extension identifiers it admits: host  *)
(* path and product are those of this user's install root.                 *)
(***************************************************************************)
EXTENDS Integers, FiniteSets

CONSTANTS
    Manifests,     \* the manifests this host prints, one per set of extension ids
    CANONICAL,     \* those that admit the canonical extension id
    Browsers,      \* a browser and the path of its registration
    Stores,        \* trust stores the user may have
    Payloads,      \* native hosts a setup program carries
    FOREIGN,       \* a registration, or a trust entry, of somebody else
    NONE,
    MaxCa          \* bound: certificate authorities the host generates

\* What the constants are assumed to be.
Assumptions ==
    /\ CANONICAL \subseteq Manifests
    /\ FOREIGN # NONE
    /\ {FOREIGN, NONE} \cap (Manifests \cup Stores \cup Payloads \cup 1..MaxCa) = {}
    /\ MaxCa \in Nat \ {0}

VARIABLES
    root,          \* the install root exists
    host,          \* installed_host: the payload, or NONE
    licences,
    master,        \* manifest_path
    registered,    \* browser -> the registration at its path
    loaders,       \* an older release left files that load the extension
    ca,            \* the host's: [cert, marked], cert 0 when there is none
    generated,     \* certificates generated so far
    anchors,       \* trust store -> certificate -> what is under its nickname
    receipt,
    transaction,
    run,           \* the setup process
    outcome        \* of the last run

files == <<root, host, licences, master>>
records == <<receipt, transaction>>
vars == <<files, registered, loaders, ca, generated, anchors, records, run, outcome>>

Certs == 1..MaxCa
NoCa == [cert |-> 0, marked |-> FALSE]
NoRecord == [manifest |-> NONE]
Records == [manifest : Manifests, browsers : SUBSET Browsers, host : Payloads, cert : Certs,
            manifests : SUBSET Manifests, certs : SUBSET Certs, store : Stores]

\* validate_receipt, validate_transaction: a history has its own record's entry
Whole(r) == r.manifest \in r.manifests /\ r.cert \in r.certs

Idle == [at |-> "idle", manifest |-> NONE, browsers |-> {}, host |-> NONE, cert |-> 0,
         store |-> NONE, todo |-> {}, manifests |-> {}]

Phases == {"idle", "host", "licences", "manifest", "register", "authority", "transaction",
           "snapshot", "anchor", "trust", "mark", "confirm", "receipt", "clear", "unselected",
           "stale", "inspect", "remove", "unmark", "distrust", "purge"}

Init ==
    /\ root = FALSE /\ host = NONE /\ licences = FALSE /\ master = NONE
    /\ registered \in [Browsers -> {NONE, FOREIGN} \cup CANONICAL]
    /\ loaders \in BOOLEAN
    /\ ca = NoCa /\ generated = 0
    /\ anchors = [s \in Stores |-> [c \in Certs |-> NONE]]
    /\ receipt = NoRecord /\ transaction = NoRecord
    /\ run = Idle /\ outcome = "none"

(***************************************************************************)
(* Ownership.                                                              *)
(***************************************************************************)
HasRecord == receipt # NoRecord \/ transaction # NoRecord

\* receipt and transaction, where there are any
Known == {r \in {receipt, transaction} : r # NoRecord}

\* merge_owned_hashes: what was ever owned stays owned
NotMerged(known, new) == {new}
Merged(known, new) == (UNION known) \cup {new}

OwnedManifests(new) == Merged({r.manifests : r \in Known}, new)

\* of both records, in an uninstallation
CertsOfTheReceipt == IF receipt # NoRecord THEN receipt.certs ELSE {}
RecordedCerts == UNION {r.certs : r \in Known}

OwnedCerts(new) == Merged({r.certs : r \in Known}, new)

\* validate_legacy_owned_host_manifest
Legacy(registration) == registration \in CANONICAL

\* write_selected_registrations: nothing there, something exactly owned, or, when
\* there is no record yet, a registration of an older release of this product
ReplaceableInRepair(b) ==
    \/ registered[b] \in {NONE, run.manifest}
    \/ HasRecord
    \/ Legacy(registered[b])
Replaceable(b) ==
    \/ registered[b] = NONE
    \/ registered[b] \in OwnedManifests(run.manifest)
    \/ ~HasRecord /\ Legacy(registered[b])

\* The trust store the records agree on; a first installation resolves it.
ChosenStores ==
    IF HasRecord
    THEN {(IF transaction # NoRecord THEN transaction ELSE receipt).store}
    ELSE Stores

RecordsAgree == Cardinality({r.store : r \in Known}) < 2

(***************************************************************************)
(* Every step of a run is taken at run.at and leads to another.            *)
(***************************************************************************)
At(phase) == run.at = phase
To(phase) == run' = [run EXCEPT !.at = phase] /\ UNCHANGED outcome

\* The elements still to be handled, one per step.
ToAll(phase, todo) == run' = [run EXCEPT !.at = phase, !.todo = todo] /\ UNCHANGED outcome
Handled(x) == run' = [run EXCEPT !.todo = @ \ {x}] /\ UNCHANGED outcome

Stop(how) == run' = Idle /\ outcome' = how

(***************************************************************************)
(* Installation and repair.                                                *)
(***************************************************************************)
Apply(m, browsers, payload) ==
    /\ At("idle")
    /\ browsers # {} /\ RecordsAgree
    /\ run' = [Idle EXCEPT !.at = "host", !.manifest = m, !.browsers = browsers,
                           !.host = payload]
    /\ outcome' = "none"
    /\ UNCHANGED <<files, registered, ca, generated, loaders, anchors, records>>

WriteHost ==
    /\ At("host")
    /\ root' = TRUE /\ host' = run.host
    /\ To("licences")
    /\ UNCHANGED <<licences, master, registered, ca, generated, loaders, anchors, records>>

WriteLicences ==
    /\ At("licences")
    /\ licences' = TRUE
    /\ To("manifest")
    /\ UNCHANGED <<root, host, master, registered, ca, generated, loaders, anchors, records>>

\* the installed host prints the manifest
WriteManifest ==
    /\ At("manifest")
    /\ master' = run.manifest
    /\ ToAll("register", run.browsers)
    /\ UNCHANGED <<root, host, licences, registered, ca, generated, loaders, anchors, records>>

Register(b) ==
    /\ At("register") /\ b \in run.todo
    /\ Replaceable(b)
    /\ registered' = [registered EXCEPT ![b] = run.manifest]
    /\ Handled(b)
    /\ UNCHANGED <<files, ca, generated, loaders, anchors, records>>

\* "refusing to replace native-messaging manifest not exactly owned"
Refuse(b) ==
    /\ At("register") /\ b \in run.todo
    /\ ~Replaceable(b)
    /\ Stop("refused")
    /\ UNCHANGED <<files, registered, ca, generated, loaders, anchors, records>>

\* --ca-info generates the authority when the host has none
AuthorityAsFound == ca
Authority == IF ca.cert # 0 THEN ca ELSE [cert |-> generated + 1, marked |-> FALSE]

ReadAuthority ==
    /\ At("register") /\ run.todo = {}
    /\ ca.cert # 0 \/ generated < MaxCa
    /\ ca' = Authority
    /\ generated' = IF ca.cert # 0 THEN generated ELSE generated + 1
    /\ \E s \in ChosenStores :
          run' = [run EXCEPT !.at = "transaction", !.cert = ca'.cert, !.store = s]
    /\ UNCHANGED <<files, registered, loaders, anchors, records, outcome>>

Record == [manifest |-> run.manifest, browsers |-> run.browsers, host |-> run.host,
           cert |-> run.cert, manifests |-> OwnedManifests(run.manifest),
           certs |-> OwnedCerts(run.cert), store |-> run.store]

WriteTransaction ==
    /\ At("transaction")
    /\ transaction' = Record
    /\ To("snapshot")
    /\ UNCHANGED <<files, registered, ca, generated, loaders, anchors, receipt>>

\* checked, decompressed to a temporary file, imported by the host, removed again
InstallSnapshot ==
    /\ At("snapshot")
    /\ To("anchor")
    /\ UNCHANGED <<files, registered, ca, generated, loaders, anchors, records>>

\* A certificate under our nickname is replaced only when it is this one.
ReplaceAnchor ==
    /\ At("anchor") /\ anchors[run.store][run.cert] # FOREIGN
    /\ anchors' = [anchors EXCEPT ![run.store][run.cert] = NONE]
    /\ To("trust")
    /\ UNCHANGED <<files, registered, ca, generated, loaders, records>>

\* certutil -A, security add-trusted-cert, then the check that it is trusted
InstallAnchor ==
    /\ At("trust")
    /\ anchors' = [anchors EXCEPT ![run.store][run.cert] = run.cert]
    /\ To("mark")
    /\ UNCHANGED <<files, registered, ca, generated, loaders, records>>

MarkInstalled ==
    /\ At("mark")
    /\ ca' = [ca EXCEPT !.marked = TRUE]
    /\ To("confirm")
    /\ UNCHANGED <<files, registered, generated, loaders, anchors, records>>

ConfirmMarked ==
    /\ At("confirm")
    /\ ca = [cert |-> run.cert, marked |-> TRUE]
    /\ To("receipt")
    /\ UNCHANGED <<files, registered, ca, generated, loaders, anchors, records>>

WriteReceipt ==
    /\ At("receipt")
    /\ receipt' = Record
    /\ To("clear")
    /\ UNCHANGED <<files, registered, ca, generated, loaders, anchors, transaction>>

ClearTransaction ==
    /\ At("clear")
    /\ transaction' = NoRecord
    /\ ToAll("unselected", Browsers \ receipt.browsers)
    /\ UNCHANGED <<files, registered, ca, generated, loaders, anchors, receipt>>

\* remove_owned_manifest_file: everything else is left untouched
Unregistered(b, owned) ==
    IF registered[b] \in owned THEN [registered EXCEPT ![b] = NONE] ELSE registered

RemoveUnselected(b) ==
    /\ At("unselected") /\ b \in run.todo
    /\ registered' = Unregistered(b, receipt.manifests)
    /\ Handled(b)
    /\ UNCHANGED <<files, ca, generated, loaders, anchors, records>>

\* remove_stale_trust_anchors
NoneIsStale == {}
StaleCerts == receipt.certs \ {receipt.cert}

UnselectedRemoved ==
    /\ At("unselected") /\ run.todo = {}
    /\ ToAll("stale", StaleCerts)
    /\ UNCHANGED <<files, registered, ca, generated, loaders, anchors, records>>

\* remove_trust_anchors: an entry whose certificate is another one is left untouched
Distrusted(store, c) ==
    IF anchors[store][c] = c THEN [anchors EXCEPT ![store][c] = NONE] ELSE anchors

RemoveStale(c) ==
    /\ At("stale") /\ c \in run.todo
    /\ anchors' = Distrusted(receipt.store, c)
    /\ Handled(c)
    /\ UNCHANGED <<files, registered, ca, generated, loaders, records>>

LoadersAfter == FALSE

\* remove_owned_legacy_extension_loaders
StaleRemoved ==
    /\ At("stale") /\ run.todo = {}
    /\ loaders' = LoadersAfter
    /\ To("inspect")
    /\ UNCHANGED <<files, registered, ca, generated, anchors, records>>

RegistrationsMatch == \A b \in receipt.browsers : registered[b] = receipt.manifest

\* trust_anchor_present
Trusted(store, c) == anchors[store][c] = c

\* inspect
Installed ==
    /\ receipt # NoRecord
    /\ host = receipt.host /\ licences /\ master = receipt.manifest
    /\ RegistrationsMatch
    /\ ca = [cert |-> receipt.cert, marked |-> TRUE]
    /\ Trusted(receipt.store, receipt.cert)

Finish ==
    /\ At("inspect")
    /\ Stop(IF Installed THEN "installed" ELSE "failed")
    /\ UNCHANGED <<files, registered, ca, generated, loaders, anchors, records>>

(***************************************************************************)
(* Complete removal.                                                       *)
(***************************************************************************)
\* collect_ownership: the master manifest is its own proof
Collected == (UNION {r.manifests : r \in Known}) \cup ({master} \ {NONE})

Uninstall ==
    /\ At("idle") /\ RecordsAgree
    /\ run' = [Idle EXCEPT !.at = "remove", !.todo = Browsers, !.manifests = Collected]
    /\ outcome' = "none"
    /\ UNCHANGED <<files, registered, ca, generated, loaders, anchors, records>>

RemoveRegistration(b) ==
    /\ At("remove") /\ b \in run.todo
    /\ registered' = Unregistered(b, run.manifests)
    /\ Handled(b)
    /\ UNCHANGED <<files, ca, generated, loaders, anchors, records>>

\* without a record the install root and the trust store stay as they are
RegistrationsRemoved ==
    /\ At("remove") /\ run.todo = {}
    /\ loaders' = LoadersAfter
    /\ IF root /\ ~HasRecord THEN Stop("kept") ELSE To("unmark")
    /\ UNCHANGED <<files, registered, ca, generated, anchors, records>>

\* trusted_installed_host: the transaction's word goes before the receipt's
TrustedHost ==
    /\ host # NONE /\ HasRecord
    /\ host = (IF transaction # NoRecord THEN transaction ELSE receipt).host

\* the certificates to distrust: those recorded and the host's own
ClearMark ==
    /\ At("unmark")
    /\ IF TrustedHost /\ ca.cert # 0
       THEN /\ ca' = [ca EXCEPT !.marked = FALSE]
            /\ ToAll("distrust", RecordedCerts \cup {ca.cert})
       ELSE /\ UNCHANGED ca
            /\ ToAll("distrust", RecordedCerts)
    /\ UNCHANGED <<files, registered, generated, loaders, anchors, records>>

RemoveAnchor(c) ==
    /\ At("distrust") /\ c \in run.todo
    /\ \E s \in ChosenStores : anchors' = Distrusted(s, c)
    /\ Handled(c)
    /\ UNCHANGED <<files, registered, ca, generated, loaders, records>>

AnchorsRemoved ==
    /\ At("distrust") /\ run.todo = {}
    /\ IF root THEN To("purge") ELSE Stop("uninstalled")
    /\ UNCHANGED <<files, registered, ca, generated, loaders, anchors, records>>

\* remove_dir_all deletes one entry after the other, in no promised order
Purge ==
    /\ At("purge")
    /\ \/ host # NONE /\ host' = NONE /\ UNCHANGED <<licences, master, ca, records>>
       \/ licences /\ licences' = FALSE /\ UNCHANGED <<host, master, ca, records>>
       \/ master # NONE /\ master' = NONE /\ UNCHANGED <<host, licences, ca, records>>
       \/ ca # NoCa /\ ca' = NoCa /\ UNCHANGED <<host, licences, master, records>>
       \/ /\ receipt # NoRecord /\ receipt' = NoRecord
          /\ UNCHANGED <<host, licences, master, ca, transaction>>
       \/ /\ transaction # NoRecord /\ transaction' = NoRecord
          /\ UNCHANGED <<host, licences, master, ca, receipt>>
    /\ UNCHANGED <<root, registered, generated, loaders, anchors, run, outcome>>

Purged ==
    /\ At("purge")
    /\ host = NONE /\ ~licences /\ master = NONE /\ ca = NoCa /\ ~HasRecord
    /\ root' = FALSE
    /\ Stop("uninstalled")
    /\ UNCHANGED <<host, licences, master, registered, ca, generated, loaders, anchors, records>>

(***************************************************************************)
(* Around the steps.                                                       *)
(***************************************************************************)
\* An error of any step, or the death of the process before it.
Break ==
    /\ ~At("idle")
    /\ Stop("failed")
    /\ UNCHANGED <<files, registered, ca, generated, loaders, anchors, records>>

\* external: another program, or the user, at a browser's registration
Meddle(b, r) ==
    /\ At("idle")
    /\ r \in {FOREIGN, NONE} \ {registered[b]}
    /\ registered' = [registered EXCEPT ![b] = r]
    /\ UNCHANGED <<files, ca, generated, loaders, anchors, records, run, outcome>>

\* external: somebody else's certificate under one of our nicknames, which tells a
\* certificate by its fingerprint
Squat(s, c) ==
    /\ At("idle") /\ c <= generated /\ anchors[s][c] = NONE
    /\ anchors' = [anchors EXCEPT ![s][c] = FOREIGN]
    /\ UNCHANGED <<files, registered, ca, generated, loaders, records, run, outcome>>

\* The host renews its authority.  --ca-info renews an expiring one too, so none
\* expires in the minutes of the run that asked for it.
Renew ==
    /\ At("idle") /\ host # NONE
    /\ generated < MaxCa
    /\ generated' = generated + 1
    /\ ca' = [cert |-> generated', marked |-> FALSE]
    /\ UNCHANGED <<files, registered, loaders, anchors, records, run, outcome>>

Next ==
    \/ \E m \in Manifests, bs \in SUBSET Browsers, p \in Payloads : Apply(m, bs, p)
    \/ WriteHost \/ WriteLicences \/ WriteManifest
    \/ \E b \in Browsers : Register(b) \/ Refuse(b)
    \/ ReadAuthority \/ WriteTransaction \/ InstallSnapshot \/ ReplaceAnchor \/ InstallAnchor
    \/ MarkInstalled \/ ConfirmMarked \/ WriteReceipt \/ ClearTransaction
    \/ \E b \in Browsers : RemoveUnselected(b)
    \/ UnselectedRemoved
    \/ \E c \in Certs : RemoveStale(c)
    \/ StaleRemoved \/ Finish
    \/ Uninstall
    \/ \E b \in Browsers : RemoveRegistration(b)
    \/ RegistrationsRemoved \/ ClearMark
    \/ \E c \in Certs : RemoveAnchor(c)
    \/ AnchorsRemoved \/ Purge \/ Purged
    \/ Break
    \/ \E b \in Browsers, r \in {FOREIGN, NONE} : Meddle(b, r)
    \/ \E s \in Stores, c \in Certs : Squat(s, c)
    \/ Renew

Spec == Init /\ [][Next]_vars

(***************************************************************************)
(* What setup promises.                                                    *)
(***************************************************************************)
TypeOK ==
    /\ root \in BOOLEAN /\ licences \in BOOLEAN
    /\ host \in Payloads \cup {NONE} /\ master \in Manifests \cup {NONE}
    /\ registered \in [Browsers -> Manifests \cup {NONE, FOREIGN}]
    /\ loaders \in BOOLEAN
    /\ ca \in [cert : Certs \cup {0}, marked : BOOLEAN] /\ generated \in 0..MaxCa
    /\ \A s \in Stores, c \in Certs : anchors[s][c] \in {NONE, FOREIGN, c}
    /\ \A r \in Known : r \in Records /\ Whole(r)
    /\ RecordsAgree
    /\ run \in [at : Phases, manifest : Manifests \cup {NONE}, browsers : SUBSET Browsers,
                host : Payloads \cup {NONE}, cert : Certs \cup {0},
                store : Stores \cup {NONE}, todo : SUBSET (Browsers \cup Certs),
                manifests : SUBSET Manifests]
    /\ outcome \in {"none", "installed", "uninstalled", "refused", "kept", "failed"}

\* Wherever a run of setup stops, a certificate it made the browsers trust is named,
\* with its trust store, by a record the next run will find.
AnchorsAreRecorded ==
    \A s \in Stores, c \in Certs :
        anchors[s][c] = c => \E r \in Known : r.store = s /\ c \in r.certs

\* When install or repair reports success, exactly the selected browsers hold a
\* registration it owns, the host's present certificate is the only one of ours that is
\* trusted anywhere, and nothing is left of the transaction.
InstallsExactly ==
    outcome' = "installed" /\ outcome # "installed" =>
        /\ {b \in Browsers : registered[b] \in receipt.manifests} = receipt.browsers
        /\ \A s \in Stores, c \in Certs :
              anchors[s][c] = c <=> s = receipt.store /\ c = ca.cert
        /\ ca.marked /\ host = receipt.host /\ transaction = NoRecord /\ ~loaders
InstallIsExact == [][InstallsExactly]_vars

\* When complete removal reports success, nothing is left of what the records and the
\* master manifest named when it began: no registration, no trusted certificate of ours
\* in any trust store, no install root.
UninstallsCompletely ==
    outcome' = "uninstalled" /\ outcome # "uninstalled" =>
        /\ ~root' /\ ~HasRecord' /\ ~loaders'
        /\ \A b \in Browsers : registered[b] \notin run.manifests
        /\ \A s \in Stores, c \in Certs : anchors[s][c] # c
UninstallIsComplete == [][UninstallsCompletely]_vars

\* No run of setup touches a registration or a trust entry of somebody else, whatever
\* earlier runs left behind.
KeepsForeign ==
    ~At("idle") =>
        /\ \A b \in Browsers : registered[b] = FOREIGN => registered'[b] = FOREIGN
        /\ \A s \in Stores, c \in Certs :
              anchors[s][c] = FOREIGN => anchors'[s][c] = FOREIGN
ForeignIsKept == [][KeepsForeign]_vars

\* installer.rs:201 of repair: "It also recovers a fail-closed partial installation for
\* which no receipt was committed": it is not refused for what setup itself has written.
RepairRecovers ==
    At("register") =>
        \A b \in run.todo : registered[b] \in Manifests => Replaceable(b)
=============================================================================
