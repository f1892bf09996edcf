--------------------------- MODULE GatewayExchange ---------------------------
(***************************************************************************)
(* One exchange of the gateway: a CONNECT, a proxied request, a WebSocket  *)
(* upgrade, a direct request or a download.  It is admitted under the      *)
(* header state and the runtime generation of that moment; the gateway     *)
(* resolves and dials; its evidence becomes headers and a status; a permit *)
(* commits the namespace and publishes; a tunnel then carries bytes.  The  *)
(* authority may end between any two of these steps.                       *)
(*                                                                         *)
(* The gateway and the transport are libraries.  What they answer is taken *)
(* from Evidence, where one field may have any value: nothing below relies *)
(* on a gateway that keeps its own promises in more than the others.       *)
(***************************************************************************)
EXTENDS Integers, FiniteSets

CONSTANTS
    Trees,      \* name-tree roots of the header state
    MaxEpoch,   \* bound: maintenance epochs of the process
    NONE

Kinds == {"connect", "proxied", "upgrade", "direct", "download"}
Proxied == {"connect", "proxied", "upgrade"}
Namespaces == {"hns", "icann"}
Policies == {"dane", "absence", "insecure", "cleartext"}

\* What the constants are assumed to be.
Assumptions ==
    /\ Trees # {} /\ NONE \notin Trees \cup Namespaces \cup Kinds \cup {"dane"}
    /\ NONE \notin [selected : Namespaces \cup {NONE}, policy : Policies]
    /\ MaxEpoch \in Nat \ {0}

VARIABLES
    tree,       \* the name tree whose root the header state on disk has
    epoch,      \* RuntimeCoordination::maintenance_epoch
    ready,      \* readiness: the local chain is current, storage and transport work
    binding,    \* namespace-bindings.sqlite: the origin's namespace, or NONE
    exchange,   \* the exchange
    lease,      \* AuthorityPassthroughLease: [revoked, due, busy]
    half,       \* what the reader and the writer of its tunnel are at
    file        \* a download: the staged body and the file the caller named

vars == <<tree, epoch, ready, binding, exchange, lease, half, file>>

(***************************************************************************)
(* The evidence of an answer, and the status made of it                    *)
(***************************************************************************)
Field == [
    selected |-> Namespaces \cup {NONE},
    policy   |-> Policies,
    chain    |-> {"network", "otherNetwork", "secure", "provenInsecure"},
    fresh    |-> BOOLEAN,   \* NamespaceDecision::is_fresh_at
    bound    |-> BOOLEAN,   \* the request carries this decision's fingerprint
    secure   |-> BOOLEAN,   \* resolution.secure
    tls      |-> BOOLEAN,
    dnssec   |-> BOOLEAN,   \* origin_request.tls.dnssec_secure
    records  |-> {"none", "native", "foreign", "miscounted"},
    browser  |-> {"dane", "absence", "insecure", NONE},   \* browser_tls_decision
    dane     |-> {"matched", "stateless", "fallback", "failed", "noTlsa"},
    seen     |-> {"rust", "nothing"},                     \* tls_inspection
    path     |-> {"local", "direct", "relay", "unknown"}]

HnsDane == [selected |-> "hns", policy |-> "dane", chain |-> "network", fresh |-> TRUE,
    bound |-> TRUE, secure |-> TRUE, tls |-> TRUE, dnssec |-> TRUE, records |-> "native",
    browser |-> NONE, dane |-> "matched", seen |-> "rust", path |-> "direct"]
IcannDane == [HnsDane EXCEPT !.selected = "icann", !.chain = "secure", !.browser = "dane"]
Absent == [IcannDane EXCEPT !.policy = "absence", !.browser = "absence", !.records = "none",
                            !.dane = "fallback"]
Insecure == [Absent EXCEPT !.policy = "insecure", !.browser = "insecure", !.dnssec = FALSE,
                           !.chain = "provenInsecure"]
Clear(e) == [e EXCEPT !.policy = "cleartext", !.tls = FALSE, !.records = "none",
                      !.browser = NONE, !.dane = "noTlsa", !.seen = "nothing"]
Consistent == {HnsDane, IcannDane, Absent, Insecure, Clear(HnsDane), Clear(IcannDane)}

Evidence == UNION {{[e EXCEPT ![f] = v] : v \in Field[f]} : e \in Consistent, f \in DOMAIN Field}

\* A CONNECT is judged as a browser's own TLS, whatever the gateway saw.
Observed(kind, e) ==
    IF kind = "connect" THEN [e EXCEPT !.dane = "fallback", !.seen = "browser"] ELSE e

\* try_canonical_status_for_gateway_success, for HNS and for ICANN
MatchIsAssumed(e) == e.dane # "failed"
Matched(e) == e.dane = "matched"
HnsStatus(e) ==
    /\ e.selected = "hns" /\ e.chain = "network" /\ e.path \in {"local", "direct"}
    /\ e.tls => /\ e.secure /\ e.seen = "rust" /\ e.browser = NONE /\ e.dnssec
                /\ e.records \in {"native", "miscounted"} /\ Matched(e)
    /\ ~e.tls => e.dane = "noTlsa"

IcannAction(e) ==
    \/ /\ e.policy = "dane" /\ e.browser = "dane" /\ Matched(e) /\ e.chain = "secure"
       /\ e.tls /\ e.seen = "rust" /\ e.dnssec /\ e.records = "native"
    \/ /\ e.policy = "absence" /\ e.browser = "absence" /\ e.dane = "fallback"
       /\ e.chain = "secure" /\ e.tls /\ e.dnssec /\ e.records = "none"
    \/ /\ e.policy = "insecure" /\ e.browser = "insecure" /\ e.dane = "fallback"
       /\ e.chain = "provenInsecure" /\ e.tls /\ ~e.dnssec /\ e.records = "none"
    \/ /\ e.policy = "cleartext" /\ e.browser = NONE /\ e.dane = "noTlsa" /\ ~e.tls

IcannStatus(e) ==
    /\ e.selected = "icann" /\ e.chain \in {"secure", "provenInsecure"}
    /\ ~(e.tls /\ e.seen = "nothing")
    /\ IcannAction(e)

Supported(e) == e.fresh /\ e.bound /\ (HnsStatus(e) \/ IcannStatus(e))
Available(dane) == [available |-> TRUE, dane |-> dane]
Unavailable == [available |-> FALSE, dane |-> "unknown"]

\* What a supported status says of DANE
Dane(e) == IF e.tls /\ (e.selected = "hns" \/ e.policy = "dane") THEN "verified"
           ELSE "notAttempted"

\* hns_tls_policy_header and security_path_name; an upgrade has no path.
TlsPolicy(e) == CASE e.dane \in {"matched", "stateless"} -> "dane"
                  [] e.dane \in {"fallback", "failed"} -> e.dane
                  [] OTHER -> NONE
SecurityPath(e) ==
    CASE e.dane = "stateless" -> "dane"
      [] e.dane = "matched" /\ e.selected # NONE /\ e.path # "unknown" -> "dane"
      [] e.dane = "noTlsa" /\ ~e.tls /\ e.selected = "hns" /\ e.path # "unknown" -> "hns"
      [] OTHER -> NONE
Headers(kind, e) == [policy |-> TlsPolicy(e),
                     path |-> IF kind = "upgrade" THEN NONE ELSE SecurityPath(e)]
NoHeaders == [policy |-> NONE, path |-> NONE]

\* What the gateway can fail with: before a decision, with no plan at all, or after one
Failures == {[kind |-> k, e |-> HnsDane] : k \in {"classification", "neither", "early"}}
    \cup {[kind |-> k, e |-> e] : k \in {"daneFailed", "transport"}, e \in Evidence}

\* canonical_status_for_gateway_failure
FailureIsReported(f) ==
    \/ f.kind \in {"classification", "neither"} /\ f.e.fresh
    \/ /\ f.kind = "daneFailed" /\ f.e.fresh /\ f.e.policy = "dane"
       /\ <<f.e.selected, f.e.chain>> \in {<<"hns", "network">>, <<"icann", "secure">>}
FailureStatus(f) ==
    IF ~FailureIsReported(f) THEN Unavailable
    ELSE Available(IF f.kind = "daneFailed" THEN "failed" ELSE "notAttempted")

(***************************************************************************)
(* Authority                                                               *)
(***************************************************************************)
Idle == [kind |-> NONE, at |-> "idle", tree |-> NONE, epoch |-> 0, valid |-> FALSE,
         cancelled |-> FALSE, e |-> NONE, status |-> Unavailable, headers |-> NoHeaders,
         signal |-> FALSE]
NoLease == [revoked |-> FALSE, due |-> FALSE, busy |-> FALSE]
Closed == [reader |-> "closed", writer |-> "closed"]
Untouched == [staged |-> "none", target |-> "untouched"]

\* HeaderStateLease::acquire: the tree on disk is still the one of the admission.
AnyTree == TRUE
SameTree == tree = exchange.tree

\* admits: an observation that readiness was lost degrades the runtime for good.
Admits == ready /\ SameTree /\ exchange.valid
Verified == exchange.valid /\ ready

EndExchange == exchange' = Idle /\ lease' = NoLease /\ half' = Closed
Elsewhere == UNCHANGED <<tree, epoch, ready, binding>>

\* require_current_proxy_work, between any two steps of a proxied exchange; a direct
\* exchange is only checked by its transport and at its publication.
MayProceed == exchange.kind \in Proxied => ~exchange.cancelled /\ Admits

Abandon ==
    /\ exchange.at \in {"admitted", "answered", "settled"}
    /\ ~MayProceed
    /\ EndExchange /\ Elsewhere /\ file' = [file EXCEPT !.staged = "none"]

Goto(at) == [exchange EXCEPT !.at = at]

(***************************************************************************)
(* Operations of the exchange                                              *)
(***************************************************************************)
Begin == \E kind \in Kinds :
    /\ exchange = Idle /\ ready
    /\ exchange' = [Idle EXCEPT !.kind = kind, !.at = "admitted", !.tree = tree,
                                !.epoch = epoch, !.valid = TRUE]
    /\ file' = Untouched
    /\ Elsewhere /\ UNCHANGED <<lease, half>>

\* A raw download that does not parse is answered before it is admitted.
RejectRaw ==
    /\ exchange = Idle /\ file' = [file EXCEPT !.target = "rejection"]
    /\ Elsewhere /\ UNCHANGED <<exchange, lease, half>>

\* A body or an error document is staged in a file of its own; the document of a failure
\* replaces what was written of the body.
Staged(what) == IF exchange.kind = "download" THEN [file EXCEPT !.staged = what] ELSE file
StagedBody == Staged("body")
StagedDocument == Staged("document")

\* prepare_proxy_gateway fails: a CONNECT is intercepted, and later requests fail again.
ProxyPreparationFails ==
    /\ exchange.at = "admitted" /\ exchange.kind \in Proxied /\ MayProceed
    /\ IF exchange.kind = "connect" THEN EndExchange
       ELSE exchange' = Goto("settled") /\ UNCHANGED <<lease, half>>
    /\ Elsewhere /\ UNCHANGED file

\* A direct request that cannot be prepared is answered with a document as well.
DirectPreparationFails ==
    /\ exchange.at = "admitted" /\ exchange.kind \notin Proxied
    /\ exchange' = Goto("settled") /\ file' = StagedDocument
    /\ Elsewhere /\ UNCHANGED <<lease, half>>

\* AuthorityOriginTransport: the authority is required before every dial and after it.
Dial ==
    /\ exchange.at = "admitted" /\ MayProceed /\ Admits
    /\ exchange' = Goto("dialing")
    /\ Elsewhere /\ UNCHANGED <<lease, half, file>>

\* The body of a download is fetched into memory and written under the authority.
Answers ==
    /\ exchange.at = "dialing" /\ Admits
    /\ \E e \in Evidence :
          exchange' = [Goto("answered") EXCEPT !.e = Observed(exchange.kind, e)]
    /\ file' = StagedBody
    /\ Elsewhere /\ UNCHANGED <<lease, half>>

\* An error ends a CONNECT: intercepted, or refused where the browser was to validate.
\* Every other exchange goes on with an error document, which names no namespace.
Fails ==
    /\ exchange.at \in {"admitted", "dialing"}
    /\ IF exchange.kind = "connect" \/ ~MayProceed THEN EndExchange
       ELSE /\ \E f \in Failures :
                  exchange' = [Goto("settled") EXCEPT
                      !.status = IF exchange.kind \in Proxied /\ exchange.valid
                                 THEN FailureStatus(f) ELSE Unavailable]
            /\ UNCHANGED <<lease, half>>
    /\ file' = StagedDocument
    /\ Elsewhere

\* canonical_status_for_gateway_success: status_context refuses a stamp that ended, and
\* the shared schema may reject what is left.
StatusOf(e) == IF exchange.valid /\ Supported(e)
               THEN {Available(Dane(e)), Unavailable} ELSE {Unavailable}

\* publishable_webpki_connect_observation, and the registry may not take it
Passes(status, inserted) == status.available /\ inserted

\* The evidence becomes headers and a status, and the permit is made.
Settle ==
    /\ exchange.at = "answered" /\ MayProceed
    /\ \E status \in StatusOf(exchange.e), inserted \in BOOLEAN :
        /\ exchange.kind = "connect" => Passes(status, inserted)
        /\ exchange' = [Goto("settled") EXCEPT
               !.status = IF exchange.kind \in Proxied THEN status ELSE Unavailable,
               !.headers = IF exchange.kind = "connect" THEN NoHeaders
                           ELSE Headers(exchange.kind, exchange.e),
               !.e = [selected |-> @.selected, policy |-> @.policy]]
    /\ half' = IF exchange.kind \in {"connect", "upgrade"}
               THEN [reader |-> "idle", writer |-> "idle"] ELSE half
    /\ Elsewhere /\ UNCHANGED <<lease, file>>

\* A CONNECT that may not pass is refused; headers or an upgrade that do not parse become
\* an error document.
Refuse ==
    /\ exchange.at = "answered" /\ MayProceed
    /\ IF exchange.kind = "connect" THEN EndExchange
       ELSE /\ exchange.kind \in {"proxied", "upgrade"}
            /\ exchange' = [Goto("settled") EXCEPT !.e = NONE]
            /\ UNCHANGED <<lease, half>>
    /\ Elsewhere /\ UNCHANGED file

\* NamespaceBindingStore::record_success; a decision that selects nothing is refused
Records(namespace) == binding \in {NONE, namespace} /\ namespace # NONE

\* The permit, and publish_direct_result: a direct exchange is bound to no epoch.
Permitted == Admits /\ (exchange.kind \in Proxied => epoch = exchange.epoch)
Commits == exchange.e # NONE => Records(exchange.e.selected)
BindingAfter == IF exchange.e # NONE THEN exchange.e.selected ELSE binding

\* The namespace is committed first: the write of the response may still fail.
Publish == \E written \in BOOLEAN :
    /\ exchange.at = "settled" /\ Permitted /\ Commits
    /\ binding' = BindingAfter
    /\ file' = IF exchange.kind = "download"
               THEN [staged |-> "none", target |-> IF written THEN file.staged ELSE file.target]
               ELSE file
    /\ IF written /\ exchange.kind \in {"connect", "upgrade"} /\ half # Closed
       THEN /\ exchange' = [Goto("tunnel") EXCEPT !.signal = exchange.kind = "connect"]
            /\ UNCHANGED <<lease, half>>
       ELSE EndExchange
    /\ UNCHANGED <<tree, epoch, ready>>

Unpublished ==
    /\ exchange.at = "settled" /\ ~(Permitted /\ Commits)
    /\ EndExchange /\ file' = [file EXCEPT !.staged = "none"] /\ Elsewhere

(***************************************************************************)
(* The halves of a tunnel                                                  *)
(***************************************************************************)
\* connect_publication_guard; an upgrade has none.
SignalIsIgnored == exchange.kind = "connect" => epoch = exchange.epoch
Guarded == exchange.kind = "connect" => exchange.signal /\ epoch = exchange.epoch

\* An upgrade verifies readiness for every chunk.  A passthrough does when it is due and
\* the other half is not at it; otherwise only the stamp is looked at.
FullCheck == exchange.kind = "upgrade" \/ (lease.due /\ ~lease.busy)
StillCurrent == SameTree /\ exchange.valid /\ ~lease.revoked

Close(h) == half' = [half EXCEPT ![h] = "closed"]
Move(h, at) == half' = [half EXCEPT ![h] = at]
Revoke == lease' = [lease EXCEPT !.revoked = @ \/ ~exchange.valid]

\* A check begins: before the I/O ("check"), or after it ("recheck").
Check(h, at, then) ==
    IF ~(StillCurrent /\ Guarded) THEN Close(h) /\ Revoke
    ELSE IF FullCheck
    THEN Move(h, at) /\ lease' = [lease EXCEPT !.busy = exchange.kind = "connect"]
    ELSE Move(h, then) /\ UNCHANGED lease

\* The full check ends; a readiness that was lost degrades the runtime.
Checked(h, then) ==
    /\ exchange' = [exchange EXCEPT !.valid = Verified]
    /\ lease' = [revoked |-> lease.revoked \/ ~Verified, due |-> FALSE, busy |-> FALSE]
    /\ IF Verified /\ Guarded THEN Move(h, then) ELSE Close(h)

HalfStep(h) ==
    /\ \/ half[h] = "idle" /\ Check(h, "check", "io") /\ UNCHANGED exchange
       \/ half[h] = "check" /\ Checked(h, "io")
       \/ half[h] = "io" /\ Check(h, "recheck", "idle") /\ UNCHANGED exchange
       \/ half[h] = "recheck" /\ Checked(h, "idle")
    /\ Elsewhere /\ UNCHANGED file

\* A tunnel ends with both of its halves, or when the client or the proxy closes it.
Hangup ==
    /\ exchange.at = "tunnel" /\ EndExchange
    /\ Elsewhere /\ UNCHANGED file

(***************************************************************************)
(* What happens meanwhile                                                  *)
(***************************************************************************)
\* The reader holds the file locks in its checks, the writer from its first to its last;
\* a CONNECT's writer also keeps the maintenance lock.
Checking(h) == half[h] \in {"check", "recheck"}
HoldsTree == Checking("reader") \/ half.writer \in {"check", "io", "recheck"}
HoldsMaintenance == exchange.kind = "connect" /\ half.writer \in {"check", "io", "recheck"}

\* A sync of this process publishes a tree and advances the epoch; another process
\* publishes one, and this process reconciles later.  Other maintenance advances it too.
NewTree == \E t \in Trees \ {tree}, here \in BOOLEAN :
    /\ ~HoldsTree /\ (here => ~HoldsMaintenance /\ epoch < MaxEpoch)
    /\ tree' = t /\ epoch' = IF here THEN epoch + 1 ELSE epoch
    /\ UNCHANGED <<ready, binding, exchange, lease, half, file>>

Reconcile ==
    /\ ~HoldsMaintenance /\ epoch < MaxEpoch /\ epoch' = epoch + 1
    /\ UNCHANGED <<tree, ready, binding, exchange, lease, half, file>>

\* Time and peers take readiness away and bring it back.
ReadinessChanges ==
    /\ ready' = ~ready
    /\ UNCHANGED <<tree, epoch, binding, exchange, lease, half, file>>

\* The policy changes, the proxy stops, or some other check degraded the runtime.
EndAuthority ==
    /\ exchange.valid /\ exchange' = [exchange EXCEPT !.valid = FALSE]
    /\ Elsewhere /\ UNCHANGED <<lease, half, file>>

CancelWork ==
    /\ exchange.kind \in Proxied /\ ~exchange.cancelled /\ exchange.at # "tunnel"
    /\ exchange' = [exchange EXCEPT !.cancelled = TRUE]
    /\ Elsewhere /\ UNCHANGED <<lease, half, file>>

\* CONNECT_READINESS_RECHECK_INTERVAL has passed.
RecheckIsDue ==
    /\ exchange.kind = "connect" /\ exchange.at \in {"settled", "tunnel"} /\ ~lease.due
    /\ lease' = [lease EXCEPT !.due = TRUE]
    /\ Elsewhere /\ UNCHANGED <<exchange, half, file>>

\* Another exchange of the origin is published.
OtherCommits == \E namespace \in Namespaces :
    /\ Records(namespace) /\ binding' = namespace
    /\ UNCHANGED <<tree, epoch, ready, exchange, lease, half, file>>

\* The process dies: what is staged stays behind under a name of its own.
Crash ==
    /\ exchange # Idle /\ EndExchange /\ epoch' = 1
    /\ file' = [file EXCEPT !.staged = "none"]
    /\ UNCHANGED <<tree, ready, binding>>

Init ==
    /\ tree \in Trees /\ epoch = 1 /\ ready = TRUE /\ binding = NONE
    /\ exchange = Idle /\ lease = NoLease /\ half = Closed
    /\ file = Untouched

Next ==
    \/ Begin \/ RejectRaw \/ ProxyPreparationFails \/ DirectPreparationFails
    \/ Dial \/ Answers \/ Fails \/ Abandon
    \/ Settle \/ Refuse \/ Publish \/ Unpublished
    \/ \E h \in DOMAIN half : HalfStep(h)
    \/ Hangup \/ NewTree \/ Reconcile \/ ReadinessChanges \/ EndAuthority \/ CancelWork
    \/ RecheckIsDue \/ OtherCommits \/ Crash

Spec == Init /\ [][Next]_vars

(***************************************************************************)
(* Properties                                                              *)
(***************************************************************************)
\* Types; only a tunnel of an upgrade or of a CONNECT has halves.
TypeOK ==
    /\ tree \in Trees /\ epoch \in 1..MaxEpoch /\ ready \in BOOLEAN
    /\ binding \in Namespaces \cup {NONE}
    /\ exchange.at \in {"idle", "admitted", "dialing", "answered", "settled", "tunnel"}
    /\ half # Closed => exchange.kind \in {"connect", "upgrade"}
    /\ file.staged \in {"none", "body", "document"}
    /\ file.target \in {"untouched", "body", "document", "rejection"}

\* A half hands bytes on: the reader to the browser, the writer to the origin.
Delivers == half.reader \in {"io", "recheck"} /\ half'.reader = "idle"
Sends == half.writer = "io" /\ half'.writer # "io"

\* No tunnel hands on a byte under another tree than the one it was admitted under.  The
\* bytes of a CONNECT, which go end to end past the local TLS validation, only flow where
\* ICANN was selected with a WebPKI policy, once that decision was committed and published,
\* and in the maintenance epoch of its admission.
PassesAuthorized ==
    exchange # Idle /\ exchange' # Idle /\ (Delivers \/ Sends) =>
        /\ tree = exchange.tree
        /\ exchange.kind = "connect" =>
              /\ exchange.e.selected = "icann" /\ exchange.e.policy \in {"absence", "insecure"}
              /\ exchange.signal /\ binding = "icann" /\ epoch = exchange.epoch
TunnelsAreAuthorized == [][PassesAuthorized]_vars

\* The file a caller named is only replaced by a whole body or error document, while the
\* authority of its exchange lasts, and by a body only with its namespace committed.
ReplacesCurrent ==
    file'.target # file.target /\ exchange # Idle =>
        /\ exchange.kind = "download" /\ exchange.valid /\ ready /\ tree = exchange.tree
        /\ file'.target = "body" => binding' = exchange.e.selected
DownloadsAreCurrent == [][ReplacesCurrent]_vars

\* The headers and the status of an answer are made apart: where the status is available,
\* the one claims a DANE match if and only if the other does.
HeadersAgreeWithStatus ==
    exchange.at = "settled" /\ exchange.e # NONE /\ exchange.status.available
        => (exchange.headers.policy = "dane" <=> exchange.status.dane = "verified")
===============================================================================
