------------------------------ MODULE OriginPlan ------------------------------
(***************************************************************************)
(* How a request for an origin is routed: DualRootBrowserResolver builds a *)
(* plan under each root, HNS and ICANN, decides between them, and the      *)
(* namespace is committed to the binding store when the response is        *)
(* published.                                                              *)
(*                                                                         *)
(* A plan is built query by query while header sync publishes new trees    *)
(* and other requests publish responses of the same origin, in this and in *)
(* other processes.  One request is followed from its first query to its   *)
(* response; what the others do to the shared state is an action.          *)
(*                                                                         *)
(* A name is the origin or its alias target, each under a top-level label  *)
(* of its own.  Answers are those of a resolver that validates: an answer  *)
(* is secure when every zone it went through is signed; any query may fail *)
(* instead.  decide_namespace and the plan's own validation are outside of *)
(* the repository, and so are the lifetimes that may leave no overlap.     *)
(***************************************************************************)
EXTENDS Integers, Sequences, FiniteSets

CONSTANTS
    Exists,         \* tree -> the names whose labels that tree holds
    Zones,          \* [signed : [Names -> BOOLEAN], tlsa : SUBSET Transports]
    MaxAliases,     \* MAX_ALIAS_STEPS
    NONE

Names == {"origin", "alias"}
Transports == {"udp", "tcp"}
Namespaces == {"hns", "icann"}
NameTrees == 1..Len(Exists)

\* What the constants are assumed to be.
Assumptions ==
    /\ Exists \in Seq(SUBSET Names) /\ Exists # <<>>
    /\ Zones \subseteq [signed : [Names -> BOOLEAN], tlsa : SUBSET Transports]
    /\ MaxAliases \in Nat
    /\ NONE \notin Namespaces \cup [tree : NameTrees, exists : BOOLEAN]

Other(name) == CHOOSE n \in Names : n # name

VARIABLES
    tree,       \* the tree whose root the local chain holds
    binding,    \* namespace-bindings.sqlite: the origin's namespace, or NONE
    session,    \* RootResolutionSession of the build in progress
    request,    \* the request: its results, and its decision
    published,  \* history: namespaces a response of the origin was published from
    proofs      \* history: trees the HNS answers of the session were proved in

vars == <<tree, binding, session, request, published, proofs>>

(***************************************************************************)
(* RootResolutionSession                                                   *)
(***************************************************************************)
NoFamily == [target |-> NONE, some |-> FALSE, kind |-> NONE]

\* A plan starts with the HTTPS records of a TLS origin, with addresses otherwise.
NewSession(namespace, tls, zone) ==
    [namespace |-> namespace, at |-> IF tls THEN "https" ELSE "a", zone |-> zone,
     owner |-> "origin", hops |-> 0, service |-> "origin", transports |-> <<"tcp">>,
     four |-> NoFamily, target |-> NONE, endpoints |-> {},
     secure |-> TRUE, unsigned |-> FALSE, nx |-> FALSE,
     lineage |-> [n \in Names |-> NONE], inconsistent |-> {}, asked |-> {}]

Idle == [at |-> "idle"]

\* HnsProofLineage::record, for the proof of a name's label in this tree
Proved(s, name, t) ==
    LET proof == [tree |-> t, exists |-> name \in Exists[t]] IN
    CASE s.lineage[name] = NONE -> [s EXCEPT !.lineage[name] = proof]
      [] s.lineage[name] \notin {NONE, proof} -> [s EXCEPT !.inconsistent = @ \cup {name}]
      [] OTHER -> s

\* RootResolutionSession::resolve_name up to the answer
Asked(s, name) == IF s.namespace = "hns" THEN [s EXCEPT !.asked = @ \cup {name}] ELSE s

\* Is the answer secure?  An alias brings the zone of its target with it.
AnswerIsSecure(s, answer) ==
    s.zone.signed[s.owner] /\ (answer = "alias" => s.zone.signed[Other(s.owner)])

\* icann_origin_insecure_delegation_observed: an insecure answer holds an RRset of the
\* origin that no signature covers.
InsecureAnswer(s, answer) == s.owner = "origin" /\ ~AnswerIsSecure(s, answer)
UnsignedAnswer(s, answer) ==
    /\ InsecureAnswer(s, answer)
    /\ answer \in {"alias", "records"} /\ ~s.zone.signed["origin"]

Answered(s, answer) ==
    [s EXCEPT !.secure = @ /\ AnswerIsSecure(s, answer),
              !.nx = @ \/ answer = "nx",
              !.unsigned = @ \/ (s.namespace = "icann" /\ UnsignedAnswer(s, answer))]

(***************************************************************************)
(* What a build ends with                                                  *)
(***************************************************************************)
\* evidence(): the roots asked for were all proved, consistently, in one tree
AnyTree(s) == TRUE
OneTree(s) == \A m, n \in s.asked : s.lineage[m].tree = s.lineage[n].tree
Evidence(s) ==
    s.namespace = "hns" =>
        /\ s.asked # {} /\ s.asked \cap s.inconsistent = {}
        /\ \A n \in s.asked : s.lineage[n] # NONE
        /\ OneTree(s)

Failure == [state |-> "failed"]

\* validated_root_absence
AbsenceKind(s) ==
    CASE s.namespace = "hns" /\ ~s.lineage["origin"].exists -> "nonInclusion"
      [] s.namespace = "hns" /\ s.lineage["origin"].exists -> "authenticated"
      [] s.secure /\ s.nx -> "authenticatedNx"
      [] s.secure /\ ~s.nx -> "authenticated"
      [] OTHER -> "insecure"
Absence(s) ==
    IF /\ Evidence(s)
       /\ s.namespace = "hns" => s.secure \/ ~s.lineage["origin"].exists
    THEN [state |-> "absent", kind |-> AbsenceKind(s)]
    ELSE Failure

\* build_root_resolution: which errors of a build may prove an absence
AbsenceErrors == {"noUsableEndpoint", "nameNotFound"}
Ended(s, error) == IF error \in AbsenceErrors THEN Absence(s) ELSE Failure

Plan(s, policy) ==
    IF Evidence(s) /\ (s.namespace = "hns" => s.secure)
    THEN [state |-> "present", policy |-> policy, transport |-> Head(s.transports),
          target |-> s.target, endpoints |-> s.endpoints, zone |-> s.zone]
    ELSE Failure

\* A step of the build either goes on with a session or ends with a lookup.
GoOn(s) == session' = s /\ UNCHANGED request
End(lookup) ==
    /\ session' = [at |-> "built", namespace |-> session.namespace]
    /\ request' = [request EXCEPT ![session.namespace] = lookup]
Errs(s, error) == End(Ended(s, error))

(***************************************************************************)
(* The queries of a build                                                  *)
(***************************************************************************)
\* An alias is followed MaxAliases times.
FollowsOneMore(s) == s.hops <= MaxAliases
MayFollow(s) == s.hops < MaxAliases
Followed(s) == [s EXCEPT !.owner = Other(@), !.hops = @ + 1]
Towards(s, at) == [s EXCEPT !.at = at, !.owner = s.service, !.hops = 0]

\* resolve_https_service and select_service_bindings
Https(s, answer) ==
    \/ answer = "alias" /\ IF MayFollow(s) THEN GoOn(Followed(s)) ELSE Errs(s, "malformed")
    \/ /\ answer = "records"
       /\ \/ \E target \in Names, transports \in {<<"tcp">>, <<"udp">>, <<"udp", "tcp">>} :
                GoOn(Towards([s EXCEPT !.service = target, !.transports = transports], "a"))
          \/ Errs(s, "unsupported")
    \/ answer \in {"none", "nx"} /\ GoOn(Towards([s EXCEPT !.service = s.owner], "a"))

Family(s, answer) == [target |-> s.owner, some |-> answer = "records", kind |-> answer]

Addresses(f, family) == IF family.some THEN {<<f, family.target>>} ELSE {}

\* resolve_service_endpoints: a plan carries one alias path.  HNS refuses two; ICANN keeps
\* one family that came with a complete path.
BothFamilies(s, four, six) == Addresses("A", four) \cup Addresses("AAAA", six)
Endpoints(s, four, six) ==
    CASE four.target = six.target -> Addresses("A", four) \cup Addresses("AAAA", six)
      [] s.namespace = "icann" /\ four.target # six.target /\ four.some
            /\ (six.some \/ six.kind = "none") -> Addresses("A", four)
      [] s.namespace = "icann" /\ four.target # six.target /\ ~four.some
            /\ four.kind = "none" /\ six.some -> Addresses("AAAA", six)
      [] OTHER -> {NONE}

Target(four, endpoints, six) == IF endpoints \cap {<<"A", four.target>>} # {} THEN four.target
                                ELSE six.target

\* the addresses are known: TLS needs a policy next, unless the delegation is unsigned
WithEndpoints(s, four, six) ==
    LET endpoints == Endpoints(s, four, six)
        t == [s EXCEPT !.four = NoFamily, !.endpoints = endpoints,
                       !.target = Target(four, endpoints, six), !.hops = 0,
                       !.owner = "origin", !.at = "tlsa"] IN
    CASE endpoints = {NONE} -> Errs(s, "malformed")
      [] endpoints = {} -> Errs(s, "noUsableEndpoint")
      [] endpoints \notin {{}, {NONE}} /\ ~request.tls -> End(Plan(t, "cleartext"))
      [] endpoints \notin {{}, {NONE}} /\ request.tls /\ s.unsigned ->
            End(Plan(t, "webpkiInsecure"))
      [] OTHER -> GoOn(t)

\* resolve_address_family, for A and then for AAAA
Address(s, answer) ==
    \/ answer = "alias" /\ IF MayFollow(s) THEN GoOn(Followed(s)) ELSE Errs(s, "malformed")
    \/ /\ answer = "nx"
       /\ IF s.at = "aaaa" /\ s.four.some THEN Errs(s, "malformed")
          ELSE Errs(s, "noUsableEndpoint")
    \/ /\ answer \in {"records", "none"} /\ s.at = "a"
       /\ GoOn(Towards([s EXCEPT !.four = Family(s, answer)], "aaaa"))
    \/ /\ answer \in {"records", "none"} /\ s.at = "aaaa"
       /\ WithEndpoints(s, s.four, Family(s, answer))

\* resolve_tlsa for the first candidate service, and the policy it makes
Tlsa(s, answer) ==
    /\ answer \in {"records", "none"}
    /\ answer = "records" <=> Head(s.transports) \in s.zone.tlsa
    /\ LET secure == AnswerIsSecure(s, answer)  some == answer = "records" IN
       CASE s.namespace = "hns" /\ ~secure -> Errs(s, "dnssec")
         [] s.namespace = "hns" /\ secure /\ ~some ->
               IF Len(s.transports) > 1 THEN GoOn([s EXCEPT !.transports = Tail(@)])
               ELSE Errs(s, "tlsaMissing")
         [] s.namespace = "icann" /\ ~secure -> End(Plan(s, "webpkiInsecure"))
         [] s.namespace = "icann" /\ secure /\ ~some -> End(Plan(s, "webpkiAbsence"))
         [] OTHER -> End(Plan(s, "dane"))

Answer(s, answer) ==
    \/ s.at = "https" /\ Https(s, answer)
    \/ s.at \in {"a", "aaaa"} /\ Address(s, answer)
    \/ s.at = "tlsa" /\ Tlsa(s, answer)

Building == session.at \in {"https", "a", "aaaa", "tlsa"}

\* A query is answered.  Under HNS the label is proved in the tree of now first, and a
\* denial, of the label or of the name, is an error of its own.
Query == \E answer \in {"alias", "records", "none", "nx"} :
    LET asked == Asked(session, session.owner)
        s == IF session.namespace = "hns" THEN Proved(asked, session.owner, tree) ELSE asked IN
    /\ Building
    /\ IF session.namespace = "hns" /\ (session.owner \notin Exists[tree] \/ answer = "nx")
       THEN Errs(s, "nameNotFound")
       ELSE Answer(Answered(s, answer), answer)
    /\ proofs' = IF session.namespace = "hns" THEN proofs \cup {tree} ELSE proofs
    /\ UNCHANGED <<tree, binding, published>>

\* A query fails: no proof, a transport, local DNSSEC, or a message that makes no sense;
\* or the lifetimes of what was found have no overlap.
QueryFails ==
    /\ Building
    /\ Errs(Asked(session, session.owner), "failed")
    /\ UNCHANGED <<tree, binding, published, proofs>>

(***************************************************************************)
(* The request                                                             *)
(***************************************************************************)
NoRequest == [tls |-> FALSE, hns |-> NONE, icann |-> NONE, selected |-> NONE]

Begin ==
    /\ session = Idle
    /\ \E tls \in BOOLEAN, zone \in Zones :
          /\ session' = NewSession("hns", tls, zone)
          /\ request' = [NoRequest EXCEPT !.tls = tls]
    /\ proofs' = {}
    /\ UNCHANGED <<tree, binding, published>>

\* ICANN is looked up whatever HNS ended with.
BeginIcann ==
    /\ session.at = "built" /\ session.namespace = "hns"
    /\ \E zone \in Zones : session' = NewSession("icann", request.tls, zone)
    /\ UNCHANGED <<tree, binding, request, published, proofs>>

\* decide_namespace: a failed root leaves no decision; with both present, the sticky
\* namespace is kept, and ICANN is the default.
Selected(hns, icann, sticky) ==
    CASE "failed" \in {hns.state, icann.state} -> NONE
      [] hns.state = "present" /\ icann.state = "absent" -> "hns"
      [] hns.state = "absent" /\ icann.state = "present" -> "icann"
      [] hns.state = "present" /\ icann.state = "present" ->
            IF sticky = NONE THEN "icann" ELSE sticky
      [] OTHER -> NONE

Decide ==
    /\ session.at = "built" /\ session.namespace = "icann"
    /\ session' = [at |-> "decided"]
    /\ request' = [request EXCEPT !.selected = Selected(request.hns, request.icann, binding)]
    /\ UNCHANGED <<tree, binding, published, proofs>>

\* NamespaceBindingStore::record_success, one SQLite transaction
Replaces(namespace) == TRUE
Agrees(namespace) == binding \in {NONE, namespace}
RecordSuccess(namespace) == Agrees(namespace) /\ binding' = namespace

\* The publication permit commits the namespace and then writes the response.
Publish ==
    /\ session.at = "decided" /\ request.selected # NONE
    /\ RecordSuccess(request.selected)
    /\ published' = published \cup {request.selected}
    /\ session' = Idle /\ request' = NoRequest /\ proofs' = {}
    /\ UNCHANGED tree

\* No namespace was selected, the permit is refused, or the client is gone.
Drop ==
    /\ session.at = "decided"
    /\ session' = Idle /\ request' = NoRequest /\ proofs' = {}
    /\ UNCHANGED <<tree, binding, published>>

\* Another request of the origin, of this or another process, publishes its decision.
OtherPublishes == \E namespace \in Namespaces :
    /\ RecordSuccess(namespace)
    /\ published' = published \cup {namespace}
    /\ UNCHANGED <<tree, session, request, proofs>>

NewTree ==
    /\ tree < Len(Exists) /\ tree' = tree + 1
    /\ UNCHANGED <<binding, session, request, published, proofs>>

Init ==
    /\ tree = 1 /\ binding = NONE /\ published = {} /\ proofs = {}
    /\ session = Idle /\ request = NoRequest

Next == \/ Begin \/ Query \/ QueryFails \/ BeginIcann \/ Decide \/ Publish \/ Drop
        \/ OtherPublishes \/ NewTree

Spec == Init /\ [][Next]_vars

(***************************************************************************)
(* Properties                                                              *)
(***************************************************************************)
\* Types; an alias chain is never followed further than MAX_ALIAS_STEPS.
TypeOK ==
    /\ tree \in NameTrees /\ binding \in Namespaces \cup {NONE}
    /\ published \subseteq Namespaces /\ proofs \subseteq NameTrees
    /\ session.at \in {"idle", "https", "a", "aaaa", "tlsa", "built", "decided"}
    /\ Building => /\ session.owner \in Names /\ session.hops \in 0..MaxAliases
                   /\ session.asked \subseteq Names /\ session.transports # <<>>
    /\ request.selected \in Namespaces \cup {NONE}

\* All responses of an origin come from one namespace, however the requests that decide
\* and the ones that publish interleave.
OneNamespacePerOrigin == published \subseteq {binding}

\* "A DNSSEC-secure HNS address is still namespace presence": once a build found an
\* address, it does not end in an HNS absence that lets ICANN be selected.
HnsPresenceIsNotAbsence == [][
    Building /\ session.namespace = "hns" /\ session.endpoints # {} /\ request'.hns # NONE
        => request'.hns.state # "absent"]_vars

\* Everything an HNS plan or absence rests on was proved in one tree, though the tree may
\* change between any two queries of the build.
EvidenceIsOfOneTree ==
    request.hns # NONE /\ request.hns.state # "failed" => Cardinality(proofs) = 1

\* An origin whose own zone is signed and holds TLSA records is not reduced to WebPKI
\* because its alias target is unsigned, or a query for the records failed.
DaneIsNotDowngraded ==
    LET icann == request.icann IN
    icann # NONE /\ icann.state = "present" /\ request.tls
        /\ icann.zone.signed["origin"] /\ icann.transport \in icann.zone.tlsa
    => icann.policy = "dane"

\* Every address of a plan was found at the end of the plan's one alias path.
EndpointsFollowOnePath == \A ns \in Namespaces :
    request[ns] # NONE /\ request[ns].state = "present"
        => \A e \in request[ns].endpoints : e[2] = request[ns].target
===============================================================================
