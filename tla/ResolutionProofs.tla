---------------------------- MODULE ResolutionProofs ----------------------------
(***************************************************************************)
(* What MCResolution promises of the plans for an origin and of the        *)
(* exchanges that follow them, proved with TLAPS for every history of name *)
(* trees, every zone, every answer and every evidence a gateway can give.  *)
(*                                                                         *)
(* The two parts share no state, so the invariant is a conjunction: one of *)
(* the plan (the session's proofs, the lookups it ended with, the          *)
(* namespace published from) and one of the exchange (what each phase may  *)
(* rely on, and what the locks of a tunnel keep unchanged).                *)
(***************************************************************************)
EXTENDS MCResolution, DnsRelayProofs

Stages == {"https", "a", "aaaa", "tlsa"}
SessionFields ==
    {"namespace", "at", "zone", "owner", "hops", "service", "transports", "four", "target",
     "endpoints", "secure", "unsigned", "nx", "lineage", "inconsistent", "asked"}
ServiceLists == {<<"tcp">>, <<"udp">>, <<"udp", "tcp">>}

\* A session in progress.  Only an origin whose zone is not signed was seen
\* unsigned; the TLSA records are asked for under the origin's own name, when
\* all addresses are known to end one path.
SoundSession(s) ==
    /\ DOMAIN s = SessionFields
    /\ s.namespace \in Plan!Namespaces /\ s.at \in Stages
    /\ s.owner \in Plan!Names /\ s.service \in Plan!Names /\ s.hops \in 0 .. MaxAliases
    /\ s.transports \in ServiceLists /\ s.asked \subseteq Plan!Names /\ DOMAIN s.lineage = Plan!Names
    /\ s.unsigned => ~s.zone.signed["origin"]
    /\ s.at = "tlsa" => s.owner = "origin" /\ \A e \in s.endpoints : e[2] = s.target

\* Every tree that proved something is remembered, or a contradiction is.
Traced(s, trees) ==
    s.namespace = "hns" =>
        \A t \in trees : \E n \in s.asked :
            n \in s.inconsistent \/ (s.lineage[n] # NONE /\ s.lineage[n].tree = t)

\* What a root was looked up with, given the trees that proved it.
SoundLookup(namespace, lookup, tls, trees) ==
    /\ namespace = "hns" /\ lookup.state # "failed" => Cardinality(trees) = 1
    /\ lookup.state = "present" => \A e \in lookup.endpoints : e[2] = lookup.target
    /\ /\ namespace = "icann" /\ lookup.state = "present" /\ tls
       /\ lookup.zone.signed["origin"] /\ lookup.transport \in lookup.zone.tlsa
       => lookup.policy = "dane"

BuiltSession(namespace) == [at |-> "built", namespace |-> namespace]
DecidedSession == [at |-> "decided"]
Builds ==
    /\ SoundSession(session) /\ Traced(session, proofs)
    /\ session.namespace = "hns" => request.hns = NONE

PlanInv ==
    /\ tree \in Plan!NameTrees /\ binding \in Plan!Namespaces \cup {NONE}
    /\ proofs \subseteq Plan!NameTrees
    /\ published \subseteq Plan!Namespaces /\ published \subseteq {binding}
    /\ DOMAIN request = {"tls", "hns", "icann", "selected"}
    /\ request.selected \in Plan!Namespaces \cup {NONE}
    /\ request.hns # NONE => SoundLookup("hns", request.hns, request.tls, proofs)
    /\ request.icann # NONE => SoundLookup("icann", request.icann, request.tls, proofs)
    /\ \/ session = Plan!Idle \/ session = DecidedSession
       \/ \E namespace \in Plan!Namespaces : session = BuiltSession(namespace)
       \/ Builds

-----------------------------------------------------------------------------
(* The plan: what a query leaves of a session.                             *)

\* One tree proved all there is, if the lineage accounts for every tree and
\* is consistent.
LEMMA EvidenceProvesOneTree ==
    ASSUME NEW s, NEW trees, trees # {}, s.namespace = "hns", Traced(s, trees), Plan!Evidence(s)
    PROVE  Cardinality(trees) = 1
<1>1. /\ \A n \in s.asked : n \notin s.inconsistent
      /\ \A m, n \in s.asked : s.lineage[m].tree = s.lineage[n].tree
  BY DEF Plan!Evidence, Plan!OneTree
<1>2. PICK t : t \in trees
  OBVIOUS
<1>3. \A u \in trees : \E n \in s.asked : s.lineage[n].tree = u
  BY <1>1 DEF Traced
<1>4. \A u \in trees : u = t
  BY <1>1, <1>2, <1>3
<1>5. trees = {t}
  BY <1>2, <1>4
<1> QED BY <1>5, FS_Singleton

\* The lookups that a session can end with.
LEMMA EndedIsSound ==
    ASSUME NEW s, NEW trees, NEW error, NEW tls,
           s.namespace \in Plan!Namespaces, Traced(s, trees), s.namespace = "hns" => trees # {}
    PROVE  SoundLookup(s.namespace, Plan!Ended(s, error), tls, trees)
<1>1. Plan!Ended(s, error).state \in {"failed", "absent"}
  BY DEF Plan!Ended, Plan!Absence, Plan!Failure
<1>2. Plan!Ended(s, error).state = "absent" => Plan!Evidence(s)
  BY DEF Plan!Ended, Plan!Absence, Plan!Failure
<1> QED BY <1>1, <1>2, EvidenceProvesOneTree DEF SoundLookup

LEMMA FailureIsSound ==
    ASSUME NEW namespace, NEW trees, NEW tls
    PROVE  SoundLookup(namespace, Plan!Failure, tls, trees)
BY DEF SoundLookup, Plan!Failure

LEMMA PlanIsSound ==
    ASSUME NEW s, NEW trees, NEW policy, NEW tls,
           s.namespace \in Plan!Namespaces, Traced(s, trees), s.namespace = "hns" => trees # {},
           \A e \in s.endpoints : e[2] = s.target,
           /\ s.namespace = "icann" /\ tls /\ s.zone.signed["origin"]
           /\ Head(s.transports) \in s.zone.tlsa
           => policy = "dane"
    PROVE  SoundLookup(s.namespace, Plan!Plan(s, policy), tls, trees)
<1> DEFINE p == [state |-> "present", policy |-> policy, transport |-> Head(s.transports),
                 target |-> s.target, endpoints |-> s.endpoints, zone |-> s.zone]
<1>1. CASE Plan!Evidence(s) /\ (s.namespace = "hns" => s.secure)
  <2>1. Plan!Plan(s, policy) = p
    BY <1>1 DEF Plan!Plan
  <2>2. s.namespace = "hns" => Cardinality(trees) = 1
    BY <1>1, EvidenceProvesOneTree
  <2>3. /\ p.state = "present" /\ p.policy = policy /\ p.transport = Head(s.transports)
        /\ p.target = s.target /\ p.endpoints = s.endpoints /\ p.zone = s.zone
    OBVIOUS
  <2> HIDE DEF p
  <2> QED BY <2>1, <2>2, <2>3 DEF SoundLookup
<1>2. CASE ~(Plan!Evidence(s) /\ (s.namespace = "hns" => s.secure))
  BY <1>2, FailureIsSound DEF Plan!Plan
<1> QED BY <1>1, <1>2

\* The session after the label of its owner was proved in a tree.
Shown(s, t) == Plan!Proved(Plan!Asked(s, s.owner), s.owner, t)

LEMMA ProvedIsSound ==
    ASSUME NEW s, NEW trees, NEW t \in Plan!NameTrees, SoundSession(s), Traced(s, trees),
           s.namespace = "hns"
    PROVE  /\ SoundSession(Shown(s, t)) /\ Traced(Shown(s, t), trees \cup {t})
           /\ Shown(s, t).namespace = s.namespace /\ Shown(s, t).at = s.at
<1> DEFINE u == Shown(s, t)
           name == s.owner
           d == [s EXCEPT !.asked = @ \cup {name}]
           proof == [tree |-> t, exists |-> name \in Exists[t]]
<1>1. Plan!Asked(s, name) = d
  BY DEF Plan!Asked
<1>2. u = Plan!Proved(d, name, t)
  BY <1>1 DEF Shown
<1> HIDE DEF u
<1>3. name \in Plan!Names /\ s.asked \subseteq Plan!Names /\ DOMAIN s = SessionFields
  BY DEF SoundSession
<1>4. /\ DOMAIN d = SessionFields /\ d.asked = s.asked \cup {name} /\ d.lineage = s.lineage
      /\ d.inconsistent = s.inconsistent
      /\ \A f \in SessionFields \ {"asked"} : d[f] = s[f]
  BY <1>3 DEF SessionFields
<1>5. SoundSession(d) /\ d.namespace = s.namespace /\ d.at = s.at
  BY <1>3, <1>4 DEF SoundSession, SessionFields
<1>6. Traced(d, trees)
  BY <1>4, <1>5 DEF Traced
<1>7. proof.tree = t /\ proof # NONE
  <2>1. proof \in [tree : Plan!NameTrees, exists : BOOLEAN]
    OBVIOUS
  <2> QED BY <2>1, PlanConstants DEF Plan!Assumptions
<1> HIDE DEF d, proof
<1>8. CASE s.lineage[name] = NONE
  <2>1. u = [d EXCEPT !.lineage[name] = proof]
    BY <1>2, <1>4, <1>8 DEF Plan!Proved, proof
  <2>2. /\ DOMAIN u = SessionFields /\ u.lineage = [d.lineage EXCEPT ![name] = proof]
        /\ \A f \in SessionFields \ {"lineage"} : u[f] = d[f]
    BY <1>4, <2>1 DEF SessionFields
  <2>3. DOMAIN d.lineage = Plan!Names
    BY <1>5 DEF SoundSession
  <2>4. /\ DOMAIN u.lineage = Plan!Names /\ u.lineage[name] = proof
        /\ \A n \in Plan!Names \ {name} : u.lineage[n] = d.lineage[n]
    BY <1>3, <2>2, <2>3
  <2>5. SoundSession(u) /\ u.namespace = s.namespace /\ u.at = s.at
        /\ u.asked = d.asked /\ u.inconsistent = d.inconsistent
    BY <1>5, <2>2, <2>4 DEF SoundSession, SessionFields
  <2>6. Traced(u, trees \cup {t})
    <3> SUFFICES ASSUME NEW v \in trees \cup {t}
                 PROVE  \E n \in u.asked : n \in u.inconsistent \/ (u.lineage[n] # NONE /\ u.lineage[n].tree = v)
      BY DEF Traced
    <3>1. CASE v = t
      BY <1>4, <1>7, <2>4, <2>5, <3>1
    <3>2. CASE v \in trees
      <4>1. PICK n \in d.asked : n \in d.inconsistent \/ (d.lineage[n] # NONE /\ d.lineage[n].tree = v)
        BY <1>5, <1>6, <3>2 DEF Traced
      <4>2. n \in Plan!Names
        BY <1>3, <1>4, <4>1
      <4> QED BY <1>4, <1>8, <2>4, <2>5, <4>1, <4>2
    <3> QED BY <3>1, <3>2
  <2> QED BY <2>5, <2>6 DEF u
<1>9. CASE s.lineage[name] \notin {NONE, proof}
  <2>1. u = [d EXCEPT !.inconsistent = @ \cup {name}]
    BY <1>2, <1>4, <1>9 DEF Plan!Proved, proof
  <2>2. /\ DOMAIN u = SessionFields /\ u.inconsistent = d.inconsistent \cup {name}
        /\ \A f \in SessionFields \ {"inconsistent"} : u[f] = d[f]
    BY <1>4, <2>1 DEF SessionFields
  <2>3. SoundSession(u) /\ u.namespace = s.namespace /\ u.at = s.at
        /\ u.asked = d.asked /\ u.lineage = d.lineage
    BY <1>5, <2>2 DEF SoundSession, SessionFields
  <2>4. Traced(u, trees \cup {t})
    BY <1>4, <1>5, <1>6, <2>2, <2>3 DEF Traced
  <2> QED BY <2>3, <2>4 DEF u
<1>10. CASE s.lineage[name] = proof
  <2>1. u = d
    BY <1>2, <1>4, <1>7, <1>10 DEF Plan!Proved, proof
  <2>2. Traced(u, trees \cup {t})
    BY <1>4, <1>5, <1>6, <1>7, <1>10, <2>1 DEF Traced
  <2> QED BY <1>5, <2>1, <2>2 DEF u
<1> QED BY <1>8, <1>9, <1>10 DEF u

\* The session after an answer is still sound, and as far as it was.
LEMMA AnsweredIsSound ==
    ASSUME NEW s, NEW trees, NEW answer, SoundSession(s), Traced(s, trees)
    PROVE  /\ SoundSession(Plan!Answered(s, answer)) /\ Traced(Plan!Answered(s, answer), trees)
           /\ \A f \in SessionFields \ {"secure", "nx", "unsigned"} :
                  Plan!Answered(s, answer)[f] = s[f]
<1> DEFINE u == Plan!Answered(s, answer)
<1>1. DOMAIN s = SessionFields
  BY DEF SoundSession
<1>2. /\ DOMAIN u = SessionFields
      /\ u.unsigned = (s.unsigned \/ (s.namespace = "icann" /\ Plan!UnsignedAnswer(s, answer)))
      /\ \A f \in SessionFields \ {"secure", "nx", "unsigned"} : u[f] = s[f]
  <2> DEFINE x == s.secure /\ Plan!AnswerIsSecure(s, answer)
             y == s.nx \/ answer = "nx"
             z == s.unsigned \/ (s.namespace = "icann" /\ Plan!UnsignedAnswer(s, answer))
  <2>1. u = [s EXCEPT !.secure = x, !.nx = y, !.unsigned = z]
    BY DEF Plan!Answered
  <2> HIDE DEF x, y, z
  <2>2. /\ DOMAIN u = SessionFields /\ u.unsigned = z
        /\ \A f \in SessionFields \ {"secure", "nx", "unsigned"} : u[f] = s[f]
    BY <1>1, <2>1 DEF SessionFields
  <2> QED BY <2>2 DEF z
<1> HIDE DEF u
<1>3. u.unsigned => ~u.zone.signed["origin"]
  <2>1. u.zone = s.zone
    BY <1>2 DEF SessionFields
  <2> QED BY <1>2, <2>1 DEF SoundSession, Plan!UnsignedAnswer
<1>4. SoundSession(u)
  BY <1>2, <1>3 DEF SoundSession, SessionFields
<1>5. Traced(u, trees)
  BY <1>2 DEF Traced, SessionFields
<1> QED BY <1>2, <1>4, <1>5 DEF u

-----------------------------------------------------------------------------
(* The plan: what a build does with an answer.                             *)

\* A build goes on with a sound session, or ends with a sound lookup.
Moves ==
    \/ /\ SoundSession(session') /\ Traced(session', proofs')
       /\ session'.namespace = session.namespace /\ request' = request
    \/ \E lookup :
          /\ SoundLookup(session.namespace, lookup, request.tls, proofs')
          /\ session' = BuiltSession(session.namespace)
          /\ request' = [request EXCEPT ![session.namespace] = lookup]

\* The session that answers are judged by.
Judged(s) ==
    /\ SoundSession(s) /\ Traced(s, proofs') /\ s.namespace = session.namespace
    /\ s.namespace = "hns" => proofs' # {}

LEMMA Erring ==
    ASSUME NEW s, Judged(s), NEW error, Plan!Errs(s, error)
    PROVE  Moves
<1>1. SoundLookup(session.namespace, Plan!Ended(s, error), request.tls, proofs')
  BY EndedIsSound DEF Judged, SoundSession
<1>2. /\ session' = BuiltSession(session.namespace)
      /\ request' = [request EXCEPT ![session.namespace] = Plan!Ended(s, error)]
  BY DEF Plan!Errs, Plan!End, BuiltSession
<1> HIDE DEF Plan!Ended
<1> QED BY <1>1, <1>2 DEF Moves

LEMMA Planning ==
    ASSUME NEW s, Judged(s), NEW policy, Plan!End(Plan!Plan(s, policy)),
           \A e \in s.endpoints : e[2] = s.target,
           /\ s.namespace = "icann" /\ request.tls /\ s.zone.signed["origin"]
           /\ Head(s.transports) \in s.zone.tlsa
           => policy = "dane"
    PROVE  Moves
<1>1. SoundLookup(session.namespace, Plan!Plan(s, policy), request.tls, proofs')
  BY PlanIsSound DEF Judged, SoundSession
<1>2. /\ session' = BuiltSession(session.namespace)
      /\ request' = [request EXCEPT ![session.namespace] = Plan!Plan(s, policy)]
  BY DEF Plan!End, BuiltSession
<1> HIDE DEF Plan!Plan
<1> QED BY <1>1, <1>2 DEF Moves

\* A session that keeps its proofs and goes on to another query.
Kept(s, u) ==
    /\ DOMAIN u = SessionFields
    /\ \A f \in {"namespace", "zone", "secure", "unsigned", "nx", "lineage", "inconsistent", "asked"} :
           u[f] = s[f]

LEMMA GoingOn ==
    ASSUME NEW s, Judged(s), NEW u, Plan!GoOn(u), Kept(s, u),
           u.at \in Stages, u.owner \in Plan!Names, u.service \in Plan!Names,
           u.hops \in 0 .. MaxAliases, u.transports \in ServiceLists,
           u.at = "tlsa" => u.owner = "origin" /\ \A e \in u.endpoints : e[2] = u.target
    PROVE  Moves
<1>1. /\ u.namespace = s.namespace /\ u.zone = s.zone /\ u.unsigned = s.unsigned
      /\ u.lineage = s.lineage /\ u.inconsistent = s.inconsistent /\ u.asked = s.asked
  BY DEF Kept
<1>2. SoundSession(u)
  BY <1>1 DEF SoundSession, Judged, Kept
<1>3. Traced(u, proofs')
  BY <1>1 DEF Traced, Judged
<1>4. session' = u /\ request' = request
  BY DEF Plan!GoOn
<1> QED BY <1>1, <1>2, <1>3, <1>4 DEF Moves, Judged

LEMMA OtherIsName == \A name \in Plan!Names : Plan!Other(name) \in Plan!Names
<1>1. \E n \in Plan!Names : n # "origin"
  BY DEF Plan!Names
<1>2. \E n \in Plan!Names : n # "alias"
  BY DEF Plan!Names
<1> QED BY <1>1, <1>2 DEF Plan!Other, Plan!Names

\* An alias is followed as far as the limit allows.
LEMMA Following ==
    ASSUME NEW s, Judged(s), s.at # "tlsa",
           IF Plan!MayFollow(s) THEN Plan!GoOn(Plan!Followed(s)) ELSE Plan!Errs(s, "malformed")
    PROVE  Moves
<1>1. CASE Plan!MayFollow(s)
  <2> DEFINE u == Plan!Followed(s)
  <2>1. DOMAIN s = SessionFields /\ s.hops \in 0 .. MaxAliases /\ s.owner \in Plan!Names
    BY DEF Judged, SoundSession
  <2>2. /\ DOMAIN u = SessionFields /\ u.owner = Plan!Other(s.owner) /\ u.hops = s.hops + 1
        /\ \A f \in SessionFields \ {"owner", "hops"} : u[f] = s[f]
    BY <2>1 DEF Plan!Followed, SessionFields
  <2>3. Plan!GoOn(u)
    BY <1>1
  <2> HIDE DEF u
  <2>4. u.hops \in 0 .. MaxAliases /\ u.owner \in Plan!Names
    BY <1>1, <2>1, <2>2, OtherIsName, PlanConstants DEF Plan!MayFollow, Plan!Assumptions
  <2>5. Kept(s, u)
    BY <2>2 DEF Kept, SessionFields
  <2>6. u.at = s.at /\ u.service = s.service /\ u.transports = s.transports
    BY <2>2 DEF SessionFields
  <2> QED BY <2>3, <2>4, <2>5, <2>6, GoingOn DEF Judged, SoundSession
<1>2. CASE ~Plan!MayFollow(s)
  BY <1>2, Erring
<1> QED BY <1>1, <1>2

\* The next queries are about the service, from the start of an alias path.
LEMMA GoingTowards ==
    ASSUME NEW s, Judged(s), NEW d, Kept(s, d), d.service \in Plan!Names, d.transports \in ServiceLists,
           NEW at \in {"a", "aaaa"}, Plan!GoOn(Plan!Towards(d, at))
    PROVE  Moves
<1> DEFINE u == Plan!Towards(d, at)
<1>1. DOMAIN d = SessionFields
  BY DEF Kept
<1>2. /\ DOMAIN u = SessionFields /\ u.at = at /\ u.owner = d.service /\ u.hops = 0
      /\ \A f \in SessionFields \ {"at", "owner", "hops"} : u[f] = d[f]
  BY <1>1 DEF Plan!Towards, SessionFields
<1>3. Plan!GoOn(u)
  OBVIOUS
<1> HIDE DEF u
<1>4. Kept(s, u) /\ u.service = d.service /\ u.transports = d.transports
  BY <1>2 DEF Kept, SessionFields
<1>5. u.hops \in 0 .. MaxAliases
  BY <1>2, PlanConstants DEF Plan!Assumptions
<1> QED BY <1>2, <1>3, <1>4, <1>5, GoingOn DEF Stages

\* HTTPS records: an alias, a service, or the origin itself.
LEMMA HttpsMoves == ASSUME NEW s, Judged(s), s.at = "https", NEW answer, Plan!Https(s, answer) PROVE Moves
<1>1. DOMAIN s = SessionFields /\ s.service \in Plan!Names /\ s.owner \in Plan!Names
      /\ s.transports \in ServiceLists
  BY DEF Judged, SoundSession
<1>2. ASSUME NEW target \in Plan!Names, NEW transports \in ServiceLists,
             Plan!GoOn(Plan!Towards([s EXCEPT !.service = target, !.transports = transports], "a"))
      PROVE  Moves
  <2> DEFINE d == [s EXCEPT !.service = target, !.transports = transports]
  <2>1. DOMAIN d = SessionFields /\ d.service = target /\ d.transports = transports /\ Kept(s, d)
    BY <1>1 DEF SessionFields, Kept
  <2>2. Plan!GoOn(Plan!Towards(d, "a"))
    BY <1>2
  <2> HIDE DEF d
  <2> QED BY <2>1, <2>2, GoingTowards
<1>3. ASSUME Plan!GoOn(Plan!Towards([s EXCEPT !.service = s.owner], "a")) PROVE Moves
  <2> DEFINE d == [s EXCEPT !.service = s.owner]
  <2>1. DOMAIN d = SessionFields /\ d.service = s.owner /\ d.transports = s.transports /\ Kept(s, d)
    BY <1>1 DEF SessionFields, Kept
  <2>2. Plan!GoOn(Plan!Towards(d, "a"))
    BY <1>3
  <2> HIDE DEF d
  <2> QED BY <1>1, <2>1, <2>2, GoingTowards
<1>4. CASE answer = "alias"
  <2>1. IF Plan!MayFollow(s) THEN Plan!GoOn(Plan!Followed(s)) ELSE Plan!Errs(s, "malformed")
    BY <1>4 DEF Plan!Https
  <2> HIDE DEF Plan!MayFollow, Plan!GoOn, Plan!Followed, Plan!Errs
  <2> QED BY <2>1, Following
<1>5. CASE answer = "records"
  <2>1. \/ \E target \in Plan!Names, transports \in ServiceLists :
               Plan!GoOn(Plan!Towards([s EXCEPT !.service = target, !.transports = transports], "a"))
        \/ Plan!Errs(s, "unsupported")
    BY <1>5 DEF Plan!Https, ServiceLists
  <2> QED BY <1>2, <2>1, Erring
<1>6. CASE answer \in {"none", "nx"}
  BY <1>3, <1>6 DEF Plan!Https
<1> QED BY <1>4, <1>5, <1>6 DEF Plan!Https

\* Whatever addresses a plan keeps, they end one path.
LEMMA EndpointsEndOnePath ==
    ASSUME NEW s, NEW four, NEW six, Plan!Endpoints(s, four, six) # {NONE},
           NEW e \in Plan!Endpoints(s, four, six)
    PROVE  e[2] = Plan!Target(four, Plan!Endpoints(s, four, six), six)
<1> DEFINE x == <<"A", four.target>>  y == <<"AAAA", six.target>>
           es == Plan!Endpoints(s, four, six)
<1>1. x[2] = four.target /\ y[2] = six.target /\ x # y
  OBVIOUS
<1>2. /\ Plan!Addresses("A", four) \in {{x}, {}}
      /\ Plan!Addresses("AAAA", six) \in {{y}, {}}
  BY DEF Plan!Addresses
<1>3. Plan!Target(four, es, six) = IF es \cap {x} # {} THEN four.target ELSE six.target
  BY DEF Plan!Target
<1>4. \/ four.target = six.target /\ es = Plan!Addresses("A", four) \cup Plan!Addresses("AAAA", six)
      \/ es = Plan!Addresses("A", four) \/ es = Plan!Addresses("AAAA", six)
  BY DEF Plan!Endpoints
<1> HIDE DEF x, y, es
<1>5. e = x \/ e = y
  BY <1>2, <1>4 DEF es
<1>6. CASE four.target = six.target
  BY <1>1, <1>3, <1>5, <1>6 DEF es
<1>7. CASE four.target # six.target
  <2>1. es = {x} \/ es = {y}
    BY <1>2, <1>4, <1>7 DEF es
  <2>2. CASE es = {x}
    BY <1>1, <1>3, <2>2 DEF es
  <2>3. CASE es = {y}
    BY <1>1, <1>3, <2>3 DEF es
  <2> QED BY <2>1, <2>2, <2>3
<1> QED BY <1>6, <1>7

\* The addresses are known: a cleartext or an insecure plan, or the policy is next.
LEMMA WithEndpointsMoves ==
    ASSUME NEW s, Judged(s), NEW four, NEW six, Plan!WithEndpoints(s, four, six)
    PROVE  Moves
<1> DEFINE es == Plan!Endpoints(s, four, six)
           t == [s EXCEPT !.four = Plan!NoFamily, !.endpoints = es,
                          !.target = Plan!Target(four, es, six), !.hops = 0,
                          !.owner = "origin", !.at = "tlsa"]
<1>1. /\ DOMAIN s = SessionFields /\ s.service \in Plan!Names /\ s.transports \in ServiceLists
      /\ s.unsigned => ~s.zone.signed["origin"]
  BY DEF Judged, SoundSession
<1>2. /\ DOMAIN t = SessionFields /\ t.endpoints = es /\ t.target = Plan!Target(four, es, six)
      /\ t.hops = 0 /\ t.owner = "origin" /\ t.at = "tlsa"
      /\ \A f \in SessionFields \ {"four", "endpoints", "target", "hops", "owner", "at"} : t[f] = s[f]
  BY <1>1 DEF SessionFields
<1>3. \/ Plan!Errs(s, "malformed") \/ Plan!Errs(s, "noUsableEndpoint")
      \/ /\ es # {NONE}
         /\ \/ ~request.tls /\ Plan!End(Plan!Plan(t, "cleartext"))
            \/ request.tls /\ s.unsigned /\ Plan!End(Plan!Plan(t, "webpkiInsecure"))
            \/ Plan!GoOn(t)
  BY DEF Plan!WithEndpoints
<1> HIDE DEF t, es
<1>4. es # {NONE} => \A e \in t.endpoints : e[2] = t.target
  BY <1>2, EndpointsEndOnePath DEF es
<1>5. /\ Kept(s, t) /\ t.service = s.service /\ t.transports = s.transports
      /\ t.namespace = s.namespace /\ t.zone = s.zone /\ t.unsigned = s.unsigned
      /\ t.lineage = s.lineage /\ t.inconsistent = s.inconsistent /\ t.asked = s.asked
  BY <1>2 DEF Kept, SessionFields
<1>6. t.owner \in Plan!Names /\ t.hops \in 0 .. MaxAliases /\ t.at \in Stages
  BY <1>2, PlanConstants DEF Plan!Names, Plan!Assumptions, Stages
<1>7. es # {NONE} => Judged(t)
  BY <1>1, <1>2, <1>4, <1>5, <1>6 DEF Judged, SoundSession, Traced
<1>8. CASE Plan!Errs(s, "malformed") \/ Plan!Errs(s, "noUsableEndpoint")
  BY <1>8, Erring
<1>9. CASE es # {NONE} /\ ~request.tls /\ Plan!End(Plan!Plan(t, "cleartext"))
  BY <1>4, <1>7, <1>9, Planning
<1>10. CASE es # {NONE} /\ request.tls /\ s.unsigned /\ Plan!End(Plan!Plan(t, "webpkiInsecure"))
  <2>1. ~t.zone.signed["origin"]
    BY <1>1, <1>5, <1>10
  <2> QED BY <1>4, <1>7, <1>10, <2>1, Planning
<1>11. CASE es # {NONE} /\ Plan!GoOn(t)
  BY <1>1, <1>2, <1>4, <1>5, <1>6, <1>11, GoingOn
<1> QED BY <1>3, <1>8, <1>9, <1>10, <1>11

\* Addresses of one family, and then of the other.
LEMMA AddressMoves ==
    ASSUME NEW s, Judged(s), s.at \in {"a", "aaaa"}, NEW answer, Plan!Address(s, answer)
    PROVE  Moves
<1>1. DOMAIN s = SessionFields /\ s.service \in Plan!Names /\ s.transports \in ServiceLists
  BY DEF Judged, SoundSession
<1>2. CASE answer = "alias"
  <2>1. IF Plan!MayFollow(s) THEN Plan!GoOn(Plan!Followed(s)) ELSE Plan!Errs(s, "malformed")
    BY <1>2 DEF Plan!Address
  <2> HIDE DEF Plan!MayFollow, Plan!GoOn, Plan!Followed, Plan!Errs
  <2> QED BY <2>1, Following
<1>3. CASE answer = "nx"
  <2>1. Plan!Errs(s, "malformed") \/ Plan!Errs(s, "noUsableEndpoint")
    BY <1>3 DEF Plan!Address
  <2> QED BY <2>1, Erring
<1>4. CASE answer \in {"records", "none"} /\ s.at = "a"
  <2> DEFINE d == [s EXCEPT !.four = Plan!Family(s, answer)]
  <2>1. Plan!GoOn(Plan!Towards(d, "aaaa"))
    BY <1>4 DEF Plan!Address
  <2>2. Kept(s, d) /\ d.service = s.service /\ d.transports = s.transports
    BY <1>1 DEF SessionFields, Kept
  <2> HIDE DEF d
  <2> QED BY <1>1, <2>1, <2>2, GoingTowards
<1>5. CASE answer \in {"records", "none"} /\ s.at = "aaaa"
  <2>1. Plan!WithEndpoints(s, s.four, Plan!Family(s, answer))
    BY <1>5 DEF Plan!Address
  <2> HIDE DEF Plan!Family, Plan!WithEndpoints
  <2> QED BY <2>1, WithEndpointsMoves
<1> QED BY <1>2, <1>3, <1>4, <1>5 DEF Plan!Address

\* TLSA records, and the policy they make.
LEMMA TlsaMoves ==
    ASSUME NEW s, Judged(s), s.at = "tlsa", NEW answer, Plan!Tlsa(s, answer)
    PROVE  Moves
<1>1. /\ DOMAIN s = SessionFields /\ s.service \in Plan!Names /\ s.transports \in ServiceLists
      /\ s.owner = "origin" /\ s.namespace \in Plan!Namespaces /\ s.hops \in 0 .. MaxAliases
      /\ \A e \in s.endpoints : e[2] = s.target
  BY DEF Judged, SoundSession
<1>2. answer \in {"records", "none"} /\ (answer = "records" <=> Head(s.transports) \in s.zone.tlsa)
  BY DEF Plan!Tlsa
<1>3. Plan!AnswerIsSecure(s, answer) <=> s.zone.signed["origin"]
  BY <1>1, <1>2 DEF Plan!AnswerIsSecure
<1>4. \/ Plan!Errs(s, "dnssec") \/ Plan!Errs(s, "tlsaMissing")
      \/ /\ s.namespace = "hns" /\ Len(s.transports) > 1
         /\ Plan!GoOn([s EXCEPT !.transports = Tail(s.transports)])
      \/ ~Plan!AnswerIsSecure(s, answer) /\ Plan!End(Plan!Plan(s, "webpkiInsecure"))
      \/ answer # "records" /\ Plan!End(Plan!Plan(s, "webpkiAbsence"))
      \/ Plan!End(Plan!Plan(s, "dane"))
  BY <1>1 DEF Plan!Tlsa
<1>5. CASE Plan!Errs(s, "dnssec") \/ Plan!Errs(s, "tlsaMissing")
  BY <1>5, Erring
<1>6. CASE Len(s.transports) > 1 /\ Plan!GoOn([s EXCEPT !.transports = Tail(s.transports)])
  <2> DEFINE u == [s EXCEPT !.transports = Tail(s.transports)]
  <2>1. Tail(s.transports) \in ServiceLists
    <3>1. Len(s.transports) > 1 /\ s.transports \in ServiceLists
      BY <1>1, <1>6
    <3> DEFINE one == <<"tcp">>  other == <<"udp">>  two == <<"udp", "tcp">>
    <3>3. Len(one) = 1 /\ Len(other) = 1
      OBVIOUS
    <3>4. s.transports \in {one, other, two}
      BY <3>1 DEF ServiceLists
    <3> HIDE DEF one, other, two
    <3>5. ASSUME NEW list, Len(list) = 1 PROVE s.transports # list
      <4>1. \A m : m = 1 => ~(m > 1)
        OBVIOUS
      <4>2. Len(s.transports) # 1
        BY <3>1, <4>1, ZenonT(40)
      <4> QED BY <3>5, <4>2, ZenonT(40)
    <3>6. s.transports = two
      BY <3>3, <3>4, <3>5
    <3>2. Tail(<<"udp", "tcp">>) = <<"tcp">>
      OBVIOUS
    <3> QED BY <3>2, <3>6 DEF ServiceLists, two
  <2>2. /\ DOMAIN u = SessionFields /\ u.transports = Tail(s.transports)
        /\ \A f \in SessionFields \ {"transports"} : u[f] = s[f]
    BY <1>1 DEF SessionFields
  <2>3. Plan!GoOn(u)
    BY <1>6
  <2> HIDE DEF u
  <2>4. /\ Kept(s, u) /\ u.at = s.at /\ u.owner = s.owner /\ u.service = s.service /\ u.hops = s.hops
        /\ u.endpoints = s.endpoints /\ u.target = s.target
    BY <2>2 DEF Kept, SessionFields
  <2>5. u.at \in Stages /\ u.owner \in Plan!Names
    BY <1>1, <2>4 DEF Stages, Plan!Names
  <2> QED BY <1>1, <2>1, <2>2, <2>3, <2>4, <2>5, GoingOn
<1>7. CASE ~Plan!AnswerIsSecure(s, answer) /\ Plan!End(Plan!Plan(s, "webpkiInsecure"))
  BY <1>1, <1>3, <1>7, Planning
<1>8. CASE answer # "records" /\ Plan!End(Plan!Plan(s, "webpkiAbsence"))
  BY <1>1, <1>2, <1>8, Planning
<1>9. CASE Plan!End(Plan!Plan(s, "dane"))
  BY <1>1, <1>9, Planning
<1> QED BY <1>4, <1>5, <1>6, <1>7, <1>8, <1>9

-----------------------------------------------------------------------------
(* The plan: its steps.                                                    *)

\* A query, answered or failed.
LEMMA QueryMoves ==
    ASSUME PlanInv, Plan!Query \/ Plan!QueryFails
    PROVE  Builds /\ Moves /\ proofs' \subseteq Plan!NameTrees
           /\ (session.namespace = "icann" => proofs' = proofs)
<1>1. Builds
  <2>1. session.at \in Stages
    BY DEF Plan!Query, Plan!QueryFails, Plan!Building, Stages
  <2>2. session # Plan!Idle /\ session # DecidedSession
    BY <2>1 DEF Stages, Plan!Idle, DecidedSession
  <2>3. \A namespace : session # BuiltSession(namespace)
    BY <2>1 DEF Stages, BuiltSession
  <2> QED BY <2>2, <2>3 DEF PlanInv
<1>2. /\ SoundSession(session) /\ Traced(session, proofs) /\ tree \in Plan!NameTrees
      /\ proofs \subseteq Plan!NameTrees
  BY <1>1 DEF Builds, PlanInv
<1>3. CASE Plan!QueryFails
  <2> DEFINE l == Plan!Ended(Plan!Asked(session, session.owner), "failed")
  <2>1. l = Plan!Failure
    BY DEF Plan!Ended, Plan!AbsenceErrors
  <2>2. /\ session' = BuiltSession(session.namespace) /\ proofs' = proofs
        /\ request' = [request EXCEPT ![session.namespace] = l]
    BY <1>3 DEF Plan!QueryFails, Plan!Errs, Plan!End, BuiltSession
  <2> HIDE DEF l
  <2>3. SoundLookup(session.namespace, l, request.tls, proofs')
    BY <2>1, FailureIsSound
  <2> QED BY <1>1, <1>2, <2>2, <2>3 DEF Moves
<1>4. CASE Plan!Query
  <2>1. PICK answer \in {"alias", "records", "none", "nx"} :
           LET fresh == Plan!Asked(session, session.owner)
               s == IF session.namespace = "hns" THEN Plan!Proved(fresh, session.owner, tree) ELSE fresh
           IN IF session.namespace = "hns" /\ (session.owner \notin Exists[tree] \/ answer = "nx")
              THEN Plan!Errs(s, "nameNotFound")
              ELSE Plan!Answer(Plan!Answered(s, answer), answer)
    BY <1>4 DEF Plan!Query
  <2> DEFINE s == IF session.namespace = "hns"
                  THEN Shown(session, tree)
                  ELSE Plan!Asked(session, session.owner)
             u == Plan!Answered(s, answer)
  <2>2. proofs' = IF session.namespace = "hns" THEN proofs \cup {tree} ELSE proofs
    BY <1>4 DEF Plan!Query
  <2>3. Plan!Errs(s, "nameNotFound") \/ Plan!Answer(u, answer)
    BY <2>1 DEF Shown
  <2>4. s.at = session.at /\ Judged(s)
    <3>1. CASE session.namespace = "hns"
      <4>1. s = Shown(session, tree)
        BY <3>1
      <4> HIDE DEF s
      <4>2. /\ SoundSession(s) /\ Traced(s, proofs \cup {tree})
            /\ s.namespace = session.namespace /\ s.at = session.at
        BY <1>2, <3>1, <4>1, ProvedIsSound
      <4> QED BY <2>2, <3>1, <4>2 DEF Judged
    <3>2. CASE session.namespace # "hns"
      <4>1. s = session
        BY <3>2 DEF Plan!Asked
      <4> HIDE DEF s
      <4> QED BY <1>2, <2>2, <3>2, <4>1 DEF Judged
    <3> QED BY <3>1, <3>2
  <2> HIDE DEF s
  <2>5. u.at = s.at /\ Judged(u)
    <3> HIDE DEF u
    <3>1. /\ SoundSession(u) /\ Traced(u, proofs')
          /\ \A f \in SessionFields \ {"secure", "nx", "unsigned"} : u[f] = s[f]
      BY <2>4, AnsweredIsSound, ZenonT(40) DEF Judged, u
    <3>2. u.at = s.at /\ u.namespace = s.namespace
      BY <3>1 DEF SessionFields
    <3> QED BY <2>4, <3>1, <3>2 DEF Judged
  <2> HIDE DEF u
  <2>6. CASE Plan!Errs(s, "nameNotFound")
    BY <1>1, <1>2, <2>2, <2>4, <2>6, Erring
  <2>7. CASE Plan!Answer(u, answer)
    <3>1. \/ u.at = "https" /\ Plan!Https(u, answer)
          \/ u.at \in {"a", "aaaa"} /\ Plan!Address(u, answer)
          \/ u.at = "tlsa" /\ Plan!Tlsa(u, answer)
      BY <2>7 DEF Plan!Answer
    <3>2. Moves
      BY <2>5, <3>1, HttpsMoves, AddressMoves, TlsaMoves
    <3> QED BY <1>1, <1>2, <2>2, <3>2
  <2> QED BY <2>3, <2>6, <2>7
<1> QED BY <1>3, <1>4

LEMMA QueryStep == ASSUME PlanInv, Plan!Query \/ Plan!QueryFails PROVE PlanInv'
<1>1. /\ Builds /\ Moves /\ proofs' \subseteq Plan!NameTrees
      /\ session.namespace = "icann" => proofs' = proofs
  BY QueryMoves
<1>2. tree' = tree /\ binding' = binding /\ published' = published
  BY DEF Plan!Query, Plan!QueryFails
<1>3. session.namespace \in Plan!Namespaces /\ (session.namespace = "hns" => request.hns = NONE)
  BY <1>1 DEF Builds, SoundSession
<1>4. /\ DOMAIN request = {"tls", "hns", "icann", "selected"}
      /\ request.selected \in Plan!Namespaces \cup {NONE}
      /\ request.hns # NONE => SoundLookup("hns", request.hns, request.tls, proofs)
      /\ request.icann # NONE => SoundLookup("icann", request.icann, request.tls, proofs)
  BY DEF PlanInv
<1>5. \A lookup, tls, trees, more :
          SoundLookup("icann", lookup, tls, trees) => SoundLookup("icann", lookup, tls, more)
  BY DEF SoundLookup
<1>6. CASE /\ SoundSession(session') /\ Traced(session', proofs')
           /\ session'.namespace = session.namespace /\ request' = request
  <2>1. Builds'
    BY <1>3, <1>6 DEF Builds
  <2>2. request.hns # NONE => SoundLookup("hns", request.hns, request.tls, proofs')
    BY <1>1, <1>3, <1>4 DEF Plan!Namespaces
  <2>3. request.icann # NONE => SoundLookup("icann", request.icann, request.tls, proofs')
    BY <1>4, <1>5
  <2> QED BY <1>1, <1>2, <1>4, <1>6, <2>1, <2>2, <2>3 DEF PlanInv
<1>7. ASSUME NEW lookup,
             SoundLookup(session.namespace, lookup, request.tls, proofs'),
             session' = BuiltSession(session.namespace),
             request' = [request EXCEPT ![session.namespace] = lookup]
      PROVE  PlanInv'
  <2>1. CASE session.namespace = "hns"
    <3>1. /\ DOMAIN request' = DOMAIN request /\ request'.hns = lookup
          /\ request'.tls = request.tls /\ request'.icann = request.icann
          /\ request'.selected = request.selected
      BY <1>4, <1>7, <2>1
    <3>2. request.icann # NONE => SoundLookup("icann", request.icann, request.tls, proofs')
      BY <1>4, <1>5
    <3> QED BY <1>1, <1>2, <1>3, <1>4, <1>7, <2>1, <3>1, <3>2 DEF PlanInv
  <2>2. CASE session.namespace = "icann"
    <3>1. /\ DOMAIN request' = DOMAIN request /\ request'.icann = lookup
          /\ request'.tls = request.tls /\ request'.hns = request.hns
          /\ request'.selected = request.selected
      BY <1>4, <1>7, <2>2
    <3> QED BY <1>1, <1>2, <1>3, <1>4, <1>7, <2>2, <3>1 DEF PlanInv
  <2> QED BY <1>3, <2>1, <2>2 DEF Plan!Namespaces
<1> QED BY <1>1, <1>6, <1>7 DEF Moves

\* A request begins; it goes on with the second root; it decides.
LEMMA RequestStep ==
    ASSUME PlanInv, Plan!Begin \/ Plan!BeginIcann \/ Plan!Decide
    PROVE  PlanInv'
<1>1. /\ tree' = tree /\ binding' = binding /\ published' = published
      /\ proofs' \subseteq Plan!NameTrees
  BY DEF Plan!Begin, Plan!BeginIcann, Plan!Decide, PlanInv
<1>2. ASSUME NEW namespace \in Plan!Namespaces, NEW tls, NEW zone,
             NEW s, s = Plan!NewSession(namespace, tls, zone),
             namespace = "hns" => proofs' = {}
      PROVE  SoundSession(s) /\ Traced(s, proofs') /\ s.namespace = namespace
  <2>1. /\ DOMAIN s = SessionFields /\ s.namespace = namespace /\ s.at = (IF tls THEN "https" ELSE "a")
        /\ s.owner = "origin" /\ s.service = "origin" /\ s.hops = 0 /\ s.transports = <<"tcp">>
        /\ s.unsigned = FALSE /\ s.asked = {} /\ s.lineage = [n \in Plan!Names |-> NONE]
    BY <1>2 DEF Plan!NewSession, SessionFields
  <2>2. "origin" \in Plan!Names /\ 0 \in 0 .. MaxAliases
    BY PlanConstants DEF Plan!Names, Plan!Assumptions
  <2>3. SoundSession(s)
    BY <2>1, <2>2 DEF SoundSession, Stages, ServiceLists
  <2>4. Traced(s, proofs')
    BY <1>2, <2>1 DEF Traced
  <2> QED BY <2>1, <2>3, <2>4
<1>3. CASE Plan!Begin
  <2>1. PICK tls \in BOOLEAN, zone \in Zones :
            /\ session' = Plan!NewSession("hns", tls, zone)
            /\ request' = [Plan!NoRequest EXCEPT !.tls = tls]
    BY <1>3 DEF Plan!Begin
  <2>2. proofs' = {}
    BY <1>3 DEF Plan!Begin
  <2>3. SoundSession(session') /\ Traced(session', proofs') /\ session'.namespace = "hns"
    BY <1>2, <2>1, <2>2 DEF Plan!Namespaces
  <2>4. /\ DOMAIN request' = {"tls", "hns", "icann", "selected"}
        /\ request'.hns = NONE /\ request'.icann = NONE /\ request'.selected = NONE
    BY <2>1 DEF Plan!NoRequest
  <2> QED BY <1>1, <2>3, <2>4 DEF PlanInv, Builds
<1>4. CASE Plan!BeginIcann
  <2>1. /\ \E zone \in Zones : session' = Plan!NewSession("icann", request.tls, zone)
        /\ request' = request /\ proofs' = proofs
    BY <1>4 DEF Plan!BeginIcann
  <2>2. SoundSession(session') /\ Traced(session', proofs') /\ session'.namespace = "icann"
    BY <1>2, <2>1 DEF Plan!Namespaces
  <2> QED BY <1>1, <2>1, <2>2 DEF PlanInv, Builds
<1>5. CASE Plan!Decide
  <2> DEFINE x == Plan!Selected(request.hns, request.icann, binding)
  <2>1. x \in Plan!Namespaces \cup {NONE}
    BY DEF Plan!Selected, Plan!Namespaces, PlanInv
  <2>2. /\ session' = DecidedSession /\ proofs' = proofs
        /\ request' = [request EXCEPT !.selected = x]
    BY <1>5 DEF Plan!Decide, DecidedSession
  <2> HIDE DEF x
  <2>3. DOMAIN request = {"tls", "hns", "icann", "selected"}
    BY DEF PlanInv
  <2>4. /\ DOMAIN request' = DOMAIN request /\ request'.selected = x
        /\ request'.tls = request.tls /\ request'.hns = request.hns /\ request'.icann = request.icann
    BY <2>2, <2>3
  <2> QED BY <1>1, <2>1, <2>2, <2>4 DEF PlanInv
<1> QED BY <1>3, <1>4, <1>5

\* A namespace is committed, here or elsewhere, only where none or the same was.
LEMMA CommitStep ==
    ASSUME PlanInv, NEW namespace \in Plan!Namespaces, Plan!RecordSuccess(namespace),
           published' = published \cup {namespace}
    PROVE  /\ binding' \in Plan!Namespaces \cup {NONE} /\ published' \subseteq Plan!Namespaces
           /\ published' \subseteq {binding'}
<1>1. NONE \notin Plan!Namespaces
  BY PlanConstants DEF Plan!Assumptions
<1>2. published \subseteq Plan!Namespaces /\ published \subseteq {binding}
  BY DEF PlanInv
<1>3. binding' = namespace /\ (binding = NONE \/ binding = namespace)
  BY DEF Plan!RecordSuccess, Plan!Agrees
<1> QED BY <1>1, <1>2, <1>3

\* The request ends, other requests publish, the tree changes.
LEMMA OtherPlanSteps ==
    ASSUME PlanInv, Plan!Publish \/ Plan!Drop \/ Plan!OtherPublishes \/ Plan!NewTree \/ UNCHANGED planVars
    PROVE  PlanInv'
<1>1. ASSUME request' = Plan!NoRequest, session' = Plan!Idle, proofs' = {}, tree' = tree,
             /\ binding' \in Plan!Namespaces \cup {NONE} /\ published' \subseteq Plan!Namespaces
             /\ published' \subseteq {binding'}
      PROVE  PlanInv'
  <2>1. /\ DOMAIN request' = {"tls", "hns", "icann", "selected"}
        /\ request'.hns = NONE /\ request'.icann = NONE /\ request'.selected = NONE
    BY <1>1 DEF Plan!NoRequest
  <2> QED BY <1>1, <2>1 DEF PlanInv
<1>2. CASE Plan!Publish
  <2>1. request.selected \in Plan!Namespaces
    BY <1>2 DEF Plan!Publish, PlanInv
  <2> QED BY <1>1, <1>2, <2>1, CommitStep DEF Plan!Publish
<1>3. CASE Plan!Drop
  BY <1>1, <1>3 DEF Plan!Drop, PlanInv
<1>4. ASSUME session' = session, request' = request, proofs' = proofs, tree' \in Plan!NameTrees,
             /\ binding' \in Plan!Namespaces \cup {NONE} /\ published' \subseteq Plan!Namespaces
             /\ published' \subseteq {binding'}
      PROVE  PlanInv'
  BY <1>4 DEF PlanInv, Builds
<1>5. CASE Plan!OtherPublishes
  <2>1. tree' \in Plan!NameTrees
    BY <1>5 DEF Plan!OtherPublishes, PlanInv
  <2> QED BY <1>4, <1>5, <2>1, CommitStep DEF Plan!OtherPublishes
<1>6. CASE Plan!NewTree \/ UNCHANGED planVars
  <2>1. tree' \in Plan!NameTrees
    BY <1>6, PlanConstants DEF Plan!NewTree, planVars, PlanInv, Plan!NameTrees, Plan!Assumptions
  <2> QED BY <1>4, <1>6, <2>1 DEF Plan!NewTree, planVars, PlanInv
<1> QED BY <1>2, <1>3, <1>5, <1>6

LEMMA PlanInit == Plan!Init => PlanInv
<1> SUFFICES ASSUME Plan!Init PROVE PlanInv
  OBVIOUS
<1>1. /\ tree = 1 /\ binding = NONE /\ published = {} /\ proofs = {} /\ session = Plan!Idle
      /\ request = [tls |-> FALSE, hns |-> NONE, icann |-> NONE, selected |-> NONE]
  BY DEF Plan!Init, Plan!NoRequest
<1>2. 1 \in Plan!NameTrees
  BY PlanConstants DEF Plan!NameTrees, Plan!Assumptions
<1> QED BY <1>1, <1>2 DEF PlanInv

LEMMA PlanStep == PlanInv /\ [Plan!Next]_planVars => PlanInv'
<1> SUFFICES ASSUME PlanInv, Plan!Next \/ UNCHANGED planVars PROVE PlanInv'
  OBVIOUS
<1> QED BY QueryStep, RequestStep, OtherPlanSteps DEF Plan!Next

LEMMA SameCardinality == \A set : Plan!Cardinality(set) = Cardinality(set)
BY DEF Plan!Cardinality, Cardinality

\* What the invariant says of the three properties of the plan.
LEMMA PlanIsCoherent ==
    ASSUME PlanInv
    PROVE  Plan!EvidenceIsOfOneTree /\ Plan!EndpointsFollowOnePath /\ Plan!DaneIsNotDowngraded
<1>1. /\ request.hns # NONE => SoundLookup("hns", request.hns, request.tls, proofs)
      /\ request.icann # NONE => SoundLookup("icann", request.icann, request.tls, proofs)
  BY DEF PlanInv
<1>2. Plan!EvidenceIsOfOneTree
  BY <1>1, SameCardinality DEF Plan!EvidenceIsOfOneTree, SoundLookup
<1>3. Plan!EndpointsFollowOnePath
  BY <1>1 DEF Plan!EndpointsFollowOnePath, SoundLookup, Plan!Namespaces
<1>4. Plan!DaneIsNotDowngraded
  BY <1>1 DEF Plan!DaneIsNotDowngraded, SoundLookup
<1> QED BY <1>2, <1>3, <1>4

LEMMA PlanIsTyped == ASSUME PlanInv PROVE Plan!TypeOK
<1>1. session.at \in {"idle", "https", "a", "aaaa", "tlsa", "built", "decided"}
  BY DEF PlanInv, Builds, SoundSession, Plan!Idle, DecidedSession, BuiltSession, Stages
<1>2. Plan!Building => SoundSession(session)
  BY DEF PlanInv, Builds, Plan!Building, Plan!Idle, DecidedSession, BuiltSession
<1>3. \A list \in ServiceLists : list # <<>>
  <2>1. <<"tcp">> # <<>> /\ <<"udp">> # <<>> /\ <<"udp", "tcp">> # <<>>
    OBVIOUS
  <2> QED BY <2>1, ZenonT(40) DEF ServiceLists
<1>4. SoundSession(session) => session.transports # <<>>
  BY <1>3 DEF SoundSession
<1> QED BY <1>1, <1>2, <1>4 DEF PlanInv, Plan!TypeOK, SoundSession

-----------------------------------------------------------------------------
(* The exchange: its invariant.                                            *)

ExchangeFields ==
    {"kind", "at", "tree", "epoch", "valid", "cancelled", "e", "status", "headers", "signal"}
Halves == [{"reader", "writer"} -> {"closed", "idle", "check", "io", "recheck"}]
Files == [staged : {"none", "body", "document"},
          target : {"untouched", "body", "document", "rejection"}]
Selections == [selected : Plan!Namespaces \cup {NONE}, policy : Exchange!Policies]

ExchangeTyped ==
    /\ nameTree \in Trees /\ epoch \in 1 .. MaxEpoch /\ ready \in BOOLEAN
    /\ committed \in Plan!Namespaces \cup {NONE}
    /\ half \in Halves /\ file \in Files /\ DOMAIN exchange = ExchangeFields
    /\ exchange.at # "idle" => exchange.kind \in Exchange!Kinds
    /\ exchange.signal \in BOOLEAN
    /\ exchange.at \in {"idle", "admitted", "dialing", "answered", "settled", "tunnel"}
    /\ half # Exchange!Closed => exchange.kind \in {"connect", "upgrade"}

\* What a phase has: evidence after an answer, what is left of it once settled,
\* halves from then on, and the signal of a CONNECT with its publication.
Phased ==
    /\ exchange.at = "idle" => exchange = Exchange!Idle
    /\ exchange.at \notin {"settled", "tunnel"} => half = Exchange!Closed
    /\ exchange.signal => exchange.at = "tunnel"
    /\ exchange.at \in {"admitted", "dialing"} => exchange.e = NONE
    /\ exchange.at = "answered" =>
          /\ exchange.e.selected \in Plan!Namespaces \cup {NONE}
          /\ exchange.e.policy \in Exchange!Policies
          /\ exchange.kind = "connect" => exchange.e.dane = "fallback" /\ exchange.e.seen = "browser"
    /\ exchange.at = "settled" /\ exchange.e # NONE => exchange.e \in Selections

\* A CONNECT that settled is of ICANN with a WebPKI policy, and once published
\* the namespace is committed: no other exchange can commit another.
Passing ==
    exchange.kind = "connect" /\ exchange.at \in {"settled", "tunnel"} =>
        /\ exchange.e # NONE /\ exchange.e.selected = "icann"
        /\ exchange.e.policy \in {"absence", "insecure"}
        /\ exchange.signal => committed = "icann"

\* What the locks of a tunnel keep while a half checks or is at its I/O.
HeldStill ==
    /\ Exchange!HoldsTree => nameTree = exchange.tree
    /\ Exchange!HoldsMaintenance => exchange.signal /\ epoch = exchange.epoch

\* What a download has staged: the body of an answer, which is published with
\* the namespace it came from, or a document.
StagedIsWhole ==
    exchange.kind = "download" =>
        /\ exchange.at = "answered" => file.staged = "body"
        /\ exchange.at = "settled" => file.staged \in {"body", "document"}
        /\ exchange.at = "settled" /\ file.staged = "body" => exchange.e # NONE

ExchangeInv ==
    ExchangeTyped /\ Phased /\ Passing /\ HeldStill /\ StagedIsWhole /\ Exchange!HeadersAgreeWithStatus

\* The two instances name the same namespaces.
LEMMA SameNamespaces == Exchange!Namespaces = Plan!Namespaces
BY DEF Exchange!Namespaces, Plan!Namespaces

LEMMA NoneIsNoKind ==
    /\ NONE \notin Exchange!Kinds /\ NONE \notin Plan!Namespaces /\ NONE \notin Trees
    /\ NONE # "dane" /\ NONE \notin Selections
BY ExchangeConstants, SameNamespaces DEF Exchange!Assumptions, Selections

LEMMA IdleIs ==
    /\ DOMAIN Exchange!Idle = ExchangeFields
    /\ Exchange!Idle.kind = NONE /\ Exchange!Idle.at = "idle" /\ Exchange!Idle.tree = NONE
    /\ Exchange!Idle.epoch = 0 /\ Exchange!Idle.valid = FALSE /\ Exchange!Idle.cancelled = FALSE
    /\ Exchange!Idle.e = NONE /\ Exchange!Idle.signal = FALSE
BY DEF Exchange!Idle, ExchangeFields

LEMMA ClosedIs ==
    /\ Exchange!Closed \in Halves /\ Exchange!Closed["reader"] = "closed"
    /\ Exchange!Closed["writer"] = "closed"
    /\ \A x \in Halves : x["reader"] = "closed" /\ x["writer"] = "closed" => x = Exchange!Closed
BY DEF Exchange!Closed, Halves

\* No lock is held where there is no tunnel.
LEMMA NothingHeld ==
    ASSUME half = Exchange!Closed
    PROVE  ~Exchange!HoldsTree /\ ~Exchange!HoldsMaintenance
BY ClosedIs DEF Exchange!HoldsTree, Exchange!HoldsMaintenance, Exchange!Checking
LEMMA NothingHeldNext ==
    ASSUME half' = Exchange!Closed
    PROVE  ~Exchange!HoldsTree' /\ ~Exchange!HoldsMaintenance'
BY ClosedIs DEF Exchange!HoldsTree, Exchange!HoldsMaintenance, Exchange!Checking

-----------------------------------------------------------------------------
(* The exchange: kinds of steps.                                           *)

\* It ends, and nothing of it is left.
LEMMA Ending ==
    ASSUME ExchangeInv, exchange' = Exchange!Idle, half' = Exchange!Closed,
           nameTree' = nameTree, epoch' \in 1 .. MaxEpoch, ready' = ready,
           committed' \in Plan!Namespaces \cup {NONE}, file' \in Files
    PROVE  ExchangeInv'
<1>1. /\ DOMAIN exchange' = ExchangeFields
      /\ exchange'.kind = NONE /\ exchange'.at = "idle" /\ exchange'.signal = FALSE
  BY IdleIs
<1>2. ExchangeTyped'
  BY <1>1, ClosedIs DEF ExchangeInv, ExchangeTyped
<1>3. Phased'
  BY <1>1 DEF Phased
<1>4. Passing' /\ StagedIsWhole' /\ Exchange!HeadersAgreeWithStatus'
  BY <1>1 DEF Passing, StagedIsWhole, Exchange!HeadersAgreeWithStatus
<1>5. HeldStill'
  BY NothingHeldNext DEF HeldStill
<1> QED BY <1>2, <1>3, <1>4, <1>5 DEF ExchangeInv

\* It goes on to another phase, before there is a tunnel.
LEMMA Proceeding ==
    ASSUME ExchangeInv, half' = Exchange!Closed, half = Exchange!Closed,
           nameTree' = nameTree, epoch' = epoch, ready' = ready, committed' = committed,
           file' \in Files, DOMAIN exchange' = ExchangeFields,
           exchange'.kind \in Exchange!Kinds, exchange'.signal = FALSE,
           \/ exchange'.at \in {"admitted", "dialing", "settled"} /\ exchange'.e = NONE
           \/ /\ exchange'.at = "answered" /\ exchange'.e.policy \in Exchange!Policies
              /\ exchange'.e.selected \in Plan!Namespaces \cup {NONE}
              /\ exchange'.kind = "connect" =>
                    exchange'.e.dane = "fallback" /\ exchange'.e.seen = "browser",
           exchange'.at = "settled" => exchange'.kind # "connect",
           exchange'.kind = "download" =>
               /\ exchange'.at = "answered" => file'.staged = "body"
               /\ exchange'.at = "settled" => file'.staged = "document"
    PROVE  ExchangeInv'
<1>1. ExchangeTyped'
  BY ClosedIs DEF ExchangeInv, ExchangeTyped
<1>2. Phased'
  BY DEF Phased
<1>3. Passing' /\ Exchange!HeadersAgreeWithStatus'
  BY DEF Passing, Exchange!HeadersAgreeWithStatus
<1>4. HeldStill'
  BY NothingHeldNext DEF HeldStill
<1>5. StagedIsWhole'
  BY DEF StagedIsWhole
<1> QED BY <1>1, <1>2, <1>3, <1>4, <1>5 DEF ExchangeInv

\* Only the tree, the epoch, the readiness or the binding change, as far as the
\* locks and the binding store let them.
LEMMA Around ==
    ASSUME ExchangeInv, exchange' = exchange, half' = half, file' = file,
           nameTree' \in Trees, epoch' \in 1 .. MaxEpoch, ready' \in BOOLEAN,
           committed' \in Plan!Namespaces \cup {NONE},
           Exchange!HoldsTree => nameTree' = nameTree,
           Exchange!HoldsMaintenance => epoch' = epoch,
           committed \in {NONE, committed'}
    PROVE  ExchangeInv'
<1>1. ExchangeTyped'
  BY DEF ExchangeInv, ExchangeTyped
<1>2. Phased' /\ StagedIsWhole' /\ Exchange!HeadersAgreeWithStatus'
  BY DEF ExchangeInv, Phased, StagedIsWhole, Exchange!HeadersAgreeWithStatus
<1>3. Passing'
  <2>1. "icann" # NONE
    BY NoneIsNoKind DEF Plan!Namespaces
  <2> QED BY <2>1 DEF ExchangeInv, Passing
<1>4. HeldStill'
  <2>1. (Exchange!HoldsTree' <=> Exchange!HoldsTree)
        /\ (Exchange!HoldsMaintenance' <=> Exchange!HoldsMaintenance)
    BY DEF Exchange!HoldsTree, Exchange!HoldsMaintenance, Exchange!Checking
  <2> QED BY <2>1 DEF ExchangeInv, HeldStill
<1> QED BY <1>1, <1>2, <1>3, <1>4 DEF ExchangeInv

\* Only its validity or its cancellation changes, and the halves move as their
\* checks let them.
LEMMA Within ==
    ASSUME ExchangeInv, nameTree' = nameTree, epoch' = epoch, ready' = ready,
           committed' = committed, file' = file, half' \in Halves,
           half' # half => half # Exchange!Closed,
           DOMAIN exchange' = ExchangeFields, exchange.at # "idle",
           \A f \in ExchangeFields \ {"valid", "cancelled"} : exchange'[f] = exchange[f],
           HeldStill'
    PROVE  ExchangeInv'
<1>1. /\ exchange'.kind = exchange.kind /\ exchange'.at = exchange.at /\ exchange'.e = exchange.e
      /\ exchange'.signal = exchange.signal /\ exchange'.status = exchange.status
      /\ exchange'.headers = exchange.headers
  BY DEF ExchangeFields
<1>2. ExchangeTyped'
  BY <1>1 DEF ExchangeInv, ExchangeTyped
<1>3. Phased'
  BY <1>1 DEF ExchangeInv, Phased
<1>4. Passing' /\ StagedIsWhole' /\ Exchange!HeadersAgreeWithStatus'
  BY <1>1 DEF ExchangeInv, Passing, StagedIsWhole, Exchange!HeadersAgreeWithStatus
<1> QED BY <1>2, <1>3, <1>4 DEF ExchangeInv

-----------------------------------------------------------------------------
(* The exchange: evidence, headers and status.                             *)

LEMMA ConsistentEvidence ==
    \A c \in Exchange!Consistent :
        /\ DOMAIN c = DOMAIN Exchange!Field
        /\ c.selected \in Plan!Namespaces /\ c.policy \in Exchange!Policies
<1> DEFINE Good(c) == /\ DOMAIN c = DOMAIN Exchange!Field
                      /\ c.selected \in Plan!Namespaces /\ c.policy \in Exchange!Policies
<1>1. Good(Exchange!HnsDane)
  BY DEF Exchange!HnsDane, Exchange!Field, Plan!Namespaces, Exchange!Policies
<1>2. Good(Exchange!IcannDane)
  BY <1>1 DEF Exchange!IcannDane, Exchange!Field, Plan!Namespaces
<1>3. Good(Exchange!Absent)
  BY <1>2 DEF Exchange!Absent, Exchange!Field, Exchange!Policies
<1>4. Good(Exchange!Insecure)
  BY <1>3 DEF Exchange!Insecure, Exchange!Field, Exchange!Policies
<1>5. ASSUME NEW c, Good(c) PROVE Good(Exchange!Clear(c))
  BY <1>5 DEF Exchange!Clear, Exchange!Field, Exchange!Policies
<1>6. Good(Exchange!Clear(Exchange!HnsDane)) /\ Good(Exchange!Clear(Exchange!IcannDane))
  BY <1>1, <1>2, <1>5
<1> HIDE DEF Good
<1>7. \A c \in Exchange!Consistent : Good(c)
  BY <1>1, <1>2, <1>3, <1>4, <1>6 DEF Exchange!Consistent
<1> QED BY <1>7 DEF Good

\* The evidence of an answer selects a namespace or none, under some policy.
LEMMA EvidenceIs ==
    \A e \in Exchange!Evidence :
        /\ "dane" \in DOMAIN e /\ "seen" \in DOMAIN e
        /\ e.selected \in Plan!Namespaces \cup {NONE} /\ e.policy \in Exchange!Policies
<1> SUFFICES ASSUME NEW e \in Exchange!Evidence
             PROVE  /\ "dane" \in DOMAIN e /\ "seen" \in DOMAIN e
                    /\ e.selected \in Plan!Namespaces \cup {NONE} /\ e.policy \in Exchange!Policies
  OBVIOUS
<1>1. PICK c \in Exchange!Consistent, f \in DOMAIN Exchange!Field :
          \E v \in Exchange!Field[f] : e = [c EXCEPT ![f] = v]
  BY DEF Exchange!Evidence
<1>2. PICK v \in Exchange!Field[f] : e = [c EXCEPT ![f] = v]
  BY <1>1
<1>3. /\ Exchange!Field.selected = Plan!Namespaces \cup {NONE}
      /\ Exchange!Field.policy = Exchange!Policies
      /\ {"dane", "seen", "selected", "policy"} \subseteq DOMAIN Exchange!Field
  BY SameNamespaces DEF Exchange!Field
<1>4. /\ DOMAIN c = DOMAIN Exchange!Field
      /\ c.selected \in Plan!Namespaces /\ c.policy \in Exchange!Policies
  BY ConsistentEvidence
<1>5. DOMAIN e = DOMAIN Exchange!Field
  BY <1>2, <1>4
<1>6. e.selected \in Plan!Namespaces \cup {NONE}
  BY <1>2, <1>3, <1>4
<1>7. e.policy \in Exchange!Policies
  BY <1>2, <1>3, <1>4
<1> QED BY <1>3, <1>5, <1>6, <1>7

\* A CONNECT, whose TLS nothing but the browser sees, is only supported of ICANN
\* and without DANE.
LEMMA PassThroughIsWebPki ==
    ASSUME NEW e, e.dane = "fallback", e.seen = "browser", Exchange!Supported(e)
    PROVE  e.selected = "icann" /\ e.policy \in {"absence", "insecure"}
<1>1. ~Exchange!HnsStatus(e)
  BY DEF Exchange!HnsStatus
<1> QED BY <1>1 DEF Exchange!Supported, Exchange!IcannStatus, Exchange!IcannAction, Exchange!Matched

\* Headers and status name DANE together.
LEMMA HeadersAgree ==
    ASSUME NEW e, Exchange!Supported(e)
    PROVE  Exchange!TlsPolicy(e) = "dane" <=> Exchange!Dane(e) = "verified"
<1>1. NONE # "dane"
  BY NoneIsNoKind
<1>2. CASE Exchange!HnsStatus(e)
  <2>1. e.selected = "hns"
    BY <1>2 DEF Exchange!HnsStatus
  <2>2. CASE e.tls
    BY <1>2, <2>1, <2>2 DEF Exchange!HnsStatus, Exchange!Matched, Exchange!TlsPolicy, Exchange!Dane
  <2>3. CASE ~e.tls
    <3>1. e.dane = "noTlsa"
      BY <1>2, <2>3 DEF Exchange!HnsStatus
    <3> QED BY <1>1, <2>3, <3>1 DEF Exchange!TlsPolicy, Exchange!Dane
  <2> QED BY <2>2, <2>3
<1>3. CASE Exchange!IcannStatus(e)
  <2>1. e.selected = "icann" /\ Exchange!IcannAction(e)
    BY <1>3 DEF Exchange!IcannStatus
  <2>2. CASE e.policy = "dane"
    BY <2>1, <2>2 DEF Exchange!IcannAction, Exchange!Matched, Exchange!TlsPolicy, Exchange!Dane
  <2>3. CASE e.policy # "dane"
    <3>1. e.dane \in {"fallback", "noTlsa"}
      BY <2>1, <2>3 DEF Exchange!IcannAction
    <3> QED BY <1>1, <2>1, <2>3, <3>1 DEF Exchange!TlsPolicy, Exchange!Dane
  <2> QED BY <2>2, <2>3
<1> QED BY <1>2, <1>3 DEF Exchange!Supported

-----------------------------------------------------------------------------
(* The exchange: its operations.                                           *)

\* What an operation starts from.
LEMMA ExchangeNow ==
    ASSUME ExchangeInv
    PROVE  /\ nameTree \in Trees /\ epoch \in 1 .. MaxEpoch /\ ready \in BOOLEAN
           /\ committed \in Plan!Namespaces \cup {NONE} /\ half \in Halves /\ file \in Files
           /\ DOMAIN exchange = ExchangeFields
           /\ exchange.at # "idle" => exchange.kind \in Exchange!Kinds
           /\ exchange.at \in {"admitted", "dialing", "answered"} => half = Exchange!Closed
           /\ exchange.at # "tunnel" => exchange.signal = FALSE
           /\ exchange.at \in {"admitted", "dialing"} => exchange.e = NONE
BY DEF ExchangeInv, ExchangeTyped, Phased

\* Files stay what they can be.
LEMMA StagingFiles ==
    ASSUME file \in Files, NEW what \in {"none", "body", "document"}
    PROVE  /\ [file EXCEPT !.staged = what] \in Files
           /\ [file EXCEPT !.target = "rejection"] \in Files
           /\ Exchange!Staged(what) \in Files
           /\ exchange.kind = "download" => Exchange!Staged(what).staged = what
BY DEF Files, Exchange!Staged

\* Where an exchange that ended leaves its file.
LEMMA EndingStep ==
    ASSUME ExchangeInv, exchange' = Exchange!Idle, half' = Exchange!Closed,
           nameTree' = nameTree, epoch' \in {epoch, 1}, ready' = ready, committed' = committed,
           \/ file' = file \/ file' = [file EXCEPT !.staged = "none"]
           \/ file' = Exchange!StagedDocument
    PROVE  ExchangeInv'
<1>1. 1 \in 1 .. MaxEpoch
  BY ExchangeConstants DEF Exchange!Assumptions
<1>2. file' \in Files
  BY ExchangeNow, StagingFiles DEF Exchange!StagedDocument
<1> QED BY <1>1, <1>2, ExchangeNow, Ending

\* The exchange ends, on its own or with the process.
LEMMA EndSteps ==
    ASSUME ExchangeInv,
           Exchange!Abandon \/ Exchange!Unpublished \/ Exchange!Hangup \/ Exchange!Crash
    PROVE  ExchangeInv' /\ exchange' = Exchange!Idle /\ file'.target = file.target
<1>1. exchange' = Exchange!Idle /\ half' = Exchange!Closed
  BY DEF Exchange!Abandon, Exchange!Unpublished, Exchange!Hangup, Exchange!Crash, Exchange!EndExchange
<1>2. /\ nameTree' = nameTree /\ epoch' \in {epoch, 1} /\ ready' = ready /\ committed' = committed
      /\ file' = file \/ file' = [file EXCEPT !.staged = "none"]
  BY DEF Exchange!Abandon, Exchange!Unpublished, Exchange!Hangup, Exchange!Crash, Exchange!Elsewhere
<1>3. file'.target = file.target
  BY <1>2, ExchangeNow DEF Files
<1> QED BY <1>1, <1>2, <1>3, EndingStep

\* An exchange is admitted, or a raw download is rejected before it is.
LEMMA BeginStep ==
    ASSUME ExchangeInv, Exchange!Begin \/ Exchange!RejectRaw
    PROVE  ExchangeInv' /\ exchange = Exchange!Idle
<1>1. exchange = Exchange!Idle /\ half = Exchange!Closed
  BY IdleIs DEF Exchange!Begin, Exchange!RejectRaw, ExchangeInv, Phased
<1>2. CASE Exchange!Begin
  <2>1. PICK kind \in Exchange!Kinds :
            exchange' = [Exchange!Idle EXCEPT !.kind = kind, !.at = "admitted", !.tree = nameTree,
                                              !.epoch = epoch, !.valid = TRUE]
    BY <1>2 DEF Exchange!Begin
  <2>2. /\ DOMAIN exchange' = ExchangeFields /\ exchange'.kind = kind /\ exchange'.at = "admitted"
        /\ exchange'.e = NONE /\ exchange'.signal = FALSE
    BY <2>1, IdleIs DEF ExchangeFields
  <2>3. /\ nameTree' = nameTree /\ epoch' = epoch /\ ready' = ready /\ committed' = committed
        /\ half' = half /\ file' = Exchange!Untouched
    BY <1>2 DEF Exchange!Begin, Exchange!Elsewhere
  <2>4. file' \in Files
    BY <2>3 DEF Exchange!Untouched, Files
  <2> QED BY <1>1, <2>2, <2>3, <2>4, Proceeding
<1>3. CASE Exchange!RejectRaw
  <2>1. /\ nameTree' = nameTree /\ epoch' = epoch /\ ready' = ready /\ committed' = committed
        /\ half' = half /\ exchange' = exchange /\ file' = [file EXCEPT !.target = "rejection"]
    BY <1>3 DEF Exchange!RejectRaw, Exchange!Elsewhere
  <2> QED BY <1>1, <2>1, ExchangeNow, StagingFiles, Ending
<1> QED BY <1>1, <1>2, <1>3

\* What going to a phase changes.
LEMMA Going ==
    ASSUME DOMAIN exchange = ExchangeFields, NEW at
    PROVE  /\ DOMAIN Exchange!Goto(at) = ExchangeFields /\ Exchange!Goto(at).at = at
           /\ \A f \in ExchangeFields \ {"at"} : Exchange!Goto(at)[f] = exchange[f]
BY DEF Exchange!Goto, ExchangeFields

\* Before there is a tunnel, the exchange ends or goes on: no target changes.
Early == Exchange!ProxyPreparationFails \/ Exchange!DirectPreparationFails \/ Exchange!Dial
         \/ Exchange!Answers \/ Exchange!Fails \/ Exchange!Refuse

LEMMA EarlyStep ==
    ASSUME ExchangeInv, Early
    PROVE  ExchangeInv' /\ half = Exchange!Closed /\ file'.target = file.target
<1>1. exchange.at \in {"admitted", "dialing", "answered"}
  BY DEF Early, Exchange!ProxyPreparationFails, Exchange!DirectPreparationFails, Exchange!Dial,
         Exchange!Answers, Exchange!Fails, Exchange!Refuse
<1>2. /\ nameTree' = nameTree /\ epoch' = epoch /\ ready' = ready /\ committed' = committed
      /\ file' \in {file, Exchange!StagedDocument, Exchange!StagedBody}
  BY DEF Early, Exchange!ProxyPreparationFails, Exchange!DirectPreparationFails, Exchange!Dial,
         Exchange!Answers, Exchange!Fails, Exchange!Refuse, Exchange!Elsewhere
<1>3. /\ DOMAIN exchange = ExchangeFields /\ exchange.kind \in Exchange!Kinds
      /\ half = Exchange!Closed /\ exchange.signal = FALSE /\ file \in Files
      /\ exchange.at \in {"admitted", "dialing"} => exchange.e = NONE
  BY <1>1, ExchangeNow
<1>4. file' \in Files /\ file'.target = file.target
  BY <1>2, <1>3, StagingFiles DEF Exchange!StagedDocument, Exchange!StagedBody, Exchange!Staged, Files
<1> SUFFICES ExchangeInv'
  BY <1>3, <1>4
<1>5. ASSUME Exchange!EndExchange, file' \in {file, Exchange!StagedDocument} PROVE ExchangeInv'
  BY <1>2, <1>5, EndingStep DEF Exchange!EndExchange
<1>6. ASSUME NEW at \in {"dialing", "settled"}, half' = half, DOMAIN exchange' = ExchangeFields,
             exchange'.at = at, exchange'.kind = exchange.kind, exchange'.signal = exchange.signal,
             exchange'.e = NONE, at = "settled" => exchange.kind # "connect",
             exchange.kind = "download" /\ at = "settled" => file'.staged = "document"
      PROVE  ExchangeInv'
  BY <1>2, <1>3, <1>4, <1>6, Proceeding
<1>7. CASE Exchange!ProxyPreparationFails
  <2>1. CASE exchange.kind = "connect"
    BY <1>5, <1>7, <2>1 DEF Exchange!ProxyPreparationFails
  <2>2. CASE exchange.kind # "connect"
    <3>1. /\ exchange' = Exchange!Goto("settled") /\ half' = half /\ exchange.at = "admitted"
          /\ exchange.kind # "download"
      BY <1>7, <2>2 DEF Exchange!ProxyPreparationFails, Exchange!Proxied
    <3>2. /\ DOMAIN exchange' = ExchangeFields /\ exchange'.at = "settled"
          /\ exchange'.kind = exchange.kind /\ exchange'.signal = exchange.signal
          /\ exchange'.e = exchange.e
      BY <1>3, <3>1, Going DEF ExchangeFields
    <3> QED BY <1>3, <1>6, <2>2, <3>1, <3>2
  <2> QED BY <2>1, <2>2
<1>8. CASE Exchange!DirectPreparationFails
  <2>1. /\ exchange' = Exchange!Goto("settled") /\ half' = half /\ exchange.at = "admitted"
        /\ exchange.kind # "connect" /\ file' = Exchange!StagedDocument
    BY <1>8 DEF Exchange!DirectPreparationFails, Exchange!Proxied
  <2>2. /\ DOMAIN exchange' = ExchangeFields /\ exchange'.at = "settled"
        /\ exchange'.kind = exchange.kind /\ exchange'.signal = exchange.signal
        /\ exchange'.e = exchange.e
    BY <1>3, <2>1, Going DEF ExchangeFields
  <2>3. exchange.kind = "download" => file'.staged = "document"
    BY <1>3, <2>1, StagingFiles DEF Exchange!StagedDocument
  <2> QED BY <1>3, <1>6, <2>1, <2>2, <2>3
<1>9. CASE Exchange!Dial
  <2>1. exchange' = Exchange!Goto("dialing") /\ half' = half /\ exchange.at = "admitted"
    BY <1>9 DEF Exchange!Dial
  <2>2. /\ DOMAIN exchange' = ExchangeFields /\ exchange'.at = "dialing"
        /\ exchange'.kind = exchange.kind /\ exchange'.signal = exchange.signal
        /\ exchange'.e = exchange.e
    BY <1>3, <2>1, Going DEF ExchangeFields
  <2> QED BY <1>3, <1>6, <2>1, <2>2
<1>10. CASE Exchange!Answers
  <2>1. PICK e \in Exchange!Evidence :
            exchange' = [Exchange!Goto("answered") EXCEPT !.e = Exchange!Observed(exchange.kind, e)]
    BY <1>10 DEF Exchange!Answers
  <2> DEFINE seen == Exchange!Observed(exchange.kind, e)
  <2>2. /\ seen.selected \in Plan!Namespaces \cup {NONE} /\ seen.policy \in Exchange!Policies
        /\ exchange.kind = "connect" => seen.dane = "fallback" /\ seen.seen = "browser"
    BY EvidenceIs DEF Exchange!Observed
  <2> HIDE DEF seen
  <2>3. /\ DOMAIN exchange' = ExchangeFields /\ exchange'.at = "answered" /\ exchange'.e = seen
        /\ exchange'.kind = exchange.kind /\ exchange'.signal = exchange.signal
    BY <1>3, <2>1, Going DEF ExchangeFields, seen
  <2>4. half' = half /\ file' = Exchange!StagedBody
    BY <1>10 DEF Exchange!Answers
  <2>5. exchange.kind = "download" => file'.staged = "body"
    BY <1>3, <2>4, StagingFiles DEF Exchange!StagedBody
  <2> QED BY <1>2, <1>3, <1>4, <2>2, <2>3, <2>4, <2>5, Proceeding
<1>11. CASE Exchange!Fails
  <2>1. exchange.at \in {"admitted", "dialing"} /\ file' = Exchange!StagedDocument
    BY <1>11 DEF Exchange!Fails
  <2>2. CASE exchange.kind = "connect" \/ ~Exchange!MayProceed
    BY <1>5, <1>11, <2>1, <2>2 DEF Exchange!Fails
  <2>3. CASE ~(exchange.kind = "connect" \/ ~Exchange!MayProceed)
    <3>1. PICK f \in Exchange!Failures :
              exchange' = [Exchange!Goto("settled") EXCEPT
                  !.status = IF exchange.kind \in Exchange!Proxied /\ exchange.valid
                             THEN Exchange!FailureStatus(f) ELSE Exchange!Unavailable]
      BY <1>11, <2>3 DEF Exchange!Fails
    <3>2. half' = half
      BY <1>11, <2>3 DEF Exchange!Fails
    <3> DEFINE x == IF exchange.kind \in Exchange!Proxied /\ exchange.valid
                    THEN Exchange!FailureStatus(f) ELSE Exchange!Unavailable
    <3>3. exchange' = [Exchange!Goto("settled") EXCEPT !.status = x]
      BY <3>1
    <3> HIDE DEF x
    <3>4. /\ DOMAIN exchange' = ExchangeFields /\ exchange'.at = "settled"
          /\ exchange'.kind = exchange.kind /\ exchange'.signal = exchange.signal
          /\ exchange'.e = exchange.e
      BY <1>3, <3>3, Going DEF ExchangeFields
    <3>5. exchange.kind = "download" => file'.staged = "document"
      BY <1>3, <2>1, StagingFiles DEF Exchange!StagedDocument
    <3> QED BY <1>3, <1>6, <2>1, <2>3, <3>2, <3>4, <3>5
  <2> QED BY <2>2, <2>3
<1>12. CASE Exchange!Refuse
  <2>1. CASE exchange.kind = "connect"
    BY <1>5, <1>12, <2>1 DEF Exchange!Refuse
  <2>2. CASE exchange.kind # "connect"
    <3>1. /\ exchange' = [Exchange!Goto("settled") EXCEPT !.e = NONE] /\ half' = half
          /\ exchange.kind # "download"
      BY <1>12, <2>2 DEF Exchange!Refuse
    <3>2. /\ DOMAIN exchange' = ExchangeFields /\ exchange'.at = "settled"
          /\ exchange'.kind = exchange.kind /\ exchange'.signal = exchange.signal
          /\ exchange'.e = NONE
      BY <1>3, <3>1, Going DEF ExchangeFields
    <3> QED BY <1>6, <2>2, <3>1, <3>2
  <2> QED BY <2>1, <2>2
<1> QED BY <1>7, <1>8, <1>9, <1>10, <1>11, <1>12 DEF Early

\* The evidence of an answer becomes what is left of it, the headers and the
\* status; the halves of a tunnel come to be.
LEMMA SettleStep ==
    ASSUME ExchangeInv, Exchange!Settle
    PROVE  ExchangeInv' /\ half = Exchange!Closed /\ file' = file
<1>1. /\ nameTree' = nameTree /\ epoch' = epoch /\ ready' = ready /\ committed' = committed
      /\ file' = file /\ exchange.at = "answered"
  BY DEF Exchange!Settle, Exchange!Elsewhere
<1>2. /\ DOMAIN exchange = ExchangeFields /\ exchange.kind \in Exchange!Kinds
      /\ half = Exchange!Closed /\ exchange.signal = FALSE /\ file \in Files
      /\ nameTree \in Trees /\ epoch \in 1 .. MaxEpoch /\ ready \in BOOLEAN
      /\ committed \in Plan!Namespaces \cup {NONE}
  BY <1>1, ExchangeNow
<1>3. /\ exchange.e.selected \in Plan!Namespaces \cup {NONE}
      /\ exchange.e.policy \in Exchange!Policies
      /\ exchange.kind = "connect" => exchange.e.dane = "fallback" /\ exchange.e.seen = "browser"
      /\ exchange.kind = "download" => file.staged = "body"
  BY <1>1 DEF ExchangeInv, Phased, StagedIsWhole
<1>4. PICK status \in Exchange!StatusOf(exchange.e), inserted \in BOOLEAN :
          /\ exchange.kind = "connect" => Exchange!Passes(status, inserted)
          /\ exchange' = [Exchange!Goto("settled") EXCEPT
                 !.status = IF exchange.kind \in Exchange!Proxied THEN status
                            ELSE Exchange!Unavailable,
                 !.headers = IF exchange.kind = "connect" THEN Exchange!NoHeaders
                             ELSE Exchange!Headers(exchange.kind, exchange.e),
                 !.e = [selected |-> Exchange!Goto("settled").e.selected,
                        policy |-> Exchange!Goto("settled").e.policy]]
  BY DEF Exchange!Settle
<1> DEFINE x == IF exchange.kind \in Exchange!Proxied THEN status ELSE Exchange!Unavailable
           y == IF exchange.kind = "connect" THEN Exchange!NoHeaders
                ELSE Exchange!Headers(exchange.kind, exchange.e)
           d == [selected |-> Exchange!Goto("settled").e.selected,
                 policy |-> Exchange!Goto("settled").e.policy]
           kept == [selected |-> exchange.e.selected, policy |-> exchange.e.policy]
<1>5. exchange' = [Exchange!Goto("settled") EXCEPT !.status = x, !.headers = y, !.e = d]
  BY <1>4
<1>6. d = kept
  BY <1>2, Going DEF ExchangeFields
<1> HIDE DEF x, y, d, kept
<1>7. /\ DOMAIN exchange' = ExchangeFields /\ exchange'.at = "settled" /\ exchange'.e = kept
      /\ exchange'.status = x /\ exchange'.headers = y
      /\ exchange'.kind = exchange.kind /\ exchange'.signal = exchange.signal
  BY <1>2, <1>5, <1>6, Going DEF ExchangeFields
<1>8. kept \in Selections /\ kept # NONE
  <2>1. kept \in Selections
    BY <1>3 DEF kept, Selections
  <2> QED BY <2>1, NoneIsNoKind
<1>9. half' = IF exchange.kind \in {"connect", "upgrade"}
              THEN [reader |-> "idle", writer |-> "idle"] ELSE half
  BY DEF Exchange!Settle
<1>10. /\ half' \in Halves
       /\ half'["reader"] \in {"closed", "idle"} /\ half'["writer"] \in {"closed", "idle"}
       /\ half' # Exchange!Closed => exchange.kind \in {"connect", "upgrade"}
  <2>1. CASE exchange.kind \in {"connect", "upgrade"}
    BY <1>9, <2>1 DEF Halves
  <2>2. CASE exchange.kind \notin {"connect", "upgrade"}
    BY <1>2, <1>9, <2>2, ClosedIs
  <2> QED BY <2>1, <2>2
<1>11. ExchangeTyped'
  BY <1>1, <1>2, <1>7, <1>10 DEF ExchangeTyped
<1>12. Phased'
  BY <1>2, <1>7, <1>8 DEF Phased
<1>13. Passing'
  <2>1. SUFFICES ASSUME exchange.kind = "connect"
                 PROVE  exchange.e.selected = "icann" /\ exchange.e.policy \in {"absence", "insecure"}
    <3>1. kept.selected = exchange.e.selected /\ kept.policy = exchange.e.policy
      BY DEF kept
    <3> QED BY <1>2, <1>7, <1>8, <3>1 DEF Passing
  <2>2. status.available
    BY <1>4, <2>1 DEF Exchange!Passes
  <2>3. Exchange!Supported(exchange.e)
    BY <2>2 DEF Exchange!StatusOf, Exchange!Unavailable
  <2> QED BY <1>3, <2>1, <2>3, PassThroughIsWebPki
<1>14. HeldStill'
  BY <1>10 DEF HeldStill, Exchange!HoldsTree, Exchange!HoldsMaintenance, Exchange!Checking
<1>15. StagedIsWhole'
  BY <1>1, <1>3, <1>7, <1>8 DEF StagedIsWhole
<1>16. Exchange!HeadersAgreeWithStatus'
  <2>1. SUFFICES ASSUME x.available PROVE y.policy = "dane" <=> x.dane = "verified"
    BY <1>7 DEF Exchange!HeadersAgreeWithStatus
  <2>2. x = status /\ exchange.kind \in Exchange!Proxied
    BY <2>1 DEF x, Exchange!Unavailable
  <2>3. Exchange!Supported(exchange.e) /\ x = Exchange!Available(Exchange!Dane(exchange.e))
    BY <2>1, <2>2 DEF Exchange!StatusOf, Exchange!Unavailable
  <2>4. x.dane = Exchange!Dane(exchange.e)
    BY <2>3 DEF Exchange!Available
  <2>5. CASE exchange.kind = "connect"
    <3>1. exchange.e.selected = "icann" /\ exchange.e.policy \in {"absence", "insecure"}
      BY <1>3, <2>3, <2>5, PassThroughIsWebPki
    <3>2. y.policy = NONE
      BY <2>5 DEF y, Exchange!NoHeaders
    <3> QED BY <2>4, <3>1, <3>2, NoneIsNoKind DEF Exchange!Dane
  <2>6. CASE exchange.kind # "connect"
    <3>1. y.policy = Exchange!TlsPolicy(exchange.e)
      BY <2>6 DEF y, Exchange!Headers
    <3> QED BY <2>3, <2>4, <3>1, HeadersAgree
  <2> QED BY <2>5, <2>6
<1> QED BY <1>1, <1>2, <1>11, <1>12, <1>13, <1>14, <1>15, <1>16 DEF ExchangeInv

\* The permit commits the namespace of the exchange and then writes.
LEMMA PublicationStep ==
    ASSUME ExchangeInv, Exchange!Publish
    PROVE  /\ ExchangeInv' /\ (half' = half \/ exchange' = Exchange!Idle)
           /\ Exchange!ReplacesCurrent
<1>1. PICK written \in BOOLEAN :
          /\ exchange.at = "settled" /\ Exchange!Permitted /\ Exchange!Commits
          /\ committed' = Exchange!BindingAfter
          /\ file' = IF exchange.kind = "download"
                     THEN [staged |-> "none",
                           target |-> IF written THEN file.staged ELSE file.target]
                     ELSE file
          /\ IF written /\ exchange.kind \in {"connect", "upgrade"} /\ half # Exchange!Closed
             THEN /\ exchange' = [Exchange!Goto("tunnel") EXCEPT !.signal = exchange.kind = "connect"]
                  /\ UNCHANGED <<lease, half>>
             ELSE Exchange!EndExchange
          /\ UNCHANGED <<nameTree, epoch, ready>>
  BY DEF Exchange!Publish
<1>2. /\ DOMAIN exchange = ExchangeFields /\ exchange.kind \in Exchange!Kinds
      /\ exchange.signal = FALSE /\ file \in Files /\ half \in Halves
      /\ nameTree \in Trees /\ epoch \in 1 .. MaxEpoch /\ ready \in BOOLEAN
      /\ committed \in Plan!Namespaces \cup {NONE}
  BY <1>1, ExchangeNow
<1>3. exchange.e # NONE => exchange.e.selected \in Plan!Namespaces
  BY <1>1 DEF ExchangeInv, Phased, Selections, Exchange!Commits, Exchange!Records
<1>4. committed' = IF exchange.e # NONE THEN exchange.e.selected ELSE committed
  BY <1>1 DEF Exchange!BindingAfter
<1>5. committed' \in Plan!Namespaces \cup {NONE}
  BY <1>2, <1>3, <1>4
<1>6. exchange.kind = "download" =>
         /\ file.staged \in {"body", "document"}
         /\ file.staged = "body" => exchange.e # NONE
  BY <1>1 DEF ExchangeInv, StagedIsWhole
<1>7. file' \in Files
  <2>1. CASE exchange.kind = "download"
    <3>1. (IF written THEN file.staged ELSE file.target)
              \in {"untouched", "body", "document", "rejection"}
      BY <1>2, <1>6, <2>1 DEF Files
    <3> QED BY <1>1, <2>1, <3>1 DEF Files
  <2>2. CASE exchange.kind # "download"
    BY <1>1, <1>2, <2>2
  <2> QED BY <2>1, <2>2
<1>8. Exchange!ReplacesCurrent
  <2> SUFFICES ASSUME file'.target # file.target
               PROVE  /\ exchange.kind = "download" /\ exchange.valid /\ ready
                      /\ nameTree = exchange.tree
                      /\ file'.target = "body" => committed' = exchange.e.selected
    BY DEF Exchange!ReplacesCurrent
  <2>1. exchange.kind = "download"
    BY <1>1
  <2>2. file' = [staged |-> "none", target |-> IF written THEN file.staged ELSE file.target]
    BY <1>1, <2>1
  <2>3. file'.target = file.staged
    BY <2>2
  <2>4. exchange.valid /\ ready /\ nameTree = exchange.tree
    BY <1>1 DEF Exchange!Permitted, Exchange!Admits, Exchange!SameTree
  <2> QED BY <1>4, <1>6, <2>1, <2>3, <2>4
<1>9. CASE Exchange!EndExchange
  BY <1>1, <1>2, <1>5, <1>7, <1>8, <1>9, Ending DEF Exchange!EndExchange
<1>10. CASE /\ exchange.kind \in {"connect", "upgrade"} /\ half' = half
            /\ exchange' = [Exchange!Goto("tunnel") EXCEPT !.signal = exchange.kind = "connect"]
  <2> DEFINE signal == (exchange.kind = "connect")
  <2>1. exchange' = [Exchange!Goto("tunnel") EXCEPT !.signal = signal] /\ signal \in BOOLEAN
    BY <1>10
  <2> HIDE DEF signal
  <2>2. /\ DOMAIN exchange' = ExchangeFields /\ exchange'.at = "tunnel" /\ exchange'.signal = signal
        /\ exchange'.kind = exchange.kind /\ exchange'.e = exchange.e
        /\ exchange'.tree = exchange.tree /\ exchange'.epoch = exchange.epoch
    BY <1>2, <2>1, Going DEF ExchangeFields
  <2>3. ExchangeTyped'
    BY <1>1, <1>2, <1>5, <1>7, <1>10, <2>1, <2>2 DEF ExchangeTyped
  <2>4. Phased' /\ StagedIsWhole' /\ Exchange!HeadersAgreeWithStatus'
    BY <1>10, <2>2 DEF Phased, StagedIsWhole, Exchange!HeadersAgreeWithStatus
  <2>5. Passing'
    BY <1>1, <1>4, <2>2 DEF Passing, ExchangeInv
  <2>6. HeldStill'
    <3>1. /\ Exchange!HoldsTree' => Exchange!HoldsTree
          /\ Exchange!HoldsMaintenance' => Exchange!HoldsMaintenance
      BY <1>10, <2>2 DEF Exchange!HoldsTree, Exchange!HoldsMaintenance, Exchange!Checking
    <3>2. /\ Exchange!HoldsTree => nameTree = exchange.tree
          /\ ~Exchange!HoldsMaintenance
      BY <1>2 DEF ExchangeInv, HeldStill
    <3> QED BY <1>1, <2>2, <3>1, <3>2 DEF HeldStill
  <2> QED BY <1>8, <1>10, <2>3, <2>4, <2>5, <2>6 DEF ExchangeInv
<1> QED BY <1>1, <1>9, <1>10

-----------------------------------------------------------------------------
(* The exchange: the halves of its tunnel, and what happens meanwhile.     *)

\* Where a half goes on, the tree is the one of the admission, and a CONNECT
\* was published in the epoch it was admitted in.
Moved(h, to) ==
    /\ half' = [half EXCEPT ![h] = to]
    /\ to \in {"closed", "idle", "check", "io", "recheck"}
    /\ to # "closed" => nameTree = exchange.tree /\ Exchange!Guarded

LEMMA CheckMoves ==
    ASSUME NEW h, NEW at \in {"check", "recheck"}, NEW to \in {"io", "idle"}, Exchange!Check(h, at, to)
    PROVE  \E next : Moved(h, next)
<1>1. CASE ~(Exchange!StillCurrent /\ Exchange!Guarded)
  <2>1. half' = [half EXCEPT ![h] = "closed"]
    BY <1>1 DEF Exchange!Check, Exchange!Close
  <2>2. Moved(h, "closed")
    BY <2>1 DEF Moved
  <2> QED BY <2>2
<1>2. CASE Exchange!StillCurrent /\ Exchange!Guarded
  <2>1. nameTree = exchange.tree
    BY <1>2 DEF Exchange!StillCurrent, Exchange!SameTree
  <2>2. half' = [half EXCEPT ![h] = at] \/ half' = [half EXCEPT ![h] = to]
    BY <1>2 DEF Exchange!Check, Exchange!Move
  <2>3. Moved(h, at) \/ Moved(h, to)
    BY <1>2, <2>1, <2>2 DEF Moved
  <2> QED BY <2>3
<1> QED BY <1>1, <1>2

LEMMA CheckedMoves ==
    ASSUME NEW h, NEW to \in {"io", "idle"}, Exchange!Checked(h, to), nameTree = exchange.tree
    PROVE  \E next : Moved(h, next)
<1>1. CASE Exchange!Verified /\ Exchange!Guarded
  <2>1. Moved(h, to)
    BY <1>1 DEF Exchange!Checked, Exchange!Move, Moved
  <2> QED BY <2>1
<1>2. CASE ~(Exchange!Verified /\ Exchange!Guarded)
  <2>1. Moved(h, "closed")
    BY <1>2 DEF Exchange!Checked, Exchange!Close, Moved
  <2> QED BY <2>1
<1> QED BY <1>1, <1>2

LEMMA HalfMoves ==
    ASSUME ExchangeInv, NEW h \in {"reader", "writer"}, Exchange!HalfStep(h)
    PROVE  /\ \E next : Moved(h, next)
           /\ half[h] # "closed"
           /\ DOMAIN exchange' = ExchangeFields
           /\ \A f \in ExchangeFields \ {"valid"} : exchange'[f] = exchange[f]
           /\ nameTree' = nameTree /\ epoch' = epoch /\ ready' = ready /\ committed' = committed
           /\ file' = file
<1>1. half[h] \in {"check", "recheck"} => nameTree = exchange.tree
  BY DEF ExchangeInv, HeldStill, Exchange!HoldsTree, Exchange!Checking
<1>2. \E next : Moved(h, next)
  <2>1. CASE half[h] = "idle" /\ Exchange!Check(h, "check", "io")
    BY <2>1, CheckMoves
  <2>2. CASE half[h] = "check" /\ Exchange!Checked(h, "io")
    BY <1>1, <2>2, CheckedMoves
  <2>3. CASE half[h] = "io" /\ Exchange!Check(h, "recheck", "idle")
    BY <2>3, CheckMoves
  <2>4. CASE half[h] = "recheck" /\ Exchange!Checked(h, "idle")
    BY <1>1, <2>4, CheckedMoves
  <2> QED BY <2>1, <2>2, <2>3, <2>4 DEF Exchange!HalfStep
<1>3. half[h] # "closed"
  BY DEF Exchange!HalfStep
<1>4. exchange' = exchange \/ exchange' = [exchange EXCEPT !.valid = Exchange!Verified]
  BY DEF Exchange!HalfStep, Exchange!Checked
<1>5. /\ DOMAIN exchange' = ExchangeFields
      /\ \A f \in ExchangeFields \ {"valid"} : exchange'[f] = exchange[f]
  <2> HIDE DEF Exchange!Verified
  <2> QED BY <1>4, ExchangeNow DEF ExchangeFields
<1> QED BY <1>2, <1>3, <1>5 DEF Exchange!HalfStep, Exchange!Elsewhere

LEMMA HalfStepKeeps ==
    ASSUME ExchangeInv, NEW h \in {"reader", "writer"}, Exchange!HalfStep(h)
    PROVE  ExchangeInv' /\ Exchange!PassesAuthorized /\ file' = file
<1>1. PICK to : Moved(h, to)
  BY HalfMoves
<1>2. /\ half[h] # "closed" /\ DOMAIN exchange' = ExchangeFields
      /\ \A f \in ExchangeFields \ {"valid"} : exchange'[f] = exchange[f]
      /\ nameTree' = nameTree /\ epoch' = epoch /\ ready' = ready /\ committed' = committed
      /\ file' = file
  BY HalfMoves
<1>3. half \in Halves /\ half # Exchange!Closed
  BY <1>2, ExchangeNow, ClosedIs
<1>4. exchange.at \in {"settled", "tunnel"}
  BY <1>3 DEF ExchangeInv, Phased
<1>5. /\ half' \in Halves /\ half'[h] = to
      /\ \A g \in {"reader", "writer"} \ {h} : half'[g] = half[g]
  BY <1>1, <1>3 DEF Moved, Halves
<1>6. /\ exchange'.kind = exchange.kind /\ exchange'.tree = exchange.tree
      /\ exchange'.epoch = exchange.epoch /\ exchange'.signal = exchange.signal
  BY <1>2 DEF ExchangeFields
<1>7. to # "closed" => /\ nameTree = exchange.tree
                       /\ exchange.kind = "connect" => exchange.signal /\ epoch = exchange.epoch
  BY <1>1 DEF Moved, Exchange!Guarded
<1>8. HeldStill'
  <2>1. Exchange!HoldsTree' => Exchange!HoldsTree \/ to # "closed"
    BY <1>5 DEF Exchange!HoldsTree, Exchange!Checking
  <2>2. Exchange!HoldsMaintenance' =>
            exchange.kind = "connect" /\ (Exchange!HoldsMaintenance \/ to # "closed")
    BY <1>5, <1>6 DEF Exchange!HoldsMaintenance
  <2>3. (Exchange!HoldsTree => nameTree = exchange.tree)
        /\ (Exchange!HoldsMaintenance => exchange.signal /\ epoch = exchange.epoch)
    BY DEF ExchangeInv, HeldStill
  <2> QED BY <1>2, <1>6, <1>7, <2>1, <2>2, <2>3 DEF HeldStill
<1>9. ExchangeInv'
  BY <1>2, <1>3, <1>4, <1>5, <1>8, Within
<1>10. Exchange!PassesAuthorized
  <2> SUFFICES ASSUME Exchange!Delivers \/ Exchange!Sends
               PROVE  /\ nameTree = exchange.tree
                      /\ exchange.kind = "connect" =>
                            /\ exchange.e.selected = "icann"
                            /\ exchange.e.policy \in {"absence", "insecure"}
                            /\ exchange.signal /\ committed = "icann" /\ epoch = exchange.epoch
    BY DEF Exchange!PassesAuthorized
  <2>1. /\ nameTree = exchange.tree
        /\ exchange.kind = "connect" => exchange.signal /\ epoch = exchange.epoch
    <3>1. CASE Exchange!Delivers
      <4>1. half'["reader"] = "idle" /\ half["reader"] # "idle"
        BY <3>1 DEF Exchange!Delivers
      <4>2. h = "reader"
        BY <1>5, <4>1
      <4> QED BY <1>5, <1>7, <4>1, <4>2
    <3>2. CASE Exchange!Sends
      <4>1. half["writer"] = "io"
        BY <3>2 DEF Exchange!Sends
      <4> QED BY <4>1 DEF ExchangeInv, HeldStill, Exchange!HoldsTree, Exchange!HoldsMaintenance
    <3> QED BY <3>1, <3>2
  <2> QED BY <1>4, <2>1 DEF ExchangeInv, Passing
<1> QED BY <1>2, <1>9, <1>10

Meanwhile == Exchange!NewTree \/ Exchange!Reconcile \/ Exchange!ReadinessChanges
             \/ Exchange!OtherCommits
Remarked == Exchange!EndAuthority \/ Exchange!CancelWork \/ Exchange!RecheckIsDue
         \/ UNCHANGED exchangeVars

\* The tree, the epoch, the readiness or the binding changes.
LEMMA MeanwhileStep ==
    ASSUME ExchangeInv, Meanwhile
    PROVE  ExchangeInv' /\ half' = half /\ file' = file
<1>1. exchange' = exchange /\ half' = half /\ file' = file
  BY DEF Meanwhile, Exchange!NewTree, Exchange!Reconcile, Exchange!ReadinessChanges,
         Exchange!OtherCommits
<1>2. /\ nameTree \in Trees /\ epoch \in 1 .. MaxEpoch /\ ready \in BOOLEAN
      /\ committed \in Plan!Namespaces \cup {NONE} /\ MaxEpoch \in Nat
  BY ExchangeNow, ExchangeConstants DEF Exchange!Assumptions
<1>3. /\ nameTree' \in Trees /\ (Exchange!HoldsTree => nameTree' = nameTree)
      /\ ready' \in BOOLEAN
  BY <1>2 DEF Meanwhile, Exchange!NewTree, Exchange!Reconcile, Exchange!ReadinessChanges,
              Exchange!OtherCommits
<1>4. epoch' \in 1 .. MaxEpoch /\ (Exchange!HoldsMaintenance => epoch' = epoch)
  BY <1>2 DEF Meanwhile, Exchange!NewTree, Exchange!Reconcile, Exchange!ReadinessChanges,
              Exchange!OtherCommits
<1>5. committed' \in Plan!Namespaces \cup {NONE} /\ committed \in {NONE, committed'}
  BY <1>2, SameNamespaces
     DEF Meanwhile, Exchange!NewTree, Exchange!Reconcile, Exchange!ReadinessChanges,
         Exchange!OtherCommits, Exchange!Records
<1> QED BY <1>1, <1>3, <1>4, <1>5, Around

\* The authority ends, the work is cancelled, or a check is due.
LEMMA NotedStep ==
    ASSUME ExchangeInv, Remarked
    PROVE  ExchangeInv' /\ half' = half /\ file' = file
<1>1. /\ nameTree' = nameTree /\ epoch' = epoch /\ ready' = ready /\ committed' = committed
      /\ half' = half /\ file' = file
  BY DEF Remarked, Exchange!EndAuthority, Exchange!CancelWork, Exchange!RecheckIsDue, exchangeVars,
         Exchange!Elsewhere
<1>2. /\ nameTree \in Trees /\ epoch \in 1 .. MaxEpoch /\ ready \in BOOLEAN /\ half \in Halves
      /\ committed \in Plan!Namespaces \cup {NONE} /\ DOMAIN exchange = ExchangeFields
  BY ExchangeNow
<1>3. CASE exchange' = exchange
  BY <1>1, <1>2, <1>3, Around
<1>4. CASE exchange' # exchange
  <2>1. Exchange!EndAuthority \/ Exchange!CancelWork
    BY <1>4 DEF Remarked, Exchange!RecheckIsDue, exchangeVars
  <2>2. exchange.at # "idle"
    <3>1. exchange # Exchange!Idle
      BY <2>1, IdleIs, NoneIsNoKind
         DEF Exchange!EndAuthority, Exchange!CancelWork, Exchange!Proxied, Exchange!Kinds
    <3> QED BY <3>1 DEF ExchangeInv, Phased
  <2>3. \/ exchange' = [exchange EXCEPT !.valid = FALSE]
        \/ exchange' = [exchange EXCEPT !.cancelled = TRUE]
    BY <2>1 DEF Exchange!EndAuthority, Exchange!CancelWork
  <2>4. /\ DOMAIN exchange' = ExchangeFields
        /\ \A f \in ExchangeFields \ {"valid", "cancelled"} : exchange'[f] = exchange[f]
    BY <1>2, <2>3 DEF ExchangeFields
  <2>5. HeldStill'
    <3>1. /\ exchange'.kind = exchange.kind /\ exchange'.tree = exchange.tree
          /\ exchange'.epoch = exchange.epoch /\ exchange'.signal = exchange.signal
      BY <2>4 DEF ExchangeFields
    <3> QED BY <1>1, <3>1 DEF ExchangeInv, HeldStill, Exchange!HoldsTree,
                              Exchange!HoldsMaintenance, Exchange!Checking
  <2> QED BY <1>1, <1>2, <2>2, <2>4, <2>5, Within
<1> QED BY <1>1, <1>3, <1>4

-----------------------------------------------------------------------------
(* The exchange: every step.                                               *)

LEMMA ExchangeInit == Exchange!Init => ExchangeInv
<1> SUFFICES ASSUME Exchange!Init PROVE ExchangeInv
  OBVIOUS
<1>1. /\ nameTree \in Trees /\ epoch = 1 /\ ready = TRUE /\ committed = NONE
      /\ exchange = Exchange!Idle /\ half = Exchange!Closed /\ file = Exchange!Untouched
  BY DEF Exchange!Init
<1>2. 1 \in 1 .. MaxEpoch /\ file \in Files
  BY <1>1, ExchangeConstants DEF Exchange!Assumptions, Exchange!Untouched, Files
<1>3. ExchangeTyped
  BY <1>1, <1>2, IdleIs, ClosedIs DEF ExchangeTyped
<1>4. Phased /\ Passing /\ StagedIsWhole /\ Exchange!HeadersAgreeWithStatus
  BY <1>1, IdleIs DEF Phased, Passing, StagedIsWhole, Exchange!HeadersAgreeWithStatus
<1>5. HeldStill
  BY <1>1, NothingHeld DEF HeldStill
<1> QED BY <1>3, <1>4, <1>5 DEF ExchangeInv

\* Every step keeps the invariant, hands bytes on only where they are
\* authorized, and replaces a download's file only with what may replace it.
LEMMA ExchangeStep ==
    ASSUME ExchangeInv, [Exchange!Next]_exchangeVars
    PROVE  ExchangeInv' /\ Exchange!PassesAuthorized /\ Exchange!ReplacesCurrent
<1>1. ASSUME half' = half PROVE Exchange!PassesAuthorized
  BY <1>1 DEF Exchange!PassesAuthorized, Exchange!Delivers, Exchange!Sends
<1>2. ASSUME half = Exchange!Closed PROVE Exchange!PassesAuthorized
  BY <1>2, ClosedIs DEF Exchange!PassesAuthorized, Exchange!Delivers, Exchange!Sends
<1>3. ASSUME exchange = Exchange!Idle \/ exchange' = Exchange!Idle PROVE Exchange!PassesAuthorized
  BY <1>3 DEF Exchange!PassesAuthorized
<1>4. ASSUME exchange = Exchange!Idle \/ file'.target = file.target PROVE Exchange!ReplacesCurrent
  BY <1>4 DEF Exchange!ReplacesCurrent
<1>5. CASE Exchange!Begin \/ Exchange!RejectRaw
  BY <1>3, <1>4, <1>5, BeginStep
<1>6. CASE Early
  BY <1>2, <1>4, <1>6, EarlyStep
<1>7. CASE Exchange!Abandon \/ Exchange!Unpublished \/ Exchange!Hangup \/ Exchange!Crash
  BY <1>3, <1>4, <1>7, EndSteps
<1>8. CASE Exchange!Settle
  BY <1>2, <1>4, <1>8, SettleStep
<1>9. CASE Exchange!Publish
  BY <1>1, <1>3, <1>9, PublicationStep
<1>10. CASE \E h \in {"reader", "writer"} : Exchange!HalfStep(h)
  BY <1>4, <1>10, HalfStepKeeps
<1>11. CASE Meanwhile
  BY <1>1, <1>4, <1>11, MeanwhileStep
<1>12. CASE Remarked
  BY <1>1, <1>4, <1>12, NotedStep
<1>13. DOMAIN half = {"reader", "writer"}
  BY ExchangeNow DEF Halves
<1> QED BY <1>5, <1>6, <1>7, <1>8, <1>9, <1>10, <1>11, <1>12, <1>13
        DEF Exchange!Next, Early, Meanwhile, Remarked

LEMMA ExchangeIsTyped == ASSUME ExchangeInv PROVE Exchange!TypeOK
BY SameNamespaces DEF ExchangeInv, ExchangeTyped, Exchange!TypeOK, Files

-----------------------------------------------------------------------------
(* The theorems.                                                           *)

ResolutionInv == IInv /\ PlanInv /\ ExchangeInv
Parts == {"relay", "plan", "exchange"}

\* A step is a step of each part, or leaves it alone.
LEMMA PartsStep ==
    ASSUME [ResolutionNext]_<<vars, planVars, exchangeVars, part>>
    PROVE  [Next]_vars /\ [Plan!Next]_planVars /\ [Exchange!Next]_exchangeVars /\ part' = part
BY DEF ResolutionNext

\* Whichever of the three a behaviour is about, the three invariants hold throughout.
THEOREM ResolutionInvariantHolds == ResolutionSpec => []ResolutionInv
<1>1. ResolutionInit => ResolutionInv
  BY InvariantInit, PlanInit, ExchangeInit DEF ResolutionInit, ResolutionInv
<1>2. ResolutionInv /\ [ResolutionNext]_<<vars, planVars, exchangeVars, part>> => ResolutionInv'
  <2> SUFFICES ASSUME ResolutionInv, [ResolutionNext]_<<vars, planVars, exchangeVars, part>>
               PROVE  ResolutionInv'
    OBVIOUS
  <2> QED BY PartsStep, InvariantStep, PlanStep, ExchangeStep DEF ResolutionInv
<1> QED BY <1>1, <1>2, PTL DEF ResolutionSpec

\* The relay, the plan and the exchange keep to their types: an alias chain is
\* followed as far as the limit, and only a tunnel has halves.
THEOREM ResolutionTypesCorrect == ResolutionSpec => []TypesOK
<1>1. ResolutionSpec => [](part \in Parts)
  <2>1. ResolutionInit => part \in Parts
    BY DEF ResolutionInit, Parts
  <2>2. part \in Parts /\ [ResolutionNext]_<<vars, planVars, exchangeVars, part>> => (part \in Parts)'
    BY DEF ResolutionNext
  <2> QED BY <2>1, <2>2, PTL DEF ResolutionSpec
<1>2. part \in Parts /\ ResolutionInv => TypesOK
  BY InvariantIsTyped, PlanIsTyped, ExchangeIsTyped DEF ResolutionInv, TypesOK, Parts
<1> QED BY <1>1, <1>2, ResolutionInvariantHolds, PTL

\* All responses of an origin come from one namespace, however many requests
\* decide and publish.
THEOREM OriginsKeepOneNamespace == ResolutionSpec => []OneNamespacePerOrigin
<1>1. ResolutionInv => OneNamespacePerOrigin
  BY DEF ResolutionInv, PlanInv, OneNamespacePerOrigin, Plan!OneNamespacePerOrigin
<1> QED BY <1>1, ResolutionInvariantHolds, PTL

\* The plan or the absence of HNS rests on one tree, and every address of a
\* plan ends its one alias path.
THEOREM PlansStayCoherent == ResolutionSpec => []PlansAreCoherent
<1>1. ResolutionInv => PlansAreCoherent
  BY PlanIsCoherent DEF ResolutionInv, PlansAreCoherent
<1> QED BY <1>1, ResolutionInvariantHolds, PTL

\* A signed origin with TLSA records is planned with DANE.
THEOREM DaneIsKept == ResolutionSpec => []DaneIsNotDowngraded
<1>1. ResolutionInv => DaneIsNotDowngraded
  BY PlanIsCoherent DEF ResolutionInv, DaneIsNotDowngraded
<1> QED BY <1>1, ResolutionInvariantHolds, PTL

\* The bytes of a tunnel and the file of a download are handed on under the
\* authority they were admitted under, and the headers of an answer claim a
\* DANE match if and only if its status does.
THEOREM DeliveriesAreCurrent == ResolutionSpec => DeliveredIsCurrent
<1>1. ResolutionInv => (part = "exchange" => Exchange!HeadersAgreeWithStatus)
  BY DEF ResolutionInv, ExchangeInv
<1>2. ResolutionInv /\ [ResolutionNext]_<<vars, planVars, exchangeVars, part>>
        => [part = "exchange" => Exchange!PassesAuthorized /\ Exchange!ReplacesCurrent]_<<exchangeVars, part>>
  BY PartsStep, ExchangeStep DEF ResolutionInv
<1> QED BY <1>1, <1>2, ResolutionInvariantHolds, PTL DEF ResolutionSpec, DeliveredIsCurrent
=============================================================================
