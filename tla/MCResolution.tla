---------------------------- MODULE MCResolution ----------------------------
(* DnsRelay, OriginPlan and GatewayExchange in one run: `part` says which   *)
(* of the three a behaviour is about; the others keep their initial state.  *)
EXTENDS DnsRelay, TLC

MCSettings == {[relay |-> TRUE, doh |-> TRUE], [relay |-> FALSE, doh |-> TRUE]}
MCHeight == <<2, 1>>
MCLookups == "c1" :> 2 @@ "c2" :> 1

MCExists == <<{"origin", "alias"}, {"origin"}, {"alias"}>>
MCZones ==
    [signed : [{"origin", "alias"} -> BOOLEAN], tlsa : {{}, {"tcp"}, {"udp", "tcp"}}]

CONSTANTS Exists, Zones, MaxAliases, t1, Trees, MaxEpoch

VARIABLES tree, binding, session, request, published, proofs,
          nameTree, epoch, ready, committed, exchange, lease, half, file,
          part

planVars == <<tree, binding, session, request, published, proofs>>
exchangeVars == <<nameTree, epoch, ready, committed, exchange, lease, half, file>>

Plan == INSTANCE OriginPlan
Exchange == INSTANCE GatewayExchange WITH tree <- nameTree, binding <- committed

ASSUME PlanConstants == Plan!Assumptions
ASSUME ExchangeConstants == Exchange!Assumptions

Renaming == Permutations(Roots)

ResolutionInit ==
    /\ Init /\ Plan!Init /\ Exchange!Init
    /\ part \in {"plan", "relay", "exchange"} /\ nameTree = t1
ResolutionNext ==
    /\ UNCHANGED part
    /\ \/ part = "relay" /\ Next /\ UNCHANGED <<planVars, exchangeVars>>
       \/ part = "plan" /\ Plan!Next /\ UNCHANGED <<vars, exchangeVars>>
       \/ part = "exchange" /\ Exchange!Next /\ UNCHANGED <<vars, planVars>>
ResolutionSpec ==
    ResolutionInit /\ [][ResolutionNext]_<<vars, planVars, exchangeVars, part>>

\* The three keep to their types.
TypesOK ==
    CASE part = "relay" -> TypeOK [] part = "plan" -> Plan!TypeOK
      [] part = "exchange" -> Exchange!TypeOK

\* All responses of an origin come from one namespace, however the requests that decide
\* and the ones that publish interleave.
OneNamespacePerOrigin == part = "plan" => Plan!OneNamespacePerOrigin

\* All that the plan or the absence of a namespace rests on belongs together: one tree
\* proved it, and its addresses were found at the end of its one alias path.
PlansAreCoherent ==
    part = "plan" => Plan!EvidenceIsOfOneTree /\ Plan!EndpointsFollowOnePath

\* An origin whose own zone is signed and holds TLSA records is not reduced to WebPKI
\* because its alias target is unsigned, or a query for the records failed.
DaneIsNotDowngraded == part = "plan" => Plan!DaneIsNotDowngraded

\* What an exchange hands on is still authorized when it is, the bytes of a tunnel in both
\* directions and the file a download leaves behind, and the headers of an answer claim a
\* DANE match if and only if its status does.
DeliveredIsCurrent ==
    /\ [](part = "exchange" => Exchange!HeadersAgreeWithStatus)
    /\ [][part = "exchange" =>
        Exchange!PassesAuthorized /\ Exchange!ReplacesCurrent]_<<exchangeVars, part>>
=============================================================================
