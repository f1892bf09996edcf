---------------------- MODULE CanonicalAuthorityProofs ----------------------
(***************************************************************************)
(* What CanonicalAuthority guarantees for any number of requests, proxy    *)
(* generations, policy changes and roots.  IInv is the inductive           *)
(* invariant; its parts say why a stamp that is still admitted carries the *)
(* policy in force, and why a stale one cannot come back.                  *)
(***************************************************************************)
EXTENDS CanonicalAuthority, TLAPS

HasRead(r) == pc[r] \in {"working", "described", "ready", "verified"}

\* Leaving Active, or changing the policy, outdates every stamp issued.
StampsAreOutdated ==
    /\ floor <= event
    /\ \A r \in Request : stamp[r].event <= event
    /\ authState # "Active" => \A r \in Request : stamp[r].event <= floor

\* The canonical policy is one step ahead while a change is under way.
PolicyGenerations == canonical = IF writer = "idle" THEN policy + 1 ELSE policy + 2

\* Work that is still admitted reads the policy that is still in force.
AdmittedWorkIsCurrent ==
    \A r \in Request : HasRead(r) /\ Admits(r) => writer = "idle" /\ work[r] = policy

\* A generation is bound only while its listener lives, and only then stamped.
BindingsBelongToListeners ==
    /\ \A g \in Generation : g > generation => listener[g] = "unused"
    /\ active # 0 => listener[active] \in {"live", "stopping"}
    /\ \A r \in Request : stamp[r].event # 0 /\ stamp[r].gen # 0 =>
          listener[stamp[r].gen] \in {"live", "stopping", "ended"}

NoTupleBeforeWork ==
    \A r \in Request :
        pc[r] \in {"idle", "locked", "admitting", "admitted"} => tuple[r] = Unread

UnstampedBeforeAdmission ==
    \A r \in Request : pc[r] \in {"idle", "locked", "admitting"} => stamp[r].event = 0

VerifiedRootHolds ==
    \A r \in Request : pc[r] = "verified" => root \in {stamp[r].root, NoRoot}

IInv ==
    /\ TypeOK /\ StampsAreOutdated /\ PolicyGenerations /\ AdmittedWorkIsCurrent
    /\ BindingsBelongToListeners /\ NoTupleBeforeWork /\ UnstampedBeforeAdmission
    /\ VerifiedRootHolds /\ StatusNamesItsPolicy

-----------------------------------------------------------------------------
(* Type correctness.                                                       *)

\* One step keeps every type.
LEMMA TypeStep == ASSUME TypeOK, [Next]_vars PROVE TypeOK'
<1> USE BoundsAreNat DEF Generation, Unread, AuthState, Phase, Stamp
<1> USE DEF TypeOK, authority, proxies, policies, requests, statuses,
            Transition, Invalidate, Degrade, Moves, Settle
<1>1. CASE CountGeneration
  BY <1>1 DEF CountGeneration
<1>2. ASSUME NEW g \in Generation, PrepareProxy(g) PROVE TypeOK'
  BY <1>2 DEF PrepareProxy
<1>3. ASSUME NEW g \in Generation, StartListener(g) PROVE TypeOK'
  BY <1>3 DEF StartListener
<1>4. ASSUME NEW g \in Generation, ActivateProxy(g) PROVE TypeOK'
  BY <1>4 DEF ActivateProxy
<1>5. ASSUME NEW g \in Generation, CancelPreparedProxy(g) PROVE TypeOK'
  BY <1>5 DEF CancelPreparedProxy
<1>6. ASSUME NEW g \in Generation, StopProxy(g) PROVE TypeOK'
  BY <1>6 DEF StopProxy
<1>7. ASSUME NEW g \in Generation, RevokeProxy(g) PROVE TypeOK'
  BY <1>7 DEF RevokeProxy
<1>8. CASE UpdatePolicy
  BY <1>8 DEF UpdatePolicy
<1>9. CASE PolicyStep
  BY <1>9, SMTT(20) DEF PolicyStep, ClearStatuses, StorePolicy
<1>10. ASSUME NEW r \in Request, NEW g \in {0} \cup Generation, BeginRequest(r, g)
       PROVE TypeOK'
  BY <1>10 DEF BeginRequest
<1>11. ASSUME NEW r \in Request, RequestStep(r) PROVE TypeOK'
  <2>1. CASE VerifyForAdmission(r)
    <3>1. /\ authority' = authority \/ (Degrade /\ UNCHANGED <<prepared, active>>)
          /\ pc' \in [Request -> Phase]
      BY <2>1 DEF VerifyForAdmission
    <3>2. UNCHANGED <<proxies, policies, root, stamp, work, tuple, statuses>>
      BY <2>1 DEF VerifyForAdmission
    <3> QED BY <3>1, <3>2
  <2>2. CASE Admit(r)
    <3>1. CASE BindingIsCurrent(stamp[r].gen)
      <4>1. stamp[r] \in Stamp
        OBVIOUS
      <4>2. stamp' = [stamp EXCEPT ![r] =
                        [gen |-> stamp[r].gen, event |-> event + 1, root |-> stamp[r].root]]
        BY <2>2, <3>1, <4>1 DEF Admit
      <4>3. stamp' \in [Request -> Stamp]
        BY <4>1, <4>2
      <4>4. pc' \in [Request -> Phase] /\ authState' = "Active" /\ event' = event + 1
        BY <2>2, <3>1 DEF Admit
      <4> QED BY <2>2, <4>3, <4>4, SMTT(20) DEF Admit
    <3>2. CASE ~BindingIsCurrent(stamp[r].gen)
      BY <2>2, <3>2 DEF Admit
    <3> QED BY <3>1, <3>2
  <2>3. CASE ReadPolicy(r)
    BY <2>3 DEF ReadPolicy
  <2>4. CASE DescribeStatus(r)
    BY <2>4 DEF DescribeStatus
  <2>5. CASE PushStatus(r)
    BY <2>5 DEF PushStatus
  <2>6. CASE Abandon(r)
    BY <2>6 DEF Abandon
  <2>7. CASE VerifyForPublication(r)
    BY <2>7 DEF VerifyForPublication
  <2>8. CASE Publish(r)
    BY <2>8 DEF Publish
  <2> QED BY <1>11, <2>1, <2>2, <2>3, <2>4, <2>5, <2>6, <2>7, <2>8 DEF RequestStep
<1>12. ASSUME NEW r \in Request, ObserverStep(r) PROVE TypeOK'
  <2>1. /\ authority' = authority \/ (Degrade /\ UNCHANGED <<prepared, active>>)
        /\ UNCHANGED <<proxies, policies, root, requests, pushes>>
    BY <1>12 DEF ObserverStep, TakeStatus, CheckStatus, DeliverStatus
  <2>2. pending' \subseteq pending
    BY <1>12 DEF ObserverStep, TakeStatus, CheckStatus, DeliverStatus
  <2>3. \E to \in {"taken", "checked", "dropped", "delivered"} :
           observation' = [observation EXCEPT ![r] = to]
    BY <1>12 DEF ObserverStep, TakeStatus, CheckStatus, DeliverStatus
  <2> QED BY <2>1, <2>2, <2>3
<1>13. CASE PublishRoot \/ ExpireRoot
  BY <1>13 DEF PublishRoot, ExpireRoot
<1>14. CASE UNCHANGED vars
  BY <1>14 DEF vars
<1> QED
  BY <1>1, <1>2, <1>3, <1>4, <1>5, <1>6, <1>7, <1>8, <1>9, <1>10, <1>11,
     <1>12, <1>13, <1>14 DEF Next, ProxyStep

LEMMA TypeInit == Init => TypeOK
  BY BoundsAreNat DEF Init, TypeOK, Generation, Unread, AuthState, Phase, Stamp

\* Every variable keeps its type: no generation, sequence or phase escapes
\* the ranges that the other results rely on.
THEOREM TypeCorrect == Spec => []TypeOK
  BY TypeInit, TypeStep, PTL DEF Spec

-----------------------------------------------------------------------------
(* The inductive invariant.                                                *)

LEMMA InvInit == Init => IInv
  BY TypeInit, BoundsAreNat
     DEF Init, IInv, StampsAreOutdated, PolicyGenerations, AdmittedWorkIsCurrent, HasRead,
         BindingsBelongToListeners, NoTupleBeforeWork, UnstampedBeforeAdmission,
         VerifiedRootHolds, StatusNamesItsPolicy, Generation, Unread

\* Failing closed, or leaving the authority alone, admits no stamp anew.
LEMMA FailClosed ==
  ASSUME IInv,
         authority' = authority \/ (Degrade /\ UNCHANGED <<prepared, active>>),
         UNCHANGED <<proxies, policies, stamp>>
  PROVE  /\ StampsAreOutdated' /\ PolicyGenerations' /\ BindingsBelongToListeners'
         /\ \A r \in Request : Admits(r)' => Admits(r)
<1> USE DEF IInv, TypeOK, StampsAreOutdated, PolicyGenerations, BindingsBelongToListeners,
     authority, proxies, policies, Admits, BindingIsCurrent, Generation, Stamp
<1>1. CASE authority' = authority
  BY <1>1
<1>2. CASE Degrade /\ UNCHANGED <<prepared, active>>
  <2>1. authState' # "Active"
    BY <1>2 DEF Degrade, Transition
  <2>2. StampsAreOutdated'
    BY <1>2 DEF Degrade, Transition, Invalidate
  <2> QED BY <1>2, <2>1, <2>2
<1> QED BY <1>1, <1>2

\* One step keeps the invariant: one case per action.
LEMMA InvStep == ASSUME IInv, [Next]_vars PROVE IInv'
<1> USE BoundsAreNat, NoRootIsNotARoot DEF IInv
<1>0. TypeOK /\ TypeOK'
  BY TypeStep
<1> USE <1>0 DEF TypeOK, authority, proxies, policies, requests, statuses, Generation,
     Transition, Invalidate, Degrade, Moves, Settle, BindingIsCurrent, Admits, HasRead,
     StampsAreOutdated, PolicyGenerations, AdmittedWorkIsCurrent, Stamp, Unread,
     BindingsBelongToListeners, NoTupleBeforeWork, UnstampedBeforeAdmission,
     VerifiedRootHolds, StatusNamesItsPolicy
<1>1. CASE CountGeneration
  BY <1>1 DEF CountGeneration
<1>2. ASSUME NEW g \in Generation, PrepareProxy(g) PROVE IInv'
  BY <1>2 DEF PrepareProxy
<1>3. ASSUME NEW g \in Generation, StartListener(g) PROVE IInv'
  BY <1>3 DEF StartListener
<1>4. ASSUME NEW g \in Generation, ActivateProxy(g) PROVE IInv'
  <2>1. CASE CanActivate(g)
    <3>1. /\ active' = g /\ prepared' = 0 /\ listener[g] = "listening"
          /\ listener' = [listener EXCEPT ![g] = "live"]
          /\ UNCHANGED <<authState, event, floor, generation, policies, root, requests, statuses>>
      BY <1>4, <2>1 DEF ActivateProxy
    <3>2. BindingsBelongToListeners'
      BY <3>1
    <3>3. \A r \in Request : Admits(r)' => Admits(r)
      <4> SUFFICES ASSUME NEW r \in Request, Admits(r)' PROVE Admits(r)
        OBVIOUS
      <4>1. stamp[r] \in Stamp /\ stamp[r].event # 0
        BY <3>1
      <4>2. stamp[r].gen # 0 => listener[stamp[r].gen] \in {"live", "stopping", "ended"}
        BY <4>1
      <4>3. stamp[r].gen # g
        BY <3>1, <4>2
      <4> QED BY <3>1, <4>1, <4>3
    <3>4. AdmittedWorkIsCurrent'
      BY <3>1, <3>3
    <3> QED BY <3>1, <3>2, <3>4
  <2>2. CASE ~CanActivate(g)
    <3>1. /\ listener[g] = "listening" /\ listener' = [listener EXCEPT ![g] = "refused"]
          /\ UNCHANGED <<authority, generation, policies, root, requests, statuses>>
      BY <1>4, <2>2 DEF ActivateProxy
    <3>2. BindingsBelongToListeners'
      BY <3>1
    <3> QED BY <3>1, <3>2
  <2> QED BY <2>1, <2>2
<1>5. ASSUME NEW g \in Generation, CancelPreparedProxy(g) PROVE IInv'
  BY <1>5 DEF CancelPreparedProxy
<1>6. ASSUME NEW g \in Generation, StopProxy(g) PROVE IInv'
  BY <1>6 DEF StopProxy
<1>7. ASSUME NEW g \in Generation, RevokeProxy(g) PROVE IInv'
  BY <1>7 DEF RevokeProxy
<1>8. CASE UpdatePolicy
  BY <1>8 DEF UpdatePolicy
<1>9. CASE PolicyStep
  <2>1. CASE ClearStatuses
    BY <1>9, <2>1 DEF ClearStatuses
  <2>2. CASE StorePolicy
    <3>1. \A r \in Request : ~(HasRead(r) /\ Admits(r))
      BY <2>2 DEF StorePolicy
    <3>2. AdmittedWorkIsCurrent'
      BY <2>2, <3>1 DEF StorePolicy
    <3> QED BY <2>2, <3>2 DEF StorePolicy
  <2> QED BY <1>9, <2>1, <2>2 DEF PolicyStep
<1>10. ASSUME NEW r \in Request, NEW g \in {0} \cup Generation, BeginRequest(r, g)
       PROVE IInv'
  BY <1>10 DEF BeginRequest
<1>11. ASSUME NEW r \in Request, RequestStep(r) PROVE IInv'
  <2>1. CASE VerifyForAdmission(r)
    BY <2>1 DEF VerifyForAdmission
  <2>2. CASE Admit(r)
    <3>1. CASE BindingIsCurrent(stamp[r].gen)
      <4>1. stamp[r] \in Stamp /\ stamp[r].event = 0 /\ pc[r] = "admitting"
        BY <2>2, <3>1 DEF Admit
      <4>2. /\ stamp' = [stamp EXCEPT ![r] =
                           [gen |-> stamp[r].gen, event |-> event + 1, root |-> stamp[r].root]]
            /\ authState' = "Active" /\ event' = event + 1
            /\ pc' = [pc EXCEPT ![r] = "admitted"]
            /\ UNCHANGED <<floor, prepared, active, proxies, policies, root, work, tuple, statuses>>
        BY <2>2, <3>1, <4>1 DEF Admit
      <4>3. StampsAreOutdated'
        BY <4>1, <4>2
      <4>4. BindingsBelongToListeners'
        BY <3>1, <4>1, <4>2
      <4>5. AdmittedWorkIsCurrent'
        <5> SUFFICES ASSUME NEW q \in Request, HasRead(q)', Admits(q)'
                     PROVE  writer' = "idle" /\ work'[q] = policy'
          OBVIOUS
        <5>1. q # r /\ HasRead(q) /\ stamp'[q] = stamp[q]
          BY <4>2
        <5>2. Admits(q)
          BY <4>2, <5>1
        <5> QED BY <4>2, <5>1, <5>2
      <4>6. NoTupleBeforeWork' /\ UnstampedBeforeAdmission'
        BY <4>1, <4>2
      <4>7. PolicyGenerations' /\ VerifiedRootHolds' /\ StatusNamesItsPolicy'
        BY <4>1, <4>2
      <4> QED BY <4>3, <4>4, <4>5, <4>6, <4>7
    <3>2. CASE ~BindingIsCurrent(stamp[r].gen)
      <4>1. /\ pc' = [pc EXCEPT ![r] = "cancelled"]
            /\ UNCHANGED <<authority, proxies, policies, root, stamp, work, tuple, statuses>>
        BY <2>2, <3>2 DEF Admit
      <4>2. AdmittedWorkIsCurrent'
        BY <4>1
      <4> QED BY <4>1, <4>2
    <3> QED BY <3>1, <3>2
  <2>3. CASE ReadPolicy(r)
    BY <2>3 DEF ReadPolicy
  <2>4. CASE DescribeStatus(r)
    <3>1. CASE Admits(r)
      <4>1. canonical = work[r] + 1 /\ canonical \in Nat
        BY <2>4, <3>1 DEF DescribeStatus
      <4>2. StatusNamesItsPolicy'
        <5>1. tuple' = [tuple EXCEPT ![r] = work[r] + 1] /\ work' = work
          BY <2>4, <3>1, <4>1 DEF DescribeStatus
        <5> QED BY <5>1
      <4>3. NoTupleBeforeWork'
        BY <2>4, <3>1 DEF DescribeStatus
      <4>4. AdmittedWorkIsCurrent'
        BY <2>4, <3>1 DEF DescribeStatus
      <4> QED BY <2>4, <3>1, <4>2, <4>3, <4>4 DEF DescribeStatus
    <3>2. CASE ~Admits(r)
      <4>1. AdmittedWorkIsCurrent'
        BY <2>4, <3>2 DEF DescribeStatus
      <4> QED BY <2>4, <3>2, <4>1 DEF DescribeStatus
    <3> QED BY <3>1, <3>2
  <2>5. CASE PushStatus(r)
    BY <2>5 DEF PushStatus
  <2>6. CASE Abandon(r)
    <3>1. /\ authority' = authority \/ (Degrade /\ UNCHANGED <<prepared, active>>)
          /\ UNCHANGED <<proxies, policies, root, stamp, work, tuple, statuses>>
          /\ pc' = [pc EXCEPT ![r] = "cancelled"]
      BY <2>6 DEF Abandon
    <3>2. /\ StampsAreOutdated' /\ PolicyGenerations' /\ BindingsBelongToListeners'
          /\ \A q \in Request : Admits(q)' => Admits(q)
      BY <3>1, FailClosed
    <3>3. AdmittedWorkIsCurrent'
      BY <3>1, <3>2
    <3>4. /\ NoTupleBeforeWork' /\ UnstampedBeforeAdmission' /\ VerifiedRootHolds'
          /\ StatusNamesItsPolicy'
      BY <3>1
    <3> QED BY <3>2, <3>3, <3>4
  <2>7. CASE VerifyForPublication(r)
    <3>1. AdmittedWorkIsCurrent'
      BY <2>7 DEF VerifyForPublication
    <3>2. VerifiedRootHolds'
      BY <2>7 DEF VerifyForPublication
    <3> QED BY <2>7, <3>1, <3>2, SMTT(20) DEF VerifyForPublication
  <2>8. CASE Publish(r)
    BY <2>8 DEF Publish
  <2> QED BY <1>11, <2>1, <2>2, <2>3, <2>4, <2>5, <2>6, <2>7, <2>8 DEF RequestStep
<1>12. ASSUME NEW r \in Request, ObserverStep(r) PROVE IInv'
  <2>1. /\ authority' = authority \/ (Degrade /\ UNCHANGED <<prepared, active>>)
        /\ UNCHANGED <<proxies, policies, root, requests>>
    BY <1>12 DEF ObserverStep, TakeStatus, CheckStatus, DeliverStatus
  <2>2. /\ StampsAreOutdated' /\ PolicyGenerations' /\ BindingsBelongToListeners'
        /\ \A q \in Request : Admits(q)' => Admits(q)
    BY <2>1, FailClosed
  <2>3. AdmittedWorkIsCurrent'
    BY <2>1, <2>2
  <2> QED BY <2>1, <2>2, <2>3
<1>13. CASE PublishRoot \/ ExpireRoot
  <2>1. UNCHANGED <<authority, proxies, policies, requests, statuses>>
    BY <1>13 DEF PublishRoot, ExpireRoot
  <2>2. VerifiedRootHolds'
    BY <1>13 DEF PublishRoot, ExpireRoot, HoldsHeaderState
  <2>3. AdmittedWorkIsCurrent'
    BY <2>1
  <2> QED BY <2>1, <2>2, <2>3
<1>14. CASE UNCHANGED vars
  BY <1>14 DEF vars
<1> QED
  BY <1>1, <1>2, <1>3, <1>4, <1>5, <1>6, <1>7, <1>8, <1>9, <1>10, <1>11,
     <1>12, <1>13, <1>14 DEF Next, ProxyStep

-----------------------------------------------------------------------------
(* The theorems.                                                           *)

\* The inductive invariant holds of every reachable state.
THEOREM InvariantHolds == Spec => []IInv
  BY InvInit, InvStep, PTL DEF Spec

\* A status always names the policy generation its work ran under.
THEOREM StatusesNameTheirPolicy == Spec => []StatusNamesItsPolicy
<1>1. IInv => StatusNamesItsPolicy
  BY DEF IInv
<1> QED BY <1>1, InvariantHolds, PTL

\* A publishing step publishes: only Publish leaves "verified" for "published".
LEMMA OnlyPublishPublishes ==
  ASSUME TypeOK, Next, NEW r \in Request, Publishes(r)
  PROVE  Publish(r) /\ Admits(r)
<1> USE DEF TypeOK, Publishes, requests, Moves
<1>1. ASSUME NEW q \in Request, RequestStep(q) PROVE Publish(r) /\ Admits(r)
  <2>1. pc'[q] # pc[q]
    BY <1>1 DEF RequestStep, VerifyForAdmission, Admit, ReadPolicy, DescribeStatus,
                PushStatus, Abandon, VerifyForPublication, Publish, Phase
  <2>2. q = r
    BY <1>1 DEF RequestStep, VerifyForAdmission, Admit, ReadPolicy, DescribeStatus,
                PushStatus, Abandon, VerifyForPublication, Publish
  <2> QED
    BY <1>1, <2>2 DEF RequestStep, VerifyForAdmission, Admit, ReadPolicy, DescribeStatus,
                PushStatus, Abandon, VerifyForPublication, Publish
<1>2. ASSUME NEW q \in Request, NEW g \in {0} \cup Generation, BeginRequest(q, g)
      PROVE  FALSE
  BY <1>2 DEF BeginRequest
<1>3. (\E q \in Request : ObserverStep(q)) => FALSE
  BY DEF ObserverStep, TakeStatus, CheckStatus, DeliverStatus
<1>4. ASSUME NEW g \in Generation, ProxyStep(g) PROVE FALSE
  BY <1>4 DEF ProxyStep, PrepareProxy, StartListener, ActivateProxy, CancelPreparedProxy,
              StopProxy, RevokeProxy
<1>5. ~(CountGeneration \/ UpdatePolicy \/ PolicyStep \/ PublishRoot \/ ExpireRoot)
  BY DEF CountGeneration, UpdatePolicy, PolicyStep, ClearStatuses, StorePolicy,
         PublishRoot, ExpireRoot
<1> QED BY <1>1, <1>2, <1>3, <1>4, <1>5 DEF Next

\* Work is published only under the policy it ran under, through the proxy it is bound
\* to, and against the tree it was proved in, all three as they are when it is published.
THEOREM PublicationsKeepTheirStamp == Spec => PublishedUnderItsStamp
<1>1. IInv /\ [Next]_vars => [KeepsPolicy]_vars
  <2> SUFFICES ASSUME IInv, Next, NEW r \in Request, Publishes(r) PROVE PolicyInForce(r)
    BY DEF KeepsPolicy
  <2>1. HasRead(r) /\ Admits(r)
    BY OnlyPublishPublishes DEF IInv, HasRead, Publishes
  <2> QED BY <2>1 DEF IInv, AdmittedWorkIsCurrent, PolicyGenerations, PolicyInForce
<1>2. IInv /\ [Next]_vars => [KeepsBinding]_vars
  <2> SUFFICES ASSUME IInv, Next, NEW r \in Request, Publishes(r), stamp[r].gen # 0
               PROVE  BoundAndAlive(stamp[r].gen)
    BY DEF KeepsBinding
  <2>1. Admits(r)
    BY OnlyPublishPublishes DEF IInv
  <2> QED BY <2>1 DEF IInv, BindingsBelongToListeners, Admits, BindingIsCurrent, BoundAndAlive
<1>3. IInv /\ [Next]_vars => [KeepsRoot]_vars
  BY DEF IInv, VerifiedRootHolds, Publishes, KeepsRoot
<1>4. IInv /\ [Next]_vars => [KeepsPolicy /\ KeepsBinding /\ KeepsRoot]_vars
  BY <1>1, <1>2, <1>3
<1> QED BY <1>4, InvariantHolds, PTL DEF Spec, PublishedUnderItsStamp

\* A stamp that is stale stays stale, whatever is restarted around it.
THEOREM StaleStampsAreFinal == Spec => StaleStampsStayStale
<1>1. IInv /\ [Next]_vars => [NeverReadmits]_vars
  <2> SUFFICES ASSUME IInv, Next, NEW r \in Request, Admitted(r), Admits(r)'
               PROVE  Admits(r)
    BY DEF NeverReadmits
  <2> USE BoundsAreNat DEF IInv, TypeOK, authority, proxies, policies, requests, statuses,
       Generation, Admits, BindingIsCurrent, StampsAreOutdated, BindingsBelongToListeners,
       Transition, Invalidate, Degrade, Moves, Settle, Stamp
  <2>1. ASSUME NEW q \in Request, NEW g \in {0} \cup Generation, BeginRequest(q, g)
        PROVE  Admits(r)
    BY <2>1 DEF BeginRequest, Admitted
  <2>2. ASSUME NEW q \in Request, RequestStep(q) PROVE Admits(r)
    <3>1. CASE Admit(q)
      <4>1. q # r
        BY <3>1 DEF Admit, Admitted
      <4>2. /\ stamp'[r] = stamp[r] /\ UNCHANGED <<floor, active>>
            /\ authState' = "Active" \/ authState' = authState
        BY <3>1, <4>1 DEF Admit
      <4>3. stamp[r] \in Stamp /\ stamp[r].event > floor
        BY <4>2
      <4>4. authState = "Active"
        BY <4>3
      <4> QED BY <4>2, <4>3, <4>4
    <3>2. CASE ~Admit(q)
      <4>1. /\ authority' = authority \/ (Degrade /\ UNCHANGED <<prepared, active>>)
            /\ UNCHANGED <<proxies, policies, stamp>>
        BY <2>2, <3>2 DEF RequestStep, VerifyForAdmission, ReadPolicy, DescribeStatus,
                    PushStatus, Abandon, VerifyForPublication, Publish
      <4> QED BY <4>1, FailClosed
    <3> QED BY <3>1, <3>2
  <2>3. ASSUME NEW q \in Request, ObserverStep(q) PROVE Admits(r)
    <3>1. /\ authority' = authority \/ (Degrade /\ UNCHANGED <<prepared, active>>)
          /\ UNCHANGED <<proxies, policies, stamp>>
      BY <2>3 DEF ObserverStep, TakeStatus, CheckStatus, DeliverStatus
    <3> QED BY <3>1, FailClosed
  <2>4. ASSUME NEW g \in Generation, ProxyStep(g) PROVE Admits(r)
    <3>1. CASE ActivateProxy(g)
      <4>1. /\ listener[g] = "listening"
            /\ active' \in {active, g}
            /\ UNCHANGED <<authState, event, floor, stamp>>
        BY <3>1 DEF ActivateProxy
      <4>2. stamp[r] \in Stamp /\ stamp[r].event # 0
        BY <4>1
      <4>3. stamp[r].gen # 0 => listener[stamp[r].gen] \in {"live", "stopping", "ended"}
        BY <4>2
      <4>4. stamp[r].gen # g
        BY <4>1, <4>3
      <4> QED BY <4>1, <4>2, <4>4
    <3>2. CASE PrepareProxy(g)
      BY <3>2 DEF PrepareProxy
    <3>3. CASE StartListener(g)
      BY <3>3 DEF StartListener
    <3>4. CASE CancelPreparedProxy(g)
      BY <3>4 DEF CancelPreparedProxy
    <3>5. CASE StopProxy(g)
      BY <3>5 DEF StopProxy
    <3>6. CASE RevokeProxy(g)
      BY <3>6 DEF RevokeProxy
    <3> QED BY <2>4, <3>1, <3>2, <3>3, <3>4, <3>5, <3>6 DEF ProxyStep
  <2>5. CASE UpdatePolicy
    BY <2>5 DEF UpdatePolicy
  <2>6. CASE CountGeneration \/ PolicyStep \/ PublishRoot \/ ExpireRoot
    BY <2>6 DEF CountGeneration, PolicyStep, ClearStatuses, StorePolicy, PublishRoot,
                ExpireRoot
  <2> QED BY <2>1, <2>2, <2>3, <2>4, <2>5, <2>6 DEF Next
<1> QED BY <1>1, InvariantHolds, PTL DEF Spec, StaleStampsStayStale
=============================================================================
