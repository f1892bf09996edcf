--------------------------- MODULE WalletSession ---------------------------
(***************************************************************************)
(* The native host's private read session with the wallet service: the     *)
(* generation-owning slot WalletReadSessionLifecycle, the session in it     *)
(* (controller, database, namespace lease) and the service process.        *)
(*                                                                         *)
(* The host runs one call at a time, each as a fixed sequence of steps: the *)
(* entry of the namespace guard, a check of the database on both sides, an *)
(* exchange per service operation, the release of the guard.  Between two  *)
(* steps the user may lock, unlock or switch the wallet, synchronisation   *)
(* may start or end, the broker may move the lease, the database file may  *)
(* be replaced and the service may exit.                                   *)
(*                                                                         *)
(* An exchange is one step: whatever a frame can suffer (a deadline, an end *)
(* of file, a malformed frame, another session's identifiers, a sequence   *)
(* number out of turn, a protocol failure) is the answer "broken".  The    *)
(* service's revision grows with every change of its wallet.               *)
(***************************************************************************)
EXTENDS Integers, Sequences, FiniteSets

CONSTANTS
    Wallets,           \* a wallet and its one account have the same name
    NONE,
    ADMITTED,          \* capabilities the admitted manifest grants
    MaxGeneration,     \* bound: restart generations
    MaxSequence,       \* bound: channel sequences, u64::MAX in the code
    MaxChanges         \* bound: what happens around the host

\* What the constants are assumed to be.
Assumptions ==
    /\ NONE \notin Wallets
    /\ MaxGeneration \in Nat \ {0} /\ MaxSequence \in Nat \ {0} /\ MaxChanges \in Nat

Required == {"reads"}
Allowed == {"reads", "authority", "provider"}
Capabilities == Allowed \cup {"value"}

VARIABLES
    next,       \* next_restart_generation
    session,    \* WalletReadSessionLifecycle.active
    live,       \* service processes: [gen, next (its sequence), database (its open file)]
    call,       \* the call in progress
    result,     \* what the last call returned
    newest,     \* the highest generation a process was started for
    used,       \* what was so when the consumer ran with the authority
    wallet,     \* the service's: [active, revision, hns, ready]
    lease,      \* the broker's current lease generation
    database,   \* the file at the database path
    changes

world == <<wallet, lease, database, changes>>
vars == <<next, newest, session, live, call, result, used, world>>

NoSession == [gen |-> 0, next |-> 0, capabilities |-> {}, wallet |-> NONE, account |-> NONE,
              claim |-> 0, database |-> 0]
Taken == [gen |-> 0, claim |-> 0, database |-> 0]     \* a bootstrap lease
NoCall == [op |-> "none", at |-> 0, ok |-> TRUE, taken |-> Taken,
           status |-> NONE, account |-> NONE, context |-> 0]
NotUsed == [revision |-> 0, lease |-> 0, database |-> 0]

\* wallet_read_session_capability_ceiling
Ceiling == ADMITTED \cap Allowed
CeilingHolds == Required \subseteq Ceiling

Reads == {"status", "accounts", "balance", "target", "history", "module"}

\* What each call does, in order.
Program(op) ==
    CASE op = "start" -> <<"compose", "hello", "attest">>
      [] op = "all" -> <<"enter", "boundary", "status", "accounts", "balance", "target", "history",
                         "module", "boundary", "leave">>
      [] op = "authority" -> <<"enter", "boundary", "status", "accounts", "context", "boundary",
                               "use", "status", "accounts", "context", "boundary", "leave">>
      [] OTHER -> <<"enter", "boundary", op, "boundary", "leave">>

Doing(step) == call.op # "none" /\ Program(call.op)[call.at] = step

Init ==
    /\ next = 1 /\ newest = 0 /\ session = NoSession /\ live = {}
    /\ call = NoCall /\ result = "none" /\ used = NotUsed
    /\ wallet \in [active : Wallets \cup {NONE}, revision : {1}, hns : {TRUE}, ready : {TRUE}]
    /\ lease = 1 /\ database = 1 /\ changes = 0

-----------------------------------------------------------------------------
(* How a step of a call ends                                               *)

Killed == {s \in live : s.gen # session.gen}

Continue == call' = [call EXCEPT !.at = @ + 1] /\ UNCHANGED result

Return(outcome) == call' = NoCall /\ result' = outcome

\* The controller is poisoned, its process killed and reaped, and
\* execute_active empties the slot.
Poison == session' = NoSession /\ live' = Killed /\ Return("error")

\* An error that leaves the session in place still passes the closing
\* boundary and the guard.
Refuse == call' = [call EXCEPT !.ok = FALSE, !.at = Len(Program(call.op)) - 1] /\ UNCHANGED result

-----------------------------------------------------------------------------
(* WalletReadSessionLifecycle: start, invalidate, execute_active           *)

\* Mutant: the session that is there is replaced when the new one is ready.
KeepsPrevious == live

DropsPrevious == Killed

\* Mutant: a generation is taken only by a start that succeeds.
GenerationAfterSuccess == next

NextGeneration == next + 1

Start ==
    /\ call = NoCall /\ next < MaxGeneration
    /\ next' = NextGeneration
    /\ session' = NoSession /\ live' = DropsPrevious
    /\ \/ Return("error")                        \* no lease, or one of another network
       \/ /\ call' = [NoCall EXCEPT !.op = "start", !.at = 1,
                       !.taken = [gen |-> next, claim |-> lease, database |-> database]]
          /\ result' = "none"
    /\ used' = NotUsed /\ UNCHANGED <<newest, world>>

Gen == IF call.op = "start" THEN call.taken.gen ELSE session.gen
Services == {s \in live : s.gen = Gen}

\* compose_admitted_read_session: the manifest's ceiling and the launch,
\* which may find the database changed since the lease was made.
Compose ==
    /\ Doing("compose")
    /\ \/ /\ CeilingHolds /\ database = call.taken.database
          /\ live' = live \cup {[gen |-> Gen, next |-> 1, database |-> database]}
          /\ newest' = Gen /\ Continue
       \/ Return("error") /\ UNCHANGED <<live, newest>>
    /\ UNCHANGED <<next, session, used, world>>

\* Mutant: what the service claims is not held against the manifest.
HelloTrusted(claimed) == Required \subseteq claimed

\* negotiate: the service claims a set of capabilities.
HelloAccepted(claimed) ==
    /\ claimed \subseteq Ceiling /\ Required \subseteq claimed
    /\ "value" \in claimed => "provider" \in claimed

Hello ==
    /\ Doing("hello")
    /\ \/ \E claimed \in SUBSET Capabilities :
             /\ Services # {} /\ HelloAccepted(claimed)
             /\ session' = [NoSession EXCEPT !.gen = Gen, !.next = 1, !.capabilities = claimed,
                               !.claim = call.taken.claim, !.database = call.taken.database]
             /\ Continue /\ UNCHANGED live
       \/ Return("error") /\ live' = live \ Services /\ UNCHANGED session
    /\ UNCHANGED <<next, newest, used, world>>

\* The file at the path is the retained one and the service has it open.
DatabaseHeld ==
    /\ database = session.database
    /\ \E s \in Services : s.database = session.database

Attest ==
    /\ Doing("attest")
    /\ IF DatabaseHeld THEN Return("ok") /\ UNCHANGED <<session, live>> ELSE Poison
    /\ UNCHANGED <<next, newest, used, world>>

Invalidate(gen) ==
    /\ call = NoCall /\ session.gen = gen /\ session # NoSession
    /\ session' = NoSession /\ live' = Killed
    /\ UNCHANGED <<next, newest, call, result, used, world>>

\* A call names the generation it is for; another's is refused at once.
Call(op) ==
    /\ call = NoCall /\ session # NoSession
    /\ op = "authority" => "authority" \in session.capabilities
    /\ call' = [NoCall EXCEPT !.op = op, !.at = 1]
    /\ result' = "none" /\ used' = NotUsed
    /\ UNCHANGED <<next, newest, session, live, world>>

-----------------------------------------------------------------------------
(* AdmittedWalletReadSession: the guard and the boundaries                 *)

LeaseHeld == lease = session.claim

Enter ==
    /\ Doing("enter")
    /\ IF LeaseHeld THEN Continue /\ UNCHANGED <<session, live>> ELSE Poison
    /\ UNCHANGED <<next, newest, used, world>>

Boundary ==
    /\ Doing("boundary")
    /\ IF DatabaseHeld THEN Continue /\ UNCHANGED <<session, live>> ELSE Poison
    /\ UNCHANGED <<next, newest, used, world>>

\* Mutant: the guard is not asked again when it is released.
HeldAtEntry == TRUE

HeldAtRelease == LeaseHeld

Leave ==
    /\ Doing("leave")
    /\ IF HeldAtRelease
       THEN Return(IF call.ok THEN "ok" ELSE "error") /\ UNCHANGED <<session, live>>
       ELSE Poison
    /\ UNCHANGED <<next, newest, used, world>>

\* The consumer borrows the authority; it may fail, and it may panic.
Use ==
    /\ Doing("use")
    /\ used' = [revision |-> wallet.revision, lease |-> lease, database |-> database]
    /\ \/ /\ \E ok \in BOOLEAN : call' = [call EXCEPT !.at = @ + 1, !.ok = ok]
          /\ UNCHANGED <<session, live, result>>
       \/ Poison
    /\ UNCHANGED <<next, newest, world>>

-----------------------------------------------------------------------------
(* WalletServiceController: the exchanges                                  *)

Service == CHOOSE s \in Services : TRUE

\* Mutant: only an answer moves the channel, a failure does not.
NotAdvanced(failed) == IF failed THEN session.next ELSE session.next + 1

Advanced(failed) == session.next + 1

\* The service answered in turn: both ends count the exchange.
Counted(failed, selected) ==
    /\ session.next < MaxSequence
    /\ Service.next = session.next
    /\ session' = [selected EXCEPT !.next = Advanced(failed)]
    /\ live' = (live \ {Service}) \cup {[Service EXCEPT !.next = @ + 1]}

Answered(selected, seen) ==
    /\ Counted(FALSE, selected)
    /\ call' = [seen EXCEPT !.at = @ + 1] /\ UNCHANGED result

\* A failure the service reports about the operation.
Failed ==
    IF call.op = "authority" THEN Poison
    ELSE Counted(TRUE, session) /\ Refuse

\* The answer is of another class, out of its bounds, or not the account's.
Malformed == Services # {} /\ Poison

\* The pipe broke, or the deadline of the exchange passed.
TimedOut == Poison

Unanswered == (Services # {} /\ Failed) \/ Malformed \/ TimedOut

Second == call.at > 6     \* the closing reads of an authority use

\* read_status: the active wallet is bound by the first answer that names
\* one; a locked wallet, or one without the HNS module, unbinds it.
StatusNow == [active |-> wallet.active, hns |-> wallet.hns]
Readable == wallet.active # NONE /\ wallet.hns

Bound ==
    IF Readable THEN [session EXCEPT !.wallet = wallet.active]
    ELSE [session EXCEPT !.wallet = NONE, !.account = NONE]

ReadStatus ==
    /\ Doing("status")
    /\ \/ /\ Services # {}
          /\ wallet.active # NONE => session.wallet \in {NONE, wallet.active}
          /\ \/ /\ Readable \/ call.op = "status"
                /\ call.op = "authority" /\ Second => StatusNow = call.status
                /\ Answered(Bound, [call EXCEPT !.status =
                                       IF call.op = "authority" THEN StatusNow ELSE NONE])
             \/ call.op = "all" /\ ~Readable /\ Counted(FALSE, Bound) /\ Refuse
       \/ Unanswered
    /\ UNCHANGED <<next, newest, used, world>>

ListAccounts ==
    /\ Doing("accounts")
    /\ \/ /\ Services # {} /\ wallet.active # NONE
          /\ session.account \in {NONE, wallet.active}
          /\ call.op = "authority" /\ Second => wallet.active = call.account
          /\ Answered([session EXCEPT !.account = wallet.active],
                      [call EXCEPT !.account = IF call.op = "authority" THEN wallet.active ELSE NONE])
       \/ Unanswered
    /\ UNCHANGED <<next, newest, used, world>>

\* Balance, receive target and history name the bound account; a module
\* that is not ready is a protocol error.
ReadValue ==
    /\ \E step \in {"balance", "target", "history", "module"} : Doing(step)
    /\ \/ session.account = NONE /\ Refuse /\ UNCHANGED <<session, live>>
       \/ /\ session.account # NONE /\ Services # {} /\ wallet.ready
          /\ Doing("module") \/ wallet.active = session.account
          /\ Answered(session, call)
       \/ session.account # NONE /\ Unanswered
    /\ UNCHANGED <<next, newest, used, world>>

\* Mutant: the closing context is validated, not compared with the first.
ContextIsValid == TRUE

ContextUnchanged == Second => wallet.revision = call.context

ReadContext ==
    /\ Doing("context")
    /\ \/ /\ Services # {} /\ session.wallet # NONE /\ session.account # NONE
          /\ wallet.active = session.wallet /\ wallet.active = session.account
          /\ wallet.hns /\ wallet.ready /\ ContextUnchanged
          /\ Answered(session, [call EXCEPT !.context = wallet.revision])
       \/ Poison
    /\ UNCHANGED <<next, newest, used, world>>

-----------------------------------------------------------------------------
(* What happens around the host                                            *)

Change == changes < MaxChanges /\ changes' = changes + 1

ChangeWallet ==
    /\ Change
    /\ \E active \in Wallets \cup {NONE}, hns \in BOOLEAN, ready \in BOOLEAN :
          /\ [wallet EXCEPT !.active = active, !.hns = hns, !.ready = ready] # wallet
          /\ wallet' = [active |-> active, hns |-> hns, ready |-> ready,
                        revision |-> wallet.revision + 1]
    /\ UNCHANGED <<next, newest, session, live, call, result, used, lease, database>>

MoveLease ==
    /\ Change /\ lease' = lease + 1
    /\ UNCHANGED <<next, newest, session, live, call, result, used, wallet, database>>

ReplaceDatabase ==
    /\ Change /\ database' = database + 1
    /\ UNCHANGED <<next, newest, session, live, call, result, used, wallet, lease>>

ServiceExits ==
    /\ Change /\ live # {} /\ live' = {}
    /\ UNCHANGED <<next, newest, session, call, result, used, wallet, lease, database>>

-----------------------------------------------------------------------------
Step ==
    \/ Compose \/ Hello \/ Attest \/ Enter \/ Boundary \/ Leave \/ Use
    \/ ReadStatus \/ ListAccounts \/ ReadValue \/ ReadContext

Next ==
    \/ Step \/ Start
    \/ \E gen \in 1 .. MaxGeneration : Invalidate(gen)
    \/ \E op \in Reads \cup {"all", "authority"} : Call(op)
    \/ ChangeWallet \/ MoveLease \/ ReplaceDatabase \/ ServiceExits

Spec == Init /\ [][Next]_vars

-----------------------------------------------------------------------------
\* The types of the variables, and: a session holds no capability beyond
\* the read-session ceiling of the manifest that was admitted.
TypeOK ==
    /\ next \in 1 .. MaxGeneration
    /\ session.gen \in 0 .. MaxGeneration /\ session.next \in 0 .. MaxSequence
    /\ session.capabilities \subseteq Ceiling
    /\ session.wallet \in Wallets \cup {NONE} /\ session.account \in Wallets \cup {NONE}
    /\ \A s \in live : s.gen \in 1 .. MaxGeneration /\ s.next \in Nat /\ s.database \in Nat
    /\ call.op \in Reads \cup {"none", "start", "all", "authority"} /\ call.ok \in BOOLEAN
    /\ result \in {"none", "ok", "error"}
    /\ wallet.active \in Wallets \cup {NONE} /\ wallet.revision \in Nat

\* There is at most one wallet service, whatever was started, invalidated or
\* poisoned; between calls it is the one of the active session.
OneService ==
    /\ Cardinality(live) <= 1
    /\ call = NoCall => \A s \in live : s.gen = session.gen

\* No restart generation is given to two processes, even when the start that
\* took it failed after the process had been spawned.
SpawnsFresh ==
    \A s \in live' : s.gen \in {t.gen : t \in live} \/ s.gen > newest
GenerationsAreFresh == [][SpawnsFresh]_vars

\* Host and service agree on the next sequence number of the channel as long
\* as the session is used, failures the service reports included.
SequencesAgree == \A s \in live : s.gen = session.gen => s.next = session.next

\* A consumer that was told its use of the wallet authority succeeded ran
\* while the wallet had the very revision the authority names, under the
\* session's lease and on its database; anything that changed in between
\* turns the call into an error and ends the session.
UsesHeldAuthority ==
    call.op = "authority" /\ result' = "ok" =>
          /\ used.revision = call.context
          /\ used.lease = session.claim /\ used.database = session.database
AuthorityHeldInUse == [][UsesHeldAuthority]_vars
=============================================================================
