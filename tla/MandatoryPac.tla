---------------------------- MODULE MandatoryPac ----------------------------
(***************************************************************************)
(* SerializedMandatoryPacController: the proxy script that Chromium has    *)
(* selected, and the installations that replace it one after the other.    *)
(* An installation belongs to a control epoch.  Chromium may apply a       *)
(* setting late, after the installation was given up, and so may undo a    *)
(* later one; the controller then installs what it last desired again.     *)
(*                                                                         *)
(* JavaScript runs one callback at a time, and all promise continuations   *)
(* run before the next event: Chromium's events wait until the head of the *)
(* tail has begun.  A setting and its callback are one event, and so are   *)
(* a readback and the reading of its answer.  Not modelled: another        *)
(* extension or the user taking the proxy setting over, and a setting      *)
(* applied after it was given up whose callback never comes.               *)
(***************************************************************************)
EXTENDS Integers, Sequences, FiniteSets

CONSTANTS
    Client,          \* operations that install scripts and await the outcome
    Live,            \* PAC scripts that name a live proxy
    MaxControl,      \* bound: control epochs
    MaxHung,         \* bound: settings that fail or are not confirmed in time
    MaxRevision      \* bound: installations that operations ask for

\* What the constants are assumed to be.
Assumptions ==
    /\ Live \subseteq Nat \ {0}
    /\ "repair" \notin Client
    /\ MaxControl \in Nat \ {0} /\ MaxHung \in Nat /\ MaxRevision \in Nat

Blocker  == 0        \* BLOCKING_PAC_SCRIPT
NoScript == -1       \* not a script of the extension's
Script   == Live \cup {Blocker}
Repair   == "repair" \* installs by the controller itself: nobody awaits them

VARIABLES
    control,   \* controlEpoch
    answer,    \* "idle", or what an operation was told; "none" while it waits
    pac,       \* the script that Chromium has selected
    desired,   \* the newest script, with its epoch and revision
    tail,      \* installations that are not over, the first one under way
    setting,   \* progress of the first: "queued", "set", "read", "landed"
    hung,      \* settings that were given up or taken as done, yet to land
    hangs,     \* settings that hung so far
    confirmed, \* history: revision of the last installation taken as done
    blind      \* history: the last to land was a setting nobody watched

vars == <<control, answer, pac, desired, tail, setting, hung, hangs, confirmed, blind>>

Init ==
    /\ control = 1
    /\ answer = [o \in Client |-> "idle"]
    /\ pac = NoScript
    /\ desired = [script |-> NoScript, epoch |-> 0, revision |-> 0]
    /\ tail = <<>> /\ setting = "queued"
    /\ hung = {} /\ hangs = 0 /\ confirmed = 0 /\ blind = FALSE

\* What install does before it first waits.
Enqueued(by, script, epoch) ==
    LET r == desired.revision + 1
    IN /\ desired' = [script |-> script, epoch |-> epoch, revision |-> r]
       /\ tail' = Append(tail, [by |-> by, script |-> script, epoch |-> epoch,
                                revision |-> r])

\* install, called under the current control epoch (any other is refused).
Install(o, script) ==
    /\ answer[o] = "idle" /\ answer' = [answer EXCEPT ![o] = "none"]
    /\ desired.revision < MaxRevision
    /\ Enqueued(o, script, control)
    /\ UNCHANGED <<control, pac, setting, hung, hangs, confirmed, blind>>

\* The operation goes on with its outcome.
Resume(o) ==
    /\ answer[o] \notin {"idle", "none"} /\ answer' = [answer EXCEPT ![o] = "idle"]
    /\ UNCHANGED <<control, pac, desired, tail, setting, hung, hangs, confirmed, blind>>

\* beginControlGeneration: a newer operation owns the proxy from here on.
BeginControlGeneration ==
    /\ control < MaxControl /\ control' = control + 1
    /\ UNCHANGED <<answer, pac, desired, tail, setting, hung, hangs, confirmed, blind>>

-----------------------------------------------------------------------------
(* The installation at the head of the tail.                               *)

InstallBegins == tail # <<>> /\ setting = "queued"
Told(by, a) == answer' = IF by \in Client THEN [answer EXCEPT ![by] = a] ELSE answer
Done == tail' = Tail(tail) /\ setting' = "queued"
Outcome(i) == IF i.epoch = control THEN "ok" ELSE "superseded"

BeginSetting ==
    /\ InstallBegins
    /\ IF Head(tail).epoch = control
       THEN setting' = "set" /\ UNCHANGED <<tail, answer>>
       ELSE Done /\ Told(Head(tail).by, "superseded")
    /\ UNCHANGED <<control, pac, desired, hung, hangs, confirmed, blind>>

\* Mutant: a late setting has the last word.
NeverRepairs(revision) == FALSE

\* repairAfterLateMutation
Repairs(revision) == desired.revision # revision /\ desired.epoch = control

\* Mutant: every setting is watched, not only one that was given up.
ConfirmAndRepair ==
    /\ setting = "set" /\ setting' = "queued"
    /\ pac' = Head(tail).script /\ blind' = FALSE
    /\ confirmed' = Head(tail).revision
    /\ Told(Head(tail).by, Outcome(Head(tail)))
    /\ IF Repairs(Head(tail).revision)
       THEN LET r == desired.revision + 1
            IN /\ desired' = [desired EXCEPT !.revision = r]
               /\ tail' = Append(Tail(tail), [by |-> Repair, script |-> desired.script,
                                              epoch |-> desired.epoch, revision |-> r])
       ELSE tail' = Tail(tail) /\ UNCHANGED desired
    /\ UNCHANGED <<control, hung, hangs>>

Confirm ==
    /\ setting = "set"
    /\ pac' = Head(tail).script /\ blind' = FALSE
    /\ confirmed' = Head(tail).revision
    /\ Done /\ Told(Head(tail).by, Outcome(Head(tail)))
    /\ UNCHANGED <<control, desired, hung, hangs>>

Fault == hangs < MaxHung /\ hangs' = hangs + 1

\* Chromium refuses the setting.
Refuse ==
    /\ setting = "set" /\ Fault
    /\ Done /\ Told(Head(tail).by, "failed")
    /\ UNCHANGED <<control, pac, desired, hung, confirmed, blind>>

\* The confirmation timeout: what is selected is read back.
TimeOut ==
    /\ setting = "set" /\ setting' = "read" /\ Fault
    /\ UNCHANGED <<control, answer, pac, desired, tail, hung, confirmed, blind>>

LandWhileReading ==
    /\ setting = "read" /\ setting' = "landed"
    /\ pac' = Head(tail).script /\ blind' = FALSE
    /\ UNCHANGED <<control, answer, desired, tail, hung, hangs, confirmed>>

Pending(watched) ==
    [script |-> Head(tail).script, revision |-> Head(tail).revision, watched |-> watched]

\* Mutant: any script of the extension's will do.
ObservedAnything(script) == pac \in Script

\* The script that was read back is the right one: as good as confirmed.
Observed(script) == pac = script

ReadBack ==
    /\ setting \in {"read", "landed"} /\ Observed(Head(tail).script)
    /\ hung' = IF setting = "read" THEN hung \cup {Pending(FALSE)} ELSE hung
    /\ confirmed' = Head(tail).revision
    /\ Done /\ Told(Head(tail).by, Outcome(Head(tail)))
    /\ UNCHANGED <<control, pac, desired, hangs, blind>>

\* The read fails, is late, or found another script: the setting is watched
\* from here on, and repaired at once if it landed in the meantime.
GiveUp ==
    /\ setting \in {"read", "landed"} /\ setting' = "queued"
    /\ Told(Head(tail).by, "failed")
    /\ hung' = IF setting = "read" THEN hung \cup {Pending(TRUE)} ELSE hung
    /\ IF setting = "landed" /\ Repairs(Head(tail).revision)
       THEN LET r == desired.revision + 1
            IN /\ desired' = [desired EXCEPT !.revision = r]
               /\ tail' = Append(Tail(tail), [by |-> Repair, script |-> desired.script,
                                              epoch |-> desired.epoch, revision |-> r])
       ELSE tail' = Tail(tail) /\ UNCHANGED desired
    /\ UNCHANGED <<control, pac, hangs, confirmed, blind>>

-----------------------------------------------------------------------------
(* Settings that outlive their installation.                               *)

\* A setting is applied after all, and repaired if it is watched.
Land(m) ==
    /\ ~InstallBegins
    /\ m \in hung /\ hung' = hung \ {m}
    /\ pac' = m.script
    /\ blind' = ~m.watched
    /\ IF m.watched /\ Repairs(m.revision)
       THEN Enqueued(Repair, desired.script, desired.epoch)
       ELSE UNCHANGED <<desired, tail>>
    /\ UNCHANGED <<control, answer, setting, hangs, confirmed>>

\* ... or fails.
Vanish(m) ==
    /\ ~InstallBegins
    /\ m \in hung /\ hung' = hung \ {m}
    /\ UNCHANGED <<control, answer, pac, desired, tail, setting, hangs, confirmed, blind>>

Next ==
    \/ BeginControlGeneration
    \/ \E o \in Client : Resume(o) \/ \E script \in Script : Install(o, script)
    \/ BeginSetting \/ Confirm \/ Refuse \/ TimeOut \/ LandWhileReading
    \/ ReadBack \/ GiveUp
    \/ \E m \in hung : Land(m) \/ Vanish(m)

Spec == Init /\ [][Next]_vars

-----------------------------------------------------------------------------
(* Properties.                                                             *)

Revision == 0 .. MaxRevision + MaxHung
Installation ==
    [by : Client \cup {Repair}, script : Script, epoch : 1 .. MaxControl, revision : Revision]

\* Every variable has its type.  The bound on the revisions says that one
\* late setting causes at most one repair: repairs do not cause repairs.
TypeOK ==
    /\ control \in 1 .. MaxControl
    /\ answer \in [Client -> {"idle", "none", "ok", "failed", "superseded"}]
    /\ pac \in Script \cup {NoScript}
    /\ desired \in [script : Script \cup {NoScript}, epoch : 0 .. MaxControl, revision : Revision]
    /\ tail \in Seq(Installation)
    /\ setting \in {"queued", "set", "read", "landed"}
    /\ hung \subseteq [script : Script, revision : Revision, watched : BOOLEAN]
    /\ hangs \in 0 .. MaxHung
    /\ confirmed \in Revision
    /\ blind \in BOOLEAN

\* An operation that is told "ok" has its own script selected at that moment,
\* under the control epoch it installed it for: a late setting of an older
\* epoch, or a script that merely was read back, is never taken for its own.
TellOk(o) ==
    (answer[o] = "none" /\ answer'[o] = "ok")
    => \E i \in {Head(tail)} : i.by = o /\ i.epoch = control /\ pac' = i.script
ToldOk == \A o \in Client : TellOk(o)
OkMeansSelected == [][ToldOk]_vars

Settled ==
    tail = <<>> /\ desired.epoch = control /\ confirmed = desired.revision

\* Once the controller is at rest and its newest installation was confirmed,
\* that script is the selected one, whatever landed late in between: every
\* setting that was given up and still landed was repaired.  Excepted are
\* settings taken as done on the strength of a readback.
GivenUpIsRepaired == (Settled /\ ~blind) => pac = desired.script
=============================================================================
