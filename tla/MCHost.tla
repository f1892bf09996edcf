------------------------------- MODULE MCHost -------------------------------
(* NativeHost and MandatoryPac in one run: `part` says which of the two a   *)
(* behaviour is about; the other one keeps its initial state.               *)
EXTENDS NativeHost

CONSTANTS Client, Live, MaxControl, MaxHung, MaxRevision, a, b
VARIABLES control, told, pac, desired, tail, setting, hung, hangs, confirmed, blind, part

pacVars == <<control, told, pac, desired, tail, setting, hung, hangs, confirmed, blind>>

Pac == INSTANCE MandatoryPac WITH answer <- told

ASSUME PacConstants == Pac!Assumptions

HostInit == Init /\ Pac!Init /\ part \in {"host", "pac"}
HostNext ==
    /\ UNCHANGED part
    /\ \/ part = "host" /\ Next /\ UNCHANGED pacVars
       \/ part = "pac" /\ Pac!Next /\ UNCHANGED vars
HostSpec == HostInit /\ [][HostNext]_<<vars, pacVars, part>>

\* The host and the controller keep to their types.
TypesOK == CASE part = "host" -> TypeOK [] part = "pac" -> Pac!TypeOK

\* Once the controller is at rest and confirmed, its newest script is the selected one,
\* whatever was given up and landed late; but for settings nobody watched any more.
GivenUpIsRepaired == part = "pac" => Pac!GivenUpIsRepaired

\* An operation is told "ok" only while its own script, of the present epoch, is selected.
OkMeansSelected == [][part = "pac" => Pac!ToldOk]_<<pacVars, part>>
=============================================================================
