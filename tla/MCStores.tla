------------------------------ MODULE MCStores ------------------------------
(* LocalCaStore and SetupTransaction in one run: `part` says which of the   *)
(* two a behaviour is about; the other one keeps its initial state.         *)
EXTENDS LocalCaStore, TLC

CONSTANTS p1, p2, p3,
          canonical, other, b1, b2, s1, h1,
          Manifests, CANONICAL, Browsers, Stores, Payloads, FOREIGN, NONE, MaxCa

VARIABLES root, host, licences, master, registered, loaders, ca, generated, anchors,
          receipt, transaction, run, outcome,
          part

setupVars ==
    <<root, host, licences, master, registered, loaders, ca, generated, anchors, receipt,
      transaction, run, outcome>>

Setup == INSTANCE SetupTransaction

ASSUME SetupConstants == Setup!Assumptions

Renaming == Permutations(Browsers)

StoresInit ==
    /\ Init /\ Setup!Init
    /\ part \in {"ca", "setup"}
    /\ loaders = (part = "setup")
    /\ part # "setup" => registered = [b \in Browsers |-> NONE]
StoresNext ==
    /\ UNCHANGED part
    /\ \/ part = "ca" /\ Next /\ UNCHANGED setupVars
       \/ part = "setup" /\ Setup!Next /\ UNCHANGED vars
StoresSpec == StoresInit /\ [][StoresNext]_<<vars, setupVars, part>>

\* The two keep to their types.
TypesOK ==
    CASE part = "ca" -> TypeOK [] part = "setup" -> Setup!TypeOK

\* Wherever a run of setup stops, a certificate it made the browsers trust is named,
\* with its trust store, by a record the next run will find.
AnchorsAreRecorded == part = "setup" => Setup!AnchorsAreRecorded

\* An installation that reports success is exactly what was asked for, a removal that
\* reports success left nothing of ours, and neither touched what belongs to others.
OutcomesAreExact ==
    [][part = "setup" =>
        Setup!InstallsExactly /\ Setup!UninstallsCompletely /\ Setup!KeepsForeign]_<<setupVars, part>>
=============================================================================
