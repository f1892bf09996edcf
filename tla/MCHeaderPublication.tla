------------------------ MODULE MCHeaderPublication ------------------------
(* Instances of HeaderPublication: up to two processes and three threads. *)
EXTENDS HeaderPublication, TLC

CONSTANTS a, b, syncer, other, browser, genesis, chainX, chainY, rootX, rootY, e1

\* chainY is a reorganisation or the next tree interval.  A sync that stays on
\* its chain and renews the evidence keeps the authority.
Roots == genesis :> NoRoot @@ chainX :> rootX @@ chainY :> rootY
\* The two chains may change places if their roots do.
Renaming ==
    {chainX :> x @@ chainY :> y @@ Roots[x] :> rootX @@ Roots[y] :> rootY :
         <<x, y>> \in {<<chainX, chainY>>, <<chainY, chainX>>}}
OneRoot == genesis :> NoRoot @@ chainX :> rootX

TwoProcesses == [t \in Thread |-> IF t = other THEN b ELSE a]

Assign(s, o, r) == [t \in Thread |-> CASE t = syncer -> s [] t = other -> o [] OTHER -> r]
EpochDuties == Assign({"sync", "clear", "status"}, {"mutate", "addPeer"}, {"request"})
LockDuties  == Assign({"sync"}, {"mutate"}, {"status", "addPeer", "request"})
=============================================================================
