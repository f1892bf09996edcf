-------------------------- MODULE AtomicHeaderState --------------------------
(***************************************************************************)
(* What HeaderPublication promises to those who read the header state: it  *)
(* is there as a whole or not at all, a state that replaces another has a  *)
(* newer generation, and work that began under the name-tree root of one   *)
(* state is delivered only while the state of that moment has that root.   *)
(* No process, lock, record, epoch or fault appears here.                  *)
(***************************************************************************)
EXTENDS Naturals

CONSTANTS Chain, RootOf, NoRoot, Worker, None

VARIABLES
    visible,    \* the header state a reader sees, or None
    last,       \* the newest generation that was ever seen
    work,       \* the root a piece of work began under
    delivered   \* whether its answer went out

vars == <<visible, last, work, delivered>>

Init ==
    /\ visible = None /\ last = 0
    /\ work = [w \in Worker |-> NoRoot] /\ delivered = [w \in Worker |-> FALSE]

Withdraw == visible' = None /\ UNCHANGED last

\* A state that was withdrawn and not replaced may return as it was numbered.
Restore ==
    /\ visible = None /\ UNCHANGED last
    /\ \E c \in Chain : visible' = [gen |-> last, best |-> c]

Publish ==
    /\ visible = None /\ last' > last
    /\ \E c \in Chain : visible' = [gen |-> last', best |-> c]

Begin(w) ==
    /\ visible # None /\ RootOf[visible.best] # NoRoot
    /\ work' = [work EXCEPT ![w] = RootOf[visible.best]]
    /\ UNCHANGED <<visible, last, delivered>>

Deliver(w) ==
    /\ visible # None /\ work[w] # NoRoot /\ work[w] = RootOf[visible.best]
    /\ delivered' = [delivered EXCEPT ![w] = TRUE]
    /\ UNCHANGED <<visible, last, work>>

\* Work is given up, that of a whole process when it dies.
Drop(gone) ==
    /\ work' = [w \in Worker |-> IF w \in gone THEN NoRoot ELSE work[w]]
    /\ delivered' = [w \in Worker |-> w \notin gone /\ delivered[w]]

Next ==
    \/ (Restore \/ Publish) /\ UNCHANGED <<work, delivered>>
    \/ \E gone \in SUBSET Worker :
          Drop(gone) /\ (Withdraw \/ UNCHANGED <<visible, last>>)
    \/ \E w \in Worker : Begin(w) \/ Deliver(w)

Spec == Init /\ [][Next]_vars
=============================================================================
