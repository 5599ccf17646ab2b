-------------------------- MODULE OrderedDelivery --------------------------
(***************************************************************************)
(* What the transactional outbox promises about one sink and every         *)
(* aggregate: the sink runs behind the canonical store but never departs   *)
(* from its history.  Each aggregate has a number of committed versions;   *)
(* the sink has been brought up to one of them, and moves to the next one  *)
(* only, never back and never over a version.                              *)
(***************************************************************************)
EXTENDS Naturals

CONSTANT Aggregates

VARIABLES
    latest,     \* latest[a]: last version of a committed in Postgres
    shown       \* shown[a]: version of a the sink was last brought up to

vars == <<latest, shown>>

Init == /\ latest = [a \in Aggregates |-> 0]
        /\ shown = [a \in Aggregates |-> 0]

\* A canonical transaction commits the next version of a.
Commit(a) == /\ latest' = [latest EXCEPT ![a] = @ + 1]
             /\ UNCHANGED shown

\* The sink is brought from the version it shows to the next one.
Deliver(a) == /\ shown[a] < latest[a]
              /\ shown' = [shown EXCEPT ![a] = @ + 1]
              /\ UNCHANGED latest

Next == \E a \in Aggregates : Commit(a) \/ Deliver(a)

Spec == Init /\ [][Next]_vars
============================================================================
