------------------------------ MODULE MCOutbox ------------------------------
(* Instances of Outbox for TLC. *)
EXTENDS Outbox, TLC

CONSTANTS a1, a2, w1, w2

TwoMemories == (a1 :> "memory") @@ (a2 :> "memory")
OneMemory == a1 :> "memory"
\* Sound where Kind gives every aggregate the same kind.
Symmetry == Permutations(Workers) \cup Permutations(Aggregates)
=============================================================================
