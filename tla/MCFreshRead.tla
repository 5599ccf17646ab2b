---------------------------- MODULE MCFreshRead ----------------------------
(* Instances of FreshRead for TLC. *)
EXTENDS FreshRead, TLC

CONSTANTS a1, a2, a3, a4, w1

TwoMemories == (a1 :> "memory") @@ (a2 :> "memory")
EveryKind == (a1 :> "memory") @@ (a2 :> "entity") @@ (a3 :> "relation") @@ (a4 :> "task")
============================================================================
