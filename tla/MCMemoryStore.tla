--------------------------- MODULE MCMemoryStore ---------------------------
(* Instances of MemoryStore for TLC. *)
EXTENDS MemoryStore, TLC

CONSTANTS c1, c2

EveryStatus == Statuses
EveryTool == AllTools
AllButMove == AllTools \ {"move"}
ClientSymmetry == Permutations(Clients)
============================================================================
