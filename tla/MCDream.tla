------------------------------ MODULE MCDream ------------------------------
(* Instances of Dream for TLC. *)
EXTENDS Dream, TLC
============================================================================
