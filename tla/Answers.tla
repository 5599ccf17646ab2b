------------------------------ MODULE Answers -------------------------------
(***************************************************************************)
(* The services that tell in their answer whether it was cut, side by      *)
(* side: they read the same store, and share no state of their own.        *)
(***************************************************************************)
EXTENDS Search, Reports, Related

AnswersSpec == SearchSpec /\ ReportsSpec /\ RelatedSpec

(* An answer that does not say it was cut is complete: of a search, of a      *)
(* report and of memory_related; and a search finds nothing only where there  *)
(* is nothing (search/api.py, reports, graph.py).                             *)
AnswersAreComplete ==
    /\ UntruncatedIsComplete /\ EmptyMeansNothing
    /\ UntruncatedReportsAreComplete /\ NeighboursAreNearest
=============================================================================
