\* Two runners, all passes, a fault, and a reviewer: the runs are bounded, so the
\* system stops.
SPECIFICATION DreamSpec
CHECK_DEADLOCK FALSE
CONSTANTS
  Runners = {1, 2}
  Modes = {"decay", "dedupe", "promote", "decision_conflicts"}
  Given = {1, 2}
  Subjects = {"s", "t"}
  Cap = 1
  MaxMems = 4
  MaxMoves = 1
  MaxProposals = 2
  MaxRuns = 2
  MaxFaults = 1
INVARIANTS
  DreamTypeOK
  PromotionProposedOnce
  MergesAreDisjoint
PROPERTIES
  EndedStaysEnded
  EveryRunEnds
