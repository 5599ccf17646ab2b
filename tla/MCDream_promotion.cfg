\* A reviewer accepts what the promote pass proposes.
SPECIFICATION DreamSpec
CHECK_DEADLOCK FALSE
CONSTANTS
  Runners = {1}
  Modes = {"promote"}
  Given = {1, 2}
  Subjects = {"s", "t"}
  Cap = 1
  MaxMems = 3
  MaxMoves = 0
  MaxProposals = 1
  MaxRuns = 1
  MaxFaults = 0
INVARIANTS
  PayloadsAreReadable
