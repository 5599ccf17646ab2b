\* One worker serves all four kinds of aggregate and both sinks, with every
\* kind of snapshot, beside one read of any mode.
SPECIFICATION FairFreshSpec
CONSTANTS
  a1 = a1
  a2 = a2
  a3 = a3
  a4 = a4
  w1 = w1
  Aggregates = {a1, a2, a3, a4}
  Kind <- EveryKind
  Workers = {w1}
  BatchSize = 2
  MaxAttempts = 2
  Bodies = {"text", "empty", "foreign"}
  SinkErrors = {"unreachable", "lost_reply"}
  MaxEvents = 2
  MaxCrashes = 0
  Modes = {"hybrid", "graph"}
INVARIANTS
  Converged
  FreshMissesOnlyOvertaken
PROPERTIES
  EveryDeliverySettles
  DegradesOnlyWhenBehind
