\* Two workers compete for the events of two memories; calls fail, replies are
\* lost, and one worker process dies.
SPECIFICATION Spec
CONSTANTS
  a1 = a1
  a2 = a2
  w1 = w1
  w2 = w2
  Aggregates = {a1, a2}
  Kind <- TwoMemories
  Workers = {w1, w2}
  BatchSize = 2
  MaxAttempts = 2
  Bodies = {"text"}
  SinkErrors = {"lost_reply", "rejected"}
  MaxEvents = 3
  MaxCrashes = 1
SYMMETRY Symmetry
INVARIANTS
  TypeOK
  OneHolderPerAggregate
  DeadFreezesAggregate
  WatermarkIsNewestDone
PROPERTIES
  OutcomeIsFinal
  DeliversInOrder
