\* Two memories: the watermark passes an event that is still being delivered.
SPECIFICATION FreshSpec
CONSTANTS
  a1 = a1
  a2 = a2
  a3 = a3
  a4 = a4
  w1 = w1
  Aggregates = {a1, a2}
  Kind <- TwoMemories
  Workers = {w1}
  BatchSize = 2
  MaxAttempts = 2
  Bodies = {"text"}
  SinkErrors = {"unreachable"}
  MaxEvents = 2
  MaxCrashes = 0
  Modes = {"sem"}
INVARIANTS
  FreshIsTruthful
