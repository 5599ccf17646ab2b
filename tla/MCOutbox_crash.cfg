\* A worker dies with a lease, and another one goes on.
SPECIFICATION FairSpec
CONSTANTS
  a1 = a1
  a2 = a2
  w1 = w1
  w2 = w2
  Aggregates = {a1}
  Kind <- OneMemory
  Workers = {w1, w2}
  BatchSize = 1
  MaxAttempts = 2
  Bodies = {"text"}
  SinkErrors = {}
  MaxEvents = 1
  MaxCrashes = 1
PROPERTIES
  ExpiredLeaseIsReclaimed
