SPECIFICATION EntSpec
CHECK_DEADLOCK FALSE
CONSTANTS
  Clerks = {"a", "b"}
  Envs = {"e", "f"}
  Names = {"x", "y"}
  Kinds = {"channel", "person"}
  MaxEntities = 2
  MaxMessages = 3
  MaxCalls = 6
INVARIANTS
  MergesKeepMessages
