\* A caller may stop calling, and the bounds end every behaviour.
\* One caller at a time, on written and imported memories.
SPECIFICATION StoreSpec
CHECK_DEADLOCK FALSE
CONSTANTS
  c1 = c1
  c2 = c2
  MaxMemories = 3
  MaxVersion = 2
  Clients = {c1}
  Tools <- AllButMove
  Patches <- EveryStatus
  CopyLineage = {TRUE, FALSE}
  Imported = {1}
  MaxDepth = 2
  MaxCount = 3
PROPERTIES
  TransitionsAreLegal
  NoOrphanedMemory
