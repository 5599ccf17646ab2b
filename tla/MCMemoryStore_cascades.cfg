\* A caller may stop calling, and the bounds end every behaviour.
\* A cascade from a superseded memory.
SPECIFICATION StoreSpec
CHECK_DEADLOCK FALSE
CONSTANTS
  c1 = c1
  c2 = c2
  MaxMemories = 3
  MaxVersion = 3
  Clients = {c1}
  Tools = {"write", "supersede", "cascade"}
  Patches <- EveryStatus
  CopyLineage = {FALSE}
  Imported = {}
  MaxDepth = 2
  MaxCount = 3
INVARIANTS
  NoDatabaseError
