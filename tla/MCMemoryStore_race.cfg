\* A caller may stop calling, and the bounds end every behaviour.
\* Two callers use every tool on two memories.
SPECIFICATION StoreSpec
CHECK_DEADLOCK FALSE
CONSTANTS
  c1 = c1
  c2 = c2
  MaxMemories = 2
  MaxVersion = 3
  Clients = {c1, c2}
  Tools <- EveryTool
  Patches = {"active", "archived"}
  CopyLineage = {FALSE}
  Imported = {}
  MaxDepth = 2
  MaxCount = 3
SYMMETRY ClientSymmetry
INVARIANTS
  StoreTypeOK
  HistoryIsComplete
PROPERTIES
  VersionCountsChanges
