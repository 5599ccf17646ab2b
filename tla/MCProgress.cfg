SPECIFICATION ProgressSpec
CHECK_DEADLOCK FALSE
CONSTANTS
  Callers = {"a", "b"}
  MaxTasks = 3
  Priority <- TaskPriority
  MaxChanges = 1
  StatusCalls <- StatusesAsked
  Linkers = {"a", "b"}
  Records = {"m", "n", "t"}
  TaskRecords = {"t"}
  Properties = {"{}", "p"}
  Pairs <- AllLinks
  MaxLinks = 3
  Composers = {"a", "b"}
  Sources = {1, 2, 3}
  MaxMemories = 7
  MaxCompositions = 2
  MaxOthers = 1
  Requests <- ComposeRequests
  CallerKeys = {"k"}
  Cited = {"a", "b"}
  TaskSources = {"t"}
  Citations <- AllCitations
  Macros <- AllMacros
  MaxCiteEdits = 3
  RankedRows = {1, 2, 3}
  FirstQuotes <- QuotedFirst
  NewQuotes <- QuotedLater
  BaseScores = {5, 8}
  AuthorityShare = 2
  Damping <- OneHalf
  RestampCap = 1
  MaxTurmoil = 1
  ReadMemories = {1, 2}
  BumpReaders = {"a", "b"}
  ReadLists <- ReadTogether
  CiteKinds = {"lineage", "playbook"}
  KindWeight <- KindWeights
  KindWindow <- KindWindows
  AccessWindow = 2
  LogOnePlus <- Logs
  MaxBumps = 2
  MaxEditsOfRows = 1
  EntityNodes = {1, 2}
  MemoryNodes = {3, 4}
  TaskNodes = {5}
  WalkOrigin = 1
  LinkChoices <- WalkedLinks
  Stores = {"postgres", "neo4j"}
  WalkRequests <- WalksAsked
  MaxHops = 3
  MaxWalkChanges = 5
INVARIANTS
  TasksInv
  PendingWorkIsOffered
  RelationsAreTold
  CompositionsHappenOnce
  CountersAreSound
  WalksFindWhatMayBeShown
PROPERTIES
  TaskMovesAreLegal
  AccessesAreCounted
  QuietBumpScoresTheRow
  ScoresSettle
  EveryCallReturns
