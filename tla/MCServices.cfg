SPECIFICATION ServicesSpec
CHECK_DEADLOCK FALSE
CONSTANTS
  Clerks = {"a", "b"}
  Envs = {"e", "f"}
  Names = {"x", "y"}
  Kinds = {"channel", "person"}
  MaxEntities = 2
  MaxMessages = 2
  MaxCalls = 5
  Pieces = {1, 2}
  Neighbours = {1, 2, 3, 4, 5}
  Origin = 2
  Elders = {1}
  Salience <- WireSalience
  Similarity <- WireSimilarity
  SimThreshold = 2
  PullLimit = 4
  PieceTopK = 2
  TotalCap = 3
  MaxMeddling = 1
  Environments = {"p", "q", "r"}
  Started = {"p", "q"}
  MaxRows = 4
  MaxVer = 3
  MaxOps = 3
  MaxAdmin = 2
  AdminKinds = {"clone", "merge", "delete", "snapshot", "restore", "import", "migrate"}
  Entries = {1, 2}
  Natives = {11, 12}
  EntityNames = {"x", "y", "z"}
  OldNames <- CopiedNames
  CopyModes = {"by_canonical_key", "keep_both", "fail", "skip", "overwrite", "merge"}
  MaxTurns = 1
  Seekers = {"a"}
  Corpus = {1, 2, 3, 4}
  Unborn = {3, 4}
  CorpusEnv <- SearchEnvs
  CorpusKind <- SearchKinds
  Pinned = {2}
  Salient = {1}
  LexOrder <- ByText
  SemOrder <- ByVector
  GraphOrder <- ByGraph
  Queries <- SearchQueries
  SearchMinPerLeg = 2
  MaxEdits = 2
  Digesters = {"a", "b"}
  JournalEntries = {1, 2}
  MaxDigests = 2
  DigestLimit = 1
  Packers = {"a"}
  Notes = {1, 2, 3, 4, 5, 6, 7}
  Future = {3, 7}
  NoteKind <- NoteKinds
  TitleWords <- NoteTitles
  BodyWords <- NoteBodies
  BriefWords = 9
  ReadyTasks <- PackTasks
  TriggerOrder <- PackTriggers
  MacroMatches = {}
  PlaybookOrder <- PackPlaybooks
  Budgets = {200, 301}
  TopK <- PackTopK
  MaxRewrites = 1
  Scanners = {"a"}
  Items = {1, 2, 3}
  TaskLinks = {2}
  Filters <- ListFilters
  PageSizes = {1}
  MaxChurn = 5
  Readers = {"a"}
  Points = {1, 2, 3, 4}
  Arcs <- TreeArcs
  Depths = {0, 1, 2, 3}
  Limits = {3, 9}
  MaxNewArcs = 1
  Kin = {1, 2, 3, 4}
  Nearness <- KinNearness
  Askers = {"a"}
  Asks <- KinAsks
  MaxStirs = 3
INVARIANTS
  EntitiesAreSound
  NamesSurviveCopying
  SearchFollowsReplacements
  AnswersAreComplete
  NoEntryFallsBehind
  PackIsSound
  ListedOnce
PROPERTIES
  PiecesAreWiredWell
  EnvCopiesAreFaithful
