SPECIFICATION MCSpec
CONSTANTS
  Parts = {"ledger", "speech", "cache", "capture", "database", "readers", "socket", "deploy"}
  Task = {t1}
  Slot = {s1, s2}
  NoTask = NoTask
  MaxPerClaim = 2
  MaxCompletions = 3
  MaxGenerations = 3
  MaxLeases = 2
  MaxBindings = 1
  Kinds = {"verify", "asr", "http", "ws"}
  Texts <- MCTexts
  Environments <- MCEnvironments
  MaxChunkChars = 4
  MaxAttempts = 3
  MaxParts = 2
  MaxDeltas = 2
  CacheIds <- MCCacheIds
  MaxCacheGenerations = 2
  MaxObjects = 8
  MaxDirs = 3
  MaxMishaps = 2
  Session = {a, b}
  Silence = Silence
  MaxGap = 1
  MinFrames = 2
  MaxFrames = 4
  MaxActive = 1
  MaxRetired = 2
  MaxRecorded = 5
  MaxSources = 2
  Readers = {r1, r2}
  Pages = 2
  Threads <- MCThreads
  GlobalStates <- MCGlobalStates
  IndexLines <- MCIndexLines
  MaxVersions = 3
  MaxOpens = 2
  MaxLogFrames = 3
  MaxIndexLines = 1
  MaxPinnedCandidates = 3
  MaxPinnedTasks = 2
  MaxRecentCandidates = 3
  MaxRecentTasks = 2
  CatalogAttempts = 2
  MaxReads = 2
  MaxUpsets = 2
  HostProcesses = {p1}
  Callers = {c1, c2}
  Deployer = c1
  MaxDeploys = 2
  Requests = {"health", "dashboard", "bind", "other"}
  MaxActiveClients = 1
  MaxControl = 1
  MaxSockets = 3
  MaxCalls = 6
  MaxBreaks = 2
INVARIANTS IndexesNeverFire NoCompletionLost WorkInHandConsistent
INVARIANTS SpeaksTheText ReferencedIsWhole TimeAxisKept CompletedWasEnded
INVARIANTS CatalogIsOneMoment ListIsRight ToldIsDone DeployIsWhole
PROPERTIES HeardIsFinal ImplementsMailbox
CHECK_DEADLOCK FALSE
