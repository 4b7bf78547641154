SPECIFICATION MCSpec
CONSTANTS
  Parts = {"speech"}
  Task = {t1}
  Slot = {s1, s2}
  NoTask = NoTask
  MaxPerClaim = 2
  MaxCompletions = 3
  MaxGenerations = 3
  MaxLeases = 2
  MaxBindings = 1
  Kinds = {"http"}
  Texts <- MCTexts
  Environments <- MCEnvironments
  MaxChunkChars = 4
  MaxAttempts = 3
  MaxParts = 2
  MaxDeltas = 2
  CacheIds <- MCCacheIds
  MaxCacheGenerations = 2
  MaxObjects = 8
  MaxDirs = 0
  MaxMishaps = 0
  Session = {a, b}
  Silence = Silence
  MaxGap = 1
  MinFrames = 2
  MaxFrames = 4
  MaxActive = 1
  MaxRetired = 2
  MaxRecorded = 5
  MaxSources = 2
  Readers = {r1, r2}
  Pages = 2
  Threads <- MCThreads
  GlobalStates <- MCGlobalStates
  IndexLines <- MCIndexLines
  MaxVersions = 3
  MaxOpens = 2
  MaxLogFrames = 3
  MaxIndexLines = 1
  MaxPinnedCandidates = 3
  MaxPinnedTasks = 1
  MaxRecentCandidates = 2
  MaxRecentTasks = 1
  CatalogAttempts = 2
  MaxReads = 2
  MaxUpsets = 2
  HostProcesses = {p1}
  Callers = {c1, c2}
  Deployer = c1
  MaxDeploys = 2
  Requests = {"health", "dashboard", "bind", "other"}
  MaxActiveClients = 1
  MaxControl = 1
  MaxSockets = 3
  MaxCalls = 6
  MaxBreaks = 2
INVARIANT SubmittedOnce
CHECK_DEADLOCK FALSE
