SPECIFICATION MCSpec
CONSTANTS
  Task = {t1}
  Slot = {s1}
  NoTask = NoTask
  NoClaim = NoClaim
  NoLease = NoLease
  NoSlot = NoSlot
  MaxPerClaim = 1
  MaxCompletions = 2
  MaxGenerations = 5
  MaxLeases = 2
  MaxBindings = 1
  MaxFaults = 1
  MaxBadReads = 0
  MaxRestarts = 1
  MaxPlayed = 0
  Hosts = {h1, h2}
  Tasks = {task}
  Claims <- MCClaims
  MaxClaimed = 2
  Platforms = {"macos", "linux", "windows"}
  MaxRuns = 2
  MaxDeaths = 2
  Session = {a, b}
  Silence = Silence
  MaxGap = 1
  MinFrames = 2
  MaxFrames = 3
  MaxActive = 1
  MaxRetired = 2
  MaxRecorded = 3
  MaxSources = 2
INVARIANTS RunsKeepApart
PROPERTIES CompletionsGetSummarized ChildrenEnd CapturesClose
CHECK_DEADLOCK FALSE
