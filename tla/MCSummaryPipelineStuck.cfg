SPECIFICATION FairPipelineSpec
CONSTANTS
  Task = {t1}
  Slot = {s1}
  NoTask = NoTask
  NoClaim = NoClaim
  NoLease = NoLease
  NoSlot = NoSlot
  MaxPerClaim = 1
  MaxCompletions = 2
  MaxGenerations = 3
  MaxLeases = 1
  MaxBindings = 1
  MaxFaults = 0
  MaxBadReads = 0
  MaxRestarts = 0
  MaxPlayed = 1
CHECK_DEADLOCK FALSE
PROPERTIES CompletionsGetSummarized
