SPECIFICATION FairPipelineSpec
CONSTANTS
  Task = {t1}
  Slot = {s1}
  NoTask = NoTask
  NoClaim = NoClaim
  NoLease = NoLease
  NoSlot = NoSlot
  MaxPerClaim = 1
  MaxCompletions = 3
  MaxGenerations = 3
  MaxLeases = 2
  MaxBindings = 1
  MaxFaults = 2
  MaxBadReads = 1
  MaxRestarts = 2
  MaxPlayed = 2
CHECK_DEADLOCK FALSE
INVARIANTS RetainedIsCached AudioTellsCoverage HeardWasTold
PROPERTIES UnreadLeavesOnlyWhenHeardOrReplaced LeasesEnd
