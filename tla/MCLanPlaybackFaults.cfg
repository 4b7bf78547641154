SPECIFICATION FairSpec
CONSTANTS
  Slot = {s1}
  Generations = {g1}
  NoRequest = NoRequest
  NoIdentity = NoIdentity
  NoCapture = NoCapture
  NoTransfer = NoTransfer
  Total = 3
  Prebuffer = 2
  Window = 2
  MaxRequestRetries = 0
  MaxFinishedRetries = 1
  MaxCancelRetries = 1
  MaxRetries = 1
  MaxPresses = 1
  MaxCaptures = 0
  MaxRoutes = 1
  MaxDeviceFaults = 1
  MaxEvents = 2
  MaxHostFaults = 2
CHECK_DEADLOCK FALSE
INVARIANTS HeardWasDrained
PROPERTY PlaybacksEnd
