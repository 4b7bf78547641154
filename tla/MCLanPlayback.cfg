SPECIFICATION SparingSpec
CONSTANTS
  Slot = {s1, s2}
  Generations = {g1, g2}
  NoRequest = NoRequest
  NoIdentity = NoIdentity
  NoCapture = NoCapture
  NoTransfer = NoTransfer
  Total = 1
  Prebuffer = 1
  Window = 1
  MaxRequestRetries = 0
  MaxFinishedRetries = 1
  MaxCancelRetries = 1
  MaxRetries = 1
  MaxPresses = 2
  MaxCaptures = 1
  MaxRoutes = 3
  MaxDeviceFaults = 1
  MaxEvents = 1
  MaxHostFaults = 0
SYMMETRY MCSymmetry
CHECK_DEADLOCK FALSE
INVARIANTS EndsAgree RecordingSilencesPlayback FloorBehindKeyboard
