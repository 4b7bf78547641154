SPECIFICATION FairSpec
CONSTANTS
  Bundle = {x, bad}
  Malformed = {bad}
  Blocks = 2
  MaxGeneration = 3
  MaxLeases = 1
  Erased = Erased
  Torn = Torn
  None = None
  Split = Split
  Blank = Blank
  Unscanned = Unscanned
  MaxMishaps = 3
CHECK_DEADLOCK FALSE
INVARIANTS ToldIsDurable LeasesReadable SelectionHonest
PROPERTIES StoreNeverWedges
