SPECIFICATION FairSpec
CONSTANTS
  s1 = s1
  s2 = s2
  r1 = r1
  r2 = r2
  r3 = r3
  Task = {t1, t2}
  Slot = {s1, s2}
  NoTask = NoTask
  Request = {r1, r2, r3}
  SlotOf <- MCSlotOf
  MaxPending = 2
  MaxRunning = 2
  MaxBindings = 1
  MaxRestarts = 2
CHECK_DEADLOCK FALSE
INVARIANTS ChildrenAgree FifoPerTask SubmittedOncePerRecovery
PROPERTIES EveryPromptSettles
