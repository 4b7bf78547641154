SPECIFICATION MCSpec
CONSTANTS
  t1 = t1
  t2 = t2
  NoTurn = NoTurn
  Script <- MCScript
  MaxTools = 1
  MaxRaw = 2
  MaxMessages = 1
  MaxLine = 1
  Budget = 3
  AnchorLen = 1
  MaxChanges = 1
  MaxInterrupts = 1
  MaxDepth = 5
  MaxParts = 2
  NoLine = NoLine
  NoText = NoText
  MaxText = 12
  MarkerLen = 3
  MaxRole = 20
INVARIANTS StreamedLikeSerde TextsKept PacksAreWhole NothingSkipped
PROPERTY AnswersGetCommitted
CHECK_DEADLOCK FALSE
