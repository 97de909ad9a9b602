SPECIFICATION Spec
CONSTANTS
  Multiple = FALSE
  MaxDepth = 2
  Writers = {1}
  LeafDepth = 1
  StartDisk <- TwoDirs
  StartAt <- WritesSecond
  MaxName = 2
  MaxSize = 2
  MaxTime = 2
  Limits = {}
  StartLimit = 2
  Rescans <- RootAndChild
  MaxCommands = 2
  SizeWrap = 64
INVARIANTS ActiveWhileWritten
CHECK_DEADLOCK FALSE
