SPECIFICATION FairSpec
CONSTANTS
  Multiple = FALSE
  MaxDepth = 2
  Writers = {1}
  LeafDepth = 1
  StartDisk <- TwoDirs
  StartAt <- WritesSecond
  MaxName = 3
  MaxSize = 2
  MaxTime = 2
  Limits = {1, 3}
  StartLimit = 2
  Rescans <- RootAndChild
  MaxCommands = 0
  SizeWrap = 64
PROPERTIES RequestsHandled
CHECK_DEADLOCK FALSE
