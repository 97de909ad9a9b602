SPECIFICATION Spec
CONSTANTS
  Multiple = FALSE
  MaxDepth = 2
  Writers = {1}
  LeafDepth = 1
  StartDisk <- TwoDirs
  StartAt <- WritesSecond
  MaxName = 4
  MaxSize = 2
  MaxTime = 3
  Limits = {1}
  StartLimit = 2
  Rescans <- RootAndChild
  MaxCommands = 2
  SizeWrap = 64
INVARIANTS WrittenDirsKept DiskAccounted
PROPERTIES OldestRemovedFirst
CHECK_DEADLOCK FALSE
