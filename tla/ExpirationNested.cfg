SPECIFICATION Spec
CONSTANTS
  Multiple = TRUE
  MaxDepth = 3
  Writers = {1, 2}
  LeafDepth = 2
  StartDisk <- OneWriter
  StartAt <- FirstWrites
  MaxName = 3
  MaxSize = 1
  MaxTime = 2
  Limits = {1}
  StartLimit = 1
  Rescans = {}
  MaxCommands = 0
  SizeWrap = 64
INVARIANTS DiskAccounted
PROPERTIES OldestRemovedFirst
CHECK_DEADLOCK FALSE
