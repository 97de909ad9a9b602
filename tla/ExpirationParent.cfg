SPECIFICATION Spec
CONSTANTS
  Multiple = FALSE
  MaxDepth = 3
  Writers = {1}
  LeafDepth = 2
  StartDisk <- OneDay
  StartAt <- WritesFirstHour
  MaxName = 3
  MaxSize = 1
  MaxTime = 2
  Limits = {0}
  StartLimit = 1
  Rescans = {}
  MaxCommands = 0
  SizeWrap = 64
INVARIANTS ParentsAlive
CHECK_DEADLOCK FALSE
