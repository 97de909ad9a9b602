SPECIFICATION Spec
CONSTANTS
  NULL = NULL
  a = a
  b = b
  c = c
  Plugins = {a, b, c}
  QueueSize = 5
  MaxReferences = 7
  Initial <- StartAB
  Added = {}
  Removed = {}
  Failing = {}
  ThisOdid = {}
  OtherOdid = {}
  MaxData = 3
INVARIANTS StartingMessageOwned
CHECK_DEADLOCK FALSE
