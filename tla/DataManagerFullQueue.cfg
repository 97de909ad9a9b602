SPECIFICATION Spec
CONSTANTS
  NULL = NULL
  a = a
  b = b
  c = c
  Plugins = {a, b, c}
  QueueSize = 4
  MaxReferences = 7
  Initial <- StartABC
  Added = {}
  Removed = {}
  Failing = {}
  ThisOdid = {}
  OtherOdid = {}
  MaxData = 5
INVARIANTS StoresInOrder NothingLeftAtClose WaitsOnlyWithoutData
CHECK_DEADLOCK FALSE
