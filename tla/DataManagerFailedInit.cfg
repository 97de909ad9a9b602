SPECIFICATION Spec
CONSTANTS
  NULL = NULL
  a = a
  b = b
  c = c
  Plugins = {a, b, c}
  QueueSize = 4
  MaxReferences = 7
  Initial <- StartAB
  Added = {}
  Removed = {}
  Failing = {a}
  ThisOdid = {}
  OtherOdid = {}
  MaxData = 2
INVARIANTS NoFreedStructure
CHECK_DEADLOCK FALSE
