SPECIFICATION Spec
CONSTANTS
  NULL = NULL
  a = a
  b = b
  c = c
  Plugins = {a, b, c}
  QueueSize = 5
  MaxReferences = 7
  Initial <- StartA
  Added = {b}
  Removed = {}
  Failing = {}
  ThisOdid = {}
  OtherOdid = {}
  MaxData = 2
INVARIANTS QueueDrains ReferenceHeld
CHECK_DEADLOCK FALSE
