SPECIFICATION Spec
CONSTANTS
  NULL = NULL
  a = a
  b = b
  c = c
  Plugins = {a, b, c}
  QueueSize = 5
  MaxReferences = 7
  Initial <- StartAB
  Added = {c}
  Removed = {b}
  Failing = {}
  ThisOdid = {}
  OtherOdid = {}
  MaxData = 1
INVARIANTS ReferenceHeld
CHECK_DEADLOCK FALSE
