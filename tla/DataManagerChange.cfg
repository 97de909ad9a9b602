SPECIFICATION Spec
CONSTANTS
  NULL = NULL
  a = a
  b = b
  c = c
  Plugins = {a, b, c}
  QueueSize = 4
  MaxReferences = 7
  Initial <- StartAB
  Added = {c}
  Removed = {b}
  Failing = {}
  ThisOdid = {}
  OtherOdid = {c}
  MaxData = 4
INVARIANTS ReferenceHeld NothingLeftAtClose
CHECK_DEADLOCK FALSE
