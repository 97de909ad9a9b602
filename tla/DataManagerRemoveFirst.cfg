SPECIFICATION Spec
CONSTANTS
  NULL = NULL
  a = a
  b = b
  c = c
  Plugins = {a, b, c}
  QueueSize = 5
  MaxReferences = 7
  Initial <- StartAB
  Added = {}
  Removed = {a}
  Failing = {}
  ThisOdid = {}
  OtherOdid = {}
  MaxData = 2
INVARIANTS RunningPluginsListed
CHECK_DEADLOCK FALSE
