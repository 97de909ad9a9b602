SPECIFICATION FairSpec
CONSTANTS
  NULL = NULL
  a = a
  b = b
  c = c
  Plugins = {a, b, c}
  QueueSize = 9
  MaxReferences = 7
  Initial <- StartA
  Added = {b, c}
  Removed = {}
  Failing = {c}
  ThisOdid = {}
  OtherOdid = {}
  MaxData = 2
INVARIANTS StoresInOrder
PROPERTIES CloseCompletes EverythingStored
CHECK_DEADLOCK FALSE
