SPECIFICATION FairSpec
CONSTANTS
  a = a
  b = b
  c = c
  d = d
  OM = OM
  NULL = NULL
  Plugins = {a, b}
  Initial <- AB
  Configurations <- OfTwo
  Calls <- MCCalls
  Missing = {}
  Failing = {}
  Capacity = 2
  MaxMessages = 0
  MaxReconf = 1
PROPERTIES ReconfigurationEnds
CHECK_DEADLOCK FALSE
