SPECIFICATION Spec
CONSTANTS
  a = a
  b = b
  c = c
  d = d
  OM = OM
  NULL = NULL
  Plugins = {a, b, c}
  Initial <- AB
  Configurations <- Replaced
  Calls <- MCCalls
  Missing = {}
  Failing = {c}
  Capacity = 2
  MaxMessages = 1
  MaxReconf = 1
INVARIANTS FlushedAtEnd
CHECK_DEADLOCK FALSE
