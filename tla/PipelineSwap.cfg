SPECIFICATION Spec
CONSTANTS
  a = a
  b = b
  c = c
  d = d
  OM = OM
  NULL = NULL
  Plugins = {a, b, c}
  Initial <- ABC
  Configurations <- Swapped
  Calls <- MCCalls
  Missing = {}
  Failing = {}
  Capacity = 2
  MaxMessages = 0
  MaxReconf = 1
INVARIANTS QueuesAlive
CHECK_DEADLOCK FALSE
