SPECIFICATION FairSpec
CONSTANTS
  a = a
  b = b
  c = c
  d = d
  OM = OM
  NULL = NULL
  Plugins = {a, b, c, d}
  Initial <- AB
  Configurations <- OfFour
  Calls <- MCCalls
  Missing = {d}
  Failing = {c}
  Capacity = 2
  MaxMessages = 2
  MaxReconf = 1
PROPERTIES TerminationEnds
CHECK_DEADLOCK FALSE
