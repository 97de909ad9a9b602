SPECIFICATION Spec
CONSTANTS
  s1 = s1
  s2 = s2
  a = a
  b = b
  c = c
  opt = opt
  Sources = {s1, s2}
  OdidOf <- OneDomain
  MinId = 1
  MaxId = 3
  PrivateIds = {1, 2}
  Definitions = {a, b, c, opt}
  Options = {opt}
  NULL = NULL
  MaxMessages = 2
  MaxRecords = 3
INVARIANTS ReceiverHasTemplatesOfAll SourcesHaveDomain
CHECK_DEADLOCK FALSE
