SPECIFICATION Spec
CONSTANTS
  s1 = s1
  s2 = s2
  a = a
  b = b
  c = c
  opt = opt
  Sources = {s1, s2}
  OdidOf <- OneDomain
  MinId = 1
  MaxId = 3
  PrivateIds = {1, 2}
  Definitions = {a, b, c, opt}
  Options = {opt}
  NULL = NULL
  MaxMessages = 3
  MaxRecords = 3
SYMMETRY Interchangeable
INVARIANTS DecodedAsMeant CountersAgree ReceiverHasTemplates ResentTemplatesComplete
CHECK_DEADLOCK FALSE
