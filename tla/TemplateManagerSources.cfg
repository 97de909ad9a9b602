SPECIFICATION Spec
CONSTANTS
  s1 = s1
  s2 = s2
  Sources = {s1, s2}
  OdidOf <- OneManager
  Ids = {1}
  Versions = {1, 2}
  Withdrawals = {1}
  InitialLength = 1
  MaxSessions = 3
  MaxPackets = 4
INVARIANTS MessageTemplateAlive ReferencesCounted DecodedAsDescribed SourceTemplatesKept NothingLeaks
CHECK_DEADLOCK FALSE
