SPECIFICATION Spec
CONSTANTS
  NULL = NULL
  t = t
  u = u
  v = v
  a = a
  b = b
  Channels = {t, u}
  Udp = {u}
  Domains = {a}
  Domain <- ByExporter
  Info <- OwnInfo
  Wrap = 3
  MaxMessages = 2
  MaxRecords = 2
  MaxPackets = 3
INVARIANTS DomainFollowsChannels RecordsNumbered NoFalseAlarm
CHECK_DEADLOCK FALSE
