SPECIFICATION Spec
CONSTANTS
  NULL = NULL
  t = t
  u = u
  v = v
  a = a
  b = b
  Channels = {t, v}
  Udp = {}
  Domains = {a, b}
  Domain <- ByExporter
  Info <- SharedInfo
  Wrap = 3
  MaxMessages = 2
  MaxRecords = 2
  MaxPackets = 3
INVARIANTS RecordsNumbered
CHECK_DEADLOCK FALSE
