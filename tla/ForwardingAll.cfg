SPECIFICATION FairSpec
CONSTANTS
  NULL = NULL
  d1 = d1
  d2 = d2
  u = u
  a = a
  Configured <- TwoAndUdp
  Udp = {u}
  Modes = {"all", "roundrobin"}
  Templates = {a}
  BufferSize = 1
  MaxMessages = 2
  MaxConnections = 3
INVARIANTS OneGroup WholePackets TemplatesBeforeData SequenceNumbersCount DroppedOnlyWhenRefused
PROPERTY ReadyNoticed
CHECK_DEADLOCK FALSE
