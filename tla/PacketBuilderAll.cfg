SPECIFICATION Spec
CONSTANTS
  NULL = NULL
  HEADER_SIZE = 1
  IPFIX_HEADER_LENGTH = 4
  PACKET_MIN_SIZE = 8
  TMPLT_SET_MAX_LEN = 5
  MaxLength = 11
  Sizes = {7, 10}
  Bodies = {1, 5, 6}
  MaxParts = 7
INVARIANTS PacketAsBuilt NothingLeftOut PacketsLimited
