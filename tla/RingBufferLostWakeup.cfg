SPECIFICATION FairSpec
CONSTANTS
  QueueSize = 3
  MaxReferences = 7
  Readers = {r1, r2}
  ByOffset = {}
  Writers = {w1}
  MaxWritten = 5
PROPERTIES WriteCompletes
CHECK_DEADLOCK FALSE
