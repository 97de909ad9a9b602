SPECIFICATION FairSpec
CONSTANTS
  QueueSize = 3
  MaxReferences = 7
  Readers = {r1}
  ByOffset = {r1}
  Writers = {w1}
  MaxWritten = 5
PROPERTIES WriteCompletes MessagesConsumed WaitEmptyReturns
CHECK_DEADLOCK FALSE
