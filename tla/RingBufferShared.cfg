SPECIFICATION Spec
CONSTANTS
  QueueSize = 3
  MaxReferences = 7
  Readers = {r1, r2}
  ByOffset = {}
  Writers = {w1, w2}
  MaxWritten = 5
INVARIANTS FreedAfterLastReader ReferenceCounted NothingLeftBehind
PROPERTIES DrainedWhenWaitEmptyReturns ImplementsBroadcastQueue
CHECK_DEADLOCK FALSE
