SPECIFICATION Spec
CONSTANTS
  FramesMax = 4
  StackMax = 8
  MaxTxns = 1
  MaxHandlers = 1
  MaxNested = 4
  MaxArgs = 1
INVARIANTS
  WellNested
  CallersIntact
  NothingLeftActive
  NoStrayDbTransaction
PROPERTIES
  FramesTakeTheirOwn
  FailuresEnd
CHECK_DEADLOCK FALSE
