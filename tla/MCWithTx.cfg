SPECIFICATION Spec
CONSTANTS
  FramesMax = 4
  StackMax = 8
  MaxTxns = 1
  MaxHandlers = 0
  MaxNested = 3
  MaxArgs = 1
INVARIANT
  FailedCallbackRollsBack
CHECK_DEADLOCK FALSE
