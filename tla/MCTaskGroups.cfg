SPECIFICATION GroupSpec
CONSTANTS
  t1 = t1
  t2 = t2
  l = l
  main = main
  Tasks <- AllTasks
  Main = main
  AwaitsOf <- MutualAwaits
INVARIANTS
  JoinedOnce
  AwaitAnswersOutcome
  
PROPERTIES
  AwaitReturns
  WaitEnds
CHECK_DEADLOCK FALSE
