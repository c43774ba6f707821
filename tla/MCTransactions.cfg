SPECIFICATION Spec
CONSTANTS
  MaxThreads = 2
  MaxMutexes = 2
  x = x
  a = a
  Cells = {x}
  Arrays = {a}
  Values = {0, 1}
  GuardOf <- GuardCellAndArray
  MaxLen = 1
  Programs <- SoundPrograms
INVARIANTS
  LocksFollowTransactions
  NeverBlocked
PROPERTIES
  ImplementsNestedTransactions
CHECK_DEADLOCK FALSE
