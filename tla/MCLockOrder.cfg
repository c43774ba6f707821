SPECIFICATION LockOrderSpec
CONSTANTS
  MaxThreads = 3
  MaxMutexes = 3
  MaxStatements = 3
  Statements <- MCStatements
INVARIANTS
  JudgedAsInlined
  NoCircularWait
  AlarmsAreStale
PROPERTY
  AcceptedProgramsEnd
CHECK_DEADLOCK FALSE
