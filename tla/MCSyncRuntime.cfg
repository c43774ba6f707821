SPECIFICATION SyncSpec
CONSTANTS
  MaxThreads = 4
  MaxMutexes = 3
INVARIANTS
  WaitGraphAcyclic
  OwnershipAgrees
  FinishedThreadsLeaveNothing
