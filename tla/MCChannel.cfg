SPECIFICATION Spec
CONSTANTS
  Senders = {s1, s2}
  Receivers = {r1, r2}
  Capacities = {0, 1, 2}
  MaxSends = 2
  MaxRecvs = 2
INVARIANTS
  Fifo
  SendAnswersTruth
  CloseDrains
PROPERTIES
  NoLostWakeup
  CloseReleasesAll
CHECK_DEADLOCK FALSE
