SPECIFICATION Spec
CONSTANTS
  a = a
  b = b
  c1 = c1
  c2 = c2
  Actors <- TwoActors
  Clients = {c1, c2}
  QueriesOf <- LayeredQueries
  MaxPosts <- LayeredPosts
INVARIANTS
  MailboxOrder
  RepliesMatch
  PendingIsExact
PROPERTIES
  MailboxDrains
  QueriesReturn
CHECK_DEADLOCK FALSE
