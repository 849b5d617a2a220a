\* Two tabs and two users over two connections, with a retried worker.
SPECIFICATION Spec
CONSTANTS
  u1 = u1
  u2 = u2
  t1 = t1
  t2 = t2
  c1 = c1
  c2 = c2
  Nobody = Nobody
  Users <- TwoUsers
  Tabs <- TwoTabs
  Connections <- TwoConnections
  Titles <- OneTitle
  Seeds <- OneSeed
  MaxRetries = 1
  MaxWrites = 2
SYMMETRY Alike
INVARIANTS
  TypeOK
  ShownIsOwn
  ListShowsOwnWrites
  SeedCopies
PROPERTY RemovedStaysRemoved
