\* The worker alone, with one retry, against what HowItWasBuilt.md says of it.
SPECIFICATION Spec
CONSTANTS
  u1 = u1
  u2 = u2
  t1 = t1
  t2 = t2
  c1 = c1
  c2 = c2
  Nobody = Nobody
  Users <- TwoUsers
  Tabs <- OneTab
  Connections <- TwoConnections
  Titles <- OneTitle
  Seeds <- TwoSeeds
  MaxRetries = 1
  MaxWrites = 0
INVARIANT SeededOnce
