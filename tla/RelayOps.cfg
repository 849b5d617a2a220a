\* Two nodes through starts, kills, shutdowns, interrupts and a late check-in.
SPECIFICATION FairSpec
CONSTANTS
  n1 = n1
  n2 = n2
  Nodes <- TwoNodes
  MaxRuns = 2
  MaxId = 2
  MaxStarts = 3
  MaxOps = 3
  MaxFaults = 1
INVARIANTS
  TypeOK
  OneRelayPerCluster
  OrderIdsOncePerProcess
PROPERTIES
  WaitingRunStarts
  ShutdownCompletes
\* Once the starts are used up, all processes may be down for good.
CHECK_DEADLOCK FALSE
