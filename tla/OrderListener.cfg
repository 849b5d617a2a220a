\* Two workers and two orders through interrupts, shutdowns, and faults.
SPECIFICATION FairSpec
CONSTANTS
  w1 = w1
  w2 = w2
  Workers <- TwoWorkers
  MaxOrders = 2
  MaxStarts = 2
  MaxOps = 1
  MaxFaults = 1
\* Once the starts are used up, all workers may be down for good.
CHECK_DEADLOCK FALSE
INVARIANTS
  TypeOK
  TwiceNeedsFault
PROPERTIES
  KeepsPromise
  QueueDrains
  ShutdownCompletes
