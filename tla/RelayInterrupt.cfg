\* Two nodes, started one after the other, and one Interrupt.
SPECIFICATION Spec
CONSTANTS
  n1 = n1
  n2 = n2
  Nodes <- TwoNodes
  MaxRuns = 1
  MaxId = 2
  MaxStarts = 2
  MaxOps = 1
  MaxFaults = 0
INVARIANT InterruptStops
CHECK_DEADLOCK FALSE
