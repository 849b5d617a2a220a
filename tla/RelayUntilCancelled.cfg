\* One node, no operator: the run of the relay against the comment on its class.
SPECIFICATION Spec
CONSTANTS
  n1 = n1
  n2 = n2
  Nodes <- TwoNodes
  MaxRuns = 1
  MaxId = 2
  MaxStarts = 2
  MaxOps = 0
  MaxFaults = 1
PROPERTY RunsUntilCancelled
CHECK_DEADLOCK FALSE
