\* What the page tells its user, against what has happened to the order.
SPECIFICATION Spec
CONSTANTS
  o1 = o1
  o2 = o2
  p1 = p1
  None = None
  Orders <- TwoOrders
  Pages <- OnePage
  MaxSends = 1
  MaxFaults = 2
INVARIANT SaysCompletedWhenCompleted
