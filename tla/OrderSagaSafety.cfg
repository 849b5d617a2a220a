\* One page, two orders: completion, timeout and start overtake each other.
SPECIFICATION FairSpec
CONSTANTS
  o1 = o1
  o2 = o2
  p1 = p1
  None = None
  Orders <- TwoOrders
  Pages <- OnePage
  MaxSends = 1
  MaxFaults = 1
INVARIANTS
  TypeOK
  StoredOrderHasTimeout
  AcceptedOrderIsNotLost
  NoRevival
PROPERTY EveryOrderEnds
