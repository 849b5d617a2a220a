\* Two overlapping requests and two workers: every interleaving of the four.
SPECIFICATION Spec
CONSTANTS
  r1 = r1
  r2 = r2
  w1 = w1
  w2 = w2
  Requests <- TwoRequests
  Workers <- TwoWorkers
  Known <- BothContracts
  BatchSize = 2
  MaxFaults = 1
SYMMETRY AllAlike
INVARIANTS
  TypeOK
  DeliveredIsCommitted
  AllOrNothing
  ProcessedWasDelivered
  PostHasCommittedBlog
  CausalOrder
PROPERTY KeepsPromise
