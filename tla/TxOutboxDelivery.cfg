\* One worker that is run again and again, with a contract it cannot read:
\* the two unreadable rows leave one place of a batch to the readable ones.
SPECIFICATION FairSpec
CONSTANTS
  r1 = r1
  r2 = r2
  w1 = w1
  w2 = w2
  Requests <- TwoRequests
  Workers <- OneWorker
  Known <- BlogContractOnly
  BatchSize = 3
  MaxFaults = 2
INVARIANT DuplicatesNeedFaults
PROPERTY Drained
