\* Three overlapping calls: retries race, fail late, resume and reload.
SPECIFICATION FairSpec
CONSTANTS
  c1 = c1
  c2 = c2
  c3 = c3
  Calls <- ThreeCalls
INVARIANTS
  TypeOK
  NeverStuck
  NoStaleListener
PROPERTIES
  LiveCircuitIsKept
  BackWithoutClicking
