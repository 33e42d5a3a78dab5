CONSTANTS
  Producers = {p1, p2}
  Consumers = {c1, c2}
  Items = {a, b}
  BufLen = 2
  None = None
SPECIFICATION FairSpec
INVARIANTS
  TypeOK
  MutualExclusion
  PermitsConserved
  OnlyEmptyPoolRests
PROPERTIES
  ImplementsBoundedQueue
  Progress
