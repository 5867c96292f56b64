SPECIFICATION FairSpec
CONSTANTS
  n1 = n1  n2 = n2  n3 = n3  n4 = n4
  c1 = c1  c2 = c2
  Null = Null
  NodeIds = {n1, n2, n3}
  Clients = {c1, c2}
  MaxTime = 1
INVARIANTS
  TypeOK
  OneHead
  NoLostUpdate
  ConflictIsReal
PROPERTIES
  EditsAreCompareAndSwap
  PastNodesAreFixed
  EveryRequestIsAnswered
