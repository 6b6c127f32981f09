SPECIFICATION FairSpec
CONSTANTS
  value = value
  meta = meta
  table = table
  v1 = v1
  v2 = v2
  Requests <- TwoRequests
  Values <- TwoValues
  MaxChans = 1
  MaxDrops = 2
  MayRefuse = TRUE
INVARIANTS
  TypeOK
  Registry
  OwnAnswer
PROPERTIES
  DeadReplaced
  ReadReturnsAtLast
