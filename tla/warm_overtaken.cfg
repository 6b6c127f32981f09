SPECIFICATION Spec
CONSTANTS
  scalar = scalar
  table = table
  none = none
  MaxPuts = 2
  MaxOps = 4
  MaxDrops = 1
  MaxPending = 2
  Types <- OneType
  NoType = none
  OutlastsBarrier = TRUE
  MayRefuse = FALSE
CHECK_DEADLOCK FALSE
INVARIANT InOrder
