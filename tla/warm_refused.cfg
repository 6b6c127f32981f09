SPECIFICATION Spec
CONSTANTS
  scalar = scalar
  table = table
  none = none
  MaxPuts = 2
  MaxOps = 3
  MaxDrops = 1
  MaxPending = 2
  Types <- OneType
  NoType = none
  OutlastsBarrier = FALSE
  MayRefuse = TRUE
CHECK_DEADLOCK FALSE
PROPERTY DeadNeverChosen
