SPECIFICATION Spec
CONSTANTS
  scalar = scalar
  table = table
  none = none
  MaxPuts = 2
  MaxOps = 3
  MaxDrops = 1
  MaxPending = 2
  Types <- OneType
  NoType = none
  OutlastsBarrier = FALSE
  MayRefuse = FALSE
CHECK_DEADLOCK FALSE
PROPERTY ReadyWhenChosen
