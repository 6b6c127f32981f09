SPECIFICATION MatlabSpec
CONSTANTS
  scalar = scalar
  table = table
  none = none
  MaxPuts = 2
  MaxOps = 3
  MaxDrops = 1
  MaxPending = 2
  Types <- TwoTypes
  NoType = none
  OutlastsBarrier = TRUE
  MayRefuse = TRUE
CHECK_DEADLOCK FALSE
PROPERTIES
  TypeSafe
  PutReturns
  ParkedPutFinishes
