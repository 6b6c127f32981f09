SPECIFICATION Spec
CONSTANTS
  scalar = scalar
  table = table
  none = none
  MaxPuts = 3
  MaxOps = 4
  MaxDrops = 1
  MaxPending = 2
  Types <- OneType
  NoType = none
  OutlastsBarrier = FALSE
  MayRefuse = FALSE
CHECK_DEADLOCK FALSE
INVARIANTS
  TypeOK
  AtMostOnce
  InOrder
PROPERTIES
  Refines
  OkMeansApplied
  InFlightKept
  DeadNeverChosen
