SPECIFICATION Spec
CONSTANTS
  anyToMx <- TreeToMx
  mxIntoValue <- MxIntoTree
  mxToPvField <- MxToPvTree
  Overlay <- OverlayTree
  NameMax = 16
  Doubles <- TheDoubles
  Layouts <- TheLayouts
  Channels <- TwoChannels
  Requests <- TheRequests
  Calls <- TheCalls
  MaxQueue = 2
  MaxCalls = 1
  MaxDrops = 1
  MaxMonitors = 1
  Whole <- AllFields
CHECK_DEADLOCK FALSE
INVARIANTS
  TypeOK
  StructureComplete
  ValueWhole
  FreshEnough
  OutputInOrder
  StructureRoundTrip
  EnumRoundTrip
PROPERTIES
  CacheOutlivesOutage
  CacheForward
