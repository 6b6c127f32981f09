SPECIFICATION Spec
CONSTANTS
  anyToMx <- TreeToMx
  mxIntoValue <- MxIntoTree
  mxToPvField <- MxToPvTree
  Overlay <- OverlayTree
  NameMax = 16
  Doubles <- TheDoubles
  Whole <- AllFields
  ValueOnly <- OnlyValue
  Layouts <- TheLayouts
  Channels <- TwoChannels
  Calls <- TheCalls
  Edits <- TheEdits
  Requests <- TheRequests
  BuiltFor <- BothBackends
  MaxCalls = 2
  MaxEdits = 1
  MaxFaults = 1
CHECK_DEADLOCK FALSE
INVARIANTS
  TypeOK
  WrittenInOrder
  EnumChoiceCurrent
PROPERTIES
  RightValue
  OmittedKept
  TableStaysWhole
