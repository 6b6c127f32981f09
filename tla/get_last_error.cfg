SPECIFICATION Spec
CONSTANTS
  value = value
  meta = meta
  table = table
  v1 = v1
  v2 = v2
  Requests <- OneRequest
  Values <- TwoValues
  MaxChans = 1
  MaxDrops = 1
  MayRefuse = FALSE
PROPERTY LastErrorTellsLast
