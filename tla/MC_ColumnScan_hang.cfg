SPECIFICATION FairScanSpec
CONSTANTS
  RecdCap = 2
  MaxRep = 0
  MaxDef = 1
  AlignSize = 3
  TailBufferCap = 6
  MaxItems = 3
  MaxOpens = 2
  MaxSkip = 1
  v1 = v1
  v2 = v2
  Null = Null
  NoFile = NoFile
  NoInfo = NoInfo
  NoItem = NoItem
  Values <- MCTwoValues
  ByteBits = 2
  RepLevels <- MCNoRepeat
  Kinds <- MCKinds
  ValLen <- MCValLen
  Reserve = 1618
  ItemInputs <- MCItemInputs
  FirstRecds <- MCFirst
PROPERTIES
  SearchAlwaysEnds
CHECK_DEADLOCK FALSE
