SPECIFICATION FairScanSpec
CONSTANTS
  RecdCap = 2
  MaxRep = 1
  MaxDef = 2
  AlignSize = 3
  TailBufferCap = 6
  MaxItems = 5
  MaxOpens = 2
  MaxSkip = 1
  v1 = v1
  v2 = v2
  Null = Null
  NoFile = NoFile
  NoInfo = NoInfo
  NoItem = NoItem
  Values <- MCTwoValues
  ByteBits = 2
  RepLevels <- MCReptLevels
  Kinds <- MCKinds
  ValLen <- MCValLen
  Reserve = 1618
  ItemInputs <- MCItemInputs
  FirstRecds <- MCFirst
INVARIANTS
  ScanTypeOK
  ReadsMatchLog
  PositionsAgree
  EndIsReal
  BlocksReadBack
PROPERTIES
  SearchEnds
CHECK_DEADLOCK FALSE
