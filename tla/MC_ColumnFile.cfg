SPECIFICATION Spec
CONSTANTS
  RecdCap = 2
  MaxRep = 1
  MaxDef = 2
  v1 = v1
  v2 = v2
  Values <- MCValues
  Null = Null
  NoFile = NoFile
  AlignSize = 3
  TailBufferCap = 6
  FirstRecds <- MCFirst
  MaxItems = 4
  MaxOpens = 3
INVARIANTS
  TypeOK
  CountersMatchItems
  CABsPartitionRecords
  OnlyEmptyCABsAreShort
  ClosedFilesHoldLog
  SealedCABsSurvive
  DamageNeedsPartialTail
PROPERTIES
  FinishedBlocksAreFinal
  ImplementsColumnLog
CHECK_DEADLOCK FALSE
