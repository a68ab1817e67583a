SPECIFICATION Spec
CONSTANTS
  Texts <- MCTexts
  MaxTexts = 3
  BatchSize = 2
  BufferCap = 4
  OffsetLimit = 6
INVARIANTS
  RecordsHoldTheirText
CHECK_DEADLOCK FALSE
