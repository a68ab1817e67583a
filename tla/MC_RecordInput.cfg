SPECIFICATION Spec
CONSTANTS
  Texts <- MCTexts
  MaxTexts = 4
  BatchSize = 2
  BufferCap = 4
  OffsetLimit = 6
INVARIANTS
  TypeOK
  MixOnlyAfterRejection
  LossStaysInBatch
  StopsHaveCauses
  CutsNeedLongLines
CHECK_DEADLOCK FALSE
