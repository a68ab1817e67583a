SPECIFICATION Spec
CONSTANTS
  WordBits = 8
  MaskSizes <- MCMaskSizes
  MemBits = 22
  Caps <- MCCaps
  Patterns <- MCPatterns
INVARIANTS
  TypeOK
  NeighboursUntouched
  KeptIfWordAligned
  RoomIsClear
CHECK_DEADLOCK FALSE
