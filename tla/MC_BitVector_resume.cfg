SPECIFICATION Spec
CONSTANTS
  WordBits = 8
  MaskSizes <- MCThreeBits
  MemBits = 22
  Caps <- MCCaps
  Patterns <- MCPatterns
INVARIANTS
  ElementsKept
CHECK_DEADLOCK FALSE
