SPECIFICATION Spec
CONSTANTS
  a = a
  b = b
  c = c
  Columns <- MCColumns
  RecdCap = 2
  BatchCap = 2
  ItemLen <- MCItemLen
  TailBufferCap = 2
  NoTree = NoTree
  NoColumn = NoColumn
  Partial = Partial
  RowCap = 2
  BufferCap = 4
  RecdMaxLen = 2
  MaxRecds = 5
  Fits <- MCFits
  MaxOpens = 2
INVARIANTS
  ColumnsEndTogether
CHECK_DEADLOCK FALSE
