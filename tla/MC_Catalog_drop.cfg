SPECIFICATION Spec
CONSTANTS
  t1 = t1
  a = a
  b = b
  p = p
  q = q
  Tables <- MCTables
  Columns <- MCOneColumn
  Parsers <- MCNoParsers
  NoTree = NoTree
  None = None
  Unlinked = Unlinked
  MaxCreates = 2
INVARIANTS
  TablesHoldTheirOwn
CHECK_DEADLOCK FALSE
