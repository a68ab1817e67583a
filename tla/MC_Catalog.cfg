SPECIFICATION Spec
CONSTANTS
  t1 = t1
  a = a
  b = b
  p = p
  q = q
  Tables <- MCTables
  Columns <- MCColumns
  Parsers <- MCParsers
  NoTree = NoTree
  None = None
  Unlinked = Unlinked
  MaxCreates = 2
SYMMETRY MCSymmetry
INVARIANTS
  TypeOK
  OnlyStaleTreesInherit
  MapMatchesFile
  SavedColumnsHaveFiles
CHECK_DEADLOCK FALSE
