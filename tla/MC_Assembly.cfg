SPECIFICATION Spec
CONSTANTS
  Parent <- MCParent
  Multi <- MCMulti
  Prim <- MCPrim
  Name <- MCName
  MaxLevel = 3
  Byte = 7
  ValueLength <- MCValueLength
  Inputs <- MCInputs
  Queries <- MCQueries
INVARIANTS
  TypeOK
  ColumnsAgree
  AssemblesWhatWasParsed
  StaysInRecord
  ReadyForNextRecord
CHECK_DEADLOCK FALSE
