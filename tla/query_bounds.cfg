SPECIFICATION SearchSpec
CONSTANTS
  Fields = {"id", "field"}
  Quoted = {"p", "q", "r", "s"}
  Numbers = {"7"}
  CompareOps = {"=", "<>", "<", "<=", ">", ">="}
  Paired <- MCPaired
  Nested <- MCNested
  Strings <- MCStrings
  MaxDocs = 4
  MaxValue = 3
  UintMax = 65535
INVARIANTS
  BoundsAreExact
CHECK_DEADLOCK FALSE
