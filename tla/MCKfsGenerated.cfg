CONSTANTS
  IntHalf = 32768
  Driver = "main"
  ScriptSets <- GeneratedScripts
  ParseError <- MCParseError
  LiteralIds <- MCLiteralIds
  Copy <- value_copy
  Binary <- BinaryOp
  Negation <- value_not
  CellsOf <- Cells
  FreedBy <- value_delete
  DoubleInts = {0, 2}
  JsonValues <- MCJsonValues
  FileValues <- MCFileValues
SPECIFICATION Spec
INVARIANTS
  StackBalanced
  CallerVariablesKept
  BlockLocalsStayLocal
  OperandsArePure
  BreakStaysInLoop
  SingleOwner
  DumpTestAsExpected
PROPERTIES
  ReturnUnwinds
