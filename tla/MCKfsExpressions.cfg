CONSTANTS
  IntHalf = 128
  Driver = "main"
  ScriptSets <- AllExpressionScripts
  ParseError <- MCParseError
  LiteralIds <- MCLiteralIds
  Copy <- value_copy
  Binary <- BinaryOp
  Negation <- value_not
  CellsOf <- Cells
  FreedBy <- value_delete
  Characters <- MCCharacters
  Environ <- MCEnviron
  PlainTexts <- MCPlainTexts
  Referred <- MCReferred
  MaxPieces = 3
  DoubleInts = {0, 2}
  JsonValues <- MCJsonValues
  FileValues <- MCFileValues
SPECIFICATION Spec
INVARIANTS
  StackBalanced
  SingleOwner
  EqualityIsByContent
  NamesReplaced
