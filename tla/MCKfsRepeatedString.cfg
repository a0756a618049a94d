CONSTANTS
  IntHalf = 128
  Driver = "kfs_lang_eval"
  ScriptSets <- RepeatedStringScripts
  ParseError <- MCParseError
  LiteralIds <- MCLiteralIds
  Copy <- value_copy
  Binary <- BinaryOp
  Negation <- value_not
  CellsOf <- Cells
  FreedBy <- value_delete
  DoubleInts = {0, 2}
  JsonValues = {}
  FileValues = {}
SPECIFICATION Spec
INVARIANT
  StringAsTested
