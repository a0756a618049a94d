CONSTANTS
  f = f
  g = g
  Memory = 38
  NULL = null
  ListHead = head
  Expr <- MCExpr
  Malloc <- MCMalloc
  Names <- MCNames
  Scripts <- MCScripts
  MaxScripts = 4
  MaxDepth = 8
SPECIFICATION Spec
INVARIANTS
  TypeOK
  FunctionsSound
  NoUseAfterFree
  NothingLost
PROPERTIES
  RunsLatest
