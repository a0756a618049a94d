CONSTANTS
  NULL = null
  EnvsHead = envs
  ScriptsHead = scripts
  MaxArgs = 3
  Keys = {"k", "l"}
  MaxFailures = 1
  Node <- MCNode
  CommandLines <- MCCommandLines
  EnvFiles <- MCEnvFiles
  Environments <- MCEnvironments
SPECIFICATION Spec
INVARIANTS
  TypeOK
  OptionsListed
  NothingLeftAtExit
PROPERTIES
  RunsCommandLine
