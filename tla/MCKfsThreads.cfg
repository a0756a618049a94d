CONSTANTS
  Threads = {t1, t2}
  Mutexes = {m}
  Main = main
  Nobody = nobody
SPECIFICATION FairSpec
INVARIANTS
  TypeOK
  MutualExclusion
  ListsSound
  NothingLeft
PROPERTIES
  CallsReturn
CHECK_DEADLOCK FALSE
