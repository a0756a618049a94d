CONSTANTS
  Threads = {t1, t2}
  Mutexes = {m}
  Main = main
  Nobody = nobody
SPECIFICATION Spec
INVARIANTS
  JoinedWhenDeleted
CHECK_DEADLOCK FALSE
