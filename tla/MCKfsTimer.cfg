CONSTANTS
  asking = asking
  blind = blind
  Timers <- MCTimers
  Asking <- MCAsking
SPECIFICATION FairSpec
INVARIANTS
  TypeOK
  NoUseAfterFree
  OneLateCall
PROPERTIES
  DeleteReturns
  KeepsPromise
