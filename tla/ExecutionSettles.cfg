SPECIFICATION FairSpec
CONSTANTS
  Jobs = {j1}
  NoJob = NoJob
  Workers = {w1, w2}
  Relays = {r1}
  Steps = 0
  Cancellable = {j1}
  MaxFaults = 1
  MaxStops = 0
  MaxRelayStops = 1
  MaxEvictions = 1
CHECK_DEADLOCK FALSE
INVARIANTS
  QueuedIsReachable
PROPERTIES
  UntouchedCancelIsFinal
  EveryJobSettles
