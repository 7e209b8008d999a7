SPECIFICATION Spec
CONSTANTS
  Jobs = {j1}
  NoJob = NoJob
  Workers = {w1, w2}
  Relays = {r1, r2}
  Steps = 1
  Cancellable = {}
  MaxFaults = 1
  MaxStops = 1
  MaxRelayStops = 1
  MaxEvictions = 1
CHECK_DEADLOCK FALSE
INVARIANTS
  PipelineRunsOnce
PROPERTY
  ImplementsLifecycle
