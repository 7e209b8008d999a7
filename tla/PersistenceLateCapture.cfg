SPECIFICATION Spec
CONSTANTS
  k1 = k1
  Jobs = {j1}
  ClientKeys = {}
  KeyOf <- Keyless
  NoKey = NoKey
  Anonymous = Anonymous
  Requests = {n1}
  NoJob = NoJob
  NotRead = NotRead
  Credits = 1
  Slots = 1
  Cancellable = {j1}
  MaxFaults = 0
  MaxRestarts = 0
CHECK_DEADLOCK FALSE
INVARIANT
  SettledOnce
