SPECIFICATION Spec
SYMMETRY Interchangeable
CONSTANTS
  k1 = k1
  Jobs = {j1, j2}
  ClientKeys = {k1}
  KeyOf <- SharedKey
  NoKey = NoKey
  Anonymous = Anonymous
  Requests = {n1, n2}
  NoJob = NoJob
  NotRead = NotRead
  Credits = 2
  Slots = 1
  Cancellable = {}
  MaxFaults = 1
  MaxRestarts = 0
CHECK_DEADLOCK FALSE
INVARIANTS
  DoneIsPaid
  ReservationBacked
