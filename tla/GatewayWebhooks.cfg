SPECIFICATION FairSpec
CONSTANTS
  Handlers = {h1}
  NoEvent = NoEvent
  NotRead = NotRead
  MaxWaiting = 2
  MaxChanges = 1
  MaxFaults = 1
  MaxTrouble = 1
CHECK_DEADLOCK FALSE
INVARIANTS
  AcknowledgedIsDone
  EventGrantsOneMonth
PROPERTIES
  EventsAreAcknowledged
