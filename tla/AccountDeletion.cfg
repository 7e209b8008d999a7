SPECIFICATION FairSpec
CONSTANTS
  Jobs = {j1}
  NoOp = NoOp
  Handlers = {h1}
  Events <- AccountEvents
  Relays = {r1}
  Batch = 2
  MaxThrows = 1
  MaxRefusals = 1
  MaxFailures = 1
CHECK_DEADLOCK FALSE
INVARIANTS
  PublishedIsDone
  IntactUntilCancelled
PROPERTIES
  PurgedStaysPurged
  DeletedStaysQuiet
  ExecutionsAreRelayed
  IdentityIsDeleted
