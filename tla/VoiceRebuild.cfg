SPECIFICATION FairSpec
CONSTANTS
  Requests = {t1}
  Revocations = {v1}
  Confirmations = {c1}
  MaxSchedules = 2
  MaxGrants = 1
  MaxFaults = 1
  MaxStops = 1
  MaxTrouble = 1
  MaxVisits = 1
CHECK_DEADLOCK FALSE
INVARIANTS
  TypeOK
  RequestsAreCovered
  ClearedMeansLearned
PROPERTIES
  QueueDrains
  VersionsGrow
