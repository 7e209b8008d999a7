SPECIFICATION FairSpec
CONSTANTS
  Steps = 1
  MaxReconnects = 1
  MaxPollFailures = 2
  MaxCancels = 1
  MaxFaults = 2
CHECK_DEADLOCK FALSE
INVARIANTS
  OutcomeIsTheJobs
  
PROPERTIES
  WatchEnds
  SettledJobIsTold
