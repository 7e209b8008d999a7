SPECIFICATION WizardSpec
CONSTANTS
  Requests = {t1, t2}
  Revocations = {}
  Confirmations = {}
  Sessions = {w1}
  Steps <- FourSteps
  Triggers = {"format_adaptation"}
  MaxWizards = 1
  MaxSchedules = 2
  MaxGrants = 1
  MaxFaults = 0
  MaxStops = 1
  MaxTrouble = 1
  MaxVisits = 0
CHECK_DEADLOCK FALSE
SYMMETRY Interchangeable
INVARIANTS
  NoStepJumped
  CompletedWizardIsLearned
