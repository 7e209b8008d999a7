SPECIFICATION FairSpec
CONSTANTS
  Pipelines <- TwoPipelines
  Offers = 2
  MaxRefusals = 6
  MaxFaults = 1
INVARIANTS
  LadderStaysInBudget
  CallsArePriced
  QuietOnceSettled
  SettlementFollowsOutcome
PROPERTIES
  RunEnds
