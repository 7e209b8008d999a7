SPECIFICATION Spec
SYMMETRY Interchangeable
CONSTANTS
  a1 = a1
  g1 = g1
  g2 = g2
  checkout = checkout
  renewal = renewal
  cancellation = cancellation
  overdue = overdue
  topup = topup
  Accounts = {a1}
  Owner <- MCOwner
  EventAccount <- MCEventAccount
  EventKind <- MCEventKind
  Generations = {g1, g2}
  Events = {checkout, renewal, cancellation, overdue, topup}
  Prices = {10, 33}
  UsageAmounts = {45}
  MonthlyCredits = 50
  TopUpCredits = 20
  RolloverCap = 9
INVARIANTS
  NonNegativeWallet
  RolloverBacked
  MonthGrantedOncePerEvent
  SettledOnce
  LedgerMatchesReservations
