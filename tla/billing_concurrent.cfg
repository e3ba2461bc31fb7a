CONSTANTS
  Handlers = {h1, h2}
  MaxSub = 1
  MaxRefund = 1
  MaxCancel = 1
  MaxTime = 2
  Periods <- MonthAndYear
  GraceDays = 1
SPECIFICATION Spec
CHECK_DEADLOCK FALSE
SYMMETRY HandlerSymmetry
INVARIANTS
  PaidMeansSettled NoFreeAccess WithinPurchase
  ShownImpliesPlan
