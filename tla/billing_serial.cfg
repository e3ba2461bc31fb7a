CONSTANTS
  Handlers = {h1}
  MaxSub = 2
  MaxRefund = 2
  MaxCancel = 1
  MaxTime = 1
  Periods <- OneTick
  GraceDays = 1
SPECIFICATION Spec
CHECK_DEADLOCK FALSE
INVARIANTS RefundedNoAccess EffectiveDateKept
PROPERTIES ImplementsWorkflow
