CONSTANTS
  Handlers = {h1, h2}
  Plans <- SmallPlans
  Grants <- JustThree
  MaxDay = 2
  MaxCalls = 3
  MaxRaced = 1
SPECIFICATION Spec
CHECK_DEADLOCK FALSE
SYMMETRY HandlerSymmetry
INVARIANTS NeverOvercharged DailyLimitHeld
PROPERTIES UsageIsKept
