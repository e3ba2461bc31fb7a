SPECIFICATION Spec
CONSTANTS
  u1 = u1
  u2 = u2
  m1 = m1
  h1 = h1
  h2 = h2
  l1 = l1
  Users = {u1, u2}
  Emails = {m1}
  Links = {l1}
  Handlers = {h1, h2}
  Written <- MCWritten
  Nobody = Nobody
  Nothing = Nothing
  MaxRequests = 5
SYMMETRY Symmetry
INVARIANTS NoAccessUnproven BlockHolds ResetOnce PurgeComplete
CHECK_DEADLOCK FALSE
