SPECIFICATION FairSpec
CONSTANTS
  e1 = e1
  e2 = e2
  ann = ann
  ben = ben
  Events = {e1, e2}
  Users = {ann, ben}
  Tables <- MCTables
  Subject <- MCSubject
  MaxFaults = 2
INVARIANTS OncePerDelivery AckedIsServed
PROPERTY EventuallyAcked
CHECK_DEADLOCK FALSE
