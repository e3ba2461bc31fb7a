SPECIFICATION FairSpec
CONSTANTS
  phone = phone
  tablet = tablet
  ann = ann
  Clients = {phone, tablet}
  Users = {ann}
  Early <- One
  Owner <- MCOwner
  Nobody = Nobody
  All = All
  Buf = 1
  MaxPush = 1
  MaxElsewhere = 1
INVARIANTS DownHasCause
PROPERTIES NobodyMissed LeavingIsServed
CHECK_DEADLOCK FALSE
