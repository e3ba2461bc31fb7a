SPECIFICATION FairSpec
CONSTANTS
  Handlers = {h1, h2}
  NoteIds = {n1, n2}
  Books = {b1, b2, b3}
  Root = b1
  None = None
  MaxRequests = 4
INVARIANTS ContentFresh NameFresh TreeSound
PROPERTIES DeletedStaysDeleted EventuallyFresh
CHECK_DEADLOCK FALSE
