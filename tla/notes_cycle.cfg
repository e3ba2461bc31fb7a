SPECIFICATION Spec
CONSTANTS
  Handlers = {h1, h2}
  NoteIds = {n1, n2}
  Books = {b1, b2}
  Root = b1
  None = None
  MaxRequests = 5
INVARIANT RootIsReached
CHECK_DEADLOCK FALSE
