SPECIFICATION Spec
CONSTANTS
  h1 = h1
  h2 = h2
  n1 = n1
  n2 = n2
  All = All
  Nil = Nil
  Notes = {n1, n2}
  MaxHits = 2
  MaxPicks = 2
  Handlers = {h1, h2}
  Prompts <- MCPrompts
  MaxSends = 3
  MaxDeletes = 1
  MaxLosses = 1
SYMMETRY Symmetry
INVARIANTS FocusSound ModeSticky NothingLeft
CHECK_DEADLOCK FALSE
