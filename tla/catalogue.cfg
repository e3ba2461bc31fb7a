SPECIFICATION CatalogueSpec
CONSTANTS
  p1 = p1
  p2 = p2
  f1 = f1
  f2 = f2
  n1 = n1
  n2 = n2
  c1 = c1
  a1 = a1
  a2 = a2
  Editors = {h1, h2}
  Plans = {p1, p2}
  Features = {f1, f2}
  Nuances = {n1, n2}
  Configs = {c1}
  AddressOrder <- MCOrder
  Keys = {"k1", "k2"}
  Seeded <- MCSeeded
  None = None
  MaxRequests = 3
INVARIANTS  SettingsShowWhatWasSaved
PROPERTY LinksKept
CHECK_DEADLOCK FALSE
