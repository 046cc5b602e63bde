SPECIFICATION Spec
CONSTANTS
  c1 = c1
  c2 = c2
  d1 = d1
  d2 = d2
  l1 = l1
  l2 = l2
  l3 = l3
  Nothing = Nothing
  Readers = {c1, c2}
  Dates = {d1, d2}
  Loads = {l1, l2, l3}
  FreshMs = 1
  StaleMs = 2
  MaxEntries = 1
  CardsPerDay = 3
  MaxClock = 3
  MaxVersion = 2
SYMMETRY Symmetry
INVARIANTS
  CacheBounded
  OneLoadPerDate
PROPERTIES
  NeverGoesBack
