SPECIFICATION Spec
CONSTANTS
  fix = fix
  ord = ord
  w1 = w1
  w2 = w2
  s1 = s1
  s2 = s2
  tokA = tokA
  Nobody = Nobody
  NoToken = NoToken
  SeededOnly = FALSE
  MaxAttempts = 2
  Reminders = {ord}
  Seeded = {}
  Unreadable = {}
  Workers = {w1, w2}
  Schedulers = {s1}
  Tokens = {tokA}
  BatchSize = 1
  MaxFaults = 0
SYMMETRY Symmetry
INVARIANTS
  LeaseHonoured
