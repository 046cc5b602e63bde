SPECIFICATION MCSpec
CONSTANTS
  r1 = r1
  r2 = r2
  u1 = u1
  u2 = u2
  w1 = w1
  w2 = w2
  w3 = w3
  s1 = s1
  s2 = s2
  f1 = f1
  q1 = q1
  q2 = q2
  d1 = d1
  d2 = d2
  Seed = Seed
  Nothing = Nothing
  Reminders = {r1, r2}
  OrdinaryUsers = {u1, u2}
  Receipts = {d1, d2}
  Workers = {w1, w2, w3}
  Schedulers = {s1, s2}
  Phones = {f1}
  ReceiptPollers = {q1, q2}
SYMMETRY Symmetry
INVARIANTS
  CyclesNeedTheSeed
  NoOrphanJobs
PROPERTY
  ImplementsTransactions
