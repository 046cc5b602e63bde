SPECIFICATION FairSpec
CONSTANTS
  n1 = n1
  r1 = r1
  r2 = r2
  t1 = t1
  t2 = t2
  k1 = k1
  k2 = k2
  Nothing = Nothing
  NoToken = NoToken
  Reminders = {r1, r2}
  Tokens = {t1, t2}
  Schedulers = {n1}
  Ticks = {k1, k2}
  MaxFaults = 2
INVARIANTS
  FirstRecordDecides
  SendsAccountedFor
PROPERTIES
  DueReminderIsTried
