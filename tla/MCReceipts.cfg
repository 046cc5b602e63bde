SPECIFICATION FairSpec
CONSTANTS
  Nobody = Nobody
  Pollers = {p1, p2}
  Users = {u1, u2}
  Tokens = {t1}
  Deliveries = {d1}
  BatchSize = 1
  MaxAttempts = 2
  MaxClock = 3
  MaxFaults = 2
CHECK_DEADLOCK FALSE
PROPERTIES
  PrunesOnlyTheSent
  TerminalIsFinal
  NewestClaimDecides
  ReceiptSettles
