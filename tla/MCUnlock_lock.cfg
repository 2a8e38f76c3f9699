SPECIFICATION Spec
CONSTANTS
  t1 = t1  t2 = t2  a1 = a1
  Tabs = {t1}
  MaxOps = 2
  Accounts = {a1}
  None = None
  MaxNow = 3
  IdleTTL = 2
  AbsTTL = 3
  SlowAwaits = FALSE
INVARIANTS LockedHasNoSession
CHECK_DEADLOCK FALSE
