SPECIFICATION Spec
CONSTANTS
  t1 = t1  t2 = t2  a1 = a1
  Tabs = {t1, t2}
  MaxOps = 2
  Accounts = {a1}
  None = None
  MaxNow = 2
  IdleTTL = 1
  AbsTTL = 2
  SlowAwaits = TRUE
INVARIANTS LiveEnvelopeOpens
SYMMETRY TabsAlike
CHECK_DEADLOCK FALSE
