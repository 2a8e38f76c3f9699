SPECIFICATION Spec
CONSTANTS
  x1 = x1  x2 = x2  r1 = r1  r2 = r2  r3 = r3  o1 = o1  o2 = o2  a1 = a1  a2 = a2
  Ports = {x1}
  Reqs = {r1, r2, r3}
  Origins = {o1}
  Accounts = {a1, a2}
  WatchOnly = {}
  Main = Main
  None = None
  OriginOf <- OneOrigin
  PortOf <- OnePort
  KindsOf <- ReconnectThenSign
  MaxSid = 2
  MaxNow = 0
  IdleTTL = 1
  AbsTTL = 2
PROPERTIES SignerIsSessionAccount
CHECK_DEADLOCK FALSE
