SPECIFICATION FairSpec
CONSTANTS
  x1 = x1  x2 = x2  r1 = r1  r2 = r2  r3 = r3  o1 = o1  o2 = o2  a1 = a1  a2 = a2
  Ports = {x1}
  Reqs = {r1, r2, r3}
  Origins = {o1}
  Accounts = {a1, a2}
  WatchOnly = {a2}
  Main = Main
  None = None
  OriginOf <- OneOrigin
  PortOf <- OnePort
  KindsOf <- ConnectAskSign
  MaxSid = 1
  MaxNow = 1
  IdleTTL = 1
  AbsTTL = 2
INVARIANTS TypeOK ConsentedSessions NoReplyLost
PROPERTIES WalletPromise LockSilences EveryRequestAnswered
CHECK_DEADLOCK FALSE
