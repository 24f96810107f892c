SPECIFICATION FairSpec
CONSTANTS
  r1 = r1
  r2 = r2
  u1 = u1
  u2 = u2
  adm = adm
  st1 = st1
  st0 = st0
  First = st0
  tk1 = tk1
  tk2 = tk2
  tk3 = tk3
  tk4 = tk4
  tk5 = tk5
  tk6 = tk6
  se1 = se1
  se2 = se2
  se3 = se3
  se4 = se4
  cu = cu
  ca = ca
  cs = cs
  cv = cv
  cr = cr
  cx1 = cx1
  cx2 = cx2
  Users = {u1, u2, adm}
  Admins = {adm}
  Staff = {st1, st0}
  Nothing = Nothing
  NoReq = NoReq
  Reqs <- MCReqs
  Tokens <- MCTokens
  Sessions <- MCSessions
  Owner <- MCOwner
  Counters <- MCCounters
  Kind <- MCKind
  Menus <- MCMenus
  Threshold = 2
  MaxTries = 3
INVARIANTS
  LocksAreEarned
  SweepsComplete
PROPERTIES
  RevokedForGood
  GrantsAreEarned
  EveryRequestEnds
CHECK_DEADLOCK FALSE
