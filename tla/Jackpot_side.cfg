SPECIFICATION FairSpec
CONSTANTS
  tenant = tenant
  weekly = weekly
  Jackpots <- MCJackpots
  Weekly <- MCWeekly
  Targets <- MCTargets
  Players = {p1, p2}
  NoPlayer = NoPlayer
  Reqs = {r1, r2}
  NoReq = NoReq
  Draws = {1}
  Shares = {1}
  PoolSizes = {2, 4}
  MaxFed = 1
INVARIANTS
  PotExplained
  WinsCredited
PROPERTIES
  RequestsEnd
  WeeklyRests
CHECK_DEADLOCK FALSE
