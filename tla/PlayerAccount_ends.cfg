SPECIFICATION FairSpec
CONSTANTS
  r1 = r1
  r2 = r2
  r3 = r3
  v1 = v1
  v2 = v2
  g1 = g1
  g2 = g2
  g3 = g3
  NoReq = NoReq
  NoVoucher = NoVoucher
  NoRound = NoRound
  Key = v1
  Reqs <- MCReqs2
  Vouchers <- MCVouchers
  Rounds <- MCRounds3
  Menu <- Ops
  Stakes <- MCStakes
  Wins <- MCWins
  Face = 2
  Bonus = 1
  BonusTrigger = 1
  MaxRunning = 2
PROPERTIES
  FreshMovesRecorded
  EveryRequestEnds
\* every request has ended and none arrives any more
CHECK_DEADLOCK FALSE
