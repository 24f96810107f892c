SPECIFICATION FairSpec
CONSTANTS
  r1 = r1
  r2 = r2
  r3 = r3
  c1 = c1
  c2 = c2
  NoReq = NoReq
  Reqs <- MCReqs2
  Amounts <- MCAmounts
  Bonuses <- MCBonuses
  Codes <- MCCodes
INVARIANTS
  BooksBalance
PROPERTIES
  ImplementsTreasury
  EveryRequestEnds
\* every request has ended and none arrives any more
CHECK_DEADLOCK FALSE
