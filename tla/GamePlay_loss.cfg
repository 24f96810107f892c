SPECIFICATION Spec
CONSTANTS
  r1 = r1
  r2 = r2
  v1 = v1
  v2 = v2
  g1 = g1
  g2 = g2
  l1 = l1
  l2 = l2
  Vouchers = {v1, v2}
  First = v1
  Nothing = Nothing
  Rounds = {g1, g2}
  Limits = {l1, l2}
  Wallet = Wallet
  Session = Session
  Reqs = {r1, r2}
  NoReq = NoReq
  Starts <- MCLossStarts
  Amount = 3
  Bonus = 0
  Policies <- MCPolicies
  DecayRate = 25
  MinDecay = 1
  StakeDecay = 35
  Stakes = {2}
  Wins = {3}
  Metadata <- MCMetadata
  LimitValues = {3}
PROPERTIES
  LossStaysBelowLimit
CHECK_DEADLOCK FALSE
