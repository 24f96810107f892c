SPECIFICATION Spec
CONSTANTS
  r1 = r1
  r2 = r2
  r3 = r3
  o1 = o1
  o2 = o2
  NoReq = NoReq
  Anyone = o1
  Reqs <- MCReqs2
  Orders <- MCOrders1
  MaxIssued = 2
PROPERTIES
  StagesInOrder
CHECK_DEADLOCK FALSE
