SPECIFICATION FairSpec
CONSTANTS
  r1 = r1
  r2 = r2
  r3 = r3
  t1 = t1
  t2 = t2
  t3 = t3
  NoReq = NoReq
  Reqs = {r1, r2, r3}
  Tenants <- MCTenants
  Scopes <- MCScopes
  NameOf <- MCNameOf
  Rows <- MCRows
  Menus <- MCMenus
  Amount = 2
  MaxValue = 1
  MaxBalance = 2
INVARIANTS
  TypeOK
  WipesComplete
  TenantsWhole
PROPERTIES
  SettingsKeepOthers
  CreditsPairWithStatus
  DoublesOverlap
  GoneTenantsStayGone
  DeletedForGood
  AuditChained
  EveryRequestEnds
CHECK_DEADLOCK FALSE
