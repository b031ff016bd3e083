SPECIFICATION FairSpec
CONSTANTS
  u1 = u1
  u2 = u2
  e1 = e1
  e2 = e2
  r1 = r1
  r2 = r2
  User = {u1, u2}
  Email = {e1, e2}
  None = None
  EmailAt0 <- MCEmailAt0
  Wants <- MCWants
  Plans <- MCPlans
  Request = {r1, r2}
  MaxToken = 4
  PoolMax = {2, 3}
INVARIANTS
  TypeOK
  OneUserPerEmail
  OneToken
  ActedOnce
  
  SessionsAreVerified
  WaitingHasToken
PROPERTIES
  RequestsEnd
