\* A callback stores a new token while a revocation is at Akahu
CONSTANTS
  Null = Null
  Users = {u1}
  Accts = {a1}
  Bank <- OwnBank
  AuthStates = {x1, x2}
  Tokens = {t1, t2}
  Requests = {q1, q2}
  MaxConnections = 2
  Failures = {}
SPECIFICATION Spec
CHECK_DEADLOCK FALSE
PROPERTY ForgetsOnlyRevoked
