\* A paying user connects a bank, the subscription ends, and the user pays again
CONSTANTS
  Null = Null
  Users = {u1}
  Subs = {s1, s2}
  Deliveries = {h1}
  Submissions = {p1}
  Events = {"Refund", "Grace"}
  Term = 1
  MaxTime = 2
  MaxNotices = 2
  Ties = FALSE
  Gaps = {}
  Failures = {"write", "revoke"}
  Accts = {a1}
  Bank <- OwnBank
  AuthStates = {x1}
  Tokens = {t1}
  Requests = {q1}
  MaxConnections = 1
  BankFailures = {"store", "banks", "secret", "forget", "closeAll"}
SPECIFICATION PayingFairSpec
CHECK_DEADLOCK FALSE
ACTION_CONSTRAINT PaysAgain
PROPERTIES BankSpec EndDisconnects OnlyAppleEndsAccess
