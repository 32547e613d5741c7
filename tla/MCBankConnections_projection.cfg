\* One user, two accounts: syncs, disconnections and revocations interleave
CONSTANTS
  Null = Null
  Users = {u1}
  Accts = {a1, a2}
  Bank <- OwnBank
  AuthStates = {x1}
  Tokens = {t1}
  Requests = {q1, q2}
  MaxConnections = 2
  Failures <- AllSteps
SPECIFICATION FairSpec
INVARIANT GoneForAReason
PROPERTY Converges
