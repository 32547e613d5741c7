\* Two users, two requests in flight: states, tokens and callbacks
CONSTANTS
  Null = Null
  Users = {u1, u2}
  Accts = {a1}
  Bank <- OwnBank
  AuthStates = {x1, x2}
  Tokens = {t1, t2}
  Requests = {q1, q2}
  MaxConnections = 1
  Failures <- AllSteps
SYMMETRY Symmetry
VIEW RequestView
ACTION_CONSTRAINT EndsForGood
SPECIFICATION Spec
INVARIANTS TypeOK TokenIsOwn
PROPERTIES SingleUse LiveTokenKept
