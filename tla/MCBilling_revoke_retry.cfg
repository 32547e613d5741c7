\* The handler may die between the upsert and the end of the revocation
CONSTANTS
  Null = Null
  Users = {u1}
  Subs = {s1}
  Deliveries = {h1}
  Submissions = {}
  Events = {"Lapse"}
  Term = 1
  MaxTime = 2
  MaxNotices = 2
  Ties = FALSE
  Gaps = {}
  Failures = {"revoke"}
SPECIFICATION ClaimedFairSpec
CHECK_DEADLOCK FALSE
PROPERTY EndIsRevoked
