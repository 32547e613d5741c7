\* Auto-renew is turned off during the grace period
CONSTANTS
  Null = Null
  Users = {u1}
  Subs = {s1}
  Deliveries = {h1}
  Submissions = {}
  Events = {"Grace", "ChangeAutoRenew"}
  Term = 1
  MaxTime = 4
  MaxNotices = 4
  Ties = FALSE
  Gaps = {}
  Failures = {}
SPECIFICATION ClaimedSpec
CHECK_DEADLOCK FALSE
PROPERTY AutoRenewOffKeepsService
