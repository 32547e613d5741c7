\* Two notifications of one subscription are handled at once
CONSTANTS
  Null = Null
  Users = {u1}
  Subs = {s1}
  Deliveries = {h1, h2}
  Submissions = {}
  Events = {"Grace"}
  Term = 1
  MaxTime = 3
  MaxNotices = 3
  Ties = FALSE
  Gaps = {}
  Failures = {}
SPECIFICATION ClaimedFairSpec
CHECK_DEADLOCK FALSE
PROPERTY LapseLeadsToRefusal
