\* The app submits again what it bought before the refund
CONSTANTS
  Null = Null
  Users = {u1}
  Subs = {s1}
  Deliveries = {h1}
  Submissions = {p1}
  Events = {"Renew", "Refund"}
  Term = 2
  MaxTime = 3
  MaxNotices = 3
  Ties = FALSE
  Gaps = {}
  Failures = {}
SPECIFICATION ClaimedSpec
CHECK_DEADLOCK FALSE
PROPERTY RefundSticks
