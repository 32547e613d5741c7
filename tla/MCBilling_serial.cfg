\* One subscription whose notifications are handled one at a time, lost,
\* repeated and reordered at will, and each handler may die before its upsert
\* commits; or two, one of them unclaimed, that two accounts submit meanwhile
CONSTANTS
  Null = Null
  Users = {u1, u2}
  Subs = {s1, s2}
  Deliveries = {h1}
  Submissions = {p1}
  Events = {"Renew", "ChangeAutoRenew", "Grace", "Lapse", "Refund", "Announce"}
  Term = 1
  MaxTime = 4
  MaxNotices = 4
  Ties = FALSE
  Gaps = {"transaction", "expiry"}
  Failures = {"write"}
SPECIFICATION ClaimedFairSpec
CHECK_DEADLOCK FALSE
ACTION_CONSTRAINTS Stories OneGap
INVARIANT NoServiceBeyondPaidTerm
PROPERTIES
  AppliedOnce
  EveryNoticeAcked
  LapseLeadsToRefusal
  EndIsRevoked
