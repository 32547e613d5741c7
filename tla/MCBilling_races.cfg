\* Two accounts, two subscriptions, two deliveries racing a submission
CONSTANTS
  Null = Null
  Users = {u1, u2}
  Subs = {s1, s2}
  Deliveries = {h1, h2}
  Submissions = {p1}
  Events = {"Purchase", "Grace", "Refund"}
  Term = 1
  MaxTime = 2
  MaxNotices = 3
  Ties = FALSE
  Gaps = {"date"}
  Failures = {"write", "revoke", "submit"}
SPECIFICATION Spec
SYMMETRY Symmetry
VIEW ServerView
ACTION_CONSTRAINT OneGap
CHECK_DEADLOCK FALSE
INVARIANTS
  TypeOK
  OneSubscriptionOneAccount
  OwnersClaimed
  CursorIsOwn
  NoServiceBeyondPaidTerm
PROPERTIES
  RegressOnlyOnStaleRead
