\* Two devices of a user sign in and out and ask for the status; keys rotate
CONSTANTS
  Clients = {c1, c2}
  TTL = 2
  MaxTime = 4
  NoToken = NoToken
  Never = Never
  Null = Null
  Missing = Missing
  None = None
  Rows <- SomeRows
  Phones = {d1}
  Gates <- SomeGates
  Headers <- SomeHeaders
  Unread = Unread
  Versions = {1, 2, 3}
  Configs <- SomeLists
  FirstKey = 1
  Processes = {p1, p2}
  Captures = {q1, q2}
  Invalid = Invalid
  Absent = Absent
CHECK_DEADLOCK FALSE
SYMMETRY Symmetry
ACTION_CONSTRAINTS Apart Asking
SPECIFICATION Spec
INVARIANTS SessionsTypeOK SignOutBounds StatusIsFresh MoneyGate NewestReads GrantKept
