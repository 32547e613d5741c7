\* Two users write rules, evaluate transactions and page through their lists,
\* and an app meets every refusal on its way there
CONSTANTS
  Absent = Absent
  NaN = NaN
  Values <- Texts
  Lower <- LowerOf
  Number <- NumberOf
  Inside <- InsideAll
  Opens <- OpensAll
  Closes <- ClosesAll
  Matching <- MatchingAll
  Users = {u1, u2}
  MaxRules = 3
  Inputs <- SomeInputs
  Patches <- SomePatches
  Candidates <- SomeCandidates
  Limit = 1
  AccountIds = {1, 2, 3}
  Name <- Names
  Type <- Types
  Connection <- Connections
  PageSize = 2
  Unfiltered = Unfiltered
  Missing = Missing
  None = None
  Latest = 2
  Skew = 2
  Lifetime = 4
  MaxMoves = 2
  MaxWhole = 12
ACTION_CONSTRAINTS OneKindOfChange FirstRuleIsMine
SPECIFICATION ApartSpec
INVARIANTS RulesTypeOK EvaluationAgrees PagesTile OnlyNamesakesSlip RepliesSpeak RightScreen
PROPERTIES NoInterference Resolved
