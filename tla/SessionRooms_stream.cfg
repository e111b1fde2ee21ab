SPECIFICATION Spec
CONSTANTS
  Clients = {w1, w2}
  Sessions = {s1, s2}
  NoSession = none
  MaxTokens = 3
  MaxTurns = 4
INVARIANTS TypeOK InItsRoom StreamReachesMembers SubscriptionEnds
SYMMETRY Alike
CHECK_DEADLOCK FALSE
