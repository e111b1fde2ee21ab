\* Two calls on one instance, two clients that may contradict each other.
CONSTANTS
  Executors = {e1}
  Calls = {1, 2}
  Commands = {k1}
  Clients = {u1, u2}
  Modes = {"ask", "auto", "plan"}
  MaxAnswers = 2
  Stores = {{}, {k1}}
SPECIFICATION FairSpec
CHECK_DEADLOCK FALSE
INVARIANTS TypeOK RunsByConsent RowByAnswer AllowlistByConsent
PROPERTIES DecisionIsFollowed EveryCallEnds
