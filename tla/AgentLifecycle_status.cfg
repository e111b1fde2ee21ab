\* Two messages, two calls of any route, a crash.
CONSTANTS
  Messages = {m1, m2}
  Handlers = {h1, h2}
  Kinds = {"abort", "force-stop", "pause", "resume"}
  Timeout = 2
  Production = TRUE
  MaxCrashes = 1
SPECIFICATION FairSpec
CHECK_DEADLOCK FALSE
INVARIANTS TypeOK RunningHasMessage
PROPERTIES WatchdogIsPatient RunningEnds
