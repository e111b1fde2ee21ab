\* Two workers with one slot each; a crash, an expiry and a cancel may all happen.
CONSTANTS
  a1 = a1
  a2 = a2
  s1 = s1
  s2 = s2
  Nobody = Nobody
  Tasks = {t1, t2}
  Workers = {w1, w2}
  Agents = {a1}
  Sessions = {s1}
  SessionOf <- Alone
  Priorities = {50}
  Resolution = 1
  PoolSize = 1
  MaxCrashes = 1
  MaxExpiries = 1
  MaxCancels = 1
SPECIFICATION Spec
CHECK_DEADLOCK FALSE
SYMMETRY TaskSymmetry
INVARIANTS TypeOK SingleClaim RecordTracksExecution NothingDropped
PROPERTY RunAtMostOnce
