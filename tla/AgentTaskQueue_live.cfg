\* Liveness: two tasks of two sessions for one worker with one slot, two cancels.
CONSTANTS
  a1 = a1
  a2 = a2
  s1 = s1
  s2 = s2
  Nobody = Nobody
  Tasks = {t1, t2}
  Workers = {w1}
  Agents = {a1, a2}
  Sessions = {s1, s2}
  SessionOf <- Apart
  Priorities = {50}
  Resolution = 1
  PoolSize = 1
  MaxCrashes = 0
  MaxExpiries = 0
  MaxCancels = 2
SPECIFICATION FairSpec
CHECK_DEADLOCK FALSE
PROPERTY EveryTaskSettles
