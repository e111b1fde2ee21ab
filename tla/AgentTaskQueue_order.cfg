\* Three tasks of two sessions and two priorities, a pool of two: one poll may
\* spawn a task for each session.
CONSTANTS
  a1 = a1
  a2 = a2
  s1 = s1
  s2 = s2
  Nobody = Nobody
  Tasks = {t1, t2, t3}
  Workers = {w1}
  Agents = {a1, a2}
  Sessions = {s1, s2}
  SessionOf <- Apart
  Priorities = {0, 50}
  Resolution = 2
  PoolSize = 2
  MaxCrashes = 0
  MaxExpiries = 0
  MaxCancels = 0
SPECIFICATION Spec
CHECK_DEADLOCK FALSE
SYMMETRY TaskSymmetry
INVARIANT PoolBound
PROPERTY BestPriorityFirst
