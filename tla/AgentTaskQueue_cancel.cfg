\* A cancel command races the execution.
CONSTANTS
  a1 = a1
  a2 = a2
  s1 = s1
  s2 = s2
  Nobody = Nobody
  Tasks = {t1}
  Workers = {w1}
  Agents = {a1}
  Sessions = {s1}
  SessionOf <- Alone
  Priorities = {50}
  Resolution = 1
  PoolSize = 1
  MaxCrashes = 0
  MaxExpiries = 0
  MaxCancels = 1
SPECIFICATION Spec
CHECK_DEADLOCK FALSE
PROPERTY CancelIsFinal
