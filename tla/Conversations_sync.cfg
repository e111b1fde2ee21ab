\* Two windows of one agent, and nothing fails.
CONSTANTS
  Windows = {w1, w2}
  Agents = {a1}
  Convs = {c1, c2}
  Texts = {t}
  None = None
  MaxCalls = 2
  MaxFaults = 0
SPECIFICATION Spec
CHECK_DEADLOCK FALSE
INVARIANT WindowsInSync
