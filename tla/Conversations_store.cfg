\* One window of two agents that can share a conversation; two clicks, one request that fails or
\* page that loads.
CONSTANTS
  Windows = {w1}
  Agents = {a1, a2}
  Convs = {c1, c2}
  Texts = {t}
  None = None
  MaxCalls = 2
  MaxFaults = 1
SPECIFICATION Spec
CHECK_DEADLOCK FALSE
SYMMETRY Alikes
INVARIANTS TypeOK PointerAgrees InPlace NoGhosts
