SPECIFICATION Spec
CONSTANTS
  Tabs = {t1, t2}
  Calls = {me, c1}
  Me = me
  ReturnTokens = TRUE
  MaxPairs = 2
  MaxAdrift = 1
INVARIANTS TypeOK AlarmHasCause StaleCookieIsTransient SignOutHolds WaiterHasRefresh
SYMMETRY TabsAlike
CHECK_DEADLOCK FALSE
