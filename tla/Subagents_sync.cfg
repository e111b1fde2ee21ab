\* One subagent, one cancel, a crash of either side, an expiry, any number of polls.
CONSTANTS
  Subs = {t1}
  MaxActive = 1
  MaxCrashes = 2
  MaxExpiries = 1
SPECIFICATION FairSpec
CHECK_DEADLOCK FALSE
INVARIANTS TypeOK 
PROPERTIES CancelBeforeClaimIsFinal RowFollowsRecord
