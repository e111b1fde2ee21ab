\* Three messages and two compactions with different splits, one crash.
CONSTANTS
  Said = {m1, m2, m3}
  Jobs = {j1, j2}
  Preserves = {0, 1, 2}
  MaxCrashes = 1
SPECIFICATION FairSpec
CHECK_DEADLOCK FALSE
INVARIANTS TypeOK NothingForgotten ToldOnce
PROPERTIES RecentSurvives CompactionEnds
