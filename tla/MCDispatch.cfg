SPECIFICATION CalmFairSpec
CONSTANTS
  None = None
  Gone = Gone
  Bots = {b1}
  Workers = {w1, w2}
  Tasks = {t1, t2}
  MaxRuns = 1
  MaxMishaps = 2
INVARIANTS TypeOK AddedOnce OnItsWay
PROPERTIES QueuedRunsLeave
CHECK_DEADLOCK FALSE
