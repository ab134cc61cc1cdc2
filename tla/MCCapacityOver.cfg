SPECIFICATION Spec
CONSTANTS
  r1 = r1
  r2 = r2
  r3 = r3
  e1 = e1
  e2 = e2
  e3 = e3
  Nobody = Nobody
  Runs = {r1, r2, r3}
  Execs = {e1, e2, e3}
  RunOf <- OwnRun
  Limit = 1
INVARIANT ActiveWithinLimit
CHECK_DEADLOCK FALSE
