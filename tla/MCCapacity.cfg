SPECIFICATION FairSpec
CONSTANTS
  r1 = r1
  r2 = r2
  r3 = r3
  e1 = e1
  e2 = e2
  e3 = e3
  Nobody = Nobody
  Runs = {r1, r2}
  Execs = {e1, e2, e3}
  RunOf <- SharedRun
  Limit = 1
INVARIANTS TypeOK CounterWithinLimit
PROPERTIES CountsExactly StrandedPlacesFreed
CHECK_DEADLOCK FALSE
