SPECIFICATION SpecWithoutRedis
CONSTANTS
  j1 = j1
  j2 = j2
  t1 = t1
  t2 = t2
  NoJob = NoJob
  Jobs = {j1, j2}
  Tasks = {t1, t2}
SYMMETRY Symmetry
INVARIANT OneParticipant
CHECK_DEADLOCK FALSE
