SPECIFICATION FairSpec
CONSTANTS
  j1 = j1
  t1 = t1
  NoJob = NoJob
  Jobs = {j1}
  Tasks = {t1}
INVARIANTS TypeOK RowTracksPod EventsFollowPipeline FinalRowsAreConsistent
PROPERTIES NoResurrection LiveRunsEnd
CHECK_DEADLOCK FALSE
