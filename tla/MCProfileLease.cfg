SPECIFICATION FairSpec
CONSTANTS
  r1 = r1
  r2 = r2
  r3 = r3
  NoKey = NoKey
  None = None
  Conflict = Conflict
  Failed = Failed
  Orphaned = Orphaned
  Requests = {r1, r2, r3}
  Claims = {r1, r2, r3}
  Asked <- Asks
  GuestGap = 2
  MaxTime = 2
  MaxMishaps = 1
INVARIANTS TypeOK KeyMeansOneRun OneActivePerMeeting GuestsPaced OneBotPerProfile
PROPERTIES SessionsKept LeaseComesFree
CHECK_DEADLOCK FALSE
