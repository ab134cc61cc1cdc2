SPECIFICATION FairSpec
CONSTANTS
  CheckpointChunks = 2
  MaxChunks = 4
  MaxFaults = 2
INVARIANTS TypeOK KillLosesAWindow HashMatchesObject
PROPERTIES PurgesOnlyOldAudio AudioIsRecovered
CHECK_DEADLOCK FALSE
