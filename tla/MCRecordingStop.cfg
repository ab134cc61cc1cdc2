SPECIFICATION Spec
CONSTANTS
  CheckpointChunks = 2
  MaxChunks = 3
  MaxFaults = 0
INVARIANT StopKeepsAudio
CHECK_DEADLOCK FALSE
