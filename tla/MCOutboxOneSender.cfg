SPECIFICATION TendedFairSpec
CONSTANTS
  None = None
  Streams = {a}
  Senders = {p1}
  MaxEvents = 3
  MaxAttempts = 2
  SendBatch = 50
  MaxMishaps = 1
INVARIANTS SequencesFollowEmission
PROPERTIES WaitingEnds
CHECK_DEADLOCK FALSE
