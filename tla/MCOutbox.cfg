SPECIFICATION TendedSpec
CONSTANTS
  None = None
  Streams = {a}
  Senders = {p1, p2}
  MaxEvents = 2
  MaxAttempts = 2
  SendBatch = 50
  MaxMishaps = 2
INVARIANTS TypeOK
PROPERTIES DeliversInOrder SentStaysSent
CHECK_DEADLOCK FALSE
SYMMETRY AnySender
