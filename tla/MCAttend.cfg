SPECIFICATION FairSpec
CONSTANTS
  AdmissionPolls = 2
  MeetingPolls = 3
  MaxGlitches = 2
  MaxChunks = 3
  QueueLimit = 2
  Coverage = 40
  MinShare = 30
  Attempts = 2
  Voices <- Talks
  MaxFaults = 1
INVARIANTS TypeOK AdmittedByHost NothingReplayed NothingSaidIsLost
  NamesFromSharedSpeech StatusTellsTruth
PROPERTIES EndsWhenGone AttendEnds
CHECK_DEADLOCK FALSE
