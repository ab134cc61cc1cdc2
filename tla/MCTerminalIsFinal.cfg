SPECIFICATION SpecLateSweep
CONSTANTS
  j1 = j1
  t1 = t1
  NoJob = NoJob
  Jobs = {j1}
  Tasks = {t1}
PROPERTY TerminalIsFinal
CHECK_DEADLOCK FALSE
