SPECIFICATION FairSpec
CONSTANTS
  None = None
  NEvents = 3
  TimeOf <- MCTimeOf
  Hits = {1}
  Blank = {3}
  Correlating = TRUE
  Starts <- MCClear
  Savers = {"final"}
  MaxRestarts = 1
  MaxRedeliver = 1
CHECK_DEADLOCK FALSE
PROPERTIES
  EveryMessageAcked
