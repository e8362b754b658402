SPECIFICATION Spec
CONSTANTS
  None = None
  NEvents = 2
  TimeOf <- MCTimeOf
  Hits = {1}
  Blank = {}
  Correlating = TRUE
  Starts <- MCStarts
  Savers = {"periodic", "final"}
  MaxRestarts = 1
  MaxRedeliver = 0
CHECK_DEADLOCK FALSE
INVARIANTS
  CutCoversAcks
  ForwardReplayIsSafe
  SavesForgetNothing
PROPERTIES
  OrderlyRestartKeepsState
