SPECIFICATION Spec
CONSTANTS
  None = None
  NEvents = 2
  TimeOf <- MCTimeOf
  Hits = {}
  Blank = {}
  Correlating = TRUE
  Starts <- MCReplays
  Savers = {"periodic"}
  MaxRestarts = 2
  MaxRedeliver = 0
CHECK_DEADLOCK FALSE
INVARIANTS
  ForwardReplayIsSafe
