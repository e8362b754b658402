SPECIFICATION FairSpec
CONSTANTS
  None = None
  Rules = {"r1"}
  Records <- MCRecords
  FileRecords <- MCFileRecords
  PushRecords <- MCPushRecords
  Window = 1
  Bucket = 2
  MaxSeen = 2
  MaxCount = 2
  MaxTime = 3
  MaxSaves = 1
  MaxRestarts = 1
INVARIANTS
  CountsAreExact
PROPERTIES
  VerdictsArrive
