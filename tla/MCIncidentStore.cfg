SPECIFICATION FairSpec
CONSTANTS
  None = None
  Surrogates = {u1, u2}
  Keys = {k}
  Values <- MCValues
  SelectorOf <- MCSelectorOf
  StopValues = {"-"}
  Results <- MCResults
  Configs <- MCConfigs
  GroupWait = 1
  GroupInterval = 2
  Repeat = 1
  Resolve = 2
  MaxRestarts = 1
INVARIANTS
  TypeOK
  IndexAgrees
  WithinMaxOpen
PROPERTIES
  ImplementsGroups
  EveryResultReported
  IdleResolves
