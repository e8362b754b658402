SPECIFICATION FairSpec
CONSTANTS
  None = None
  Results = {"crit", "low", "both"}
  Alerts = {"high", "low"}
  FingerprintOf <- MCFingerprintOf
  Rules = {"0", "1"}
  EqualKeys = {"host"}
  Silences = {"s"}
  Mutes <- MCMutes
  Configs <- MCConfigs
  Repeat = 1
  Resolve = 2
  Forever = 2
  MaxLife = 1
INVARIANTS
  WithinCaps
  InhibitionIsExact
PROPERTIES
  FoldsReported
