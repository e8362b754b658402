SPECIFICATION FairSpec
CONSTANTS
  NEvents = 4
  Malformed = {2}
  BatchSize = 2
  BufferSize = 2
  Inflight = 2
  Dlq = TRUE
  MaxReloads = 1
  MaxPanics = 1
INVARIANTS
  OutputInOrder
  NothingPassesAPanic
  NoWindowUpdateLost
  WindowsContiguous
PROPERTIES
  NothingStranded
  DrainEnds
