SPECIFICATION Spec
CONSTANTS
  NEvents = 3
  Malformed = {}
  BatchSize = 1
  BufferSize = 1
  Inflight = 2
  Dlq = TRUE
  MaxReloads = 1
  MaxPanics = 0
INVARIANTS
  CorrelationInOrder
