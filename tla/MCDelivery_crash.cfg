SPECIFICATION Spec
CONSTANTS
  NoResult = NoResult
  Result = {r1, i1}
  Synthetic = {i1}
  NSinks = 2
  Lossy = {2}
  QueueDepth <- MCQueueDepth
  BatchMax <- MCBatchMax
  RetryMax <- MCRetryMax
  DlqDepth = 1
  MaxCrash = 1
INVARIANTS
  AckedIsSettled
  CleanShutdown
PROPERTIES
  ImplementsAckJoin
