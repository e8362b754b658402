SPECIFICATION FairSpec
CONSTANTS
  NoResult = NoResult
  Result = {r1, r2}
  Synthetic = {}
  NSinks = 2
  Lossy = {2}
  QueueDepth <- MCQueueDepth
  BatchMax <- MCBatchMax
  RetryMax <- MCRetryMax
  DlqDepth = 1
  MaxCrash = 0
INVARIANTS
  OneOutcome
  NoFailureVanishes
PROPERTIES
  AckEventually
  DrainCompletes
  LossyNeverStalls
