SPECIFICATION Spec
CONSTANTS
  Batches <- MCBatches
  ServiceRows <- MCServiceRows
  EdgeRows <- MCEdgeRows
  Share <- MCShare
  MaxAttempts = 3
  NoName = NoName
INVARIANT SeenRange
