SPECIFICATION FairSpec
CONSTANTS
  Batches <- MCBatches
  ServiceRows <- MCServiceRows
  EdgeRows <- MCEdgeRows
  Share <- MCShare
  MaxAttempts = 3
  NoName = NoName
INVARIANTS IngestTypeOK NoLostUpdate NoWaitCycle BatchAtomic RowsExact
PROPERTY Answered
