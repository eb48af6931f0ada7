CONSTANTS
  Sessions = {a, b}
  MaxTurns = 2
  MaxDeliveries = 1
  MaxCrashes = 1
  MaxRebinds = 2
  RebindWhileSubmitting = FALSE
  SaveMayFail = FALSE
SPECIFICATION FairSpec
INVARIANTS RecordMatchesReceipts TurnsNeverSplit EndIsLast
PROPERTIES OutboxSpec CleanupEndsSession
