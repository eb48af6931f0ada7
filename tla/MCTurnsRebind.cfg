CONSTANTS
  Sessions = {a, b}
  MaxTurns = 2
  MaxDeliveries = 2
  MaxCrashes = 1
  MaxRebinds = 2
  RebindWhileSubmitting = TRUE
  SaveMayFail = FALSE
SPECIFICATION Spec
INVARIANT TurnsNeverSplit
